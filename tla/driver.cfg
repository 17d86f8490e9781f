SPECIFICATION FairSpec
CONSTANTS
  h1 = h1
  h2 = h2
  oa = oa
  ob = ob
  Handles <- TwoHandles
  Ops <- TwoOps
  Codes = {1}
  WeakCAS = {"unlock"}
  Half = 8
  Builds = {TRUE, FALSE}
  MaxShutdowns = 2
  MaxFutures = 2
  Outcomes = {"ok", "aborted"}
INVARIANTS SignKept ClosedWhenUnused DrainedAtClose NoneStranded
  CollectsOwn 
PROPERTIES ImplementsHandle CompletionsArrive
  FutureResolves JoinReturns
CHECK_DEADLOCK FALSE
