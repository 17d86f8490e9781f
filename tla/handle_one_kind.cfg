SPECIFICATION Spec
CONSTANTS
  h1 = h1
  h2 = h2
  oa = oa
  ob = ob
  oc = oc
  Handles <- TwoHandles
  Ops <- TwoOps
  Codes = {1}
  WeakCAS = {"unlock"}
  Cancels = TRUE
  Siblings = TRUE
SYMMETRY Symmetry
INVARIANTS TypeOK OnePending GuardExclusive LockWordMeaning CollectsFinished DropCancels RefsBalance
PROPERTY ImplementsResource
CHECK_DEADLOCK FALSE
