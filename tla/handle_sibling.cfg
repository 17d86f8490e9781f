SPECIFICATION FairSpec
CONSTANTS
  h1 = h1
  h2 = h2
  oa = oa
  ob = ob
  oc = oc
  Handles <- OneHandle
  Ops <- TwoOps
  Codes = {1}
  WeakCAS = {"unlock"}
  Cancels = FALSE
  Siblings = TRUE
PROPERTY FutureCompletes
CHECK_DEADLOCK FALSE
