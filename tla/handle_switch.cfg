SPECIFICATION Spec
CONSTANTS
  h1 = h1
  h2 = h2
  oa = oa
  ob = ob
  oc = oc
  Handles <- OneHandle
  Ops <- TwoOps
  Codes = {1, 2}
  WeakCAS = {"unlock"}
  Cancels = TRUE
  Siblings = FALSE
INVARIANT OnePending
CHECK_DEADLOCK FALSE
