SPECIFICATION Spec
CONSTANTS
  c1 = c1
  c2 = c2
  o1 = o1
  o2 = o2
  o3 = o3
  Clients <- MCClients
  Ops <- MCThreeOps
  Half = 8
  Builds = {TRUE, FALSE}
  MaxShutdowns = 2
  MaxPosts = 2
SYMMETRY Symmetry
INVARIANTS TypeOK PendingBalance NegativeIffShutDown DrainedAtExit
PROPERTY NoPermitAfterShutdown
