SPECIFICATION FairSpec
CONSTANTS
  c1 = c1
  c2 = c2
  o1 = o1
  o2 = o2
  o3 = o3
  Clients <- MCClients
  Ops <- MCOps
  Half = 8
  Builds = {TRUE, FALSE}
  MaxShutdowns = 1
  MaxPosts = 0
PROPERTY JoinReturns
