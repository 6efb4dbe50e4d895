\* Does refreshing come to rest?  Two refreshes, two users, saves that end.
CONSTANTS
  Null = Null  Pending = Pending  Original = Original  Hidden = Hidden
  h1 = h1  h2 = h2  n1 = n1  n2 = n2  i1 = i1
  Hosts = {h1}
  Users = {u1, u2}
  Nodes = {n1, n2}
  Inbounds = {i1}
  Workers = {w1, w2}
  Admins = {a1}
  RequiredInbound <- EveryHostNeedsInbound
  NodeStates <- OnlyReady
  TrafficLevels = {}
  InitSettings <- LeastAssigned
  Drafts <- Plain
  Patches = {}
  MaxSaves = 2
  AuditEnabled = FALSE
  Events = {}
SPECIFICATION FairSpec
PROPERTIES EventuallySettled RefreshCompletes
