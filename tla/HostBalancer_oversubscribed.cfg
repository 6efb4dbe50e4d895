\* Two refreshes of different users and one seat.
CONSTANTS
  Null = Null  Pending = Pending  Original = Original  Hidden = Hidden
  h1 = h1  h2 = h2  n1 = n1  n2 = n2  i1 = i1
  Hosts = {h1}
  Users = {u1, u2}
  Nodes = {n1}
  Inbounds = {i1}
  Workers = {w1, w2}
  Admins = {a1}
  RequiredInbound <- EveryHostNeedsInbound
  NodeStates <- OnlyReady
  TrafficLevels = {}
  InitSettings <- LeastAssigned
  Drafts <- OneSeat
  Patches = {}
  MaxSaves = 1
  AuditEnabled = FALSE
  Events = {}
SPECIFICATION Spec
INVARIANTS MaxAssignedRespected
