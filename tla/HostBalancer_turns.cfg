\* Two refreshes at a time, of different users, while a list is replaced, both nodes
\* come and go, statements fail and processes die; the second target is a reserve.
CONSTANTS
  Null = Null  Pending = Pending  Original = Original  Hidden = Hidden
  h1 = h1  h2 = h2  n1 = n1  n2 = n2  i1 = i1
  Hosts = {h1}
  Users = {u1, u2}
  Nodes = {n1, n2}
  Inbounds = {i1}
  Workers = {w1, w2}
  Admins = {a1}
  RequiredInbound <- EveryHostNeedsInbound
  NodeStates <- ReadyOrStarting
  TrafficLevels = {}
  InitSettings <- Failover
  Drafts <- MainAndReserve
  Patches = {}
  MaxSaves = 2
  AuditEnabled = FALSE
  Events = {"nodeState", "db", "crash"}
SPECIFICATION TurnSpec
INVARIANTS AnsweredIsAssigned
PROPERTIES StickyStability
