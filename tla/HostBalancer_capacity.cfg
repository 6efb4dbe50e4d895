\* Two refreshes at a time, three users, two targets with one seat each; the
\* traffic-aware strategy may move anyone on every refresh.
CONSTANTS
  Null = Null  Pending = Pending  Original = Original  Hidden = Hidden
  h1 = h1  h2 = h2  n1 = n1  n2 = n2  i1 = i1
  Hosts = {h1}
  Users = {u1, u2, u3}
  Nodes = {n1, n2}
  Inbounds = {i1}
  Workers = {w1, w2}
  Admins = {a1}
  RequiredInbound <- EveryHostNeedsInbound
  NodeStates <- OnlyReady
  TrafficLevels = {0, 1}
  InitSettings <- TrafficKeepLast
  Drafts <- OneSeatEach
  Patches = {}
  MaxSaves = 1
  AuditEnabled = FALSE
  Events = {}
SPECIFICATION Spec
INVARIANTS OversubscriptionBounded SeatsBounded
