\* Rows disappear under a refresh that records its decisions and two administrators,
\* with a list whose second target is draining.
CONSTANTS
  Null = Null  Pending = Pending  Original = Original  Hidden = Hidden
  h1 = h1  h2 = h2  n1 = n1  n2 = n2  i1 = i1
  Hosts = {h1, h2}
  Users = {u1}
  Nodes = {n1}
  Inbounds = {i1}
  Workers = {w1}
  Admins = {a1, a2}
  RequiredInbound <- EveryHostNeedsInbound
  NodeStates <- OnlyReady
  TrafficLevels = {}
  InitSettings <- Unconfigured
  Drafts <- ActiveAndDraining
  Patches <- SwitchOn
  MaxSaves = 3
  AuditEnabled = TRUE
  Events = {"deleteNode", "deleteUser", "deleteHost"}
SYMMETRY HostsAndAdmins
SPECIFICATION Spec
INVARIANTS IInv SavesMergedBounded AssignmentIntegrity AuditCoversAnswers
PROPERTIES NewAssignmentsAreActive ImplementsBook
CHECK_DEADLOCK FALSE
