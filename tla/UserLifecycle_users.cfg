CONSTANTS
  Null = Null
  Users = {u1}
  Nodes = {n1}
  Squads = {"full", "far", "void"}
  Inbounds = {"vless", "trojan"}
  SquadInbounds <- SquadsInbounds
  NodeInbounds <- NodesInbounds
  Admins = {a1, a2}
  InitRows <- AnyRow
  Bodies <- AnyBody
  NewRows <- FreshRows
  MaxInputs = 3
  Events = {"create", "disable", "enable", "extend", "reset", "revoke", "delete", "update", "bulkExtend", "deleteByStatus", "traffic", "time", "resetAll", "nodes", "crash"}
SPECIFICATION FairSpec
INVARIANTS TypeOK AccessConverges StatusHasReason IInv
PROPERTIES ExpiredIsCutOff
CHECK_DEADLOCK FALSE
