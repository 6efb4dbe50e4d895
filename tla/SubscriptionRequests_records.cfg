CONSTANTS
  Null = Null
  Hwids = {h1, h2}
  Requests = {r1, r2}
  Admins = {a1}
  Limits <- AnyLimit
  Settings <- OnAndOff
  MaxFaults = 1
  KeepHistory = 2
  KeepDecisions = 1
  MaxClock = 5
  MaxLogFaults = 2
SYMMETRY Alike
SPECIFICATION PartsSpec
INVARIANTS TypeOK LimitKept UpsertsHaveCause HistoryKept DecisionsKept
PROPERTIES KnownIsServed
CHECK_DEADLOCK FALSE
