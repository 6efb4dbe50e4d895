CONSTANTS
  Nodes = {n1}
  Users = {u1}
  Multiplier <- Half
  Amounts = {2,3}
  IgnoreBelow = 3
  MaxTraffic = 6
  MaxFaults = 1
SPECIFICATION FairSpec
INVARIANTS TypeOK CountedOnce BufferIsCovered ChargedOnce GreetedOnce PauseHasOwner
PROPERTIES EverythingArrives
CHECK_DEADLOCK FALSE
