\* One node, and a second profile whose restarts pause the same queue.
CONSTANTS
  Null = Null  n1 = n1  p1 = p1  p2 = p2
  Nodes = {n1}
  Profiles = {p1, p2}
  ProfileOf <- OneProfile
  GlobalConcurrency = 3
  MaxRequests = 2
  Events = {"restart", "update", "enable", "disable", "delete", "profile", "health", "lookup", "crash"}
SPECIFICATION FairSpec
INVARIANTS TypeOK ConnectingHasOwner PausedHasOwner
PROPERTIES RestartIsSeen StartIsTaken NothingStaysConnecting
\* Requests are bounded, and without them there may be nothing left to do.
CHECK_DEADLOCK FALSE
