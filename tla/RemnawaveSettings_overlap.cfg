\* Two updates at a time, a cached read, crashes; does the cache come to agree with
\* the row?
CONSTANTS
  Null = Null
  Methods = {"password", "github"}
  Password = "password"
  InitRow <- Seeded
  Bodies <- AllBodies
  Admins = {a1, a2}
  Readers = {r1, r2}
  MaxUpdates = 4
  Events = {"crash"}
SPECIFICATION FairSpec
INVARIANTS EnabledMethodsAreComplete NobodyLockedOut
PROPERTIES EventuallyFresh
