\* The balancer is switched off while a request fills the cache.
CONSTANTS
  Null = Null
  Methods = {"password", "github"}
  Password = "password"
  InitRow <- Seeded
  Bodies <- SwitchBodies
  Admins = {a1}
  Readers = {r1, r2}
  MaxUpdates = 1
  Events = {}
SPECIFICATION Spec
PROPERTIES GlobalSwitchHonoured
