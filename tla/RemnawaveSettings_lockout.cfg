\* Two updates of the login methods overlap.
CONSTANTS
  Null = Null
  Methods = {"password", "github"}
  Password = "password"
  InitRow <- Seeded
  Bodies <- LoginBodies
  Admins = {a1, a2}
  Readers = {r1}
  MaxUpdates = 4
  Events = {}
SPECIFICATION Spec
INVARIANTS SomeMethodEnabled
