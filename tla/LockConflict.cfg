SPECIFICATION Spec
CONSTANTS
  Tickets = {t1}
  Users = {ann, bob}
  Admins = {}
  Handlers = {h1, h2}
  Janitors = {}
  None = None
  Ttl = 4
  Half = 2
  MaxInFlight = 2
  MaxCrashes = 0
PROPERTIES HeldNotOverwritten
