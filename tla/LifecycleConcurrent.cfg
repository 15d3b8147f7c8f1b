SPECIFICATION FairSpec
CONSTANTS
  Tickets = {t1}
  Requests = {r1}
  Humans = {ann, bob}
  Virtuals = {}
  Admins = {}
  Employees = {}
  Targets = {ann}
  Inactive = {}
  Handlers = {h1}
  Consumers = {c1}
  Sweepers = {s1}
  None = None
  MaxInFlight = 3
  MaxCrashes = 1
INVARIANTS NewIsUnassigned ResolvedIsStamped
PROPERTIES OfflineLosesTicket NewIsAssigned
