SPECIFICATION Spec
CONSTANTS
  Tickets = {t1}
  Requests = {r1, r2}
  Humans = {ann}
  Virtuals = {bot}
  Admins = {}
  Employees = {}
  Targets = {ann}
  Inactive = {}
  Handlers = {h1,h2}
  Consumers = {c1}
  Sweepers = {s1}
  None = None
  MaxInFlight = 2
  MaxCrashes = 0
SYMMETRY Symmetry
INVARIANT OnePendingRequest
