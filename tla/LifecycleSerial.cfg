SPECIFICATION Spec
CONSTANTS
  Tickets = {t1}
  Requests = {r1, r2}
  Humans = {ann}
  Virtuals = {bot}
  Admins = {}
  Employees = {}
  Targets = {ann, bot}
  Inactive = {}
  Handlers = {h1}
  Consumers = {c1}
  Sweepers = {s1}
  None = None
  MaxInFlight = 1
  MaxCrashes = 0
SYMMETRY Symmetry
INVARIANTS OnePendingRequest PendingFlagAgrees SavedStatusAgrees InProgressAnswered
PROPERTIES ReviewedIsFinal ReopenedOnlyBy
