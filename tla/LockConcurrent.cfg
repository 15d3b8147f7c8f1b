SPECIFICATION Spec
CONSTANTS
  Tickets = {t1}
  Users = {ann, bob, eve}
  Admins = {eve}
  Handlers = {h1, h2}
  Janitors = {j1}
  None = None
  Ttl = 4
  Half = 2
  MaxInFlight = 3
  MaxCrashes = 0
SYMMETRY Symmetry
INVARIANT KeyOutlivesLease
PROPERTIES LostOnlyBy
