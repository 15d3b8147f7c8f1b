SPECIFICATION FairSpec
CONSTANTS
  Tickets = {t1, t2}
  Users = {ann, eve}
  Admins = {eve}
  Handlers = {h1}
  Janitors = {j1}
  None = None
  Ttl = 4
  Half = 2
  MaxInFlight = 1
  MaxCrashes = 1
INVARIANTS ActiveIsAnnounced
PROPERTIES LeaseSpec JanitorOnlyAtTheEnd SilentHolderLoses
