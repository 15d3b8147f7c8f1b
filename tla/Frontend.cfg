SPECIFICATION FairSpec
CONSTANTS
    Tickets = {t1, t2}
    Roles = {"employee", "technician_human", "technician_virtual", "admin"}
    None = None
    MaxNet = 2
    MaxCalls = 2
INVARIANTS
    TypeOK
    LinksLead
    ShowsWhatItSays
    SpinnerEnds
CHECK_DEADLOCK FALSE
PROPERTIES
    RedirectsEnd
    PolledCatchesUp
    TicketCatchesUp
    LeftLockReturns
