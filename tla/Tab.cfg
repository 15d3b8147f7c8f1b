SPECIFICATION FairSpec
CONSTANTS
    Sockets = {s1, s2}
    None = None
    MaxCalls = 2
INVARIANTS
    OneChain
    NoChainSignedOut
    BannerDownWhileConnected
PROPERTIES
    DeafOnlyByResurrection
    Reconnects
    OnlineAgain
CHECK_DEADLOCK FALSE
