SPECIFICATION FairClientSpec
CONSTANTS
    Transports = {"enet", "stream", "web"}
    InboxBound = 2
    AttemptBound = 2
    LateClose = TRUE
INVARIANTS
    SessionIsWhole
    NoSilentSession
PROPERTIES
    TitleLeftByJoining
    AttemptsEnd
    LostSessionEnds
CHECK_DEADLOCK FALSE
