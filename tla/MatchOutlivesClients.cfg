SPECIFICATION StreamSpec
CONSTANTS
    kMaxClients = 2
    Ids = {0, 1}
    InboxBound = 1
    EndedBound = 1
    Posix = TRUE
INVARIANTS
    MatchOutlivesClients
CHECK_DEADLOCK FALSE
