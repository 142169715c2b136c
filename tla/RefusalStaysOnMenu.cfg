SPECIFICATION ClientSpec
CONSTANTS
    Transports = {"enet", "stream", "web"}
    InboxBound = 2
    AttemptBound = 2
    LateClose = TRUE
INVARIANTS
    RefusalStaysOnMenu
CHECK_DEADLOCK FALSE
