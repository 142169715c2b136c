SPECIFICATION FairStreamSpec
CONSTANTS
    kMaxClients = 3
    Ids = {0}
    InboxBound = 2
    EndedBound = 1
    Posix = FALSE
INVARIANTS
    ListIsOpenSockets
    NoOrphanPlayers
PROPERTIES
    EverybodyIsServed
