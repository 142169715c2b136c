SPECIFICATION Spec
CONSTANTS
    maxClients = 2
    Addresses = {1, 2}
    MaxAttempts = 2
    PacketBound = 1
    ConnectBound = 2
INVARIANTS EventsMatchPeers ConnectIsMutual
PROPERTIES IsPeerEvents PeersAreFreed ClientIsTold
CHECK_DEADLOCK FALSE
