SPECIFICATION ServerSpec
CONSTANTS
    kMaxPlayers = 2
    kMinPlayersToStart = 1
    CountdownTicks = 2
    MatchTicks = 2
    ResultsTicks = 2
    KickTicks = 1
    EnetPeers = {e1, e2}
    StreamPeers = {s1}
    NoPeer = NoPeer
    e1 = e1
    e2 = e2
    s1 = s1
INVARIANTS
    FreshConnectionMayJoin
