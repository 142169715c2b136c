SPECIFICATION Spec
CONSTANTS
    kMaxPlayers = 3
    kMinPlayersToStart = 2
    CountdownTicks = 2
    MatchTicks = 2
    ResultsTicks = 2
    KickTicks = 1
INVARIANTS
    LobbyAsPlanned
