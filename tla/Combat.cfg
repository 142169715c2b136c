SPECIFICATION CombatSpec
CONSTANTS
    kMaxPlayers = 2
    kMinPlayersToStart = 2
    CountdownTicks = 1
    MatchTicks = 3
    ResultsTicks = 1
    KickTicks = 1
    hitsToCharge = 1
    HitAge = 2
    EndAge = 3
    kMaxEnemies = 2
    MaxEnemyId = 3
    Presses = {{}, {"attack", "thunder"}}
INVARIANTS
    CombatTypeOK
    KillsEarned
    OneStrikePerCaster
    StrikesPaid
PROPERTIES
    EnemiesChaseContestants
