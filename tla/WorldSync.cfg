SPECIFICATION Spec
CONSTANTS
    Member = {0, 1}
    Capacity = 2
    Quorum = 1
    TickSpan = 3
    kMinSnapshotsForPlay = 3
    kInterpBufferMaxSnapshots = 3
    Frames = 1
    ChanBound = 2
    MaxRestarts = 1
INVARIANTS SpawnedBeforePlay OneOwnStrike SameMap
PROPERTIES NoStateSkipped CopyCatchesUp PlayIsReached PredictionSettles
CHECK_DEADLOCK FALSE
