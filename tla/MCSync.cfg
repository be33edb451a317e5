SPECIFICATION FairSyncSpec
CONSTANTS
    Failure = Failure
    Model <- PairModel
    Batch <- PairBatch
    Empty = 1
    NoOps = 0
    Apply <- ApplyIt
    Persist <- PersistIt
    Rewrite <- RewriteIt
    Diff <- DiffIt
    Invert <- InvertIt
    Chunks <- ChunkIt
    Author <- Authors
    Client = {c1}
    Other = Other
    HISTORY_CAP = 2
    MaxEdits = 3
    MaxOthers = 1
    MaxRefetches = 1
    MaxFaults = 2
    MaxSwitches = 1
    MaxRestores = 1
    Mixtures <- MCMixtures
INVARIANTS
    ModelAtSeq
    UndoWalksBack
PROPERTIES
    Converge
    ChainDrains
CHECK_DEADLOCK FALSE
