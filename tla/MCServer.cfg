SPECIFICATION FairSpec
CONSTANTS
    None = None
    Failure = Failure
    OpApplyError = Failure
    NoOne = NoOne
    Model <- RenameModel
    Batch <- RenameBatch
    Empty = 1
    NoOps = 0
    Apply <- ApplyIt
    Persist <- PersistIt
    Rewrite <- RewriteIt
    Diff <- DiffIt
    Invert <- InvertIt
    Chunks <- ChunkIt
    Request = {r1, r2}
    Snapshot = {s1}
    Kinds = {"mutate", "push", "get", "snapshot", "restore", "delete"}
    MaxRequests = 3
    MaxCrashes = 1
INVARIANTS
    LogReplays
    PushLandsOnItsBase
    RestoreReproducesSnapshot
    SnapshotsAreVersions
PROPERTIES
    ImplementsRevisionLog
    EveryRequestEnds
CHECK_DEADLOCK FALSE
