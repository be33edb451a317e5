SPECIFICATION Spec
CONSTANTS
    None = None
    OpApplyError = OpApplyError
    Entities <- MCEntities
    NoWord = NoWord
    NoName = NoName
    MaxCompletions = 3
    MaxTermCompletions = 1
    FirstNames <- MCFirstNames
    TypedNames <- MCTypedNames
    PeerNames <- MCPeerNames
    Dictionaries <- MCDictionaries
    NewWord <- MCNewWord
    PairTerms <- MCTerms
    PairRules <- MCRules
    MaxActs = 4
    MaxPeerSteps = 1
INVARIANTS
    ChunksAddUp
    RowsFollowModel
    LoggedHistoryRollsBack
    NothingTypedIsLost
    HandSetKept
    NamesReadBack
CHECK_DEADLOCK FALSE
