SPECIFICATION SpecAll
CONSTANTS
    None = None
    OpApplyError = OpApplyError
    Names = {1, 2, 3}
    FirstNewId = 50
    MaxEdits = 2
    Starts <- MCStarts
    First = First
    MaxLeft = 2
    MaxRight = 1
    TrunkNames = {None, 2}
    NoWord = NoWord
    NoName = NoName
    MaxCompletions = 3
    MaxTermCompletions = 1
    UnknownType = UnknownType
    ImportWords <- MCImportWords
    ImportRules <- MCImportRules
    ExportedSchemas <- MCExportedSchemas
    FirstSchemas <- MCFirstSchemas
    Texts <- MCTexts
    PeerTables <- MCPeerTables
    NoImport = NoImport
    MaxPeerMoves = 1
    MaxTries = 2
    MaxExports = 3
INVARIANTS
    SelfCheckHolds
    BaselineIsWhole
    ChangesOfBothArrive
    NamesFreeInOrder
    ExportsReadBack
    LandsAsShown
    NoSecondTable
    OfferedEditsLand
PROPERTIES
    ShownIsWhatHappens
CHECK_DEADLOCK FALSE
