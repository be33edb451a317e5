SPECIFICATION ImportSpec
CONSTANTS
    None = None
    OpApplyError = OpApplyError
    NoWord = NoWord
    NoName = NoName
    MaxCompletions = 3
    MaxTermCompletions = 1
    UnknownType = UnknownType
    ImportWords <- MCImportWords
    ImportRules <- MCImportRules
    ExportedSchemas <- MCExportedSchemas
    FirstSchemas <- MCFirstSchemas
    Texts <- MCTextsAlike
    PeerTables <- MCPeerTables
    NoImport = NoImport
    MaxPeerMoves = 1
    MaxTries = 2
    MaxExports = 3
INVARIANT
    GroupsKeepTablesApart
CHECK_DEADLOCK FALSE
