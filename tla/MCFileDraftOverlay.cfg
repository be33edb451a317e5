SPECIFICATION Spec
CONSTANTS
    Content <- Contents
    Broken = "broken"
    Model <- Models
    Edited <- Edits
    Parse <- ParseIt
    Render <- RenderIt
    Assign <- AssignIt
    Failure = Failure
    None = None
    EmptyModel <- NoModel
    InitialFiles <- Start0
    Writings <- Outside
    MAX_LOAD_ATTEMPTS = 2
    MaxEvents = 3
    MayFail = FALSE
    MaxReads = 2
INVARIANTS
    DraftOverlayIsTold
CHECK_DEADLOCK FALSE
