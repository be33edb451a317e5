SPECIFICATION Spec
CONSTANTS
    None = None
    OpApplyError = OpApplyError
    NoPlace = NoPlace
    Unnamed = "unnamed"
    Start <- MCStart
    Edits <- MCEdits
    NewTable <- MCNewTable
    NewIds <- MCNewIds
    MaxTheirs = 2
    MaxMine = 2
    MaxNew = 1
    MaxEdits = 3
    MaxRuns = 2
    MaxCuts = 1
INVARIANTS
    PlansAreAccepted
    NoCopies
PROPERTIES
    NeverOverwrites
    OwnEditsArrive
CHECK_DEADLOCK FALSE
