SPECIFICATION Spec
CONSTANTS
    None = None
    First = First
    MaxLeft = 2
    MaxRight = 1
    TrunkNames = {None, 2}
INVARIANTS
    BranchesReplay
CHECK_DEADLOCK FALSE
