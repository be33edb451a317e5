SPECIFICATION SpecAll
CONSTANTS
    None = None
    Handlers = {h1, h2}
    MaxFlows = 2
    MaxEdits = 1
    MaxRequests = 1
    StartItems <- MCStartItems
    StartModel <- MCStartModel
    Data <- MCData
    EntityEdits <- MCEntityEdits
    FileEdits <- MCFileEdits
    Absent = Absent
    Emails = {e1, e2}
    Links = {l1, l2, l3}
    LinkHandlers = {k1, k2}
    MaxLinkFlows = 4
    MaxAllFlows = 5
SYMMETRY Symmetry
INVARIANTS
    RequestTellsWhatLanded
    PlansSettle
    UsedOnce
    ReissueKillsEarlier
PROPERTIES
    PromoteReplacesWhatWasSeen
    ImportAppliesPreview
    StaleCheckTakesLastOwner
