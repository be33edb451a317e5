SPECIFICATION LinksSpec
CONSTANTS
    Absent = Absent
    Emails = {e1, e2}
    Links = {l1, l2, l3}
    LinkHandlers = {k1, k2}
    MaxLinkFlows = 4
    MaxAllFlows = 5
SYMMETRY Symmetry
PROPERTY
    LastOwnerStays
