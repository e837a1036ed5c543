CONSTANTS
    PageId = {p1, p2, p3}
    P1 = p1
    P2 = p2
    P3 = p3
    FirstPages <- MCFirst
    Scanned <- MCScanned
    DetectId = {s1, s2}
    CropId = {c1, c2}
    MaxBegun = 4
    None = None
SPECIFICATION Spec
INVARIANTS
    TypeOK
    DraftAsSeen
    QuadOfShown
    NeverStuck
PROPERTIES
    CropsStayOnPage
SYMMETRY MCSymmetry
CHECK_DEADLOCK FALSE
