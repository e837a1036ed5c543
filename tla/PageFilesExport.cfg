CONSTANTS
    DocId = {d1, d2}
    PageId = {p1, p2, p3, p4, p5}
    D1 = d1
    D2 = d2
    P1 = p1
    P2 = p2
    P3 = p3
    P4 = p4
    P5 = p5
    Png = {p2}
    Picks <- MCPicks
    Additions <- MCAdditions
    Editable = {p2, p4}
    Batches <- MCBatches
    Turns = 2
    OpId = {o1, o2}
    MaxPages = 3
    MaxBegun = 4
    None = None
SPECIFICATION Spec
INVARIANTS
    ShownIsStored
CHECK_DEADLOCK FALSE
