CONSTANTS
    DocId = {d1, d2}
    RunId = {r1, r2}
    PageId = {pg1, pg2}
    Pg1 = pg1
    Pg2 = pg2
    Look = {look}
    Title = {title}
    FolderId = {}
    None = None
    Blank = Blank
    AppDoc <- MCOneDoc
    MaxTimers = 1
    Disturb = {"write", "cancel", "restart"}
SPECIFICATION Spec
INVARIANTS
    NoLostWakeup
    NoDuplicateWork
SYMMETRY MCSymmetry
