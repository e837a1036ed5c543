CONSTANTS
    DocId = {d1, d2}
    RunId = {r1, r2}
    PageId = {pg1, pg2}
    Pg1 = pg1
    Pg2 = pg2
    Look = {look}
    Title = {title}
    FolderId = {}
    None = None
    Blank = Blank
    AppDoc <- MCDocs
    MaxTimers = 2
    Disturb = {"write", "remove"}
SPECIFICATION Spec
INVARIANTS
    TypeOK
    NoLostWakeup
    NoDuplicateWork
    SingleWorker
    RunningHasWorker
    DoneMeansRead
PROPERTIES
    FinishedIsFinal
    ImplementsService
SYMMETRY MCSymmetry
