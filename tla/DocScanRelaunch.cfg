CONSTANTS
    DocId = {d1, d2}
    PageId = {pg1, pg2}
    Title1 = title1
    Look1 = look1
    Pg1 = pg1
    Pg2 = pg2
    Look = {look1}
    Title = {title1}
    FolderId = {}
    None = None
    Blank = Blank
    NewDocs <- MCTwoDocs
    Scans = {}
    MaxPages = 1
    MaxCalls = 1
    FramesAfterCommit = FALSE
    Events = {"background", "relaunch"}
    RunId = {r1, r2}
    MaxTimers = 2
SPECIFICATION Spec
INVARIANTS
    TypeOK
    SettledMatches
    SingleWorker
    NoLostWakeup
PROPERTIES
    Durable
SYMMETRY MCSymmetry
