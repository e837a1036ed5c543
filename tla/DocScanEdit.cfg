CONSTANTS
    DocId = {d1}
    PageId = {pg1, pg2}
    Title1 = title1
    Look1 = look1
    Pg1 = pg1
    Pg2 = pg2
    Look = {look1, look2}
    Title = {title1}
    FolderId = {}
    None = None
    Blank = Blank
    NewDocs <- MCScan
    Scans = {}
    MaxPages = 2
    MaxCalls = 0
    FramesAfterCommit = TRUE
    Events = {"relaunch"}
    RunId = {r1, r2}
    MaxTimers = 2
SPECIFICATION FairSpec
PROPERTIES
    TextMatchesLook
CHECK_DEADLOCK FALSE
