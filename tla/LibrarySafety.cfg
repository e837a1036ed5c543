CONSTANTS
    DocId = {d1}
    PageId = {pg1, pg2}
    Title1 = title1
    Pg1 = pg1
    Pg2 = pg2
    Look = {look}
    Title = {title1, title2}
    FolderId = {f1}
    None = None
    Blank = Blank
    NewDocs <- MCNewDocs
    Scans <- MCScans
    OcrResult <- MCResults
    MaxPages = 2
    MaxCalls = 1
    FramesAfterCommit = FALSE
    Events = {"background", "relaunch"}
SPECIFICATION Spec
INVARIANTS
    TypeOK
    SettledMatches
PROPERTIES
    Durable
