CONSTANTS
    DocId = {d1, d2}
    RunId = {r1}
    PageId = {pg1, pg2}
    Pg1 = pg1
    Pg2 = pg2
    Look = {look}
    Title = {title}
    FolderId = {}
    None = None
    Blank = Blank
    AppDoc <- MCSmallDocs
    MaxTimers = 1
    Disturb = {"restart"}
SPECIFICATION FairSpec
PROPERTIES
    RunningSettles
CHECK_DEADLOCK FALSE
