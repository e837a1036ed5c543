CONSTANTS
    DocId = {d1, d2, d3}
    RunId = {r1}
    PageId = {pg1, pg2}
    Pg1 = pg1
    Pg2 = pg2
    Look = {look}
    Title = {title}
    FolderId = {}
    None = None
    Blank = Blank
    AppDoc <- MCSmallDocs
    MaxTimers = 2
    HasVision = TRUE
    Disturb = {"remove"}
SPECIFICATION FairPipelineSpec
INVARIANTS
    PipelineTypeOK
PROPERTIES
    ImplementsQueue
    QueuedSettles
    RunningSettles
CHECK_DEADLOCK FALSE
