------------------------------ MODULE OcrQueue ------------------------------
(***************************************************************************)
(* The OCR queue: class OcrQueue of src/src/ocr/queue.ts.                  *)
(*                                                                         *)
(* JavaScript runs one piece of code at a time, so an action is everything *)
(* the queue does between two awaits: enqueueDoc, cancel and the timer     *)
(* callback run from their first line to the first await they reach, and a *)
(* run (one call of processDocument) continues when the native call it     *)
(* awaits answers.  The documents index is shared with the rest of the     *)
(* app, which may rewrite or delete a document between any two steps.      *)
(***************************************************************************)
EXTENDS DocStore

CONSTANTS
    RunId,      \* slots for calls of processDocument in flight (a bound)
    MaxTimers,  \* bound on the wake-up timers armed when work is submitted
    AppDoc,     \* what the rest of the app may write for a document
    Disturb     \* the events of the environment that a run allows

ASSUME QueueAssumption ==
    /\ AppDoc \subseteq Doc
    /\ MaxTimers \in Nat
    /\ Disturb \subseteq {"write", "remove", "cancel", "restart"}

VARIABLES
    store,              \* the documents index on disk ('docs-index')
    isProcessing,
    currentDocumentId,
    processingQueue,
    timers,             \* armed setTimeout(() => this.processNext(), 100)
    runs                \* calls of processDocument that await something

control == <<isProcessing, currentDocumentId, processingQueue, timers, runs>>
vars == <<store, control>>

\* What a call of processDocument keeps across an await: the document, what
\* it awaits, its own copy of the pages and the page it is at.
Run == [doc : DocId, stage : {"filtering", "recognizing"}, pages : Seq(Page),
        next : Nat \ {0}]

ASSUME IdleAssumption == None \notin Run

IsQueued(d) == \E i \in DOMAIN processingQueue : processingQueue[i] = d

Active == {r \in RunId : runs[r] # None}

-----------------------------------------------------------------------------
\* processDocument up to its first await, called with index s: it throws when
\* the document is gone or has no pages ...
CanProcess(s, d) == d \in DOMAIN s /\ s[d].pages # <<>>

\* ... and otherwise marks the document as running with no page done,
MarkRunning(s, d) ==
    UpdateDoc(s, d, [s[d] EXCEPT
        !.ocrStatus = "running",
        !.ocrProgress = [processed |-> 0, total |-> Len(s[d].pages)]])

\* Mutated form: page positions counted from 0.
NewRunFromZero(s, d) ==
    [doc |-> d, pages |-> s[d].pages, next |-> 0,
     stage |-> IF s[d].isPdf THEN "recognizing" ELSE "filtering"]

\* and copies the pages.  Pages of imported PDFs are not filtered first.
NewRun(s, d) ==
    [doc |-> d, pages |-> s[d].pages, next |-> 1,
     stage |-> IF s[d].isPdf THEN "recognizing" ELSE "filtering"]

MarkError(s, d) == UpdateDoc(s, d, [s[d] EXCEPT !.ocrStatus = "error"])

\* Mutated form: the finally block forgets the setTimeout.
NotRearmed(armed, queue) == armed

\* The setTimeout of processNext's finally block, for what is left to do.
Rearmed(armed, queue) == IF queue = <<>> THEN armed ELSE armed + 1

\* processNext with nothing in process: queue, index and timers are as its
\* caller left them.  A document that cannot be processed throws at once, so
\* its catch and finally blocks belong to the same step.
ProcessNext(queue, s, armed) ==
    \/ /\ queue = <<>>
       /\ isProcessing' = FALSE
       /\ currentDocumentId' = None
       /\ processingQueue' = queue
       /\ store' = s
       /\ timers' = armed
       /\ runs' = runs
    \/ /\ queue # <<>>
       /\ CanProcess(s, Head(queue))
       /\ isProcessing' = TRUE
       /\ currentDocumentId' = Head(queue)
       /\ processingQueue' = Tail(queue)
       /\ store' = MarkRunning(s, Head(queue))
       /\ timers' = armed
       /\ \E r \in RunId \ Active :
             runs' = [runs EXCEPT ![r] = NewRun(s, Head(queue))]
    \/ /\ queue # <<>>
       /\ ~CanProcess(s, Head(queue))
       /\ isProcessing' = FALSE
       /\ currentDocumentId' = None
       /\ processingQueue' = Tail(queue)
       /\ store' = MarkError(s, Head(queue))
       /\ timers' = Rearmed(armed, Tail(queue))
       /\ runs' = runs

-----------------------------------------------------------------------------
\* Mutated form: finished documents are accepted again.
AcceptsFinished(s, d) == d \in DOMAIN s /\ Status(s, d) # "running"

\* The early returns of enqueueDoc: a missing, finished or running document.
Accepts(s, d) == d \in DOMAIN s /\ Status(s, d) \notin {"done", "running"}

\* Mutated form: the document in process is not looked at.
EnqueuedBehindItself(d) ==
    IF IsQueued(d) THEN processingQueue ELSE Append(processingQueue, d)

\* Mutated form: the newest document goes first.
EnqueuedInFront(d) ==
    IF IsQueued(d) \/ currentDocumentId = d
    THEN processingQueue
    ELSE <<d>> \o processingQueue

\* It is queued unless it waits already or is in process.
Enqueued(d) ==
    IF IsQueued(d) \/ currentDocumentId = d
    THEN processingQueue
    ELSE Append(processingQueue, d)

\* enqueueDoc(d), called with index s.
EnqueueDocOn(s, d) ==
    \/ /\ ~Accepts(s, d)
       /\ store' = s
       /\ UNCHANGED control
    \/ /\ Accepts(s, d)
       /\ isProcessing
       /\ processingQueue' = Enqueued(d)
       /\ store' = s
       /\ UNCHANGED <<isProcessing, currentDocumentId, timers, runs>>
    \/ /\ Accepts(s, d)
       /\ ~isProcessing
       /\ ProcessNext(Enqueued(d), s, timers)

EnqueueDoc(d) == timers < MaxTimers /\ EnqueueDocOn(store, d)

\* processingQueue.filter(id => id !== d), for a queue that holds d at most
\* once (NoDuplicateWork).
Without(queue, d) ==
    IF \E i \in DOMAIN queue : queue[i] = d
    THEN DropAt(queue, CHOOSE i \in DOMAIN queue : queue[i] = d)
    ELSE queue

\* cancel(d), and cancelOcr() for d = currentDocumentId.
Cancel(d) ==
    LET queue == Without(processingQueue, d)
    IN  /\ "cancel" \in Disturb
        /\ timers < MaxTimers
        /\ \/ /\ currentDocumentId # d
              /\ processingQueue' = queue
              /\ UNCHANGED <<store, isProcessing, currentDocumentId, timers, runs>>
           \/ /\ currentDocumentId = d
              /\ ProcessNext(queue,
                     UpdateDoc(store, d, [store[d] EXCEPT !.ocrStatus = "idle"]),
                     timers)

\* Mutated form: the callback does not check isProcessing.
TimerFiresUnguarded ==
    timers > 0 /\ ProcessNext(processingQueue, store, timers - 1)

\* The timer callback: processNext, which returns when something is in process.
TimerFires ==
    /\ timers > 0
    /\ \/ /\ isProcessing
          /\ timers' = timers - 1
          /\ UNCHANGED <<store, isProcessing, currentDocumentId, processingQueue,
                         runs>>
       \/ /\ ~isProcessing
          /\ ProcessNext(processingQueue, store, timers - 1)

-----------------------------------------------------------------------------
\* Mutated form: the queue stays marked as processing.
EndRunStaysBusy(r, s) ==
    /\ store' = s
    /\ runs' = [runs EXCEPT ![r] = None]
    /\ timers' = Rearmed(timers, processingQueue)
    /\ UNCHANGED <<isProcessing, currentDocumentId, processingQueue>>

\* processDocument returns and processNext runs its finally block.
EndRun(r, s) ==
    /\ store' = s
    /\ runs' = [runs EXCEPT ![r] = None]
    /\ isProcessing' = FALSE
    /\ currentDocumentId' = None
    /\ timers' = Rearmed(timers, processingQueue)
    /\ UNCHANGED processingQueue

\* Mutated form: the final write forgets the status.
MarkDoneKeepsStatus(s, d, pages) ==
    UpdateDoc(s, d, [s[d] EXCEPT
        !.ocrProgress = [processed |-> Len(pages), total |-> Len(pages)],
        !.pages = pages])

\* The final write.  It is skipped for a document deleted meanwhile, and it
\* does not look at whether the run was cancelled.
MarkDone(s, d, pages) ==
    UpdateDoc(s, d, [s[d] EXCEPT
        !.ocrStatus = "done",
        !.ocrProgress = [processed |-> Len(pages), total |-> Len(pages)],
        !.pages = pages])

\* The head of the page loop at page i, with pages and index s as the code
\* before it left them: read the page, notice that the run was cancelled, or
\* leave the loop and finish.
ContinueRun(r, pages, i, s) ==
    \/ /\ i <= Len(pages)
       /\ currentDocumentId = runs[r].doc
       /\ store' = s
       /\ runs' = [runs EXCEPT ![r] = [doc |-> runs[r].doc, pages |-> pages,
                                       next |-> i, stage |-> "recognizing"]]
       /\ UNCHANGED <<isProcessing, currentDocumentId, processingQueue, timers>>
    \/ /\ i <= Len(pages)
       /\ currentDocumentId # runs[r].doc
       /\ EndRun(r, s)
    \/ /\ i > Len(pages)
       /\ EndRun(r, MarkDone(s, runs[r].doc, pages))

\* applyFinalFilterToPage: a page that has a processed image keeps it, a page
\* whose processing fails stays as it is.
Filtered(page, succeeds) ==
    IF page.processed = None /\ succeeds
    THEN [page EXCEPT !.processed = page.look]
    ELSE page

\* All pages are filtered (Promise.all): write them back and enter the loop.
FilterDone(r) ==
    /\ r \in Active
    /\ runs[r].stage = "filtering"
    /\ \E succeeded \in SUBSET (1 .. Len(runs[r].pages)) :
          LET d == runs[r].doc
              pages == [i \in 1 .. Len(runs[r].pages) |->
                           Filtered(runs[r].pages[i], i \in succeeded)]
          IN  ContinueRun(r, pages, 1,
                  UpdateDoc(store, d, [store[d] EXCEPT !.pages = pages]))

\* Mutated form: a page that fails is skipped.
RecognizedOrSkipped(page) ==
    {None, IF page.processed = None THEN page.look ELSE page.processed}

\* recognizePage never rejects: a failure or a timeout is a page with no text.
Recognized(page) ==
    {Blank, IF page.processed = None THEN page.look ELSE page.processed}

\* recognizePage answers with this text for the page the run is at.  Text,
\* progress and the run's copy of the pages are written before the cancel check.
PageRead(r, text) ==
    LET d == runs[r].doc
        pages == [runs[r].pages EXCEPT ![runs[r].next].text = text]
    IN  ContinueRun(r, pages, runs[r].next + 1,
            UpdateDoc(store, d, [store[d] EXCEPT
                !.ocrProgress = [processed |-> runs[r].next,
                                 total |-> Len(pages)],
                !.pages = pages]))

PageDone(r) ==
    /\ r \in Active
    /\ runs[r].stage = "recognizing"
    /\ \E text \in Recognized(runs[r].pages[runs[r].next]) : PageRead(r, text)

-----------------------------------------------------------------------------
\* The rest of the app writes d's entry (a new document, or the copy of it
\* that React holds) or deletes it.  App.tsx saves the whole index at once;
\* entry by entry allows the same and more.
AppWrites(d) ==
    /\ "write" \in Disturb
    /\ \E doc \in AppDoc : store' = PutDoc(store, d, doc)
    /\ UNCHANGED control

AppRemoves(d) ==
    /\ "remove" \in Disturb
    /\ d \in DOMAIN store
    /\ store' = RemoveDoc(store, d)
    /\ UNCHANGED control

\* The singleton as the module creates it.
EmptyQueue ==
    /\ isProcessing = FALSE
    /\ currentDocumentId = None
    /\ processingQueue = <<>>
    /\ timers = 0
    /\ runs = [r \in RunId |-> None]

\* The process dies and the app is launched again: the queue lives in memory
\* only, and nothing at launch enqueues a document.
Restart ==
    /\ "restart" \in Disturb
    /\ isProcessing' = FALSE
    /\ currentDocumentId' = None
    /\ processingQueue' = <<>>
    /\ timers' = 0
    /\ runs' = [r \in RunId |-> None]
    /\ UNCHANGED store

Init ==
    /\ store \in UNION {[ids -> AppDoc] : ids \in SUBSET DocId}
    /\ EmptyQueue

Next ==
    \/ \E d \in DocId : EnqueueDoc(d)
    \/ \E d \in DocId : Cancel(d)
    \/ TimerFires
    \/ \E r \in RunId : FilterDone(r)
    \/ \E r \in RunId : PageDone(r)
    \/ \E d \in DocId : AppWrites(d)
    \/ \E d \in DocId : AppRemoves(d)
    \/ Restart

Spec == Init /\ [][Next]_vars

\* The timer fires, and the native calls a run awaits answer: recognizePage
\* races them with a timeout; the filters are trusted to settle.
Fairness ==
    /\ WF_vars(TimerFires)
    /\ \A r \in RunId : WF_vars(FilterDone(r)) /\ WF_vars(PageDone(r))

FairSpec == Spec /\ Fairness

-----------------------------------------------------------------------------
TypeOK ==
    /\ IsIndex(store)
    /\ isProcessing \in BOOLEAN
    /\ currentDocumentId \in DocId \cup {None}
    /\ processingQueue \in Seq(DocId)
    /\ timers \in Nat
    /\ runs \in [RunId -> Run \cup {None}]

\* The queue is never left with work and nothing that will start it: whenever
\* a document waits, a timer is armed or the document in process has a live
\* run, whose finally block will arm one.  (processNext's finally block and
\* the early return of its first line must fit together for this.)
NoLostWakeup ==
    processingQueue # <<>> =>
        \/ timers > 0
        \/ isProcessing /\ \E r \in Active : runs[r].doc = currentDocumentId

\* No document waits twice, and none waits while it is in process, whatever
\* the app does to its status in between (the checks of enqueueDoc).
NoDuplicateWork ==
    /\ \A i, j \in DOMAIN processingQueue :
          processingQueue[i] = processingQueue[j] => i = j
    /\ ~IsQueued(currentDocumentId)

\* At most one call of processDocument is in flight, and it is the one for
\* the document the queue says it is processing (isProcessing as a lock held
\* across the awaits of processDocument).
SingleWorker ==
    /\ \A r \in Active : isProcessing /\ currentDocumentId = runs[r].doc
    /\ \A r1, r2 \in Active : r1 = r2

\* A document stored as running has a live run, and the stored progress is
\* how far that run is (the writes of processDocument against the saves of
\* the app).
RunningHasWorker ==
    \A d \in DOMAIN store : Status(store, d) = "running" =>
        \E r \in Active :
            /\ runs[r].doc = d
            /\ store[d].ocrProgress = [processed |-> runs[r].next - 1,
                                       total |-> Len(runs[r].pages)]

\* A document is stored as done only with a text for every page it has and a
\* complete progress, although pages were written by many steps between which
\* the app changed or replaced the document.
DoneMeansRead ==
    \A d \in DOMAIN store : Status(store, d) = "done" =>
        /\ \A i \in DOMAIN store[d].pages : store[d].pages[i].text # None
        /\ store[d].ocrProgress = [processed |-> Len(store[d].pages),
                                   total |-> Len(store[d].pages)]

\* "no-op if already running/queued/done": the queue never touches a finished
\* document again; only the app replaces or deletes it.
FinishedIsFinal ==
    [][\A d \in DOMAIN store \cap DOMAIN store' :
          Status(store, d) = "done" =>
              store'[d] = store[d] \/ store'[d] \in AppDoc]_vars

\* What an index says of each document, for OcrService.
StatusMap(s) ==
    [d \in DocId |-> IF d \in DOMAIN s THEN Status(s, d) ELSE "absent"]

Service == INSTANCE OcrService WITH
    AppStatus <- {doc.ocrStatus : doc \in AppDoc},
    status <- StatusMap(store),
    waiting <- processingQueue,
    reading <- currentDocumentId

\* Behind its timers, awaits and partial writes the queue reads documents one
\* at a time and in order, skips none that it accepted, and changes a status
\* only when a document's turn comes or ends (OcrService).
ImplementsService == Service!Spec

\* Every document that waits is eventually finished, failed or deleted, each
\* waiting behind runs that may fail page by page (the queue never stalls).
QueuedSettles ==
    \A d \in DocId :
        IsQueued(d) ~> (d \in DOMAIN store =>
                           Status(store, d) \in {"done", "error"})

\* No document is shown as running for ever.
RunningSettles ==
    \A d \in DocId :
        (d \in DOMAIN store /\ Status(store, d) = "running")
            ~> ~(d \in DOMAIN store /\ Status(store, d) = "running")
=============================================================================
