------------------------ MODULE OcrRefinementProofs ------------------------
(***************************************************************************)
(* The two refinements of the queue: it implements the service it stands   *)
(* for, and with its provider, await by await, it still takes only steps   *)
(* of OcrQueue, so that what is proved of the queue holds whatever the     *)
(* recognisers do.                                                         *)
(***************************************************************************)
EXTENDS OcrPipeline, OcrQueueProofs

USE NoneAssumption, QueueAssumption, IdleAssumption, VisionAssumption

-----------------------------------------------------------------------------
(* The service: every step of OcrQueue is, seen through the statuses of    *)
(* the index, the queue and the document in process, a step of OcrService  *)
(* or none.  Cancel is left out: it ends a reading that goes on.           *)

ServiceInv == TypeOK /\ QueueInv /\ SingleWorker

\* What a write of one entry does to the statuses.
LEMMA StatusMapUpdate ==
    ASSUME NEW s, IsIndex(s), NEW d \in DocId, NEW doc
    PROVE  StatusMap(UpdateDoc(s, d, doc)) =
               IF d \in DOMAIN s
               THEN [StatusMap(s) EXCEPT ![d] = doc.ocrStatus]
               ELSE StatusMap(s)
BY DEF StatusMap, UpdateDoc, Status, IsIndex

\* processNext for a queue with work in it takes its first document.
LEMMA ProcessNextTakes ==
    ASSUME ServiceInv, NEW q \in Seq(DocId), q # <<>>, NEW armed,
           ProcessNext(q, store, armed)
    PROVE  Service!Take(q)
<1>1. Head(q) \in DocId /\ IsIndex(store)
  BY HeadTail DEF ServiceInv, TypeOK
<1>2. CASE CanProcess(store, Head(q))
  <2> DEFINE d == Head(q)
             doc == [store[d] EXCEPT
                        !.ocrStatus = "running",
                        !.ocrProgress = [processed |-> 0,
                                         total |-> Len(store[d].pages)]]
  <2>1. d \in DOMAIN store /\ doc.ocrStatus = "running"
    BY <1>1, <1>2 DEF CanProcess, IsIndex, Doc
  <2>2. store' = UpdateDoc(store, d, doc)
    BY <1>2 DEF ProcessNext, MarkRunning
  <2>3. StatusMap(store') = [StatusMap(store) EXCEPT ![d] = doc.ocrStatus]
    <3> HIDE DEF d, doc
    <3>1. d \in DocId
      BY <1>1 DEF d
    <3>2. QED
      BY <1>1, <2>1, <2>2, <3>1, StatusMapUpdate
  <2>4. StatusMap(store)[d] # "absent"
    BY <1>1, <2>1 DEF StatusMap, Status, IsIndex, Doc, OcrStatus
  <2>5. processingQueue' = Tail(q) /\ currentDocumentId' = d
    BY <1>2 DEF ProcessNext
  <2>6. StatusMap(store)' = StatusMap(store')
    BY DEF StatusMap, Status
  <2>7. QED
    BY <2>1, <2>3, <2>4, <2>5, <2>6 DEF Service!Take
<1>3. CASE ~CanProcess(store, Head(q))
  <2> DEFINE d == Head(q)
             doc == [store[d] EXCEPT !.ocrStatus = "error"]
  <2>1. d \in DOMAIN store => doc.ocrStatus = "error"
    BY <1>1 DEF IsIndex, Doc
  <2>2. store' = UpdateDoc(store, d, doc)
    BY <1>3 DEF ProcessNext, MarkError
  <2>3. StatusMap(store') =
            IF d \in DOMAIN store
            THEN [StatusMap(store) EXCEPT ![d] = doc.ocrStatus]
            ELSE StatusMap(store)
    <3> HIDE DEF d, doc
    <3>1. d \in DocId
      BY <1>1 DEF d
    <3>2. QED
      BY <1>1, <2>2, <3>1, StatusMapUpdate
  <2>4. StatusMap(store)[d] = "absent" <=> d \notin DOMAIN store
    BY <1>1 DEF StatusMap, Status, IsIndex, Doc, OcrStatus
  <2>5. processingQueue' = Tail(q) /\ currentDocumentId' = None
    BY <1>3 DEF ProcessNext
  <2>6. StatusMap(store)' = StatusMap(store')
    BY DEF StatusMap, Status
  <2>7. QED
    BY <2>1, <2>3, <2>4, <2>5, <2>6 DEF Service!Take
<1>4. QED
  BY <1>2, <1>3

\* A run that goes on changes nothing the service shows; one that ends has
\* read its document.
LEMMA ContinueRunServes ==
    ASSUME ServiceInv, NEW r \in Active, NEW pages, NEW i, NEW doc,
           ContinueRun(r, pages, i, UpdateDoc(store, runs[r].doc, doc)),
           runs[r].doc \in DOMAIN store =>
               doc.ocrStatus = Status(store, runs[r].doc) /\ doc \in Doc
    PROVE  Service!Finish \/ UNCHANGED Service!vars
<1> DEFINE d == runs[r].doc
           s == UpdateDoc(store, d, doc)
<1>1. /\ d \in DocId
      /\ IsIndex(store)
      /\ isProcessing
      /\ currentDocumentId = d
  BY DEF ServiceInv, TypeOK, SingleWorker, Active, Run
<1>2. IsIndex(s) /\ DOMAIN s = DOMAIN store
  BY <1>1, UpdateDocType, IndexDomains
<1>3. StatusMap(s) = StatusMap(store)
  <2>1. d \in DOMAIN store =>
            [StatusMap(store) EXCEPT ![d] = doc.ocrStatus] = StatusMap(store)
    BY DEF StatusMap, Status
  <2> HIDE DEF d
  <2>2. QED
    BY <1>1, <2>1, StatusMapUpdate
<1>4. StatusMap(store)' = StatusMap(store')
  BY DEF StatusMap, Status
<1>5. CASE store' = s
           /\ UNCHANGED <<isProcessing, currentDocumentId, processingQueue, timers>>
  BY <1>3, <1>4, <1>5 DEF Service!vars
<1>6. CASE EndRun(r, MarkDone(s, d, pages))
  <2> DEFINE done == [s[d] EXCEPT
                 !.ocrStatus = "done",
                 !.ocrProgress = [processed |-> Len(pages), total |-> Len(pages)],
                 !.pages = pages]
  <2>1. store' = UpdateDoc(s, d, done)
    BY <1>6 DEF EndRun, MarkDone
  <2>2. d \in DOMAIN store => done.ocrStatus = "done"
    BY <1>2 DEF IsIndex, Doc
  <2>3. StatusMap(store') = IF d \in DOMAIN store
                            THEN [StatusMap(store) EXCEPT ![d] = done.ocrStatus]
                            ELSE StatusMap(store)
    <3> HIDE DEF d, s, done
    <3>1. QED
      BY <1>1, <1>2, <1>3, <2>1, StatusMapUpdate
  <2>4. StatusMap(store)[d] = "absent" <=> d \notin DOMAIN store
    BY <1>1 DEF StatusMap, Status, IsIndex, Doc, OcrStatus
  <2>5. currentDocumentId' = None /\ processingQueue' = processingQueue
    BY <1>6 DEF EndRun
  <2>6. currentDocumentId # None
    BY <1>1
  <2> HIDE DEF d, s, done
  <2>7. QED
    BY <1>1, <1>4, <2>2, <2>3, <2>4, <2>5, <2>6 DEF Service!Finish
<1>7. QED
  BY <1>1, <1>5, <1>6 DEF ContinueRun

LEMMA NextServes ==
    ASSUME "cancel" \notin Disturb
    PROVE  ServiceInv /\ [Next]_vars => [Service!Next]_(Service!vars)
<1> SUFFICES ASSUME ServiceInv, [Next]_vars
             PROVE  Service!Next \/ UNCHANGED Service!vars
  OBVIOUS
<1>1. StatusMap(store)' = StatusMap(store')
  BY DEF StatusMap, Status
<1>2. ASSUME UNCHANGED <<store, currentDocumentId, processingQueue>>
      PROVE  UNCHANGED Service!vars
  BY <1>1, <1>2 DEF Service!vars
<1>3. ASSUME ~isProcessing
      PROVE  currentDocumentId = None
  BY <1>3 DEF ServiceInv, QueueInv
<1>4. ASSUME NEW d \in DocId, EnqueueDoc(d)
      PROVE  Service!Next \/ UNCHANGED Service!vars
  <2>1. CASE ~Accepts(store, d)
    BY <1>2, <1>4, <2>1 DEF EnqueueDoc, EnqueueDocOn, control
  <2>2. CASE Accepts(store, d) /\ (IsQueued(d) \/ currentDocumentId = d)
             /\ isProcessing
    BY <1>2, <1>4, <2>2 DEF EnqueueDoc, EnqueueDocOn, Enqueued
  <2>3. Accepts(store, d) => Service!Readable(d)
    BY DEF Accepts, Service!Readable, StatusMap, ServiceInv, TypeOK, IsIndex, Doc,
           OcrStatus, Status
  <2>4. Service!IsWaiting(d) <=> IsQueued(d)
    BY DEF Service!IsWaiting, IsQueued
  <2>5. CASE Accepts(store, d) /\ ~IsQueued(d) /\ currentDocumentId # d
             /\ isProcessing
    <3>1. /\ currentDocumentId # None
          /\ processingQueue' = Append(processingQueue, d)
          /\ store' = store
          /\ currentDocumentId' = currentDocumentId
      BY <1>4, <2>5 DEF EnqueueDoc, EnqueueDocOn, Enqueued, ServiceInv, QueueInv
    <3>2. Service!Submit(d)
      BY <1>1, <2>3, <2>4, <2>5, <3>1 DEF Service!Submit
    <3>3. QED
      BY <3>2 DEF Service!Next
  <2>6. CASE Accepts(store, d) /\ ~isProcessing
    <3>1. currentDocumentId = None /\ ProcessNext(Enqueued(d), store, timers)
      BY <1>3, <1>4, <2>6 DEF EnqueueDoc, EnqueueDocOn
    <3>2. CASE IsQueued(d)
      <4>1. processingQueue # <<>> /\ processingQueue \in Seq(DocId)
        BY <3>2 DEF IsQueued, ServiceInv, TypeOK
      <4>2. ProcessNext(processingQueue, store, timers)
        BY <3>1, <3>2 DEF Enqueued
      <4>3. Service!Take(processingQueue)
        BY <4>1, <4>2, ProcessNextTakes
      <4>4. QED
        BY <3>1, <4>1, <4>3 DEF Service!Wake, Service!Next
    <3>3. CASE ~IsQueued(d)
      <4> DEFINE q == Append(processingQueue, d)
      <4>1. currentDocumentId # d
        BY <3>1
      <4>2. Enqueued(d) = q
        BY <3>3, <4>1 DEF Enqueued
      <4>3. q \in Seq(DocId) /\ q # <<>>
        BY DEF ServiceInv, TypeOK
      <4>4. Service!Take(q)
        <5>1. ProcessNext(q, store, timers)
          BY <3>1, <4>2
        <5> HIDE DEF q
        <5>2. QED
          BY <4>3, <5>1, ProcessNextTakes
      <4>5. Service!Submit(d)
        BY <2>3, <2>4, <2>6, <3>1, <3>3, <4>1, <4>4 DEF Service!Submit
      <4>6. QED
        BY <4>5 DEF Service!Next
    <3>4. QED
      BY <3>2, <3>3
  <2>7. QED
    BY <2>1, <2>2, <2>5, <2>6
<1>5. ASSUME TimerFires
      PROVE  Service!Next \/ UNCHANGED Service!vars
  <2>1. CASE isProcessing
    BY <1>2, <1>5, <2>1 DEF TimerFires
  <2>2. CASE ~isProcessing /\ processingQueue = <<>>
    BY <1>2, <1>3, <1>5, <2>2 DEF TimerFires, ProcessNext
  <2>3. CASE ~isProcessing /\ processingQueue # <<>>
    <3>1. ProcessNext(processingQueue, store, timers - 1)
      BY <1>5, <2>3 DEF TimerFires
    <3>2. Service!Take(processingQueue)
      BY <2>3, <3>1, ProcessNextTakes DEF ServiceInv, TypeOK
    <3>3. QED
      BY <1>3, <2>3, <3>2 DEF Service!Wake, Service!Next
  <2>4. QED
    BY <2>1, <2>2, <2>3
<1>6. ASSUME NEW r \in RunId, FilterDone(r)
      PROVE  Service!Next \/ UNCHANGED Service!vars
  <2> DEFINE d == runs[r].doc
  <2>1. r \in Active /\ runs[r] \in Run
    BY <1>6 DEF FilterDone, Active, ServiceInv, TypeOK
  <2>2. PICK S :
          ContinueRun(r, [i \in 1 .. Len(runs[r].pages) |->
                             Filtered(runs[r].pages[i], i \in S)], 1,
              UpdateDoc(store, d, [store[d] EXCEPT
                  !.pages = [i \in 1 .. Len(runs[r].pages) |->
                                Filtered(runs[r].pages[i], i \in S)]]))
    BY <1>6 DEF FilterDone
  <2> DEFINE pages == [i \in 1 .. Len(runs[r].pages) |->
                          Filtered(runs[r].pages[i], i \in S)]
             doc == [store[d] EXCEPT !.pages = pages]
  <2>3. pages \in Seq(Page)
    BY <2>1, FilteredPagesType DEF ServiceInv, Run
  <2> HIDE DEF pages
  <2>4. ASSUME d \in DOMAIN store
        PROVE  doc.ocrStatus = Status(store, d) /\ doc \in Doc
    <3>1. store[d] \in Doc
      BY <2>4 DEF ServiceInv, TypeOK, IsIndex
    <3>2. doc \in Doc
      BY <2>3, <3>1, SetPagesType
    <3>3. doc.ocrStatus = store[d].ocrStatus
      BY <3>1 DEF Doc
    <3>4. QED
      BY <3>2, <3>3 DEF Status
  <2>5. ContinueRun(r, pages, 1, UpdateDoc(store, d, doc))
    BY <2>2 DEF pages
  <2>6. Service!Finish \/ UNCHANGED Service!vars
    BY <2>1, <2>4, <2>5, ContinueRunServes
  <2>7. QED
    BY <2>6 DEF Service!Next
<1>7. ASSUME NEW r \in RunId, PageDone(r)
      PROVE  Service!Next \/ UNCHANGED Service!vars
  <2> DEFINE d == runs[r].doc
  <2>1. r \in Active /\ runs[r] \in Run
    BY <1>7 DEF PageDone, Active, ServiceInv, TypeOK
  <2>2. PICK text \in Recognized(runs[r].pages[runs[r].next]) :
          ContinueRun(r, [runs[r].pages EXCEPT ![runs[r].next].text = text],
              runs[r].next + 1,
              UpdateDoc(store, d, [store[d] EXCEPT
                  !.ocrProgress = [processed |-> runs[r].next,
                      total |-> Len([runs[r].pages EXCEPT
                                        ![runs[r].next].text = text])],
                  !.pages = [runs[r].pages EXCEPT ![runs[r].next].text = text]]))
    BY <1>7 DEF PageDone, PageRead
  <2> DEFINE pages == [runs[r].pages EXCEPT ![runs[r].next].text = text]
             doc == [store[d] EXCEPT
                        !.ocrProgress = [processed |-> runs[r].next,
                                         total |-> Len(pages)],
                        !.pages = pages]
  <2>3. pages \in Seq(Page)
    BY <2>1, <2>2, ReadPagesType DEF ServiceInv, Run
  <2> HIDE DEF pages
  <2>4. ASSUME d \in DOMAIN store
        PROVE  doc.ocrStatus = Status(store, d) /\ doc \in Doc
    <3>1. [processed |-> runs[r].next, total |-> Len(pages)] \in OcrProgress
      BY <2>1, <2>3 DEF Run, OcrProgress
    <3>2. store[d] \in Doc
      BY <2>4 DEF ServiceInv, TypeOK, IsIndex
    <3>3. doc \in Doc /\ doc.ocrStatus = store[d].ocrStatus
      BY <2>3, <3>1, <3>2 DEF Doc
    <3>4. QED
      BY <3>3 DEF Status
  <2>5. ContinueRun(r, pages, runs[r].next + 1, UpdateDoc(store, d, doc))
    BY <2>2 DEF pages
  <2>6. Service!Finish \/ UNCHANGED Service!vars
    BY <2>1, <2>4, <2>5, ContinueRunServes
  <2>7. QED
    BY <2>6 DEF Service!Next
<1>8. ASSUME NEW d \in DocId, AppWrites(d)
      PROVE  Service!Next \/ UNCHANGED Service!vars
  <2>1. PICK doc \in AppDoc : store' = PutDoc(store, d, doc)
    BY <1>8 DEF AppWrites
  <2>2. StatusMap(store') = [StatusMap(store) EXCEPT ![d] = doc.ocrStatus]
    BY <2>1 DEF StatusMap, PutDoc, Status
  <2>3. Service!AppChanges(d)
    BY <1>1, <1>8, <2>2 DEF Service!AppChanges, AppWrites, control
  <2>4. QED
    BY <2>3 DEF Service!Next
<1>9. ASSUME NEW d \in DocId, AppRemoves(d)
      PROVE  Service!Next \/ UNCHANGED Service!vars
  <2>1. StatusMap(store') = [StatusMap(store) EXCEPT ![d] = "absent"]
    BY <1>9 DEF AppRemoves, StatusMap, RemoveDoc, Status
  <2>2. Service!AppChanges(d)
    BY <1>1, <1>9, <2>1 DEF Service!AppChanges, AppRemoves, control
  <2>3. QED
    BY <2>2 DEF Service!Next
<1>10. ASSUME Restart
       PROVE  Service!Next \/ UNCHANGED Service!vars
  <2>1. Service!Crash
    BY <1>1, <1>10 DEF Restart, Service!Crash
  <2>2. QED
    BY <2>1 DEF Service!Next
<1>11. ASSUME UNCHANGED vars
       PROVE  UNCHANGED Service!vars
  BY <1>2, <1>11 DEF vars, control
<1>12. QED
  BY <1>4, <1>5, <1>6, <1>7, <1>8, <1>9, <1>10, <1>11 DEF Next, Cancel

\* The queue implements the service, whatever the app writes and deletes and
\* however often it is restarted: timers, awaits and partial writes do not
\* show.  (OcrQueue.enqueueDoc, processNext and processDocument.)
THEOREM QueueImplementsService ==
    ASSUME "cancel" \notin Disturb
    PROVE  Spec => ImplementsService
<1>1. Init => Service!Init
  <2>1. ASSUME NEW ids \in SUBSET DocId, store \in [ids -> AppDoc]
        PROVE  StatusMap(store) \in
                   [DocId -> {doc.ocrStatus : doc \in AppDoc} \cup {"absent"}]
    BY <2>1 DEF StatusMap, Status
  <2>2. QED
    BY <2>1 DEF Init, EmptyQueue, Service!Init
<1>2. ServiceInv /\ [Next]_vars => [Service!Next]_(Service!vars)
  BY NextServes
<1>3. Spec => []ServiceInv
  <2>1. Spec => []SingleWorker
    BY OneRunAtATime
  <2>2. QED
    BY <2>1, TypeCorrect, QueueInvariance, PTL DEF ServiceInv
<1>4. QED
  BY <1>1, <1>2, <1>3, PTL DEF Spec, ImplementsService, Service!Spec

-----------------------------------------------------------------------------
(* The provider.                                                           *)

\* How calls follows the runs: a run awaits a call exactly while it is at a page.
OneCallPerPage ==
    \A r \in RunId :
        calls[r] # None <=> r \in Active /\ runs[r].stage = "recognizing"

PipelineInv == PipelineTypeOK /\ OneCallPerPage

\* A call of the provider belongs to a run that is at a page, and what it
\* answers is what the queue expects of recognizePage.
LEMMA AnswerIsPageDone ==
    ASSUME PipelineInv, NEW r \in RunId, calls[r] # None,
           NEW text \in {TextOf(r), Blank}, Answer(r, text)
    PROVE  PageDone(r) /\ CallsFollow
<1>1. r \in Active /\ runs[r].stage = "recognizing"
  BY DEF PipelineInv, OneCallPerPage
<1>2. text \in Recognized(runs[r].pages[runs[r].next])
  BY DEF TextOf, Recognized
<1>3. QED
  BY <1>1, <1>2 DEF Answer, PageDone

\* A step is one of the queue's, after which new calls start, or it goes on
\* with one call.
LEMMA StepKinds ==
    ASSUME PipelineInv, PipelineNext
    PROVE  \/ Next /\ CallsFollow
           \/ \E r \in RunId, next \in Awaited : calls[r] # None /\ GoOn(r, next)
<1>1. CASE QueueStep
  BY <1>1 DEF QueueStep, Next
<1>2. ASSUME NEW r \in RunId, Recognizes(r)
      PROVE  \/ PageDone(r) /\ CallsFollow
             \/ \E next \in Awaited : calls[r] # None /\ GoOn(r, next)
  <2>1. calls[r] # None
    BY <1>2 DEF Recognizes, VisionAnswers, VisionFails, SizeAnswers, SizeFails,
                TextAnswers, NoLines, TextFails, TextTimesOut, TextAwaits, Awaited
  <2>2. CASE \E text \in {TextOf(r), Blank} : Answer(r, text)
    BY <2>1, <2>2, AnswerIsPageDone
  <2>3. CASE \E next \in Awaited : GoOn(r, next)
    BY <2>1, <2>3
  <2>4. QED
    BY <1>2, <2>2, <2>3
    DEF Recognizes, VisionAnswers, VisionFails, SizeAnswers, SizeFails, TextAnswers,
        NoLines, TextFails, TextTimesOut, Awaited
<1>3. QED
  BY <1>1, <1>2 DEF PipelineNext, Next

LEMMA NextPipelineInv == PipelineInv /\ [PipelineNext]_pipeline => PipelineInv'
<1> SUFFICES ASSUME PipelineInv, [PipelineNext]_pipeline
             PROVE  PipelineInv'
  OBVIOUS
<1>1. CASE Next /\ CallsFollow
  <2>1. TypeOK'
    BY <1>1, NextTypeOK DEF PipelineInv, PipelineTypeOK
  <2>2. ASSUME NEW r \in RunId
        PROVE  /\ calls'[r] \in Awaited \cup {None}
               /\ calls'[r] # None <=>
                      runs'[r] # None /\ runs'[r].stage = "recognizing"
    <3>1. runs'[r] # None =>
              runs'[r].stage = "filtering" \/ runs'[r].stage = "recognizing"
      BY <2>1 DEF TypeOK, Run
    <3>2. CASE runs'[r] = runs[r]
      BY <1>1, <3>2
      DEF CallsFollow, PipelineInv, PipelineTypeOK, OneCallPerPage, Active
    <3>3. CASE runs'[r] # runs[r]
      BY <1>1, <3>1, <3>3 DEF CallsFollow, FirstAwait, Awaited
    <3>4. QED
      BY <3>2, <3>3
  <2>3. calls' \in [RunId -> Awaited \cup {None}]
    BY <1>1, <2>2 DEF CallsFollow
  <2>4. OneCallPerPage'
    BY <2>2 DEF OneCallPerPage, Active
  <2>5. QED
    BY <2>1, <2>3, <2>4 DEF PipelineInv, PipelineTypeOK
<1>2. ASSUME NEW r \in RunId, NEW next \in Awaited, calls[r] # None, GoOn(r, next)
      PROVE  PipelineInv'
  <2>1. UNCHANGED vars /\ next # None
    BY <1>2 DEF GoOn
  <2>2. TypeOK'
    BY <2>1, NextTypeOK DEF PipelineInv, PipelineTypeOK
  <2>3. \A x \in RunId : calls'[x] # None <=> calls[x] # None
    BY <1>2, <2>1 DEF GoOn, PipelineInv, PipelineTypeOK
  <2>4. UNCHANGED runs
    BY <2>1 DEF vars, control
  <2>5. OneCallPerPage'
    BY <2>3, <2>4 DEF PipelineInv, OneCallPerPage, Active
  <2>6. QED
    BY <1>2, <2>2, <2>5 DEF GoOn, PipelineInv, PipelineTypeOK
<1>3. CASE UNCHANGED pipeline
  <2>1. UNCHANGED vars /\ UNCHANGED calls
    BY <1>3 DEF pipeline
  <2>2. TypeOK'
    BY <2>1, NextTypeOK DEF PipelineInv, PipelineTypeOK
  <2>3. QED
    BY <2>1, <2>2
    DEF PipelineInv, PipelineTypeOK, OneCallPerPage, Active, vars, control
<1>4. QED
  BY <1>1, <1>2, <1>3, StepKinds

LEMMA PipelineInvariance == PipelineSpec => []PipelineInv
<1>1. PipelineInit => PipelineInv
  <2>1. Init => TypeOK
    BY InitTypeOK
  <2>2. PipelineInit => OneCallPerPage
    BY DEF PipelineInit, Init, EmptyQueue, OneCallPerPage, Active
  <2>3. QED
    BY <2>1, <2>2 DEF PipelineInit, PipelineInv, PipelineTypeOK
<1>2. QED
  BY <1>1, NextPipelineInv, PTL DEF PipelineSpec

\* The queue keeps its types under a provider that fails and is late, and a run
\* awaits nothing but the calls that recognizePage makes.
THEOREM PipelineTypes == PipelineSpec => []PipelineTypeOK
BY PipelineInvariance, PTL DEF PipelineInv

\* The races, fallbacks and timeouts of recognizePage are invisible to the
\* queue: the pipeline behaves like OcrQueue.
THEOREM PipelineImplementsQueue == PipelineSpec => ImplementsQueue
<1>1. PipelineInit => Init
  BY DEF PipelineInit
<1>2. PipelineInv /\ [PipelineNext]_pipeline => [Next]_vars
  BY StepKinds DEF GoOn, pipeline
<1>3. QED
  BY <1>1, <1>2, PipelineInvariance, PTL DEF PipelineSpec, ImplementsQueue, Spec

\* So users see the service whatever the recognisers do: documents are read one at
\* a time and in order, though every page is raced, retried and timed out.
THEOREM PipelineImplementsService ==
    ASSUME "cancel" \notin Disturb
    PROVE  PipelineSpec => ImplementsService
<1>1. PipelineSpec => Spec
  BY PipelineImplementsQueue DEF ImplementsQueue
<1>2. QED
  BY <1>1, QueueImplementsService
=============================================================================
