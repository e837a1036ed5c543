--------------------------- MODULE OcrQueueProofs ---------------------------
(***************************************************************************)
(* Proofs about OcrQueue, for every set of documents, pages and runs and   *)
(* for every environment: the app may write any documents AppDoc, delete   *)
(* documents, cancel and be restarted at any time.                         *)
(***************************************************************************)
EXTENDS OcrQueue, DocStoreProofs

USE NoneAssumption, QueueAssumption, IdleAssumption

-----------------------------------------------------------------------------
(* What processNext and processDocument write.                             *)

LEMMA MarkRunningType ==
    ASSUME NEW s, IsIndex(s), NEW d \in DocId
    PROVE  IsIndex(MarkRunning(s, d))
<1>1. ASSUME d \in DOMAIN s
      PROVE  [s[d] EXCEPT
                 !.ocrStatus = "running",
                 !.ocrProgress = [processed |-> 0, total |-> Len(s[d].pages)]]
             \in Doc
  <2>1. s[d] \in Doc
    BY <1>1 DEF IsIndex
  <2>2. Len(s[d].pages) \in Nat
    BY <2>1 DEF Doc
  <2>3. QED
    BY <2>1, <2>2 DEF Doc, OcrStatus, OcrProgress
<1>2. QED
  BY <1>1, UpdateDocType DEF MarkRunning

LEMMA MarkErrorType ==
    ASSUME NEW s, IsIndex(s), NEW d \in DocId
    PROVE  IsIndex(MarkError(s, d))
<1>1. d \in DOMAIN s => [s[d] EXCEPT !.ocrStatus = "error"] \in Doc
  BY DEF IsIndex, Doc, OcrStatus
<1>2. QED
  BY <1>1, UpdateDocType DEF MarkError

LEMMA MarkDoneType ==
    ASSUME NEW s, IsIndex(s), NEW d \in DocId, NEW pages \in Seq(Page)
    PROVE  IsIndex(MarkDone(s, d, pages))
<1>1. d \in DOMAIN s =>
        [s[d] EXCEPT
            !.ocrStatus = "done",
            !.ocrProgress = [processed |-> Len(pages), total |-> Len(pages)],
            !.pages = pages] \in Doc
  <2>1. Len(pages) \in Nat
    OBVIOUS
  <2>2. QED
    BY <2>1 DEF IsIndex, Doc, OcrStatus, OcrProgress
<1>2. QED
  BY <1>1, UpdateDocType DEF MarkDone

LEMMA NewRunType ==
    ASSUME NEW s, IsIndex(s), NEW d \in DocId, CanProcess(s, d)
    PROVE  NewRun(s, d) \in Run
BY DEF IsIndex, CanProcess, NewRun, Run, Doc

-----------------------------------------------------------------------------
(* The queue of documents.                                                 *)

\* The elements of a queue are distinct.
Distinct(q) == \A i, j \in DOMAIN q : q[i] = q[j] => i = j

LEMMA WithoutProperties ==
    ASSUME NEW q \in Seq(DocId), NEW d
    PROVE  /\ Without(q, d) \in Seq(DocId)
           /\ Distinct(q) =>
                 /\ Distinct(Without(q, d))
                 /\ \A i \in DOMAIN Without(q, d) : Without(q, d)[i] # d
           /\ \A i \in DOMAIN Without(q, d) :
                 \E j \in DOMAIN q : Without(q, d)[i] = q[j]
<1>1. CASE ~\E i \in DOMAIN q : q[i] = d
  BY <1>1 DEF Without
<1>2. CASE \E i \in DOMAIN q : q[i] = d
  <2> DEFINE at == CHOOSE i \in DOMAIN q : q[i] = d
             w == [i \in 1 .. Len(q) - 1 |-> q[IF i < at THEN i ELSE i + 1]]
  <2>1. at \in 1 .. Len(q) /\ q[at] = d
    BY <1>2
  <2>2. Without(q, d) = w
    BY <1>2 DEF Without, DropAt
  <2>3. Len(q) \in Nat /\ Len(q) - 1 \in Nat /\ DOMAIN q = 1 .. Len(q)
    BY <2>1
  <2> HIDE DEF at
  <2>4. \A i \in 1 .. Len(q) - 1 :
           (IF i < at THEN i ELSE i + 1) \in 1 .. Len(q) \ {at}
    BY <2>1, <2>3
  <2>5. w \in Seq(DocId) /\ DOMAIN w = 1 .. Len(q) - 1
    <3>1. w \in [1 .. Len(q) - 1 -> DocId]
      BY <2>3, <2>4
    <3>2. QED
      BY <3>1, <2>3
  <2>6. \A i \in DOMAIN w : \E j \in DOMAIN q : w[i] = q[j]
    BY <2>3, <2>4, <2>5
  <2>7. ASSUME Distinct(q)
        PROVE  Distinct(w)
    BY <2>1, <2>3, <2>4, <2>5, <2>7 DEF Distinct
  <2>8. ASSUME Distinct(q)
        PROVE  \A i \in DOMAIN w : w[i] # d
    BY <2>1, <2>3, <2>4, <2>5, <2>8 DEF Distinct
  <2>9. QED
    BY <2>2, <2>5, <2>6, <2>7, <2>8
<1>3. QED
  BY <1>1, <1>2

LEMMA HeadTail ==
    ASSUME NEW q \in Seq(DocId), q # <<>>
    PROVE  /\ Head(q) \in DocId
           /\ Tail(q) \in Seq(DocId)
           /\ Head(q) = q[1]
           /\ DOMAIN Tail(q) = 1 .. Len(q) - 1
           /\ \A i \in DOMAIN Tail(q) : Tail(q)[i] = q[i + 1]
OBVIOUS

LEMMA RearmedType ==
    ASSUME NEW armed \in Nat, NEW q
    PROVE  /\ Rearmed(armed, q) \in Nat
           /\ q # <<>> => Rearmed(armed, q) > 0
BY DEF Rearmed

-----------------------------------------------------------------------------
(* Type correctness.                                                       *)

LEMMA ProcessNextType ==
    ASSUME TypeOK, NEW q \in Seq(DocId), NEW s, IsIndex(s), NEW armed \in Nat,
           ProcessNext(q, s, armed)
    PROVE  TypeOK'
<1>1. CASE q = <<>>
  BY <1>1 DEF ProcessNext, TypeOK
<1>2. CASE q # <<>> /\ CanProcess(s, Head(q))
  <2>1. Head(q) \in DocId /\ Tail(q) \in Seq(DocId)
    BY <1>2, HeadTail
  <2>2. IsIndex(MarkRunning(s, Head(q))) /\ NewRun(s, Head(q)) \in Run
    BY <1>2, <2>1, MarkRunningType, NewRunType
  <2>3. QED
    BY <1>2, <2>1, <2>2 DEF ProcessNext, TypeOK, Active
<1>3. CASE q # <<>> /\ ~CanProcess(s, Head(q))
  <2>1. Head(q) \in DocId /\ Tail(q) \in Seq(DocId)
    BY <1>3, HeadTail
  <2>2. IsIndex(MarkError(s, Head(q))) /\ Rearmed(armed, Tail(q)) \in Nat
    BY <1>3, <2>1, MarkErrorType, RearmedType
  <2>3. QED
    BY <1>3, <2>1, <2>2 DEF ProcessNext, TypeOK
<1>4. QED
  BY <1>1, <1>2, <1>3

LEMMA EndRunType ==
    ASSUME TypeOK, NEW r, NEW s, IsIndex(s), EndRun(r, s)
    PROVE  TypeOK'
BY RearmedType DEF EndRun, TypeOK

LEMMA ContinueRunType ==
    ASSUME TypeOK, NEW r \in Active, NEW pages \in Seq(Page),
           NEW i \in Nat \ {0}, NEW s, IsIndex(s), ContinueRun(r, pages, i, s)
    PROVE  TypeOK'
<1>1. runs[r] \in Run /\ runs[r].doc \in DocId
  BY DEF TypeOK, Active, Run
<1>2. CASE EndRun(r, s)
  BY <1>2, EndRunType
<1>3. CASE EndRun(r, MarkDone(s, runs[r].doc, pages))
  BY <1>1, <1>3, EndRunType, MarkDoneType
<1>4. ASSUME store' = s,
             runs' = [runs EXCEPT ![r] = [doc |-> runs[r].doc, pages |-> pages,
                                          next |-> i, stage |-> "recognizing"]],
             UNCHANGED <<isProcessing, currentDocumentId, processingQueue, timers>>
      PROVE  TypeOK'
  <2>1. [doc |-> runs[r].doc, pages |-> pages, next |-> i,
         stage |-> "recognizing"] \in Run
    BY <1>1 DEF Run
  <2>2. QED
    BY <1>4, <2>1 DEF TypeOK
<1>5. QED
  BY <1>2, <1>3, <1>4 DEF ContinueRun

LEMMA FilteredType ==
    ASSUME NEW page \in Page, NEW succeeds \in BOOLEAN
    PROVE  Filtered(page, succeeds) \in Page
BY DEF Filtered, Page

LEMMA RecognizedType ==
    ASSUME NEW page \in Page, NEW text \in Recognized(page)
    PROVE  text \in Look \cup {Blank}
BY DEF Recognized, Page

\* The pages a run has after a filter step and after a recognition.
LEMMA FilteredPagesType ==
    ASSUME NEW pages \in Seq(Page), NEW S
    PROVE  [i \in 1 .. Len(pages) |-> Filtered(pages[i], i \in S)] \in Seq(Page)
<1>1. \A i \in 1 .. Len(pages) : Filtered(pages[i], i \in S) \in Page
  <2> SUFFICES ASSUME NEW i \in 1 .. Len(pages)
               PROVE  Filtered(pages[i], i \in S) \in Page
    OBVIOUS
  <2>1. pages[i] \in Page
    OBVIOUS
  <2>2. [pages[i] EXCEPT !.processed = pages[i].look] \in Page
    BY <2>1 DEF Page
  <2>3. QED
    BY <2>1, <2>2 DEF Filtered
<1>2. Len(pages) \in Nat
  OBVIOUS
<1>3. QED
  BY <1>1, <1>2

LEMMA ReadPagesType ==
    ASSUME NEW pages \in Seq(Page), NEW n \in Nat,
           NEW text \in Recognized(pages[n])
    PROVE  /\ [pages EXCEPT ![n].text = text] \in Seq(Page)
           /\ Len([pages EXCEPT ![n].text = text]) = Len(pages)
<1> DEFINE new == [pages EXCEPT ![n].text = text]
<1>1. \A i \in 1 .. Len(pages) : new[i] \in Page
  <2> SUFFICES ASSUME NEW i \in 1 .. Len(pages)
               PROVE  new[i] \in Page
    OBVIOUS
  <2>1. CASE i = n
    <3>1. pages[n] \in Page /\ text \in Look \cup {Blank}
      BY <2>1, RecognizedType
    <3>2. new[i] = [pages[n] EXCEPT !.text = text]
      BY <2>1
    <3>3. QED
      BY <3>1, <3>2 DEF Page
  <2>2. CASE i # n
    BY <2>2
  <2>3. QED
    BY <2>1, <2>2
<1>2. Len(pages) \in Nat /\ DOMAIN pages = 1 .. Len(pages)
  OBVIOUS
<1>3. new = [i \in 1 .. Len(pages) |-> new[i]]
  BY <1>2
<1> HIDE DEF new
<1>4. new \in [1 .. Len(pages) -> Page]
  BY <1>1, <1>3
<1>5. new \in Seq(Page) /\ Len(new) = Len(pages)
  BY <1>2, <1>4
<1>6. QED
  BY <1>5 DEF new

LEMMA EnqueuedType ==
    ASSUME TypeOK, NEW d \in DocId
    PROVE  Enqueued(d) \in Seq(DocId)
BY DEF Enqueued, TypeOK

\* enqueueDoc on any index that the app may have saved in the same step.
LEMMA EnqueueDocType ==
    ASSUME TypeOK, NEW s, IsIndex(s), NEW d \in DocId, EnqueueDocOn(s, d)
    PROVE  TypeOK'
<1>1. CASE isProcessing /\ processingQueue' = Enqueued(d) /\ store' = s
           /\ UNCHANGED <<isProcessing, currentDocumentId, timers, runs>>
  BY <1>1, EnqueuedType DEF TypeOK
<1>2. CASE ProcessNext(Enqueued(d), s, timers)
  BY <1>2, EnqueuedType, ProcessNextType DEF TypeOK
<1>3. CASE store' = s /\ UNCHANGED control
  BY <1>3 DEF control, TypeOK
<1>4. QED
  BY <1>1, <1>2, <1>3 DEF EnqueueDocOn

LEMMA NextTypeOK == TypeOK /\ [Next]_vars => TypeOK'
<1> SUFFICES ASSUME TypeOK, [Next]_vars
             PROVE  TypeOK'
  OBVIOUS
<1>1. ASSUME NEW d \in DocId, EnqueueDoc(d)
      PROVE  TypeOK'
  BY <1>1, EnqueueDocType DEF EnqueueDoc, TypeOK
<1>2. ASSUME NEW d \in DocId, Cancel(d)
      PROVE  TypeOK'
  <2> DEFINE q == Without(processingQueue, d)
             s == UpdateDoc(store, d, [store[d] EXCEPT !.ocrStatus = "idle"])
  <2>1. q \in Seq(DocId)
    BY WithoutProperties DEF TypeOK
  <2>2. IsIndex(s)
    <3>1. d \in DOMAIN store => [store[d] EXCEPT !.ocrStatus = "idle"] \in Doc
      BY DEF TypeOK, IsIndex, Doc, OcrStatus
    <3>2. QED
      BY <3>1, UpdateDocType DEF TypeOK
  <2>3. CASE ProcessNext(q, s, timers)
    BY <2>1, <2>2, <2>3, ProcessNextType DEF TypeOK
  <2>4. CASE processingQueue' = q
             /\ UNCHANGED <<store, isProcessing, currentDocumentId, timers, runs>>
    BY <2>1, <2>4 DEF TypeOK
  <2>5. QED
    BY <1>2, <2>3, <2>4 DEF Cancel
<1>3. ASSUME TimerFires
      PROVE  TypeOK'
  <2>1. timers - 1 \in Nat
    BY <1>3 DEF TimerFires, TypeOK
  <2>2. CASE ProcessNext(processingQueue, store, timers - 1)
    BY <2>1, <2>2, ProcessNextType DEF TypeOK
  <2>3. CASE timers' = timers - 1
             /\ UNCHANGED <<store, isProcessing, currentDocumentId,
                            processingQueue, runs>>
    BY <2>1, <2>3 DEF TypeOK
  <2>4. QED
    BY <1>3, <2>2, <2>3 DEF TimerFires
<1>4. ASSUME NEW r \in RunId, FilterDone(r)
      PROVE  TypeOK'
  <2>1. r \in Active /\ runs[r].doc \in DocId /\ runs[r].pages \in Seq(Page)
    BY <1>4 DEF FilterDone, TypeOK, Active, Run
  <2>2. PICK succeeded \in SUBSET (1 .. Len(runs[r].pages)) :
          LET d == runs[r].doc
              pages == [i \in 1 .. Len(runs[r].pages) |->
                           Filtered(runs[r].pages[i], i \in succeeded)]
          IN  ContinueRun(r, pages, 1,
                  UpdateDoc(store, d, [store[d] EXCEPT !.pages = pages]))
    BY <1>4 DEF FilterDone
  <2> DEFINE pages == [i \in 1 .. Len(runs[r].pages) |->
                          Filtered(runs[r].pages[i], i \in succeeded)]
             doc == [store[runs[r].doc] EXCEPT !.pages = pages]
  <2>3. pages \in Seq(Page)
    BY <2>1, FilteredPagesType
  <2> HIDE DEF pages
  <2>4. runs[r].doc \in DOMAIN store => doc \in Doc
    BY <2>3, SetPagesType DEF TypeOK, IsIndex
  <2> HIDE DEF doc
  <2>5. IsIndex(UpdateDoc(store, runs[r].doc, doc))
    BY <2>1, <2>4, UpdateDocType DEF TypeOK
  <2>6. ContinueRun(r, pages, 1, UpdateDoc(store, runs[r].doc, doc))
    BY <2>2 DEF pages, doc
  <2>7. QED
    BY <2>1, <2>3, <2>5, <2>6, ContinueRunType
<1>5. ASSUME NEW r \in RunId, PageDone(r)
      PROVE  TypeOK'
  <2>1. /\ r \in Active
        /\ runs[r].doc \in DocId
        /\ runs[r].pages \in Seq(Page)
        /\ runs[r].next \in Nat
    BY <1>5 DEF PageDone, TypeOK, Active, Run
  <2>2. PICK text \in Recognized(runs[r].pages[runs[r].next]) :
          LET d == runs[r].doc
              pages == [runs[r].pages EXCEPT ![runs[r].next].text = text]
          IN  ContinueRun(r, pages, runs[r].next + 1,
                  UpdateDoc(store, d, [store[d] EXCEPT
                      !.ocrProgress = [processed |-> runs[r].next,
                                       total |-> Len(pages)],
                      !.pages = pages]))
    BY <1>5 DEF PageDone, PageRead
  <2> DEFINE pages == [runs[r].pages EXCEPT ![runs[r].next].text = text]
             progress == [processed |-> runs[r].next, total |-> Len(pages)]
             doc == [store[runs[r].doc] EXCEPT !.ocrProgress = progress,
                                               !.pages = pages]
  <2>3. pages \in Seq(Page)
    BY <2>1, ReadPagesType
  <2>4. progress \in OcrProgress
    BY <2>1, <2>3 DEF OcrProgress
  <2> HIDE DEF pages, progress
  <2>5. runs[r].doc \in DOMAIN store => doc \in Doc
    BY <2>3, <2>4 DEF TypeOK, IsIndex, Doc
  <2> HIDE DEF doc
  <2>6. IsIndex(UpdateDoc(store, runs[r].doc, doc))
    BY <2>1, <2>5, UpdateDocType DEF TypeOK
  <2>7. ContinueRun(r, pages, runs[r].next + 1,
                    UpdateDoc(store, runs[r].doc, doc))
    BY <2>2 DEF pages, progress, doc
  <2>8. QED
    BY <2>1, <2>3, <2>6, <2>7, ContinueRunType
<1>6. ASSUME NEW d \in DocId, AppWrites(d)
      PROVE  TypeOK'
  BY <1>6, PutDocType DEF AppWrites, TypeOK, control
<1>7. ASSUME NEW d \in DocId, AppRemoves(d)
      PROVE  TypeOK'
  BY <1>7, RemoveDocType DEF AppRemoves, TypeOK, control
<1>8. ASSUME Restart
      PROVE  TypeOK'
  <2>1. IsIndex(store)'
    BY <1>8 DEF Restart, TypeOK, IsIndex
  <2>2. runs' \in [RunId -> Run \cup {None}]
    BY <1>8 DEF Restart
  <2>3. processingQueue' \in Seq(DocId)
    BY <1>8 DEF Restart
  <2>4. QED
    BY <1>8, <2>1, <2>2, <2>3 DEF Restart, TypeOK
<1>9. CASE UNCHANGED vars
  BY <1>9 DEF vars, control, TypeOK
<1>10. QED
  BY <1>1, <1>2, <1>3, <1>4, <1>5, <1>6, <1>7, <1>8, <1>9 DEF Next

LEMMA InitTypeOK == Init => TypeOK
<1> SUFFICES ASSUME Init
             PROVE  TypeOK
  OBVIOUS
<1>1. PICK ids \in SUBSET DocId : store \in [ids -> AppDoc]
  BY DEF Init, EmptyQueue
<1>2. IsIndex(store)
  BY <1>1 DEF IsIndex
<1>3. runs \in [RunId -> Run \cup {None}]
  BY DEF Init, EmptyQueue
<1>4. processingQueue \in Seq(DocId)
  BY DEF Init, EmptyQueue
<1>5. QED
  BY <1>2, <1>3, <1>4 DEF Init, EmptyQueue, TypeOK

\* Every variable of the queue and the index keeps its type, in every
\* environment: no run writes an entry that is not a document.
THEOREM TypeCorrect == Spec => []TypeOK
BY InitTypeOK, NextTypeOK, PTL DEF Spec

-----------------------------------------------------------------------------
(* The queue always has something that will start its work, and never the  *)
(* same work twice.                                                        *)

\* NoLostWakeup and NoDuplicateWork are not inductive alone: a step of the
\* queue relies on isProcessing and currentDocumentId changing together, and
\* on the run of the document in process being there even when nothing waits.
QueueInv ==
    /\ isProcessing <=> currentDocumentId # None
    /\ isProcessing => \E r \in Active : runs[r].doc = currentDocumentId
    /\ ~isProcessing /\ processingQueue # <<>> => timers > 0
    /\ Distinct(processingQueue)
    /\ ~IsQueued(currentDocumentId)

LEMMA EnqueuedDistinct ==
    ASSUME TypeOK, QueueInv, NEW d \in DocId
    PROVE  /\ Distinct(Enqueued(d))
           /\ isProcessing =>
                 \A i \in DOMAIN Enqueued(d) : Enqueued(d)[i] # currentDocumentId
<1>1. CASE IsQueued(d) \/ currentDocumentId = d
  BY <1>1 DEF Enqueued, QueueInv, IsQueued
<1>2. CASE ~IsQueued(d) /\ currentDocumentId # d
  <2> DEFINE q == processingQueue
  <2>1. q \in Seq(DocId) /\ Enqueued(d) = Append(q, d)
    BY <1>2 DEF Enqueued, TypeOK
  <2>2. /\ DOMAIN Append(q, d) = 1 .. Len(q) + 1
        /\ \A i \in 1 .. Len(q) : Append(q, d)[i] = q[i]
        /\ Append(q, d)[Len(q) + 1] = d
        /\ DOMAIN q = 1 .. Len(q)
        /\ Len(q) \in Nat
    BY <2>1
  <2>3. QED
    BY <1>2, <2>1, <2>2 DEF QueueInv, Distinct, IsQueued
<1>3. QED
  BY <1>1, <1>2

\* processNext, from any queue of distinct documents its caller leaves.
LEMMA ProcessNextQueueInv ==
    ASSUME TypeOK, NEW q \in Seq(DocId), Distinct(q), NEW s, IsIndex(s),
           NEW armed \in Nat, ProcessNext(q, s, armed)
    PROVE  QueueInv'
<1>1. CASE q = <<>>
  BY <1>1 DEF ProcessNext, QueueInv, Distinct, IsQueued
<1>2. CASE q # <<>> /\ CanProcess(s, Head(q))
  <2>1. /\ isProcessing' = TRUE
        /\ currentDocumentId' = Head(q)
        /\ processingQueue' = Tail(q)
    BY <1>2 DEF ProcessNext
  <2>2. PICK r \in RunId : runs' = [runs EXCEPT ![r] = NewRun(s, Head(q))]
    BY <1>2 DEF ProcessNext
  <2>3. runs'[r] = NewRun(s, Head(q)) /\ NewRun(s, Head(q)).doc = Head(q)
    BY <2>2 DEF TypeOK, NewRun
  <2>4. NewRun(s, Head(q)) # None
    BY <1>2, HeadTail, NewRunType
  <2>5. Distinct(Tail(q)) /\ \A i \in DOMAIN Tail(q) : Tail(q)[i] # Head(q)
    BY <1>2, HeadTail DEF Distinct
  <2>6. QED
    BY <1>2, <2>1, <2>3, <2>4, <2>5, HeadTail DEF QueueInv, Active, IsQueued
<1>3. CASE q # <<>> /\ ~CanProcess(s, Head(q))
  <2>1. Distinct(Tail(q)) /\ Tail(q) \in Seq(DocId)
    BY <1>3, HeadTail DEF Distinct
  <2>2. \A i \in DOMAIN Tail(q) : Tail(q)[i] # None
    BY <2>1
  <2>3. QED
    BY <1>3, <2>1, <2>2, RearmedType DEF ProcessNext, QueueInv, IsQueued
<1>4. QED
  BY <1>1, <1>2, <1>3

\* A run that continues or ends leaves the queue as it is.
LEMMA ContinueRunQueueInv ==
    ASSUME TypeOK, QueueInv, NEW r \in Active, NEW pages \in Seq(Page),
           NEW i \in Nat \ {0}, NEW s, ContinueRun(r, pages, i, s)
    PROVE  QueueInv'
<1>1. processingQueue' = processingQueue
  BY DEF ContinueRun, EndRun
<1>2. CASE currentDocumentId' = None /\ isProcessing' = FALSE
           /\ timers' = Rearmed(timers, processingQueue)
  <2>1. ~IsQueued(None)
    BY DEF IsQueued, TypeOK
  <2>2. QED
    BY <1>1, <1>2, <2>1, RearmedType DEF QueueInv, IsQueued, Distinct, TypeOK
<1>3. CASE runs' = [runs EXCEPT ![r] = [doc |-> runs[r].doc, pages |-> pages,
                                        next |-> i, stage |-> "recognizing"]]
           /\ UNCHANGED <<isProcessing, currentDocumentId, processingQueue, timers>>
  <2> DEFINE run == [doc |-> runs[r].doc, pages |-> pages, next |-> i,
                     stage |-> "recognizing"]
  <2>1. r \in RunId /\ runs[r] \in Run
    BY DEF Active, TypeOK
  <2>2. run \in Run /\ run.doc = runs[r].doc
    BY <2>1 DEF Run
  <2>3. /\ runs'[r] = run
        /\ \A x \in RunId \ {r} : runs'[x] = runs[x]
    BY <1>3, <2>1 DEF TypeOK
  <2> HIDE DEF run
  <2>4. ASSUME NEW x \in Active
        PROVE  x \in Active' /\ runs'[x].doc = runs[x].doc
    BY <2>1, <2>2, <2>3 DEF Active
  <2>5. QED
    BY <1>3, <2>4 DEF QueueInv, IsQueued, Distinct
<1>4. QED
  BY <1>2, <1>3 DEF ContinueRun, EndRun

LEMMA EnqueueDocQueueInv ==
    ASSUME TypeOK, QueueInv, NEW s, IsIndex(s), NEW d \in DocId, EnqueueDocOn(s, d)
    PROVE  QueueInv'
<1>1. CASE isProcessing /\ processingQueue' = Enqueued(d)
           /\ UNCHANGED <<isProcessing, currentDocumentId, timers, runs>>
  BY <1>1, EnqueuedDistinct DEF QueueInv, Active, IsQueued, Distinct
<1>2. CASE ProcessNext(Enqueued(d), s, timers)
  BY <1>2, EnqueuedType, EnqueuedDistinct, ProcessNextQueueInv DEF TypeOK
<1>3. CASE UNCHANGED control
  BY <1>3 DEF control, QueueInv, Active, IsQueued, Distinct
<1>4. QED
  BY <1>1, <1>2, <1>3 DEF EnqueueDocOn

LEMMA NextQueueInv == TypeOK /\ QueueInv /\ [Next]_vars => QueueInv'
<1> SUFFICES ASSUME TypeOK, QueueInv, [Next]_vars
             PROVE  QueueInv'
  OBVIOUS
<1>1. ASSUME NEW d \in DocId, EnqueueDoc(d)
      PROVE  QueueInv'
  BY <1>1, EnqueueDocQueueInv DEF EnqueueDoc, TypeOK
<1>2. ASSUME NEW d \in DocId, Cancel(d)
      PROVE  QueueInv'
  <2> DEFINE q == Without(processingQueue, d)
             s == UpdateDoc(store, d, [store[d] EXCEPT !.ocrStatus = "idle"])
  <2>1. q \in Seq(DocId) /\ Distinct(q)
    BY WithoutProperties DEF TypeOK, QueueInv
  <2>2. IsIndex(s)
    <3>1. d \in DOMAIN store => [store[d] EXCEPT !.ocrStatus = "idle"] \in Doc
      BY DEF TypeOK, IsIndex, Doc, OcrStatus
    <3>2. QED
      BY <3>1, UpdateDocType DEF TypeOK
  <2>3. CASE ProcessNext(q, s, timers)
    BY <2>1, <2>2, <2>3, ProcessNextQueueInv DEF TypeOK
  <2>4. CASE processingQueue' = q
             /\ UNCHANGED <<store, isProcessing, currentDocumentId, timers, runs>>
    <3>1. \A i \in DOMAIN q : \E j \in DOMAIN processingQueue :
              q[i] = processingQueue[j]
      BY WithoutProperties DEF TypeOK
    <3>2. q # <<>> => processingQueue # <<>>
      <4>1. ASSUME q # <<>>
            PROVE  1 \in DOMAIN q
        BY <2>1, <4>1
      <4>2. QED
        BY <3>1, <4>1
    <3> HIDE DEF q
    <3>3. QED
      BY <2>1, <2>4, <3>1, <3>2 DEF QueueInv, Active, IsQueued
  <2>5. QED
    BY <1>2, <2>3, <2>4 DEF Cancel
<1>3. ASSUME TimerFires
      PROVE  QueueInv'
  <2>1. CASE isProcessing
             /\ UNCHANGED <<isProcessing, currentDocumentId, processingQueue, runs>>
    BY <2>1 DEF QueueInv, Active, IsQueued, Distinct
  <2>2. CASE ProcessNext(processingQueue, store, timers - 1)
    <3>1. timers - 1 \in Nat
      BY <1>3 DEF TimerFires, TypeOK
    <3>2. QED
      BY <2>2, <3>1, ProcessNextQueueInv DEF TypeOK, QueueInv
  <2>3. QED
    BY <1>3, <2>1, <2>2 DEF TimerFires
<1>4. ASSUME NEW r \in RunId, FilterDone(r)
      PROVE  QueueInv'
  <2>1. r \in Active /\ runs[r].pages \in Seq(Page)
    BY <1>4 DEF FilterDone, TypeOK, Active, Run
  <2>2. PICK S, s :
          ContinueRun(r, [i \in 1 .. Len(runs[r].pages) |->
                             Filtered(runs[r].pages[i], i \in S)], 1, s)
    BY <1>4 DEF FilterDone
  <2> DEFINE pages == [i \in 1 .. Len(runs[r].pages) |->
                          Filtered(runs[r].pages[i], i \in S)]
             first == 1
  <2>3. pages \in Seq(Page)
    BY <2>1, FilteredPagesType
  <2>4. ContinueRun(r, pages, first, s) /\ first \in Nat \ {0}
    BY <2>2
  <2> HIDE DEF pages, first
  <2>5. QED
    BY <2>1, <2>3, <2>4, ContinueRunQueueInv
<1>5. ASSUME NEW r \in RunId, PageDone(r)
      PROVE  QueueInv'
  <2>1. r \in Active /\ runs[r].pages \in Seq(Page) /\ runs[r].next \in Nat
    BY <1>5 DEF PageDone, TypeOK, Active, Run
  <2>2. runs[r].next + 1 \in Nat \ {0}
    BY <2>1
  <2>3. PICK text, s :
          /\ text \in Recognized(runs[r].pages[runs[r].next])
          /\ ContinueRun(r, [runs[r].pages EXCEPT ![runs[r].next].text = text],
                         runs[r].next + 1, s)
    BY <1>5 DEF PageDone, PageRead
  <2>4. [runs[r].pages EXCEPT ![runs[r].next].text = text] \in Seq(Page)
    BY <2>1, <2>3, ReadPagesType
  <2>5. QED
    BY <2>1, <2>2, <2>3, <2>4, ContinueRunQueueInv
<1>6. ASSUME UNCHANGED control
      PROVE  QueueInv'
  BY <1>6 DEF control, QueueInv, Active, IsQueued, Distinct
<1>7. ASSUME Restart
      PROVE  QueueInv'
  BY <1>7 DEF Restart, QueueInv, IsQueued, Distinct
<1>8. QED
  BY <1>1, <1>2, <1>3, <1>4, <1>5, <1>6, <1>7
  DEF Next, AppWrites, AppRemoves, vars

LEMMA QueueInvariance == Spec => []QueueInv
<1>1. Init => QueueInv
  BY DEF Init, EmptyQueue, QueueInv, IsQueued, Distinct
<1>2. QED
  BY <1>1, NextQueueInv, TypeCorrect, PTL DEF Spec

\* Waiting work always has a timer or a live run that will start it, for any
\* number of documents and runs, with cancellation and restarts.
THEOREM NeverStalled == Spec => []NoLostWakeup
<1>1. TypeOK /\ QueueInv => NoLostWakeup
  BY DEF TypeOK, QueueInv, NoLostWakeup
<1>2. QED
  BY <1>1, TypeCorrect, QueueInvariance, PTL

\* No document is queued twice or behind itself, whatever the app writes.
THEOREM NeverTwice == Spec => []NoDuplicateWork
<1>1. QueueInv => NoDuplicateWork
  BY DEF QueueInv, NoDuplicateWork, Distinct
<1>2. QED
  BY <1>1, QueueInvariance, PTL

-----------------------------------------------------------------------------
(* One run at a time, as long as nothing is cancelled.                     *)

LEMMA ProcessNextSingle ==
    ASSUME TypeOK, SingleWorker, ~isProcessing, NEW q, NEW s, NEW armed,
           ProcessNext(q, s, armed), q # <<>> => Head(q) # None
    PROVE  SingleWorker'
<1>1. Active = {}
  BY DEF SingleWorker
<1>2. CASE runs' = runs
  BY <1>1, <1>2 DEF SingleWorker, Active
<1>3. ASSUME isProcessing' = TRUE, currentDocumentId' = Head(q),
             NEW r \in RunId, runs' = [runs EXCEPT ![r] = NewRun(s, Head(q))]
      PROVE  SingleWorker'
  <2>1. \A x \in RunId : runs'[x] # None => x = r
    BY <1>1, <1>3 DEF Active, TypeOK
  <2>2. runs'[r].doc = Head(q)
    BY <1>3 DEF NewRun, TypeOK
  <2>3. QED
    BY <1>3, <2>1, <2>2 DEF SingleWorker, Active
<1>4. QED
  BY <1>2, <1>3 DEF ProcessNext

LEMMA ContinueRunSingle ==
    ASSUME TypeOK, SingleWorker, NEW r \in Active, NEW pages, NEW i, NEW s,
           ContinueRun(r, pages, i, s)
    PROVE  SingleWorker'
<1>1. r \in RunId /\ \A x \in RunId : runs[x] # None => x = r
  BY DEF SingleWorker, Active
<1>2. CASE runs' = [runs EXCEPT ![r] = None]
  BY <1>1, <1>2 DEF SingleWorker, Active, TypeOK
<1>3. CASE runs' = [runs EXCEPT ![r] = [doc |-> runs[r].doc, pages |-> pages,
                                        next |-> i, stage |-> "recognizing"]]
           /\ UNCHANGED <<isProcessing, currentDocumentId, processingQueue, timers>>
  <2>1. \A x \in RunId : runs'[x] # None => x = r
    BY <1>1, <1>3 DEF TypeOK
  <2>2. runs'[r].doc = runs[r].doc
    BY <1>1, <1>3 DEF TypeOK
  <2>3. QED
    BY <1>3, <2>1, <2>2 DEF SingleWorker, Active
<1>4. QED
  BY <1>2, <1>3 DEF ContinueRun, EndRun

LEMMA EnqueueDocSingle ==
    ASSUME TypeOK, SingleWorker, NEW s, NEW d \in DocId, EnqueueDocOn(s, d)
    PROVE  SingleWorker'
<1>1. CASE UNCHANGED <<isProcessing, currentDocumentId, timers, runs>>
  BY <1>1 DEF SingleWorker, Active
<1>2. CASE ~isProcessing /\ ProcessNext(Enqueued(d), s, timers)
  BY <1>2, EnqueuedType, HeadTail, ProcessNextSingle
<1>3. QED
  BY <1>1, <1>2 DEF EnqueueDocOn, control

LEMMA NextSingleWorker ==
    ASSUME "cancel" \notin Disturb
    PROVE  TypeOK /\ SingleWorker /\ [Next]_vars => SingleWorker'
<1> SUFFICES ASSUME TypeOK, SingleWorker, [Next]_vars
             PROVE  SingleWorker'
  OBVIOUS
<1>1. ASSUME NEW d \in DocId, EnqueueDoc(d)
      PROVE  SingleWorker'
  BY <1>1, EnqueueDocSingle DEF EnqueueDoc
<1>2. ASSUME TimerFires
      PROVE  SingleWorker'
  <2>1. CASE UNCHANGED <<store, isProcessing, currentDocumentId, processingQueue,
                         runs>>
    BY <2>1 DEF SingleWorker, Active
  <2>2. CASE ~isProcessing /\ ProcessNext(processingQueue, store, timers - 1)
    BY <2>2, HeadTail, ProcessNextSingle DEF TypeOK
  <2>3. QED
    BY <1>2, <2>1, <2>2 DEF TimerFires
<1>3. ASSUME NEW r \in RunId, FilterDone(r)
      PROVE  SingleWorker'
  BY <1>3, ContinueRunSingle DEF FilterDone
<1>4. ASSUME NEW r \in RunId, PageDone(r)
      PROVE  SingleWorker'
  BY <1>4, ContinueRunSingle DEF PageDone, PageRead
<1>5. ASSUME UNCHANGED control
      PROVE  SingleWorker'
  BY <1>5 DEF control, SingleWorker, Active
<1>6. ASSUME Restart
      PROVE  SingleWorker'
  BY <1>6 DEF Restart, SingleWorker, Active
<1>7. QED
  BY <1>1, <1>2, <1>3, <1>4, <1>5, <1>6
  DEF Next, Cancel, AppWrites, AppRemoves, vars

\* isProcessing is a lock held from processNext's first line to its finally
\* block: without cancel, the only way to break it, at most one call of
\* processDocument is in flight, and it is the current document's.
THEOREM OneRunAtATime ==
    ASSUME "cancel" \notin Disturb
    PROVE  Spec => []SingleWorker
<1>1. Init => SingleWorker
  BY DEF Init, EmptyQueue, SingleWorker, Active
<1>2. TypeOK /\ SingleWorker /\ [Next]_vars => SingleWorker'
  BY NextSingleWorker
<1>3. QED
  BY <1>1, <1>2, TypeCorrect, PTL DEF Spec

-----------------------------------------------------------------------------
(* What "done" means.                                                      *)

\* What DoneMeansRead says of an index.
DoneOn(s) ==
    \A d \in DOMAIN s : Status(s, d) = "done" =>
        /\ \A i \in DOMAIN s[d].pages : s[d].pages[i].text # None
        /\ s[d].ocrProgress = [processed |-> Len(s[d].pages),
                               total |-> Len(s[d].pages)]

\* DoneMeansRead is inductive with what it relies on about unfinished work:
\* no run and no queued document is for a document finished in the index, and a
\* run has read every page before the one it is at.
RunsOn(s) ==
    /\ \A r \in Active :
          /\ runs[r].doc \in DOMAIN s => Status(s, runs[r].doc) # "done"
          /\ runs[r].next <= Len(runs[r].pages)
          /\ \A i \in 1 .. runs[r].next - 1 : runs[r].pages[i].text # None
    /\ \A i \in DOMAIN processingQueue :
          processingQueue[i] \in DOMAIN s => Status(s, processingQueue[i]) # "done"

RunInv == RunsOn(store)

\* What FinishedIsFinal says of a step on an index.
FinishedFrom(s) ==
    \A d \in DOMAIN s \cap DOMAIN store' :
        Status(s, d) = "done" => store'[d] = s[d] \/ store'[d] \in AppDoc

FinishedStep == FinishedFrom(store)

FinishedInv == TypeOK /\ QueueInv /\ SingleWorker /\ RunInv /\ DoneMeansRead

LEMMA UpdateDocEntries ==
    ASSUME NEW s, IsIndex(s), NEW d, NEW doc
    PROVE  /\ DOMAIN UpdateDoc(s, d, doc) = DOMAIN s
           /\ \A x \in DOMAIN s \ {d} : UpdateDoc(s, d, doc)[x] = s[x]
           /\ d \in DOMAIN s => UpdateDoc(s, d, doc)[d] = doc
BY DEF UpdateDoc, IsIndex

\* The first or the error write for a document that is not finished.
LEMMA StatusWrite ==
    ASSUME NEW s, IsIndex(s), DoneOn(s), NEW d, NEW doc, doc.ocrStatus # "done",
           d \in DOMAIN s => Status(s, d) # "done",
           store' = UpdateDoc(s, d, doc)
    PROVE  /\ DoneMeansRead'
           /\ FinishedFrom(s)
           /\ \A x \in DOMAIN store' :
                 Status(store', x) = "done" =>
                     x \in DOMAIN s /\ Status(s, x) = "done"
<1>1. /\ DOMAIN store' = DOMAIN s
      /\ \A x \in DOMAIN s \ {d} : store'[x] = s[x]
      /\ d \in DOMAIN s => store'[d] = doc
  BY UpdateDocEntries
<1>2. QED
  BY <1>1 DEF DoneOn, DoneMeansRead, FinishedFrom, Status

LEMMA ProcessNextFinished ==
    ASSUME TypeOK, SingleWorker, ~isProcessing, NEW s, IsIndex(s), DoneOn(s),
           NEW q \in Seq(DocId), NEW armed,
           \A i \in DOMAIN q : q[i] \in DOMAIN s =>
                                   Status(s, q[i]) # "done",
           ProcessNext(q, s, armed)
    PROVE  RunInv' /\ DoneMeansRead' /\ FinishedFrom(s)
<1>1. Active = {}
  BY DEF SingleWorker
<1>2. CASE q = <<>>
  <2>1. store' = s /\ runs' = runs /\ processingQueue' = <<>>
    BY <1>2 DEF ProcessNext
  <2>2. Active' = {}
    BY <1>1, <2>1 DEF Active
  <2>3. QED
    BY <2>1, <2>2 DEF RunInv, RunsOn, DoneOn, DoneMeansRead, FinishedFrom
<1>3. CASE q # <<>>
  <2> DEFINE d == Head(q)
  <2>1. /\ d \in DocId
        /\ d \in DOMAIN s => Status(s, d) # "done"
        /\ Tail(q) \in Seq(DocId)
        /\ \A i \in DOMAIN Tail(q) :
              Tail(q)[i] \in DOMAIN s => Status(s, Tail(q)[i]) # "done"
    BY <1>3, HeadTail
  <2>2. processingQueue' = Tail(q)
    BY <1>3 DEF ProcessNext
  <2>3. CASE ~CanProcess(s, d)
    <3>1. store' = MarkError(s, d) /\ runs' = runs
      BY <1>3, <2>3 DEF ProcessNext
    <3>2. d \in DOMAIN s =>
            [s[d] EXCEPT !.ocrStatus = "error"].ocrStatus # "done"
      BY DEF IsIndex, Doc
    <3>3. CASE d \in DOMAIN s
      <4>1. /\ DoneMeansRead'
            /\ FinishedFrom(s)
            /\ \A x \in DOMAIN store' :
                  Status(store', x) = "done" =>
                      x \in DOMAIN s /\ Status(s, x) = "done"
        BY <2>1, <3>1, <3>2, <3>3, StatusWrite DEF MarkError
      <4>2. Active' = {}
        BY <1>1, <3>1 DEF Active
      <4>3. QED
        BY <2>1, <2>2, <4>1, <4>2 DEF RunInv, RunsOn
    <3>4. CASE d \notin DOMAIN s
      <4>1. store' = s /\ Active' = {}
        BY <1>1, <3>1, <3>4 DEF MarkError, UpdateDoc, Active
      <4>2. QED
        BY <2>1, <2>2, <4>1 DEF RunInv, RunsOn, DoneOn, DoneMeansRead, FinishedFrom
    <3>5. QED
      BY <3>3, <3>4
  <2>4. CASE CanProcess(s, d)
    <3>1. d \in DOMAIN s /\ s[d] \in Doc /\ store' = MarkRunning(s, d)
      BY <1>3, <2>4 DEF ProcessNext, CanProcess, IsIndex
    <3> DEFINE doc == [s[d] EXCEPT
                 !.ocrStatus = "running",
                 !.ocrProgress = [processed |-> 0, total |-> Len(s[d].pages)]]
    <3>2. doc.ocrStatus = "running"
      BY <3>1 DEF Doc
    <3>3. /\ DoneMeansRead'
          /\ FinishedFrom(s)
          /\ \A x \in DOMAIN store' :
                Status(store', x) = "done" =>
                    x \in DOMAIN s /\ Status(s, x) = "done"
      <4> HIDE DEF doc
      <4>1. store' = UpdateDoc(s, d, doc)
        BY <3>1 DEF MarkRunning, doc
      <4>2. QED
        BY <2>1, <3>2, <4>1, StatusWrite
    <3>4. PICK r \in RunId : runs' = [runs EXCEPT ![r] = NewRun(s, d)]
      BY <1>3, <2>4 DEF ProcessNext
    <3>5. /\ runs'[r] = NewRun(s, d)
          /\ Active' \subseteq {r}
      BY <1>1, <3>4 DEF Active, TypeOK
    <3>6. /\ runs'[r].doc = d
          /\ runs'[r].next = 1
          /\ runs'[r].pages = s[d].pages
      BY <3>5 DEF NewRun
    <3>7. 1 <= Len(s[d].pages)
      BY <2>4, <3>1 DEF CanProcess, Doc
    <3>8. QED
      BY <2>1, <2>2, <3>3, <3>5, <3>6, <3>7 DEF RunInv, RunsOn
  <2>5. QED
    BY <2>3, <2>4
<1>4. QED
  BY <1>2, <1>3

LEMMA EnqueueDocFinished ==
    ASSUME TypeOK, SingleWorker, NEW s, IsIndex(s), RunsOn(s), DoneOn(s),
           NEW d \in DocId, EnqueueDocOn(s, d)
    PROVE  RunInv' /\ DoneMeansRead' /\ FinishedFrom(s)
<1>1. \A i \in DOMAIN Enqueued(d) :
          Enqueued(d)[i] = d \/ IsQueued(Enqueued(d)[i])
  BY DEF Enqueued, IsQueued, TypeOK
<1>2. Enqueued(d) \in Seq(DocId)
  BY EnqueuedType
<1>3. ASSUME Accepts(s, d)
      PROVE  \A i \in DOMAIN Enqueued(d) :
                Enqueued(d)[i] \in DOMAIN s => Status(s, Enqueued(d)[i]) # "done"
  BY <1>1, <1>3 DEF Accepts, IsQueued, RunsOn
<1>4. CASE Accepts(s, d) /\ processingQueue' = Enqueued(d) /\ store' = s
           /\ UNCHANGED <<isProcessing, currentDocumentId, timers, runs>>
  BY <1>3, <1>4 DEF RunInv, RunsOn, DoneOn, DoneMeansRead, FinishedFrom, Active, Status
<1>5. CASE Accepts(s, d) /\ ~isProcessing /\ ProcessNext(Enqueued(d), s, timers)
  BY <1>2, <1>3, <1>5, ProcessNextFinished
<1>6. CASE store' = s /\ UNCHANGED control
  BY <1>6 DEF control, RunInv, RunsOn, DoneOn, DoneMeansRead, FinishedFrom, Active,
              Status
<1>7. QED
  BY <1>4, <1>5, <1>6 DEF EnqueueDocOn

\* A run that has read its pages up to i and wrote them without the status.
LEMMA ContinueRunFinished ==
    ASSUME FinishedInv, NEW r \in Active, NEW pages \in Seq(Page),
           NEW i \in Nat \ {0}, i <= Len(pages) + 1,
           \A j \in 1 .. i - 1 : pages[j].text # None,
           NEW doc,
           runs[r].doc \in DOMAIN store =>
               doc \in Doc /\ doc.ocrStatus = store[runs[r].doc].ocrStatus,
           ContinueRun(r, pages, i, UpdateDoc(store, runs[r].doc, doc))
    PROVE  RunInv' /\ DoneMeansRead' /\ FinishedStep
<1> DEFINE d == runs[r].doc
           s == UpdateDoc(store, d, doc)
<1>1. /\ r \in RunId /\ d \in DocId /\ runs[r] \in Run
      /\ d \in DOMAIN store => doc.ocrStatus # "done"
      /\ \A x \in RunId : runs[x] # None => x = r
  BY DEF FinishedInv, TypeOK, Active, Run, RunInv, RunsOn, SingleWorker, Status
<1>2. processingQueue' = processingQueue
  BY DEF ContinueRun, EndRun
<1>3. ~IsQueued(d)
  BY DEF FinishedInv, QueueInv, SingleWorker
<1>4. /\ DOMAIN s = DOMAIN store
      /\ \A x \in DOMAIN store \ {d} : s[x] = store[x]
      /\ d \in DOMAIN store => s[d] = doc
  BY UpdateDocEntries DEF FinishedInv, TypeOK
<1>5. d \in DOMAIN store => Status(store, d) # "done"
  BY DEF FinishedInv, RunInv, RunsOn
<1> HIDE DEF d, s
<1>6. ASSUME NEW t, DOMAIN t = DOMAIN store,
             \A x \in DOMAIN store \ {d} : t[x] = store[x], store' = t
      PROVE  /\ FinishedStep
             /\ \A x \in DOMAIN processingQueue' :
                   processingQueue'[x] \in DOMAIN store' =>
                       Status(store', processingQueue'[x]) # "done"
  BY <1>2, <1>3, <1>5, <1>6 DEF FinishedStep, FinishedFrom, FinishedInv, RunInv,
                                RunsOn, Status, IsQueued
<1>7. ASSUME store' = s
      PROVE  DoneMeansRead'
  BY <1>1, <1>4, <1>7 DEF DoneMeansRead, FinishedInv, Status, d
<1>8. CASE /\ i <= Len(pages)
           /\ store' = s
           /\ runs' = [runs EXCEPT ![r] = [doc |-> d, pages |-> pages,
                                           next |-> i, stage |-> "recognizing"]]
  <2>1. /\ runs'[r] = [doc |-> d, pages |-> pages, next |-> i,
                       stage |-> "recognizing"]
        /\ Active' \subseteq {r}
    BY <1>1, <1>8 DEF FinishedInv, TypeOK, Active
  <2>2. d \in DOMAIN store' => Status(store', d) # "done"
    BY <1>1, <1>4, <1>8 DEF Status, d
  <2>3. QED
    BY <1>4, <1>6, <1>7, <1>8, <2>1, <2>2 DEF RunInv, RunsOn
<1>9. CASE store' = s /\ runs' = [runs EXCEPT ![r] = None]
  <2>1. Active' = {}
    BY <1>1, <1>9 DEF FinishedInv, TypeOK, Active
  <2>2. QED
    BY <1>4, <1>6, <1>7, <1>9, <2>1 DEF RunInv, RunsOn
<1>10. CASE /\ i > Len(pages)
            /\ store' = MarkDone(s, d, pages)
            /\ runs' = [runs EXCEPT ![r] = None]
  <2>1. Active' = {}
    BY <1>1, <1>10 DEF FinishedInv, TypeOK, Active
  <2> DEFINE final == [s[d] EXCEPT
        !.ocrStatus = "done",
        !.ocrProgress = [processed |-> Len(pages), total |-> Len(pages)],
        !.pages = pages]
  <2>2. IsIndex(s)
    BY <1>1, UpdateDocType DEF FinishedInv, TypeOK, s, d
  <2>3. /\ DOMAIN store' = DOMAIN store
        /\ \A x \in DOMAIN store \ {d} : store'[x] = store[x]
        /\ d \in DOMAIN store => store'[d] = final
    BY <1>4, <1>10, <2>2, UpdateDocEntries DEF MarkDone
  <2>4. ASSUME d \in DOMAIN store
        PROVE  /\ store'[d].pages = pages
               /\ store'[d].ocrProgress = [processed |-> Len(pages),
                                           total |-> Len(pages)]
    BY <1>4, <2>2, <2>3, <2>4 DEF IsIndex, Doc
  <2>5. \A j \in DOMAIN pages : pages[j].text # None
    BY <1>10
  <2>6. DoneMeansRead'
    BY <2>3, <2>4, <2>5 DEF DoneMeansRead, FinishedInv, Status
  <2>7. QED
    BY <1>6, <2>1, <2>3, <2>6 DEF RunInv, RunsOn
<1>11. QED
  BY <1>8, <1>9, <1>10 DEF ContinueRun, EndRun, s, d

\* The app's copies of the documents carry no result (until the app is
\* launched again on an index that holds some).
NothingDone == \A doc \in AppDoc : doc.ocrStatus # "done"

LEMMA NextFinished ==
    ASSUME "cancel" \notin Disturb, NothingDone
    PROVE  FinishedInv /\ [Next]_vars =>
              RunInv' /\ DoneMeansRead' /\ [FinishedStep]_vars
<1> SUFFICES ASSUME FinishedInv, [Next]_vars
             PROVE  RunInv' /\ DoneMeansRead' /\ FinishedStep
  OBVIOUS
<1>1. ASSUME NEW d \in DocId, EnqueueDoc(d)
      PROVE  RunInv' /\ DoneMeansRead' /\ FinishedStep
  BY <1>1, EnqueueDocFinished
  DEF EnqueueDoc, FinishedInv, TypeOK, RunInv, DoneMeansRead, DoneOn, FinishedStep
<1>2. ASSUME TimerFires
      PROVE  RunInv' /\ DoneMeansRead' /\ FinishedStep
  <2>1. CASE UNCHANGED <<store, isProcessing, currentDocumentId, processingQueue,
                         runs>>
    BY <2>1 DEF RunInv, RunsOn, FinishedInv, DoneMeansRead, FinishedStep,
                FinishedFrom, Active, Status
  <2>2. CASE ~isProcessing /\ ProcessNext(processingQueue, store, timers - 1)
    BY <2>2, ProcessNextFinished
    DEF FinishedInv, TypeOK, RunInv, RunsOn, DoneMeansRead, DoneOn, FinishedStep
  <2>3. QED
    BY <1>2, <2>1, <2>2 DEF TimerFires
<1>3. ASSUME NEW r \in RunId, FilterDone(r)
      PROVE  RunInv' /\ DoneMeansRead' /\ FinishedStep
  <2>1. r \in Active /\ runs[r].pages \in Seq(Page)
    BY <1>3 DEF FilterDone, FinishedInv, TypeOK, Active, Run
  <2>2. PICK S : LET d == runs[r].doc
                     pages == [i \in 1 .. Len(runs[r].pages) |->
                                  Filtered(runs[r].pages[i], i \in S)]
                 IN  ContinueRun(r, pages, 1,
                        UpdateDoc(store, d, [store[d] EXCEPT !.pages = pages]))
    BY <1>3 DEF FilterDone
  <2> DEFINE pages == [i \in 1 .. Len(runs[r].pages) |->
                          Filtered(runs[r].pages[i], i \in S)]
             doc == [store[runs[r].doc] EXCEPT !.pages = pages]
  <2>3. pages \in Seq(Page)
    BY <2>1, FilteredPagesType
  <2> HIDE DEF pages
  <2>4. runs[r].doc \in DOMAIN store =>
            doc \in Doc /\ doc.ocrStatus = store[runs[r].doc].ocrStatus
    BY <2>3 DEF FinishedInv, TypeOK, IsIndex, Doc
  <2> HIDE DEF doc
  <2> DEFINE first == 1
  <2>5. ContinueRun(r, pages, first, UpdateDoc(store, runs[r].doc, doc))
    BY <2>2 DEF pages, doc
  <2>6. /\ first \in Nat \ {0}
        /\ first <= Len(pages) + 1
        /\ \A j \in 1 .. first - 1 : pages[j].text # None
    BY <2>3
  <2> HIDE DEF first
  <2>7. QED
    BY <2>1, <2>3, <2>4, <2>5, <2>6, ContinueRunFinished
<1>4. ASSUME NEW r \in RunId, PageDone(r)
      PROVE  RunInv' /\ DoneMeansRead' /\ FinishedStep
  <2>1. /\ r \in Active
        /\ runs[r].pages \in Seq(Page)
        /\ runs[r].next \in Nat \ {0}
    BY <1>4 DEF PageDone, FinishedInv, TypeOK, Active, Run
  <2>2. PICK text \in Recognized(runs[r].pages[runs[r].next]) :
          LET d == runs[r].doc
              pages == [runs[r].pages EXCEPT ![runs[r].next].text = text]
          IN  ContinueRun(r, pages, runs[r].next + 1,
                  UpdateDoc(store, d, [store[d] EXCEPT
                      !.ocrProgress = [processed |-> runs[r].next,
                                       total |-> Len(pages)],
                      !.pages = pages]))
    BY <1>4 DEF PageDone, PageRead
  <2> DEFINE n == runs[r].next
             pages == [runs[r].pages EXCEPT ![n].text = text]
             progress == [processed |-> n, total |-> Len(pages)]
             doc == [store[runs[r].doc] EXCEPT !.ocrProgress = progress,
                                               !.pages = pages]
  <2>3. pages \in Seq(Page) /\ Len(pages) = Len(runs[r].pages)
    BY <2>1, ReadPagesType
  <2>4. n <= Len(pages)
    BY <2>1, <2>3 DEF FinishedInv, RunInv, RunsOn
  <2>5. \A j \in 1 .. (n + 1) - 1 : pages[j].text # None
    <3> SUFFICES ASSUME NEW j \in 1 .. n
                 PROVE  pages[j].text # None
      BY <2>1
    <3>1. CASE j # n
      <4>1. pages[j] = runs[r].pages[j]
        BY <2>1, <2>3, <2>4, <3>1
      <4>2. runs[r].pages[j].text # None
        BY <2>1, <3>1 DEF FinishedInv, RunInv, RunsOn
      <4>3. QED
        BY <4>1, <4>2
    <3>2. CASE j = n
      <4>1. runs[r].pages[n] \in Page
        BY <2>1, <2>3, <2>4
      <4>2. text # None
        BY <4>1, RecognizedType
      <4>3. pages[n].text = text
        BY <2>1, <2>3, <2>4, <4>1 DEF Page
      <4>4. QED
        BY <3>2, <4>2, <4>3
    <3>3. QED
      BY <3>1, <3>2
  <2>6. progress \in OcrProgress
    BY <2>1, <2>3 DEF OcrProgress
  <2>7. n + 1 \in Nat \ {0} /\ n + 1 <= Len(pages) + 1
    BY <2>1, <2>3, <2>4
  <2> HIDE DEF pages, progress
  <2>8. runs[r].doc \in DOMAIN store =>
            doc \in Doc /\ doc.ocrStatus = store[runs[r].doc].ocrStatus
    BY <2>3, <2>6 DEF FinishedInv, TypeOK, IsIndex, Doc
  <2> HIDE DEF doc
  <2>9. ContinueRun(r, pages, n + 1, UpdateDoc(store, runs[r].doc, doc))
    BY <2>2 DEF pages, progress, doc
  <2> HIDE DEF n
  <2>10. QED
    BY <2>1, <2>3, <2>5, <2>7, <2>8, <2>9, ContinueRunFinished
<1>5. ASSUME NEW d \in DocId, AppWrites(d)
      PROVE  RunInv' /\ DoneMeansRead' /\ FinishedStep
  <2>1. PICK doc \in AppDoc : store' = PutDoc(store, d, doc)
    BY <1>5 DEF AppWrites
  <2>2. /\ \A x \in DOMAIN store' \ {d} : x \in DOMAIN store /\ store'[x] = store[x]
        /\ store'[d] = doc
        /\ doc.ocrStatus # "done"
    BY <2>1 DEF PutDoc, NothingDone
  <2>3. UNCHANGED control
    BY <1>5 DEF AppWrites
  <2>4. QED
    BY <2>2, <2>3
    DEF control, RunInv, RunsOn, FinishedInv, DoneMeansRead, FinishedStep,
        FinishedFrom, Active, Status
<1>6. ASSUME NEW d \in DocId, AppRemoves(d)
      PROVE  RunInv' /\ DoneMeansRead' /\ FinishedStep
  <2>1. \A x \in DOMAIN store' : x \in DOMAIN store /\ store'[x] = store[x]
    BY <1>6 DEF AppRemoves, RemoveDoc
  <2>2. QED
    BY <1>6, <2>1
    DEF AppRemoves, control, RunInv, RunsOn, FinishedInv, DoneMeansRead,
        FinishedStep, FinishedFrom,
        Active, Status
<1>7. ASSUME Restart
      PROVE  RunInv' /\ DoneMeansRead' /\ FinishedStep
  BY <1>7 DEF Restart, RunInv, RunsOn, FinishedInv, DoneMeansRead, FinishedStep,
              FinishedFrom, Active,
              Status
<1>8. CASE UNCHANGED vars
  BY <1>8 DEF vars, control, RunInv, RunsOn, FinishedInv, DoneMeansRead,
              FinishedStep, FinishedFrom,
              Active, Status
<1>9. QED
  BY <1>1, <1>2, <1>3, <1>4, <1>5, <1>6, <1>7, <1>8 DEF Next, Cancel

LEMMA FinishedInvariance ==
    ASSUME "cancel" \notin Disturb, NothingDone
    PROVE  Spec => []FinishedInv
<1>1. Init => RunInv /\ DoneMeansRead
  <2> SUFFICES ASSUME Init
               PROVE  RunInv /\ DoneMeansRead
    OBVIOUS
  <2>1. PICK ids \in SUBSET DocId : store \in [ids -> AppDoc]
    BY DEF Init, EmptyQueue
  <2>2. \A d \in DOMAIN store : Status(store, d) # "done"
    BY <2>1 DEF NothingDone, Status
  <2>3. QED
    BY <2>2 DEF Init, EmptyQueue, RunInv, RunsOn, DoneMeansRead, Active
<1>2. FinishedInv /\ [Next]_vars => RunInv' /\ DoneMeansRead'
  BY NextFinished
<1>3. Spec => []SingleWorker
  BY OneRunAtATime
<1>4. QED
  BY <1>1, <1>2, <1>3, TypeCorrect, QueueInvariance, PTL DEF Spec, FinishedInv

\* A document stored as done has a text for every page and a complete
\* progress, for any number of pages and documents and whatever the app
\* writes or deletes between the steps of a run.
THEOREM DoneDocumentsAreRead ==
    ASSUME "cancel" \notin Disturb, NothingDone
    PROVE  Spec => []DoneMeansRead
<1>1. Spec => []FinishedInv
  BY FinishedInvariance
<1>2. QED
  BY <1>1, PTL DEF FinishedInv

\* The queue never writes a finished document again.
THEOREM FinishedDocumentsStay ==
    ASSUME "cancel" \notin Disturb, NothingDone
    PROVE  Spec => FinishedIsFinal
<1>1. Spec => []FinishedInv
  BY FinishedInvariance
<1>2. FinishedInv /\ [Next]_vars => [FinishedStep]_vars
  BY NextFinished
<1>3. Spec => [][FinishedStep]_vars
  BY <1>1, <1>2, PTL DEF Spec
<1>4. QED
  BY <1>3 DEF FinishedIsFinal, FinishedStep, FinishedFrom

-----------------------------------------------------------------------------
(* What the index says of a run while it is going on: a document stored as *)
(* running has a live run, and the stored progress is that run's.          *)

\* What RunningHasWorker says of an index.
RunningOn(s) ==
    \A d \in DOMAIN s : Status(s, d) = "running" =>
        \E r \in Active :
            /\ runs[r].doc = d
            /\ s[d].ocrProgress = [processed |-> runs[r].next - 1,
                                   total |-> Len(runs[r].pages)]

\* RunningHasWorker relies on a run in its filters being at its first page.
FiltersFirst == \A r \in Active : runs[r].stage = "filtering" => runs[r].next = 1

ProgressInv == RunningHasWorker /\ FiltersFirst

RunningInv == TypeOK /\ SingleWorker /\ ProgressInv

\* With nothing in process no document is stored as running.
LEMMA NothingRuns ==
    ASSUME SingleWorker, ~isProcessing, NEW s, RunningOn(s)
    PROVE  Active = {} /\ \A d \in DOMAIN s : Status(s, d) # "running"
BY DEF SingleWorker, RunningOn

LEMMA ProcessNextProgress ==
    ASSUME TypeOK, SingleWorker, ~isProcessing, NEW s, IsIndex(s), RunningOn(s),
           NEW q \in Seq(DocId), NEW armed, ProcessNext(q, s, armed)
    PROVE  ProgressInv'
<1> DEFINE d == Head(q)
<1>1. Active = {} /\ \A x \in DOMAIN s : Status(s, x) # "running"
  BY NothingRuns
<1>2. CASE q = <<>>
  BY <1>1, <1>2 DEF ProcessNext, ProgressInv, FiltersFirst, RunningHasWorker, Active,
                    Status
<1>3. CASE q # <<>> /\ ~CanProcess(s, d)
  <2>1. store' = MarkError(s, d) /\ runs' = runs
    BY <1>3 DEF ProcessNext
  <2>2. /\ DOMAIN store' = DOMAIN s
        /\ \A x \in DOMAIN s \ {d} : store'[x] = s[x]
        /\ d \in DOMAIN s => store'[d] = [s[d] EXCEPT !.ocrStatus = "error"]
    BY <2>1, UpdateDocEntries DEF MarkError
  <2>3. d \in DOMAIN s => Status(store', d) = "error"
    BY <2>2 DEF IsIndex, Doc, Status
  <2>4. QED
    BY <1>1, <2>1, <2>2, <2>3 DEF ProgressInv, FiltersFirst, RunningHasWorker,
                                  Active, Status
<1>4. CASE q # <<>> /\ CanProcess(s, d)
  <2>1. /\ d \in DOMAIN s /\ s[d] \in Doc
        /\ store' = MarkRunning(s, d)
    BY <1>4 DEF ProcessNext, CanProcess, IsIndex
  <2>2. PICK r \in RunId : runs' = [runs EXCEPT ![r] = NewRun(s, d)]
    BY <1>1, <1>4 DEF ProcessNext
  <2> DEFINE doc == [s[d] EXCEPT
               !.ocrStatus = "running",
               !.ocrProgress = [processed |-> 0, total |-> Len(s[d].pages)]]
  <2>3. doc.ocrProgress = [processed |-> 0, total |-> Len(s[d].pages)]
    BY <2>1 DEF Doc
  <2> HIDE DEF doc
  <2>4. store' = UpdateDoc(s, d, doc)
    BY <2>1 DEF MarkRunning, doc
  <2>5. /\ DOMAIN store' = DOMAIN s
        /\ \A x \in DOMAIN s \ {d} : store'[x] = s[x]
        /\ store'[d].ocrProgress = [processed |-> 0, total |-> Len(s[d].pages)]
    BY <2>1, <2>3, <2>4, UpdateDocEntries
  <2>6. runs'[r] = NewRun(s, d) /\ Active' \subseteq {r}
    BY <1>1, <2>2 DEF Active, TypeOK
  <2>7. /\ runs'[r].doc = d
        /\ runs'[r].next = 1
        /\ runs'[r].pages = s[d].pages
    BY <2>6 DEF NewRun
  <2>8. runs'[r] # None
    <3>1. d \in DocId
      BY <1>4, HeadTail
    <3>2. QED
      BY <1>4, <2>6, <3>1, NewRunType, IdleAssumption
  <2>9. \A x \in DOMAIN store' : Status(store', x) = "running" => x = d
    BY <1>1, <2>5 DEF Status
  <2>10. QED
    BY <2>5, <2>6, <2>7, <2>8, <2>9 DEF ProgressInv, FiltersFirst, RunningHasWorker,
                                        Active
<1>5. QED
  BY <1>2, <1>3, <1>4

LEMMA EnqueueDocProgress ==
    ASSUME TypeOK, SingleWorker, FiltersFirst, NEW s, IsIndex(s), RunningOn(s),
           NEW d \in DocId, EnqueueDocOn(s, d)
    PROVE  ProgressInv'
<1>1. CASE store' = s /\ UNCHANGED <<isProcessing, currentDocumentId, timers, runs>>
  BY <1>1 DEF ProgressInv, FiltersFirst, RunningOn, RunningHasWorker, Active, Status
<1>2. CASE ~isProcessing /\ ProcessNext(Enqueued(d), s, timers)
  BY <1>2, EnqueuedType, ProcessNextProgress
<1>3. QED
  BY <1>1, <1>2 DEF EnqueueDocOn, control

\* A run goes on at page i, with the document written so that its progress
\* agrees.  The run is the current document's, so it cannot take the exit of
\* a cancelled run and leave its document running.
LEMMA ContinueRunProgress ==
    ASSUME RunningInv, NEW r \in Active, NEW pages \in Seq(Page),
           NEW i \in Nat \ {0}, NEW doc,
           runs[r].doc \in DOMAIN store =>
               /\ doc \in Doc
               /\ doc.ocrStatus = "running" =>
                     doc.ocrProgress = [processed |-> i - 1, total |-> Len(pages)],
           ContinueRun(r, pages, i, UpdateDoc(store, runs[r].doc, doc))
    PROVE  ProgressInv'
<1> DEFINE d == runs[r].doc
           s == UpdateDoc(store, d, doc)
<1>1. /\ r \in RunId /\ d \in DocId /\ currentDocumentId = d
      /\ \A x \in RunId : runs[x] # None => x = r
  BY DEF RunningInv, TypeOK, Active, Run, SingleWorker
<1>2. /\ DOMAIN s = DOMAIN store
      /\ \A x \in DOMAIN store \ {d} : s[x] = store[x]
      /\ d \in DOMAIN store => s[d] = doc
  BY UpdateDocEntries DEF RunningInv, TypeOK
<1>3. \A x \in DOMAIN store \ {d} : Status(store, x) # "running"
  BY <1>1 DEF RunningInv, ProgressInv, FiltersFirst, RunningHasWorker, Active
<1>4. IsIndex(s)
  BY <1>1, UpdateDocType DEF RunningInv, TypeOK
<1>5. CASE /\ i <= Len(pages)
           /\ store' = s
           /\ runs' = [runs EXCEPT ![r] = [doc |-> d, pages |-> pages,
                                           next |-> i, stage |-> "recognizing"]]
  <2>1. /\ runs'[r] = [doc |-> d, pages |-> pages, next |-> i,
                       stage |-> "recognizing"]
        /\ Active' \subseteq {r}
    BY <1>1, <1>5 DEF RunningInv, TypeOK, Active
  <2>2. r \in Active'
    BY <1>1, <2>1, IdleAssumption DEF Run, Active
  <2>3. \A x \in DOMAIN store' : Status(store', x) = "running" =>
            x = d /\ store'[d].ocrProgress = [processed |-> i - 1,
                                              total |-> Len(pages)]
    BY <1>2, <1>3, <1>5 DEF Status
  <2>4. QED
    BY <2>1, <2>2, <2>3 DEF ProgressInv, FiltersFirst, RunningHasWorker
<1>6. CASE /\ store' = MarkDone(s, d, pages)
           /\ runs' = [runs EXCEPT ![r] = None]
  <2>1. Active' = {}
    BY <1>1, <1>6 DEF RunningInv, TypeOK, Active
  <2> HIDE DEF s
  <2> DEFINE final == [s[d] EXCEPT
        !.ocrStatus = "done",
        !.ocrProgress = [processed |-> Len(pages), total |-> Len(pages)],
        !.pages = pages]
  <2>2. store' = UpdateDoc(s, d, final)
    BY <1>6 DEF MarkDone
  <2> HIDE DEF d, final
  <2>3. /\ DOMAIN store' = DOMAIN s
        /\ \A x \in DOMAIN s \ {d} : store'[x] = s[x]
        /\ d \in DOMAIN s => store'[d] = final
    BY <1>4, <2>2, UpdateDocEntries
  <2>4. d \in DOMAIN s => Status(store', d) = "done"
    <3>1. d \in DOMAIN s => s[d] \in Doc
      BY <1>4 DEF IsIndex
    <3>2. d \in DOMAIN s => final.ocrStatus = "done"
      BY <3>1 DEF Doc, final
    <3>3. QED
      BY <2>3, <3>2 DEF Status
  <2>5. QED
    BY <1>2, <1>3, <2>1, <2>3, <2>4 DEF ProgressInv, FiltersFirst, RunningHasWorker,
                                        Status
<1>7. QED
  BY <1>1, <1>5, <1>6 DEF ContinueRun, EndRun

-----------------------------------------------------------------------------
\* The app's copies of the documents are never of a run in progress.
NothingRunning == \A doc \in AppDoc : doc.ocrStatus # "running"

LEMMA NextProgress ==
    ASSUME Disturb \cap {"cancel", "restart"} = {}, NothingRunning
    PROVE  RunningInv /\ [Next]_vars => ProgressInv'
<1> SUFFICES ASSUME RunningInv, [Next]_vars
             PROVE  ProgressInv'
  OBVIOUS
<1>1. ASSUME NEW d \in DocId, EnqueueDoc(d)
      PROVE  ProgressInv'
  BY <1>1, EnqueueDocProgress
  DEF EnqueueDoc, RunningInv, ProgressInv, TypeOK, RunningHasWorker, RunningOn
<1>2. ASSUME TimerFires
      PROVE  ProgressInv'
  <2>1. CASE UNCHANGED <<store, isProcessing, currentDocumentId, processingQueue,
                         runs>>
    BY <2>1 DEF RunningInv, ProgressInv, FiltersFirst, RunningHasWorker, Active, Status
  <2>2. CASE ~isProcessing /\ ProcessNext(processingQueue, store, timers - 1)
    BY <2>2, ProcessNextProgress
    DEF RunningInv, ProgressInv, TypeOK, RunningHasWorker, RunningOn
  <2>3. QED
    BY <1>2, <2>1, <2>2 DEF TimerFires
<1>3. ASSUME NEW r \in RunId, FilterDone(r)
      PROVE  ProgressInv'
  <2>1. r \in Active /\ runs[r].pages \in Seq(Page) /\ runs[r].next = 1
    BY <1>3 DEF FilterDone, RunningInv, ProgressInv, FiltersFirst, TypeOK, Active, Run
  <2>2. PICK S : LET d == runs[r].doc
                     pages == [i \in 1 .. Len(runs[r].pages) |->
                                  Filtered(runs[r].pages[i], i \in S)]
                 IN  ContinueRun(r, pages, 1,
                        UpdateDoc(store, d, [store[d] EXCEPT !.pages = pages]))
    BY <1>3 DEF FilterDone
  <2> DEFINE pages == [i \in 1 .. Len(runs[r].pages) |->
                          Filtered(runs[r].pages[i], i \in S)]
             doc == [store[runs[r].doc] EXCEPT !.pages = pages]
  <2>3. pages \in Seq(Page) /\ Len(pages) = Len(runs[r].pages)
    BY <2>1, FilteredPagesType
  <2> HIDE DEF pages
  <2>4. ASSUME runs[r].doc \in DOMAIN store
        PROVE  /\ doc \in Doc
               /\ doc.ocrStatus = Status(store, runs[r].doc)
               /\ doc.ocrProgress = store[runs[r].doc].ocrProgress
    BY <2>3, <2>4 DEF RunningInv, TypeOK, IsIndex, Doc, Status
  <2> HIDE DEF doc
  <2>5. ASSUME runs[r].doc \in DOMAIN store, Status(store, runs[r].doc) = "running"
        PROVE  store[runs[r].doc].ocrProgress =
                   [processed |-> 1 - 1, total |-> Len(pages)]
    <3>1. PICK x \in Active :
             store[runs[r].doc].ocrProgress = [processed |-> runs[x].next - 1,
                                               total |-> Len(runs[x].pages)]
      BY <2>5 DEF RunningInv, ProgressInv, FiltersFirst, RunningHasWorker
    <3>2. x = r
      BY <2>1 DEF RunningInv, SingleWorker
    <3>3. QED
      BY <2>1, <2>3, <3>1, <3>2
  <2> DEFINE first == 1
  <2>6. ContinueRun(r, pages, first, UpdateDoc(store, runs[r].doc, doc))
    BY <2>2 DEF pages, doc
  <2>7. runs[r].doc \in DOMAIN store =>
               /\ doc \in Doc
               /\ doc.ocrStatus = "running" =>
                     doc.ocrProgress = [processed |-> first - 1, total |-> Len(pages)]
    BY <2>4, <2>5
  <2>8. first \in Nat \ {0}
    OBVIOUS
  <2> HIDE DEF first
  <2>9. QED
    BY <2>1, <2>3, <2>6, <2>7, <2>8, ContinueRunProgress
<1>4. ASSUME NEW r \in RunId, PageDone(r)
      PROVE  ProgressInv'
  <2>1. /\ r \in Active
        /\ runs[r].pages \in Seq(Page)
        /\ runs[r].next \in Nat \ {0}
    BY <1>4 DEF PageDone, RunningInv, TypeOK, Active, Run
  <2>2. PICK text \in Recognized(runs[r].pages[runs[r].next]) :
          LET d == runs[r].doc
              pages == [runs[r].pages EXCEPT ![runs[r].next].text = text]
          IN  ContinueRun(r, pages, runs[r].next + 1,
                  UpdateDoc(store, d, [store[d] EXCEPT
                      !.ocrProgress = [processed |-> runs[r].next,
                                       total |-> Len(pages)],
                      !.pages = pages]))
    BY <1>4 DEF PageDone, PageRead
  <2> DEFINE n == runs[r].next
             pages == [runs[r].pages EXCEPT ![n].text = text]
             progress == [processed |-> n, total |-> Len(pages)]
             doc == [store[runs[r].doc] EXCEPT !.ocrProgress = progress,
                                               !.pages = pages]
             following == n + 1
  <2>3. pages \in Seq(Page)
    BY <2>1, ReadPagesType
  <2>4. progress \in OcrProgress
    BY <2>1, <2>3 DEF OcrProgress
  <2>5. ContinueRun(r, pages, following, UpdateDoc(store, runs[r].doc, doc))
    BY <2>2
  <2> HIDE DEF pages
  <2>6. /\ following \in Nat \ {0}
        /\ progress = [processed |-> following - 1, total |-> Len(pages)]
    BY <2>1
  <2> HIDE DEF progress
  <2>7. runs[r].doc \in DOMAIN store => doc \in Doc /\ doc.ocrProgress = progress
    BY <2>3, <2>4 DEF RunningInv, TypeOK, IsIndex, Doc
  <2> HIDE DEF doc, following
  <2>8. QED
    BY <2>1, <2>3, <2>5, <2>6, <2>7, ContinueRunProgress
<1>5. ASSUME NEW d \in DocId, AppWrites(d)
      PROVE  ProgressInv'
  <2>1. PICK doc \in AppDoc : store' = PutDoc(store, d, doc)
    BY <1>5 DEF AppWrites
  <2>2. /\ \A x \in DOMAIN store' \ {d} : x \in DOMAIN store /\ store'[x] = store[x]
        /\ store'[d] = doc
        /\ doc.ocrStatus # "running"
    BY <2>1 DEF PutDoc, NothingRunning
  <2>3. UNCHANGED control
    BY <1>5 DEF AppWrites
  <2>4. QED
    BY <2>2, <2>3
    DEF control, RunningInv, ProgressInv, FiltersFirst, RunningHasWorker, Active, Status
<1>6. ASSUME NEW d \in DocId, AppRemoves(d)
      PROVE  ProgressInv'
  <2>1. \A x \in DOMAIN store' : x \in DOMAIN store /\ store'[x] = store[x]
    BY <1>6 DEF AppRemoves, RemoveDoc
  <2>2. QED
    BY <1>6, <2>1
    DEF AppRemoves, control, RunningInv, ProgressInv, FiltersFirst, RunningHasWorker,
        Active, Status
<1>7. CASE UNCHANGED vars
  BY <1>7 DEF vars, control, RunningInv, ProgressInv, FiltersFirst, RunningHasWorker,
              Active,
              Status
<1>8. QED
  BY <1>1, <1>2, <1>3, <1>4, <1>5, <1>6, <1>7 DEF Next, Cancel, Restart

\* A document stored as running has a live run that is as far as the stored
\* progress says, for any number of documents and pages, whatever the app saves
\* or deletes between the writes of processDocument, as long as its copies are
\* never of a run in progress and neither cancel nor the death of the process
\* leaves a document behind.
THEOREM RunningDocumentsAreRead ==
    ASSUME Disturb \cap {"cancel", "restart"} = {}, NothingRunning
    PROVE  Spec => []RunningHasWorker
<1>1. Init => ProgressInv
  <2> SUFFICES ASSUME Init
               PROVE  ProgressInv
    OBVIOUS
  <2>1. PICK ids \in SUBSET DocId : store \in [ids -> AppDoc]
    BY DEF Init
  <2>2. \A d \in DOMAIN store : Status(store, d) # "running"
    BY <2>1 DEF NothingRunning, Status
  <2>3. QED
    BY <2>2 DEF Init, EmptyQueue, ProgressInv, FiltersFirst, RunningHasWorker, Active
<1>2. RunningInv /\ [Next]_vars => ProgressInv'
  BY NextProgress
<1>3. Spec => []SingleWorker
  BY OneRunAtATime
<1>4. ProgressInv => RunningHasWorker
  BY DEF ProgressInv
<1>5. QED
  BY <1>1, <1>2, <1>3, <1>4, TypeCorrect, PTL DEF Spec, RunningInv

-----------------------------------------------------------------------------
(* What the queue leaves alone: which documents there are, their titles,   *)
(* folders and kinds.                                                      *)

KeepsDocs(s, t) ==
    /\ DOMAIN t = DOMAIN s
    /\ \A d \in DOMAIN s : /\ t[d].title = s[d].title
                           /\ t[d].folderId = s[d].folderId
                           /\ t[d].isPdf = s[d].isPdf

LEMMA UpdateKeeps ==
    ASSUME NEW s, IsIndex(s), NEW d, NEW doc,
           d \in DOMAIN s => /\ doc.title = s[d].title
                             /\ doc.folderId = s[d].folderId
                             /\ doc.isPdf = s[d].isPdf
    PROVE  KeepsDocs(s, UpdateDoc(s, d, doc))
BY DEF KeepsDocs, UpdateDoc, IsIndex

LEMMA MarksKeep ==
    ASSUME NEW s, IsIndex(s), NEW d
    PROVE  /\ KeepsDocs(s, MarkRunning(s, d))
           /\ KeepsDocs(s, MarkError(s, d))
           /\ \A pages : KeepsDocs(s, MarkDone(s, d, pages))
<1>1. d \in DOMAIN s => s[d] \in Doc
  BY DEF IsIndex
<1>2. KeepsDocs(s, MarkRunning(s, d))
  <2> DEFINE doc == [s[d] EXCEPT
                 !.ocrStatus = "running",
                 !.ocrProgress = [processed |-> 0, total |-> Len(s[d].pages)]]
  <2>1. d \in DOMAIN s => /\ doc.title = s[d].title
                          /\ doc.folderId = s[d].folderId
                          /\ doc.isPdf = s[d].isPdf
    BY <1>1 DEF Doc
  <2> HIDE DEF doc
  <2>2. QED
    BY <2>1, UpdateKeeps DEF MarkRunning, doc
<1>3. KeepsDocs(s, MarkError(s, d))
  <2> DEFINE doc == [s[d] EXCEPT !.ocrStatus = "error"]
  <2>1. d \in DOMAIN s => /\ doc.title = s[d].title
                          /\ doc.folderId = s[d].folderId
                          /\ doc.isPdf = s[d].isPdf
    BY <1>1 DEF Doc
  <2> HIDE DEF doc
  <2>2. QED
    BY <2>1, UpdateKeeps DEF MarkError, doc
<1>4. ASSUME NEW pages
      PROVE  KeepsDocs(s, MarkDone(s, d, pages))
  <2> DEFINE doc == [s[d] EXCEPT
                 !.ocrStatus = "done",
                 !.ocrProgress = [processed |-> Len(pages), total |-> Len(pages)],
                 !.pages = pages]
  <2>1. d \in DOMAIN s => /\ doc.title = s[d].title
                          /\ doc.folderId = s[d].folderId
                          /\ doc.isPdf = s[d].isPdf
    BY <1>1 DEF Doc
  <2> HIDE DEF doc
  <2>2. QED
    BY <2>1, UpdateKeeps DEF MarkDone, doc
<1>5. QED
  BY <1>2, <1>3, <1>4

LEMMA ProcessNextKeeps ==
    ASSUME NEW q, NEW s, IsIndex(s), NEW armed, ProcessNext(q, s, armed)
    PROVE  KeepsDocs(s, store')
<1>1. \/ store' = s
      \/ store' = MarkRunning(s, Head(q))
      \/ store' = MarkError(s, Head(q))
  BY DEF ProcessNext
<1>2. KeepsDocs(s, s)
  BY DEF KeepsDocs
<1>3. QED
  BY <1>1, <1>2, MarksKeep

LEMMA EnqueueDocKeeps ==
    ASSUME NEW s, IsIndex(s), NEW d, EnqueueDocOn(s, d)
    PROVE  KeepsDocs(s, store')
<1>1. KeepsDocs(s, s)
  BY DEF KeepsDocs
<1>2. QED
  BY <1>1, ProcessNextKeeps DEF EnqueueDocOn

\* A run writes pages and progress of a document, and then perhaps its last word.
LEMMA ContinueRunKeeps ==
    ASSUME NEW r, NEW pages, NEW i, NEW d, NEW doc, IsIndex(store),
           IsIndex(UpdateDoc(store, d, doc)),
           d \in DOMAIN store => /\ doc.title = store[d].title
                                 /\ doc.folderId = store[d].folderId
                                 /\ doc.isPdf = store[d].isPdf,
           ContinueRun(r, pages, i, UpdateDoc(store, d, doc))
    PROVE  KeepsDocs(store, store')
<1> DEFINE s == UpdateDoc(store, d, doc)
<1>1. KeepsDocs(store, s)
  BY UpdateKeeps
<1>2. store' = s \/ store' = MarkDone(s, runs[r].doc, pages)
  BY DEF ContinueRun, EndRun
<1> HIDE DEF s
<1>3. KeepsDocs(s, MarkDone(s, runs[r].doc, pages))
  BY MarksKeep DEF s
<1>4. QED
  BY <1>1, <1>2, <1>3 DEF KeepsDocs

LEMMA QueueKeeps ==
    ASSUME TypeOK,
           TimerFires \/ \E r \in RunId : FilterDone(r) \/ PageDone(r)
    PROVE  KeepsDocs(store, store')
<1>1. IsIndex(store)
  BY DEF TypeOK
<1>2. CASE TimerFires
  <2>1. KeepsDocs(store, store)
    BY DEF KeepsDocs
  <2>2. QED
    BY <1>1, <1>2, <2>1, ProcessNextKeeps DEF TimerFires
<1>3. ASSUME NEW r \in RunId, FilterDone(r)
      PROVE  KeepsDocs(store, store')
  <2>1. r \in Active /\ runs[r].pages \in Seq(Page) /\ runs[r].doc \in DocId
    BY <1>3 DEF FilterDone, TypeOK, Active, Run
  <2>2. PICK S : LET d == runs[r].doc
                     pages == [i \in 1 .. Len(runs[r].pages) |->
                                  Filtered(runs[r].pages[i], i \in S)]
                 IN  ContinueRun(r, pages, 1,
                        UpdateDoc(store, d, [store[d] EXCEPT !.pages = pages]))
    BY <1>3 DEF FilterDone
  <2> DEFINE pages == [i \in 1 .. Len(runs[r].pages) |->
                          Filtered(runs[r].pages[i], i \in S)]
             doc == [store[runs[r].doc] EXCEPT !.pages = pages]
  <2>3. pages \in Seq(Page)
    BY <2>1, FilteredPagesType
  <2> HIDE DEF pages
  <2>4. ASSUME runs[r].doc \in DOMAIN store
        PROVE  /\ doc \in Doc
               /\ doc.title = store[runs[r].doc].title
               /\ doc.folderId = store[runs[r].doc].folderId
               /\ doc.isPdf = store[runs[r].doc].isPdf
    BY <1>1, <2>3, <2>4 DEF IsIndex, Doc
  <2> HIDE DEF doc
  <2>5. IsIndex(UpdateDoc(store, runs[r].doc, doc))
    BY <1>1, <2>1, <2>4, UpdateDocType
  <2>6. ContinueRun(r, pages, 1, UpdateDoc(store, runs[r].doc, doc))
    BY <2>2 DEF pages, doc
  <2>7. QED
    BY <1>1, <2>4, <2>5, <2>6, ContinueRunKeeps
<1>4. ASSUME NEW r \in RunId, PageDone(r)
      PROVE  KeepsDocs(store, store')
  <2>1. /\ r \in Active /\ runs[r].pages \in Seq(Page) /\ runs[r].doc \in DocId
        /\ runs[r].next \in Nat \ {0}
    BY <1>4 DEF PageDone, TypeOK, Active, Run
  <2>2. PICK text \in Recognized(runs[r].pages[runs[r].next]) : PageRead(r, text)
    BY <1>4 DEF PageDone
  <2> DEFINE pages == [runs[r].pages EXCEPT ![runs[r].next].text = text]
             progress == [processed |-> runs[r].next, total |-> Len(pages)]
             doc == [store[runs[r].doc] EXCEPT !.ocrProgress = progress,
                                               !.pages = pages]
  <2>3. pages \in Seq(Page)
    BY <2>1, <2>2, ReadPagesType
  <2> HIDE DEF pages
  <2>4. ASSUME runs[r].doc \in DOMAIN store
        PROVE  /\ doc \in Doc
               /\ doc.title = store[runs[r].doc].title
               /\ doc.folderId = store[runs[r].doc].folderId
               /\ doc.isPdf = store[runs[r].doc].isPdf
    <3>1. Len(pages) \in Nat
      BY <2>3
    <3>2. progress \in OcrProgress
      BY <2>1, <3>1 DEF OcrProgress
    <3> HIDE DEF progress
    <3>3. store[runs[r].doc] \in Doc
      BY <1>1, <2>4 DEF IsIndex
    <3>4. QED
      BY <2>3, <3>2, <3>3 DEF Doc
  <2> HIDE DEF doc
  <2>5. IsIndex(UpdateDoc(store, runs[r].doc, doc))
    BY <1>1, <2>1, <2>4, UpdateDocType
  <2>6. ContinueRun(r, pages, runs[r].next + 1, UpdateDoc(store, runs[r].doc, doc))
    BY <2>2 DEF PageRead, pages, progress, doc
  <2>7. QED
    BY <1>1, <2>4, <2>5, <2>6, ContinueRunKeeps
<1>5. QED
  BY <1>2, <1>3, <1>4
=============================================================================
