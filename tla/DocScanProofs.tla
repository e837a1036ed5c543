---------------------------- MODULE DocScanProofs ----------------------------
(***************************************************************************)
(* Proofs about DocScan: the library and the queue on one documents index. *)
(*                                                                         *)
(* LP and QP are Library and OcrQueue with all that is proved of them, on  *)
(* the variables of DocScan.  A step of the library is one of LP, a step   *)
(* of the queue one of QP, and enqueueDoc is called with the index that    *)
(* the library has just saved, which the lemmas of QP allow.  The formulas *)
(* of L and LP, and of Q and QP, are the same ones under two names.        *)
(***************************************************************************)
EXTENDS DocScan, DocStoreProofs

LP == INSTANCE LibraryProofs WITH OcrResult <- {}
QP == INSTANCE OcrQueueProofs WITH AppDoc <- {}, Disturb <- {}

-----------------------------------------------------------------------------
(* The assumptions of the parts hold.                                      *)

LEMMA SameTypes ==
    /\ LP!Doc = Doc /\ LP!Page = Page
    /\ QP!Doc = Doc /\ QP!Page = Page
    /\ \A s : LP!IsIndex(s) <=> IsIndex(s)
    /\ \A s : QP!IsIndex(s) <=> IsIndex(s)
BY DEF LP!Doc, LP!Page, LP!OcrStatus, LP!OcrProgress, LP!IsIndex,
       QP!Doc, QP!Page, QP!OcrStatus, QP!OcrProgress, QP!IsIndex,
       Doc, Page, OcrStatus, OcrProgress, IsIndex

LEMMA LibraryFacts ==
    /\ NewDocs \subseteq LP!Doc
    /\ Scans \subseteq Seq(LP!Page)
    /\ {} \subseteq [ocrStatus : LP!OcrStatus, ocrProgress : LP!OcrProgress,
                     pages : Seq(LP!Page)]
    /\ MaxPages \in Nat
    /\ MaxCalls \in Nat
    /\ FramesAfterCommit \in BOOLEAN
    /\ Events \subseteq {"background", "relaunch"}
BY AppAssumption, SameTypes

LEMMA QueueFacts ==
    /\ {} \subseteq QP!Doc
    /\ MaxTimers \in Nat
    /\ {} \subseteq {"write", "remove", "cancel", "restart"}
    /\ None \notin QP!Run
BY AppAssumption, RunAssumption DEF Q!Run, QP!Run, Q!Page, QP!Page

-----------------------------------------------------------------------------
(* The formulas of L are those of LP, and those of Q are those of QP.      *)

\* A step of the library without the queue and without a launch.
SameLibraryStep == LP!UserStep \/ LP!Commit \/ LP!Background

LEMMA LibraryStepIsLP == LibraryStep => SameLibraryStep /\ UNCHANGED control
<1>1. \A d, doc : L!CreateDoc(d, doc) => LP!CreateDoc(d, doc)
  BY DEF L!CreateDoc, LP!CreateDoc, L!SetDocs, LP!SetDocs, L!Saved, LP!Saved,
         L!Changed, LP!Changed, L!shown, LP!shown, L!calls, LP!calls,
         L!PageIds, LP!PageIds, L!PutDoc, LP!PutDoc
<1>2. \A d : L!DeleteDoc(d) => LP!DeleteDoc(d)
  BY DEF L!DeleteDoc, LP!DeleteDoc, L!SetDocs, LP!SetDocs, L!Saved, LP!Saved,
         L!Changed, LP!Changed, L!shown, LP!shown, L!calls, LP!calls,
         L!RemoveDoc, LP!RemoveDoc
<1>3. \A d : L!StartAddPages(d) => LP!StartAddPages(d)
  BY DEF L!StartAddPages, LP!StartAddPages, L!stored, LP!stored, L!shown, LP!shown,
         L!latest, LP!latest, L!Cardinality, LP!Cardinality,
         L!IsFiniteSet, LP!IsFiniteSet
<1>4. \A d, title : L!RenameDoc(d, title) => LP!RenameDoc(d, title)
  BY DEF L!RenameDoc, LP!RenameDoc, L!SetDocs, LP!SetDocs, L!Saved, LP!Saved,
         L!Changed, LP!Changed, L!shown, LP!shown, L!calls, LP!calls,
         L!UpdateDoc, LP!UpdateDoc
<1>5. \A d, p : L!DeletePage(d, p) => LP!DeletePage(d, p)
  BY DEF L!DeletePage, LP!DeletePage, L!SetDocs, LP!SetDocs, L!Saved, LP!Saved,
         L!Changed, LP!Changed, L!shown, LP!shown, L!calls, LP!calls,
         L!UpdateDoc, LP!UpdateDoc, L!PageIds, LP!PageIds,
         L!WithoutPage, LP!WithoutPage, L!DropAt, LP!DropAt
<1>6. \A d, p : L!StartCrop(d, p) => LP!StartCrop(d, p)
  BY DEF L!StartCrop, LP!StartCrop, L!stored, LP!stored, L!shown, LP!shown,
         L!latest, LP!latest, L!PageIds, LP!PageIds, L!Cardinality, LP!Cardinality
<1>7. \A a, pages : L!AddPages(a, pages) => LP!AddPages(a, pages)
  BY DEF L!AddPages, LP!AddPages, L!SetDocs, LP!SetDocs, L!Saved, LP!Saved,
         L!Changed, LP!Changed, L!shown, LP!shown, L!PageIds, LP!PageIds,
         L!UpdateDoc, LP!UpdateDoc
<1>8. L!GiveUp => LP!GiveUp
  BY DEF L!GiveUp, LP!GiveUp, L!stored, LP!stored, L!shown, LP!shown,
         L!latest, LP!latest
<1>9. \A d, f : L!MoveDoc(d, f) => LP!MoveDoc(d, f)
  BY DEF L!MoveDoc, LP!MoveDoc, L!Changed, LP!Changed, L!shown, LP!shown,
         L!calls, LP!calls, L!UpdateDoc, LP!UpdateDoc
<1>10. \A f, name : L!CreateFolder(f, name) => LP!CreateFolder(f, name)
  BY DEF L!CreateFolder, LP!CreateFolder, L!SetFolders, LP!SetFolders,
         L!shown, LP!shown, L!calls, LP!calls
<1>11. \A f, name : L!RenameFolder(f, name) => LP!RenameFolder(f, name)
  BY DEF L!RenameFolder, LP!RenameFolder, L!SetFolders, LP!SetFolders,
         L!shown, LP!shown, L!calls, LP!calls
<1>12. \A f : L!DeleteFolder(f) => LP!DeleteFolder(f)
  BY DEF L!DeleteFolder, LP!DeleteFolder, L!SetFolders, LP!SetFolders,
         L!shown, LP!shown, L!calls, LP!calls
<1>13. L!Commit => LP!Commit
  BY DEF L!Commit, LP!Commit, L!calls, LP!calls
<1>14. L!Background => LP!Background
  BY DEF L!Background, LP!Background, L!shown, LP!shown, L!latest, LP!latest,
         L!calls, LP!calls
<1>15. QED
  BY <1>1, <1>2, <1>3, <1>4, <1>5, <1>6, <1>7,
     <1>8, <1>9, <1>10, <1>11, <1>12, <1>13, <1>14
  DEF LibraryStep, SameLibraryStep, L!UserStep, LP!UserStep

LEMMA EditIsLP ==
    /\ \A d, p, look : L!Edited(d, p, look) = LP!Edited(d, p, look)
    /\ \A next : L!Saved(next) = LP!Saved(next)
    /\ \A d, p, look : L!EditPageButStore(d, p, look) => LP!EditPageButStore(d, p, look)
    /\ \A c, look : L!CropButStore(c, look) => LP!CropButStore(c, look)
    /\ \A d : L!FrameFires(d) => LP!FrameFires(d)
<1>1. \A d, p, look : L!Edited(d, p, look) = LP!Edited(d, p, look)
  BY DEF L!Edited, LP!Edited, L!UpdateDoc, LP!UpdateDoc, L!WithLook, LP!WithLook
<1>2. \A next : L!Saved(next) = LP!Saved(next)
  BY DEF L!Saved, LP!Saved
<1>3. \A d, p, look : L!EditPageButStore(d, p, look) => LP!EditPageButStore(d, p, look)
  BY <1>1 DEF L!EditPageButStore, LP!EditPageButStore, L!Changed, LP!Changed,
              L!shown, LP!shown, L!calls, LP!calls, L!PageIds, LP!PageIds
<1>4. \A c, look : L!CropButStore(c, look) => LP!CropButStore(c, look)
  BY <1>1 DEF L!CropButStore, LP!CropButStore, L!Changed, LP!Changed,
              L!shown, LP!shown
<1>5. \A d : L!FrameFires(d) => LP!FrameFires(d)
  BY DEF L!FrameFires, LP!FrameFires, L!shown, LP!shown, L!latest, LP!latest,
         L!calls, LP!calls
<1>6. QED
  BY <1>1, <1>2, <1>3, <1>4, <1>5

LEMMA ProcessNextIsQP ==
    \A q, s, t : Q!ProcessNext(q, s, t) => QP!ProcessNext(q, s, t)
BY DEF Q!ProcessNext, QP!ProcessNext, Q!CanProcess, QP!CanProcess,
       Q!MarkRunning, QP!MarkRunning, Q!MarkError, QP!MarkError,
       Q!UpdateDoc, QP!UpdateDoc, Q!NewRun, QP!NewRun, Q!Rearmed, QP!Rearmed,
       Q!Active, QP!Active

LEMMA EnqueueIsQP == \A s, d : Q!EnqueueDocOn(s, d) => QP!EnqueueDocOn(s, d)
<1>1. \A s, d : Q!Accepts(s, d) = QP!Accepts(s, d)
  BY DEF Q!Accepts, QP!Accepts, Q!Status, QP!Status
<1>2. \A d : Q!Enqueued(d) = QP!Enqueued(d)
  BY DEF Q!Enqueued, QP!Enqueued, Q!IsQueued, QP!IsQueued
<1>3. QED
  BY <1>1, <1>2, ProcessNextIsQP DEF Q!EnqueueDocOn, QP!EnqueueDocOn, Q!control, QP!control

\* A step of the queue by itself.
SameQueueStep ==
    QP!TimerFires \/ \E r \in RunId : QP!FilterDone(r) \/ QP!PageDone(r)

LEMMA QueueStepIsQP == QueueStep => SameQueueStep /\ UNCHANGED library
<1>1. Q!TimerFires => QP!TimerFires
  BY ProcessNextIsQP DEF Q!TimerFires, QP!TimerFires
<1>2. \A r, pages, i, s : Q!ContinueRun(r, pages, i, s) => QP!ContinueRun(r, pages, i, s)
  BY DEF Q!ContinueRun, QP!ContinueRun, Q!EndRun, QP!EndRun, Q!MarkDone, QP!MarkDone,
         Q!UpdateDoc, QP!UpdateDoc, Q!Rearmed, QP!Rearmed
<1>3. \A r : Q!FilterDone(r) => QP!FilterDone(r)
  BY <1>2 DEF Q!FilterDone, QP!FilterDone, Q!Active, QP!Active,
              Q!Filtered, QP!Filtered, Q!UpdateDoc, QP!UpdateDoc
<1>4. \A r : Q!PageDone(r) => QP!PageDone(r)
  BY <1>2 DEF Q!PageDone, QP!PageDone, Q!PageRead, QP!PageRead, Q!Active, QP!Active,
              Q!Recognized, QP!Recognized, Q!UpdateDoc, QP!UpdateDoc
<1>5. QED
  BY <1>1, <1>3, <1>4 DEF QueueStep, SameQueueStep

LEMMA RelaunchIsBoth == Relaunch => LP!Relaunch /\ Q!Restart
BY DEF Relaunch, L!Relaunch, LP!Relaunch, L!stored, LP!stored

\* handleApplyPageEdits and the end of handleApplyCrop, as far as the proofs
\* need them: an edit of d, saved or not, and then enqueueDoc(d).
EditWrites(d, p, look) ==
    /\ LP!Changed(LP!Edited(d, p, look))
    /\ \E s \in LP!Saved(LP!Edited(d, p, look)) : QP!EnqueueDocOn(s, d)
    /\ UNCHANGED <<folderStore, docs, folders, latestFolders, frames, adding, usedIds>>
    /\ cropping' \subseteq cropping

FrameWrites(d) == LP!FrameFires(d) /\ QP!EnqueueDocOn(store, d)

LEMMA StepKinds ==
    ASSUME LP!TypeOK, Next
    PROVE  \/ SameLibraryStep /\ UNCHANGED control
           \/ \E d \in DocId, p \in PageId, look \in Look : EditWrites(d, p, look)
           \/ \E d \in DocId : FrameWrites(d)
           \/ SameQueueStep /\ UNCHANGED library
           \/ LP!Relaunch /\ Q!Restart
<1>1. ASSUME NEW d \in DocId, NEW p \in PageId, NEW look \in Look, EditPage(d, p, look)
      PROVE  EditWrites(d, p, look)
  BY <1>1, EditIsLP, EnqueueIsQP
  DEF EditPage, LP!EditPageButStore, EditWrites, LP!shown, LP!calls
<1>2. ASSUME NEW c \in cropping, NEW look \in Look, Crop(c, look)
      PROVE  /\ EditWrites(c.doc, c.page, look)
             /\ c.doc \in DocId /\ c.page \in PageId
  <2>1. c.doc \in DocId /\ c.page \in PageId
    BY DEF LP!TypeOK, LP!Cropping
  <2>2. QED
    BY <1>2, <2>1, EditIsLP, EnqueueIsQP
    DEF Crop, LP!CropButStore, EditWrites, LP!shown
<1>3. ASSUME NEW d \in DocId, Frame(d)
      PROVE  FrameWrites(d)
  BY <1>3, EditIsLP, EnqueueIsQP DEF Frame, FrameWrites
<1>4. QED
  BY <1>1, <1>2, <1>3, LibraryStepIsLP, QueueStepIsQP, RelaunchIsBoth DEF Next

\* Relaunch leaves the queue as the module creates it.
LEMMA RestartEmpties ==
    ASSUME Q!Restart
    PROVE  /\ isProcessing' = FALSE /\ currentDocumentId' = None
           /\ processingQueue' = <<>> /\ timers' = 0
           /\ runs' = [r \in RunId |-> None] /\ store' = store
BY DEF Q!Restart

LEMMA StartsEmpty ==
    ASSUME Init
    PROVE  /\ LP!Init
           /\ isProcessing = FALSE /\ currentDocumentId = None
           /\ processingQueue = <<>> /\ timers = 0 /\ runs = [r \in RunId |-> None]
BY DEF Init, L!Init, LP!Init, L!NoEntries, LP!NoEntries, Q!EmptyQueue

-----------------------------------------------------------------------------
(* Types.                                                                  *)

TypeInv == LP!TypeOK /\ QP!TypeOK

LEMMA LibraryNext ==
    /\ SameLibraryStep => LP!Next
    /\ LP!Relaunch => LP!Next
BY DEF SameLibraryStep, LP!Next

LEMMA QueueNext == SameQueueStep => QP!Next
BY DEF SameQueueStep, QP!Next

LEMMA TypeStep == TypeInv /\ [Next]_vars => TypeInv'
<1> SUFFICES ASSUME TypeInv, [Next]_vars
             PROVE  TypeInv'
  OBVIOUS
<1> USE SameTypes DEF TypeInv
<1>1. ASSUME UNCHANGED control, IsIndex(store')
      PROVE  QP!TypeOK'
  BY <1>1 DEF QP!TypeOK, control
<1>2. ASSUME UNCHANGED library, IsIndex(store')
      PROVE  LP!TypeOK'
  BY <1>2 DEF LP!TypeOK, library
<1>3. CASE SameLibraryStep /\ UNCHANGED control
  <2>1. LP!TypeOK'
    BY <1>3, LibraryNext, LP!NextTypeOK, NoneAssumption, LibraryFacts
  <2>2. QED
    BY <1>1, <1>3, <2>1 DEF LP!TypeOK
<1>4. ASSUME NEW d \in DocId, NEW p \in PageId, NEW look \in Look, EditWrites(d, p, look)
      PROVE  TypeInv'
  <2>1. PICK s \in LP!Saved(LP!Edited(d, p, look)) : QP!EnqueueDocOn(s, d)
    BY <1>4 DEF EditWrites
  <2>2. IsIndex(LP!Edited(d, p, look))
    BY LP!EditedType, NoneAssumption, LibraryFacts
  <2>3. IsIndex(s)
    BY <2>1, <2>2 DEF LP!Saved, LP!TypeOK
  <2>4. QP!TypeOK'
    BY <2>1, <2>3, QP!EnqueueDocType, NoneAssumption, QueueFacts
  <2>5. IsIndex(store')
    BY <2>4 DEF QP!TypeOK
  <2>6. LP!TypeOK'
    BY <1>4, <2>2, <2>5 DEF EditWrites, LP!Changed, LP!TypeOK
  <2>7. QED
    BY <2>4, <2>6
<1>5. ASSUME NEW d \in DocId, FrameWrites(d)
      PROVE  TypeInv'
  <2>1. QP!TypeOK'
    BY <1>5, QP!EnqueueDocType, NoneAssumption, QueueFacts DEF FrameWrites, QP!TypeOK
  <2>2. IsIndex(store')
    BY <2>1 DEF QP!TypeOK
  <2>3. LP!TypeOK'
    BY <1>5, <2>2
    DEF FrameWrites, LP!FrameFires, LP!TypeOK, LP!shown, LP!latest, LP!calls
  <2>4. QED
    BY <2>1, <2>3
<1>6. CASE SameQueueStep /\ UNCHANGED library
  <2>1. QP!TypeOK'
    BY <1>6, QueueNext, QP!NextTypeOK, NoneAssumption, QueueFacts
  <2>2. QED
    BY <1>2, <1>6, <2>1 DEF QP!TypeOK
<1>7. CASE LP!Relaunch /\ Q!Restart
  <2>1. LP!TypeOK'
    BY <1>7, LibraryNext, LP!NextTypeOK, NoneAssumption, LibraryFacts
  <2>2. QP!TypeOK'
    BY <1>7, RestartEmpties DEF QP!TypeOK
  <2>3. QED
    BY <2>1, <2>2
<1>8. CASE UNCHANGED vars
  <2>1. UNCHANGED control /\ UNCHANGED library /\ store' = store
    BY <1>8 DEF vars
  <2>2. QED
    BY <1>1, <1>2, <2>1 DEF LP!TypeOK
<1>9. QED
  BY <1>3, <1>4, <1>5, <1>6, <1>7, <1>8, StepKinds

LEMMA TypeInit == Init => TypeInv
<1> SUFFICES ASSUME Init
             PROVE  TypeInv
  OBVIOUS
<1>1. LP!TypeOK
  BY StartsEmpty DEF LP!Init, LP!NoEntries, LP!TypeOK, LP!IsIndex, LP!IsFolderIndex
<1>2. IsIndex(store)
  BY <1>1, SameTypes DEF LP!TypeOK
<1>3. QP!TypeOK
  BY <1>2, StartsEmpty, SameTypes DEF QP!TypeOK
<1>4. QED
  BY <1>1, <1>3 DEF TypeInv

LEMMA TypeInvariance == Spec => []TypeInv
BY TypeInit, TypeStep, PTL DEF Spec

\* The library and the queue keep the types of all they share, in whatever
\* order their steps come and with every launch between.
THEOREM TypesHold == Spec => []TypeOK
<1>1. TypeInv => L!TypeOK
  BY DEF TypeInv, L!TypeOK, LP!TypeOK, L!IsIndex, LP!IsIndex,
         L!IsFolderIndex, LP!IsFolderIndex, L!Adding, LP!Adding,
         L!Cropping, LP!Cropping, L!Doc, LP!Doc, L!Page, LP!Page,
         L!OcrStatus, LP!OcrStatus, L!OcrProgress, LP!OcrProgress
<1>2. TypeInv => Q!TypeOK
  BY DEF TypeInv, Q!TypeOK, QP!TypeOK, Q!IsIndex, QP!IsIndex, Q!Doc, QP!Doc,
         Q!Page, QP!Page, Q!OcrStatus, QP!OcrStatus, Q!OcrProgress, QP!OcrProgress,
         Q!Run, QP!Run
<1>3. TypeInv => TypeOK
  BY <1>1, <1>2 DEF TypeOK
<1>4. QED
  BY <1>3, TypeInvariance, PTL

-----------------------------------------------------------------------------
(* Storage and what is shown.                                              *)

\* The queue alone writes results, into documents that storage has.
LEMMA QueueKeepsDocs ==
    ASSUME TypeInv,
           SameQueueStep \/ \E d \in DocId : QP!EnqueueDocOn(store, d)
    PROVE  QP!KeepsDocs(store, store')
<1>1. QP!IsIndex(store)
  BY DEF TypeInv, QP!TypeOK
<1>2. QED
  BY <1>1, QP!EnqueueDocKeeps, QP!QueueKeeps, NoneAssumption, QueueFacts
  DEF TypeInv, SameQueueStep

\* Storage matches what is shown after a step that keeps its documents.
LEMMA KeptMatches ==
    ASSUME LP!SettledMatches, QP!KeepsDocs(store, store'),
           UNCHANGED <<folderStore, docs, folders, dirty>>
    PROVE  LP!SettledMatches'
BY DEF LP!SettledMatches, QP!KeepsDocs

LEMMA SettledStep == TypeInv /\ LP!SettledMatches /\ [Next]_vars => LP!SettledMatches'
<1> SUFFICES ASSUME TypeInv, LP!SettledMatches, [Next]_vars
             PROVE  LP!SettledMatches'
  OBVIOUS
<1> USE DEF TypeInv
<1>1. CASE SameLibraryStep
  BY <1>1, LibraryNext, LP!SettledStep, NoneAssumption, LibraryFacts
<1>2. ASSUME NEW d \in DocId, NEW p \in PageId, NEW look \in Look, EditWrites(d, p, look)
      PROVE  LP!SettledMatches'
  BY <1>2 DEF EditWrites, LP!Changed, LP!SettledMatches
<1>3. ASSUME NEW d \in DocId, FrameWrites(d)
      PROVE  LP!SettledMatches'
  BY <1>3, QueueKeepsDocs, KeptMatches
  DEF FrameWrites, LP!FrameFires, LP!shown, LP!latest
<1>4. CASE SameQueueStep /\ UNCHANGED library
  BY <1>4, QueueKeepsDocs, KeptMatches DEF library
<1>5. CASE LP!Relaunch
  BY <1>5, LibraryNext, LP!SettledStep, NoneAssumption, LibraryFacts
<1>6. CASE UNCHANGED vars
  BY <1>6 DEF vars, library, LP!SettledMatches
<1>7. QED
  BY <1>1, <1>2, <1>3, <1>4, <1>5, <1>6, StepKinds

\* Once every update is shown, the index holds the documents that are shown,
\* under their names, although the queue rewrites documents beside the library
\* and both save the whole index.
THEOREM QueueKeepsSaved == Spec => []SettledMatches
<1>1. Init => LP!SettledMatches
  BY StartsEmpty DEF LP!Init, LP!NoEntries, LP!SettledMatches
<1>2. LP!SettledMatches => SettledMatches
  BY DEF SettledMatches, L!SettledMatches, LP!SettledMatches
<1>3. QED
  BY <1>1, <1>2, SettledStep, TypeInvariance, PTL DEF Spec

\* A step that leaves every index its documents.
LEMMA KeptDurable ==
    ASSUME LP!DurableInv, DOMAIN store' = DOMAIN store,
           UNCHANGED <<docs, latestDocs, usedIds>>
    PROVE  LP!DurableInv' /\ LP!Kept
BY LP!SameDocsDurable, NoneAssumption, LibraryFacts

LEMMA DurableStep ==
    TypeInv /\ LP!DurableInv /\ [Next]_vars => LP!DurableInv' /\ LP!Kept
<1> SUFFICES ASSUME TypeInv, LP!DurableInv, [Next]_vars
             PROVE  LP!DurableInv' /\ LP!Kept
  OBVIOUS
<1>1. CASE SameLibraryStep
  BY <1>1, LibraryNext, LP!DurableStep, NoneAssumption, LibraryFacts
<1>2. ASSUME NEW d \in DocId, NEW p \in PageId, NEW look \in Look, EditWrites(d, p, look)
      PROVE  LP!DurableInv' /\ LP!Kept
  <2>1. PICK s \in LP!Saved(LP!Edited(d, p, look)) : QP!EnqueueDocOn(s, d)
    BY <1>2 DEF EditWrites
  <2>2. LP!IsIndex(LP!Edited(d, p, look)) /\ LP!IsIndex(store)
    BY LP!EditedType, NoneAssumption, LibraryFacts DEF TypeInv, LP!TypeOK
  <2>3. QP!IsIndex(s)
    BY <2>1, <2>2, SameTypes DEF LP!Saved
  <2>4. DOMAIN store' = DOMAIN s
    BY <2>1, <2>3, QP!EnqueueDocKeeps, NoneAssumption, QueueFacts
    DEF QP!KeepsDocs
  <2>5. DOMAIN LP!Edited(d, p, look) = DOMAIN latestDocs
    BY DEF LP!Edited, LP!UpdateDoc
  <2>6. DOMAIN store' = DOMAIN store \/ DOMAIN store' = DOMAIN latestDocs
    BY <2>1, <2>4, <2>5 DEF LP!Saved
  <2>7. DOMAIN latestDocs' = DOMAIN latestDocs
    BY <1>2, <2>5 DEF EditWrites, LP!Changed
  <2>8. QED
    BY <1>2, <2>6, <2>7
    DEF EditWrites, LP!DurableInv, LP!IdsUsed, LP!StoredBetween, LP!Kept
<1>3. ASSUME NEW d \in DocId, FrameWrites(d)
      PROVE  LP!DurableInv' /\ LP!Kept
  BY <1>3, QueueKeepsDocs, KeptDurable
  DEF FrameWrites, LP!FrameFires, LP!shown, LP!latest, QP!KeepsDocs
<1>4. CASE SameQueueStep /\ UNCHANGED library
  BY <1>4, QueueKeepsDocs, KeptDurable DEF library, QP!KeepsDocs
<1>5. CASE LP!Relaunch
  BY <1>5, LibraryNext, LP!DurableStep, NoneAssumption, LibraryFacts
<1>6. CASE UNCHANGED vars
  BY <1>6, KeptDurable DEF vars, library
<1>7. QED
  BY <1>1, <1>2, <1>3, <1>4, <1>5, <1>6, StepKinds DEF TypeInv

\* No document is lost by a step of either part or by a launch, and none comes
\* back that was deleted, although both overwrite the index from their copies.
THEOREM NothingLostBesideQueue == Spec => Durable
<1>1. Init => LP!DurableInv
  BY StartsEmpty, LP!DurableInit, NoneAssumption, LibraryFacts
<1>2. TypeInv /\ LP!DurableInv /\ [Next]_vars => LP!DurableInv' /\ [LP!Kept]_(L!vars)
  BY DurableStep
<1>3. LP!Kept <=> /\ DOMAIN docs \cap DOMAIN latestDocs \subseteq DOMAIN docs'
                  /\ DOMAIN docs' \subseteq DOMAIN docs \cup DOMAIN latestDocs
  BY DEF LP!Kept
<1>4. Spec => [][LP!Kept]_(L!vars)
  BY <1>1, <1>2, TypeInvariance, PTL DEF Spec
<1>5. QED
  BY <1>3, <1>4, PTL DEF Durable, L!Durable

-----------------------------------------------------------------------------
(* The queue beside the library.                                           *)

LEMMA SameControl ==
    ASSUME UNCHANGED control
    PROVE  /\ QP!QueueInv => QP!QueueInv'
           /\ QP!SingleWorker => QP!SingleWorker'
BY DEF control, QP!QueueInv, QP!SingleWorker, QP!Distinct, QP!IsQueued, QP!Active

LEMMA EmptyControl ==
    ASSUME isProcessing' = FALSE, currentDocumentId' = None,
           processingQueue' = <<>>, runs' = [r \in RunId |-> None]
    PROVE  QP!QueueInv' /\ QP!SingleWorker'
BY DEF QP!QueueInv, QP!SingleWorker, QP!Distinct, QP!IsQueued, QP!Active

QueueAndWorker == QP!QueueInv /\ QP!SingleWorker

LEMMA QueueInvStep ==
    TypeInv /\ QueueAndWorker /\ [Next]_vars => QueueAndWorker'
<1> SUFFICES ASSUME TypeInv, QueueAndWorker, [Next]_vars
             PROVE  QueueAndWorker'
  OBVIOUS
<1> USE DEF TypeInv, QueueAndWorker
<1>1. CASE SameLibraryStep /\ UNCHANGED control
  BY <1>1, SameControl
<1>2. ASSUME NEW s, QP!IsIndex(s), NEW d \in DocId, QP!EnqueueDocOn(s, d)
      PROVE  QueueAndWorker'
  BY <1>2, QP!EnqueueDocQueueInv, QP!EnqueueDocSingle, NoneAssumption, QueueFacts
<1>3. ASSUME NEW d \in DocId, NEW p \in PageId, NEW look \in Look, EditWrites(d, p, look)
      PROVE  QueueAndWorker'
  <2>1. LP!IsIndex(LP!Edited(d, p, look)) /\ LP!IsIndex(store)
    BY LP!EditedType, NoneAssumption, LibraryFacts DEF LP!TypeOK
  <2>2. \A s \in LP!Saved(LP!Edited(d, p, look)) : QP!IsIndex(s)
    BY <2>1, SameTypes DEF LP!Saved
  <2>3. QED
    BY <1>2, <1>3, <2>2 DEF EditWrites
<1>4. ASSUME NEW d \in DocId, FrameWrites(d)
      PROVE  QueueAndWorker'
  BY <1>2, <1>4 DEF FrameWrites, QP!TypeOK
<1>5. CASE SameQueueStep /\ UNCHANGED library
  BY <1>5, QueueNext, QP!NextQueueInv, QP!NextSingleWorker, NoneAssumption, QueueFacts
<1>6. CASE LP!Relaunch /\ Q!Restart
  BY <1>6, RestartEmpties, EmptyControl
<1>7. CASE UNCHANGED vars
  BY <1>7, SameControl DEF vars
<1>8. QED
  BY <1>1, <1>3, <1>4, <1>5, <1>6, <1>7, StepKinds

LEMMA QueueInvInit == Init => QueueAndWorker
BY StartsEmpty DEF QueueAndWorker, QP!QueueInv, QP!SingleWorker, QP!Distinct,
                   QP!IsQueued, QP!Active

LEMMA QueueInvariance == Spec => []QueueAndWorker
BY QueueInvInit, QueueInvStep, TypeInvariance, PTL DEF Spec

\* At most one document is being read, and it is the one the queue says,
\* whatever the library enqueues, saves and deletes and whenever the app dies.
THEOREM OneRunInApp == Spec => []SingleWorker
<1>1. QueueAndWorker => SingleWorker
  BY DEF QueueAndWorker, SingleWorker, Q!SingleWorker, QP!SingleWorker,
         Q!Active, QP!Active
<1>2. QED
  BY <1>1, QueueInvariance, PTL

\* A document that waits is started by an armed timer or by the end of a live
\* run, whatever the library does in between: the queue never stalls.
THEOREM NeverStalledInApp == Spec => []NoLostWakeup
<1>1. QueueAndWorker => NoLostWakeup
  BY DEF QueueAndWorker, QP!QueueInv, NoLostWakeup, Q!NoLostWakeup,
         Q!Active, QP!Active
<1>2. QED
  BY <1>1, QueueInvariance, PTL

-----------------------------------------------------------------------------
(* Results, until the app is launched again.  React's copies of the        *)
(* documents are made from new documents and never from the index, so they *)
(* carry no result: what the library saves either has none or is the       *)
(* index's own.                                                            *)

Fresh(s) == \A d \in DOMAIN s : s[d].ocrStatus = "unset"

ReactFresh ==
    Fresh(docs) /\ Fresh(latestDocs) /\ \A a \in adding : a.base.ocrStatus = "unset"

\* The documents of t have no result or the one they have in s.
NoNewResults(s, t) ==
    \A d \in DOMAIN t :
        \/ t[d].ocrStatus = "unset"
        \/ /\ d \in DOMAIN s
           /\ t[d].ocrStatus = s[d].ocrStatus
           /\ t[d].ocrProgress = s[d].ocrProgress
           /\ t[d].pages = s[d].pages

LEMMA FreshNoNewResults ==
    ASSUME NEW s, NEW t, Fresh(t) \/ t = s
    PROVE  NoNewResults(s, t)
BY DEF Fresh, NoNewResults

LEMMA UpdateFresh ==
    ASSUME NEW s, IsIndex(s), Fresh(s), NEW d, NEW doc,
           d \in DOMAIN s => doc.ocrStatus = "unset"
    PROVE  Fresh(LP!UpdateDoc(s, d, doc))
BY DEF Fresh, LP!UpdateDoc, IsIndex

\* setDocs with documents that have no result.
LEMMA SetDocsFresh ==
    ASSUME ReactFresh, NEW next, Fresh(next), LP!SetDocs(next),
           docs' = docs, adding' \subseteq adding
    PROVE  ReactFresh' /\ NoNewResults(store, store')
<1>1. latestDocs' = next /\ (store' = store \/ store' = next)
  BY DEF LP!SetDocs, LP!Saved, LP!Changed
<1>2. NoNewResults(store, store')
  BY <1>1, FreshNoNewResults
<1>3. QED
  BY <1>1, <1>2 DEF ReactFresh, Fresh

LEMMA EditedFresh ==
    ASSUME TypeInv, ReactFresh, NEW d \in DocId, NEW p, NEW look
    PROVE  Fresh(LP!Edited(d, p, look))
<1> DEFINE doc == [latestDocs[d] EXCEPT !.pages = LP!WithLook(latestDocs[d].pages, p, look)]
<1>1. IsIndex(latestDocs)
  BY SameTypes DEF TypeInv, LP!TypeOK
<1>2. ASSUME d \in DOMAIN latestDocs
      PROVE  doc.ocrStatus = "unset"
  BY <1>1, <1>2 DEF ReactFresh, Fresh, IsIndex, Doc
<1>3. LP!Edited(d, p, look) = LP!UpdateDoc(latestDocs, d, doc)
  BY DEF LP!Edited
<1> HIDE DEF doc
<1>4. QED
  BY <1>1, <1>2, <1>3, UpdateFresh DEF ReactFresh

\* A step that changes no index.
LEMMA SameFresh ==
    ASSUME ReactFresh, UNCHANGED <<store, docs, latestDocs>>, adding' \subseteq adding
    PROVE  ReactFresh' /\ NoNewResults(store, store')
BY DEF ReactFresh, Fresh, NoNewResults

LEMMA LibraryFresh ==
    ASSUME TypeInv, ReactFresh, SameLibraryStep
    PROVE  ReactFresh' /\ NoNewResults(store, store')
<1>1. /\ IsIndex(store) /\ IsIndex(docs) /\ IsIndex(latestDocs)
      /\ \A d \in DOMAIN latestDocs : latestDocs[d] \in Doc
      /\ \A d \in DOMAIN store : store[d] \in Doc
      /\ \A a \in adding : a.base \in Doc
  BY SameTypes DEF TypeInv, LP!TypeOK, IsIndex, LP!Adding
<1>2. ASSUME NEW d, NEW doc, d \in DOMAIN latestDocs => doc.ocrStatus = "unset",
             LP!SetDocs(LP!UpdateDoc(latestDocs, d, doc)),
             docs' = docs, adding' \subseteq adding
      PROVE  ReactFresh' /\ NoNewResults(store, store')
  <2>1. Fresh(LP!UpdateDoc(latestDocs, d, doc))
    BY <1>1, <1>2, UpdateFresh DEF ReactFresh
  <2>2. QED
    BY <1>2, <2>1, SetDocsFresh
<1>3. ASSUME NEW d \in DocId, NEW doc \in NewDocs, LP!CreateDoc(d, doc)
      PROVE  ReactFresh' /\ NoNewResults(store, store')
  <2>1. Fresh(LP!PutDoc(latestDocs, d, doc))
    BY AppAssumption DEF ReactFresh, Fresh, LP!PutDoc
  <2>2. QED
    BY <1>3, <2>1, SetDocsFresh DEF LP!CreateDoc, LP!shown, LP!calls
<1>4. ASSUME NEW d \in DocId, LP!DeleteDoc(d)
      PROVE  ReactFresh' /\ NoNewResults(store, store')
  <2>1. Fresh(LP!RemoveDoc(latestDocs, d))
    BY DEF ReactFresh, Fresh, LP!RemoveDoc
  <2>2. QED
    BY <1>4, <2>1, SetDocsFresh DEF LP!DeleteDoc, LP!shown, LP!calls
<1>5. ASSUME NEW d \in DocId, NEW title \in Title, LP!RenameDoc(d, title)
      PROVE  ReactFresh' /\ NoNewResults(store, store')
  <2> DEFINE doc == [latestDocs[d] EXCEPT !.title = title]
  <2>1. d \in DOMAIN latestDocs => doc.ocrStatus = "unset"
    BY <1>1 DEF ReactFresh, Fresh, Doc
  <2>2. LP!SetDocs(LP!UpdateDoc(latestDocs, d, doc))
    BY <1>5 DEF LP!RenameDoc
  <2> HIDE DEF doc
  <2>3. QED
    BY <1>2, <1>5, <2>1, <2>2 DEF LP!RenameDoc, LP!shown, LP!calls
<1>6. ASSUME NEW d \in DocId, NEW p \in PageId, LP!DeletePage(d, p)
      PROVE  ReactFresh' /\ NoNewResults(store, store')
  <2> DEFINE doc == [latestDocs[d] EXCEPT
                        !.pages = LP!WithoutPage(latestDocs[d].pages, p)]
  <2>1. d \in DOMAIN latestDocs => doc.ocrStatus = "unset"
    BY <1>1 DEF ReactFresh, Fresh, Doc
  <2>2. LP!SetDocs(LP!UpdateDoc(latestDocs, d, doc))
    BY <1>6 DEF LP!DeletePage
  <2> HIDE DEF doc
  <2>3. QED
    BY <1>2, <1>6, <2>1, <2>2 DEF LP!DeletePage, LP!shown, LP!calls
\* The copy that handleAddPages kept is one of a render.
<1>7. ASSUME NEW a \in adding, NEW pages \in Scans, LP!AddPages(a, pages)
      PROVE  ReactFresh' /\ NoNewResults(store, store')
  <2> DEFINE doc == [a.base EXCEPT !.pages = a.base.pages \o pages]
  <2>1. doc.ocrStatus = "unset"
    BY <1>1 DEF ReactFresh, Doc
  <2>2. LP!SetDocs(LP!UpdateDoc(latestDocs, a.doc, doc))
    BY <1>7 DEF LP!AddPages
  <2> HIDE DEF doc
  <2>3. QED
    BY <1>2, <1>7, <2>1, <2>2 DEF LP!AddPages, LP!shown
\* moveDoc writes the index's own document.
<1>8. ASSUME NEW d \in DocId, NEW f \in FolderId \cup {None}, LP!MoveDoc(d, f)
      PROVE  ReactFresh' /\ NoNewResults(store, store')
  <2> DEFINE moved(s) == [s[d] EXCEPT !.folderId = f]
  <2>1. /\ store' = LP!UpdateDoc(store, d, moved(store))
        /\ latestDocs' = LP!UpdateDoc(latestDocs, d, moved(latestDocs))
        /\ docs' = docs /\ adding' = adding
    BY <1>8 DEF LP!MoveDoc, LP!Changed, LP!shown, LP!calls
  <2>2. d \in DOMAIN latestDocs => moved(latestDocs).ocrStatus = "unset"
    BY <1>1 DEF ReactFresh, Fresh, Doc
  <2>3. d \in DOMAIN store => /\ moved(store).ocrStatus = store[d].ocrStatus
                              /\ moved(store).ocrProgress = store[d].ocrProgress
                              /\ moved(store).pages = store[d].pages
    BY <1>1 DEF Doc
  <2> HIDE DEF moved
  <2>4. Fresh(latestDocs')
    BY <1>1, <2>1, <2>2, UpdateFresh DEF ReactFresh
  <2>5. NoNewResults(store, store')
    BY <1>1, <2>1, <2>3 DEF NoNewResults, LP!UpdateDoc, IsIndex
  <2>6. QED
    BY <2>1, <2>4, <2>5 DEF ReactFresh, Fresh
<1>9. ASSUME NEW f \in FolderId, LP!DeleteFolder(f)
      PROVE  ReactFresh' /\ NoNewResults(store, store')
  <2>1. /\ latestDocs' = [d \in DOMAIN latestDocs |->
                            IF latestDocs[d].folderId = f
                            THEN [latestDocs[d] EXCEPT !.folderId = None]
                            ELSE latestDocs[d]]
        /\ UNCHANGED <<store, docs, adding>>
    BY <1>9 DEF LP!DeleteFolder, LP!shown, LP!calls
  <2>2. Fresh(latestDocs')
    BY <1>1, <2>1 DEF ReactFresh, Fresh, Doc
  <2>3. QED
    BY <2>1, <2>2 DEF ReactFresh, Fresh, NoNewResults
<1>10. ASSUME NEW d \in DocId, LP!StartAddPages(d)
       PROVE  ReactFresh' /\ NoNewResults(store, store')
  <2>1. /\ UNCHANGED <<store, docs, latestDocs>> /\ d \in DOMAIN docs
        /\ adding' = adding \cup {[doc |-> d, base |-> docs[d]]}
    BY <1>10 DEF LP!StartAddPages, LP!stored, LP!shown, LP!latest
  <2>2. QED
    BY <2>1 DEF ReactFresh, Fresh, NoNewResults
<1>11. ASSUME NEW d \in DocId, NEW p \in PageId, LP!StartCrop(d, p)
       PROVE  ReactFresh' /\ NoNewResults(store, store')
  BY <1>11, SameFresh DEF LP!StartCrop, LP!stored, LP!shown, LP!latest
<1>12. ASSUME NEW f \in FolderId, NEW name \in Title,
              LP!CreateFolder(f, name) \/ LP!RenameFolder(f, name)
       PROVE  ReactFresh' /\ NoNewResults(store, store')
  BY <1>12, SameFresh DEF LP!CreateFolder, LP!RenameFolder, LP!shown, LP!calls
<1>13. CASE LP!GiveUp
  BY <1>13, SameFresh DEF LP!GiveUp, LP!stored, LP!shown, LP!latest
<1>14. CASE LP!Commit
  BY <1>14, FreshNoNewResults DEF LP!Commit, ReactFresh, Fresh, LP!calls
<1>15. CASE LP!Background
  BY <1>15, FreshNoNewResults
  DEF LP!Background, ReactFresh, Fresh, LP!shown, LP!latest, LP!calls
<1>16. QED
  BY <1>3, <1>4, <1>5, <1>6, <1>7, <1>8, <1>9, <1>10, <1>11, <1>12, <1>13, <1>14,
     <1>15 DEF SameLibraryStep, LP!UserStep

\* What the queue relies on about an index holds of one with no new results.
LEMMA NoNewResultsKeep ==
    ASSUME NEW s, NEW t, NoNewResults(s, t)
    PROVE  /\ QP!RunsOn(s) => QP!RunsOn(t)
           /\ QP!DoneOn(s) => QP!DoneOn(t)
           /\ QP!RunningOn(s) => QP!RunningOn(t)
<1>1. QP!RunsOn(s) => QP!RunsOn(t)
  BY DEF NoNewResults, QP!RunsOn, QP!Status
<1>2. QP!DoneOn(s) => QP!DoneOn(t)
  BY DEF NoNewResults, QP!DoneOn, QP!Status
<1>3. QP!RunningOn(s) => QP!RunningOn(t)
  BY DEF NoNewResults, QP!RunningOn, QP!Status
<1>4. QED
  BY <1>1, <1>2, <1>3

\* What the proofs need about results: the queue's own invariants and that
\* React has none.
ResultInv ==
    ReactFresh /\ QP!RunInv /\ QP!DoneMeansRead /\ QP!ProgressInv

LEMMA ResultNames ==
    /\ QP!RunInv <=> QP!RunsOn(store)
    /\ QP!DoneMeansRead <=> QP!DoneOn(store)
    /\ QP!ProgressInv <=> QP!RunningOn(store) /\ QP!FiltersFirst
BY DEF QP!RunInv, QP!DoneMeansRead, QP!DoneOn, QP!ProgressInv, QP!RunningHasWorker,
       QP!RunningOn

LEMMA SameControlResults ==
    ASSUME UNCHANGED control, NoNewResults(store, store'),
           QP!RunInv, QP!DoneMeansRead, QP!ProgressInv
    PROVE  QP!RunInv' /\ QP!DoneMeansRead' /\ QP!ProgressInv'
<1>1. QP!RunsOn(store') /\ QP!DoneOn(store') /\ QP!RunningOn(store')
  BY NoNewResultsKeep, ResultNames
<1>2. QP!RunInv'
  BY <1>1 DEF control, QP!RunInv, QP!RunsOn, QP!Active, QP!Status
<1>3. QP!DoneMeansRead'
  BY <1>1 DEF QP!DoneMeansRead, QP!DoneOn, QP!Status
<1>4. QP!ProgressInv'
  BY <1>1 DEF control, QP!ProgressInv, QP!RunningHasWorker, QP!RunningOn,
              QP!FiltersFirst, QP!Active, QP!Status
<1>5. QED
  BY <1>2, <1>3, <1>4

\* enqueueDoc on the index that the library has just saved.
LEMMA EnqueueResults ==
    ASSUME TypeInv, QueueAndWorker, QP!RunInv, QP!DoneMeansRead, QP!ProgressInv,
           NEW s, QP!IsIndex(s), NoNewResults(store, s), NEW d \in DocId,
           QP!EnqueueDocOn(s, d)
    PROVE  QP!RunInv' /\ QP!DoneMeansRead' /\ QP!ProgressInv'
<1>1. QP!RunsOn(s) /\ QP!DoneOn(s) /\ QP!RunningOn(s)
  BY NoNewResultsKeep, ResultNames
<1>2. QP!TypeOK /\ QP!SingleWorker /\ QP!FiltersFirst
  BY DEF TypeInv, QueueAndWorker, QP!ProgressInv
<1>3. QP!RunInv' /\ QP!DoneMeansRead'
  BY <1>1, <1>2, QP!EnqueueDocFinished, NoneAssumption, QueueFacts
<1>4. QP!ProgressInv'
  BY <1>1, <1>2, QP!EnqueueDocProgress, NoneAssumption, QueueFacts
<1>5. QED
  BY <1>3, <1>4

\* Until the next launch: the index is React's only source at a launch, and
\* then its copies have results too.
LEMMA ResultStep ==
    ASSUME "relaunch" \notin Events
    PROVE  TypeInv /\ QueueAndWorker /\ ResultInv /\ [Next]_vars => ResultInv'
<1> SUFFICES ASSUME TypeInv, QueueAndWorker, ResultInv, [Next]_vars
             PROVE  ResultInv'
  OBVIOUS
<1> USE DEF ResultInv
<1>1. CASE SameLibraryStep /\ UNCHANGED control
  BY <1>1, LibraryFresh, SameControlResults
<1>2. ASSUME NEW d \in DocId, NEW p \in PageId, NEW look \in Look, EditWrites(d, p, look)
      PROVE  ResultInv'
  <2>1. PICK s \in LP!Saved(LP!Edited(d, p, look)) : QP!EnqueueDocOn(s, d)
    BY <1>2 DEF EditWrites
  <2>2. Fresh(LP!Edited(d, p, look))
    BY EditedFresh
  <2>3. NoNewResults(store, s)
    BY <2>1, <2>2, FreshNoNewResults DEF LP!Saved
  <2>4. LP!IsIndex(LP!Edited(d, p, look)) /\ LP!IsIndex(store)
    BY LP!EditedType, NoneAssumption, LibraryFacts DEF TypeInv, LP!TypeOK
  <2>5. QP!IsIndex(s)
    BY <2>1, <2>4, SameTypes DEF LP!Saved
  <2>6. QP!RunInv' /\ QP!DoneMeansRead' /\ QP!ProgressInv'
    BY <2>1, <2>3, <2>5, EnqueueResults
  <2>7. ReactFresh'
    BY <1>2, <2>2 DEF EditWrites, LP!Changed, ReactFresh, Fresh
  <2>8. QED
    BY <2>6, <2>7
<1>3. ASSUME NEW d \in DocId, FrameWrites(d)
      PROVE  ResultInv'
  <2>1. QP!IsIndex(store)
    BY DEF TypeInv, QP!TypeOK
  <2>2. NoNewResults(store, store)
    BY FreshNoNewResults
  <2>3. QP!RunInv' /\ QP!DoneMeansRead' /\ QP!ProgressInv'
    BY <1>3, <2>1, <2>2, EnqueueResults DEF FrameWrites
  <2>4. ReactFresh'
    BY <1>3 DEF FrameWrites, LP!FrameFires, LP!shown, LP!latest, LP!calls,
                ReactFresh, Fresh
  <2>5. QED
    BY <2>3, <2>4
<1>4. CASE SameQueueStep /\ UNCHANGED library
  <2>1. QP!NothingDone /\ QP!NothingRunning
    BY DEF QP!NothingDone, QP!NothingRunning
  <2>2. QP!FinishedInv /\ QP!RunningInv
    BY DEF TypeInv, QueueAndWorker, QP!FinishedInv, QP!RunningInv
  <2>3. QP!RunInv' /\ QP!DoneMeansRead'
    BY <1>4, <2>1, <2>2, QueueNext, QP!NextFinished, NoneAssumption, QueueFacts
  <2>4. QP!ProgressInv'
    BY <1>4, <2>1, <2>2, QueueNext, QP!NextProgress, NoneAssumption, QueueFacts
  <2>5. ReactFresh'
    BY <1>4 DEF library, ReactFresh, Fresh
  <2>6. QED
    BY <2>3, <2>4, <2>5
<1>5. CASE LP!Relaunch
  BY <1>5 DEF LP!Relaunch
<1>6. CASE UNCHANGED vars
  <2>1. UNCHANGED control /\ UNCHANGED library /\ store' = store
    BY <1>6 DEF vars
  <2>2. ReactFresh' /\ NoNewResults(store, store')
    BY <2>1, SameFresh DEF library
  <2>3. QED
    BY <2>1, <2>2, SameControlResults
<1>7. QED
  BY <1>1, <1>2, <1>3, <1>4, <1>5, <1>6, StepKinds DEF TypeInv

LEMMA ResultInvariance ==
    ASSUME "relaunch" \notin Events
    PROVE  Spec => []ResultInv
<1>1. Init => ResultInv
  BY StartsEmpty
  DEF LP!Init, LP!NoEntries, ResultInv, ReactFresh, Fresh, QP!RunInv, QP!RunsOn,
      QP!DoneMeansRead, QP!ProgressInv, QP!RunningHasWorker, QP!FiltersFirst, QP!Active
<1>2. QED
  BY <1>1, ResultStep, TypeInvariance, QueueInvariance, PTL DEF Spec

\* Between two launches a document stored as done has been read to its last
\* page: the pages that the library adds, removes, edits and saves while a run
\* is going on never mix with the results of that run.
THEOREM DoneIsReadInApp ==
    ASSUME "relaunch" \notin Events
    PROVE  Spec => []DoneMeansRead
<1>1. ResultInv => DoneMeansRead
  BY DEF ResultInv, DoneMeansRead, Q!DoneMeansRead, QP!DoneMeansRead, Q!Status, QP!Status
<1>2. QED
  BY <1>1, ResultInvariance, PTL

\* Between two launches a document stored as running has a live run that is as
\* far as the stored progress says, although the library saves copies of it that
\* have no progress at any time.
THEOREM RunningIsReadInApp ==
    ASSUME "relaunch" \notin Events
    PROVE  Spec => []RunningHasWorker
<1>1. ResultInv => RunningHasWorker
  BY DEF ResultInv, RunningHasWorker, Q!RunningHasWorker, QP!ProgressInv,
         QP!RunningHasWorker, Q!Status, QP!Status, Q!Active, QP!Active
<1>2. QED
  BY <1>1, ResultInvariance, PTL
=============================================================================
