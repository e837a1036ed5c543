------------------------------ MODULE DocScan ------------------------------
(***************************************************************************)
(* The application: the library of App.tsx (Library) and the OCR queue     *)
(* (OcrQueue) over one documents index.  The library calls enqueueDoc from *)
(* animation frames and from handleApplyPageEdits; the queue writes its    *)
(* results into the index and nowhere else, so React's state never has     *)
(* them until the next launch reads the index.                             *)
(***************************************************************************)
EXTENDS DocStore

CONSTANTS NewDocs, Scans, MaxPages, MaxCalls, FramesAfterCommit, Events, \* Library
          RunId, MaxTimers                                               \* OcrQueue

\* A new document has no result yet (types.ts newDoc).
ASSUME AppAssumption ==
    /\ NewDocs \subseteq {doc \in Doc : doc.ocrStatus = "unset"}
    /\ Scans \subseteq Seq(Page)
    /\ MaxPages \in Nat /\ MaxCalls \in Nat /\ MaxTimers \in Nat
    /\ FramesAfterCommit \in BOOLEAN
    /\ Events \subseteq {"background", "relaunch"}

VARIABLES
    store, folderStore,
    docs, folders, latestDocs, latestFolders, dirty, frames, adding, cropping, usedIds,
    isProcessing, currentDocumentId, processingQueue, timers, runs

L == INSTANCE Library WITH OcrResult <- {}
Q == INSTANCE OcrQueue WITH AppDoc <- {}, Disturb <- {"restart"}

ASSUME RunAssumption == None \notin Q!Run

control == <<isProcessing, currentDocumentId, processingQueue, timers, runs>>
library == <<folderStore, docs, folders, latestDocs, latestFolders, dirty, frames,
             adding, cropping, usedIds>>
vars == <<store, library, control>>

Init == L!Init /\ Q!EmptyQueue

-----------------------------------------------------------------------------
\* What the user and React do without the queue.
LibraryStep == (L!UserStep \/ L!Commit \/ L!Background) /\ UNCHANGED control

\* handleApplyPageEdits: setDocs, then enqueueDoc in the same step.
EditPage(d, p, look) ==
    /\ timers < MaxTimers
    /\ L!EditPageButStore(d, p, look)
    /\ \E s \in L!Saved(L!Edited(d, p, look)) : Q!EnqueueDocOn(s, d)

\* The end of handleApplyCrop.
Crop(c, look) ==
    /\ timers < MaxTimers
    /\ L!CropButStore(c, look)
    /\ \E s \in L!Saved(L!Edited(c.doc, c.page, look)) : Q!EnqueueDocOn(s, c.doc)

\* requestAnimationFrame(() => ocrQueue.enqueueDoc(d)).
Frame(d) ==
    /\ timers < MaxTimers
    /\ L!FrameFires(d)
    /\ Q!EnqueueDocOn(store, d)

QueueStep ==
    /\ Q!TimerFires \/ \E r \in RunId : Q!FilterDone(r) \/ Q!PageDone(r)
    /\ UNCHANGED library

Relaunch == L!Relaunch /\ Q!Restart

Next ==
    \/ LibraryStep
    \/ \E d \in DocId, p \in PageId, look \in Look : EditPage(d, p, look)
    \/ \E c \in cropping, look \in Look : Crop(c, look)
    \/ \E d \in DocId : Frame(d)
    \/ QueueStep
    \/ Relaunch

Spec == Init /\ [][Next]_vars

\* React renders what is queued, timers fire, and the native calls a run awaits
\* answer.  An animation frame comes every few milliseconds, so one comes between
\* two of the user's updates (strong fairness).  Of the user nothing is assumed.
Fairness ==
    /\ WF_vars(L!Commit /\ UNCHANGED control)
    /\ \A d \in DocId : SF_vars(Frame(d))
    /\ WF_vars(Q!TimerFires /\ UNCHANGED library)
    /\ \A r \in RunId :
          WF_vars((Q!FilterDone(r) \/ Q!PageDone(r)) /\ UNCHANGED library)

FairSpec == Spec /\ Fairness

-----------------------------------------------------------------------------
TypeOK == L!TypeOK /\ Q!TypeOK

\* Once every update is shown, the index holds the documents that are shown,
\* under their names, although the queue rewrites documents beside it.
SettledMatches == L!SettledMatches

\* One run at a time, whatever the library enqueues, saves and deletes.
SingleWorker == Q!SingleWorker

\* Waiting documents are started, whatever the library saves and deletes.
NoLostWakeup == Q!NoLostWakeup

\* Progress that is stored is the live run's, although saves from React's state
\* (which never has any) come between.
RunningHasWorker == Q!RunningHasWorker

\* A document stored as done has been read to its last page: pages that are
\* added, removed or edited meanwhile never mix with the results of a run.
DoneMeansRead == Q!DoneMeansRead

\* No document is lost by a launch or comes back after it, although the queue
\* and the library overwrite each other's index.
Durable == L!Durable

\* A document that is created or extended is read in the end: the queue
\* finishes it or gives it up, or it is deleted.
NewDocIsRead ==
    \A d \in DocId :
        d \in frames ~> \/ d \notin DOMAIN latestDocs
                        \/ d \in DOMAIN store /\ Status(store, d) \in {"done", "error"}

\* "Save data when app goes to background to ensure persistence": no save takes
\* away the OCR results of a document whose pages it does not change.
ResultsPersist ==
    [][\A d \in DOMAIN store \cap DOMAIN store' :
          /\ Status(store, d) = "done"
          /\ L!PageIds(store[d].pages) = L!PageIds(store'[d].pages)
          => Status(store', d) # "unset"]_vars

\* "Re-OCR this page so the invisible text matches the new look": a stored text
\* is in the end the text of the page as it looks, or of no page.
TextMatchesLook ==
    \A d \in DocId :
        (d \in DOMAIN store /\ Status(store, d) = "done")
            ~> (d \in DOMAIN store =>
                   \A i \in DOMAIN store[d].pages :
                       store[d].pages[i].text \in {store[d].pages[i].look, Blank})
=============================================================================
