----------------------------- MODULE OcrService -----------------------------
(***************************************************************************)
(* What the OCR queue promises, without timers, pages or awaits: documents *)
(* are read one at a time, in the order in which they were submitted, none *)
(* that was accepted is skipped, and a document is marked as running when  *)
(* its turn comes and as done when it has been read, neither at any other  *)
(* time.  OcrQueue implements it, as long as nobody cancels.               *)
(***************************************************************************)
EXTENDS Sequences, Naturals

CONSTANTS
    DocId,
    None,
    AppStatus   \* the statuses that the rest of the app may write

VARIABLES
    status,     \* what the index says of a document, or "absent"
    waiting,    \* the documents that were accepted, in order
    reading     \* the document that is being read, or None

vars == <<status, waiting, reading>>

IsWaiting(d) == \E i \in DOMAIN waiting : waiting[i] = d

Readable(d) == status[d] \notin {"absent", "done", "running"}

\* The next document of a queue is taken: it is read, or it turns out that it
\* cannot be (it is gone, or has no pages) and has had its turn.
Take(queue) ==
    \/ /\ status[Head(queue)] # "absent"
       /\ status' = [status EXCEPT ![Head(queue)] = "running"]
       /\ waiting' = Tail(queue)
       /\ reading' = Head(queue)
    \/ /\ status' = IF status[Head(queue)] = "absent" THEN status
                    ELSE [status EXCEPT ![Head(queue)] = "error"]
       /\ waiting' = Tail(queue)
       /\ reading' = None

Submit(d) ==
    /\ Readable(d)
    /\ ~IsWaiting(d)
    /\ reading # d
    /\ \/ /\ reading # None
          /\ waiting' = Append(waiting, d)
          /\ UNCHANGED <<status, reading>>
       \/ /\ reading = None
          /\ Take(Append(waiting, d))

Wake ==
    /\ reading = None
    /\ waiting # <<>>
    /\ Take(waiting)

Finish ==
    /\ reading # None
    /\ status' = IF status[reading] = "absent" THEN status
                 ELSE [status EXCEPT ![reading] = "done"]
    /\ reading' = None
    /\ UNCHANGED waiting

\* The rest of the app writes or deletes a document.
AppChanges(d) ==
    /\ \E s \in AppStatus \cup {"absent"} : status' = [status EXCEPT ![d] = s]
    /\ UNCHANGED <<waiting, reading>>

\* The process dies: what waited is forgotten, what the index says stays.
Crash ==
    /\ waiting' = <<>>
    /\ reading' = None
    /\ UNCHANGED status

Init ==
    /\ status \in [DocId -> AppStatus \cup {"absent"}]
    /\ waiting = <<>>
    /\ reading = None

Next ==
    \/ \E d \in DocId : Submit(d)
    \/ Wake
    \/ Finish
    \/ \E d \in DocId : AppChanges(d)
    \/ Crash

Spec == Init /\ [][Next]_vars
=============================================================================
