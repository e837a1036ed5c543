---------------------------- MODULE OcrPipeline ----------------------------
(***************************************************************************)
(* The queue together with the provider it awaits: recognizePage of        *)
(* src/src/ocr/provider.ts, await by await.  Vision is raced with a        *)
(* timeout; when it fails, is late or is missing, the size of the image is *)
(* asked for, with no timeout, and then TextRecognition is raced with one. *)
(* TextRecognition is tried with the file's URI and with its plain path.   *)
(* What a recogniser answers after its race is lost settles a promise that *)
(* nobody awaits, which changes nothing: late answers are no actions here. *)
(***************************************************************************)
EXTENDS OcrQueue

CONSTANT HasVision      \* whether the native module VisionOCR is there

VARIABLE calls          \* what the recognizePage of each run awaits

pipeline == <<vars, calls>>

\* What a recognizePage can await: Vision, the size of the image, and the
\* calls of TextRecognition: by URI, by path when that found nothing, and by
\* path in the catch block.
Awaited == {"vision", "size", "uri", "path", "retry"}

ASSUME VisionAssumption == HasVision \in BOOLEAN /\ None \notin Awaited

TextAwaits == {"uri", "path", "retry"}

\* The first thing recognizePage awaits, when the run is at a page.
FirstAwait(run) ==
    IF run = None \/ run.stage = "filtering" THEN None
    ELSE IF HasVision THEN "vision" ELSE "size"

\* Every page a run comes to is a new call of recognizePage.
CallsFollow ==
    calls' = [r \in RunId |->
                 IF runs'[r] = runs[r] THEN calls[r] ELSE FirstAwait(runs'[r])]

\* What a recogniser can find on the page a run is at: a text or nothing.
TextOf(r) ==
    LET page == runs[r].pages[runs[r].next]
    IN  IF page.processed = None THEN page.look ELSE page.processed

Answer(r, text) == PageRead(r, text) /\ CallsFollow

GoOn(r, next) ==
    /\ calls' = [calls EXCEPT ![r] = next]
    /\ UNCHANGED vars

-----------------------------------------------------------------------------
VisionAnswers(r) ==
    /\ calls[r] = "vision"
    /\ \E text \in {TextOf(r), Blank} : Answer(r, text)

\* Vision rejects, or 30 seconds have passed: the fallback.
VisionFails(r) == calls[r] = "vision" /\ GoOn(r, "size")

SizeAnswers(r) == calls[r] = "size" /\ GoOn(r, "uri")

\* Image.getSize fails: the outer catch block answers with an empty page.
SizeFails(r) == calls[r] = "size" /\ Answer(r, Blank)

\* TextRecognition finds lines.
TextAnswers(r) == calls[r] \in TextAwaits /\ Answer(r, TextOf(r))

\* No lines: the path is tried after the URI, and is the last word.
NoLines(r) ==
    \/ calls[r] = "uri" /\ GoOn(r, "path")
    \/ calls[r] \in {"path", "retry"} /\ Answer(r, Blank)

\* Mutated form: a call that fails answers with no text at all.
TextFailsUnread(r) ==
    \/ calls[r] \in {"uri", "path"} /\ GoOn(r, "retry")
    \/ calls[r] = "retry" /\ Answer(r, None)

\* It rejects: the catch block tries the path, once more if it was the path.
TextFails(r) ==
    \/ calls[r] \in {"uri", "path"} /\ GoOn(r, "retry")
    \/ calls[r] = "retry" /\ Answer(r, Blank)

\* Mutated form: the timeout is not there.
TextNeverTimesOut(r) == FALSE

\* 30 seconds have passed since the first call of TextRecognition.
TextTimesOut(r) == calls[r] \in TextAwaits /\ Answer(r, Blank)

Recognizes(r) ==
    \/ VisionAnswers(r)
    \/ VisionFails(r)
    \/ SizeAnswers(r)
    \/ SizeFails(r)
    \/ TextAnswers(r)
    \/ NoLines(r)
    \/ TextFails(r)
    \/ TextTimesOut(r)

\* The steps that leave the provider alone but may start a call of it.
QueueStep ==
    /\ \/ \E d \in DocId : EnqueueDoc(d)
       \/ TimerFires
       \/ \E r \in RunId : FilterDone(r)
       \/ \E d \in DocId : AppRemoves(d)
    /\ CallsFollow

PipelineInit == Init /\ calls = [r \in RunId |-> None]

PipelineNext == QueueStep \/ \E r \in RunId : Recognizes(r)

PipelineSpec == PipelineInit /\ [][PipelineNext]_pipeline

\* Timers fire; that the filters settle and Image.getSize calls back, one way
\* or the other, is trusted.  Of the recognisers nothing is assumed.
PipelineFairness ==
    /\ WF_pipeline(TimerFires /\ CallsFollow)
    /\ \A r \in RunId :
          /\ WF_pipeline(FilterDone(r) /\ CallsFollow)
          /\ WF_pipeline(VisionFails(r))
          /\ WF_pipeline(SizeAnswers(r) \/ SizeFails(r))
          /\ WF_pipeline(TextTimesOut(r))

FairPipelineSpec == PipelineSpec /\ PipelineFairness

-----------------------------------------------------------------------------
PipelineTypeOK == TypeOK /\ calls \in [RunId -> Awaited \cup {None}]

\* To the queue, recognizePage is one answer, a text or none, and no failure:
\* whatever fails, finds nothing or is late, the steps the queue takes are
\* those of OcrQueue.
ImplementsQueue == Spec
=============================================================================
