------------------------------ MODULE CameraProofs ------------------------------
(***************************************************************************)
(* Dialog and camera thread: CameraInv, and that the program never aborts, *)
(* for runs of any length.                                                 *)
(*                                                                         *)
(* The queue of signals is in one of six shapes, so the counts of          *)
(* CameraInv become a choice between them.                                 *)
(***************************************************************************)
EXTENDS CameraDismiss, FiniteSetTheorems, SequenceTheorems, TLAPS

Frame == "frameReady"
Error == "cameraError"

PreviewQueued == \/ queue = <<Frame>>
                 \/ \E a \in Answers : queue = <<Frame, a>> \/ queue = <<a, Frame>>
AnswerQueued == \E a \in Answers : queue = <<a>> \/ queue = <<Frame, a>> \/ queue = <<a, Frame>>

Shape == queue = << >> \/ queue = <<Error>> \/ PreviewQueued \/ AnswerQueued

Types ==
    /\ dialog \in DialogStages /\ pc \in ThreadStages
    /\ captureRequested \in BOOLEAN /\ photo \in BOOLEAN
    /\ errorShown \in BOOLEAN /\ offered \in BOOLEAN
    /\ pending \in BOOLEAN /\ inHand \in BOOLEAN
    /\ uiReady \in BOOLEAN /\ claimed \in BOOLEAN
    /\ running \in BOOLEAN /\ interrupted \in BOOLEAN
    /\ sensor \in BOOLEAN /\ ledOpen \in BOOLEAN /\ led \in BOOLEAN /\ link \in BOOLEAN

(* Exactly one of three places has the preview flag.                       *)
FlagOnce ==
    /\ uiReady \/ claimed \/ PreviewQueued
    /\ ~(uiReady /\ claimed) /\ ~(uiReady /\ PreviewQueued) /\ ~(claimed /\ PreviewQueued)

(* At most one of three places has the request, and while the dialog is    *)
(* open one of them has what the dialog remembers.                         *)
RequestOnce ==
    /\ ~(pending /\ inHand) /\ ~(pending /\ AnswerQueued) /\ ~(inHand /\ AnswerQueued)
    /\ pending \/ inHand \/ AnswerQueued => captureRequested
    /\ captureRequested /\ dialog = "open" => pending \/ inHand \/ AnswerQueued

(* What a captureFrame() under way has in hand, it has nowhere else.       *)
HandEmpty == pc # "answer" => ~inHand /\ ~claimed

(* Before the first frame nothing has reached the dialog, nor has it been  *)
(* left; an error is the last word of the thread, with no frame to follow  *)
(* it that would cover the message.                                        *)
Silence == pc \in StartingUp => queue = << >> /\ dialog = "open" /\ ~led /\ uiReady
LastWord == queue = <<Error>> => pc = "done"
Ended ==
    /\ led => ledOpen
    /\ pc \in {"loop", "frame", "answer", "cleanup"} /\ dialog = "open" => running
    /\ pc = "done" /\ ~running /\ dialog = "open"
         => (errorShown \/ queue = <<Error>>) /\ uiReady

CameraIInv ==
    /\ Types /\ Shape
    /\ FlagOnce /\ RequestOnce /\ HandEmpty
    /\ Silence /\ LastWord /\ Ended
    /\ DismissedOnlyWithPhoto /\ NeverAborts /\ CleanExit

-----------------------------------------------------------------------------
(* How many signals of a kind a queue has.                                 *)

LEMMA OneOf ==
    ASSUME NEW S, NEW k \in DOMAIN queue, queue[k] \in S,
           \A i \in DOMAIN queue : queue[i] \in S => i = k
    PROVE  Queued(S) = 1
<1>1. { i \in DOMAIN queue : queue[i] \in S } = {k}
  OBVIOUS
<1>2. QED
  BY <1>1, FS_Singleton DEF Queued

LEMMA NoneOf ==
    ASSUME NEW S, \A i \in DOMAIN queue : queue[i] \notin S
    PROVE  Queued(S) = 0
<1>1. { i \in DOMAIN queue : queue[i] \in S } = {}
  OBVIOUS
<1>2. QED
  BY <1>1, FS_EmptySet DEF Queued

(* The shapes of the queue, counted.                                       *)
LEMMA Counted ==
    ASSUME Shape
    PROVE  /\ queue \in Seq(Signals) /\ Len(queue) <= 3
           /\ Queued({Frame}) = IF PreviewQueued THEN 1 ELSE 0
           /\ Queued(Answers) = IF AnswerQueued THEN 1 ELSE 0
           /\ queue = <<Error>> => Queued({Error}) = 1
<1> USE DEF Answers, Frame, Error
<1>1. CASE queue = << >>
  <2>1. ~PreviewQueued /\ ~AnswerQueued
    BY <1>1 DEF PreviewQueued, AnswerQueued
  <2>2. Queued({Frame}) = 0 /\ Queued(Answers) = 0
    BY <1>1, NoneOf
  <2>3. QED
    BY <1>1, <2>1, <2>2
<1>2. CASE queue = <<Error>>
  <2>1. ~PreviewQueued /\ ~AnswerQueued
    BY <1>2 DEF PreviewQueued, AnswerQueued
  <2>2. Queued({Frame}) = 0 /\ Queued(Answers) = 0
    BY <1>2, NoneOf
  <2>3. Queued({Error}) = 1
    BY <1>2, OneOf
  <2>4. QED
    BY <1>2, <2>1, <2>2, <2>3 DEF Signals
<1>3. CASE queue = <<Frame>>
  <2>1. PreviewQueued /\ ~AnswerQueued
    BY <1>3 DEF PreviewQueued, AnswerQueued
  <2>2. Queued({Frame}) = 1
    BY <1>3, OneOf
  <2>3. Queued(Answers) = 0
    BY <1>3, NoneOf
  <2>4. QED
    BY <1>3, <2>1, <2>2, <2>3 DEF Signals
<1>4. ASSUME NEW a \in Answers, queue = <<a>>
      PROVE  /\ queue \in Seq(Signals) /\ Len(queue) <= 3
             /\ PreviewQueued = FALSE /\ AnswerQueued = TRUE /\ queue # <<Error>>
             /\ Queued({Frame}) = 0 /\ Queued(Answers) = 1
  <2>1. /\ PreviewQueued = FALSE /\ AnswerQueued = TRUE /\ queue # <<Error>>
        /\ queue \in Seq(Signals) /\ Len(queue) <= 3
    BY <1>4 DEF PreviewQueued, AnswerQueued, Signals
  <2>2. Queued({Frame}) = 0
    BY <1>4, NoneOf
  <2>3. Queued(Answers) = 1
    BY <1>4, OneOf
  <2>4. QED
    BY <2>1, <2>2, <2>3
<1>5. ASSUME NEW a \in Answers, queue = <<Frame, a>> \/ queue = <<a, Frame>>
      PROVE  /\ queue \in Seq(Signals) /\ Len(queue) <= 3
             /\ PreviewQueued = TRUE /\ AnswerQueued = TRUE /\ queue # <<Error>>
             /\ Queued({Frame}) = 1 /\ Queued(Answers) = 1
  <2>1. /\ PreviewQueued = TRUE /\ AnswerQueued = TRUE /\ queue # <<Error>>
        /\ queue \in Seq(Signals) /\ Len(queue) <= 3
    BY <1>5 DEF PreviewQueued, AnswerQueued, Signals
  <2>2. CASE queue = <<Frame, a>>
    BY <2>1, <2>2, OneOf
  <2>3. CASE queue = <<a, Frame>>
    BY <2>1, <2>3, OneOf
  <2>4. QED
    BY <1>5, <2>2, <2>3
<1>6. QED
  BY <1>1, <1>2, <1>3, <1>4, <1>5 DEF Shape, PreviewQueued, AnswerQueued

LEMMA CameraImplied == CameraIInv => CameraInv
<1> SUFFICES ASSUME CameraIInv PROVE CameraInv
  OBVIOUS
<1> USE DEF CameraIInv
<1>1. TypeOK
  BY Counted DEF Types, TypeOK
<1>2. RequestAccounted
  BY Counted DEF RequestOnce, RequestAccounted, Count
<1>3. PreviewFlagAccounted
  BY Counted DEF FlagOnce, PreviewFlagAccounted, Count, Frame
<1>4. FailureIsShown
  BY Counted DEF Ended, FailureIsShown, Error
<1>5. QED
  BY <1>1, <1>2, <1>3, <1>4 DEF CameraInv

-----------------------------------------------------------------------------
(* The steps.                                                              *)

LEMMA CameraStart == Init => CameraIInv
<1> SUFFICES ASSUME Init PROVE CameraIInv
  OBVIOUS
<1> USE DEF Init
<1>1. Types
  BY DEF Types, DialogStages, ThreadStages
<1>2. Shape /\ ~PreviewQueued /\ ~AnswerQueued
  BY DEF Shape, PreviewQueued, AnswerQueued
<1>3. FlagOnce /\ RequestOnce
  BY <1>2 DEF FlagOnce, RequestOnce
<1>4. HandEmpty /\ Silence /\ LastWord /\ Ended
  BY DEF HandEmpty, Silence, LastWord, Ended, Error
<1>5. DismissedOnlyWithPhoto /\ NeverAborts /\ CleanExit
  BY DEF DismissedOnlyWithPhoto, NeverAborts, CleanExit
<1>6. QED
  BY <1>1, <1>2, <1>3, <1>4, <1>5 DEF CameraIInv

(* A step that leaves the queue alone leaves its shape alone.              *)
LEMMA QueueKept ==
    ASSUME UNCHANGED queue
    PROVE  (PreviewQueued' <=> PreviewQueued) /\ (AnswerQueued' <=> AnswerQueued) /\ (Shape => Shape')
BY DEF PreviewQueued, AnswerQueued, Shape

LEMMA PressKeeps ==
    ASSUME CameraIInv, CaptureByButton
    PROVE  CameraIInv'
<1>1. Types'
  <2>1. /\ Types /\ captureRequested' = TRUE /\ pending' = TRUE /\ offered' = FALSE
        /\ dialog' = dialog /\ photo' = photo /\ errorShown' = errorShown /\ pc' = pc
        /\ inHand' = inHand /\ claimed' = claimed /\ sensor' = sensor /\ ledOpen' = ledOpen
        /\ led' = led /\ link' = link /\ uiReady' = uiReady /\ running' = running
        /\ interrupted' = interrupted
    BY DEF CameraIInv, CaptureByButton, threadVars
  <2>2. /\ dialog' \in DialogStages /\ captureRequested' \in BOOLEAN /\ photo' \in BOOLEAN
        /\ errorShown' \in BOOLEAN /\ offered' \in BOOLEAN
    BY <2>1, Zenon DEF Types
  <2>3. /\ pending' \in BOOLEAN /\ inHand' \in BOOLEAN /\ uiReady' \in BOOLEAN
        /\ claimed' \in BOOLEAN /\ running' \in BOOLEAN /\ interrupted' \in BOOLEAN
    BY <2>1, Zenon DEF Types
  <2>4. /\ pc' \in ThreadStages /\ sensor' \in BOOLEAN /\ ledOpen' \in BOOLEAN
        /\ led' \in BOOLEAN /\ link' \in BOOLEAN
    BY <2>1, Zenon DEF Types
  <2>5. QED
    BY <2>2, <2>3, <2>4, Zenon DEF Types
<1> USE DEF CameraIInv, CaptureByButton, threadVars
<1>2. Shape' /\ FlagOnce' /\ RequestOnce'
  BY QueueKept DEF FlagOnce, RequestOnce, Types, EventsDelivered
<1>3. HandEmpty' /\ Silence' /\ LastWord' /\ Ended'
  BY DEF HandEmpty, Silence, LastWord, Ended
<1>4. DismissedOnlyWithPhoto' /\ NeverAborts' /\ CleanExit'
  BY DEF DismissedOnlyWithPhoto, NeverAborts, CleanExit
<1>5. QED
  BY <1>1, <1>2, <1>3, <1>4

(* What the first signal was, and what is left behind it.                  *)
LEMMA FirstSignal ==
    ASSUME Shape, queue # << >>, queue' = Tail(queue)
    PROVE  \/ /\ queue = <<Error>> /\ Head(queue) = Error /\ queue' = << >>
              /\ ~PreviewQueued /\ ~AnswerQueued
              /\ ~PreviewQueued' /\ ~AnswerQueued'
           \/ /\ Head(queue) = Frame /\ queue # <<Error>>
              /\ PreviewQueued /\ ~PreviewQueued'
              /\ AnswerQueued' = AnswerQueued
              /\ Shape' /\ queue' # <<Error>>
           \/ /\ Head(queue) \in Answers /\ queue # <<Error>>
              /\ AnswerQueued /\ ~AnswerQueued'
              /\ PreviewQueued' = PreviewQueued
              /\ Shape' /\ queue' # <<Error>>
<1> USE DEF Answers, Frame, Error
<1>1. CASE queue = <<Error>>
  BY <1>1 DEF PreviewQueued, AnswerQueued
<1>2. CASE queue = <<Frame>>
  BY <1>2 DEF PreviewQueued, AnswerQueued, Shape
<1>3. ASSUME NEW a \in Answers, queue = <<a>>
      PROVE  /\ Head(queue) \in Answers /\ queue # <<Error>>
             /\ AnswerQueued /\ ~AnswerQueued'
             /\ PreviewQueued' = PreviewQueued
             /\ Shape' /\ queue' # <<Error>>
  BY <1>3 DEF PreviewQueued, AnswerQueued, Shape
<1>4. ASSUME NEW a \in Answers, queue = <<Frame, a>>
      PROVE  /\ Head(queue) = Frame /\ queue # <<Error>>
             /\ PreviewQueued /\ ~PreviewQueued'
             /\ AnswerQueued' = AnswerQueued
             /\ Shape' /\ queue' # <<Error>>
  BY <1>4 DEF PreviewQueued, AnswerQueued, Shape
<1>5. ASSUME NEW a \in Answers, queue = <<a, Frame>>
      PROVE  /\ Head(queue) \in Answers /\ queue # <<Error>>
             /\ AnswerQueued /\ ~AnswerQueued'
             /\ PreviewQueued' = PreviewQueued
             /\ Shape' /\ queue' # <<Error>>
  BY <1>5 DEF PreviewQueued, AnswerQueued, Shape
<1>6. QED
  BY <1>1, <1>2, <1>3, <1>4, <1>5 DEF Shape, PreviewQueued, AnswerQueued

LEMMA DeliverKeeps ==
    ASSUME CameraIInv, Deliver
    PROVE  CameraIInv'
<1> USE DEF CameraIInv, Deliver, Relabel, threadVars
<1>1. Types'
  BY DEF Types, DialogStages
<1>2. pc \notin StartingUp
  BY DEF Silence
<1>3. HandEmpty' /\ Silence'
  BY <1>2 DEF HandEmpty, Silence
<1>4. DismissedOnlyWithPhoto' /\ NeverAborts' /\ CleanExit'
  BY <1>2 DEF DismissedOnlyWithPhoto, NeverAborts, CleanExit, EventsDelivered
<1>5. CASE queue = <<Error>> /\ Head(queue) = Error
  <2>1. queue' = << >> /\ ~PreviewQueued /\ ~AnswerQueued /\ ~PreviewQueued' /\ ~AnswerQueued'
    BY <1>5, FirstSignal DEF Answers, Error, Frame
  <2>2. /\ uiReady' = uiReady /\ photo' = photo /\ dialog' = dialog
        /\ captureRequested' = captureRequested /\ errorShown'
    BY <1>5 DEF Error, Types
  <2>3. Shape' /\ FlagOnce' /\ RequestOnce'
    BY <2>1, <2>2 DEF Shape, FlagOnce, RequestOnce
  <2>4. LastWord' /\ Ended'
    BY <2>1, <2>2 DEF LastWord, Ended, Error
  <2>5. QED
    BY <1>1, <1>3, <1>4, <2>3, <2>4
<1>6. CASE Head(queue) = Frame /\ queue # <<Error>>
  <2>1. /\ PreviewQueued /\ ~PreviewQueued' /\ AnswerQueued' = AnswerQueued
        /\ Shape' /\ queue' # <<Error>>
    BY <1>6, FirstSignal DEF Answers, Error, Frame
  <2>2. /\ uiReady' /\ photo' = photo /\ dialog' = dialog
        /\ captureRequested' = captureRequested
    BY <1>6 DEF Frame, Types
  <2>6. ~(pc = "done" /\ ~running /\ dialog = "open")
    BY <2>1 DEF Ended, FlagOnce
  <2>3. FlagOnce' /\ RequestOnce'
    BY <2>1, <2>2 DEF FlagOnce, RequestOnce
  <2>4. LastWord' /\ Ended'
    BY <1>6, <2>1, <2>2, <2>6 DEF LastWord, Ended
  <2>5. QED
    BY <1>1, <1>3, <1>4, <2>1, <2>3, <2>4
<1>7. CASE Head(queue) \in Answers /\ queue # <<Error>>
  <2>1. /\ AnswerQueued /\ ~AnswerQueued' /\ PreviewQueued' = PreviewQueued
        /\ Shape' /\ queue' # <<Error>>
    BY <1>7, FirstSignal DEF Answers, Error, Frame
  <2>2. /\ uiReady' = uiReady /\ errorShown' = errorShown
        /\ captureRequested' => dialog' # "open"
        /\ dialog' = "open" => dialog = "open"
    BY <1>7 DEF Answers, Types
  <2>3. FlagOnce' /\ RequestOnce'
    BY <2>1, <2>2 DEF FlagOnce, RequestOnce
  <2>4. LastWord' /\ Ended'
    BY <1>7, <2>1, <2>2 DEF LastWord, Ended
  <2>5. QED
    BY <1>1, <1>3, <1>4, <2>1, <2>3, <2>4
<1>8. QED
  BY <1>5, <1>6, <1>7, FirstSignal

(* The way out of the dialog: the thread is not in its start-up any more.  *)
LEMMA LeavingKeeps ==
    ASSUME CameraIInv, StopThread \/ WaitReturns("stopping", "deleting") \/ DeleteThread
    PROVE  CameraIInv'
<1> USE DEF CameraIInv, StopThread, WaitReturns, DeleteThread, threadVars
<1>1. dialog # "open" /\ pc \notin StartingUp /\ photo
  BY DEF NeverAborts, DismissedOnlyWithPhoto
<1>2. /\ UNCHANGED <<captureRequested, photo, errorShown, offered, queue, pc, inHand, claimed,
                     sensor, ledOpen, led, link, pending, uiReady>>
      /\ dialog' \in {"stopping", "deleting", "destroyed"}
      /\ dialog' = "destroyed" => pc = "done"
      /\ running' \in BOOLEAN /\ interrupted' \in BOOLEAN
  BY <1>1 DEF Types
<1>3. Types'
  BY <1>2 DEF Types, DialogStages
<1>4. Shape' /\ FlagOnce' /\ RequestOnce'
  BY <1>1, <1>2, QueueKept DEF FlagOnce, RequestOnce
<1>5. HandEmpty' /\ Silence' /\ LastWord' /\ Ended'
  BY <1>1, <1>2 DEF HandEmpty, Silence, LastWord, Ended
<1>6. DismissedOnlyWithPhoto' /\ NeverAborts' /\ CleanExit'
  BY <1>1, <1>2 DEF DismissedOnlyWithPhoto, NeverAborts, CleanExit
<1>7. QED
  BY <1>3, <1>4, <1>5, <1>6

(* The thread starts, or fails to.                                         *)
LEMMA StartKeeps ==
    ASSUME CameraIInv, LinkDown \/ OpenSensor \/ InitCapture \/ StartCapture
    PROVE  CameraIInv'
<1> USE DEF CameraIInv, LinkDown, OpenSensor, InitCapture, StartCapture, ThreadStep, mainVars
<1>1. pc \in StartingUp /\ dialog = "open" /\ queue = << >> /\ ~led
  BY DEF Silence, StartingUp
<1>2. /\ UNCHANGED <<mainVars, queue, pending, inHand, uiReady, claimed, interrupted, led>>
      /\ pc' \in StartingUp \/ (pc' = "loop" /\ running')
      /\ running' \in BOOLEAN /\ sensor' \in BOOLEAN /\ ledOpen' \in BOOLEAN /\ link' \in BOOLEAN
  BY DEF StartingUp, Types
<1>3. Types'
  BY <1>2 DEF Types, StartingUp, ThreadStages
<1>4. Shape' /\ FlagOnce' /\ RequestOnce'
  BY <1>2, QueueKept DEF FlagOnce, RequestOnce
<1>5. HandEmpty' /\ Silence' /\ LastWord' /\ Ended'
  BY <1>1, <1>2 DEF HandEmpty, Silence, LastWord, Ended, StartingUp, Error
<1>6. DismissedOnlyWithPhoto' /\ NeverAborts' /\ CleanExit'
  BY <1>1, <1>2 DEF DismissedOnlyWithPhoto, NeverAborts, CleanExit, StartingUp
<1>7. QED
  BY <1>3, <1>4, <1>5, <1>6

LEMMA FailureKeeps ==
    ASSUME CameraIInv, StartFails
    PROVE  CameraIInv'
<1> USE DEF CameraIInv, StartFails, mainVars
<1>1. dialog = "open" /\ queue = << >> /\ ~led
  BY DEF Silence, StartingUp
<1>2. queue' = <<Error>>
  BY <1>1 DEF Error
<1>3. /\ ~PreviewQueued /\ ~AnswerQueued /\ ~PreviewQueued' /\ ~AnswerQueued' /\ Shape'
  BY <1>1, <1>2 DEF PreviewQueued, AnswerQueued, Shape, Frame, Error, Answers
<1>4. Types'
  BY DEF Types, ThreadStages
<1>5. FlagOnce' /\ RequestOnce'
  BY <1>3 DEF FlagOnce, RequestOnce
<1>6. HandEmpty' /\ Silence' /\ LastWord' /\ Ended'
  BY <1>1, <1>2 DEF HandEmpty, Silence, LastWord, Ended, StartingUp
<1>7. DismissedOnlyWithPhoto' /\ NeverAborts' /\ CleanExit'
  BY <1>1 DEF DismissedOnlyWithPhoto, NeverAborts, CleanExit, StartingUp
<1>8. QED
  BY <1>3, <1>4, <1>5, <1>6, <1>7

(* The streaming loop, but for the answer.                                 *)
LEMMA LoopKeeps ==
    ASSUME CameraIInv, Loop \/ NoFrame \/ Cleanup
    PROVE  CameraIInv'
<1> USE DEF CameraIInv, Loop, NoFrame, Cleanup, ThreadStep, mainVars
<1>1. /\ UNCHANGED <<mainVars, queue, pending, inHand, uiReady, claimed, running, interrupted>>
      /\ pc \in {"loop", "frame", "cleanup"}
      /\ pc' \in {"loop", "frame", "cleanup"} \/ (pc' = "done" /\ link' /\ ~led')
      /\ led' => ledOpen'
      /\ sensor' \in BOOLEAN /\ ledOpen' \in BOOLEAN /\ led' \in BOOLEAN /\ link' \in BOOLEAN
  <2>1. CASE Loop
    BY <2>1 DEF Types, Ended
  <2>2. CASE NoFrame
    BY <2>2 DEF Types, Ended
  <2>3. CASE Cleanup
    BY <2>3 DEF Types, Ended
  <2>4. QED
    BY <2>1, <2>2, <2>3
<1>2. Types'
  BY <1>1 DEF Types, ThreadStages
<1>3. Shape' /\ FlagOnce' /\ RequestOnce'
  BY <1>1, QueueKept DEF FlagOnce, RequestOnce
<1>4. HandEmpty' /\ Silence' /\ LastWord' /\ Ended'
  BY <1>1 DEF HandEmpty, Silence, LastWord, Ended, StartingUp
<1>5. DismissedOnlyWithPhoto' /\ NeverAborts' /\ CleanExit'
  BY <1>1 DEF DismissedOnlyWithPhoto, NeverAborts, CleanExit, StartingUp
<1>6. QED
  BY <1>2, <1>3, <1>4, <1>5

LEMMA TakeFrameKeeps ==
    ASSUME CameraIInv, TakeFrame
    PROVE  CameraIInv'
<1>1. ~inHand /\ ~claimed
  BY DEF CameraIInv, TakeFrame, ThreadStep, HandEmpty
<1>2. led' \in BOOLEAN /\ (led' => ledOpen')
  BY DEF CameraIInv, TakeFrame, Types, Ended
<1>3. Types'
  <2>1. /\ Types /\ pc' = "answer" /\ inHand' = pending /\ pending' = FALSE
        /\ claimed' = uiReady /\ uiReady' = FALSE
        /\ dialog' = dialog /\ captureRequested' = captureRequested /\ photo' = photo
        /\ errorShown' = errorShown /\ offered' = offered /\ running' = running
        /\ interrupted' = interrupted /\ sensor' = sensor /\ ledOpen' = ledOpen
        /\ link' = link
    BY DEF CameraIInv, TakeFrame, ThreadStep, mainVars
  <2>2. pc' \in ThreadStages
    BY <2>1 DEF ThreadStages
  <2>3. /\ dialog' \in DialogStages /\ captureRequested' \in BOOLEAN /\ photo' \in BOOLEAN
        /\ errorShown' \in BOOLEAN /\ offered' \in BOOLEAN
    BY <2>1, Zenon DEF Types
  <2>4. /\ pending' \in BOOLEAN /\ inHand' \in BOOLEAN /\ uiReady' \in BOOLEAN
        /\ claimed' \in BOOLEAN /\ running' \in BOOLEAN /\ interrupted' \in BOOLEAN
    BY <2>1, Zenon DEF Types
  <2>5. /\ pc' \in ThreadStages /\ sensor' \in BOOLEAN /\ ledOpen' \in BOOLEAN
        /\ led' \in BOOLEAN /\ link' \in BOOLEAN
    BY <1>2, <2>2, <2>1, Zenon DEF Types
  <2>6. QED
    BY <2>3, <2>4, <2>5, Zenon DEF Types
<1> USE DEF CameraIInv, TakeFrame, ThreadStep, mainVars
<1>4. Shape' /\ FlagOnce' /\ RequestOnce'
  BY <1>1, QueueKept DEF FlagOnce, RequestOnce, Types
<1>5. HandEmpty' /\ Silence' /\ LastWord' /\ Ended'
  BY <1>2 DEF HandEmpty, Silence, LastWord, Ended, StartingUp
<1>6. DismissedOnlyWithPhoto' /\ NeverAborts' /\ CleanExit'
  BY DEF DismissedOnlyWithPhoto, NeverAborts, CleanExit, StartingUp
<1>7. QED
  BY <1>3, <1>4, <1>5, <1>6

LEMMA Paired ==
    ASSUME NEW a, NEW b
    PROVE  <<a>> \o <<b>> = <<a, b>>
<1> DEFINE s == <<a>> \o <<b>>
<1>1. <<a>> \in Seq({a, b}) /\ <<b>> \in Seq({a, b}) /\ <<a, b>> \in Seq({a, b})
  OBVIOUS
<1>2. s \in Seq({a, b}) /\ Len(s) = 2
  BY <1>1
<1>3. s[1] = a /\ s[2] = b
  BY <1>1
<1> HIDE DEF s
<1>4. \A i \in 1..Len(s) : s[i] = <<a, b>>[i]
  BY <1>2, <1>3
<1>5. s = <<a, b>>
  BY <1>1, <1>2, <1>4, SeqEqual
<1>6. QED
  BY <1>5 DEF s

LEMMA Joined ==
    ASSUME NEW a
    PROVE  /\ (<< >> \o <<Frame>>) \o <<a>> = <<Frame, a>>
           /\ (<< >> \o << >>) \o <<a>> = <<a>>
           /\ (<<Frame>> \o << >>) \o <<a>> = <<Frame, a>>
           /\ << >> \o <<Frame>> = <<Frame>>
           /\ <<a>> \o <<Frame>> = <<a, Frame>>
<1>1. << >> \o <<Frame>> = <<Frame>> /\ <<Frame>> \o << >> = <<Frame>>
  OBVIOUS
<1>2. <<a>> \o <<Frame>> = <<a, Frame>> /\ <<Frame>> \o <<a>> = <<Frame, a>>
  BY Paired
<1>3. << >> \o << >> = << >> /\ << >> \o <<a>> = <<a>>
  OBVIOUS
<1>4. QED
  BY <1>1, <1>2, <1>3

(* The queue after a captureFrame(): what it had in hand is in it now.     *)
LEMMA AnswerQueues ==
    ASSUME CameraIInv, Answer
    PROVE  /\ Shape' /\ queue' # <<Error>>
           /\ (PreviewQueued' <=> PreviewQueued \/ claimed)
           /\ (AnswerQueued' <=> AnswerQueued \/ inHand)
<1> DEFINE Preview == IF claimed THEN <<Frame>> ELSE << >>
<1>1. /\ inHand => \E a \in Answers : queue' = (queue \o Preview) \o <<a>>
      /\ ~inHand => queue' = queue \o Preview
  BY DEF Answer, Answers, Frame
<1>2. queue # <<Error>>
  BY DEF CameraIInv, LastWord, Answer, ThreadStep
<1> USE DEF CameraIInv
<1>3. CASE claimed /\ inHand
  <2>1. queue = << >>
    BY <1>2, <1>3 DEF Shape, FlagOnce, RequestOnce
  <2>2. PICK a \in Answers : queue' = <<Frame, a>>
    BY <1>1, <1>3, <2>1, Joined
  <2>3. QED
    BY <1>3, <2>2 DEF Shape, PreviewQueued, AnswerQueued, Frame, Error
<1>4. CASE claimed /\ ~inHand
  <2>1. CASE queue = << >>
    <3>1. queue' = <<Frame>>
      BY <1>1, <1>4, <2>1, Joined
    <3>2. Shape' /\ PreviewQueued' /\ ~AnswerQueued /\ ~AnswerQueued' /\ queue' # <<Error>>
      BY <2>1, <3>1 DEF Shape, PreviewQueued, AnswerQueued, Answers, Frame, Error
    <3>3. QED
      BY <1>4, <3>2
  <2>2. ASSUME NEW a \in Answers, queue = <<a>>
        PROVE  /\ Shape' /\ queue' # <<Error>>
               /\ PreviewQueued' = TRUE /\ AnswerQueued' = TRUE /\ AnswerQueued = TRUE
    <3>1. queue' = <<a, Frame>>
      BY <1>1, <1>4, <2>2, Joined
    <3>2. QED
      BY <2>2, <3>1 DEF Shape, PreviewQueued, AnswerQueued, Frame, Error
  <2>3. queue = << >> \/ \E a \in Answers : queue = <<a>>
    BY <1>2, <1>4 DEF Shape, FlagOnce, AnswerQueued, PreviewQueued
  <2>4. QED
    BY <1>4, <2>1, <2>2, <2>3
<1>5. CASE ~claimed /\ inHand
  <2>1. queue = << >> \/ queue = <<Frame>>
    BY <1>2, <1>5 DEF Shape, RequestOnce, AnswerQueued, PreviewQueued
  <2>2. CASE queue = << >>
    <3>1. PICK a \in Answers : queue' = <<a>>
      BY <1>1, <1>5, <2>2, Joined
    <3>2. ~PreviewQueued /\ ~PreviewQueued' /\ AnswerQueued' /\ Shape' /\ queue' # <<Error>>
      BY <2>2, <3>1 DEF Shape, PreviewQueued, AnswerQueued, Answers, Frame, Error
    <3>3. QED
      BY <1>5, <3>2
  <2>3. CASE queue = <<Frame>>
    <3>1. PICK a \in Answers : queue' = <<Frame, a>>
      BY <1>1, <1>5, <2>3, Joined
    <3>2. QED
      BY <1>5, <2>3, <3>1 DEF Shape, PreviewQueued, AnswerQueued, Frame, Error
  <2>4. QED
    BY <2>1, <2>2, <2>3
<1>6. CASE ~claimed /\ ~inHand
  <2>1. queue' = queue \o << >>
    BY <1>1, <1>6
  <2>2. queue' = queue
    BY <2>1, Counted
  <2>3. QED
    BY <1>2, <1>6, <2>2, QueueKept
<1>7. QED
  BY <1>3, <1>4, <1>5, <1>6

LEMMA AnswerKeeps ==
    ASSUME CameraIInv, Answer
    PROVE  CameraIInv'
<1>1. /\ Shape' /\ queue' # <<Error>>
      /\ (PreviewQueued' <=> PreviewQueued \/ claimed)
      /\ (AnswerQueued' <=> AnswerQueued \/ inHand)
  BY AnswerQueues
<1>2. Types'
  <2>1. /\ Types /\ pc' = "loop" /\ claimed' = FALSE /\ inHand' = FALSE
        /\ dialog' = dialog /\ captureRequested' = captureRequested /\ photo' = photo
        /\ errorShown' = errorShown /\ offered' = offered /\ pending' = pending
        /\ uiReady' = uiReady /\ running' = running /\ interrupted' = interrupted
        /\ sensor' = sensor /\ ledOpen' = ledOpen /\ led' = led /\ link' = link
    BY DEF CameraIInv, Answer, ThreadStep, mainVars
  <2>2. pc' \in ThreadStages
    BY <2>1 DEF ThreadStages
  <2>3. /\ dialog' \in DialogStages /\ captureRequested' \in BOOLEAN /\ photo' \in BOOLEAN
        /\ errorShown' \in BOOLEAN /\ offered' \in BOOLEAN
    BY <2>1, Zenon DEF Types
  <2>4. /\ pending' \in BOOLEAN /\ inHand' \in BOOLEAN /\ uiReady' \in BOOLEAN
        /\ claimed' \in BOOLEAN /\ running' \in BOOLEAN /\ interrupted' \in BOOLEAN
    BY <2>1, Zenon DEF Types
  <2>5. /\ pc' \in ThreadStages /\ sensor' \in BOOLEAN /\ ledOpen' \in BOOLEAN
        /\ led' \in BOOLEAN /\ link' \in BOOLEAN
    BY <2>2, <2>1, Zenon DEF Types
  <2>6. QED
    BY <2>3, <2>4, <2>5, Zenon DEF Types
<1> USE DEF CameraIInv, Answer, ThreadStep, mainVars
<1>3. FlagOnce' /\ RequestOnce'
  BY <1>1 DEF FlagOnce, RequestOnce
<1>4. HandEmpty' /\ Silence' /\ LastWord' /\ Ended'
  BY <1>1 DEF HandEmpty, Silence, LastWord, Ended, StartingUp
<1>5. DismissedOnlyWithPhoto' /\ NeverAborts' /\ CleanExit'
  BY DEF DismissedOnlyWithPhoto, NeverAborts, CleanExit, StartingUp
<1>6. QED
  BY <1>1, <1>2, <1>3, <1>4, <1>5

LEMMA CameraStep == CameraIInv /\ [Next]_vars => CameraIInv'
<1> SUFFICES ASSUME CameraIInv, [Next]_vars PROVE CameraIInv'
  OBVIOUS
<1>1. CASE UNCHANGED vars
  <2>1. Shape' /\ (PreviewQueued' <=> PreviewQueued) /\ (AnswerQueued' <=> AnswerQueued)
    BY <1>1, QueueKept DEF vars, CameraIInv
  <2>2. QED
    BY <1>1, <2>1 DEF vars, mainVars, threadVars, CameraIInv, Types, FlagOnce, RequestOnce,
       HandEmpty, Silence, LastWord, Ended, DismissedOnlyWithPhoto, NeverAborts, CleanExit
<1>2. CASE CameraThread
  BY <1>2, StartKeeps, FailureKeeps, LoopKeeps, TakeFrameKeeps, AnswerKeeps DEF CameraThread
<1>3. QED
  BY <1>1, <1>2, PressKeeps, DeliverKeeps, LeavingKeeps DEF Next, Quiet

(* Dialog and camera thread keep CameraInv in every run.                   *)
THEOREM CameraCorrect == Spec => []CameraInv
BY CameraStart, CameraStep, CameraImplied, PTL DEF Spec

(* The destructor never finds the thread running: the program never        *)
(* aborts, though its waits are shorter than the thread's start-up.        *)
THEOREM NoAbort == Spec => []NeverAborts
<1>1. CameraIInv => NeverAborts
  BY DEF CameraIInv
<1>2. QED
  BY <1>1, CameraStart, CameraStep, PTL DEF Spec
=============================================================================
