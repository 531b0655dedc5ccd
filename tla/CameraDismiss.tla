----------------------------- MODULE CameraDismiss -----------------------------
(***************************************************************************)
(* Dismissing an alarm by taking a photo: the dismiss dialog in Camera     *)
(* mode (app/dismissdialog.cpp, main thread) and AlarmCameraThread         *)
(* (app/alarmcamerathread.cpp, a thread of its own).                       *)
(*                                                                         *)
(* The dialog hands the thread at most one capture request through a       *)
(* mutex-protected path, the thread answers with queued signals, and an    *)
(* atomic flag lets at most one preview frame be under way.  Nothing but   *)
(* a saved photo closes the dialog: closeEvent() and reject() are blocked. *)
(*                                                                         *)
(* The camera, the light sensor and the "ip link" command are external:    *)
(* every operation on the devices may fail, the link command works.        *)
(***************************************************************************)
EXTENDS Naturals, Sequences, FiniteSets

VARIABLES
    dialog,           \* where the main thread is: see DialogStages
    captureRequested, \* m_captureRequested
    photo,            \* m_capturedPhotoPath is set
    errorShown,       \* the preview label shows "Camera unavailable"
    offered,          \* the status label shows an error and its offer, see DismissalOffered
    queue,            \* the thread's signals queued for the main thread
    pc,               \* where the camera thread is: see ThreadStages
    pending,          \* m_pendingCapturePath is not empty
    inHand,           \* captureFrame() took a request: captureNeeded
    uiReady,          \* m_uiReady
    claimed,          \* captureFrame() won m_uiReady: its local uiReady
    running,          \* m_running
    interrupted,      \* requestInterruption() was called
    sensor,           \* m_i2cFd is open
    ledOpen,          \* m_ledFd is open
    led,              \* the LED is lit
    link              \* the Ethernet link is up

mainVars == <<dialog, captureRequested, photo, errorShown, offered>>
threadVars == <<pc, inHand, claimed, sensor, ledOpen, led, link>>
vars == <<mainVars, threadVars, queue, pending, uiReady, running, interrupted>>

(* exec() runs; accept() was called and exec() is about to return; the     *)
(* destructor waits in its own stop(), then in the thread object's; the    *)
(* object is gone; ~QThread found the thread still running and aborts.     *)
DialogStages == {"open", "accepted", "stopping", "deleting", "destroyed", "aborted"}

(* The calls run() makes, in order; "frame" and "answer" are the two       *)
(* halves of captureFrame().                                               *)
ThreadStages == {"linkDown", "openSensor", "initCapture", "startCapture",
                 "loop", "frame", "answer", "cleanup", "done"}

(* Stages before the streaming loop; opening the sensor alone takes 8 s.   *)
StartingUp == {"linkDown", "openSensor", "initCapture", "startCapture"}

Signals == {"frameReady", "saved", "saveFailed", "tooDark", "cameraError"}
Answers == {"saved", "saveFailed", "tooDark"}

Init ==
    /\ dialog = "open"
    /\ captureRequested = FALSE
    /\ photo = FALSE
    /\ errorShown = FALSE /\ offered = FALSE
    /\ queue = << >>
    /\ pc = "linkDown"
    /\ pending = FALSE
    /\ inHand = FALSE
    /\ uiReady = TRUE
    /\ claimed = FALSE
    /\ running = FALSE
    /\ interrupted = FALSE
    /\ sensor = FALSE
    /\ ledOpen = FALSE
    /\ led = FALSE
    /\ link = TRUE

-----------------------------------------------------------------------------
(* The main thread.  accept() ends exec(), but events posted before are    *)
(* still delivered in the round of sendPostedEvents() that is under way.   *)
EventsDelivered == dialog \in {"open", "accepted"}

\* Mutant of CaptureByButton: an impatient second press dismisses.
SecondPressDismisses ==
    /\ EventsDelivered
    /\ captureRequested' = TRUE
    /\ IF captureRequested
       THEN dialog' = "accepted" /\ UNCHANGED pending
       ELSE pending' = TRUE /\ UNCHANGED dialog
    /\ offered' = FALSE
    /\ UNCHANGED <<photo, errorShown, queue, threadVars, uiReady, running, interrupted>>

(* captureByButton(): presses are ignored while a capture is under way.    *)
(* "Capturing..." takes the place of whatever the status label showed.     *)
(* buildCameraUi() always creates the thread object, so the branch for a   *)
(* missing thread is never taken.                                          *)
CaptureByButton ==
    /\ EventsDelivered
    /\ ~captureRequested
    /\ captureRequested' = TRUE
    /\ pending' = TRUE
    /\ offered' = FALSE
    /\ UNCHANGED <<dialog, photo, errorShown, queue, threadVars, uiReady, running, interrupted>>

(* What a signal does to the labels: a frame replaces the text of the      *)
(* preview label, an answer that of the status label.  (statusUpdate, too, *)
(* changes the latter, but a thread emits it before the loop or not at     *)
(* all, so never with an error.)                                           *)
Relabel(signal) ==
    /\ errorShown' = (signal = "cameraError" \/ (errorShown /\ signal # "frameReady"))
    /\ offered' = (signal = "cameraError" \/ (offered /\ signal \notin Answers))

\* Mutant of Deliver: the low-light slot leaves m_captureRequested set.
DeliverKeepsRequest ==
    /\ EventsDelivered /\ queue # << >>
    /\ queue' = Tail(queue)
    /\ uiReady' = (uiReady \/ Head(queue) = "frameReady")
    /\ photo' = (photo \/ Head(queue) = "saved")
    /\ dialog' = IF Head(queue) = "saved" THEN "accepted" ELSE dialog
    /\ captureRequested' = (captureRequested /\ Head(queue) # "saveFailed")
    /\ Relabel(Head(queue))
    /\ UNCHANGED <<threadVars, pending, running, interrupted>>

\* Mutant of Deliver: the preview slot does not hand the flag back.
DeliverKeepsFlag ==
    /\ EventsDelivered /\ queue # << >>
    /\ queue' = Tail(queue)
    /\ photo' = (photo \/ Head(queue) = "saved")
    /\ dialog' = IF Head(queue) = "saved" THEN "accepted" ELSE dialog
    /\ captureRequested' = (captureRequested /\ Head(queue) \notin {"saveFailed", "tooDark"})
    /\ Relabel(Head(queue))
    /\ UNCHANGED <<threadVars, pending, uiReady, running, interrupted>>

(* The next queued signal reaches the dialog: the lambdas of               *)
(* buildCameraUi().                                                        *)
Deliver ==
    /\ EventsDelivered /\ queue # << >>
    /\ queue' = Tail(queue)
    /\ uiReady' = (uiReady \/ Head(queue) = "frameReady")
    /\ photo' = (photo \/ Head(queue) = "saved")
    /\ dialog' = IF Head(queue) = "saved" THEN "accepted" ELSE dialog
    /\ captureRequested' = (captureRequested /\ Head(queue) \notin {"saveFailed", "tooDark"})
    /\ Relabel(Head(queue))
    /\ UNCHANGED <<threadVars, pending, running, interrupted>>

\* Mutant of StopThread: stop() only waits.
StopOnlyWaits ==
    /\ dialog = "accepted"
    /\ dialog' = "stopping"
    /\ UNCHANGED <<captureRequested, photo, errorShown, offered, queue, threadVars, pending,
                   uiReady, running, interrupted>>

(* exec() returns, updateCurrentTime() runs to its end and the destructor  *)
(* calls stop(): the loop is told to end, then waited for.                 *)
StopThread ==
    /\ dialog = "accepted"
    /\ dialog' = "stopping"
    /\ running' = FALSE
    /\ interrupted' = TRUE
    /\ UNCHANGED <<captureRequested, photo, errorShown, offered, queue, threadVars, pending, uiReady>>

(* wait(3000) returns: the thread has finished, or it is still starting    *)
(* up, which alone can outlast both waits.  From the loop on it needs one  *)
(* select() of at most 2 s and its clean-up.                               *)
WaitReturns(from, to) ==
    /\ dialog = from
    /\ pc = "done" \/ pc \in StartingUp
    /\ dialog' = to
    /\ UNCHANGED <<captureRequested, photo, errorShown, offered, queue, threadVars, pending,
                   uiReady, running, interrupted>>

(* The second wait, in ~AlarmCameraThread(), and then ~QThread().          *)
DeleteThread ==
    IF pc = "done" THEN WaitReturns("deleting", "destroyed")
                   ELSE WaitReturns("deleting", "aborted")

-----------------------------------------------------------------------------
(* The camera thread.                                                      *)
ThreadStep(from, to) == pc = from /\ pc' = to

LinkDown ==
    /\ ThreadStep("linkDown", "openSensor")
    /\ link' = FALSE
    /\ UNCHANGED <<mainVars, queue, pending, inHand, uiReady, claimed, running,
                   interrupted, sensor, ledOpen, led>>

(* initBH1750(): the LED device is opened only if the sensor was; run()    *)
(* goes on without either.                                                 *)
OpenSensor ==
    /\ ThreadStep("openSensor", "initCapture")
    /\ sensor' \in BOOLEAN
    /\ ledOpen' \in IF sensor' THEN BOOLEAN ELSE {FALSE}
    /\ UNCHANGED <<mainVars, queue, pending, inHand, uiReady, claimed, running,
                   interrupted, led, link>>

(* initCapture() or startCapture() fails: run() reports it, restores the   *)
(* link and returns; the sensor and the LED device stay open.              *)
StartFails ==
    /\ pc \in {"initCapture", "startCapture"}
    /\ pc' = "done"
    /\ queue' = Append(queue, "cameraError")
    /\ link' = TRUE
    /\ UNCHANGED <<mainVars, pending, inHand, uiReady, claimed, running,
                   interrupted, sensor, ledOpen, led>>

InitCapture ==
    /\ ThreadStep("initCapture", "startCapture")
    /\ UNCHANGED <<mainVars, queue, pending, inHand, uiReady, claimed, running,
                   interrupted, sensor, ledOpen, led, link>>

(* startCapture() succeeds; m_running is set whatever stop() did before.   *)
StartCapture ==
    /\ ThreadStep("startCapture", "loop")
    /\ running' = TRUE
    /\ UNCHANGED <<mainVars, queue, pending, inHand, uiReady, claimed,
                   interrupted, sensor, ledOpen, led, link>>

(* The condition of the streaming loop.                                    *)
Loop ==
    /\ pc = "loop"
    /\ pc' = IF running /\ ~interrupted THEN "frame" ELSE "cleanup"
    /\ UNCHANGED <<mainVars, queue, pending, inHand, uiReady, claimed, running,
                   interrupted, sensor, ledOpen, led, link>>

(* select() or DQBUF gave no frame: a timeout, EINTR or EAGAIN is retried, *)
(* anything else ends the loop without a word to the dialog.               *)
NoFrame ==
    /\ pc = "frame"
    /\ pc' \in {"loop", "cleanup"}
    /\ UNCHANGED <<mainVars, queue, pending, inHand, uiReady, claimed, running,
                   interrupted, sensor, ledOpen, led, link>>

(* A frame is dequeued: the request is taken under the lock, the LED may   *)
(* follow the light, and the preview flag is claimed if it is free.        *)
TakeFrame ==
    /\ ThreadStep("frame", "answer")
    /\ inHand' = pending
    /\ pending' = FALSE
    /\ led' \in IF sensor /\ ledOpen THEN BOOLEAN ELSE {led}
    /\ claimed' = uiReady
    /\ uiReady' = FALSE
    /\ UNCHANGED <<mainVars, queue, running, interrupted, sensor, ledOpen, link>>

(* The frame is emitted if the flag was won; a request in hand is          *)
(* answered, with tooDark only if the sensor can be read.                  *)
Answer ==
    /\ ThreadStep("answer", "loop")
    /\ LET Preview == IF claimed THEN <<"frameReady">> ELSE << >>
       IN  IF inHand
           THEN \E a \in (IF sensor THEN Answers ELSE Answers \ {"tooDark"}) :
                   queue' = queue \o Preview \o <<a>>
           ELSE queue' = queue \o Preview
    /\ claimed' = FALSE
    /\ inHand' = FALSE
    /\ UNCHANGED <<mainVars, pending, uiReady, running, interrupted, sensor,
                   ledOpen, led, link>>

(* stopCapture(), closeCapture(), closeBH1750() and the link.              *)
Cleanup ==
    /\ ThreadStep("cleanup", "done")
    /\ led' = (led /\ ~ledOpen)
    /\ sensor' = FALSE /\ ledOpen' = FALSE
    /\ link' = TRUE
    /\ UNCHANGED <<mainVars, queue, pending, inHand, uiReady, claimed, running,
                   interrupted>>

CameraThread ==
    \/ LinkDown \/ OpenSensor \/ InitCapture \/ StartCapture \/ StartFails
    \/ Loop \/ NoFrame \/ TakeFrame \/ Answer \/ Cleanup

(* The dialog is gone, or waits for a button press that no one serves.     *)
Quiet == pc = "done" /\ UNCHANGED vars

Next ==
    \/ CaptureByButton
    \/ Deliver
    \/ StopThread
    \/ WaitReturns("stopping", "deleting")
    \/ DeleteThread
    \/ CameraThread
    \/ Quiet

(* Both threads are scheduled; a camera that streams delivers a frame      *)
(* again and again.  Nobody has to press the button.                       *)
Fairness ==
    /\ WF_vars(Deliver) /\ WF_vars(StopThread)
    /\ WF_vars(WaitReturns("stopping", "deleting")) /\ WF_vars(DeleteThread)
    /\ WF_vars(CameraThread)
    /\ SF_vars(TakeFrame)

Spec == Init /\ [][Next]_vars /\ Fairness

-----------------------------------------------------------------------------
(* Type invariant; the queue never holds more than a preview, an answer    *)
(* and an error.                                                           *)
TypeOK ==
    /\ dialog \in DialogStages /\ pc \in ThreadStages
    /\ queue \in Seq(Signals) /\ Len(queue) <= 3
    /\ {captureRequested, photo, errorShown, offered, pending, inHand, uiReady, claimed,
        running, interrupted, sensor, ledOpen, led, link} \subseteq BOOLEAN

Count(b) == IF b THEN 1 ELSE 0
Queued(S) == Cardinality({ i \in DOMAIN queue : queue[i] \in S })

(* The capture request is at one place at a time: in the shared path, in   *)
(* the thread's hand or in a queued answer.  While the dialog is open a    *)
(* press is neither lost nor served twice, across both threads.            *)
RequestAccounted ==
    LET InFlight == Count(pending) + Count(inHand) + Queued(Answers)
    IN  /\ InFlight <= 1
        /\ InFlight = 1 => captureRequested
        /\ (captureRequested /\ dialog = "open") => InFlight = 1

(* The preview flag is at one place at a time, so at most one frame is on  *)
(* its way to the dialog and the preview never stalls for want of it.      *)
PreviewFlagAccounted ==
    Count(uiReady) + Count(claimed) + Queued({"frameReady"}) = 1

(* Nothing but a saved photo gets the user out of Camera mode.             *)
DismissedOnlyWithPhoto == dialog # "open" => photo

(* The destructor never finds the thread in its long start-up, so it never *)
(* destroys a running QThread, which aborts the program.                   *)
NeverAborts == dialog # "aborted" /\ (dialog # "open" => pc \notin StartingUp)

(* A camera thread that has ended left the link up and the LED dark, on    *)
(* every path through run(), and the dialog is gone only after it.         *)
CleanExit ==
    /\ pc = "done" => link /\ ~led
    /\ dialog = "destroyed" => pc = "done"

(* A thread that ended without ever streaming has told so in the place of  *)
(* the preview, where it stays, or the message is on its way: the user is  *)
(* not left before a preview that never comes.                             *)
FailureIsShown ==
    (pc = "done" /\ ~running /\ dialog = "open")
        => errorShown \/ Queued({"cameraError"}) = 1

(* What holds of dialog and camera thread at every moment: the request     *)
(* and the preview flag are where exactly one of the two can find them,    *)
(* only a photo dismisses, a failure is told, and a thread that is over    *)
(* has restored link and LED.                                              *)
CameraInv ==
    /\ TypeOK
    /\ RequestAccounted
    /\ PreviewFlagAccounted
    /\ DismissedOnlyWithPhoto
    /\ CleanExit
    /\ FailureIsShown

(* A request made while the camera streams is answered, unless the stream  *)
(* breaks: the photo is taken or the button works again.                   *)
RequestsAnswered ==
    (captureRequested /\ pc \in {"loop", "frame", "answer"})
        ~> (~captureRequested \/ photo \/ pc = "done")

(* Once a photo is saved the dialog goes away and the thread with it.      *)
PhotoEndsDialog == photo ~> dialog = "destroyed"

-----------------------------------------------------------------------------
(* Said of the program by its messages, and not true of it.                *)

(* After a camera error the button closes the dialog: "(button will        *)
(* dismiss without photo)" (dismissdialog.cpp:646).                        *)
DismissalOffered ==
    [][ (offered /\ dialog = "open" /\ ~captureRequested /\ captureRequested')
          => dialog' # "open" ]_vars
=============================================================================
