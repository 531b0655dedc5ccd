-------------------------- MODULE UltrasonicDismiss --------------------------
(***************************************************************************)
(* The dismiss dialog's Ultrasonic game: the driver of the sensor array    *)
(* (device_driver/ultrasonic/ultrasonic.c), the worker thread that polls   *)
(* it (app/ultrasonicwatcher.cpp) and the state machine that recognises a  *)
(* hand held before one sensor after the other (app/dismissdialog.cpp).    *)
(*                                                                         *)
(* A distance is abstracted to what the code tells apart: "near" (1 to 14  *)
(* cm) and "far" (20 cm and more, or no echo, which the dialog reads as    *)
(* -1).  What is neither (0, or in between) differs from "far" only in the *)
(* phase that waits for the hand to leave, and NeverAsksForRelease shows   *)
(* that there is no such phase.  Milliseconds are counted by the worker's polls: each one   *)
(* starts with 300 ms of select().                                         *)
(***************************************************************************)
EXTENDS Naturals, Sequences

CONSTANTS
    Count,          \* HCSR04_MAX_SENSORS: 4 in the driver and the dialog
    Others,         \* other processes reading the device (apptest.c)
    MaxPosted       \* bound: readings queued for the main thread

ASSUME UltrasonicConstants ==
    /\ Count \in Nat \ {0} /\ MaxPosted \in Nat \ {0}
    /\ "worker" \notin Others /\ "free" \notin Others

Sensors == 0..(Count - 1)
Readers == Others \union {"worker"}
Distances == {"near", "far"}
Readings == [ Sensors -> Distances ]
NoReading == [ s \in Sensors |-> "far" ]

VARIABLES
    loaded,     \* the module is loaded, so open() succeeds
    hand,       \* where the user's hand is, see HandPlaces
    last,       \* per sensor: last_error and last_distance_cm
    by,         \* history: who measured last[s], until an answer is written
    lock,       \* holder of data->lock, or "free"
    measured,   \* sensors the holder has measured, hcsr04_measure_all()'s i
    at,         \* where each reader is, see ReaderStages
    posted,     \* readings queued to the main thread
    stopPipe,   \* a byte is in the stop pipe
    dialog,     \* see DialogStages
    seq,        \* m_usSeq
    step,       \* m_usStep
    needRelease,\* m_usNeedRelease
    holding,    \* m_usHolding
    polls       \* polls since m_usHoldTimer was restarted, up to LongHold

driverVars == <<loaded, last, by, lock, measured>>
gameVars == <<seq, step, needRelease, holding>>
vars == <<hand, driverVars, at, posted, stopPipe, dialog, gameVars, polls>>

(* In select(), or between two reads of another process; in mutex_lock();  *)
(* in hcsr04_measure_all(); formatting the answer; the thread has ended;   *)
(* there is no thread.                                                     *)
ReaderStages == {"idle", "locking", "measuring", "formatting", "ended", "none"}

(* In exec(); accepted; in ~UltrasonicWatcher()'s wait; past it.           *)
DialogStages == {"open", "accepted", "stopping", "deleted"}

(* Three polls begun after the restart hold at least two whole selects of  *)
(* 300 ms, more than HOLD_MS.                                              *)
LongHold == 3

(* Held still before a sensor, where every echo comes back; away from all; *)
(* moving, or at the edge of a beam, where any sensor may see it or not.   *)
Away == Count
Unsteady == Count + 1
HandPlaces == Sensors \union {Away, Unsteady}

Permutations(S) == { f \in [ S -> S ] : \A x, y \in S : f[x] = f[y] => x = y }

(* The shuffle of buildUltrasonicUi().                                     *)
SensorSequences == Permutations(Sensors)

(* buildUltrasonicUi() and the constructor of UltrasonicWatcher; without a *)
(* pipe there is no worker.                                                *)
Init ==
    /\ loaded \in BOOLEAN
    /\ hand = Away
    /\ last = NoReading
    /\ by = [ s \in Sensors |-> "probe" ]
    /\ lock = "free"
    /\ measured = 0
    /\ \E w \in {"idle", "none"} :
          at = [ r \in Readers |-> IF r = "worker" THEN w ELSE "idle" ]
    /\ posted = <<>>
    /\ stopPipe = FALSE
    /\ dialog = "open"
    /\ seq \in SensorSequences
    /\ step = 0
    /\ needRelease = FALSE
    /\ holding = FALSE
    /\ polls = 0

Goes(r, from, to) == at[r] = from /\ at' = [ at EXCEPT ![r] = to ]

-----------------------------------------------------------------------------
(* hcsr04_array_read() of the driver.                                      *)

AcquireLock(r) ==
    /\ Goes(r, "locking", "measuring")
    /\ lock = "free"
    /\ lock' = r
    /\ measured' = 0
    /\ UNCHANGED <<hand, loaded, last, by, posted, stopPipe, dialog, gameVars, polls>>

(* What sensor s may find now.                                             *)
Echoes(s) ==
    CASE hand = s        -> {"near"}
      [] hand = Unsteady -> Distances
      [] OTHER           -> {"far"}

\* Mutant of MeasureOne: the lock is given up before the answer is written.
MeasureUnlocked(r) ==
    LET s == measured IN
    /\ at[r] = "measuring"
    /\ \E d \in Echoes(s) : last' = [ last EXCEPT ![s] = d ]
    /\ by' = [ by EXCEPT ![s] = r ]
    /\ measured' = measured + 1
    /\ at' = [ at EXCEPT ![r] = IF s + 1 = Count THEN "formatting" ELSE @ ]
    /\ lock' = IF s + 1 = Count THEN "free" ELSE lock
    /\ UNCHANGED <<hand, loaded, posted, stopPipe, dialog, gameVars, polls>>

(* hcsr04_measure_one() for the next sensor; the delay between two sensors *)
(* lets the hand move.                                                     *)
MeasureOne(r) ==
    LET s == measured IN
    /\ at[r] = "measuring"
    /\ \E d \in Echoes(s) : last' = [ last EXCEPT ![s] = d ]
    /\ by' = [ by EXCEPT ![s] = r ]
    /\ measured' = measured + 1
    /\ at' = [ at EXCEPT ![r] = IF s + 1 = Count THEN "formatting" ELSE @ ]
    /\ UNCHANGED <<hand, loaded, lock, posted, stopPipe, dialog, gameVars, polls>>

(* What is left in the array is measured again before it is used; it is    *)
(* forgotten here to keep the states few.                                  *)
Forget ==
    /\ last' = NoReading
    /\ by' = [ s \in Sensors |-> "probe" ]
    /\ measured' = 0

(* Another process's answer is written and the lock released.              *)
AnswerOther(r) ==
    /\ r # "worker"
    /\ Goes(r, "formatting", "idle")
    /\ lock' = "free"
    /\ Forget
    /\ UNCHANGED <<hand, loaded, posted, stopPipe, dialog, gameVars, polls>>

ReadOther(r) ==
    /\ r # "worker" /\ loaded
    /\ Goes(r, "idle", "locking")
    /\ UNCHANGED <<hand, driverVars, posted, stopPipe, dialog, gameVars, polls>>

-----------------------------------------------------------------------------
(* UltrasonicWorker::run()                                                 *)

(* The signal is queued to the main thread.  Once the dialog has left its  *)
(* event loop for good nothing will deliver it.                            *)
Post(reading) ==
    IF dialog \in {"stopping", "deleted"} THEN UNCHANGED posted
    ELSE Len(posted) < MaxPosted /\ posted' = Append(posted, reading)

(* select() says that the stop pipe is readable, or lets 300 ms pass.      *)
Poll ==
    /\ at["worker"] = "idle"
    /\ IF stopPipe
       THEN at' = [ at EXCEPT !["worker"] = "ended" ] /\ UNCHANGED polls
       ELSE /\ at' = [ at EXCEPT !["worker"] = "locking" ]
            /\ polls' = IF polls < LongHold THEN polls + 1 ELSE polls
    /\ UNCHANGED <<hand, driverVars, posted, stopPipe, dialog, gameVars>>

(* open() fails: four times -1 is emitted.                                 *)
OpenFails ==
    /\ ~loaded
    /\ Goes("worker", "locking", "idle")
    /\ Post(NoReading)
    /\ UNCHANGED <<hand, driverVars, stopPipe, dialog, gameVars, polls>>

(* The answer is written, the lock released, the lines parsed back and     *)
(* distancesRead() emitted.                                                *)
AnswerWorker ==
    /\ Goes("worker", "formatting", "idle")
    /\ lock' = "free"
    /\ Post(last)
    /\ Forget
    /\ UNCHANGED <<hand, loaded, stopPipe, dialog, gameVars, polls>>

-----------------------------------------------------------------------------
(* onUltrasonicDistances() of the dialog, for the reading d.               *)

Target == seq[step]
IsNear(d) == d[Target] = "near"
IsFar(d) == d[Target] = "far"

(* After a step on the same sensor, the hand must leave first.             *)
WaitForRelease(d) ==
    /\ needRelease' = ~IsFar(d)
    /\ holding' = (holding /\ ~IsFar(d))
    /\ UNCHANGED <<seq, step, dialog, polls>>

StartHold(d) ==
    /\ IsNear(d) /\ ~holding
    /\ holding' = TRUE
    /\ polls' = 0
    /\ UNCHANGED <<seq, step, needRelease, dialog>>

\* Mutant of StillHolding: every reading restarts the timer.
HoldRestarts(d) ==
    /\ IsNear(d) /\ holding
    /\ polls < LongHold
    /\ polls' = 0
    /\ UNCHANGED <<gameVars, dialog>>

\* m_usHoldTimer.elapsed() < HOLD_MS
StillHolding(d) ==
    /\ IsNear(d) /\ holding
    /\ polls < LongHold
    /\ UNCHANGED <<gameVars, dialog, polls>>

\* Mutant of StepRecognised: the hold goes on into the next step.
StepKeepsHold(d) ==
    /\ IsNear(d) /\ holding
    /\ step' = step + 1
    /\ UNCHANGED <<seq, polls, holding>>
    /\ IF step + 1 = Count
       THEN dialog' = "accepted" /\ UNCHANGED needRelease
       ELSE /\ needRelease' = (seq[step + 1] = seq[step])
            /\ UNCHANGED dialog

\* Mutant of StepRecognised: the dialog closes one step early.
StepClosesEarly(d) ==
    /\ IsNear(d) /\ holding
    /\ step' = step + 1
    /\ UNCHANGED <<seq, polls>>
    /\ IF step + 2 >= Count
       THEN dialog' = "accepted" /\ UNCHANGED <<needRelease, holding>>
       ELSE /\ needRelease' = (seq[step + 1] = seq[step])
            /\ holding' = FALSE
            /\ UNCHANGED dialog

\* m_usHoldTimer.elapsed() >= HOLD_MS; accept() after the last step.
StepRecognised(d) ==
    /\ IsNear(d) /\ holding
    /\ step' = step + 1
    /\ UNCHANGED <<seq, polls>>
    /\ IF step + 1 = Count
       THEN dialog' = "accepted" /\ UNCHANGED <<needRelease, holding>>
       ELSE /\ needRelease' = (seq[step + 1] = seq[step])
            /\ holding' = FALSE
            /\ UNCHANGED dialog

HandMovedAway(d) ==
    /\ ~IsNear(d)
    /\ holding' = FALSE
    /\ UNCHANGED <<seq, step, needRelease, dialog, polls>>

OnUltrasonicDistances ==
    /\ dialog \in {"open", "accepted"}
    /\ posted # <<>>
    /\ posted' = Tail(posted)
    /\ LET d == Head(posted) IN
       CASE step >= Count -> UNCHANGED <<gameVars, dialog, polls>>
         [] step < Count /\ needRelease -> WaitForRelease(d)
         [] OTHER -> \/ StartHold(d) \/ StillHolding(d)
                     \/ StepRecognised(d) \/ HandMovedAway(d)
    /\ UNCHANGED <<hand, driverVars, at, stopPipe>>

-----------------------------------------------------------------------------
(* The end of the dialog: exec() has returned, ~DismissDialog() deletes    *)
(* the watcher.                                                            *)

\* Mutant of WriteStopPipe: the thread is only told to quit().
QuitOnly ==
    /\ dialog = "accepted"
    /\ dialog' = "stopping"
    /\ posted' = <<>>
    /\ UNCHANGED <<hand, driverVars, at, stopPipe, gameVars, polls>>

WriteStopPipe ==
    /\ dialog = "accepted"
    /\ dialog' = "stopping"
    /\ stopPipe' = TRUE
    /\ posted' = <<>>
    /\ UNCHANGED <<hand, driverVars, at, gameVars, polls>>

(* wait(3000) succeeds: from the pipe being written to the worker's next   *)
(* look at it is one read, at most half a second each for it and for the   *)
(* one that holds the lock.                                                *)
DeleteWorker ==
    /\ dialog = "stopping"
    /\ at["worker"] \in {"ended", "none"}
    /\ dialog' = "deleted"
    /\ UNCHANGED <<hand, driverVars, at, posted, stopPipe, gameVars, polls>>

MoveHand ==
    /\ hand' \in HandPlaces \ {hand}
    /\ UNCHANGED <<driverVars, at, posted, stopPipe, dialog, gameVars, polls>>

Next ==
    \/ \E r \in Readers : AcquireLock(r) \/ MeasureOne(r)
    \/ \E r \in Others : ReadOther(r) \/ AnswerOther(r)
    \/ Poll \/ OpenFails \/ AnswerWorker
    \/ OnUltrasonicDistances
    \/ WriteStopPipe \/ DeleteWorker
    \/ MoveHand

(* Threads are scheduled, the mutex lets every waiter in at some time, the *)
(* main thread delivers its events.  Nothing is assumed of the hand.       *)
Fairness ==
    /\ \A r \in Readers : SF_vars(AcquireLock(r)) /\ WF_vars(MeasureOne(r))
    /\ \A r \in Others : WF_vars(AnswerOther(r))
    /\ WF_vars(Poll) /\ WF_vars(OpenFails) /\ WF_vars(AnswerWorker)
    /\ WF_vars(OnUltrasonicDistances)
    /\ WF_vars(WriteStopPipe) /\ WF_vars(DeleteWorker)

Spec == Init /\ [][Next]_vars /\ Fairness

-----------------------------------------------------------------------------
(* Type invariant.                                                         *)
TypeOK ==
    /\ loaded \in BOOLEAN
    /\ hand \in HandPlaces
    /\ last \in Readings
    /\ by \in [ Sensors -> Readers \union {"probe"} ]
    /\ lock \in Readers \union {"free"}
    /\ measured \in 0..Count
    /\ at \in [ Readers -> ReaderStages ]
    /\ posted \in Seq(Readings) /\ Len(posted) <= MaxPosted
    /\ stopPipe \in BOOLEAN
    /\ dialog \in DialogStages
    /\ seq \in [ Sensors -> Sensors ]
    /\ step \in 0..Count
    /\ needRelease \in BOOLEAN
    /\ holding \in BOOLEAN
    /\ polls \in 0..LongHold

(* A reader writes its answer from measurements that are all its own: the  *)
(* results are kept in the driver's shared array, and no other process may *)
(* measure again between the last measurement and the formatting.          *)
AnswerIsOwn ==
    \A r \in Readers : at[r] = "formatting" => \A s \in Sensors : by[s] = r

(* The alarm is silenced only after a hand was seen at every sensor: each  *)
(* step takes two readings in a row that say "near" for its own sensor,    *)
(* the first of which came after the step before it was over.              *)
StepsTakeHolding ==
    [][ step' # step => /\ step' = step + 1
                        /\ holding /\ IsNear(Head(posted))
                        /\ ~(holding' /\ dialog' = "open") ]_vars

(* The phase that asks the user to take the hand away is never entered: it *)
(* is for a sensor that comes twice in a row, and none does.               *)
NeverAsksForRelease == ~needRelease

(* What holds of driver, worker and dialog at every moment: an answer is   *)
(* its reader's own, and no step asks for the hand to leave.               *)
UltrasonicInv ==
    /\ TypeOK
    /\ AnswerIsOwn
    /\ NeverAsksForRelease

HandIsRead ==
    /\ hand = Target
    /\ loaded /\ at["worker"] # "none"

(* A hand held still before the sensor asked for is recognised, however    *)
(* the readings are delayed and whoever else reads the sensors.            *)
StillHandRecognised ==
    \A k \in Sensors :
        step = k /\ HandIsRead ~> step # k \/ ~HandIsRead

(* Leaving the dialog never hangs on the worker.                           *)
ExitCompletes == dialog = "accepted" ~> dialog = "deleted"

(* The dialog closes after all sensors were held, and only then.           *)
Abstract == INSTANCE Challenge WITH
    MaxSteps <- Count,
    left <- Count - step,
    won <- dialog # "open"

MeetsChallenge == Abstract!ChallengeSpec
=============================================================================
