---------------------------- MODULE UltrasonicProofs ----------------------------
(***************************************************************************)
(* For any number of sensors and of competing readers: an answer consists  *)
(* of its reader's own measurements, the dialog never asks for the hand to *)
(* leave, and every step takes a hold of its own.                          *)
(***************************************************************************)
EXTENDS UltrasonicDismiss, TLAPS

(* Who measures or formats holds the lock, and what he has measured so far *)
(* is his.                                                                 *)
HolderMeasures ==
    \A r \in Readers :
        /\ at[r] = "measuring" =>
             /\ lock = r /\ measured < Count
             /\ \A s \in Sensors : s < measured => by[s] = r
        /\ at[r] = "formatting" => lock = r

LEMMA SensorRange == Sensors = { s \in Nat : s < Count } /\ Count \in Nat /\ Count > 0
BY UltrasonicConstants DEF Sensors

-----------------------------------------------------------------------------
(* The driver.                                                             *)

DriverTypeOK ==
    /\ last \in Readings
    /\ by \in [ Sensors -> Readers \union {"probe"} ]
    /\ lock \in Readers \union {"free"}
    /\ measured \in 0..Count
    /\ at \in [ Readers -> ReaderStages ]

DriverInv == DriverTypeOK /\ AnswerIsOwn /\ HolderMeasures

(* A reader that gives the lock back was the only one to hold it.          *)
LEMMA OneHolder ==
    ASSUME DriverInv, NEW r \in Readers, lock = r, NEW q \in Readers, q # r
    PROVE  at[q] \notin {"measuring", "formatting"}
BY DEF DriverInv, HolderMeasures

LEMMA AcquireKeeps ==
    ASSUME DriverInv, NEW r \in Readers, AcquireLock(r)
    PROVE  DriverInv'
<1> USE DEF DriverInv
<1>1. "free" \notin Readers
  BY UltrasonicConstants DEF Readers
<1>2. \A q \in Readers : at[q] \notin {"measuring", "formatting"}
  BY <1>1 DEF AcquireLock, HolderMeasures
<1>3. /\ DriverTypeOK'
      /\ at'[r] = "measuring" /\ \A q \in Readers \ {r} : at'[q] = at[q]
      /\ measured' = 0 /\ lock' = r /\ by' = by
  BY SensorRange DEF AcquireLock, Goes, DriverTypeOK, ReaderStages
<1>4. HolderMeasures' /\ AnswerIsOwn'
  BY <1>2, <1>3, SensorRange DEF HolderMeasures, AnswerIsOwn
<1>5. QED
  BY <1>3, <1>4

LEMMA MeasureKeeps ==
    ASSUME DriverInv, NEW r \in Readers, MeasureOne(r)
    PROVE  DriverInv'
<1> USE DEF DriverInv
<1>1. /\ at[r] = "measuring" /\ lock = r /\ measured \in Sensors
      /\ lock' = lock
      /\ measured' = measured + 1
      /\ by' = [ by EXCEPT ![measured] = r ]
      /\ at' = [ at EXCEPT ![r] = IF measured + 1 = Count THEN "formatting" ELSE "measuring" ]
  BY SensorRange DEF MeasureOne, HolderMeasures, DriverTypeOK
<1>2. last' \in Readings
  BY <1>1 DEF MeasureOne, Echoes, DriverTypeOK, Readings, Distances
<1>3. DriverTypeOK'
  BY <1>1, <1>2, SensorRange DEF DriverTypeOK, ReaderStages
<1>4. \A q \in Readers \ {r} : at'[q] = at[q] /\ at[q] \notin {"measuring", "formatting"}
  BY <1>1, OneHolder DEF DriverTypeOK
<1>5. \A s \in Sensors : s < measured' => by'[s] = r
  BY <1>1, SensorRange DEF HolderMeasures, DriverTypeOK
<1>6. HolderMeasures'
  BY <1>1, <1>4, <1>5, SensorRange DEF HolderMeasures, DriverTypeOK
<1>7. AnswerIsOwn'
  BY <1>1, <1>4, <1>5, SensorRange DEF AnswerIsOwn, DriverTypeOK
<1>8. QED
  BY <1>3, <1>6, <1>7

(* An answer is written, the lock given back and the array forgotten.      *)
LEMMA AnswerKeeps ==
    ASSUME DriverInv, NEW r \in Readers, Goes(r, "formatting", "idle"),
           lock' = "free", Forget
    PROVE  DriverInv'
<1> USE DEF DriverInv
<1>1. lock = r /\ at' = [ at EXCEPT ![r] = "idle" ]
  BY DEF Goes, HolderMeasures
<1>2. \A q \in Readers : at'[q] \notin {"measuring", "formatting"}
  BY <1>1, OneHolder DEF DriverTypeOK
<1>3. last' \in Readings /\ by' \in [ Sensors -> Readers \union {"probe"} ]
  BY DEF Forget, NoReading, Readings, Distances
<1>4. DriverTypeOK'
  BY <1>1, <1>3, SensorRange DEF DriverTypeOK, Forget, ReaderStages
<1>5. HolderMeasures' /\ AnswerIsOwn'
  BY <1>2 DEF HolderMeasures, AnswerIsOwn
<1>6. QED
  BY <1>4, <1>5

(* A reader that is not in the driver moves outside it.                    *)
LEMMA OutsideKeeps ==
    ASSUME DriverInv, NEW r \in Readers, NEW to \in {"idle", "locking", "ended"},
           at' = [ at EXCEPT ![r] = to ],
           UNCHANGED <<last, by, lock, measured>>
    PROVE  DriverInv'
<1>1. \A q \in Readers : at'[q] \in {"measuring", "formatting"} => at'[q] = at[q]
  BY DEF DriverInv, DriverTypeOK
<1>2. DriverTypeOK'
  BY DEF DriverInv, DriverTypeOK, ReaderStages
<1>3. HolderMeasures' /\ AnswerIsOwn'
  BY <1>1 DEF DriverInv, HolderMeasures, AnswerIsOwn
<1>4. QED
  BY <1>2, <1>3 DEF DriverInv

LEMMA DriverUnmoved ==
    ASSUME DriverInv, UNCHANGED <<last, by, lock, measured, at>>
    PROVE  DriverInv'
BY DEF DriverInv, DriverTypeOK, HolderMeasures, AnswerIsOwn

-----------------------------------------------------------------------------
(* The dialog and its worker.                                              *)

NoSensorTwice == \A x, y \in Sensors : seq[x] = seq[y] => x = y

GameTypeOK ==
    /\ loaded \in BOOLEAN
    /\ hand \in HandPlaces
    /\ posted \in Seq(Readings) /\ Len(posted) <= MaxPosted
    /\ stopPipe \in BOOLEAN
    /\ dialog \in DialogStages
    /\ seq \in [ Sensors -> Sensors ]
    /\ step \in 0..Count
    /\ needRelease \in BOOLEAN
    /\ holding \in BOOLEAN
    /\ polls \in 0..LongHold

GameInv ==
    /\ GameTypeOK
    /\ NoSensorTwice
    /\ NeverAsksForRelease

StepTakesHold ==
    step' # step => /\ step' = step + 1
                    /\ holding /\ IsNear(Head(posted))
                    /\ ~(holding' /\ dialog' = "open")

LEMMA GameUnmoved ==
    ASSUME GameInv,
           UNCHANGED <<loaded, hand, posted, stopPipe, dialog, gameVars, polls>>
    PROVE  GameInv'
BY DEF GameInv, GameTypeOK, NoSensorTwice, NeverAsksForRelease, gameVars

(* A signal is queued, or has nobody to be delivered to.                   *)
LEMMA PostKeeps ==
    ASSUME posted \in Seq(Readings), Len(posted) <= MaxPosted,
           NEW reading \in Readings, Post(reading)
    PROVE  posted' \in Seq(Readings) /\ Len(posted') <= MaxPosted
BY UltrasonicConstants DEF Post

(* A reading reaches the state machine: since no sensor comes twice in the *)
(* sequence, a recognised step never asks for the hand to leave.           *)
LEMMA ReadingKeeps ==
    ASSUME GameInv, OnUltrasonicDistances
    PROVE  GameInv' /\ StepTakesHold
<1> USE DEF GameInv
<1> DEFINE d == Head(posted)
<1>1. posted' \in Seq(Readings) /\ Len(posted') <= MaxPosted
  BY UltrasonicConstants DEF OnUltrasonicDistances, GameTypeOK
<1>2. UNCHANGED <<loaded, hand, stopPipe>>
  BY DEF OnUltrasonicDistances, driverVars
<1>3. ~needRelease /\ Count \in Nat /\ step \in Nat
  BY UltrasonicConstants DEF NeverAsksForRelease, GameTypeOK
<1>4. \/ step >= Count /\ UNCHANGED <<gameVars, dialog, polls>>
      \/ step < Count /\ (StartHold(d) \/ StillHolding(d) \/ StepRecognised(d) \/ HandMovedAway(d))
  BY <1>3 DEF OnUltrasonicDistances
<1>5. CASE UNCHANGED <<gameVars, dialog, polls>>
  BY <1>1, <1>2, <1>5 DEF GameTypeOK, NoSensorTwice, NeverAsksForRelease, gameVars, StepTakesHold
<1>6. CASE StartHold(d) \/ HandMovedAway(d)
  <2>1. holding' \in BOOLEAN /\ polls' \in 0..LongHold
    <3>1. holding' \in BOOLEAN
      BY <1>6 DEF StartHold, HandMovedAway
    <3>2. polls' = 0 \/ polls' = polls
      BY <1>6 DEF StartHold, HandMovedAway
    <3>3. QED
      BY <3>1, <3>2 DEF GameTypeOK, LongHold
  <2>2. UNCHANGED <<seq, step, needRelease, dialog>>
    BY <1>6 DEF StartHold, HandMovedAway
  <2>3. QED
    BY <1>1, <1>2, <2>1, <2>2 DEF GameTypeOK, NoSensorTwice, NeverAsksForRelease,
       StepTakesHold
<1>7. CASE StillHolding(d)
  BY <1>5, <1>7 DEF StillHolding
<1>8. CASE step < Count /\ StepRecognised(d)
  <2>1. step + 1 \in 0..Count /\ step \in Sensors
    BY <1>3, <1>8, SensorRange
  <2>2. step + 1 # Count => step + 1 \in Sensors /\ seq[step + 1] # seq[step]
    BY <1>3, <2>1, SensorRange DEF NoSensorTwice
  <2>3. needRelease' = FALSE
    BY <1>3, <1>8, <2>2 DEF StepRecognised, GameTypeOK
  <2>4. /\ dialog' \in DialogStages /\ holding' \in BOOLEAN
        /\ UNCHANGED <<seq, polls>> /\ step' = step + 1
    BY <1>8 DEF StepRecognised, GameTypeOK, DialogStages
  <2>5. GameInv'
    BY <1>1, <1>2, <2>1, <2>3, <2>4 DEF GameTypeOK, NoSensorTwice, NeverAsksForRelease
  <2>6. StepTakesHold
    BY <1>8 DEF StepRecognised, StepTakesHold
  <2>7. QED
    BY <2>5, <2>6
<1>9. QED
  BY <1>4, <1>5, <1>6, <1>7, <1>8

-----------------------------------------------------------------------------
(* All together.                                                           *)

UltrasonicIInv == DriverInv /\ GameInv

LEMMA UltrasonicStart == Init => UltrasonicIInv
<1> SUFFICES ASSUME Init PROVE UltrasonicIInv
  OBVIOUS
<1>1. at \in [ Readers -> {"idle", "none"} ]
  BY DEF Init
<1>2. DriverTypeOK
  BY <1>1, SensorRange DEF Init, DriverTypeOK, NoReading, Readings, Distances, ReaderStages
<1>3. AnswerIsOwn /\ HolderMeasures
  BY <1>1 DEF Init, AnswerIsOwn, HolderMeasures
<1>4. seq \in [ Sensors -> Sensors ] /\ NoSensorTwice
  BY DEF Init, SensorSequences, Permutations, NoSensorTwice
<1>5. posted \in Seq(Readings) /\ Len(posted) <= MaxPosted
  BY UltrasonicConstants DEF Init
<1>6. hand \in HandPlaces /\ step \in 0..Count /\ polls \in 0..LongHold
  BY SensorRange DEF Init, HandPlaces, Away, LongHold
<1>7. GameTypeOK /\ NeverAsksForRelease
  BY <1>4, <1>5, <1>6 DEF Init, GameTypeOK, DialogStages, NeverAsksForRelease
<1>8. QED
  BY <1>2, <1>3, <1>4, <1>7 DEF UltrasonicIInv, DriverInv, GameInv

LEMMA UltrasonicStep ==
    UltrasonicIInv /\ [Next]_vars => UltrasonicIInv' /\ [StepTakesHold]_vars
<1> SUFFICES ASSUME UltrasonicIInv, [Next]_vars
             PROVE  UltrasonicIInv' /\ [StepTakesHold]_vars
  OBVIOUS
<1> USE DEF UltrasonicIInv
<1>w. "worker" \in Readers /\ at \in [ Readers -> ReaderStages ]
  BY DEF Readers, DriverInv, DriverTypeOK
<1>1. ASSUME NEW r \in Readers, AcquireLock(r) \/ MeasureOne(r)
      PROVE  UltrasonicIInv' /\ StepTakesHold
  <2>1. DriverInv'
    BY <1>1, AcquireKeeps, MeasureKeeps
  <2>2. UNCHANGED <<loaded, hand, posted, stopPipe, dialog, gameVars, polls>>
    BY <1>1 DEF AcquireLock, MeasureOne
  <2>3. QED
    BY <2>1, <2>2, GameUnmoved DEF StepTakesHold, gameVars
<1>2. ASSUME NEW r \in Others, ReadOther(r) \/ AnswerOther(r)
      PROVE  UltrasonicIInv' /\ StepTakesHold
  <2>1. r \in Readers /\ r # "worker"
    BY UltrasonicConstants DEF Readers
  <2>2. DriverInv'
    BY <1>2, <2>1, OutsideKeeps, AnswerKeeps DEF ReadOther, AnswerOther, Goes, driverVars
  <2>3. UNCHANGED <<loaded, hand, posted, stopPipe, dialog, gameVars, polls>>
    BY <1>2 DEF ReadOther, AnswerOther, driverVars
  <2>4. QED
    BY <2>2, <2>3, GameUnmoved DEF StepTakesHold, gameVars
<1>3. CASE Poll
  <2>1. DriverInv'
    BY <1>3, <1>w, OutsideKeeps DEF Poll, driverVars
  <2>2. /\ UNCHANGED <<loaded, hand, posted, stopPipe, dialog, gameVars>>
        /\ at["worker"] = "idle"
    BY <1>3 DEF Poll, driverVars
  <2>3. polls' \in 0..LongHold
    BY <1>3 DEF Poll, GameInv, GameTypeOK, LongHold
  <2>4. GameInv' /\ StepTakesHold
    BY <2>2, <2>3 DEF GameInv, GameTypeOK, NoSensorTwice, NeverAsksForRelease, gameVars,
       StepTakesHold
  <2>5. QED
    BY <2>1, <2>4
<1>4. CASE OpenFails \/ AnswerWorker
  <2>1. DriverInv'
    BY <1>4, <1>w, OutsideKeeps, AnswerKeeps DEF OpenFails, AnswerWorker, Goes, driverVars
  <2>2. /\ UNCHANGED <<loaded, hand, stopPipe, dialog, gameVars, polls>>
        /\ at["worker"] \in {"locking", "formatting"}
    BY <1>4 DEF OpenFails, AnswerWorker, Goes, driverVars
  <2>3. \E reading \in Readings : Post(reading)
    BY <1>4 DEF OpenFails, AnswerWorker, DriverInv, DriverTypeOK, NoReading, Readings, Distances
  <2>4. posted' \in Seq(Readings) /\ Len(posted') <= MaxPosted
    BY <2>3, PostKeeps DEF GameInv, GameTypeOK
  <2>5. GameInv' /\ StepTakesHold
    BY <2>2, <2>4 DEF GameInv, GameTypeOK, NoSensorTwice, NeverAsksForRelease, gameVars,
       StepTakesHold
  <2>6. QED
    BY <2>1, <2>5
<1>5. CASE OnUltrasonicDistances
  <2>1. DriverInv'
    BY <1>5, DriverUnmoved DEF OnUltrasonicDistances, driverVars
  <2>2. QED
    BY <1>5, <2>1, ReadingKeeps
<1>6. CASE WriteStopPipe \/ DeleteWorker
  <2>1. /\ DriverInv'
        /\ UNCHANGED <<loaded, hand, gameVars, polls>>
    BY <1>6, DriverUnmoved DEF WriteStopPipe, DeleteWorker, driverVars
  <2>2. /\ dialog' \in DialogStages /\ stopPipe' \in BOOLEAN
        /\ posted' \in Seq(Readings) /\ Len(posted') <= MaxPosted
    <3>1. CASE WriteStopPipe
      BY <3>1, UltrasonicConstants DEF WriteStopPipe, DialogStages
    <3>2. CASE DeleteWorker
      BY <3>2 DEF DeleteWorker, GameInv, GameTypeOK, DialogStages
    <3>3. QED
      BY <1>6, <3>1, <3>2
  <2>3. GameInv' /\ StepTakesHold
    BY <2>1, <2>2 DEF GameInv, GameTypeOK, NoSensorTwice, NeverAsksForRelease, gameVars,
       StepTakesHold
  <2>4. QED
    BY <2>1, <2>3
<1>7. CASE MoveHand
  <2>1. DriverInv'
    BY <1>7, DriverUnmoved DEF MoveHand, driverVars
  <2>2. GameInv' /\ StepTakesHold
    BY <1>7 DEF MoveHand, GameInv, GameTypeOK, NoSensorTwice, NeverAsksForRelease, gameVars,
       driverVars, StepTakesHold
  <2>3. QED
    BY <2>1, <2>2
<1>8. CASE UNCHANGED vars
  <2>1. DriverInv'
    BY <1>8, DriverUnmoved DEF vars, driverVars
  <2>2. GameInv'
    BY <1>8, GameUnmoved DEF vars, driverVars
  <2>3. QED
    BY <1>8, <2>1, <2>2
<1>9. QED
  BY <1>1, <1>2, <1>3, <1>4, <1>5, <1>6, <1>7, <1>8 DEF Next

(* Driver, worker and dialog keep UltrasonicInv for any number of sensors  *)
(* and of competing readers.                                               *)
THEOREM UltrasonicCorrect == Spec => []UltrasonicInv
<1>1. UltrasonicIInv => UltrasonicInv
  BY DEF UltrasonicIInv, DriverInv, DriverTypeOK, GameInv, GameTypeOK, UltrasonicInv, TypeOK
<1>2. QED
  BY <1>1, UltrasonicStart, UltrasonicStep, PTL DEF Spec

(* Every step of the game takes a hold of its own.                         *)
THEOREM EveryStepIsHeld == Spec => StepsTakeHolding
<1>1. [StepTakesHold]_vars
      => [ step' # step => /\ step' = step + 1
                           /\ holding /\ IsNear(Head(posted))
                           /\ ~(holding' /\ dialog' = "open") ]_vars
  BY DEF StepTakesHold
<1>2. QED
  BY <1>1, UltrasonicStart, UltrasonicStep, PTL DEF Spec, StepsTakeHolding

-----------------------------------------------------------------------------
(* The dialog closes in the step that meets the last sensor.               *)
ClosedWhenAllHeld == /\ dialog # "open" <=> step = Count
                     /\ step \in 0..Count

(* A reading meets one thing of the challenge or none; nothing else does.  *)
LEMMA ReadingMeets ==
    ASSUME GameInv, ClosedWhenAllHeld, OnUltrasonicDistances
    PROVE  ClosedWhenAllHeld' /\ [Abstract!ChallengeNext]_(Abstract!challengeVars)
<1> USE DEF Abstract!challengeVars
<1>1. CASE step' = step
  <2>1. dialog' = dialog
    BY <1>1, SensorRange DEF OnUltrasonicDistances, WaitForRelease, StartHold,
       StillHolding, StepRecognised, HandMovedAway, ClosedWhenAllHeld
  <2>2. QED
    BY <1>1, <2>1 DEF ClosedWhenAllHeld
<1>2. CASE step' # step
  <2>1. step < Count /\ StepRecognised(Head(posted))
    BY <1>2, SensorRange DEF OnUltrasonicDistances, WaitForRelease, StartHold, StillHolding,
       HandMovedAway, gameVars, ClosedWhenAllHeld
  <2>2. dialog = "open" /\ step' = step + 1 /\ step \in 0..(Count - 1)
    BY <2>1, SensorRange DEF StepRecognised, ClosedWhenAllHeld
  <2>3. dialog' # "open" <=> step + 1 = Count
    BY <2>1, <2>2, SensorRange DEF StepRecognised
  <2>4. /\ Count - step > 0
        /\ (Count - step)' = Count - step - 1
    BY <2>2, SensorRange
  <2>5. (dialog # "open")' \in {FALSE, (Count - step)' = 0}
    <3>1. (dialog # "open")' <=> (Count - step)' = 0
      BY <2>2, <2>3, SensorRange
    <3>2. QED
      BY <3>1, Zenon
  <2>6. Abstract!Meet
    BY <2>4, <2>5, Zenon DEF Abstract!Meet
  <2>7. ClosedWhenAllHeld'
    BY <2>2, <2>3, SensorRange DEF ClosedWhenAllHeld
  <2>8. QED
    BY <2>6, <2>7 DEF Abstract!ChallengeNext
<1>3. QED
  BY <1>1, <1>2

(* The dialog implements the safety part of Challenge, for any number of   *)
(* sensors and readers: the sensors are met one at a time and the dialog   *)
(* closes with the last.                                                   *)
THEOREM UltrasonicMeetsChallenge ==
    Spec => Abstract!ChallengeInit /\ [][Abstract!ChallengeNext]_(Abstract!challengeVars)
<1>1. Init => Abstract!ChallengeInit /\ ClosedWhenAllHeld
  BY SensorRange DEF Init, Abstract!ChallengeInit, ClosedWhenAllHeld
<1>2. UltrasonicIInv /\ ClosedWhenAllHeld /\ [Next]_vars
      => ClosedWhenAllHeld' /\ [Abstract!ChallengeNext]_(Abstract!challengeVars)
  <2> SUFFICES ASSUME UltrasonicIInv, ClosedWhenAllHeld, [Next]_vars
               PROVE  ClosedWhenAllHeld' /\ [Abstract!ChallengeNext]_(Abstract!challengeVars)
    OBVIOUS
  <2>1. CASE OnUltrasonicDistances
    BY <2>1, ReadingMeets DEF UltrasonicIInv
  <2>2. CASE ~OnUltrasonicDistances
    <3>1. step' = step /\ (dialog' # "open" <=> dialog # "open")
      BY <2>2 DEF Next, AcquireLock, MeasureOne, ReadOther, AnswerOther, Poll, OpenFails,
         AnswerWorker, WriteStopPipe, DeleteWorker, MoveHand, gameVars, vars
    <3>2. QED
      BY <3>1 DEF ClosedWhenAllHeld, Abstract!challengeVars
  <2>3. QED
    BY <2>1, <2>2
<1>3. QED
  BY <1>1, <1>2, UltrasonicStart, UltrasonicStep, PTL DEF Spec
=============================================================================
