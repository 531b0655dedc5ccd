-------------------------- MODULE ButtonDismissProofs --------------------------
(***************************************************************************)
(* For every duration and every target range.  The game engine: what its   *)
(* members can hold, and that timers, count and verdict agree.  The        *)
(* Button-mode dialog around it: a verdict always has its one follow-up    *)
(* pending, and only a won game closes the dialog.                         *)
(***************************************************************************)
EXTENDS ButtonDismiss, TLAPS

-----------------------------------------------------------------------------
(* The game engine, with any other owner of its slots.                     *)

(* The target range is not empty, and zero is never a target.              *)
LEMMA TargetRange ==
    /\ TargetMin \in TargetMin..TargetMax
    /\ TargetMin..TargetMax \subseteq Nat \ {0}
BY GameConstants

LEMMA EngineInitInv == EngineInit => EngineInv
<1> SUFFICES ASSUME EngineInit PROVE EngineInv
  OBVIOUS
<1>1. /\ target \in TargetMin..TargetMax
      /\ count \in 0..(TargetMax + 1)
      /\ secondsLeft \in 0..GameDuration
  BY GameConstants DEF EngineInit
<1>2. /\ state \in States
      /\ countdownTimer \in BOOLEAN
      /\ successTimer \in BOOLEAN
  BY DEF EngineInit, States
<1>3. /\ SuccessTimerMeansHit
      /\ VerdictMatchesCount
      /\ CountdownRunsIffPlaying
      /\ state = "PLAYING" => count <= target
  BY DEF EngineInit, SuccessTimerMeansHit, VerdictMatchesCount, CountdownRunsIffPlaying
<1>4. QED
  BY <1>1, <1>2, <1>3 DEF EngineInv, EngineTypeOK

(* A new round starts clean provided the success timer is off; startGame() *)
(* does not stop it, but in READY it cannot be running.                    *)
LEMMA BeginRoundInv ==
    ASSUME BeginRound, successTimer' = FALSE
    PROVE  EngineInv'
<1>1. /\ target' \in TargetMin..TargetMax
      /\ count' \in 0..(TargetMax + 1)
      /\ secondsLeft' \in 0..GameDuration
  BY GameConstants DEF BeginRound
<1>2. /\ state' \in States
      /\ countdownTimer' \in BOOLEAN
      /\ successTimer' \in BOOLEAN
  BY DEF BeginRound, States
<1>3. count' # target' /\ count' <= target' /\ secondsLeft' > 0
  BY GameConstants, TargetRange DEF BeginRound
<1>4. /\ SuccessTimerMeansHit'
      /\ VerdictMatchesCount'
      /\ CountdownRunsIffPlaying'
      /\ (state = "PLAYING" => count <= target)'
  BY <1>3 DEF BeginRound, SuccessTimerMeansHit, VerdictMatchesCount, CountdownRunsIffPlaying
<1>5. QED
  BY <1>1, <1>2, <1>4 DEF EngineInv, EngineTypeOK

LEMMA PressInv ==
    ASSUME EngineInv, OnButtonPressed
    PROVE  EngineInv'
<1>1. /\ count \in Nat /\ target \in Nat /\ secondsLeft \in Nat
      /\ target <= TargetMax /\ TargetMax \in Nat
      /\ state = "PLAYING" /\ count <= target /\ secondsLeft > 0
      /\ countdownTimer = TRUE
  BY GameConstants, TargetRange
     DEF EngineInv, EngineTypeOK, CountdownRunsIffPlaying, OnButtonPressed
<1>2. target' \in TargetMin..TargetMax /\ secondsLeft' \in 0..GameDuration
  BY DEF EngineInv, EngineTypeOK, OnButtonPressed, BelowTarget, ExactHit, Overshoot
<1>3. count' = count + 1 /\ target' = target /\ secondsLeft' = secondsLeft
  BY DEF OnButtonPressed, BelowTarget, ExactHit, Overshoot
<1>4. count' \in 0..(TargetMax + 1)
  BY <1>1, <1>3
<1>5. CASE BelowTarget
  <2>1. ~successTimer
    BY <1>1, <1>5 DEF EngineInv, SuccessTimerMeansHit, BelowTarget
  <2>2. QED
    BY <1>1, <1>2, <1>3, <1>4, <1>5, <2>1
       DEF BelowTarget, EngineInv, EngineTypeOK, SuccessTimerMeansHit,
           VerdictMatchesCount, CountdownRunsIffPlaying, States
<1>6. CASE ExactHit
  <2>1. /\ count' = target'
        /\ state' = "PLAYING" /\ countdownTimer' = TRUE /\ successTimer' = TRUE
    BY <1>1, <1>6 DEF ExactHit
  <2>2. count' <= target' /\ secondsLeft' > 0
    BY <1>1, <1>3, <2>1
  <2>3. EngineTypeOK'
    BY <1>2, <1>4, <2>1 DEF EngineTypeOK, States
  <2>4. QED
    BY <2>1, <2>2, <2>3
       DEF EngineInv, SuccessTimerMeansHit, VerdictMatchesCount, CountdownRunsIffPlaying
<1>7. CASE Overshoot
  <2>1. state' = "FAILURE" /\ countdownTimer' = FALSE /\ successTimer' = FALSE
    BY <1>7 DEF Overshoot, Finish
  <2>2. count' > target'
    BY <1>1, <1>3, <1>7 DEF Overshoot
  <2>3. EngineTypeOK'
    BY <1>2, <1>4, <2>1 DEF EngineTypeOK, States
  <2>4. QED
    BY <2>1, <2>2, <2>3
       DEF EngineInv, SuccessTimerMeansHit, VerdictMatchesCount, CountdownRunsIffPlaying
<1>8. QED
  BY <1>5, <1>6, <1>7 DEF OnButtonPressed

LEMMA TickInv ==
    ASSUME EngineInv, OnCountdownTick
    PROVE  EngineInv'
<1>1. /\ count \in Nat /\ target \in Nat
      /\ secondsLeft \in Nat /\ secondsLeft > 0 /\ secondsLeft <= GameDuration
      /\ state = "PLAYING" /\ count <= target
      /\ countdownTimer = TRUE
  BY GameConstants, TargetRange
     DEF EngineInv, EngineTypeOK, CountdownRunsIffPlaying, OnCountdownTick
<1>2. target' = target /\ count' = count /\ secondsLeft' = secondsLeft - 1
  BY DEF OnCountdownTick
<1>3. /\ target' \in TargetMin..TargetMax
      /\ count' \in 0..(TargetMax + 1)
      /\ secondsLeft' \in 0..GameDuration
  BY <1>1, <1>2, GameConstants DEF EngineInv, EngineTypeOK
<1>4. CASE secondsLeft - 1 <= 0
  <2>1. secondsLeft' = 0
    BY <1>1, <1>2, <1>4
  <2>2. Finish(TimeUpVerdict)
    BY <1>4 DEF OnCountdownTick
  <2>3. /\ state' = "SUCCESS" => count' = target'
        /\ state' = "FAILURE" => count' < target'
        /\ state' \in {"SUCCESS", "FAILURE"}
        /\ countdownTimer' = FALSE /\ successTimer' = FALSE
    BY <1>1, <1>2, <2>2 DEF Finish, TimeUpVerdict
  <2>4. QED
    BY <1>3, <2>1, <2>3
       DEF EngineInv, EngineTypeOK, SuccessTimerMeansHit,
           VerdictMatchesCount, CountdownRunsIffPlaying, States
<1>5. CASE ~(secondsLeft - 1 <= 0)
  <2>1. secondsLeft' > 0
    BY <1>1, <1>2, <1>5
  <2>2. UNCHANGED <<state, countdownTimer, successTimer>>
    BY <1>5 DEF OnCountdownTick
  <2>3. QED
    BY <1>1, <1>2, <1>3, <2>1, <2>2
       DEF EngineInv, EngineTypeOK, SuccessTimerMeansHit,
           VerdictMatchesCount, CountdownRunsIffPlaying, States
<1>6. QED
  BY <1>4, <1>5

LEMMA SuccessTimerInv ==
    ASSUME EngineInv, OnSuccessTimerFired
    PROVE  EngineInv'
<1>1. /\ state = "PLAYING" /\ count = target
      /\ state' = "SUCCESS" /\ countdownTimer' = FALSE /\ successTimer' = FALSE
      /\ UNCHANGED <<count, target, secondsLeft>>
  BY DEF EngineInv, SuccessTimerMeansHit, OnSuccessTimerFired
<1>2. QED
  BY <1>1 DEF EngineInv, EngineTypeOK, SuccessTimerMeansHit,
              VerdictMatchesCount, CountdownRunsIffPlaying, States

LEMMA EngineStepInv == EngineInv /\ [EngineNext]_engineVars => EngineInv'
<1> SUFFICES ASSUME EngineInv, [EngineNext]_engineVars PROVE EngineInv'
  OBVIOUS
<1>1. CASE StartGame
  <2>1. ~successTimer
    BY <1>1 DEF StartGame, EngineInv, SuccessTimerMeansHit
  <2>2. BeginRound /\ successTimer' = FALSE
    BY <1>1, <2>1 DEF StartGame, EngineInv, EngineTypeOK
  <2>3. QED
    BY <2>2, BeginRoundInv
<1>2. CASE OnButtonPressed
  BY <1>2, PressInv
<1>3. CASE OnCountdownTick
  BY <1>3, TickInv
<1>4. CASE OnSuccessTimerFired
  BY <1>4, SuccessTimerInv
<1>5. CASE RestartGame
  BY <1>5, BeginRoundInv DEF RestartGame
<1>6. CASE UNCHANGED engineVars
  BY <1>6 DEF engineVars, EngineInv, EngineTypeOK, SuccessTimerMeansHit,
              VerdictMatchesCount, CountdownRunsIffPlaying
<1>7. QED
  BY <1>1, <1>2, <1>3, <1>4, <1>5, <1>6 DEF EngineNext

(* Every reachable state of the engine satisfies the strengthened          *)
(* invariant.                                                              *)
THEOREM EngineCorrect == EngineSpec => []EngineInv
<1>1. QED
  BY EngineInitInv, EngineStepInv, PTL DEF EngineSpec

(* The members of gameengine.h stay in their ranges, for every duration    *)
(* and target range.                                                       *)
THEOREM EngineTypes == EngineSpec => []EngineTypeOK
<1>1. EngineInv => EngineTypeOK
  BY DEF EngineInv
<1>2. QED
  BY <1>1, EngineCorrect, PTL

(* No stale success timer: it is armed exactly on an exact hit in play.    *)
THEOREM NoStaleSuccessTimer == EngineSpec => []SuccessTimerMeansHit
<1>1. EngineInv => SuccessTimerMeansHit
  BY DEF EngineInv
<1>2. QED
  BY <1>1, EngineCorrect, PTL

(* A decided round was decided by its numbers.                             *)
THEOREM VerdictIsRight == EngineSpec => []VerdictMatchesCount
<1>1. EngineInv => VerdictMatchesCount
  BY DEF EngineInv
<1>2. QED
  BY <1>1, EngineCorrect, PTL

(* The race between success timer and last tick never loses a hit.         *)
THEOREM HitSurvivesRace == EngineSpec => HitIsLostOnlyByPressing
<1> DEFINE Lost == state = "PLAYING" /\ count = target /\ state' = "FAILURE"
<1>1. EngineInv /\ [EngineNext]_engineVars => [Lost => count' > target]_engineVars
  <2> SUFFICES ASSUME EngineInv, EngineNext, Lost PROVE count' > target
    OBVIOUS
  <2>1. count \in Nat /\ target \in Nat
    BY GameConstants, TargetRange DEF EngineInv, EngineTypeOK
  <2>2. CASE OnButtonPressed
    BY <2>1, <2>2 DEF OnButtonPressed, BelowTarget, ExactHit, Overshoot
  <2>3. ~OnCountdownTick /\ ~StartGame /\ ~OnSuccessTimerFired /\ ~RestartGame
    BY DEF OnCountdownTick, Finish, TimeUpVerdict, StartGame, BeginRound,
           OnSuccessTimerFired, RestartGame
  <2>4. QED
    BY <2>2, <2>3 DEF EngineNext
<1>2. QED
  BY <1>1, EngineCorrect, PTL DEF EngineSpec, HitIsLostOnlyByPressing

-----------------------------------------------------------------------------
(* The dialog.                                                             *)

LEMMA DialogInitInv == Init => DialogInv
<1> SUFFICES ASSUME Init PROVE DialogInv
  OBVIOUS
<1>1. EngineInv
  <2>1. /\ target \in TargetMin..TargetMax
        /\ count \in 0..(TargetMax + 1)
        /\ secondsLeft \in 0..GameDuration /\ secondsLeft > 0
    BY GameConstants DEF Init
  <2>2. count # target /\ count <= target
    BY TargetRange DEF Init
  <2>3. EngineTypeOK
    BY <2>1 DEF Init, EngineTypeOK, States
  <2>4. QED
    BY <2>1, <2>2, <2>3
       DEF Init, EngineInv, SuccessTimerMeansHit, VerdictMatchesCount,
           CountdownRunsIffPlaying
<1>2. ShotsAnswerVerdict /\ DismissedOnlyByWinning
  BY DEF Init, ShotsAnswerVerdict, DismissedOnlyByWinning
<1>3. QED
  BY <1>1, <1>2 DEF Init, DialogInv

(* A slot of the engine runs while the round is played, when no shot is    *)
(* pending; if it reaches a verdict it queues that verdict's shot.         *)
LEMMA VerdictQueuesShot ==
    ASSUME DialogInv, dialogOpen, state = "PLAYING", [EngineNext]_engineVars,
           OnVerdict, UNCHANGED dialogOpen
    PROVE  DialogInv'
<1>1. EngineInv'
  BY EngineStepInv DEF DialogInv
<1>2. acceptShots = 0 /\ restartShots = 0
  BY DEF DialogInv, ShotsAnswerVerdict
<1>3. /\ acceptShots' = (IF state' = "SUCCESS" THEN 1 ELSE 0)
      /\ restartShots' = (IF state' = "FAILURE" THEN 1 ELSE 0)
  BY <1>2 DEF OnVerdict
<1>4. QED
  BY <1>1, <1>3 DEF DialogInv, ShotsAnswerVerdict, DismissedOnlyByWinning

LEMMA DialogStepInv == DialogInv /\ [Next]_vars => DialogInv'
<1> SUFFICES ASSUME DialogInv, [Next]_vars PROVE DialogInv'
  OBVIOUS
<1>1. CASE OnButtonPressedForGame
  <2>1. state = "PLAYING"
    BY <1>1 DEF OnButtonPressedForGame, OnButtonPressed
  <2>2. QED
    BY <1>1, <2>1, VerdictQueuesShot DEF OnButtonPressedForGame, EngineNext
<1>2. CASE Tick
  <2>1. state = "PLAYING"
    BY <1>2 DEF Tick, OnCountdownTick, DialogInv, EngineInv, CountdownRunsIffPlaying
  <2>2. QED
    BY <1>2, <2>1, VerdictQueuesShot DEF Tick, EngineNext
<1>3. CASE SuccessTimer
  <2>1. state = "PLAYING"
    BY <1>3 DEF SuccessTimer, OnSuccessTimerFired, DialogInv, EngineInv, SuccessTimerMeansHit
  <2>2. QED
    BY <1>3, <2>1, VerdictQueuesShot DEF SuccessTimer, EngineNext
<1>4. CASE AcceptShot
  <2>1. state = "SUCCESS" /\ count = target /\ acceptShots = 1
    BY <1>4 DEF AcceptShot, DialogInv, ShotsAnswerVerdict, EngineInv, VerdictMatchesCount
  <2>2. EngineInv'
    BY <1>4, EngineStepInv DEF AcceptShot, DialogInv
  <2>3. acceptShots' = 0 /\ restartShots' \in 0..1 /\ dialogOpen' = FALSE
    BY <1>4, <2>1 DEF AcceptShot, DialogInv
  <2>4. state' = "SUCCESS" /\ count' = target'
    BY <1>4, <2>1 DEF AcceptShot, engineVars
  <2>5. ShotsAnswerVerdict' /\ DismissedOnlyByWinning'
    BY <2>3, <2>4 DEF ShotsAnswerVerdict, DismissedOnlyByWinning
  <2>6. acceptShots' \in 0..1
    BY <2>3
  <2>7. dialogOpen' \in BOOLEAN
    BY <2>3
  <2>8. QED
    BY <2>2, <2>3, <2>5, <2>6, <2>7 DEF DialogInv
<1>5. CASE RestartShot
  <2>1. acceptShots = 0 /\ restartShots = 1
    BY <1>5 DEF RestartShot, DialogInv, ShotsAnswerVerdict
  <2>2. EngineInv'
    BY <1>5, EngineStepInv DEF RestartShot, DialogInv, EngineNext
  <2>3. /\ acceptShots' = 0 /\ restartShots' = 0
        /\ dialogOpen' = TRUE /\ state' = "PLAYING"
    BY <1>5, <2>1 DEF RestartShot, RestartGame, BeginRound, DialogInv
  <2>4. QED
    BY <2>2, <2>3 DEF DialogInv, ShotsAnswerVerdict, DismissedOnlyByWinning
<1>6. CASE Returned \/ UNCHANGED vars
  <2>1. UNCHANGED vars
    BY <1>6 DEF Returned
  <2>2. EngineInv'
    BY <2>1, EngineStepInv DEF vars, DialogInv
  <2>3. QED
    BY <2>1, <2>2
       DEF vars, engineVars, DialogInv, ShotsAnswerVerdict, DismissedOnlyByWinning
<1>7. QED
  BY <1>1, <1>2, <1>3, <1>4, <1>5, <1>6 DEF Next

(* Every reachable state of the dialog satisfies DialogInv.                *)
THEOREM DialogCorrect == Spec => []DialogInv
<1>1. QED
  BY DialogInitInv, DialogStepInv, PTL DEF Spec

(* The types of the dialog, for every duration and target range.           *)
THEOREM DialogTypes == Spec => []TypeOK
<1>1. DialogInv => TypeOK
  BY DEF DialogInv, EngineInv, TypeOK
<1>2. QED
  BY <1>1, DialogCorrect, PTL

(* A lost round always has its restart coming and a won one its dismissal. *)
THEOREM VerdictIsAnswered == Spec => []ShotsAnswerVerdict
<1>1. DialogInv => ShotsAnswerVerdict
  BY DEF DialogInv
<1>2. QED
  BY <1>1, DialogCorrect, PTL

(* Button mode is left only through a won game.                            *)
THEOREM OnlyWinningDismisses == Spec => []DismissedOnlyByWinning
<1>1. DialogInv => DismissedOnlyByWinning
  BY DEF DialogInv
<1>2. QED
  BY <1>1, DialogCorrect, PTL

-----------------------------------------------------------------------------
(* The dialog implements the safety part of Challenge: whatever it does is *)
(* a step of the challenge under the mapping Abstract, or no step of it.   *)
THEOREM DialogMeetsChallenge ==
    Spec => Abstract!ChallengeInit /\ [][Abstract!ChallengeNext]_(Abstract!challengeVars)
<1>1. Init => Abstract!ChallengeInit
  BY DEF Init, Abstract!ChallengeInit
<1>2. DialogInv /\ [Next]_vars => [Abstract!ChallengeNext]_(Abstract!challengeVars)
  <2> SUFFICES ASSUME DialogInv, [Next]_vars
               PROVE  [Abstract!ChallengeNext]_(Abstract!challengeVars)
    OBVIOUS
  <2> USE DEF Abstract!challengeVars
  <2>1. CASE OnButtonPressedForGame \/ Tick \/ SuccessTimer
    <3>1. state = "PLAYING"
      BY <2>1 DEF OnButtonPressedForGame, OnButtonPressed, Tick, OnCountdownTick,
         SuccessTimer, OnSuccessTimerFired, DialogInv, EngineInv,
         CountdownRunsIffPlaying, SuccessTimerMeansHit
    <3>2. dialogOpen' = dialogOpen
      BY <2>1 DEF OnButtonPressedForGame, Tick, SuccessTimer
    <3>3. dialogOpen
      BY <2>1 DEF OnButtonPressedForGame, Tick, SuccessTimer
    <3>4. CASE state' = "SUCCESS"
      <4>1. /\ (IF state = "SUCCESS" THEN 0 ELSE 1) > 0
            /\ (IF state = "SUCCESS" THEN 0 ELSE 1)'
               = (IF state = "SUCCESS" THEN 0 ELSE 1) - 1
        BY <3>1, <3>4
      <4>2. (~dialogOpen)' = FALSE
        BY <3>2, <3>3
      <4>3. (~dialogOpen)' \in {FALSE, (IF state = "SUCCESS" THEN 0 ELSE 1)' = 0}
        BY <4>2, Zenon
      <4>4. Abstract!Meet
        BY <4>1, <4>3, Zenon DEF Abstract!Meet
      <4>5. QED
        BY <4>4 DEF Abstract!ChallengeNext
    <3>5. CASE state' # "SUCCESS"
      BY <3>1, <3>2, <3>5
    <3>6. QED
      BY <3>4, <3>5
  <2>2. CASE AcceptShot
    <3>1. state = "SUCCESS" /\ state' = state /\ dialogOpen' = FALSE
      BY <2>2 DEF AcceptShot, DialogInv, ShotsAnswerVerdict, engineVars
    <3>2. QED
      BY <3>1 DEF Abstract!ChallengeNext, Abstract!Close
  <2>3. CASE RestartShot
    <3>1. state = "FAILURE" /\ state' = "PLAYING" /\ dialogOpen' = dialogOpen
      BY <2>3 DEF RestartShot, RestartGame, BeginRound, DialogInv, ShotsAnswerVerdict
    <3>2. QED
      BY <3>1
  <2>4. CASE Returned \/ UNCHANGED vars
    BY <2>4 DEF Returned, vars, engineVars
  <2>5. QED
    BY <2>1, <2>2, <2>3, <2>4 DEF Next
<1>3. QED
  BY <1>1, <1>2, DialogCorrect, PTL DEF Spec
=============================================================================
