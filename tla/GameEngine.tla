----------------------------- MODULE GameEngine -----------------------------
(***************************************************************************)
(* The button-mashing game of app/gameengine.cpp: press the physical       *)
(* button exactly m_targetCount times within GAME_DURATION seconds.  The   *)
(* engine lives in the main thread, so every slot is atomic; what is not   *)
(* under its control is the order in which presses and the two QTimers     *)
(* are delivered.  Qt's coarse timers fire up to 5% early or late and a    *)
(* busy event loop delays them further, so this module lets an armed       *)
(* timer fire at any moment: it assumes nothing about the order of the     *)
(* success timer and the last countdown tick.                              *)
(***************************************************************************)
EXTENDS Integers

CONSTANTS
    GameDuration,   \* GAME_DURATION, 15 in the code
    TargetMin,      \* TARGET_MIN, 30 in the code
    TargetMax       \* TARGET_MAX, 60 in the code

ASSUME GameConstants ==
    /\ GameDuration \in Nat \ {0}
    /\ TargetMin \in Nat \ {0}
    /\ TargetMax \in Nat
    /\ TargetMin <= TargetMax

States == {"READY", "PLAYING", "SUCCESS", "FAILURE"}

VARIABLES
    state,          \* m_state
    count,          \* m_count
    target,         \* m_targetCount
    secondsLeft,    \* m_secondsLeft
    countdownTimer, \* m_countdownTimer.isActive()
    successTimer    \* m_successTimer.isActive()

engineVars == <<state, count, target, secondsLeft, countdownTimer, successTimer>>

EngineInit ==
    /\ state = "READY"
    /\ count = 0
    /\ target = TargetMin
    /\ secondsLeft = GameDuration
    /\ countdownTimer = FALSE
    /\ successTimer = FALSE

(* The part of startGame() behind its guard: a new target, a new count.    *)
BeginRound ==
    /\ target' \in TargetMin..TargetMax
    /\ count' = 0
    /\ secondsLeft' = GameDuration
    /\ state' = "PLAYING"
    /\ countdownTimer' = TRUE

StartGame ==
    /\ state = "READY"
    /\ BeginRound
    /\ UNCHANGED successTimer

(* A round ends: setState() and the timers stopped on the way.             *)
Finish(verdict) ==
    /\ state' = verdict
    /\ countdownTimer' = FALSE
    /\ successTimer' = FALSE

\* Mutant of Overshoot: the success timer is left running.
OvershootKeepsTimer ==
    /\ count >= target
    /\ count' = count + 1
    /\ state' = "FAILURE"
    /\ countdownTimer' = FALSE
    /\ UNCHANGED <<target, secondsLeft, successTimer>>

(* onButtonPressed(), one press too many.                                  *)
Overshoot ==
    /\ count >= target
    /\ count' = count + 1
    /\ Finish("FAILURE")
    /\ UNCHANGED <<target, secondsLeft>>

(* onButtonPressed(), the exact hit: success after min(3s, remaining), or  *)
(* at once when no time remains.                                           *)
ExactHit ==
    /\ count + 1 = target
    /\ count' = count + 1
    /\ IF secondsLeft > 0
       THEN /\ successTimer' = TRUE
            /\ UNCHANGED <<state, countdownTimer>>
       ELSE /\ state' = "SUCCESS"
            /\ countdownTimer' = FALSE
            /\ UNCHANGED successTimer
    /\ UNCHANGED <<target, secondsLeft>>

(* onButtonPressed(), on the way to the target.                            *)
BelowTarget ==
    /\ count + 1 < target
    /\ count' = count + 1
    /\ UNCHANGED <<state, target, secondsLeft, countdownTimer, successTimer>>

OnButtonPressed ==
    /\ state = "PLAYING"
    /\ BelowTarget \/ ExactHit \/ Overshoot

(* The verdict onCountdownTick() reaches when the time is up.              *)
TimeUpVerdict == IF count = target THEN "SUCCESS" ELSE "FAILURE"

\* Mutant of OnCountdownTick: the time-up branch forgets the success timer
\* and the round is lost whatever the count.
TickIgnoresHit ==
    /\ countdownTimer
    /\ secondsLeft' = secondsLeft - 1
    /\ IF secondsLeft - 1 <= 0
       THEN Finish("FAILURE")
       ELSE UNCHANGED <<state, countdownTimer, successTimer>>
    /\ UNCHANGED <<count, target>>

(* onCountdownTick() does not look at the state: that it runs only while a *)
(* round is played rests on every other slot stopping the timer.           *)
OnCountdownTick ==
    /\ countdownTimer
    /\ secondsLeft' = secondsLeft - 1
    /\ IF secondsLeft - 1 <= 0
       THEN Finish(TimeUpVerdict)
       ELSE UNCHANGED <<state, countdownTimer, successTimer>>
    /\ UNCHANGED <<count, target>>

(* A single-shot timer is inactive once it fires; the slot then checks the *)
(* state.                                                                  *)
OnSuccessTimerFired ==
    /\ successTimer
    /\ successTimer' = FALSE
    /\ IF state = "PLAYING"
       THEN state' = "SUCCESS" /\ countdownTimer' = FALSE
       ELSE UNCHANGED <<state, countdownTimer>>
    /\ UNCHANGED <<count, target, secondsLeft>>

(* restartGame() stops both timers, forces READY and starts a new round,   *)
(* from whatever state it is called in.                                    *)
RestartGame ==
    /\ BeginRound
    /\ successTimer' = FALSE

(***************************************************************************)
(* The engine on its own: a caller may press or restart at any time.       *)
(***************************************************************************)
EngineNext ==
    \/ StartGame
    \/ OnButtonPressed
    \/ OnCountdownTick
    \/ OnSuccessTimerFired
    \/ RestartGame

EngineSpec == EngineInit /\ [][EngineNext]_engineVars

-----------------------------------------------------------------------------
(* Type invariant of the engine's members; the counts stay within one      *)
(* press of the target.                                                    *)
EngineTypeOK ==
    /\ state \in States
    /\ target \in TargetMin..TargetMax
    /\ count \in 0..(TargetMax + 1)
    /\ secondsLeft \in 0..GameDuration
    /\ countdownTimer \in BOOLEAN
    /\ successTimer \in BOOLEAN

(* The success timer is armed exactly while a running round stands on its  *)
(* target: no press and no tick leaves a stale timer that would turn a     *)
(* lost round, or the next one, into a success, and no hit is forgotten.   *)
SuccessTimerMeansHit == successTimer <=> state = "PLAYING" /\ count = target

(* A finished round's verdict is the one its numbers call for: SUCCESS     *)
(* only on the exact target, FAILURE only past it or out of time.          *)
VerdictMatchesCount ==
    /\ state = "SUCCESS" => count = target
    /\ state = "FAILURE" => count > target \/ (count < target /\ secondsLeft = 0)

(* The countdown runs exactly while a round is being played, and a played  *)
(* round still has time: no round is left without a timer to end it.       *)
CountdownRunsIffPlaying ==
    /\ countdownTimer <=> state = "PLAYING"
    /\ state = "PLAYING" => secondsLeft > 0

(* What holds of the engine at every moment: the parts above, and that a   *)
(* round in play has not passed its target, without which a press could    *)
(* take the count any distance past it.                                    *)
EngineInv ==
    /\ EngineTypeOK
    /\ SuccessTimerMeansHit
    /\ VerdictMatchesCount
    /\ CountdownRunsIffPlaying
    /\ state = "PLAYING" => count <= target

(* A round that stands on its target is lost only by pressing once more:   *)
(* the race between the success timer and the last tick of the countdown   *)
(* cannot lose it.                                                         *)
HitIsLostOnlyByPressing ==
    [][ (state = "PLAYING" /\ count = target /\ state' = "FAILURE")
            => count' > target ]_engineVars
=============================================================================
