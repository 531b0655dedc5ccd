---------------------------- MODULE ButtonDismiss ----------------------------
(***************************************************************************)
(* The dismiss dialog in Button mode (app/dismissdialog.cpp): the dialog   *)
(* owns a GameEngine, starts it from its constructor, and answers the      *)
(* engine's verdict with a delayed QTimer::singleShot: 800 ms after a      *)
(* success it accepts itself, 1500 ms after a failure it restarts the      *)
(* game.  gameSuccess and gameFailure are direct connections, so the       *)
(* dialog's slot runs inside the engine's.                                 *)
(***************************************************************************)
EXTENDS GameEngine

VARIABLES
    acceptShots,    \* pending singleShot(800) calls of onButtonGameSuccess()
    restartShots,   \* pending singleShot(1500) calls of onButtonGameFailure()
    dialogOpen      \* dlg.exec() has not returned

vars == <<engineVars, acceptShots, restartShots, dialogOpen>>

(* buildButtonUi() starts the game before the dialog is shown.             *)
Init ==
    /\ state = "PLAYING"
    /\ target \in TargetMin..TargetMax
    /\ count = 0
    /\ secondsLeft = GameDuration
    /\ countdownTimer = TRUE
    /\ successTimer = FALSE
    /\ acceptShots = 0
    /\ restartShots = 0
    /\ dialogOpen = TRUE

(* onButtonGameSuccess() and onButtonGameFailure(), called by the engine's *)
(* step that reaches the verdict.                                          *)
OnVerdict ==
    /\ acceptShots' = IF state # "SUCCESS" /\ state' = "SUCCESS"
                      THEN acceptShots + 1 ELSE acceptShots
    /\ restartShots' = IF state # "FAILURE" /\ state' = "FAILURE"
                       THEN restartShots + 1 ELSE restartShots

(* onButtonPressedForGame(): the button watcher's signal is forwarded to   *)
(* the engine, which ignores it unless a round is being played.            *)
OnButtonPressedForGame ==
    /\ dialogOpen
    /\ OnButtonPressed
    /\ OnVerdict
    /\ UNCHANGED dialogOpen

Tick ==
    /\ dialogOpen
    /\ OnCountdownTick
    /\ OnVerdict
    /\ UNCHANGED dialogOpen

SuccessTimer ==
    /\ dialogOpen
    /\ OnSuccessTimerFired
    /\ OnVerdict
    /\ UNCHANGED dialogOpen

\* Mutant of AcceptShot: the dialog closes itself on any pending shot.
AcceptOnAnyShot ==
    /\ dialogOpen
    /\ acceptShots + restartShots > 0
    /\ dialogOpen' = FALSE
    /\ UNCHANGED <<engineVars, acceptShots, restartShots>>

(* The lambda of the 800 ms single shot: accept(), the dialog is gone and  *)
(* the timers it owns with it.                                             *)
AcceptShot ==
    /\ dialogOpen
    /\ acceptShots > 0
    /\ acceptShots' = acceptShots - 1
    /\ dialogOpen' = FALSE
    /\ UNCHANGED <<engineVars, restartShots>>

\* Mutant of RestartShot: the engine is asked for startGame(), whose guard
\* refuses it after a failure.
RestartByStartGame ==
    /\ dialogOpen
    /\ restartShots > 0
    /\ restartShots' = restartShots - 1
    /\ UNCHANGED <<engineVars, acceptShots, dialogOpen>>

(* The lambda of the 1500 ms single shot.                                  *)
RestartShot ==
    /\ dialogOpen
    /\ restartShots > 0
    /\ restartShots' = restartShots - 1
    /\ RestartGame
    /\ UNCHANGED <<acceptShots, dialogOpen>>

(* exec() has returned; the rest is up to MainWindow.                      *)
Returned == ~dialogOpen /\ UNCHANGED vars

(* closeEvent() and reject() are blocked in Button mode, so there is no    *)
(* other way out of the dialog.                                            *)
Next ==
    \/ OnButtonPressedForGame
    \/ Tick
    \/ SuccessTimer
    \/ AcceptShot
    \/ RestartShot
    \/ Returned

(* Started QTimers and single shots are delivered while exec() runs.  No   *)
(* fairness on the button: nobody has to play.                             *)
Fairness ==
    /\ WF_vars(Tick)
    /\ WF_vars(SuccessTimer)
    /\ WF_vars(AcceptShot)
    /\ WF_vars(RestartShot)

Spec == Init /\ [][Next]_vars /\ Fairness

-----------------------------------------------------------------------------
(* Type invariant: the engine's, and at most one shot of each kind.        *)
TypeOK ==
    /\ EngineTypeOK
    /\ acceptShots \in 0..1
    /\ restartShots \in 0..1
    /\ dialogOpen \in BOOLEAN

(* While the dialog is open, a decided round has exactly the one pending   *)
(* shot that answers it and an undecided one has none: a lost round is     *)
(* never left without its restart, a stale restart never interrupts a      *)
(* running round, and a won game is never restarted under the player.      *)
ShotsAnswerVerdict ==
    dialogOpen => /\ acceptShots = (IF state = "SUCCESS" THEN 1 ELSE 0)
                  /\ restartShots = (IF state = "FAILURE" THEN 1 ELSE 0)

(* The alarm is silenced only by a won game: the dialog closes in a state  *)
(* whose count stands on the target.                                       *)
DismissedOnlyByWinning == ~dialogOpen => state = "SUCCESS" /\ count = target

(* What holds of the dialog and its engine at every moment: timers,        *)
(* count, verdict and pending shots agree, in whatever order presses,      *)
(* ticks and single shots are delivered, and the dialog is closed only by  *)
(* a won round.                                                            *)
DialogInv ==
    /\ EngineInv
    /\ acceptShots \in 0..1 /\ restartShots \in 0..1
    /\ dialogOpen \in BOOLEAN
    /\ ShotsAnswerVerdict
    /\ DismissedOnlyByWinning

(* The dialog never freezes: a round that is played is decided, a lost one *)
(* is played again, a won one closes the dialog, even if the button is     *)
(* never touched.                                                          *)
DialogKeepsMoving ==
    /\ state = "PLAYING" ~> state \in {"SUCCESS", "FAILURE"}
    /\ state = "FAILURE" ~> state = "PLAYING"
    /\ state = "SUCCESS" ~> ~dialogOpen

(* What the dialog promises, Challenge: one round has to be won, it is     *)
(* played again until it is, and then, and only then, the dialog closes by *)
(* itself.                                                                 *)
Abstract == INSTANCE Challenge WITH
    MaxSteps <- 1,
    left <- IF state = "SUCCESS" THEN 0 ELSE 1,
    won <- ~dialogOpen

MeetsChallenge == Abstract!ChallengeSpec
=============================================================================
