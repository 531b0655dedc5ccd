------------------------------ MODULE AlarmSound ------------------------------
(***************************************************************************)
(* The sound of a ringing alarm (app/mainwindow.cpp, updateCurrentTime()): *)
(* one QProcess that runs aplay, a timer that starts it again every 200 ms *)
(* while the dismiss dialog is open, and the terminate, wait, kill at the  *)
(* end of the dismissal.                                                   *)
(*                                                                         *)
(* QProcess learns of its child's start and death only in the event loop   *)
(* or in waitForFinished(), and start() is ignored until then.  The main   *)
(* thread is in the event loop except during waitForFinished(500).         *)
(***************************************************************************)
EXTENDS Naturals

CONSTANT SoundFiles     \* the sound files of the alarms

Silence == "none"

ASSUME SoundConstants == Silence \notin SoundFiles

VARIABLES
    main,       \* "idle"; "ringing": in dlg.exec(); "waiting": in
                \* waitForFinished(500)
    ringing,    \* soundFile of the alarm that rings, or Silence
    looping,    \* the file of the running loop timer, or Silence
    player,     \* m_alarmPlayer->state()
    child,      \* the file aplay plays, or Silence: there is no such process
    killed      \* the process was sent SIGKILL

soundVars == <<main, ringing, looping, player, child, killed>>

PlayerStates == {"NotRunning", "Starting", "Running"}

SoundInit ==
    /\ main = "idle"
    /\ ringing = Silence
    /\ looping = Silence
    /\ player = "NotRunning"
    /\ child = Silence
    /\ killed = FALSE

(* m_alarmPlayer->start(): refused unless the player is NotRunning.        *)
StartPlayer(f) ==
    IF player = "NotRunning"
    THEN player' = "Starting" /\ child' = f /\ killed' = FALSE
    ELSE UNCHANGED <<player, child, killed>>

-----------------------------------------------------------------------------
(* updateCurrentTime(), up to dlg.exec().                                  *)

\* Mutant of Ring: the sound is played once, without the loop timer.
RingOnce(f) ==
    /\ main = "idle"
    /\ main' = "ringing"
    /\ ringing' = f
    /\ StartPlayer(f)
    /\ UNCHANGED looping

Ring(f) ==
    /\ main = "idle"
    /\ main' = "ringing"
    /\ ringing' = f
    /\ looping' = f
    /\ StartPlayer(f)

(* The timeout of the loop timer, in whatever event loop runs.             *)
LoopTick ==
    /\ main # "waiting"
    /\ looping # Silence
    /\ StartPlayer(looping)
    /\ UNCHANGED <<main, ringing, looping>>

\* Mutant of Dismissed: the loop timer is left to the next dismissal.
DismissedLooping ==
    /\ main = "ringing"
    /\ main' = "waiting"
    /\ UNCHANGED <<ringing, looping, player, child, killed>>

(* dlg.exec() has returned: the loop timer is stopped, the logs and alarms *)
(* are written, and the player is asked to terminate.                      *)
Dismissed ==
    /\ main = "ringing"
    /\ main' = "waiting"
    /\ looping' = Silence
    /\ UNCHANGED <<ringing, player, child, killed>>

(* waitForFinished(500) returns at once for a player that is NotRunning,   *)
(* or when it has seen the process end.                                    *)
WaitReturns ==
    /\ main = "waiting"
    /\ player = "NotRunning"
    /\ main' = "idle"
    /\ ringing' = Silence
    /\ UNCHANGED <<looping, player, child, killed>>

\* Mutant of WaitTimesOut: the player that does not terminate is left alone.
WaitGivesUp ==
    /\ main = "waiting"
    /\ player # "NotRunning"
    /\ main' = "idle"
    /\ ringing' = Silence
    /\ UNCHANGED <<looping, player, child, killed>>

\* Mutant of WaitTimesOut: it is waited for until it is gone.
WaitForEver ==
    /\ main = "waiting"
    /\ player # "NotRunning"
    /\ UNCHANGED soundVars

(* The 500 ms are over: kill(), which is not waited for.                   *)
WaitTimesOut ==
    /\ main = "waiting"
    /\ player # "NotRunning"
    /\ main' = "idle"
    /\ ringing' = Silence
    /\ killed' = (child # Silence)
    /\ UNCHANGED <<looping, player, child>>

-----------------------------------------------------------------------------
(* The process: aplay ends with its file, cannot open the device, ends on  *)
(* SIGTERM or hangs in the driver; it does not survive SIGKILL.            *)

ChildEnds ==
    /\ child # Silence
    /\ child' = Silence
    /\ killed' = FALSE
    /\ UNCHANGED <<main, ringing, looping, player>>

(* QProcess sees that its child has started, or that it could not be.      *)
NoticeStart ==
    /\ player = "Starting"
    /\ \/ player' = "Running" /\ UNCHANGED child
       \/ player' = "NotRunning" /\ child' = Silence
    /\ killed' = (killed /\ child' # Silence)
    /\ UNCHANGED <<main, ringing, looping>>

NoticeEnd ==
    /\ player = "Running"
    /\ child = Silence
    /\ player' = "NotRunning"
    /\ UNCHANGED <<main, ringing, looping, child, killed>>

SoundNext ==
    \/ \E f \in SoundFiles : Ring(f)
    \/ LoopTick
    \/ Dismissed \/ WaitReturns \/ WaitTimesOut
    \/ ChildEnds \/ NoticeStart \/ NoticeEnd

(* Started timers fire, QProcess's notifications are delivered, and a      *)
(* killed process ends.  aplay starts successfully again and again if it   *)
(* is tried again and again.  Nobody has to dismiss, no file has to end.   *)
SoundFairness ==
    /\ WF_soundVars(LoopTick)
    /\ WF_soundVars(WaitReturns) /\ WF_soundVars(WaitTimesOut)
    /\ WF_soundVars(killed /\ ChildEnds)
    /\ WF_soundVars(NoticeStart) /\ WF_soundVars(NoticeEnd)
    /\ SF_soundVars(NoticeStart /\ player' = "Running" /\ child # Silence)

SoundSpec == SoundInit /\ [][SoundNext]_soundVars /\ SoundFairness

-----------------------------------------------------------------------------
(* Type invariant.                                                         *)
SoundTypeOK ==
    /\ main \in {"idle", "ringing", "waiting"}
    /\ ringing \in SoundFiles \union {Silence}
    /\ looping \in SoundFiles \union {Silence}
    /\ player \in PlayerStates
    /\ child \in SoundFiles \union {Silence}
    /\ killed \in BOOLEAN

(* While an alarm rings, no other alarm's sound plays but in a process     *)
(* that has been sent SIGKILL: an alarm that follows on a dismissal never  *)
(* rings with the tune of the one before it, although start() may have     *)
(* been refused because of it.                                             *)
NoForeignTune ==
    main = "ringing" /\ child \notin {Silence, ringing} => killed

(* What holds of clock, timer and player at every moment: no alarm rings   *)
(* with another one's tune.                                                *)
SoundInv ==
    /\ SoundTypeOK
    /\ NoForeignTune

(* No sound is started while no alarm rings: stopping the loop timer comes *)
(* before terminating the player, so it is not started again.              *)
NoSoundWithoutAlarm ==
    [][ child' # child /\ child' # Silence => main' = "ringing" /\ child' = ringing' ]_soundVars

(* A ringing alarm is heard with its own sound, whatever became of the     *)
(* player of the alarm before it and of earlier attempts, until it is      *)
(* dismissed.                                                              *)
RingingIsHeard ==
    \A f \in SoundFiles :
        main = "ringing" /\ ringing = f ~> (child = f /\ player = "Running") \/ main # "ringing"

(* After a dismissal it becomes silent, or the next alarm rings.           *)
BecomesSilent == main = "waiting" ~> (main = "idle" /\ child = Silence) \/ main = "ringing"
=============================================================================
