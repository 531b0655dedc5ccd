------------------------------ MODULE AlarmList ------------------------------
(***************************************************************************)
(* m_alarms as a sequence of entries, and what MainWindow computes from    *)
(* it: the order of the rows, the alarms that are due, the challenge the   *)
(* dismiss dialog poses, an entry after its dismissal and after a reload.  *)
(* soundFile, useSpecificDate and the derived logFile of an AlarmEntry are *)
(* left out: no decision depends on them (the log file is the one of the   *)
(* entry's id).                                                            *)
(***************************************************************************)
EXTENDS RepeatSchedule, Sequences, FiniteSets

Games == {"NumberOrder", "ColorMemory", "Ultrasonic"}
DismissModes == Games \union {"Simple", "Button", "Camera"}

(* AlarmEntry; a mode stands for dismissMode together with gameType.       *)
Entries == [ id : Nat \ {0}, at : Nat, enabled : BOOLEAN,
             mask : SUBSET Weekdays, mode : DismissModes ]

Ids(list) == { list[i].id : i \in DOMAIN list }

(* i is placed before j: by time, and in the present order when the times  *)
(* are equal.  std::sort is an insertion sort up to 16 elements and keeps  *)
(* that order; beyond, it promises nothing about equal times.              *)
Precedes(list, i, j) ==
    \/ list[i].at < list[j].at
    \/ list[i].at = list[j].at /\ i <= j

Rank(list, j) == Cardinality({ i \in DOMAIN list : Precedes(list, i, j) })

\* Mutant of SortAlarmsByTime: equal times are put in reverse order.
SortUnstable(list) ==
    LET RankBack(j) ==
          Cardinality({ i \in DOMAIN list :
                          \/ list[i].at < list[j].at
                          \/ list[i].at = list[j].at /\ i >= j })
    IN  [ k \in 1..Len(list) |-> list[CHOOSE j \in DOMAIN list : RankBack(j) = k] ]

(* sortAlarmsByTime() *)
SortAlarmsByTime(list) ==
    [ k \in 1..Len(list) |-> list[CHOOSE j \in DOMAIN list : Rank(list, j) = k] ]

(* m_alarms.removeAt(row) *)
RemoveRow(list, r) ==
    [ k \in 1..(Len(list) - 1) |-> IF k < r THEN list[k] ELSE list[k + 1] ]

(* updateCurrentTime(): the TriggeredInfo of every enabled alarm whose     *)
(* time has come.  The list of the code is this set in order of index.     *)
Triggered(list, now) ==
    { [ index |-> i, id |-> list[i].id, at |-> list[i].at, mode |-> list[i].mode ] :
        i \in { j \in DOMAIN list : list[j].enabled /\ now >= list[j].at } }

(* The dialog's mode: Camera before Button before the games before Simple; *)
(* of several games the last triggered one wins.                           *)
ChallengeFor(due) ==
    LET ModesOf == { t.mode : t \in due }
        GamesDue == { t \in due : t.mode \in Games }
    IN  CASE "Camera" \in ModesOf -> "Camera"
          [] "Camera" \notin ModesOf /\ "Button" \in ModesOf -> "Button"
          [] ModesOf \cap {"Camera", "Button"} = {} /\ GamesDue # {} ->
               (CHOOSE t \in GamesDue : \A u \in GamesDue : u.index <= t.index).mode
          [] OTHER -> "Simple"

\* Mutant of AfterDismissal: the next occurrence is left to the next start.
DismissedStaysArmed(e, now) ==
    IF e.mask # {} THEN [ e EXCEPT !.enabled = TRUE ]
                   ELSE [ e EXCEPT !.enabled = FALSE ]

(* A repeating alarm moves to its next occurrence, a one-shot is disabled. *)
AfterDismissal(e, now) ==
    IF e.mask # {}
    THEN [ e EXCEPT !.enabled = TRUE,
                    !.at = NextRepeat(now, TimeOfDay(e.at), e.mask) ]
    ELSE [ e EXCEPT !.enabled = FALSE ]

(* The Enable button of a row.                                             *)
Reenabled(e, now) ==
    [ e EXCEPT !.enabled = TRUE,
               !.at = IF e.mask # {}
                      THEN NextRepeat(now, TimeOfDay(e.at), e.mask)
                      ELSE NextOneShot(now, TimeOfDay(e.at)) ]

(* loadAlarms(), one entry: an enabled alarm whose time passed while the   *)
(* program was not running is advanced if it repeats, else disabled.       *)
Reloaded(e, now) ==
    CASE e.enabled /\ e.at <= now /\ e.mask = {} -> [ e EXCEPT !.enabled = FALSE ]
      [] e.enabled /\ e.at <= now /\ e.mask # {} ->
           [ e EXCEPT !.at = NextRepeat(now, TimeOfDay(e.at), e.mask) ]
      [] OTHER -> e

(* What onConfirm() can hand back at moment now: a repeating alarm's next  *)
(* occurrence, the date picked in the calendar (which may lie in the       *)
(* past), or today or tomorrow.                                            *)
ConfirmedTimes(now, masks, dates) ==
    { [ at |-> NextRepeat(now, tod, m), mask |-> m ] :
        tod \in TimesOfDay, m \in masks \ {{}} }
    \union { [ at |-> Moment(d, tod), mask |-> {} ] : d \in dates, tod \in TimesOfDay }
    \union { [ at |-> NextOneShot(now, tod), mask |-> {} ] : tod \in TimesOfDay }
=============================================================================
