----------------------------- MODULE AlarmDialog -----------------------------
(***************************************************************************)
(* The dialog that adds or edits an alarm (app/alarmdialog.cpp): the time  *)
(* wheels with their long-press repeat, the weekday buttons with their     *)
(* debounce locks, the date summary and the date selector.                 *)
(* Which dialogs are open, and which of them gets the user's input, is in  *)
(* Screens; what onConfirm() makes of them, the moment the alarm is due,   *)
(* is in AlarmList and RepeatSchedule.  Sound, dismiss mode and game are   *)
(* left out here: each is a field that its own widget alone writes.        *)
(***************************************************************************)
EXTENDS Naturals, FiniteSets

CONSTANTS
    HalfDay,        \* hours on the dial: 12 in the code
    MinuteCount,    \* 60 in the code
    Weekdays,       \* 0..6 in the code
    LastMonth,      \* 12 in the code
    FirstYear, LastYear, \* 2000 and 2099 in the code
    DaysIn          \* daysInMonth(): DaysIn[year][month]

Years == FirstYear..LastYear
Months == 1..LastMonth

ASSUME DialogConstants ==
    /\ HalfDay \in Nat /\ HalfDay > 1
    /\ MinuteCount \in Nat \ {0}
    /\ LastMonth \in Nat \ {0}
    /\ FirstYear \in Nat /\ LastYear \in Nat /\ FirstYear <= LastYear
    /\ DaysIn \in [ Years -> [ Months -> Nat \ {0} ] ]

DatesOf(y, m) == { [year |-> y, month |-> m, day |-> d] : d \in 1..DaysIn[y][m] }
Dates == UNION { DatesOf(p[1], p[2]) : p \in Years \X Months }
Times == [hour : 0..(2 * HalfDay - 1), minute : 0..(MinuteCount - 1)]

VARIABLES
    calendarOpen,   \* the date selector is open above the dialog
    time,           \* m_ampm, m_hour12, m_minute
    checked,        \* the weekday buttons that are down
    locked,         \* the weekday buttons whose debounce lock is set
    summary,        \* m_dateSummaryLabel: "repeat", "date" or "none"
    specific,       \* m_useSpecificDate
    date,           \* m_specificDate
    picked,         \* the date selector's year, month and day
    held            \* the wheel button that is down: its timer repeats it

alarmDialogVars == <<calendarOpen, time, checked, locked, summary, specific,
                     date, picked, held>>

-----------------------------------------------------------------------------
(* Conversions between 24 hours and the dial.                              *)

(* setTimeFromDateTime()                                                   *)
OnDial(t) ==
    [ ampm |-> IF t.hour >= HalfDay THEN 1 ELSE 0,
      hour12 |-> CASE t.hour = 0       -> HalfDay
                   [] t.hour > HalfDay -> t.hour - HalfDay
                   [] OTHER            -> t.hour,
      minute |-> t.minute ]

(* selectedTime()                                                          *)
SelectedTime(d) ==
    [ hour |-> CASE d.hour12 = HalfDay -> (IF d.ampm = 1 THEN HalfDay ELSE 0)
                 [] d.hour12 # HalfDay /\ d.ampm = 1 -> d.hour12 + HalfDay
                 [] OTHER -> d.hour12,
      minute |-> d.minute ]

(* A wheel from first to last.                                             *)
Up(n, first, last) == IF n + 1 > last THEN first ELSE n + 1
Down(n, first, last) == IF n = first THEN last ELSE n - 1

Wheels == {"hour+", "hour-", "minute+", "minute-"}

Turned(wheel) ==
    CASE wheel = "hour+"   -> [ time EXCEPT !.hour12 = Up(@, 1, HalfDay) ]
      [] wheel = "hour-"   -> [ time EXCEPT !.hour12 = Down(@, 1, HalfDay) ]
      [] wheel = "minute+" -> [ time EXCEPT !.minute = Up(@, 0, MinuteCount - 1) ]
      [] wheel = "minute-" -> [ time EXCEPT !.minute = Down(@, 0, MinuteCount - 1) ]

PickWheels == {"year+", "year-", "month+", "month-", "day+", "day-"}

\* Mutant of Refreshed: a day past the end of the month stays.
RefreshedNot(d) == d

(* refresh() of the date selector                                          *)
Refreshed(d) ==
    [ d EXCEPT !.day = IF @ > DaysIn[d.year][d.month] THEN DaysIn[d.year][d.month] ELSE @ ]

PickTurned(wheel) ==
    LET last == DaysIn[picked.year][picked.month] IN
    Refreshed(
      CASE wheel = "year+"  -> [ picked EXCEPT !.year = Up(@, FirstYear, LastYear) ]
        [] wheel = "year-"  -> [ picked EXCEPT !.year = Down(@, FirstYear, LastYear) ]
        [] wheel = "month+" -> [ picked EXCEPT !.month = Up(@, 1, LastMonth) ]
        [] wheel = "month-" -> [ picked EXCEPT !.month = Down(@, 1, LastMonth) ]
        [] wheel = "day+"   -> [ picked EXCEPT !.day = Up(@, 1, last) ]
        [] wheel = "day-"   -> [ picked EXCEPT !.day = Down(@, 1, last) ])

(* refreshDateSummary()                                                    *)
SummaryOf(days, useDate) ==
    CASE days # {} -> "repeat"
      [] days = {} /\ useDate -> "date"
      [] OTHER -> "none"

-----------------------------------------------------------------------------
AnyDate == CHOOSE d \in Dates : TRUE
AlarmDialogInit ==
    /\ calendarOpen = FALSE
    /\ time = OnDial([hour |-> 0, minute |-> 0])
    /\ checked = {} /\ locked = {}
    /\ summary = "none"
    /\ specific = FALSE
    /\ date = AnyDate /\ picked = AnyDate
    /\ held = "none"

(* The constructor, for the time, the weekdays and the date of an alarm    *)
(* or, for a new alarm, for now.                                           *)
OpenAlarmDialog ==
    /\ \E t \in Times : time' = OnDial(t)
    /\ checked' \in SUBSET Weekdays
    /\ specific' \in BOOLEAN
    /\ date' \in Dates
    /\ picked' = date'
    /\ summary' = SummaryOf(checked', specific')
    /\ locked' = {} /\ held' = "none" /\ calendarOpen' = FALSE

(* A finger rests on one button at a time.                                 *)
Idle == ~calendarOpen /\ held = "none"

(* connectRepeatButton(): pressed() turns the wheel and starts the timer.  *)
PressWheel(wheel) ==
    /\ Idle
    /\ time' = Turned(wheel)
    /\ held' = wheel
    /\ UNCHANGED <<calendarOpen, checked, locked, summary, specific, date, picked>>

(* The same in the date selector, connectCalBtn().                         *)
PressPick(wheel) ==
    /\ calendarOpen /\ held = "none"
    /\ picked' = PickTurned(wheel)
    /\ held' = wheel
    /\ UNCHANGED <<calendarOpen, time, checked, locked, summary, specific, date>>

(* The repeat timer, 600 ms after the press and then every 150 ms.         *)
RepeatTimeout ==
    /\ \/ held \in Wheels /\ time' = Turned(held) /\ UNCHANGED picked
       \/ held \in PickWheels /\ picked' = PickTurned(held) /\ UNCHANGED time
    /\ UNCHANGED <<calendarOpen, checked, locked, summary, specific, date, held>>

Release ==
    /\ held # "none"
    /\ held' = "none"
    /\ UNCHANGED <<calendarOpen, time, checked, locked, summary, specific, date, picked>>

(* increaseAmPm() and decreaseAmPm()                                       *)
FlipAmPm ==
    /\ Idle
    /\ time' = [ time EXCEPT !.ampm = 1 - @ ]
    /\ UNCHANGED <<calendarOpen, checked, locked, summary, specific, date, picked, held>>

(* A click on a weekday: Qt has toggled the button; while its lock is set  *)
(* the slot toggles it back.                                               *)
ClickWeekday(i) ==
    /\ Idle
    /\ IF i \in locked
       THEN UNCHANGED <<checked, locked, summary>>
       ELSE /\ checked' = IF i \in checked THEN checked \ {i} ELSE checked \union {i}
            /\ locked' = locked \union {i}
            /\ summary' = SummaryOf(checked', specific)
    /\ UNCHANGED <<calendarOpen, time, specific, date, picked, held>>

(* The 300 ms of a lock are over.                                          *)
Unlock(i) ==
    /\ i \in locked
    /\ locked' = locked \ {i}
    /\ UNCHANGED <<calendarOpen, time, checked, summary, specific, date, picked, held>>

OpenCalendarDialog ==
    /\ Idle
    /\ calendarOpen' = TRUE
    /\ picked' = Refreshed(date)
    /\ UNCHANGED <<time, checked, locked, summary, specific, date, held>>

(* "Set Date", "Use Auto Date" and "Cancel" of the date selector.          *)
CloseCalendar ==
    /\ calendarOpen /\ held = "none"
    /\ calendarOpen' = FALSE
    /\ \/ specific' = TRUE  /\ date' = picked       /\ summary' = SummaryOf(checked, TRUE)
       \/ specific' = FALSE /\ UNCHANGED date       /\ summary' = SummaryOf(checked, FALSE)
       \/ UNCHANGED <<specific, date, summary>>
    /\ UNCHANGED <<time, checked, locked, picked, held>>

AlarmDialogInput ==
    \/ \E w \in Wheels : PressWheel(w)
    \/ \E w \in PickWheels : PressPick(w)
    \/ RepeatTimeout
    \/ Release
    \/ FlipAmPm
    \/ \E i \in Weekdays : ClickWeekday(i) \/ Unlock(i)
    \/ OpenCalendarDialog
    \/ CloseCalendar

-----------------------------------------------------------------------------
AlarmDialogTypeOK ==
    /\ calendarOpen \in BOOLEAN
    /\ time \in [ampm : 0..1, hour12 : 1..HalfDay, minute : 0..(MinuteCount - 1)]
    /\ checked \subseteq Weekdays /\ locked \subseteq Weekdays
    /\ summary \in {"repeat", "date", "none"}
    /\ specific \in BOOLEAN
    /\ date \in Dates
    /\ held \in Wheels \union PickWheels \union {"none"}

(* The date selector never stands on a day that its month does not have,   *)
(* whatever wheel turned last and however long it was held: the QDate that *)
(* "Set Date" makes is a valid one.                                        *)
PickedDateExists == picked \in Dates

(* The line under the weekday buttons says what onConfirm() would do now:  *)
(* repeat, the chosen date, or the next time the clock shows that time.    *)
SummaryTells == summary = SummaryOf(checked, specific)

(* Putting a time on the dial and reading it back gives the same time, so  *)
(* that editing an alarm without touching it leaves its time: the dial     *)
(* shows exactly one time of day.                                          *)
TimeRoundTrips ==
    /\ SelectedTime(time) \in Times
    /\ OnDial(SelectedTime(time)) = time

(* What the alarm dialog shows at every moment: a date that exists, a      *)
(* summary that says what is selected, and a time that survives the way    *)
(* to the dial and back.                                                   *)
AlarmDialogInv ==
    /\ AlarmDialogTypeOK
    /\ PickedDateExists
    /\ SummaryTells
    /\ TimeRoundTrips
=============================================================================
