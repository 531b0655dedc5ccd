---------------------------- MODULE RepeatSchedule ----------------------------
(***************************************************************************)
(* Dates and times as the alarm clock uses them, and the next occurrence   *)
(* of a weekly alarm.  A moment is a natural number of clock units since   *)
(* midnight of day 0, DayLength units to a day; a day's weekday index is   *)
(* its number modulo WeekLength (7 in the code).  A repeat mask is the set *)
(* of weekday indices whose bit is set.                                    *)
(***************************************************************************)
EXTENDS Integers

CONSTANTS
    DayLength,      \* clock units in a day
    WeekLength      \* days in a week, 7 in the code

ASSUME CalendarConstants ==
    /\ DayLength \in Nat \ {0}
    /\ WeekLength \in Nat \ {0}

TimesOfDay == 0..(DayLength - 1)
Weekdays == 0..(WeekLength - 1)

Day(t) == t \div DayLength
TimeOfDay(t) == t % DayLength
Moment(day, tod) == day * DayLength + tod

(* weekdayIndexFromDate() *)
WeekdayIndex(day) == day % WeekLength

(* computeNextRepeatDateTime() of the main window and its twin             *)
(* AlarmDialog::computeNextForRepeat(): today and the seven days after it  *)
(* are tried in order; tomorrow is the answer when none fits.              *)
NextRepeat(now, tod, mask) ==
    LET Hits == { o \in 0..WeekLength :
                    /\ WeekdayIndex(Day(now) + o) \in mask
                    /\ Moment(Day(now) + o, tod) > now }
    IN  IF Hits = {} THEN Moment(Day(now) + 1, tod)
        ELSE Moment(Day(now) + (CHOOSE o \in Hits : \A p \in Hits : o <= p), tod)

(* The date a one-shot alarm gets when none is chosen: today, or tomorrow  *)
(* if the time of day has passed.                                          *)
NextOneShot(now, tod) ==
    IF tod <= TimeOfDay(now) THEN Moment(Day(now) + 1, tod)
                             ELSE Moment(Day(now), tod)

=============================================================================
