---------------------------- MODULE ScreensProofs ----------------------------
(***************************************************************************)
(* For any calendar, dial, length of the logs, set of addresses and number *)
(* of nested event loops: each dialog shows what there is to show, on      *)
(* whichever path and above whichever waits it was reached, and no dialog  *)
(* lies above another one of its kind.                                     *)
(***************************************************************************)
EXTENDS Screens, FiniteSetTheorems, SequenceTheorems, TLAPS

-----------------------------------------------------------------------------
(* The alarm dialog.                                                       *)

(* What the code has in the year, month and day of the date selector       *)
(* before refresh() has looked at the day.                                 *)
YearMonthDays == [year : Years, month : Months, day : Nat \ {0}]

(* What the time wheels can show.                                          *)
Dial == [ampm : 0..1, hour12 : 1..HalfDay, minute : 0..(MinuteCount - 1)]

(* Every month has days.                                                   *)
LEMMA MonthLengths ==
    ASSUME NEW y \in Years, NEW m \in Months
    PROVE  DaysIn[y][m] \in Nat \ {0}
BY DialogConstants

(* A date is a year, a month and one of the days of that month.            *)
LEMMA DateParts ==
    ASSUME NEW d \in Dates
    PROVE  /\ d \in YearMonthDays
           /\ d.day <= DaysIn[d.year][d.month]
<1>1. PICK p \in Years \X Months : d \in DatesOf(p[1], p[2])
  BY DEF Dates
<1>2. p[1] \in Years /\ p[2] \in Months
  BY <1>1
<1>3. PICK k \in 1..DaysIn[p[1]][p[2]] : d = [year |-> p[1], month |-> p[2], day |-> k]
  BY <1>1 DEF DatesOf
<1>4. QED
  BY <1>2, <1>3, MonthLengths DEF YearMonthDays

(* A year, a month and one of its days are a date.                         *)
LEMMA PartsDate ==
    ASSUME NEW d \in YearMonthDays, d.day <= DaysIn[d.year][d.month]
    PROVE  d \in Dates
<1>1. d.year \in Years /\ d.month \in Months /\ d.day \in Nat \ {0}
  BY DEF YearMonthDays
<1>2. d.day \in 1..DaysIn[d.year][d.month]
  BY <1>1, MonthLengths
<1>3. d = [year |-> d.year, month |-> d.month, day |-> d.day]
  BY DEF YearMonthDays
<1>4. d \in DatesOf(d.year, d.month)
  BY <1>2, <1>3 DEF DatesOf
<1>5. <<d.year, d.month>> \in Years \X Months
  BY <1>1
<1>6. QED
  BY <1>4, <1>5 DEF Dates

(* There is a date.                                                        *)
LEMMA SomeDate == AnyDate \in Dates
<1> DEFINE d == [year |-> FirstYear, month |-> 1, day |-> 1]
<1>1. FirstYear \in Years /\ 1 \in Months
  BY DialogConstants DEF Years, Months
<1>2. DaysIn[FirstYear][1] \in Nat \ {0}
  BY <1>1, MonthLengths
<1>3. d \in YearMonthDays
  BY <1>1 DEF YearMonthDays
<1>4. d \in Dates
  BY <1>2, <1>3, PartsDate
<1>5. QED
  BY <1>4 DEF AnyDate

(* refresh() leaves a day that its month has.                              *)
LEMMA RefreshedIsDate ==
    ASSUME NEW d \in YearMonthDays
    PROVE  Refreshed(d) \in Dates
<1>1. d.year \in Years /\ d.month \in Months /\ d.day \in Nat \ {0}
  BY DEF YearMonthDays
<1>2. DaysIn[d.year][d.month] \in Nat \ {0}
  BY <1>1, MonthLengths
<1>3. /\ Refreshed(d) \in YearMonthDays
      /\ Refreshed(d).year = d.year /\ Refreshed(d).month = d.month
      /\ Refreshed(d).day <= DaysIn[d.year][d.month]
  BY <1>1, <1>2 DEF Refreshed, YearMonthDays
<1>4. QED
  BY <1>3, PartsDate

(* A wheel stays between its ends.                                         *)
LEMMA WheelStays ==
    ASSUME NEW first \in Nat, NEW last \in Nat, NEW n \in first..last
    PROVE  Up(n, first, last) \in first..last /\ Down(n, first, last) \in first..last
BY DEF Up, Down

(* Turning a wheel of the date selector leaves a date.                     *)
LEMMA PickTurnedIsDate ==
    ASSUME picked \in Dates, NEW w \in PickWheels
    PROVE  PickTurned(w) \in Dates
<1> DEFINE last == DaysIn[picked.year][picked.month]
<1>1. /\ picked \in YearMonthDays
      /\ picked.year \in FirstYear..LastYear
      /\ picked.month \in 1..LastMonth
      /\ picked.day \in 1..last /\ last \in Nat
  BY DateParts, MonthLengths DEF YearMonthDays, Years, Months
<1>2. /\ Up(picked.year, FirstYear, LastYear) \in Years
      /\ Down(picked.year, FirstYear, LastYear) \in Years
  BY <1>1, WheelStays, DialogConstants DEF Years
<1>3. /\ Up(picked.month, 1, LastMonth) \in Months
      /\ Down(picked.month, 1, LastMonth) \in Months
  BY <1>1, WheelStays, DialogConstants DEF Months
<1>4. /\ Up(picked.day, 1, last) \in Nat \ {0}
      /\ Down(picked.day, 1, last) \in Nat \ {0}
  <2> HIDE DEF last
  <2>1. Up(picked.day, 1, last) \in 1..last /\ Down(picked.day, 1, last) \in 1..last
    BY <1>1, WheelStays
  <2>2. QED
    BY <1>1, <2>1
<1> HIDE DEF last
<1>5. /\ [ picked EXCEPT !.year = Up(@, FirstYear, LastYear) ] \in YearMonthDays
      /\ [ picked EXCEPT !.year = Down(@, FirstYear, LastYear) ] \in YearMonthDays
      /\ [ picked EXCEPT !.month = Up(@, 1, LastMonth) ] \in YearMonthDays
      /\ [ picked EXCEPT !.month = Down(@, 1, LastMonth) ] \in YearMonthDays
      /\ [ picked EXCEPT !.day = Up(@, 1, last) ] \in YearMonthDays
      /\ [ picked EXCEPT !.day = Down(@, 1, last) ] \in YearMonthDays
  <2>1. /\ \A y \in Years : [ picked EXCEPT !.year = y ] \in YearMonthDays
        /\ \A m \in Months : [ picked EXCEPT !.month = m ] \in YearMonthDays
        /\ \A k \in Nat \ {0} : [ picked EXCEPT !.day = k ] \in YearMonthDays
    BY <1>1 DEF YearMonthDays
  <2>2. QED
    BY <1>2, <1>3, <1>4, <2>1
<1>6. /\ w = "year+" => PickTurned(w) \in Dates
      /\ w = "year-" => PickTurned(w) \in Dates
      /\ w = "month+" => PickTurned(w) \in Dates
      /\ w = "month-" => PickTurned(w) \in Dates
      /\ w = "day+" => PickTurned(w) \in Dates
      /\ w = "day-" => PickTurned(w) \in Dates
  BY <1>5, RefreshedIsDate DEF PickTurned, last
<1>7. QED
  BY <1>6 DEF PickWheels

(* Turning a time wheel leaves a time that the dial can show.              *)
LEMMA TurnedIsOnDial ==
    ASSUME time \in Dial, NEW w \in Wheels
    PROVE  Turned(w) \in Dial
<1>1. time.hour12 \in 1..HalfDay /\ time.minute \in 0..(MinuteCount - 1)
  BY DEF Dial
<1>2. /\ Up(time.hour12, 1, HalfDay) \in 1..HalfDay
      /\ Down(time.hour12, 1, HalfDay) \in 1..HalfDay
      /\ Up(time.minute, 0, MinuteCount - 1) \in 0..(MinuteCount - 1)
      /\ Down(time.minute, 0, MinuteCount - 1) \in 0..(MinuteCount - 1)
  <2>1. MinuteCount - 1 \in Nat /\ HalfDay \in Nat
    BY DialogConstants
  <2>2. QED
    BY <1>1, <2>1, WheelStays
<1>3. /\ w = "hour+" => Turned(w) \in Dial
      /\ w = "hour-" => Turned(w) \in Dial
      /\ w = "minute+" => Turned(w) \in Dial
      /\ w = "minute-" => Turned(w) \in Dial
  BY <1>2 DEF Turned, Dial
<1>4. QED
  BY <1>3 DEF Wheels

(* A time of day is shown on the dial.                                     *)
LEMMA OnDialType ==
    ASSUME NEW t \in Times
    PROVE  OnDial(t) \in Dial
<1>1. t.hour \in 0..(2 * HalfDay - 1) /\ t.minute \in 0..(MinuteCount - 1)
  BY DEF Times
<1>2. /\ t.hour = 0 => OnDial(t) \in Dial
      /\ t.hour > HalfDay => OnDial(t) \in Dial
      /\ t.hour # 0 /\ ~(t.hour > HalfDay) => OnDial(t) \in Dial
  BY <1>1, DialogConstants DEF OnDial, Dial
<1>3. QED
  BY <1>2

(* The dial shows exactly one time of day.                                 *)
LEMMA DialRoundTrip ==
    ASSUME NEW d \in Dial
    PROVE  SelectedTime(d) \in Times /\ OnDial(SelectedTime(d)) = d
<1>1. /\ d.ampm \in 0..1 /\ d.hour12 \in 1..HalfDay /\ d.minute \in 0..(MinuteCount - 1)
      /\ d = [ampm |-> d.ampm, hour12 |-> d.hour12, minute |-> d.minute]
  BY DEF Dial
<1>2. CASE d.hour12 = HalfDay /\ d.ampm = 1
  <2>1. SelectedTime(d) = [hour |-> HalfDay, minute |-> d.minute]
    BY <1>2 DEF SelectedTime
  <2>2. OnDial(SelectedTime(d)) = [ampm |-> 1, hour12 |-> HalfDay, minute |-> d.minute]
    BY <2>1, DialogConstants DEF OnDial
  <2>3. QED
    BY <1>1, <1>2, <2>1, <2>2, DialogConstants DEF Times
<1>3. CASE d.hour12 = HalfDay /\ d.ampm = 0
  <2>1. SelectedTime(d) = [hour |-> 0, minute |-> d.minute]
    BY <1>3 DEF SelectedTime
  <2>2. OnDial(SelectedTime(d)) = [ampm |-> 0, hour12 |-> HalfDay, minute |-> d.minute]
    BY <2>1, DialogConstants DEF OnDial
  <2>3. QED
    BY <1>1, <1>3, <2>1, <2>2, DialogConstants DEF Times
<1>4. CASE d.hour12 # HalfDay /\ d.ampm = 1
  <2>1. SelectedTime(d) = [hour |-> d.hour12 + HalfDay, minute |-> d.minute]
    BY <1>4 DEF SelectedTime
  <2>2. /\ d.hour12 + HalfDay > HalfDay /\ d.hour12 + HalfDay # 0
        /\ (d.hour12 + HalfDay) - HalfDay = d.hour12
    BY <1>1, DialogConstants
  <2>3. OnDial(SelectedTime(d)) = [ampm |-> 1, hour12 |-> d.hour12, minute |-> d.minute]
    BY <2>1, <2>2, <1>1, DialogConstants DEF OnDial
  <2>4. QED
    BY <1>1, <1>4, <2>1, <2>3, DialogConstants DEF Times
<1>5. CASE d.hour12 # HalfDay /\ d.ampm = 0
  <2>1. SelectedTime(d) = [hour |-> d.hour12, minute |-> d.minute]
    BY <1>5 DEF SelectedTime
  <2>2. d.hour12 # 0 /\ ~(d.hour12 > HalfDay) /\ ~(d.hour12 >= HalfDay)
    <3>1. HalfDay \in Nat /\ d.hour12 \in 1..HalfDay /\ d.hour12 # HalfDay
      BY <1>1, <1>5, DialogConstants
    <3>2. QED
      BY <3>1
  <2>3. OnDial(SelectedTime(d)) = [ampm |-> 0, hour12 |-> d.hour12, minute |-> d.minute]
    BY <2>1, <2>2, <1>1, DialogConstants DEF OnDial
  <2>4. QED
    BY <1>1, <1>5, <2>1, <2>3, DialogConstants DEF Times
<1>6. QED
  BY <1>1, <1>2, <1>3, <1>4, <1>5

(* The part of the invariant that is not a consequence of the rest.        *)
AlarmDialogInd == AlarmDialogTypeOK /\ PickedDateExists /\ SummaryTells

(* The inductive invariant implies the one that is checked.                *)
LEMMA AlarmDialogImplied == AlarmDialogInd => AlarmDialogInv
BY DialRoundTrip DEF AlarmDialogInd, AlarmDialogInv, AlarmDialogTypeOK, TimeRoundTrips, Dial

(* The summary of what the dialog shows.                                   *)
LEMMA SummaryType ==
    ASSUME NEW days, NEW useDate
    PROVE  SummaryOf(days, useDate) \in {"repeat", "date", "none"}
BY DEF SummaryOf

(* Midnight is on the dial.                                                *)
LEMMA MidnightOnDial == OnDial([hour |-> 0, minute |-> 0]) \in Dial
<1>1. [hour |-> 0, minute |-> 0] \in Times
  BY DialogConstants DEF Times
<1>2. QED
  BY <1>1, OnDialType

(* A dialog that is not open has nothing wrong.                            *)
LEMMA NoAlarmDialogInd ==
    /\ AlarmDialogInit => AlarmDialogInd
    /\ NoAlarmDialog => AlarmDialogInd'
BY MidnightOnDial, SomeDate
   DEF AlarmDialogInit, NoAlarmDialog, AlarmDialogInd, AlarmDialogTypeOK, PickedDateExists,
       SummaryTells, SummaryOf, Dial

(* The dialog opens with dial, date and summary in agreement.              *)
LEMMA OpenedAlarmDialog == OpenAlarmDialog => AlarmDialogInd'
<1> SUFFICES ASSUME OpenAlarmDialog PROVE AlarmDialogInd'
  OBVIOUS
<1>1. time' \in Dial
  BY OnDialType DEF OpenAlarmDialog
<1>2. summary' \in {"repeat", "date", "none"}
  BY SummaryType DEF OpenAlarmDialog
<1>3. AlarmDialogTypeOK'
  BY <1>1, <1>2 DEF OpenAlarmDialog, AlarmDialogTypeOK, Dial
<1>4. PickedDateExists' /\ SummaryTells'
  BY DEF OpenAlarmDialog, PickedDateExists, SummaryTells
<1>5. QED
  BY <1>3, <1>4 DEF AlarmDialogInd

(* Steps that are not of the dialog leave it alone.                        *)
LEMMA AlarmDialogUnmoved ==
    ASSUME AlarmDialogInd, UNCHANGED alarmDialogVars
    PROVE  AlarmDialogInd'
BY DEF AlarmDialogInd, alarmDialogVars, AlarmDialogTypeOK, PickedDateExists, SummaryTells

(* What every input leaves: the wheels on the dial, the date selector on a *)
(* date, and the summary up to date.                                       *)
LEMMA AlarmDialogStep ==
    ASSUME AlarmDialogInd, AlarmDialogInput
    PROVE  AlarmDialogInd'
<1> USE DEF AlarmDialogInd, AlarmDialogTypeOK, PickedDateExists, SummaryTells, Dial
<1>1. ASSUME NEW w \in Wheels, PressWheel(w) PROVE AlarmDialogInd'
  BY <1>1, TurnedIsOnDial DEF PressWheel
<1>2. ASSUME NEW w \in PickWheels, PressPick(w) PROVE AlarmDialogInd'
  BY <1>2, PickTurnedIsDate DEF PressPick
<1>3. CASE RepeatTimeout
  <2>1. CASE held \in Wheels /\ time' = Turned(held) /\ UNCHANGED picked
    BY <1>3, <2>1, TurnedIsOnDial DEF RepeatTimeout
  <2>2. CASE held \in PickWheels /\ picked' = PickTurned(held) /\ UNCHANGED time
    BY <1>3, <2>2, PickTurnedIsDate DEF RepeatTimeout
  <2>3. QED
    BY <1>3, <2>1, <2>2 DEF RepeatTimeout
<1>4. CASE Release
  BY <1>4 DEF Release
<1>5. CASE FlipAmPm
  BY <1>5 DEF FlipAmPm
<1>6. ASSUME NEW i \in Weekdays, ClickWeekday(i) PROVE AlarmDialogInd'
  BY <1>6, SummaryType DEF ClickWeekday
<1>7. ASSUME NEW i \in Weekdays, Unlock(i) PROVE AlarmDialogInd'
  BY <1>7 DEF Unlock
<1>8. CASE OpenCalendarDialog
  <2>1. Refreshed(date) \in Dates
    BY DateParts, RefreshedIsDate
  <2>2. QED
    BY <1>8, <2>1 DEF OpenCalendarDialog
<1>9. CASE CloseCalendar
  BY <1>9, SummaryType DEF CloseCalendar
<1>10. QED
  BY <1>1, <1>2, <1>3, <1>4, <1>5, <1>6, <1>7, <1>8, <1>9 DEF AlarmDialogInput

-----------------------------------------------------------------------------
(* Numbers.                                                                *)

(* A set of numbers with a bound has a greatest one.                       *)
LEMMA GreatestNatural ==
    ASSUME NEW S, S \subseteq Nat, S # {}, NEW b \in Nat, \A n \in S : n <= b
    PROVE  Max(S) \in S /\ \A n \in S : n <= Max(S)
<1> DEFINE Above == { n..b : n \in S }
<1>1. Above \subseteq FiniteSubsetsOf(Nat)
  <2>1. ASSUME NEW n \in S PROVE n..b \in FiniteSubsetsOf(Nat)
    BY <2>1, FS_Interval DEF FiniteSubsetsOf
  <2>2. QED
    BY <2>1
<1>2. PICK B \in Above : \A C \in Above : ~(<<C, B>> \in StrictSubsetOrdering(Nat))
  <2>1. IsWellFoundedOn(StrictSubsetOrdering(Nat), FiniteSubsetsOf(Nat))
    BY FS_StrictSubsetOrderingWellFounded
  <2>2. Above # {}
    OBVIOUS
  <2> HIDE DEF Above
  <2>3. \A R, T : IsWellFoundedOn(R, T) =>
          (\A U : U \subseteq T /\ U # {} => \E x \in U : \A y \in U : ~(<<y, x>> \in R))
    BY WFMin
  <2>4. QED
    BY <1>1, <2>1, <2>2, <2>3
<1>3. PICK m \in S : B = m..b
  OBVIOUS
<1>4. ASSUME NEW n \in S PROVE n <= m
  <2>1. SUFFICES ASSUME m < n PROVE FALSE
    OBVIOUS
  <2>2. m \in m..b /\ m \notin n..b /\ n..b \subseteq m..b
    BY <2>1
  <2>3. n..b # m..b /\ n..b \subseteq Nat /\ m..b \subseteq Nat
    BY <2>2
  <2>4. <<n..b, m..b>> \in StrictSubsetOrdering(Nat)
    BY <2>2, <2>3 DEF StrictSubsetOrdering
  <2>5. QED
    BY <1>2, <1>3, <2>4
<1>5. m \in S /\ \A n \in S : m >= n
  BY <1>4
<1>6. Max(S) \in S /\ \A n \in S : Max(S) >= n
  BY <1>5, Zenon DEF Max
<1>7. QED
  BY <1>6

(* Multiples of n are n apart.                                             *)
LEMMA LaterMultiple ==
    ASSUME NEW n \in Nat \ {0}, NEW c \in Nat, NEW d \in Nat, c < d
    PROVE  c * n + n <= d * n
<1>1. (d - c) * n = d * n - c * n
  OBVIOUS
<1>2. (d - c) * n >= n
  OBVIOUS
<1>3. QED
  BY <1>1, <1>2

(* Division keeps the order: a later day is not of an earlier month.       *)
LEMMA QuotientGrows ==
    ASSUME NEW n \in Nat \ {0}, NEW c \in Nat, NEW d \in Nat, c <= d
    PROVE  c \div n \in Nat /\ d \div n \in Nat /\ c \div n <= d \div n
<1> DEFINE p == c \div n
           q == d \div n
<1>1. p \in Nat /\ q \in Nat /\ p * n <= c /\ d < q * n + n
  OBVIOUS
<1> HIDE DEF p, q
<1>2. p <= q
  <2>1. SUFFICES ASSUME q < p PROVE FALSE
    BY <1>1
  <2>2. q * n + n <= p * n
    BY <1>1, <2>1, LaterMultiple
  <2>3. q * n \in Nat /\ p * n \in Nat
    BY <1>1
  <2>4. QED
    BY <1>1, <2>2, <2>3
<1>3. QED
  BY <1>1, <1>2 DEF p, q

-----------------------------------------------------------------------------
(* The statistics dialog.                                                  *)

(* Each day has the colour of its slowest dismissal.                       *)
ShowsWorst(data, records) ==
    \A d \in Days :
      LET delays == { r.delay : r \in Timed(records, d) } IN
      /\ (data[d] = 0) <=> (delays = {})
      /\ (data[d] = 1) <=> (delays # {} /\ \A s \in delays : s <= Quick)
      /\ (data[d] = 3) <=> (\E s \in delays : s > Slow)

(* The records of a log.                                                   *)
LEMMA RecordTypes ==
    ASSUME NEW records \in Logs
    PROVE  /\ \E n \in Nat : DOMAIN records = 1..n
           /\ \A i \in DOMAIN records : records[i] \in Records
           /\ ToSet(records) \subseteq Records
<1>1. PICK n \in 0..MaxRecords : records \in [1..n -> Records]
  BY DEF Logs
<1>2. n \in Nat /\ DOMAIN records = 1..n /\ \A i \in DOMAIN records : records[i] \in Records
  BY <1>1
<1>3. QED
  BY <1>2 DEF ToSet

(* The dismissal times of a day.                                           *)
LEMMA TimedTypes ==
    ASSUME NEW records \in Logs, NEW d, NEW r \in Timed(records, d)
    PROVE  r.delay \in Delays /\ r.delay \in Nat /\ d \in Days
<1>1. r \in Records /\ r.day = d /\ r.delay # NoDelay
  BY RecordTypes DEF Timed
<1>2. r \in [day : Days, delay : Delays \union {NoDelay}]
  BY <1>1 DEF Records
<1>3. QED
  BY <1>1, <1>2, StatConstants

(* The colour of one dismissal.                                            *)
LEMMA ColourTypes ==
    ASSUME NEW delay \in Nat
    PROVE  /\ Colour(delay) \in 1..3
           /\ Colour(delay) = 1 <=> delay <= Quick
           /\ Colour(delay) = 3 <=> delay > Slow
BY StatConstants DEF Colour

(* The colour of a day is that of one of its records, and no record has a  *)
(* worse one.                                                              *)
LEMMA DayColour ==
    ASSUME NEW records \in Logs, NEW d \in Days
    PROVE  /\ Coloured(records)[d] \in 0..3
           /\ \A r \in Timed(records, d) : Colour(r.delay) <= Coloured(records)[d]
           /\ \/ Coloured(records)[d] = 0
              \/ \E r \in Timed(records, d) : Coloured(records)[d] = Colour(r.delay)
<1> DEFINE colours == {0} \union { Colour(r.delay) : r \in Timed(records, d) }
<1>1. \A r \in Timed(records, d) : Colour(r.delay) \in 1..3
  BY TimedTypes, ColourTypes
<1>2. /\ colours \subseteq 0..3
      /\ colours \subseteq Nat /\ colours # {} /\ \A n \in colours : n <= 3
  BY <1>1
<1>3. Coloured(records)[d] = Max(colours)
  BY DEF Coloured
<1>4. \A r \in Timed(records, d) : Colour(r.delay) \in colours
  OBVIOUS
<1>5. \A n \in colours : n = 0 \/ \E r \in Timed(records, d) : n = Colour(r.delay)
  OBVIOUS
<1> HIDE DEF colours
<1>6. Max(colours) \in colours /\ \A n \in colours : n <= Max(colours)
  BY <1>2, GreatestNatural
<1>7. Max(colours) \in 0..3
  BY <1>2, <1>6
<1>8. QED
  BY <1>3, <1>4, <1>5, <1>6, <1>7

(* The calendar gives each day the colour of its slowest dismissal.        *)
LEMMA ColouredRight ==
    ASSUME NEW records \in Logs
    PROVE  Coloured(records) \in [ Days -> 0..3 ] /\ ShowsWorst(Coloured(records), records)
<1>1. Coloured(records) \in [ Days -> 0..3 ]
  <2>1. \A d \in Days : Coloured(records)[d] \in 0..3
    BY DayColour
  <2>2. Coloured(records) = [ d \in Days |-> Coloured(records)[d] ]
    BY DEF Coloured
  <2>3. QED
    BY <2>1, <2>2
<1>2. ASSUME NEW d \in Days
      PROVE  LET delays == { r.delay : r \in Timed(records, d) } IN
             /\ (Coloured(records)[d] = 0) <=> (delays = {})
             /\ (Coloured(records)[d] = 1) <=> (delays # {} /\ \A s \in delays : s <= Quick)
             /\ (Coloured(records)[d] = 3) <=> (\E s \in delays : s > Slow)
  <2> DEFINE worst == Coloured(records)[d]
             delays == { r.delay : r \in Timed(records, d) }
  <2>1. delays \subseteq Nat
    BY TimedTypes
  <2>2. /\ worst \in 0..3
        /\ \A s \in delays : Colour(s) <= worst
        /\ worst = 0 \/ \E s \in delays : worst = Colour(s)
    BY DayColour
  <2>3. \A s \in delays : /\ Colour(s) \in 1..3
                          /\ Colour(s) = 1 <=> s <= Quick
                          /\ Colour(s) = 3 <=> s > Slow
    BY <2>1, ColourTypes
  <2> HIDE DEF worst, delays
  <2>4. (worst = 0) <=> (delays = {})
    BY <2>2, <2>3
  <2>5. (worst = 1) <=> (delays # {} /\ \A s \in delays : s <= Quick)
    BY <2>2, <2>3
  <2>6. (worst = 3) <=> (\E s \in delays : s > Slow)
    BY <2>2, <2>3
  <2>7. QED
    BY <2>4, <2>5, <2>6 DEF worst, delays
<1>3. QED
  BY <1>1, <1>2 DEF ShowsWorst

(* The calendar has a last month.                                          *)
LEMMA LastMonthType == LastMonthShown \in Nat
<1>1. LastDay - 1 \in Nat /\ MonthLength \in Nat \ {0}
  BY StatConstants
<1>2. QED
  BY <1>1, QuotientGrows DEF LastMonthShown, MonthOf

(* setData() shows a month that there is, whatever month was shown before  *)
(* if any day is coloured.                                                 *)
LEMMA MonthType ==
    ASSUME NEW data \in [ Days -> 0..3 ],
           month \in 0..LastMonthShown \/ \E d \in Days : data[d] # 0
    PROVE  MonthAfter(data) \in 0..LastMonthShown
<1> DEFINE Marked == { d \in Days : data[d] # 0 }
<1>1. CASE Marked = {}
  BY <1>1 DEF MonthAfter
<1>2. CASE Marked # {}
  <2>1. LastDay \in Nat /\ MonthLength \in Nat \ {0}
    BY StatConstants
  <2>2. Marked \subseteq Nat /\ \A d \in Marked : d <= LastDay
    BY <2>1 DEF Days
  <2>3. Marked \subseteq 1..LastDay
    BY DEF Days
  <2>4. MonthAfter(data) = MonthOf(Max(Marked))
    BY <1>2 DEF MonthAfter
  <2> HIDE DEF Marked
  <2>5. Max(Marked) \in 1..LastDay
    BY <1>2, <2>1, <2>2, <2>3, GreatestNatural
  <2>6. Max(Marked) - 1 \in Nat /\ LastDay - 1 \in Nat /\ Max(Marked) - 1 <= LastDay - 1
    BY <2>1, <2>5
  <2>7. /\ MonthOf(Max(Marked)) \in Nat /\ LastMonthShown \in Nat
        /\ MonthOf(Max(Marked)) <= LastMonthShown
    BY <2>1, <2>6, QuotientGrows DEF MonthOf, LastMonthShown
  <2>8. QED
    BY <2>4, <2>7
<1>3. QED
  BY <1>1, <1>2

(* The rows of the list are places in the log.                             *)
LEMMA ListedType ==
    ASSUME NEW records, NEW day
    PROVE  Listed(records, day) \subseteq DOMAIN records
BY DEF Listed

(* The invariant reads the variables of the dialog and nothing else.       *)
LEMMA StatDialogSame ==
    CalendarShowsWorst <=> ShowsWorst(calendar, log)
BY DEF CalendarShowsWorst, ShowsWorst

(* The calendar of an empty log is blank.                                  *)
LEMMA EmptyStatDialog ==
    /\ <<>> \in Logs
    /\ [ d \in Days |-> 0 ] \in [ Days -> 0..3 ]
    /\ ShowsWorst([ d \in Days |-> 0 ], <<>>)
    /\ 0 \in 0..LastMonthShown
<1>1. <<>> \in Logs
  <2>1. <<>> \in [1..0 -> Records] /\ 0 \in 0..MaxRecords
    BY StatConstants
  <2>2. QED
    BY <2>1 DEF Logs
<1>2. \A d : Timed(<<>>, d) = {}
  BY DEF Timed, ToSet
<1>3. ShowsWorst([ d \in Days |-> 0 ], <<>>)
  BY <1>2 DEF ShowsWorst
<1>4. 0 \in 0..LastMonthShown
  BY LastMonthType
<1>5. QED
  BY <1>1, <1>3, <1>4

(* A dialog that is not open has nothing wrong.                            *)
LEMMA NoStatDialogInv ==
    /\ StatDialogInit => StatDialogInv
    /\ NoStatDialog => StatDialogInv'
<1>1. ASSUME StatDialogInit PROVE StatDialogInv
  <2>1. StatDialogTypeOK
    BY <1>1, EmptyStatDialog DEF StatDialogInit, StatDialogTypeOK
  <2>2. CalendarShowsWorst
    BY <1>1, EmptyStatDialog, StatDialogSame DEF StatDialogInit
  <2>3. DayHasRecords /\ ButtonNamesOtherPage
    BY <1>1 DEF StatDialogInit, DayHasRecords, ButtonNamesOtherPage
  <2>4. QED
    BY <2>1, <2>2, <2>3 DEF StatDialogInv
<1>2. ASSUME NoStatDialog PROVE StatDialogInv'
  <2>1. StatDialogTypeOK'
    BY <1>2, EmptyStatDialog DEF NoStatDialog, StatDialogTypeOK
  <2>2. CalendarShowsWorst'
    <3>1. ShowsWorst(calendar', log')
      BY <1>2, EmptyStatDialog DEF NoStatDialog
    <3>2. QED
      BY <3>1 DEF CalendarShowsWorst, ShowsWorst
  <2>3. DayHasRecords' /\ ButtonNamesOtherPage'
    BY <1>2 DEF NoStatDialog, DayHasRecords, ButtonNamesOtherPage
  <2>4. QED
    BY <2>1, <2>2, <2>3 DEF StatDialogInv
<1>3. QED
  BY <1>1, <1>2

(* Steps that are not of the dialog leave it alone.                        *)
LEMMA StatDialogUnmoved ==
    ASSUME StatDialogInv, UNCHANGED statDialogVars
    PROVE  StatDialogInv'
<1>1. StatDialogTypeOK' /\ DayHasRecords' /\ ButtonNamesOtherPage'
  BY DEF StatDialogInv, statDialogVars, StatDialogTypeOK, DayHasRecords, ButtonNamesOtherPage
<1>2. CalendarShowsWorst'
  BY DEF StatDialogInv, statDialogVars, CalendarShowsWorst
<1>3. QED
  BY <1>1, <1>2 DEF StatDialogInv

(* The dialog opens on the log it has read.                                *)
LEMMA OpenedStatDialog ==
    ASSUME NEW records \in Logs, OpenStatDialog(records)
    PROVE  StatDialogInv'
<1>1. /\ log' = records /\ rows' = Listed(records, NoDay) /\ filter' = NoDay
      /\ calendar' = Coloured(records)
      /\ page' = "calendar" /\ button' = "List"
  BY DEF OpenStatDialog
<1>2. calendar' \in [ Days -> 0..3 ] /\ ShowsWorst(calendar', log')
  BY <1>1, ColouredRight
<1>3. month' \in 0..LastMonthShown
  <2>1. CASE ~ \E d \in Days : calendar'[d] # 0
    BY <2>1 DEF OpenStatDialog
  <2>2. CASE \E d \in Days : calendar'[d] # 0
    <3>1. month' = MonthAfter(calendar')
      BY <2>2 DEF OpenStatDialog
    <3>2. QED
      BY <1>2, <2>2, <3>1, MonthType
  <2>3. QED
    BY <2>1, <2>2
<1>4. StatDialogTypeOK'
  BY <1>1, <1>2, <1>3, ListedType DEF StatDialogTypeOK
<1>5. CalendarShowsWorst'
  BY <1>2 DEF CalendarShowsWorst, ShowsWorst
<1>6. DayHasRecords' /\ ButtonNamesOtherPage'
  BY <1>1 DEF DayHasRecords, ButtonNamesOtherPage
<1>7. QED
  BY <1>4, <1>5, <1>6 DEF StatDialogInv

(* The list and the calendar agree when the list of one day is made of the *)
(* log the calendar was made of.                                           *)
LEMMA Populated ==
    ASSUME StatDialogInv, NEW records \in Logs, NEW day \in Days \union {NoDay},
           day = NoDay \/ records = log,
           PopulateList(records, day)
    PROVE  /\ log' \in Logs /\ filter' = day /\ rows' = Listed(log', day)
           /\ rows' \subseteq DOMAIN log'
           /\ calendar' \in [ Days -> 0..3 ]
           /\ month' \in 0..LastMonthShown
           /\ CalendarShowsWorst'
<1>1. /\ log' = records /\ filter' = day /\ rows' = Listed(records, day)
  BY DEF PopulateList
<1>2. /\ calendar \in [ Days -> 0..3 ] /\ month \in 0..LastMonthShown
      /\ ShowsWorst(calendar, log)
  BY StatDialogSame DEF StatDialogInv, StatDialogTypeOK
<1>3. calendar' \in [ Days -> 0..3 ] /\ month' \in 0..LastMonthShown /\ ShowsWorst(calendar', log')
  <2>1. CASE day = NoDay
    <3>1. calendar' = Coloured(records) /\ month' = MonthAfter(calendar')
      BY <2>1 DEF PopulateList
    <3>2. QED
      BY <1>1, <1>2, <3>1, ColouredRight, MonthType
  <2>2. CASE day # NoDay
    <3>1. UNCHANGED <<calendar, month>>
      BY <2>2 DEF PopulateList
    <3>2. QED
      BY <1>1, <1>2, <2>2, <3>1
  <2>3. QED
    BY <2>1, <2>2
<1>4. CalendarShowsWorst'
  BY <1>3 DEF CalendarShowsWorst, ShowsWorst
<1>5. QED
  BY <1>1, <1>3, <1>4, ListedType

(* The day that can be clicked is coloured, a coloured day has a record,   *)
(* and that record is listed.                                              *)
LEMMA ClickedDayHasRecords ==
    ASSUME StatDialogInv, NEW d \in Days, calendar[d] > 0
    PROVE  Listed(log, d) # {}
<1>1. Timed(log, d) # {}
  BY StatDialogSame DEF StatDialogInv, ShowsWorst
<1>2. PICK i \in DOMAIN log : log[i].day = d
  BY <1>1 DEF Timed, ToSet
<1>3. QED
  BY <1>2 DEF Listed

(* What the dialog shows of a day or of the whole log.                     *)
LEMMA Shows ==
    ASSUME StatDialogInv, NEW records \in Logs, NEW day \in Days \union {NoDay},
           day = NoDay \/ records = log,
           PopulateList(records, day),
           day # NoDay => Listed(records, day) # {},
           \/ page' = "list" /\ button' = "Calendar"
           \/ page' = "calendar" /\ button' = "List"
    PROVE  StatDialogInv'
<1>1. /\ log' \in Logs /\ filter' = day /\ rows' = Listed(log', day)
      /\ rows' \subseteq DOMAIN log'
      /\ calendar' \in [ Days -> 0..3 ]
      /\ month' \in 0..LastMonthShown
      /\ CalendarShowsWorst'
  BY Populated
<1>2. log' = records
  BY DEF PopulateList
<1>3. StatDialogTypeOK'
  BY <1>1 DEF StatDialogTypeOK
<1>4. DayHasRecords' /\ ButtonNamesOtherPage'
  BY <1>1, <1>2 DEF DayHasRecords, ButtonNamesOtherPage
<1>5. QED
  BY <1>1, <1>3, <1>4 DEF StatDialogInv

(* A click in the dialog keeps list and calendar in agreement.             *)
LEMMA StatDialogStep ==
    ASSUME StatDialogInv, StatDialogInput
    PROVE  StatDialogInv'
<1>1. log \in Logs /\ NoDay \in Days \union {NoDay}
  BY DEF StatDialogInv, StatDialogTypeOK
<1>2. CASE TurnMonth
  <2>1. UNCHANGED <<log, filter, rows, calendar, page, button>>
    BY <1>2 DEF TurnMonth
  <2>2. month' \in 0..LastMonthShown
    <3>1. month \in 0..LastMonthShown /\ LastMonthShown \in Nat
      BY LastMonthType DEF StatDialogInv, StatDialogTypeOK
    <3>2. QED
      BY <1>2, <3>1 DEF TurnMonth
  <2>3. StatDialogTypeOK' /\ DayHasRecords' /\ ButtonNamesOtherPage'
    BY <2>1, <2>2
       DEF StatDialogInv, StatDialogTypeOK, DayHasRecords, ButtonNamesOtherPage
  <2>4. CalendarShowsWorst'
    BY <2>1 DEF StatDialogInv, CalendarShowsWorst
  <2>5. QED
    BY <2>3, <2>4 DEF StatDialogInv
<1>3. ASSUME NEW d \in Days, OnDayClicked(d) PROVE StatDialogInv'
  <2>1. Listed(log, d) # {}
    BY <1>3, ClickedDayHasRecords DEF OnDayClicked
  <2>2. PopulateList(log, d) /\ page' = "list" /\ button' = "Calendar"
    BY <1>3 DEF OnDayClicked
  <2>3. QED
    BY <1>1, <2>1, <2>2, Shows
<1>4. CASE OnGraphButton
  <2>1. CASE PopulateList(log, NoDay) /\ page' = "list" /\ button' = "Calendar"
    BY <1>1, <2>1, Shows
  <2>2. CASE /\ page' = "calendar" /\ button' = "List"
             /\ UNCHANGED <<log, filter, rows, calendar, month>>
    <3>1. StatDialogTypeOK' /\ DayHasRecords' /\ ButtonNamesOtherPage'
      BY <2>2 DEF StatDialogInv, StatDialogTypeOK, DayHasRecords, ButtonNamesOtherPage
    <3>2. CalendarShowsWorst'
      BY <2>2 DEF StatDialogInv, CalendarShowsWorst
    <3>3. QED
      BY <3>1, <3>2 DEF StatDialogInv
  <2>3. QED
    BY <1>4, <2>1, <2>2 DEF OnGraphButton
<1>5. QED
  BY <1>2, <1>3, <1>4 DEF StatDialogInput

(* A log that is read again is shown from the beginning, filter and page   *)
(* included.                                                               *)
LEMMA RefreshedLog ==
    ASSUME StatDialogInv, NEW records \in Logs, LogRefreshed(records)
    PROVE  StatDialogInv'
<1>1. NoDay \in Days \union {NoDay}
  OBVIOUS
<1>2. PopulateList(records, NoDay) /\ page' = "calendar" /\ button' = "List"
  BY DEF LogRefreshed
<1>3. QED
  BY <1>1, <1>2, Shows

-----------------------------------------------------------------------------
(* The nested event loops.                                                 *)

Frames == [ kind : Windows \union Waits, on : BOOLEAN,
            ip : Addresses \union {NoAddress}, button : BOOLEAN ]

(* What may run above an open dialog: its own slots, and what those open.  *)
(* All others let no slot run while they are open.                         *)
MayLieAbove(below, above) ==
    \/ below = "friends"
         /\ above \in {"view", "stat", "prompt", "alert", "photo", "picture", "refresh"}
    \/ below = "stat" /\ above \in {"photo", "picture", "refresh"}

Stacked ==
    \A i, j \in DOMAIN frames :
        i < j /\ i \in OpenWindows => MayLieAbove(frames[i].kind, frames[j].kind)

FramesInd == frames \in Seq(Frames) /\ Stacked

(* Loops that are frames again, but for some that have returned, dialogs   *)
(* that have been closed and buttons that are gone.                        *)
Fewer(fs) ==
    /\ fs \in Seq(Frames)
    /\ Len(fs) <= Len(frames)
    /\ \A i \in 1..Len(fs) : /\ fs[i].kind = frames[i].kind
                             /\ fs[i].on /\ fs[i].kind \in Windows => frames[i].on

(* No dialog lies above another one of its kind.                           *)
LEMMA OneOfAKind == FramesInd => OneDialogOfAKind
<1> SUFFICES ASSUME FramesInd, NEW i \in OpenWindows, NEW j \in OpenWindows,
                    frames[i].kind = frames[j].kind
             PROVE  i = j
  BY DEF OneDialogOfAKind
<1>1. i \in DOMAIN frames /\ j \in DOMAIN frames
  BY DEF OpenWindows
<1>2. i \in Nat /\ j \in Nat
  BY <1>1 DEF FramesInd
<1>3. i < j => MayLieAbove(frames[i].kind, frames[j].kind)
  BY <1>1 DEF FramesInd, Stacked
<1>4. j < i => MayLieAbove(frames[j].kind, frames[i].kind)
  BY <1>1 DEF FramesInd, Stacked
<1>5. ~(i < j) /\ ~(j < i)
  BY <1>3, <1>4 DEF MayLieAbove
<1>6. QED
  BY <1>2, <1>5

(* The dialog in front is the innermost open one.                          *)
LEMMA FrontWindow ==
    ASSUME FramesInd, OpenWindows # {}
    PROVE  /\ Max(OpenWindows) \in OpenWindows
           /\ Max(OpenWindows) \in 1..Len(frames)
           /\ \A i \in OpenWindows : i \in 1..Len(frames) /\ i <= Max(OpenWindows)
<1>1. OpenWindows \subseteq 1..Len(frames) /\ Len(frames) \in Nat
  BY DEF OpenWindows, FramesInd
<1>2. OpenWindows \subseteq Nat /\ \A i \in OpenWindows : i <= Len(frames)
  BY <1>1
<1>3. Max(OpenWindows) \in OpenWindows /\ \A i \in OpenWindows : i <= Max(OpenWindows)
  BY <1>1, <1>2, GreatestNatural
<1>4. QED
  BY <1>1, <1>3

(* The dialog in front is open.                                            *)
LEMMA AtFrontIsOpen ==
    ASSUME FramesInd, NEW kind \in Windows, UserAt(kind)
    PROVE  /\ OpenWindows # {}
           /\ frames[Max(OpenWindows)].kind = kind
           /\ Shown(kind)
<1>1. OpenWindows # {} /\ frames[Max(OpenWindows)].kind = kind
  BY DEF UserAt, AtFront, Windows
<1>2. QED
  BY <1>1, FrontWindow DEF Shown

(* Taking loops off the top, closing dialogs or answering waits breaks no  *)
(* order.                                                                  *)
LEMMA FewerFrames ==
    ASSUME FramesInd, Fewer(frames')
    PROVE  FramesInd' /\ \A kind : Shown(kind)' => Shown(kind)
<1>1. frames' \in Seq(Frames) /\ Len(frames') <= Len(frames)
  BY DEF Fewer
<1>2. /\ DOMAIN frames' = 1..Len(frames') /\ DOMAIN frames = 1..Len(frames)
      /\ Len(frames') \in Nat /\ Len(frames) \in Nat
      /\ DOMAIN frames' \subseteq DOMAIN frames
  BY <1>1 DEF FramesInd
<1>3. \A i \in DOMAIN frames' : frames'[i].kind = frames[i].kind
  BY <1>2 DEF Fewer
<1>4. \A i \in OpenWindows' : i \in OpenWindows /\ i \in DOMAIN frames'
  BY <1>2, <1>3 DEF Fewer, OpenWindows
<1>5. Stacked'
  <2> SUFFICES ASSUME NEW i \in DOMAIN frames', NEW j \in DOMAIN frames',
                      i < j, i \in OpenWindows'
               PROVE  MayLieAbove(frames'[i].kind, frames'[j].kind)
    BY DEF Stacked
  <2>1. i \in DOMAIN frames /\ j \in DOMAIN frames /\ i \in OpenWindows
    BY <1>2, <1>4
  <2>2. MayLieAbove(frames[i].kind, frames[j].kind)
    BY <2>1 DEF FramesInd, Stacked
  <2>3. QED
    BY <1>3, <2>2
<1>6. ASSUME NEW kind, Shown(kind)' PROVE Shown(kind)
  BY <1>3, <1>4, <1>6 DEF Shown
<1>7. QED
  BY <1>1, <1>5, <1>6 DEF FramesInd

(* A new loop on top, which may lie above every dialog that is still open. *)
LEMMA OneMoreFrame ==
    ASSUME FramesInd, NEW fs, Fewer(fs), NEW f \in Frames, frames' = Append(fs, f),
           \A i \in OpenWindows : i <= Len(fs) => MayLieAbove(frames[i].kind, f.kind)
    PROVE  FramesInd' /\ \A kind : Shown(kind)' => Shown(kind) \/ kind = f.kind
<1>1. fs \in Seq(Frames) /\ Len(fs) <= Len(frames) /\ Len(fs) \in Nat /\ Len(frames) \in Nat
  BY DEF Fewer, FramesInd
<1>2. /\ frames' \in Seq(Frames) /\ Len(frames') = Len(fs) + 1
      /\ \A i \in 1..Len(fs) : frames'[i] = fs[i]
      /\ frames'[Len(fs) + 1] = f
  BY <1>1
<1>3. DOMAIN frames' = 1..(Len(fs) + 1) /\ DOMAIN frames = 1..Len(frames)
  BY <1>1, <1>2 DEF FramesInd
<1>4. \A i \in 1..Len(fs) : frames'[i].kind = frames[i].kind
  BY <1>2 DEF Fewer
<1>5. \A i \in OpenWindows' : i \in 1..Len(fs) => i \in OpenWindows
  BY <1>1, <1>2, <1>3 DEF Fewer, OpenWindows
<1>6. Stacked'
  <2> SUFFICES ASSUME NEW i \in DOMAIN frames', NEW j \in DOMAIN frames',
                      i < j, i \in OpenWindows'
               PROVE  MayLieAbove(frames'[i].kind, frames'[j].kind)
    BY DEF Stacked
  <2>1. i \in 1..Len(fs) /\ i \in OpenWindows /\ i \in DOMAIN frames /\ i <= Len(fs)
    BY <1>1, <1>3, <1>5
  <2>2. CASE j \in 1..Len(fs)
    <3>1. j \in DOMAIN frames
      BY <1>1, <1>3, <2>2
    <3>2. MayLieAbove(frames[i].kind, frames[j].kind)
      BY <2>1, <3>1 DEF FramesInd, Stacked
    <3>3. QED
      BY <1>4, <2>1, <2>2, <3>2
  <2>3. CASE j = Len(fs) + 1
    <3>1. MayLieAbove(frames[i].kind, f.kind)
      BY <2>1
    <3>2. QED
      BY <1>2, <1>4, <2>1, <2>3, <3>1
  <2>4. QED
    BY <1>1, <1>3, <2>2, <2>3
<1>7. ASSUME NEW kind, Shown(kind)' PROVE Shown(kind) \/ kind = f.kind
  <2>1. PICK i \in OpenWindows' : frames'[i].kind = kind
    BY <1>7 DEF Shown
  <2>2. i \in 1..Len(fs) \/ i = Len(fs) + 1
    BY <1>1, <1>3 DEF OpenWindows
  <2>3. QED
    BY <1>2, <1>4, <1>5, <2>1, <2>2 DEF Shown
<1>8. QED
  BY <1>2, <1>6, <1>7 DEF FramesInd

(* No loop is fewer, too.                                                  *)
LEMMA FewerSame == FramesInd => Fewer(frames)
BY DEF FramesInd, Fewer

(* A step that leaves the loops alone keeps their order.                   *)
LEMMA FramesKept ==
    ASSUME FramesInd, UNCHANGED frames
    PROVE  FramesInd' /\ \A kind : Shown(kind)' => Shown(kind)
<1>1. Fewer(frames')
  BY FewerSame DEF Fewer
<1>2. QED
  BY <1>1, FewerFrames

(* The dialog in front may go.                                             *)
LEMMA FewerFront ==
    ASSUME FramesInd, frames # <<>>
    PROVE  Fewer(Front(frames)) /\ Len(Front(frames)) = Len(frames) - 1
<1>1. frames \in Seq(Frames) /\ Len(frames) \in Nat \ {0}
  BY DEF FramesInd
<1>2. /\ Front(frames) \in Seq(Frames) /\ Len(Front(frames)) = Len(frames) - 1
      /\ \A i \in 1..(Len(frames) - 1) : Front(frames)[i] = frames[i]
  <2>1. PICK n \in Nat : n = Len(frames) - 1
    BY <1>1
  <2>2. Front(frames) = SubSeq(frames, 1, n)
    BY <2>1 DEF Front
  <2>3. \A i \in 1..n : i \in 1..Len(frames) /\ frames[i] \in Frames
    BY <1>1, <2>1
  <2>4. /\ SubSeq(frames, 1, n) \in Seq(Frames) /\ Len(SubSeq(frames, 1, n)) = n
        /\ \A i \in 1..n : SubSeq(frames, 1, n)[i] = frames[i]
    BY <1>1, <2>3
  <2>5. QED
    BY <2>1, <2>2, <2>4
<1>3. QED
  BY <1>1, <1>2 DEF Fewer

(* Dialogs that are closed leave the innermost loops first.                *)
LEMMA SettledIsPrefix ==
    ASSUME FramesInd, NEW fs, Fewer(fs)
    PROVE  /\ Settled(fs) \in Seq(Frames)
           /\ Len(Settled(fs)) <= Len(fs)
           /\ \A i \in 1..Len(Settled(fs)) : Settled(fs)[i] = fs[i]
<1> DEFINE kept == { i \in DOMAIN fs : fs[i].on \/ fs[i].kind \in Waits } \union {0}
           m == Max(kept)
<1>1. fs \in Seq(Frames) /\ Len(fs) \in Nat /\ DOMAIN fs = 1..Len(fs)
  BY DEF Fewer
<1>2. kept \subseteq 0..Len(fs) /\ kept # {}
  BY <1>1
<1>3. m \in 0..Len(fs)
  <2>1. kept \subseteq Nat /\ \A i \in kept : i <= Len(fs)
    BY <1>1, <1>2
  <2> HIDE DEF kept
  <2>2. QED
    BY <1>1, <1>2, <2>1, GreatestNatural
<1>4. Settled(fs) = SubSeq(fs, 1, m)
  BY DEF Settled
<1> HIDE DEF m
<1>5. /\ SubSeq(fs, 1, m) \in Seq(Frames) /\ Len(SubSeq(fs, 1, m)) = m
      /\ \A i \in 1..m : SubSeq(fs, 1, m)[i] = fs[i]
  BY <1>1, <1>3
<1>6. QED
  BY <1>1, <1>3, <1>4, <1>5

(* Loops that have been told to quit and are innermost may go.             *)
LEMMA FewerSettled ==
    ASSUME FramesInd, NEW fs, Fewer(fs)
    PROVE  Fewer(Settled(fs))
<1>1. /\ fs \in Seq(Frames) /\ Len(fs) \in Nat
      /\ Len(fs) <= Len(frames) /\ Len(frames) \in Nat
  BY DEF Fewer, FramesInd
<1>2. QED
  BY <1>1, SettledIsPrefix DEF Fewer

(* The buttons of the loops are not part of their order.                   *)
LEMMA FewerButtons ==
    ASSUME FramesInd, NEW fs, Fewer(fs)
    PROVE  Fewer(ButtonsGone(fs)) /\ Len(ButtonsGone(fs)) = Len(fs)
<1>1. /\ fs \in Seq(Frames) /\ Len(fs) \in Nat /\ DOMAIN fs = 1..Len(fs)
      /\ Len(fs) <= Len(frames)
      /\ \A i \in 1..Len(fs) : /\ fs[i] \in Frames /\ fs[i].kind = frames[i].kind
                               /\ fs[i].on /\ fs[i].kind \in Windows => frames[i].on
  BY DEF Fewer
<1>2. \A i \in 1..Len(fs) : /\ [ fs[i] EXCEPT !.button = FALSE ] \in Frames
                            /\ [ fs[i] EXCEPT !.button = FALSE ].kind = fs[i].kind
                            /\ [ fs[i] EXCEPT !.button = FALSE ].on = fs[i].on
  BY <1>1 DEF Frames
<1>3. ButtonsGone(fs) = [ i \in 1..Len(fs) |-> [ fs[i] EXCEPT !.button = FALSE ] ]
  BY <1>1 DEF ButtonsGone
<1>4. ButtonsGone(fs) \in Seq(Frames) /\ Len(ButtonsGone(fs)) = Len(fs)
  BY <1>1, <1>2, <1>3
<1>5. \A i \in 1..Len(fs) : ButtonsGone(fs)[i] = [ fs[i] EXCEPT !.button = FALSE ]
  BY <1>3
<1>6. QED
  BY <1>1, <1>2, <1>4, <1>5 DEF Fewer

(* A loop is told to quit where it stands.                                 *)
LEMMA FewerOn ==
    ASSUME FramesInd, NEW n \in DOMAIN frames
    PROVE  Fewer([ frames EXCEPT ![n].on = FALSE ])
<1> DEFINE fs == [ frames EXCEPT ![n].on = FALSE ]
<1>1. /\ frames \in Seq(Frames) /\ Len(frames) \in Nat /\ DOMAIN frames = 1..Len(frames)
      /\ \A i \in 1..Len(frames) : frames[i] \in Frames
  BY DEF FramesInd
<1>2. \A i \in 1..Len(frames) :
        fs[i] = IF i = n THEN [ frames[i] EXCEPT !.on = FALSE ] ELSE frames[i]
  BY <1>1
<1>3. \A i \in 1..Len(frames) : fs[i] \in Frames
  BY <1>1, <1>2 DEF Frames
<1>4. fs = [ i \in 1..Len(frames) |-> fs[i] ]
  BY <1>1
<1>5. \A i \in 1..Len(frames) :
        fs[i].kind = frames[i].kind /\ (fs[i].on => frames[i].on)
  BY <1>1, <1>2 DEF Frames
<1> HIDE DEF fs
<1>6. fs \in Seq(Frames) /\ Len(fs) = Len(frames)
  BY <1>1, <1>3, <1>4
<1>7. Fewer(fs)
  BY <1>1, <1>5, <1>6 DEF Fewer
<1>8. QED
  BY <1>7 DEF fs

(* A dialog is closed: it goes, at once or when the loops above it have    *)
(* returned.                                                               *)
LEMMA Closed ==
    ASSUME FramesInd, NEW kind \in Windows, UserAt(kind), Close
    PROVE  FramesInd' /\ (\A k : Shown(k)' => Shown(k)) /\ ~Shown(kind)'
<1>0. PICK n : n = Max(OpenWindows)
  OBVIOUS
<1> DEFINE fs == [ frames EXCEPT ![n].on = FALSE ]
<1>1. n \in OpenWindows /\ n \in DOMAIN frames /\ frames[n].kind = kind
  BY <1>0, AtFrontIsOpen, FrontWindow DEF OpenWindows
<1>2. Fewer(fs) /\ frames' = Settled(fs)
  BY <1>0, <1>1, FewerOn DEF Close
<1>3. Fewer(frames')
  BY <1>2, FewerSettled
<1>4. fs[n].on = FALSE
  <2>1. frames[n] \in Frames /\ fs[n] = [ frames[n] EXCEPT !.on = FALSE ]
    BY <1>1 DEF FramesInd
  <2>2. QED
    BY <2>1 DEF Frames
<1> HIDE DEF fs
<1>5. /\ frames' \in Seq(Frames) /\ DOMAIN frames' = 1..Len(frames')
      /\ n \in 1..Len(frames') => ~frames'[n].on
  BY <1>2, <1>4, SettledIsPrefix
<1>6. ~Shown(kind)'
  <2> SUFFICES ASSUME NEW i \in OpenWindows', frames'[i].kind = kind PROVE FALSE
    BY DEF Shown
  <2>1. i \in 1..Len(frames') /\ frames'[i].on /\ frames'[i].kind \in Windows
    BY <1>5 DEF OpenWindows
  <2>2. i \in OpenWindows /\ frames[i].kind = kind
    BY <1>3, <2>1 DEF Fewer, FramesInd, OpenWindows
  <2>3. i = n
    BY <1>1, <2>2, OneOfAKind DEF OneDialogOfAKind
  <2>4. QED
    BY <1>5, <2>1, <2>3
<1>7. QED
  BY <1>3, <1>6, FewerFrames

(* What may lie above the dialog in front may lie above those below it.    *)
LEMMA FrontAllows ==
    ASSUME FramesInd, NEW front \in Windows, UserAt(front), NEW kind,
           MayLieAbove(front, kind)
    PROVE  \A i \in OpenWindows : MayLieAbove(frames[i].kind, kind)
<1> DEFINE n == Max(OpenWindows)
<1>1. /\ OpenWindows # {} /\ frames[n].kind = front
      /\ n \in OpenWindows /\ n \in 1..Len(frames)
      /\ \A i \in OpenWindows : i \in 1..Len(frames) /\ i <= n
  BY AtFrontIsOpen, FrontWindow
<1>2. DOMAIN frames = 1..Len(frames) /\ Len(frames) \in Nat
  BY DEF FramesInd
<1> HIDE DEF n
<1> SUFFICES ASSUME NEW i \in OpenWindows PROVE MayLieAbove(frames[i].kind, kind)
  OBVIOUS
<1>3. CASE i = n
  BY <1>1, <1>3
<1>4. CASE i < n
  <2>1. MayLieAbove(frames[i].kind, front)
    BY <1>1, <1>2, <1>4 DEF FramesInd, Stacked
  <2>2. QED
    BY <2>1 DEF MayLieAbove
<1>5. QED
  BY <1>1, <1>3, <1>4

(* What a slot of the dialog in front enters may lie above every dialog    *)
(* that is open.                                                           *)
LEMMA Entered ==
    ASSUME FramesInd, NEW front \in Windows, UserAt(front),
           NEW kind \in Windows \union Waits, NEW ip \in Addresses \union {NoAddress},
           MayLieAbove(front, kind), Enter(kind, ip)
    PROVE  FramesInd' /\ \A k : Shown(k)' => Shown(k) \/ k = kind
<1> DEFINE f == Frame(kind, ip)
<1>1. f \in Frames /\ f.kind = kind
  BY DEF Frame, Frames
<1>2. \A i \in OpenWindows : MayLieAbove(frames[i].kind, kind)
  BY FrontAllows
<1>3. frames' = Append(frames, f)
  BY DEF Enter
<1> HIDE DEF f
<1>4. FramesInd' /\ \A k : Shown(k)' => Shown(k) \/ k = f.kind
  BY <1>1, <1>2, <1>3, FewerSame, OneMoreFrame
<1>5. QED
  BY <1>1, <1>4

-----------------------------------------------------------------------------
(* The friend list.                                                        *)

FriendsInd ==
    /\ FriendListTypeOK
    /\ NoFriendTwice
    /\ RowsShowFriends
    /\ FileIsUpToDate

(* A list of one friend.                                                   *)
LEMMA OneAddress ==
    ASSUME NEW ip \in Addresses
    PROVE  <<ip>> \in Seq(Addresses) /\ IsInjective(<<ip>>)
BY DEF IsInjective

(* The list of no friends.                                                 *)
LEMMA NoAddresses == <<>> \in Seq(Addresses) /\ IsInjective(<<>>)
BY DEF IsInjective

(* Without one of them, the addresses are still different, and none is     *)
(* new.                                                                    *)
LEMMA RemovedAddress ==
    ASSUME NEW s \in Seq(Addresses), IsInjective(s), NEW i \in 1..Len(s)
    PROVE  /\ RemoveAt(s, i) \in Seq(Addresses)
           /\ IsInjective(RemoveAt(s, i))
           /\ ToSet(RemoveAt(s, i)) \subseteq ToSet(s)
<1>1. Len(s) \in Nat /\ DOMAIN s = 1..Len(s) /\ \A j \in 1..Len(s) : s[j] \in Addresses
  OBVIOUS
<1>2. PICK a \in Nat : a = i - 1
  BY <1>1
<1>3. PICK b \in Nat : b = Len(s) - i
  <2>1. Len(s) - i \in Nat
    BY <1>1
  <2>2. QED
    BY <2>1
<1>4. /\ SubSeq(s, 1, a) \in Seq(Addresses) /\ Len(SubSeq(s, 1, a)) = a
      /\ \A j \in 1..a : SubSeq(s, 1, a)[j] = s[j]
  BY <1>1, <1>2
<1>5. /\ SubSeq(s, i + 1, Len(s)) \in Seq(Addresses) /\ Len(SubSeq(s, i + 1, Len(s))) = b
      /\ \A j \in 1..b : SubSeq(s, i + 1, Len(s))[j] = s[i + j]
  <2>1. i + 1 \in Nat /\ \A j \in (i + 1)..Len(s) : s[j] \in Addresses
    BY <1>1
  <2>2. /\ SubSeq(s, i + 1, Len(s)) \in Seq(Addresses)
        /\ Len(SubSeq(s, i + 1, Len(s))) = IF i + 1 <= Len(s) THEN Len(s) - (i + 1) + 1 ELSE 0
        /\ \A j \in 1..(Len(s) - (i + 1) + 1) :
             SubSeq(s, i + 1, Len(s))[j] = s[(i + 1) + j - 1]
    BY <1>1, <2>1, SubSeqProperties
  <2>3. Len(s) - (i + 1) + 1 = b /\ (~(i + 1 <= Len(s)) => b = 0)
    <3>1. \A l \in Nat : \A k \in 1..l : \A c \in Nat :
            c = l - k => l - (k + 1) + 1 = c /\ (~(k + 1 <= l) => c = 0)
      OBVIOUS
    <3>2. QED
      BY <1>1, <1>3, <3>1
  <2>4. \A j \in 1..b : (i + 1) + j - 1 = i + j
    BY <1>1
  <2>5. QED
    BY <2>2, <2>3, <2>4
<1>6. RemoveAt(s, i) = SubSeq(s, 1, a) \o SubSeq(s, i + 1, Len(s))
  BY <1>2 DEF RemoveAt
<1>7. /\ RemoveAt(s, i) \in Seq(Addresses) /\ Len(RemoveAt(s, i)) = a + b
      /\ \A j \in 1..(a + b) :
           RemoveAt(s, i)[j] = IF j <= a THEN SubSeq(s, 1, a)[j]
                                         ELSE SubSeq(s, i + 1, Len(s))[j - a]
  <2>1. ASSUME NEW u \in Seq(Addresses), NEW v \in Seq(Addresses), Len(u) = a, Len(v) = b
        PROVE  /\ u \o v \in Seq(Addresses) /\ Len(u \o v) = a + b
               /\ \A j \in 1..(a + b) : (u \o v)[j] = IF j <= a THEN u[j] ELSE v[j - a]
    <3>1. /\ u \o v \in Seq(Addresses) /\ Len(u \o v) = Len(u) + Len(v)
          /\ \A j \in 1..(Len(u) + Len(v)) :
               (u \o v)[j] = IF j <= Len(u) THEN u[j] ELSE v[j - Len(u)]
      BY ConcatProperties, Zenon
    <3>2. QED
      BY <2>1, <3>1
  <2> DEFINE u == SubSeq(s, 1, a)
             v == SubSeq(s, i + 1, Len(s))
  <2>2. u \in Seq(Addresses) /\ v \in Seq(Addresses) /\ Len(u) = a /\ Len(v) = b
    BY <1>4, <1>5
  <2>3. RemoveAt(s, i) = u \o v
    BY <1>6
  <2> HIDE DEF u, v
  <2>4. /\ u \o v \in Seq(Addresses) /\ Len(u \o v) = a + b
        /\ \A j \in 1..(a + b) : (u \o v)[j] = IF j <= a THEN u[j] ELSE v[j - a]
    BY <2>1, <2>2
  <2>5. QED
    BY <2>3, <2>4, Zenon DEF u, v
<1>8. /\ DOMAIN RemoveAt(s, i) = 1..(a + b)
      /\ \A j \in 1..(a + b) :
           RemoveAt(s, i)[j] = s[IF j < i THEN j ELSE j + 1]
  <2>1. ASSUME NEW j \in 1..(a + b), j <= a
        PROVE  RemoveAt(s, i)[j] = s[IF j < i THEN j ELSE j + 1]
    BY <1>2, <1>4, <1>7, <2>1
  <2>2. ASSUME NEW j \in 1..(a + b), a < j
        PROVE  RemoveAt(s, i)[j] = s[IF j < i THEN j ELSE j + 1]
    <3>1. j - a \in 1..b /\ i + (j - a) = j + 1 /\ ~(j < i) /\ ~(j <= a)
      BY <1>2, <2>2
    <3>2. QED
      BY <1>5, <1>7, <3>1
  <2>3. QED
    BY <1>7, <2>1, <2>2
<1>9. \A j \in 1..(a + b) : (IF j < i THEN j ELSE j + 1) \in 1..Len(s)
  BY <1>1, <1>2, <1>3
<1>10. IsInjective(RemoveAt(s, i))
  <2> SUFFICES ASSUME NEW j \in 1..(a + b), NEW k \in 1..(a + b),
                      RemoveAt(s, i)[j] = RemoveAt(s, i)[k]
               PROVE  j = k
    BY <1>8 DEF IsInjective
  <2>1. (IF j < i THEN j ELSE j + 1) = (IF k < i THEN k ELSE k + 1)
    BY <1>1, <1>8, <1>9 DEF IsInjective
  <2>2. QED
    BY <2>1
<1>11. ToSet(RemoveAt(s, i)) \subseteq ToSet(s)
  BY <1>1, <1>8, <1>9 DEF ToSet
<1>12. QED
  BY <1>7, <1>10, <1>11

(* addFriend() refuses an address that is already there.                   *)
LEMMA AddedAddress ==
    ASSUME NEW s \in Seq(Addresses), IsInjective(s), NEW ip \in Addresses, ip \notin ToSet(s)
    PROVE  Append(s, ip) \in Seq(Addresses) /\ IsInjective(Append(s, ip))
<1>1. /\ Len(s) \in Nat /\ DOMAIN s = 1..Len(s)
      /\ \A j \in 1..Len(s) : s[j] # ip
  BY DEF ToSet
<1>2. /\ Append(s, ip) \in Seq(Addresses)
      /\ DOMAIN Append(s, ip) = 1..(Len(s) + 1)
      /\ \A j \in 1..Len(s) : Append(s, ip)[j] = s[j]
      /\ Append(s, ip)[Len(s) + 1] = ip
  BY <1>1
<1>3. IsInjective(Append(s, ip))
  <2> SUFFICES ASSUME NEW j \in 1..(Len(s) + 1), NEW k \in 1..(Len(s) + 1),
                      Append(s, ip)[j] = Append(s, ip)[k]
               PROVE  j = k
    BY <1>2 DEF IsInjective
  <2>1. /\ j \in 1..Len(s) \/ j = Len(s) + 1
        /\ k \in 1..Len(s) \/ k = Len(s) + 1
    BY <1>1
  <2>2. QED
    BY <1>1, <1>2, <2>1 DEF IsInjective
<1>4. QED
  BY <1>2, <1>3

(* At first there are no friends.                                          *)
LEMMA FriendListStarts == FriendListInit => FriendListTypeOK /\ NoFriendTwice
<1> SUFFICES ASSUME FriendListInit PROVE FriendListTypeOK /\ NoFriendTwice
  OBVIOUS
<1>1. jsonFriends \in Seq(Addresses) /\ IsInjective(jsonFriends)
  <2>1. CASE jsonFriends = <<>>
    BY <2>1, NoAddresses
  <2>2. CASE jsonFriends \in AddressLists
    <3>1. IsInjective(jsonFriends)
      BY <2>2 DEF AddressLists
    <3>2. PICK n \in 0..Cardinality(Addresses) : jsonFriends \in [1..n -> Addresses]
      BY <2>2 DEF AddressLists
    <3>3. n \in Nat
      BY <3>2
    <3>4. QED
      BY <3>1, <3>2, <3>3
  <2>3. QED
    BY <2>1, <2>2 DEF FriendListInit
<1>2. QED
  BY <1>1, NoAddresses DEF FriendListInit, FriendListTypeOK, NoFriendTwice

(* Steps that do not touch the friends leave them alone.                   *)
LEMMA FriendsUnmoved ==
    ASSUME FriendsInd, UNCHANGED friendListVars, Shown("friends")' => Shown("friends")
    PROVE  FriendsInd'
BY DEF FriendsInd, friendListVars, FriendListTypeOK, NoFriendTwice, RowsShowFriends,
       FileIsUpToDate

(* Rows, list and file are one after opening, after "Add" and after the    *)
(* timer of "Del"; whatever is shown then.                                 *)
LEMMA Migrated ==
    ASSUME FriendsInd, OpenFriendList
    PROVE  FriendsInd'
<1>1. jsonFriends' \in Seq(Addresses) /\ IsInjective(jsonFriends') /\ jsonExists' \in BOOLEAN
  <2>1. CASE ~jsonExists /\ oldAddress # NoAddress
    <3>1. oldAddress \in Addresses
      BY <2>1 DEF FriendsInd, FriendListTypeOK
    <3>2. jsonFriends' = <<oldAddress>> /\ jsonExists' = TRUE
      BY <2>1 DEF OpenFriendList, SaveFriends
    <3>3. QED
      BY <3>1, <3>2, OneAddress
  <2>2. CASE ~(~jsonExists /\ oldAddress # NoAddress)
    <3>1. UNCHANGED <<jsonExists, jsonFriends>>
      BY <2>2 DEF OpenFriendList
    <3>2. QED
      BY <3>1 DEF FriendsInd, FriendListTypeOK, NoFriendTwice
  <2>3. QED
    BY <2>1, <2>2
<1>2. friends' = jsonFriends' /\ widgets' = friends' /\ rebuildDue' = FALSE
      /\ UNCHANGED oldAddress
  BY DEF OpenFriendList
<1>3. QED
  BY <1>1, <1>2 DEF FriendsInd, FriendListTypeOK, NoFriendTwice, RowsShowFriends, FileIsUpToDate

(* "Del" removes the address its row shows.                                *)
LEMMA Deleted ==
    ASSUME FriendsInd, NEW i \in DOMAIN widgets, PressDel(i)
    PROVE  FriendsInd' /\ ToSet(friends') \subseteq ToSet(friends)
<1>1. /\ friends \in Seq(Addresses) /\ IsInjective(friends)
      /\ widgets \in Seq(Addresses)
  BY DEF FriendsInd, FriendListTypeOK, NoFriendTwice
<1>2. i \in Nat \ {0} /\ Len(friends) \in Nat
  BY <1>1
<1>3. /\ friends' \in Seq(Addresses) /\ IsInjective(friends')
      /\ ToSet(friends') \subseteq ToSet(friends)
  <2>1. CASE i <= Len(friends)
    <3>1. friends' = RemoveAt(friends, i) /\ i \in 1..Len(friends)
      BY <1>2, <2>1 DEF PressDel
    <3>2. QED
      BY <1>1, <3>1, RemovedAddress
  <2>2. CASE ~(i <= Len(friends))
    BY <1>1, <2>2 DEF PressDel
  <2>3. QED
    BY <2>1, <2>2
<1>4. jsonFriends' = friends' /\ jsonExists' = TRUE /\ rebuildDue' = TRUE
      /\ UNCHANGED <<widgets, oldAddress>>
  BY DEF PressDel, SaveFriends
<1>5. QED
  BY <1>3, <1>4
     DEF FriendsInd, FriendListTypeOK, NoFriendTwice, RowsShowFriends, FileIsUpToDate

(* The rows are rebuilt from the list.                                     *)
LEMMA Rebuilt ==
    ASSUME FriendsInd, RebuildList, Shown("friends")' => Shown("friends")
    PROVE  FriendsInd'
BY DEF RebuildList, FriendsInd, FriendListTypeOK, NoFriendTwice, RowsShowFriends,
       FileIsUpToDate

(* A friend is added at the end, in the list, its rows and the file.       *)
LEMMA Added ==
    ASSUME FriendsInd, NEW ip \in Addresses, AddFriend(ip)
    PROVE  FriendsInd'
<1>1. Append(friends, ip) \in Seq(Addresses) /\ IsInjective(Append(friends, ip))
  BY AddedAddress DEF AddFriend, FriendsInd, FriendListTypeOK, NoFriendTwice
<1>2. /\ friends' = Append(friends, ip) /\ jsonFriends' = friends' /\ widgets' = friends'
      /\ jsonExists' = TRUE /\ UNCHANGED <<rebuildDue, oldAddress>>
  BY DEF AddFriend, SaveFriends
<1>3. QED
  BY <1>1, <1>2
     DEF FriendsInd, FriendListTypeOK, NoFriendTwice, RowsShowFriends, FileIsUpToDate

(* The list is gone, and perhaps a write of its file was cut.              *)
LEMMA FriendsGone ==
    ASSUME FriendsInd, NoFriendList, ~Shown("friends")', UNCHANGED oldAddress,
           UNCHANGED <<jsonExists, jsonFriends>> \/ CutFriendsFile
    PROVE  FriendsInd'
BY NoAddresses
   DEF NoFriendList, CutFriendsFile, SaveFriends, FriendsInd, FriendListTypeOK,
       NoFriendTwice, RowsShowFriends, FileIsUpToDate

-----------------------------------------------------------------------------
(* The screens.                                                            *)

ScreensInd ==
    /\ AlarmDialogInd
    /\ StatDialogInv
    /\ FriendsInd
    /\ FramesInd

(* The inductive invariant implies the three that are checked.             *)
LEMMA ScreensImplied == ScreensInd => AlarmDialogInv /\ StatDialogInv /\ ScreensInv
<1> SUFFICES ASSUME ScreensInd PROVE AlarmDialogInv /\ StatDialogInv /\ ScreensInv
  OBVIOUS
<1>1. AlarmDialogInv /\ StatDialogInv /\ OneDialogOfAKind
  BY AlarmDialogImplied, OneOfAKind DEF ScreensInd
<1>2. TypeOK
  <2>1. AlarmDialogTypeOK /\ StatDialogTypeOK /\ FriendListTypeOK
    BY DEF ScreensInd, AlarmDialogInd, StatDialogInv, FriendsInd
  <2>2. frames \in Seq([ kind : Windows \union Waits, on : BOOLEAN,
                         ip : Addresses \union {NoAddress}, button : BOOLEAN ])
    BY DEF ScreensInd, FramesInd, Frames
  <2>3. QED
    BY <2>1, <2>2 DEF TypeOK
<1>3. QED
  BY <1>1, <1>2 DEF ScreensInd, FriendsInd, ScreensInv

(* At first no window is open.                                             *)
LEMMA ScreensInit == Init => ScreensInd
<1> SUFFICES ASSUME Init PROVE ScreensInd
  OBVIOUS
<1>1. AlarmDialogInd /\ StatDialogInv
  BY NoAlarmDialogInd, NoStatDialogInv DEF Init
<1>2. FramesInd /\ OpenWindows = {}
  BY DEF Init, FramesInd, Stacked, OpenWindows
<1>3. FriendListTypeOK /\ NoFriendTwice
  BY FriendListStarts DEF Init
<1>4. RowsShowFriends /\ FileIsUpToDate
  BY <1>2 DEF RowsShowFriends, FileIsUpToDate, Shown
<1>5. QED
  BY <1>1, <1>2, <1>3, <1>4 DEF ScreensInd, FriendsInd

(* The buttons of the main window open a dialog.                           *)
LEMMA OpenFromMainStep ==
    ASSUME ScreensInd, OpenFromMain
    PROVE  ScreensInd'
<1>1. OpenWindows = {}
  <2>1. SUFFICES ASSUME OpenWindows # {} PROVE FALSE
    OBVIOUS
  <2>2. frames[Max(OpenWindows)].kind \in Windows
    BY <2>1, FrontWindow DEF ScreensInd, OpenWindows
  <2>3. QED
    BY <2>1, <2>2 DEF OpenFromMain, UserAt, AtFront, Windows
<1>2. /\ Frame("alarm", NoAddress) \in Frames /\ Frame("alarm", NoAddress).kind = "alarm"
      /\ Frame("stat", NoAddress) \in Frames /\ Frame("stat", NoAddress).kind = "stat"
      /\ Frame("friends", NoAddress) \in Frames
  BY DEF Frame, Frames, Windows
<1>3. CASE /\ Enter("alarm", NoAddress) /\ OpenAlarmDialog
           /\ UNCHANGED <<statDialogVars, friendListVars>>
  <2>1. FramesInd' /\ (Shown("friends")' => Shown("friends"))
    BY <1>1, <1>2, <1>3, FewerSame, OneMoreFrame DEF ScreensInd, Enter
  <2>2. AlarmDialogInd' /\ StatDialogInv' /\ FriendsInd'
    BY <1>3, <2>1, OpenedAlarmDialog, StatDialogUnmoved, FriendsUnmoved DEF ScreensInd
  <2>3. QED
    BY <2>1, <2>2 DEF ScreensInd
<1>4. CASE /\ Enter("stat", NoAddress) /\ \E l \in Logs : OpenStatDialog(l)
           /\ UNCHANGED <<alarmDialogVars, friendListVars>>
  <2>1. FramesInd' /\ (Shown("friends")' => Shown("friends"))
    BY <1>1, <1>2, <1>4, FewerSame, OneMoreFrame DEF ScreensInd, Enter
  <2>2. AlarmDialogInd' /\ StatDialogInv' /\ FriendsInd'
    BY <1>4, <2>1, AlarmDialogUnmoved, OpenedStatDialog, FriendsUnmoved DEF ScreensInd
  <2>3. QED
    BY <2>1, <2>2 DEF ScreensInd
<1>5. CASE /\ Len(frames) < MaxFrames
           /\ frames' = Append(ButtonsGone(frames), Frame("friends", NoAddress))
           /\ OpenFriendList
           /\ UNCHANGED <<alarmDialogVars, statDialogVars>>
  <2>1. Fewer(ButtonsGone(frames))
    BY FewerSame, FewerButtons DEF ScreensInd
  <2>2. FramesInd'
    BY <1>1, <1>2, <1>5, <2>1, OneMoreFrame DEF ScreensInd
  <2>3. AlarmDialogInd' /\ StatDialogInv' /\ FriendsInd'
    BY <1>5, AlarmDialogUnmoved, StatDialogUnmoved, Migrated DEF ScreensInd
  <2>4. QED
    BY <2>2, <2>3 DEF ScreensInd
<1>6. QED
  BY <1>3, <1>4, <1>5 DEF OpenFromMain

(* The alarm dialog is turned, confirmed or closed.                        *)
LEMMA AlarmDialogSteps ==
    ASSUME ScreensInd, InAlarmDialog \/ CloseAlarmDialog
    PROVE  ScreensInd'
<1>1. CASE InAlarmDialog
  <2>1. AlarmDialogInd'
    BY <1>1, AlarmDialogStep DEF ScreensInd, InAlarmDialog
  <2>2. FramesInd' /\ (Shown("friends")' => Shown("friends"))
    BY <1>1, FewerSame, FramesKept DEF ScreensInd, InAlarmDialog
  <2>3. StatDialogInv' /\ FriendsInd'
    BY <1>1, <2>2, StatDialogUnmoved, FriendsUnmoved DEF ScreensInd, InAlarmDialog
  <2>4. QED
    BY <2>1, <2>2, <2>3 DEF ScreensInd
<1>2. CASE CloseAlarmDialog
  <2>1. AlarmDialogInd'
    BY <1>2, NoAlarmDialogInd DEF CloseAlarmDialog
  <2>2. FramesInd' /\ (Shown("friends")' => Shown("friends"))
    BY <1>2, Closed DEF ScreensInd, CloseAlarmDialog, Windows
  <2>3. StatDialogInv' /\ FriendsInd'
    BY <1>2, <2>2, StatDialogUnmoved, FriendsUnmoved DEF ScreensInd, CloseAlarmDialog
  <2>4. QED
    BY <2>1, <2>2, <2>3 DEF ScreensInd
<1>3. QED
  BY <1>1, <1>2

(* The statistics are clicked, refreshed, fetched or closed.               *)
LEMMA StatDialogSteps ==
    ASSUME ScreensInd, InStatDialog \/ FetchForStat \/ CloseStatDialog
    PROVE  ScreensInd'
<1>1. CASE InStatDialog
  <2>1. StatDialogInv'
    BY <1>1, StatDialogStep DEF ScreensInd, InStatDialog
  <2>2. FramesInd' /\ (Shown("friends")' => Shown("friends"))
    BY <1>1, FramesKept DEF ScreensInd, InStatDialog
  <2>3. AlarmDialogInd' /\ FriendsInd'
    BY <1>1, <2>2, AlarmDialogUnmoved, FriendsUnmoved DEF ScreensInd, InStatDialog
  <2>4. QED
    BY <2>1, <2>2, <2>3 DEF ScreensInd
<1>2. CASE FetchForStat
  <2>1. PICK kind \in {"refresh", "picture", "photo"}, ip \in Addresses \union {NoAddress} :
          Enter(kind, ip)
    <3>1. FrontFrame.ip \in Addresses \union {NoAddress}
      <4>1. Max(OpenWindows) \in 1..Len(frames)
        BY <1>2, AtFrontIsOpen, FrontWindow DEF ScreensInd, FetchForStat, Windows
      <4>2. FrontFrame \in Frames
        BY <4>1 DEF FrontFrame, ScreensInd, FramesInd
      <4>3. QED
        BY <4>2 DEF Frames
    <3>2. QED
      BY <1>2, <3>1 DEF FetchForStat
  <2>2. /\ kind \in Windows \union Waits /\ MayLieAbove("stat", kind) /\ kind # "friends"
        /\ "stat" \in Windows
    BY DEF Windows, Waits, MayLieAbove
  <2>3. UserAt("stat")
    BY <1>2 DEF FetchForStat
  <2>4. FramesInd' /\ (Shown("friends")' => Shown("friends"))
    BY <2>1, <2>2, <2>3, Entered DEF ScreensInd
  <2>5. AlarmDialogInd' /\ StatDialogInv' /\ FriendsInd'
    BY <1>2, <2>4, AlarmDialogUnmoved, StatDialogUnmoved, FriendsUnmoved
       DEF ScreensInd, FetchForStat
  <2>6. QED
    BY <2>4, <2>5 DEF ScreensInd
<1>3. CASE CloseStatDialog
  <2>1. StatDialogInv'
    BY <1>3, NoStatDialogInv DEF CloseStatDialog
  <2>2. FramesInd' /\ (Shown("friends")' => Shown("friends"))
    BY <1>3, Closed DEF ScreensInd, CloseStatDialog, Windows
  <2>3. AlarmDialogInd' /\ FriendsInd'
    BY <1>3, <2>2, AlarmDialogUnmoved, FriendsUnmoved DEF ScreensInd, CloseStatDialog
  <2>4. QED
    BY <2>1, <2>2, <2>3 DEF ScreensInd
<1>4. QED
  BY <1>1, <1>2, <1>3

(* The prompt is the innermost loop: nothing may lie above it.             *)
LEMMA PromptOnTop ==
    ASSUME FramesInd, UserAt("prompt")
    PROVE  /\ frames # <<>>
           /\ \A i \in OpenWindows : i < Len(frames) => frames[i].kind = "friends"
<1>1. PICK n : n = Max(OpenWindows)
  OBVIOUS
<1>2. /\ n \in OpenWindows /\ n \in 1..Len(frames) /\ frames[n].kind = "prompt"
      /\ \A i \in OpenWindows : i \in 1..Len(frames) /\ i <= n
  BY <1>1, AtFrontIsOpen, FrontWindow DEF Windows
<1>3. DOMAIN frames = 1..Len(frames) /\ Len(frames) \in Nat
  BY DEF FramesInd
<1>4. n = Len(frames)
  <2>1. ASSUME n < Len(frames) PROVE FALSE
    <3>1. MayLieAbove(frames[n].kind, frames[Len(frames)].kind)
      BY <1>2, <1>3, <2>1 DEF FramesInd, Stacked
    <3>2. QED
      BY <1>2, <3>1 DEF MayLieAbove
  <2>2. \A l \in Nat : n \in 1..l /\ ~(n < l) => n = l
    OBVIOUS
  <2>3. QED
    BY <1>2, <1>3, <2>1, <2>2
<1>5. ASSUME NEW i \in OpenWindows, i < Len(frames) PROVE frames[i].kind = "friends"
  <2>1. MayLieAbove(frames[i].kind, "prompt")
    BY <1>2, <1>3, <1>4, <1>5 DEF FramesInd, Stacked
  <2>2. QED
    BY <2>1 DEF MayLieAbove
<1>6. QED
  BY <1>2, <1>5

(* The prompt for an address is answered.                                  *)
LEMMA AnswerPromptStep ==
    ASSUME ScreensInd, AnswerPrompt
    PROVE  ScreensInd'
<1>1. FramesInd /\ FriendsInd /\ UserAt("prompt") /\ UNCHANGED <<alarmDialogVars, statDialogVars>>
  BY DEF ScreensInd, AnswerPrompt
<1>2. Fewer(Front(frames)) /\ Len(Front(frames)) = Len(frames) - 1 /\ Len(frames) \in Nat
  BY <1>1, PromptOnTop, FewerFront DEF FramesInd
<1>3. AlarmDialogInd' /\ StatDialogInv'
  BY <1>1, AlarmDialogUnmoved, StatDialogUnmoved DEF ScreensInd
<1>4. CASE frames' = Front(frames) /\ UNCHANGED friendListVars
  <2>1. FramesInd' /\ (Shown("friends")' => Shown("friends"))
    BY <1>1, <1>2, <1>4, FewerFrames
  <2>2. FriendsInd'
    BY <1>1, <1>4, <2>1, FriendsUnmoved
  <2>3. QED
    BY <1>3, <2>1, <2>2 DEF ScreensInd
<1>5. ASSUME NEW ip \in Addresses, AddFriend(ip), frames' = ButtonsGone(Front(frames))
      PROVE  ScreensInd'
  <2>1. FramesInd'
    BY <1>1, <1>2, <1>5, FewerButtons, FewerFrames
  <2>2. FriendsInd'
    BY <1>1, <1>5, Added
  <2>3. QED
    BY <1>3, <2>1, <2>2 DEF ScreensInd
<1>6. CASE /\ frames' = Append(Front(frames), Frame("alert", NoAddress))
           /\ UNCHANGED friendListVars
  <2>1. Frame("alert", NoAddress) \in Frames /\ Frame("alert", NoAddress).kind = "alert"
    BY DEF Frame, Frames, Windows
  <2>2. \A i \in OpenWindows : i <= Len(Front(frames)) => MayLieAbove(frames[i].kind, "alert")
    <3>1. \A i \in OpenWindows : i \in Nat
      BY DEF OpenWindows, ScreensInd, FramesInd
    <3>2. \A i \in OpenWindows : i <= Len(Front(frames)) => i < Len(frames)
      BY <1>2, <3>1
    <3>3. QED
      BY <1>1, <3>2, PromptOnTop DEF MayLieAbove
  <2>3. FramesInd' /\ (Shown("friends")' => Shown("friends"))
    BY <1>1, <1>2, <1>6, <2>1, <2>2, OneMoreFrame
  <2>4. FriendsInd'
    BY <1>1, <1>6, <2>3, FriendsUnmoved
  <2>5. QED
    BY <1>3, <2>3, <2>4 DEF ScreensInd
<1>7. QED
  BY <1>4, <1>5, <1>6 DEF AnswerPrompt

(* The friend list is used or closed.                                      *)
LEMMA FriendListSteps ==
    ASSUME ScreensInd, PressView \/ DeleteFriend \/ PressAdd \/ CloseFriendList \/ RebuildTimeout
    PROVE  ScreensInd'
<1>1. FramesInd /\ FriendsInd /\ AlarmDialogInd /\ StatDialogInv
  BY DEF ScreensInd
<1>2. AlarmDialogInd' /\ StatDialogInv'
  <2>1. UNCHANGED <<alarmDialogVars, statDialogVars>>
    BY DEF PressView, DeleteFriend, PressAdd, CloseFriendList, RebuildTimeout
  <2>2. QED
    BY <1>1, <2>1, AlarmDialogUnmoved, StatDialogUnmoved
<1>3. CASE PressView
  <2>1. PICK ip \in ToSet(widgets) : Enter("view", ip)
    BY <1>3 DEF PressView
  <2>2. ip \in Addresses \union {NoAddress}
    BY <1>1 DEF ToSet, FriendsInd, FriendListTypeOK
  <2>3. /\ "view" \in Windows \union Waits /\ "friends" \in Windows
        /\ MayLieAbove("friends", "view")
    BY DEF Windows, Waits, MayLieAbove
  <2>4. FramesInd' /\ (Shown("friends")' => Shown("friends"))
    BY <1>1, <1>3, <2>1, <2>2, <2>3, Entered DEF PressView
  <2>5. FriendsInd'
    BY <1>1, <1>3, <2>4, FriendsUnmoved DEF PressView
  <2>6. QED
    BY <1>2, <2>4, <2>5 DEF ScreensInd
<1>4. CASE DeleteFriend
  <2>1. FramesInd'
    BY <1>1, <1>4, FramesKept DEF DeleteFriend
  <2>2. FriendsInd'
    BY <1>1, <1>4, Deleted DEF DeleteFriend
  <2>3. QED
    BY <1>2, <2>1, <2>2 DEF ScreensInd
<1>5. CASE PressAdd
  <2>1. /\ "prompt" \in Windows \union Waits /\ "friends" \in Windows
        /\ MayLieAbove("friends", "prompt") /\ NoAddress \in Addresses \union {NoAddress}
    BY DEF Windows, Waits, MayLieAbove
  <2>2. FramesInd' /\ (Shown("friends")' => Shown("friends"))
    BY <1>1, <1>5, <2>1, Entered DEF PressAdd
  <2>3. FriendsInd'
    BY <1>1, <1>5, <2>2, FriendsUnmoved DEF PressAdd
  <2>4. QED
    BY <1>2, <2>2, <2>3 DEF ScreensInd
<1>6. CASE CloseFriendList
  <2>1. FramesInd' /\ ~Shown("friends")'
    BY <1>1, <1>6, Closed DEF CloseFriendList, Windows
  <2>2. FriendsInd'
    BY <1>1, <1>6, <2>1, FriendsGone DEF CloseFriendList
  <2>3. QED
    BY <1>2, <2>1, <2>2 DEF ScreensInd
<1>7. CASE RebuildTimeout
  <2>1. Fewer(frames')
    BY <1>1, <1>7, FewerSame, FewerButtons DEF RebuildTimeout
  <2>2. FramesInd' /\ (Shown("friends")' => Shown("friends"))
    BY <1>1, <2>1, FewerFrames
  <2>3. FriendsInd'
    BY <1>1, <1>7, <2>2, Rebuilt DEF RebuildTimeout
  <2>4. QED
    BY <1>2, <2>2, <2>3 DEF ScreensInd
<1>8. QED
  BY <1>3, <1>4, <1>5, <1>6, <1>7

(* A message is read.                                                      *)
LEMMA MessageSteps ==
    ASSUME ScreensInd, CloseMessage \/ \E i \in DOMAIN frames : WaitOver(i)
    PROVE  ScreensInd'
<1>1. FramesInd /\ FriendsInd /\ AlarmDialogInd /\ StatDialogInv
  BY DEF ScreensInd
<1>2. UNCHANGED <<alarmDialogVars, statDialogVars, friendListVars>>
  BY DEF CloseMessage, WaitOver
<1>3. FramesInd' /\ (Shown("friends")' => Shown("friends"))
  <2>1. CASE CloseMessage
    BY <1>1, <2>1, Closed DEF CloseMessage, Windows
  <2>2. ASSUME NEW i \in DOMAIN frames, WaitOver(i)
        PROVE  FramesInd' /\ (Shown("friends")' => Shown("friends"))
    <3>1. Fewer(frames')
      BY <1>1, <2>2, FewerOn DEF WaitOver
    <3>2. QED
      BY <1>1, <3>1, FewerFrames
  <2>3. QED
    BY <2>1, <2>2
<1>4. QED
  BY <1>1, <1>2, <1>3, AlarmDialogUnmoved, StatDialogUnmoved, FriendsUnmoved DEF ScreensInd

(* The loop that goes on was on top, and what it opens may lie where it    *)
(* lay.                                                                    *)
LEMMA Continues ==
    ASSUME FramesInd, frames # <<>>, NEW kind \in Windows,
           \A below : MayLieAbove(below, Last(frames).kind) => MayLieAbove(below, kind),
           frames' = Append(Front(frames), [ Last(frames) EXCEPT !.kind = kind, !.on = TRUE ])
    PROVE  FramesInd' /\ \A k : Shown(k)' => Shown(k) \/ k = kind
<1> DEFINE f == [ Last(frames) EXCEPT !.kind = kind, !.on = TRUE ]
<1>1. Len(frames) \in Nat \ {0} /\ DOMAIN frames = 1..Len(frames)
  BY DEF FramesInd
<1>2. Last(frames) \in Frames /\ Last(frames) = frames[Len(frames)]
  BY <1>1 DEF FramesInd, Last
<1>3. f \in Frames /\ f.kind = kind
  BY <1>2 DEF Frames
<1>4. Fewer(Front(frames)) /\ Len(Front(frames)) = Len(frames) - 1
  BY FewerFront
<1>5. \A i \in OpenWindows : i <= Len(Front(frames)) => MayLieAbove(frames[i].kind, kind)
  <2> SUFFICES ASSUME NEW i \in OpenWindows, i <= Len(Front(frames))
               PROVE  MayLieAbove(frames[i].kind, kind)
    OBVIOUS
  <2>1. i \in DOMAIN frames /\ Len(frames) \in DOMAIN frames /\ i < Len(frames)
    BY <1>1, <1>4 DEF OpenWindows
  <2>2. MayLieAbove(frames[i].kind, Last(frames).kind)
    BY <1>2, <2>1 DEF FramesInd, Stacked
  <2>3. QED
    BY <2>2
<1> HIDE DEF f
<1>6. frames' = Append(Front(frames), f)
  BY DEF f
<1>7. QED
  BY <1>3, <1>4, <1>5, <1>6, OneMoreFrame

(* The innermost wait returns, and its caller goes on with what is still   *)
(* there.                                                                  *)
LEMMA WaitReturnsStep ==
    ASSUME ScreensInd, WaitReturns
    PROVE  ScreensInd'
<1>1. /\ FramesInd /\ FriendsInd /\ AlarmDialogInd /\ StatDialogInv
      /\ frames # <<>> /\ UNCHANGED <<alarmDialogVars, friendListVars>>
  BY DEF ScreensInd, WaitReturns
<1> DEFINE Next1(kind) ==
             frames' = Append(Front(frames), [ Last(frames) EXCEPT !.kind = kind, !.on = TRUE ])
<1>2. ASSUME NEW kind \in Windows \ {"friends"}, Next1(kind), StatDialogInv',
             \A below : MayLieAbove(below, Last(frames).kind) => MayLieAbove(below, kind)
      PROVE  ScreensInd'
  <2>1. FramesInd' /\ (Shown("friends")' => Shown("friends"))
    BY <1>1, <1>2, Continues
  <2>2. QED
    BY <1>1, <1>2, <2>1, AlarmDialogUnmoved, FriendsUnmoved DEF ScreensInd
<1>3. CASE Last(frames).kind = "view" /\ Next1("stat") /\ \E l \in Logs : OpenStatDialog(l)
  <2>1. StatDialogInv'
    BY <1>3, OpenedStatDialog
  <2>2. \A below : MayLieAbove(below, Last(frames).kind) => MayLieAbove(below, "stat")
    BY <1>3 DEF MayLieAbove
  <2>3. QED
    BY <1>2, <1>3, <2>1, <2>2 DEF Windows
<1>4. CASE Last(frames).kind = "view" /\ Next1("alert") /\ UNCHANGED statDialogVars
  <2>1. StatDialogInv'
    BY <1>1, <1>4, StatDialogUnmoved
  <2>2. \A below : MayLieAbove(below, Last(frames).kind) => MayLieAbove(below, "alert")
    BY <1>4 DEF MayLieAbove
  <2>3. QED
    BY <1>2, <1>4, <2>1, <2>2 DEF Windows
<1>5. CASE /\ frames' = Settled(Front(frames))
           /\ IF Shown("stat") THEN \E l \in Logs : LogRefreshed(l) ELSE UNCHANGED statDialogVars
  <2>1. Fewer(frames')
    BY <1>1, <1>5, FewerFront, FewerSettled
  <2>2. FramesInd' /\ (Shown("friends")' => Shown("friends"))
    BY <1>1, <2>1, FewerFrames
  <2>3. StatDialogInv'
    BY <1>1, <1>5, RefreshedLog, StatDialogUnmoved
  <2>4. QED
    BY <1>1, <2>2, <2>3, AlarmDialogUnmoved, FriendsUnmoved DEF ScreensInd
<1>6. CASE Last(frames).kind = "photo" /\ Next1("picture") /\ UNCHANGED statDialogVars
  <2>1. StatDialogInv'
    BY <1>1, <1>6, StatDialogUnmoved
  <2>2. \A below : MayLieAbove(below, Last(frames).kind) => MayLieAbove(below, "picture")
    BY <1>6 DEF MayLieAbove
  <2>3. QED
    BY <1>2, <1>6, <2>1, <2>2 DEF Windows
<1>7. QED
  BY <1>3, <1>4, <1>5, <1>6 DEF WaitReturns

(* The power fails within a write of friends.json: the file may be cut,    *)
(* the windows are gone.                                                   *)
LEMMA PowerFailsStep ==
    ASSUME ScreensInd, PowerFails
    PROVE  ScreensInd'
<1>1. AlarmDialogInd' /\ StatDialogInv'
  BY NoAlarmDialogInd, NoStatDialogInv DEF PowerFails
<1>2. FramesInd' /\ ~Shown("friends")'
  BY DEF PowerFails, FramesInd, Stacked, Shown, OpenWindows
<1>3. FriendsInd'
  BY <1>2, FriendsGone DEF PowerFails, ScreensInd
<1>4. QED
  BY <1>1, <1>2, <1>3 DEF ScreensInd

(* Every step keeps the invariant.                                         *)
LEMMA ScreensStep == ScreensInd /\ [Next]_vars => ScreensInd'
<1> SUFFICES ASSUME ScreensInd, [Next]_vars PROVE ScreensInd'
  OBVIOUS
<1>1. CASE UNCHANGED vars
  <2>1. UNCHANGED <<frames, alarmDialogVars, statDialogVars, friendListVars>>
    BY <1>1 DEF vars
  <2>2. FramesInd' /\ (Shown("friends")' => Shown("friends"))
    BY <2>1, FramesKept DEF ScreensInd
  <2>3. QED
    BY <2>1, <2>2, AlarmDialogUnmoved, StatDialogUnmoved, FriendsUnmoved DEF ScreensInd
<1>2. CASE Next
  BY <1>2, OpenFromMainStep, AlarmDialogSteps, StatDialogSteps, FriendListSteps,
     AnswerPromptStep, MessageSteps, WaitReturnsStep, PowerFailsStep
     DEF Next
<1>3. QED
  BY <1>1, <1>2

(* The invariant holds throughout.                                         *)
LEMMA ScreensAlways == Spec => []ScreensInd
BY ScreensInit, ScreensStep, PTL DEF Spec

(* In any calendar and on any dial: the date selector stands on a date,    *)
(* the summary tells what onConfirm() would do, and the time survives the  *)
(* way to the dial and back.                                               *)
THEOREM AlarmDialogCorrect == Spec => []AlarmDialogInv
<1>1. ScreensInd => AlarmDialogInv
  BY ScreensImplied
<1>2. QED
  BY <1>1, ScreensAlways, PTL

(* For logs of any length: each day has the colour of its slowest          *)
(* dismissal, and a list of one day is not empty.                          *)
THEOREM StatDialogCorrect == Spec => []StatDialogInv
<1>1. ScreensInd => StatDialogInv
  BY ScreensImplied
<1>2. QED
  BY <1>1, ScreensAlways, PTL

(* However deep the event loops are nested: no dialog is open twice, and   *)
(* the friend list, its rows and its file agree.                           *)
THEOREM ScreensCorrect == Spec => []ScreensInv
<1>1. ScreensInd => ScreensInv
  BY ScreensImplied
<1>2. QED
  BY <1>1, ScreensAlways, PTL

(* Once friends.json exists, only the answer to the prompt puts an address *)
(* into it: every other press and every failure takes addresses away or    *)
(* leaves them.                                                            *)
THEOREM OnlyThePromptAdds == Spec => OnlyAddAdds
<1> DEFINE Allowed == \/ ToSet(jsonFriends') \subseteq ToSet(jsonFriends)
                      \/ ~jsonExists
                      \/ AtFront("prompt")
<1>1. ScreensInd /\ [Next]_vars => [Allowed]_vars
  <2> SUFFICES ASSUME ScreensInd, Next PROVE Allowed
    OBVIOUS
  <2>1. CASE UNCHANGED jsonFriends
    BY <2>1
  <2>2. CASE OpenFromMain
    BY <2>1, <2>2 DEF OpenFromMain, OpenFriendList, friendListVars
  <2>3. CASE DeleteFriend
    <3>1. FramesInd /\ FriendsInd /\ "friends" \in Windows
      BY DEF ScreensInd, Windows
    <3>2. friends = jsonFriends
      <4>1. Shown("friends")
        BY <2>3, <3>1, AtFrontIsOpen DEF DeleteFriend
      <4>2. QED
        BY <3>1, <4>1 DEF FriendsInd, FileIsUpToDate
    <3>3. PICK i \in DOMAIN widgets : PressDel(i)
      BY <2>3 DEF DeleteFriend
    <3>4. ToSet(friends') \subseteq ToSet(friends) /\ jsonFriends' = friends'
      BY <3>1, <3>3, Deleted DEF PressDel, SaveFriends
    <3>5. QED
      BY <3>2, <3>4
  <2>4. CASE AnswerPrompt
    BY <2>4 DEF AnswerPrompt, UserAt
  <2>5. CASE PowerFails
    <3>1. CASE CutFriendsFile
      BY <3>1 DEF CutFriendsFile, SaveFriends, ToSet
    <3>2. QED
      BY <2>1, <2>5, <3>1 DEF PowerFails
  <2>6. CASE RebuildTimeout
    BY <2>1, <2>6 DEF RebuildTimeout, RebuildList
  <2>7. CASE \/ InAlarmDialog \/ CloseAlarmDialog
             \/ InStatDialog \/ FetchForStat \/ CloseStatDialog
             \/ PressView \/ PressAdd \/ CloseFriendList \/ CloseMessage
             \/ (\E i \in DOMAIN frames : WaitOver(i))
             \/ WaitReturns
    <3>1. UNCHANGED jsonFriends
      BY <2>7
         DEF InAlarmDialog, CloseAlarmDialog, InStatDialog, FetchForStat, CloseStatDialog,
             PressView, PressAdd, CloseFriendList, CloseMessage, WaitOver, WaitReturns,
             friendListVars
    <3>2. QED
      BY <2>1, <3>1
  <2>8. QED
    BY <2>2, <2>3, <2>4, <2>5, <2>6, <2>7 DEF Next
<1>2. QED
  BY <1>1, ScreensAlways, PTL DEF Spec, OnlyAddAdds
=============================================================================
