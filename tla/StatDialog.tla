------------------------------ MODULE StatDialog ------------------------------
(***************************************************************************)
(* The statistics dialog (app/statdialog.cpp): a log of dismissed alarms   *)
(* as a list, of all records or of one day, and as a calendar that colours *)
(* each day.  It shows this clock's log or, in friend mode, one that was   *)
(* fetched.  The waits of its fetches are in Screens, the protocol they    *)
(* follow in LogExchange.                                                  *)
(***************************************************************************)
EXTENDS SequencesExt, FiniteSetsExt, Integers

CONSTANTS
    LastDay,        \* days are 1..LastDay
    MonthLength,    \* days of a month
    Quick, Slow,    \* 30 and 120 seconds in the code
    Delays,         \* seconds from an alarm to its dismissal
    MaxRecords      \* bound on the length of a log

ASSUME StatConstants ==
    /\ LastDay \in Nat \ {0} /\ MonthLength \in Nat \ {0}
    /\ Quick \in Nat /\ Slow \in Nat /\ Quick < Slow
    /\ Delays \subseteq Nat
    /\ MaxRecords \in Nat

Days == 1..LastDay
NoDay == 0

NoDelay == -1

(* A line of the log: the day of the dismissal and the time it took.       *)
(* Neither is known when the dismissal does not parse, and no time when    *)
(* the alarm does not: a line cut by a power failure, with the next one    *)
(* appended to it, has both.                                               *)
Records == [day : Days, delay : Delays \union {NoDelay}]
               \union {[day |-> NoDay, delay |-> NoDelay]}
Logs == UNION { [1..n -> Records] : n \in 0..MaxRecords }

VARIABLES
    log,        \* m_logData
    filter,     \* the day in m_listDateLabel, or NoDay for "All Records"
    rows,       \* m_listWidget: the records listed, by their place in the log
    calendar,   \* CalendarWidget::m_data: a colour for each day, 0 for none
    month,      \* CalendarWidget::m_month
    page,       \* m_stack: "list" or "calendar"
    button      \* the text of m_graphBtn

statDialogVars == <<log, filter, rows, calendar, month, page, button>>

MonthOf(day) == (day - 1) \div MonthLength
LastMonthShown == MonthOf(LastDay)      \* bound on the months looked at

-----------------------------------------------------------------------------
Colour(delay) == IF delay <= Quick THEN 1 ELSE IF delay <= Slow THEN 2 ELSE 3

(* The records of a day that say how long the dismissal took.              *)
Timed(records, day) == { r \in ToSet(records) : r.day = day /\ r.delay # NoDelay }

(* populateList()'s loop, the calendar's part: each day's worst colour.    *)
Coloured(records) ==
    [ d \in Days |-> Max({0} \union { Colour(r.delay) : r \in Timed(records, d) }) ]

(* populateList()'s loop, the rows.                                        *)
Listed(records, day) == { i \in DOMAIN records : day \in {NoDay, records[i].day} }

(* CalendarWidget::setData() shows the month of the last coloured day.     *)
MonthAfter(data) ==
    LET Marked == { d \in Days : data[d] # 0 }
    IN  IF Marked = {} THEN month ELSE MonthOf(Max(Marked))

\* Mutant of PopulateList: the calendar follows the filter.
PopulateListBoth(records, day) ==
    /\ log' = records
    /\ filter' = day
    /\ rows' = Listed(records, day)
    /\ calendar' = Coloured([ i \in rows' |-> records[i] ])
    /\ month' = MonthAfter(calendar')

PopulateList(records, day) ==
    /\ log' = records
    /\ filter' = day
    /\ rows' = Listed(records, day)
    /\ IF day = NoDay
       THEN calendar' = Coloured(records) /\ month' = MonthAfter(calendar')
       ELSE UNCHANGED <<calendar, month>>

-----------------------------------------------------------------------------
StatDialogInit ==
    /\ log = <<>> /\ rows = {}
    /\ filter = NoDay
    /\ calendar = [ d \in Days |-> 0 ]
    /\ month = 0
    /\ page = "calendar" /\ button = "List"

(* Either constructor, buildUi() first; today's month is any.              *)
OpenStatDialog(records) ==
    /\ log' = records /\ rows' = Listed(records, NoDay)
    /\ filter' = NoDay
    /\ calendar' = Coloured(records)
    /\ month' \in IF \E d \in Days : calendar'[d] # 0 THEN {MonthAfter(calendar')}
                  ELSE 0..LastMonthShown
    /\ page' = "calendar" /\ button' = "List"

(* "<" and ">" of the calendar.                                            *)
TurnMonth ==
    /\ page = "calendar"
    /\ \/ month > 0 /\ month' = month - 1
       \/ month < LastMonthShown /\ month' = month + 1
    /\ UNCHANGED <<log, filter, rows, calendar, page, button>>

(* onDayClicked(): only a coloured day has a click.                        *)
OnDayClicked(day) ==
    /\ page = "calendar" /\ MonthOf(day) = month /\ calendar[day] > 0
    /\ PopulateList(log, day)
    /\ page' = "list" /\ button' = "Calendar"

OnGraphButton ==
    \/ /\ page = "calendar"
       /\ PopulateList(log, NoDay)
       /\ page' = "list" /\ button' = "Calendar"
    \/ /\ page = "list"
       /\ page' = "calendar" /\ button' = "List"
       /\ UNCHANGED <<log, filter, rows, calendar, month>>

(* The end of the Refresh button's slot, with what the fetch returned:     *)
(* nothing when it failed.                                                 *)
LogRefreshed(records) ==
    /\ PopulateList(records, NoDay)
    /\ page' = "calendar" /\ button' = "List"

StatDialogInput ==
    \/ TurnMonth
    \/ \E d \in Days : OnDayClicked(d)
    \/ OnGraphButton

-----------------------------------------------------------------------------
StatDialogTypeOK ==
    /\ log \in Logs
    /\ filter \in Days \union {NoDay}
    /\ rows \subseteq DOMAIN log
    /\ calendar \in [ Days -> 0..3 ]
    /\ month \in 0..LastMonthShown
    /\ page \in {"list", "calendar"}
    /\ button \in {"List", "Calendar"}

(* Each day has the colour of its slowest dismissal in the log that is     *)
(* shown, also after days were looked at one by one, after the list was    *)
(* filtered and after a refresh replaced the log in between.               *)
CalendarShowsWorst ==
    \A d \in Days :
      LET delays == { r.delay : r \in Timed(log, d) } IN
      /\ (calendar[d] = 0) <=> (delays = {})
      /\ (calendar[d] = 1) <=> (delays # {} /\ \A s \in delays : s <= Quick)
      /\ (calendar[d] = 3) <=> (\E s \in delays : s > Slow)

(* A list of one day is never empty: the day that could be clicked has     *)
(* records, and they are those of the log that the calendar was made of.   *)
DayHasRecords == filter # NoDay => rows # {}

(* The button names the page it leads to, however a refresh, a click on a  *)
(* day and the button itself follow each other.                            *)
ButtonNamesOtherPage == (button = "Calendar") <=> (page = "list")

(* What the statistics dialog shows at every moment: calendar, list and    *)
(* button agree with the log and with each other.                          *)
StatDialogInv ==
    /\ StatDialogTypeOK
    /\ CalendarShowsWorst
    /\ DayHasRecords
    /\ ButtonNamesOtherPage
=============================================================================
