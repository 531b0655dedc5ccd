------------------------------ MODULE AlarmClock ------------------------------
(***************************************************************************)
(* The alarm clock proper (app/mainwindow.cpp): the list of alarms, the    *)
(* one-second tick that rings those whose time has come, the dialogs, and  *)
(* the two files the list survives a restart in.                           *)
(*                                                                         *)
(* Everything runs in the main thread, but exec() of a dialog runs a       *)
(* nested event loop: while the user edits an alarm the tick goes on, may  *)
(* open the dismiss dialog on top, and the edit resumes only after the     *)
(* dismissal has updated and re-sorted the list.  A modal dialog blocks    *)
(* the widgets of every older window, so the dismiss dialog, once open,    *)
(* is the only thing the user can operate.  A handler runs to completion   *)
(* between two events and is one action; a crash may cut it short between  *)
(* two file writes.                                                        *)
(***************************************************************************)
EXTENDS AlarmList

CONSTANTS
    Masks,          \* the repeat masks users choose, {} among them
    Dates,          \* the days users pick in the calendar
    Modes,          \* the dismiss modes users choose
    DebugDelay,     \* the 5 seconds of the debug alarm, in clock units
    MaxAlarms,      \* bound: alarms in the list
    MaxId,          \* bound: ids ever handed out
    MaxTime,        \* bound: the clock stops here
    MaxStops        \* bound: times the program ends, by a crash or by Exit

ASSUME ClockConstants ==
    /\ {} \in Masks /\ Masks \subseteq SUBSET Weekdays
    /\ Dates \subseteq Nat
    /\ Modes \subseteq DismissModes
    /\ DebugDelay \in Nat
    /\ MaxAlarms \in Nat /\ MaxId \in Nat /\ MaxTime \in Nat /\ MaxStops \in Nat

VARIABLES
    now,            \* QDateTime::currentDateTime()
    running,        \* the process exists and its event loop turns
    alarms,         \* m_alarms
    nextAlarmId,    \* m_nextAlarmId
    rows,           \* the rows of m_alarmListWidget: the entries they display
    currentRow,     \* m_alarmListWidget->currentRow(), 0 for none
    dialog,         \* the dialog the user opened: "none", "add", "edit", ...
    editing,        \* openEditDialog(): row, and the id of the entry it showed
    alarmHandling,  \* m_alarmHandling, set while the dismiss dialog is open
    triggered,      \* the list triggered of the updateCurrentTime() on the stack
    challenge,      \* the mode of the open dismiss dialog
    disk,           \* what the files hold
    appended,       \* history: the log lines of the dismissal of this, or the last, ring
    stops           \* how often the program has ended

memory == <<alarms, nextAlarmId, rows, currentRow, dialog, editing,
            alarmHandling, triggered, challenge>>
vars == <<now, running, memory, disk, appended, stops>>

UserDialogs == {"none", "add", "edit", "debug", "view"}
NotEditing == [ row |-> 0, id |-> 0 ]

(* The files alarm_counter.txt and alarms_save.json.  One cut short by a  *)
(* crash reads like an absent one: the counter as 0, the list as empty.    *)
EmptyDisk == [ counter |-> 0, alarms |-> << >> ]

(* The ids of the alarms whose line is in alarm.txt, the log of all, and   *)
(* of those whose line is in their own alarm_<id>.txt.  Lines of earlier   *)
(* dismissals stay in the files and are not counted.                       *)
NoLines == [ main |-> {}, own |-> {} ]

Init ==
    /\ now = 0
    /\ running = TRUE
    /\ alarms = << >>
    /\ nextAlarmId = 1
    /\ rows = << >>
    /\ currentRow = 0
    /\ dialog = "none"
    /\ editing = NotEditing
    /\ alarmHandling = FALSE
    /\ triggered = {}
    /\ challenge = "Simple"
    /\ disk = EmptyDisk
    /\ appended = NoLines
    /\ stops = 0

-----------------------------------------------------------------------------
(* The row number refreshAlarmList() selects again, if it still exists.    *)
KeptRow(list) == IF currentRow \in 1..Len(list) THEN currentRow ELSE 0

(* refreshAlarmList(): sort, then rebuild the rows.                        *)
ShowSorted(list) ==
    /\ alarms' = SortAlarmsByTime(list)
    /\ rows' = SortAlarmsByTime(list)

RefreshAlarmList(list) == ShowSorted(list) /\ currentRow' = KeptRow(list)

(* updateCurrentTime() from the list of due alarms up to dlg.exec().       *)
RingDue(list, busy) ==
    LET due == Triggered(list, now)
    IN  IF due = {} \/ busy
        THEN alarmHandling' = busy /\ UNCHANGED <<triggered, challenge, appended>>
        ELSE /\ alarmHandling' = TRUE
             /\ triggered' = due
             /\ challenge' = ChallengeFor(due)
             /\ appended' = NoLines

(* The clock timer's slot, in whatever event loop is the innermost.        *)
UpdateCurrentTime ==
    /\ running
    /\ RefreshAlarmList(alarms)
    /\ RingDue(SortAlarmsByTime(alarms), alarmHandling)
    /\ UNCHANGED <<now, running, nextAlarmId, dialog, editing, disk, stops>>

(* The list after the dismissal: every index the tick collected is updated *)
(* through m_alarms[t.index].                                              *)
DismissedList ==
    [ i \in DOMAIN alarms |->
        IF \E t \in triggered : t.index = i THEN AfterDismissal(alarms[i], now)
                                            ELSE alarms[i] ]

(* alarm.txt gets a line for each of these triggered alarms.               *)
LinesOf(due) == { t.id : t \in due }

(* Their own logs are those of the alarms now in their places.             *)
LogsOf(due) == { alarms[t.index].id : t \in { u \in due : u.index \in DOMAIN alarms } }

AllLines == [ main |-> LinesOf(triggered), own |-> LogsOf(triggered) ]

(* Mutant of Dismiss: m_alarmHandling is not reset.                        *)
DismissKeepsGuard ==
    /\ running /\ alarmHandling
    /\ appended' = AllLines
    /\ disk' = [ disk EXCEPT !.alarms = DismissedList ]
    /\ RefreshAlarmList(DismissedList)
    /\ triggered' = {}
    /\ challenge' = "Simple"
    /\ UNCHANGED <<now, running, nextAlarmId, dialog, editing, alarmHandling, stops>>

(* dlg.exec() has returned because the user met the challenge: the rest of *)
(* updateCurrentTime(), which writes the log of all alarms, then each      *)
(* alarm's own, then the list.                                             *)
Dismiss ==
    /\ running /\ alarmHandling
    /\ appended' = AllLines
    /\ disk' = [ disk EXCEPT !.alarms = DismissedList ]
    /\ RefreshAlarmList(DismissedList)
    /\ alarmHandling' = FALSE
    /\ triggered' = {}
    /\ challenge' = "Simple"
    /\ UNCHANGED <<now, running, nextAlarmId, dialog, editing, stops>>

-----------------------------------------------------------------------------
(* Mutant of MainWindowUsable: the user's own dialogs are not modal.       *)
MainWindowNotBlocked == running /\ ~alarmHandling

(* The user can reach the main window's widgets.                           *)
MainWindowUsable == running /\ dialog = "none" /\ ~alarmHandling

(* The user can reach the widgets of the dialog d.                         *)
DialogUsable(d) == running /\ dialog = d /\ ~alarmHandling

ringState == <<alarmHandling, triggered, challenge, appended>>

(* Mutant of SaveAlarms: the handlers forget to save.                      *)
SaveAlarmsNot(list) == UNCHANGED disk

(* saveAlarms(): the file is truncated, then written.                      *)
SaveAlarms(list) == disk' = [ disk EXCEPT !.alarms = list ]

SelectRow(i) ==
    /\ MainWindowUsable
    /\ currentRow' = i
    /\ UNCHANGED <<now, running, alarms, nextAlarmId, rows, dialog, editing,
                   ringState, disk, stops>>

(* openAddDialog(), setDebugAlarmPlus5Sec(), openStatDialog(),             *)
(* openAlarmStatDialog() and openFriendStatDialog() up to exec().          *)
OpenDialog(d) ==
    /\ MainWindowUsable
    /\ dialog' = d
    /\ UNCHANGED <<now, running, alarms, nextAlarmId, rows, currentRow, editing,
                   ringState, disk, stops>>

(* openEditDialog() up to exec(): the row is read now and kept.            *)
OpenEditDialog ==
    /\ MainWindowUsable
    /\ currentRow \in DOMAIN alarms
    /\ dialog' = "edit"
    /\ editing' = [ row |-> currentRow, id |-> alarms[currentRow].id ]
    /\ UNCHANGED <<now, running, alarms, nextAlarmId, rows, currentRow,
                   ringState, disk, stops>>

(* Any of them is cancelled, or a statistics view is closed.               *)
CloseDialog ==
    /\ dialog # "none"
    /\ DialogUsable(dialog)
    /\ dialog' = "none"
    /\ editing' = NotEditing
    /\ UNCHANGED <<now, running, alarms, nextAlarmId, rows, currentRow,
                   ringState, disk, stops>>

(* The entry a confirmed add or debug dialog appends.                      *)
NewEntry(at, mask, mode) ==
    [ id |-> nextAlarmId, at |-> at, enabled |-> TRUE, mask |-> mask, mode |-> mode ]

(* The rest of openAddDialog() and setDebugAlarmPlus5Sec() once accepted:  *)
(* the counter is saved before the list that uses it.                      *)
AppendAlarm(e) ==
    /\ nextAlarmId <= MaxId
    /\ Len(alarms) < MaxAlarms
    /\ nextAlarmId' = nextAlarmId + 1
    /\ disk' = [ disk EXCEPT !.counter = nextAlarmId + 1, !.alarms = Append(alarms, e) ]
    /\ ShowSorted(Append(alarms, e))
    /\ dialog' = "none"
    /\ UNCHANGED <<now, running, editing, ringState, stops>>

(* Equal in what openAddDialog() compares to find its row again.           *)
SameButId(e, f) == [ e EXCEPT !.id = 1 ] = [ f EXCEPT !.id = 1 ]

FirstRowLike(e, list) ==
    CHOOSE i \in DOMAIN list :
        /\ SameButId(list[i], e)
        /\ \A j \in DOMAIN list : SameButId(list[j], e) => i <= j

ConfirmAdd ==
    /\ DialogUsable("add")
    /\ \E c \in ConfirmedTimes(now, Masks, Dates), mode \in Modes :
         LET e == NewEntry(c.at, c.mask, mode)
         IN  /\ AppendAlarm(e)
             /\ currentRow' = FirstRowLike(e, SortAlarmsByTime(Append(alarms, e)))

ConfirmDebug ==
    /\ DialogUsable("debug")
    /\ \E mode \in Modes :
         LET e == NewEntry(now + DebugDelay, {}, mode)
         IN  /\ AppendAlarm(e)
             /\ currentRow' = KeptRow(Append(alarms, e))

(* The rest of openEditDialog() once accepted: whatever entry is now in    *)
(* the row read before exec() gets the dialog's values.                    *)
ConfirmEdit ==
    /\ DialogUsable("edit")
    /\ editing.row \in DOMAIN alarms
    /\ \E c \in ConfirmedTimes(now, Masks, Dates), mode \in Modes :
         LET list == [ alarms EXCEPT ![editing.row] =
                         [ @ EXCEPT !.at = c.at, !.mask = c.mask,
                                    !.mode = mode, !.enabled = TRUE ] ]
         IN  SaveAlarms(SortAlarmsByTime(list)) /\ RefreshAlarmList(list)
    /\ dialog' = "none"
    /\ editing' = NotEditing
    /\ UNCHANGED <<now, running, nextAlarmId, ringState, stops>>

(* The handlers of the main window that replace the list, save it and      *)
(* refresh the rows.                                                       *)
ReplaceList(list) ==
    /\ SaveAlarms(list)
    /\ RefreshAlarmList(list)
    /\ UNCHANGED <<now, running, nextAlarmId, dialog, editing, ringState, stops>>

DeleteSelectedAlarm ==
    /\ MainWindowUsable
    /\ currentRow \in DOMAIN alarms
    /\ ReplaceList(RemoveRow(alarms, currentRow))

(* The Enable or Disable button of row i, whichever the row displays.      *)
DisableRow(i) ==
    /\ MainWindowUsable
    /\ rows[i].enabled /\ i \in DOMAIN alarms
    /\ ReplaceList([ alarms EXCEPT ![i].enabled = FALSE ])

EnableRow(i) ==
    /\ MainWindowUsable
    /\ ~rows[i].enabled /\ i \in DOMAIN alarms
    /\ ~alarms[i].enabled
    /\ ReplaceList([ alarms EXCEPT ![i] = Reenabled(@, now) ])

-----------------------------------------------------------------------------
(* The program ends: its memory is gone and the next start builds a new    *)
(* MainWindow.                                                             *)
Stop ==
    /\ running
    /\ stops < MaxStops
    /\ stops' = stops + 1
    /\ running' = FALSE
    /\ alarms' = << >> /\ rows' = << >> /\ nextAlarmId' = 1 /\ currentRow' = 0
    /\ dialog' = "none" /\ editing' = NotEditing
    /\ alarmHandling' = FALSE /\ triggered' = {} /\ challenge' = "Simple"
    /\ UNCHANGED now

(* A crash while no handler runs, or Exit: nothing is written.             *)
StopIdle == Stop /\ UNCHANGED <<disk, appended>>

(* A crash inside saveAlarms(), called by the handler of a button of the   *)
(* main window or of the edit dialog.                                      *)
StopInSave ==
    /\ MainWindowUsable \/ DialogUsable("edit")
    /\ alarms # << >>
    /\ disk' = [ disk EXCEPT !.alarms = << >> ]
    /\ UNCHANGED appended
    /\ Stop

(* A crash after an add dialog was accepted: inside saveAlarmCounter(),    *)
(* after it, or inside saveAlarms().                                       *)
StopInAppend ==
    /\ DialogUsable("add") \/ DialogUsable("debug")
    /\ nextAlarmId <= MaxId
    /\ Len(alarms) < MaxAlarms
    /\ disk' \in { [ disk EXCEPT !.counter = 0 ],
                   [ disk EXCEPT !.counter = nextAlarmId + 1 ],
                   [ disk EXCEPT !.counter = nextAlarmId + 1, !.alarms = << >> ] }
    /\ UNCHANGED appended
    /\ Stop

(* Mutant of DismissalCuts: the list is saved before the logs are written. *)
DismissalCutsSaveFirst ==
    { [ disk |-> [ disk EXCEPT !.alarms = list ], appended |-> NoLines ] :
        list \in {<< >>, DismissedList} }

(* What a crash during the dismissal leaves: alarm.txt with the lines of   *)
(* the first so many triggered alarms; all of them and the own logs of the *)
(* first so many; or all logs, and a list cut short.                       *)
DismissalCuts ==
    LET First(k) == { t \in triggered : t.index <= k }
        Cut(list, lines) == [ disk |-> [ disk EXCEPT !.alarms = list ], appended |-> lines ]
    IN  { Cut(disk.alarms, [ main |-> LinesOf(First(k)), own |-> {} ]) :
            k \in 0..Len(alarms) }
        \union
        { Cut(disk.alarms, [ AllLines EXCEPT !.own = LogsOf(First(k)) ]) :
            k \in DOMAIN alarms }
        \union { Cut(<< >>, AllLines) }

StopInDismiss ==
    /\ alarmHandling
    /\ \E cut \in DismissalCuts : disk' = cut.disk /\ appended' = cut.appended
    /\ Stop

(* Mutant of FirstFreeId: the saved counter is trusted.                    *)
SavedCounter == { IF disk.counter > 0 THEN disk.counter ELSE 1 }

(* loadAlarmCounter(), then loadAlarms() moving m_nextAlarmId past every   *)
(* id it loads.                                                            *)
FirstFreeId ==
    LET Candidates == { IF disk.counter > 0 THEN disk.counter ELSE 1 }
                        \union { id + 1 : id \in Ids(disk.alarms) }
    IN  { n \in Candidates : \A m \in Candidates : m <= n }

LoadedList == [ i \in DOMAIN disk.alarms |-> Reloaded(disk.alarms[i], now) ]

(* The constructor: load both files, then look for due alarms at once.     *)
Boot ==
    /\ ~running
    /\ running' = TRUE
    /\ nextAlarmId' \in FirstFreeId
    /\ RefreshAlarmList(LoadedList)
    /\ RingDue(SortAlarmsByTime(LoadedList), FALSE)
    /\ UNCHANGED <<now, dialog, editing, disk, stops>>

(* Time passes whether the program runs or not.                            *)
TimePasses ==
    /\ now < MaxTime
    /\ now' = now + 1
    /\ UNCHANGED <<running, memory, disk, appended, stops>>

Next ==
    \/ UpdateCurrentTime
    \/ Dismiss
    \/ \E i \in DOMAIN rows : SelectRow(i) \/ DisableRow(i) \/ EnableRow(i)
    \/ \E d \in {"add", "debug", "view"} : OpenDialog(d)
    \/ OpenEditDialog
    \/ CloseDialog
    \/ ConfirmAdd
    \/ ConfirmDebug
    \/ ConfirmEdit
    \/ DeleteSelectedAlarm
    \/ StopIdle \/ StopInSave \/ StopInAppend \/ StopInDismiss
    \/ Boot
    \/ TimePasses

(* The clock timer is started by the constructor and never stopped.  No    *)
(* fairness on the user, on time or on a restart.                          *)
Fairness == WF_vars(UpdateCurrentTime)

Spec == Init /\ [][Next]_vars /\ Fairness

-----------------------------------------------------------------------------
(* Type invariant.                                                         *)
TypeOK ==
    /\ now \in Nat
    /\ running \in BOOLEAN
    /\ alarms \in Seq(Entries) /\ rows \in Seq(Entries)
    /\ nextAlarmId \in Nat \ {0}
    /\ currentRow \in 0..Len(alarms)
    /\ dialog \in UserDialogs
    /\ editing \in [ row : Nat, id : Nat ]
    /\ alarmHandling \in BOOLEAN
    /\ triggered \subseteq [ index : Nat \ {0}, id : Nat \ {0}, at : Nat, mode : DismissModes ]
    /\ challenge \in DismissModes
    /\ disk \in [ counter : Nat, alarms : Seq(Entries) ]
    /\ appended \in [ main : SUBSET (Nat \ {0}), own : SUBSET (Nat \ {0}) ]
    /\ stops \in Nat

DistinctIds(list) == \A i, j \in DOMAIN list : list[i].id = list[j].id => i = j

(* No two live alarms ever share an id, and the next id is free, whatever  *)
(* crashes did to the two files: the log and photo names built from the id *)
(* never mix two live alarms.                                              *)
LiveIdsDistinct ==
    /\ DistinctIds(alarms)
    /\ running => \A i \in DOMAIN alarms : alarms[i].id < nextAlarmId

(* The row a button handler captured when the rows were built is the row   *)
(* of the alarm it displays whenever the user can click it.                *)
RowsShowAlarms == rows = alarms

(* The indices updateCurrentTime() collected before exec() still name the  *)
(* alarms that rang when it uses them after exec(), ticks and re-sorts in  *)
(* the nested event loop notwithstanding: no other alarm is disabled,      *)
(* advanced or logged in their place.                                      *)
TriggeredStillNamed ==
    \A t \in triggered : /\ t.index \in DOMAIN alarms
                         /\ alarms[t.index].id = t.id
                         /\ alarms[t.index].at = t.at
                         /\ alarms[t.index].enabled

(* The row openEditDialog() kept across exec() is still in the list, which *)
(* it writes without checking again.                                       *)
EditRowInRange == dialog = "edit" => editing.row \in DOMAIN alarms

(* What the handlers rely on when they are entered: ids tell alarms        *)
(* apart, a row's button acts on the alarm it shows, and the row that an   *)
(* edit will write exists, through nested ticks, crashes and restarts.     *)
ClockInv ==
    /\ TypeOK
    /\ LiveIdsDistinct
    /\ RowsShowAlarms
    /\ EditRowInRange

(* An alarm that was dismissed is not due any more: it is disabled, or its *)
(* next occurrence lies ahead, so one occurrence rings once.               *)
DismissedDoesNotRingAgain ==
    [][ (alarmHandling /\ running' /\ ~alarmHandling')
          => \A t \in triggered : \A i \in DOMAIN alarms' :
               alarms'[i].id = t.id => ~alarms'[i].enabled \/ alarms'[i].at > now ]_vars

(* While an alarm rings, the saved list changes only once this dismissal   *)
(* is in alarm.txt and in the own log of every alarm that rang: a crash in *)
(* between may report it twice, never lose it.                             *)
DismissalLoggedFirst ==
    [][ (alarmHandling /\ disk'.alarms # disk.alarms)
          => \A t \in triggered : t.id \in appended'.main /\ t.id \in appended'.own ]_vars

(* Whenever the program runs, a restart would bring back the list it has:  *)
(* the saved list, brought up to date as loadAlarms() does, has the        *)
(* entries of the one in memory, brought up to date likewise.              *)
RestartKeepsAlarms ==
    running => { Reloaded(disk.alarms[i], now) : i \in DOMAIN disk.alarms }
                 = { Reloaded(alarms[i], now) : i \in DOMAIN alarms }

(* When alarms are due and none is being handled, the next tick rings      *)
(* them, in whatever dialog the user is, unless they are disarmed or the   *)
(* program ends first.                                                     *)
DueAlarmsRing ==
    (running /\ triggered = {} /\ Triggered(alarms, now) # {})
        ~> (triggered # {} \/ Triggered(alarms, now) = {} \/ ~running)

-----------------------------------------------------------------------------
(* Said of the program by its comments and messages, and not true of it.   *)

(* The edit dialog changes the alarm the user selected: "Please select an  *)
(* alarm from the list to edit." (mainwindow.cpp:657).                     *)
EditStillNamed ==
    (dialog = "edit" /\ ~alarmHandling) => alarms[editing.row].id = editing.id
=============================================================================
