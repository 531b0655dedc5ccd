# A TLA+ verification of the ClassC alarm clock

The program is a Qt alarm clock for a Raspberry Pi (`src/app`) with four kernel
modules for its hardware (`src/device_driver`). It rings alarms and lets the user
silence one only by meeting a challenge: press the physical button an exact
number of times, take a photo, hold a hand before ultrasonic sensors, play a
number or colour game, or simply confirm. This directory models it in TLA+,
model-checks small instances with TLC and proves theorems with TLAPS.

## Inventory

### Components, their state and operations

| component | state | operations | modelled in |
|---|---|---|---|
| alarm scheduling and persistence, `mainwindow.cpp` | `m_alarms`, `m_nextAlarmId`, the list widget's rows and current row, `m_alarmHandling`, `alarms_save.json`, `alarm_counter.txt`, logs | 1 s tick, dismissal, add, edit, debug add, delete, enable, disable, load, save | `AlarmClock`, `AlarmList`, `RepeatSchedule` |
| sound player, `mainwindow.cpp` | one `QProcess`, a 200 ms loop timer | start, restart, terminate, kill | `AlarmSound` |
| press-counting game, `gameengine.cpp` | state, count, target, seconds left, two timers | start, press, tick, success timer, restart | `GameEngine` |
| dismiss dialog `dismissdialog.cpp`, Button mode | the engine, pending single shots | verdict slots, accept, restart | `ButtonDismiss` |
| Camera mode, with `alarmcamerathread.cpp` | capture flag, photo path; shared request and preview flag; devices, link | press, queued slots, `stop()`, destructor; `run()` | `CameraDismiss` |
| Ultrasonic game, with `ultrasonicwatcher.cpp` and `ultrasonic.c` | step, hold; worker, stop pipe; last distances, lock | a slot per reading; poll, emit, destructor; read | `UltrasonicDismiss` |
| Simple mode, number game, colour game | next number, styles; sequence, indices; single shots | clicks, shows, flashes | `ClickGames` |
| button driver `devtest.c`, `buttonwatcher.cpp` | `pressed`, wait queue, interrupt depth; worker, stop pipe | ISR, `read`, ioctls; select loop, destructor | `ButtonWatch` |
| alarm dialog `alarmdialog.cpp` | dial, weekdays and their locks, date, summary | wheels, repeat timers, date selector, confirm | `AlarmDialog` |
| statistics `statdialog.cpp` | log, filter, list, calendar, page | day, page and month clicks, refresh | `StatDialog` |
| friend list in `mainwindow.cpp` | list, rows, `friends.json`, `friend_ip.txt` | add, delete, rebuild, migration | `FriendList` |
| the windows of the main window | the nested event loops | open, close, wait, return | `Screens` |
| friend client and alarm server in `mainwindow.cpp` | sockets, loops, buffers; the log | fetch; `GET_LOG`, `GET_PHOTO` | `LogExchange` |
| buzzer `buzzertest.c` | `g_stop`, PWM | play, write, stop | `Buzzer`, `Drivers` |
| light sensor `luxtest.c` | sensor power, lock | open, release | `LightSensor`, `Drivers` |
| loading of the four drivers | regions, mappings, interrupt, clock | probe with its error labels, remove | `Drivers` |
| test programs, `practice_dd`, `kernel`, `poster`, `test_contents` | | | not modelled |

### How they interact

Everything in `src/app` runs in the main thread except the camera thread, the
button worker and the ultrasonic worker, which talk to it with queued signals.
The camera thread also shares a mutex-protected path, an atomic flag and a stop
flag with its dialog. `QDialog::exec()`, and every wait for a friend's clock, runs
a nested event loop, so the tick, the server and other dialogs run inside them.
`MainWindow` creates a `DismissDialog` on the stack of the tick, connects the
button watcher to it, and resumes when it returns. The game engine calls the
dialog by direct signals. Files connect one run of the program with the next,
TCP one clock with another, the drivers' devices the program with other
processes.

### What is hard here

- *Values kept across a nested loop*: `openEditDialog()` and
  `updateCurrentTime()` keep row numbers while nested ticks re-sort the list;
  waits for a friend outlive the dialog, the row or the log they were about.
- *Timers racing each other and the user*: success timer and last countdown tick;
  delayed accept and restart; the late end of a red flash; the chain of shots that
  shows a colour sequence; the player's loop timer.
- *Two threads handing a token back and forth*: the capture request and the
  preview flag; workers that must be gone before their object is.
- *Crashes between file writes*: every file is truncated, then rewritten.
- *Devices and transfers failing one by one*.
- *Blocking reads* behind a `select()` on a driver that has no `poll`.
- *Drivers shared by processes*, with and without a lock.

`PROJECT.json` lists each hazard with its line and the properties for it.

### What makes each component correct

Scheduling: every due alarm rings, once per occurrence; what is updated after a
dialog is what the dialog was about; ids stay unique and a restart brings the
list back. Sound: a ringing alarm is heard with its own tune, and only then.
Dialogs: the challenge is the only way out and there always is one. Camera: no
request or preview frame is lost or doubled. Workers: each emission stands for an
event; a worker ends when told and never hangs the exit. Screens: what is shown is
what there is, on whichever path it came about. Exchange: what is shown is a
beginning of the log; no wait is for ever. Drivers: an answer is the caller's own;
what is on has somebody to switch it off; a failed load leaves nothing behind.

## Modules

### Silencing an alarm

`Challenge` - the abstract specification of a dismiss dialog: a number of things
to do, met one at a time, possibly to be done again as long as one is missing;
the dialog closes when nothing is missing, only then, and without further
help. `ButtonDismiss` (one round won), `UltrasonicDismiss` (`Count` sensors) and
`ClickGames` (one click, the numbers, or the rounds) implement it, each by a
refinement mapping stated at its end and checked as the property
`MeetsChallenge`, liveness included. The dialog may still be open after the last
thing is met; the mappings say what each mode counts as met. Camera mode is left
out of this: with one photo as its one thing to do the mapping would only repeat
`DismissedOnlyWithPhoto` and `PhotoEndsDialog`, and `Challenge` would say that
there always is a way out, where a camera that failed leaves none (see below).

`GameEngine` - the class slot by slot. Timers are Booleans that may fire at any
moment while armed: Qt's coarse timers and a busy loop justify no order, and the
results hold without any. `ButtonDismiss` extends it with the dialog: a verdict
posts a single shot, `AcceptShot` (800 ms) and `RestartShot` (1500 ms) deliver it.

`CameraDismiss` - main thread (`CaptureByButton`, `Deliver`, `StopThread`, the two
waits) and camera thread, one action per call of `run()`, with `captureFrame()`
split at the boundary between taking the request and the preview flag
(`TakeFrame`) and answering (`Answer`). Devices fail nondeterministically; pixels,
V4L2 buffers and the light level are abstracted to the choice they lead to. Two
variables follow what the user is told (`Relabel`): `errorShown`, "Camera
unavailable" in the place of the preview, which only a frame would replace, and
`offered`, the error with its offer in the status line, which the next press
overwrites with "Capturing... keep still". After a `stop()` the loop ends within one `select()` of 2 s, so the 3 s waits succeed
from there on; only the 8 s start-up can outlast them.

`UltrasonicDismiss` - driver, worker thread and dialog in one module, because what
they share is the point: other processes measure with the same array, readings
queue up while the main thread is busy, and the hold is timed when a reading is
handled. Distances are near or far. Time is counted in polls since the hold timer
was restarted: with three of them 500 ms have certainly passed; with fewer the
reading may be handled late, so `StepRecognised` is always possible and
`StillHolding` only before. The branch of `WaitForRelease` is translated although
`NeverAsksForRelease` shows that it is dead code.

`ClickGames` - the three screens of a `DismissDialog` played by clicking. Each kind
of `QTimer::singleShot` is a count of undelivered shots, delivered in any order.

### The clock

`RepeatSchedule` - moments, weekdays and `computeNextRepeatDateTime()`. A moment
is a natural number of clock units, `DayLength` to the day; `WeekLength` stands
for the 7 weekdays. The search over "today and the seven days after it" is a set
of offsets and its minimum.

`AlarmList` - `m_alarms` as a sequence of entries and the pure parts of
`MainWindow`: sorting, the triggered list, the dialog's mode, an entry after
dismissal, after re-enabling and after a reload. Sound file, log path and
`useSpecificDate` are left out (nothing is decided by them). `std::sort` is an
insertion sort up to 16 elements, so equal times keep their order; that is
modelled, and it is a limit of the results: for more than 16 alarms with equal
times the standard promises nothing and `TriggeredStillNamed` is not covered.

`AlarmClock` - the system of `mainwindow.cpp`. `UpdateCurrentTime` is the tick up
to `dlg.exec()`, `Dismiss` the rest of the same function; between them other
ticks run. `OpenDialog`/`OpenEditDialog` and `ConfirmAdd`/`ConfirmDebug`/
`ConfirmEdit`/`CloseDialog` are the two halves of the add, debug and edit
handlers. A modal dialog blocks older windows: `MainWindowUsable`,
`DialogUsable`. Each handler runs to completion between two events, so it is one
action, with every sort, save and refresh it makes; `StopInSave`,
`StopInAppend`, `StopInDismiss` cut a handler at each of its file writes, and
`Boot` is the constructor with both load functions. A cut write leaves a
truncated file, which reads as absent. Of the logs, which the program only
appends to here, the history variable `appended` keeps which alarms have a line
in `alarm.txt` (`main`) and in their own log (`own`) from the dismissal that is
under way: it starts empty whenever a dismiss dialog opens, so the lines of an
alarm's earlier dismissals do not count. `DismissalCuts` lists what a crash in
`Dismiss` can leave: some lines of `alarm.txt`, then all of them and some own
logs, then all logs and a truncated list. `MCAlarmClock` holds the constants of the
small instances.

`AlarmSound` - the same two halves of the tick for the sound: `Ring`, then the loop
timer, then `Dismissed` and the wait of 500 ms with its two outcomes. `aplay` may
fail to start, end, hang or ignore a termination; `QProcess` notices later.

### The windows

`AlarmDialog`, `StatDialog` and `FriendList` are the state and the slots of the
three dialogs; `Screens` composes them on one stack of event loops (`frames`). A
dialog is a frame until it is closed and every loop above it has returned; a wait
for a friend is a frame of its own, told to quit by `WaitOver` in any order but
returning only when innermost (`WaitReturns`), and what then happens depends on
whether its dialog is still there. `PowerFails` cuts a write of `friends.json`. The
dismiss dialog on top of these windows is left to `AlarmClock` and `LogExchange`:
it changes none of their state. `MCScreens` holds the small calendar and the
symmetry of addresses.

`LogExchange` - two clocks, each client and server at once. The main thread is
free, in a dismiss dialog above the fetch (events run, the fetch cannot return) or
blocked after a dismissal (no event at all). Requests and answers arrive in
pieces; connections are refused, break, or are silent until the timer.
`connectAndShow()` and `StatDialog::fetchFromFriend()` have the same two loops and
are modelled once; they differ in `Finish`.

### The drivers

`ButtonWatch` - the button driver's flag, wait queue and interrupt, any number of
reading processes and of processes that switch the interrupt, the worker thread
and the destructor of `ButtonWatcher`. The driver has no `poll`, so `select()`
returns at once and `Select` never blocks; what blocks is the read. Three history
variables follow the presses: `unread` (no read has returned since the last
edge), `owed` (edges that found the driver idle and still wait for a read of
their own) and `cancelled` (the worker was ended inside its read). Only a read
that returns clears or lowers the first two: `WorkerEnds`, which like any signal
makes `device_read()` clear the flag, leaves them, so the press that is thrown
away there shows. `DeleteWorker` does not look at the result of `wait(1000)`:
`DestroyThread` then finds the thread over (`gone`) or aborts the program.

`Buzzer`, `LightSensor` - one action per stretch of a driver call between two points
where another process may come in. In `Buzzer` a player's look at `g_stop`
(`TestStop`), the first write of `buzzer_beep()` (`SetPitch`), the start of the
PWM (`BeginNote`) and its end (`EndNote`) are four of them, so a STOP may fall
between the look and the note. `Drivers` adds loading and unloading for all
four: what each call of a probe acquires, what the error label it jumps to gives
back, what `remove` gives back.

## Runs

Each passing run checks the module's safety invariant under one name, a
conjunction of named parts (`DialogInv`, `ClockInv`, `CameraInv`, `WatchInv`,
`UltrasonicInv`, `GamesInv`, `SoundInv`, `ExchangeInv`, `DriversInv`,
`AlarmDialogInv`, `StatDialogInv`, `ScreensInv`); its type invariant is the first of
them. What a step may not do, what must happen, and `MeetsChallenge` are properties
of their own.

| run | instance | what it shows |
|---|---|---|
| `button_dialog` | duration 5, targets 2..5 | verdicts agree with the count, a hit is lost only by pressing again, each verdict has exactly one follow-up, only a win closes the dialog, it never freezes; `Challenge` |
| `camera` | one dialog | requests and preview flag accounted for; a thread that never streamed has told so; only a photo dismisses; clean exits; a request is answered while the camera streams; a photo ends dialog and thread |
| `camera_error` (violation) | one dialog | after a camera error the button does not dismiss, though the message says so |
| `ultrasonic` | 2 sensors, another reader, 2 queued readings | an answer is its reader's own; a step takes two near readings; a held hand is recognised; the worker never hangs the exit; `Challenge` |
| `click_games` | 4 numbers, 2 flashes each; 3 rounds of 3 out of 3 colours | late shots undo nothing, one chain of shots, the sequence asked is the one shown, the player gets a turn, nothing solved is lost; `Challenge` |
| `clock` | 2 alarms, 2 ids, 2-unit days, 2-day weeks, 3 moments, 2 stops | rows, triggered indices and the edit row stay valid through nested ticks; an occurrence rings once; ids distinct, list restored, dismissal in `alarm.txt` and in the own logs before the list is saved, for a crash at every write; a due alarm rings in whatever dialog the user is |
| `clock_edit` (violation) | 2 alarms | an edit lands on another alarm than the one selected |
| `alarm_sound` | 4 sound files | every alarm is heard with its own tune, nothing sounds without one, silence follows |
| `log_exchange` | 2 clocks, 1 record of 2 pieces each, photos | a beginning of the log is shown, all of it unless cut; mutual fetches end |
| `screens` | 3 loops deep; 2 addresses; logs of 2 records; a 2-year calendar of 2 months | dial, date and summary agree; calendar and list agree with the log; rows, list and file agree; no dialog is open twice |
| `button_watch` | two readers, 3 presses, 1 signal, two ioctl callers | a press that finds the driver idle has a read of its own, but for one thrown away with the worker; none is counted twice; only overlapping ioctls spoil `irq_enabled`; leaving the program never hangs |
| `drivers` | 2 players, 3 notes; 2 light-sensor users | a failed or removed driver can be loaded again; the buzzer sounds only in a note; after a STOP a Tetris begins at most the one note it had looked for; an opened sensor has a value; opens return |

**Bounds.** `MaxAlarms`, `MaxId`, `MaxTime`, `MaxStops`, `MaxPresses`, `MaxRecords`,
`MaxFlashes`, `MaxPosted` and `MaxFrames` bound counters in guards, `MaxSignals` the
signals a reader handles, `MaxDepth` how deep ioctls may disable the interrupt: a
caller that has passed its test goes one deeper. Two alarms are enough for one to be
edited while the other is dismissed and re-sorted, for two to ring in one dialog
and for a crash between their logs. More of them would add shifts of a third
row; every safety property of `clock` is a theorem for any number of alarms, so
they rest on the proof there, and only `DueAlarmsRing` rests on the two. Two days of two units contain every order
of "before, at, after" of a time of day and a date, and both a weekday in and one
out of the mask. Two stops give a crash during the recovery from a crash. Two
sensors give a step that is followed by another and one that is the last. Three
frames hold a window, a wait started from it and, once the window is closed under
the wait, another window. Two pieces to a record let a line be cut in two; months
of two lengths make the date wheels overrun. `CHECK_DEADLOCK` stays on
everywhere: something is always possible (`Returned` and the like where the
component has ended).

**Fairness.** `WF(UpdateCurrentTime)`: the 1 s timer is started by the
constructor, never stopped, and fires in every nested event loop. Dialogs: armed
`QTimer`s, single shots and queued signals are delivered while `exec()` runs.
Workers: threads, readers and destructors are scheduled; a mutex lets each waiter
in at some time (`SF`). Camera: `SF(TakeFrame)`, a streaming camera delivers a
frame again and again among timeouts. Sound: started timers fire, a killed
process ends, and `SF` on a successful start: among attempts without end one
succeeds. Exchange: both main threads handle their events, the network delivers or
breaks; the 5 s timer is counted on only where the connection is dead. Nothing is
assumed of the user, of the hand, of time, of a restart or of a device.

### Where code and comments disagree

`clock_edit` and `camera_error` are the disagreements with a run: an edit that
lands on another alarm than the one selected ("Please select an alarm from the list to
edit.", `mainwindow.cpp:657`), and the
message "(button will dismiss without photo)" after a camera error
(`dismissdialog.cpp:646`), while `captureByButton()` (line 500) dismisses without a
photo only when there is no camera thread, and there always is: the press becomes a
request that no thread answers, and further presses are ignored. Others were met
while modelling; the models follow the code:

- `mainwindow.cpp:447` ranks Ultrasonic before the other games; `ChallengeFor`
  shows that the last due game wins.
- `mainwindow.cpp:1277` says that a one-shot alarm that passed is pushed to tomorrow;
  the line below disables it (`Reloaded`).
- `mainwindow.h:42` calls `alarmId` unique; a crash inside `saveAlarmCounter()`
  (`mainwindow.cpp:1212`) makes the next start hand out the id, and with it the log
  file, of a deleted alarm. Ids of listed alarms stay distinct (`LiveIdsDistinct`).
- `dismissdialog.cpp:742` speaks of the same sensor appearing consecutively; the
  sequence is a permutation, so it never does (`NeverAsksForRelease`).
- `buttonwatcher.cpp:82` says the stop pipe unblocks the worker; the worker is in
  `read()`, and `Terminated` is what ends it, throwing away a press that comes
  meanwhile (`PressNotForgotten` and `PressesAnswered` except that one). If that takes
  longer than `wait(1000)`, the worker is deleted and the thread destroyed while it
  runs, which aborts the program: `ExitCompletes` is about "gone or aborted".
  `buttonwatcher.cpp:40` says that a read
  is a press; `device_read()` (`devtest.c:119`) ignores the result of its wait, so a
  signal is one too: `PressesCountedOnce` has to count signals.
- `devtest.c:89` tests and sets `irq_enabled` without a lock. `IrqFlagTells` claims
  that the flag tells the truth as long as no two callers have been in the ioctls at
  once (`overlapped`): two that test it before either has set it both disable the
  interrupt, and no sequence of ioctls enables it again.
- `buzzertest.c:210` says that STOP ends "any running play loop"; only `play_tetris()`
  looks at the flag, so `StopEndsTetris` is about Tetris. Line 171 says "exit
  immediately" and line 211 "silence PWM immediately": a player that has just looked at
  the flag still begins one note, after the PWM was silenced; `StopEndsTetris` says that
  it is one at most.
- `buzzertest.c:331` looks for a missing clock by `clk == 0`, while `clk_get()` answers
  with an error pointer: that path is never taken (`CanFail`), and what the kernel does
  when it is then asked to enable such a clock is not modelled.
- `buzzertest.c` never gives its clock back, on no path; `CanLoadAgain` says so.
- `luxtest.c:43` powers the sensor down for every open descriptor; hence the
  "until released" in `ReadyUntilReleased`.

## Proofs

| theorem | module | says, for all constants |
|---|---|---|
| `NextRepeatIsNext`, `SortArranges` | `AlarmClockProofs` | `computeNextRepeatDateTime()` finds the first repetition after now; the sort rearranges a list of any length in order |
| `ClockCorrect`, `RightAlarmsDismissed`, `RestartIsFaithful` | `AlarmClockProofs` | `ClockInv`, `TriggeredStillNamed`, `RestartKeepsAlarms`: what rang is what is dismissed, and a restart brings the list back |
| `RingsOnce`, `LogsPrecedeList` | `AlarmClockProofs` | one occurrence rings once; `alarm.txt` and the alarms' own logs have this dismissal before the saved list has |
| `SoundCorrect`, `SilenceIsKept` | `AlarmClockProofs` | `SoundInv`; no sound starts without an alarm |
| `ExchangeCorrect` | `LogExchangeProofs` | `ExchangeInv` for logs of any length |
| `AlarmDialogCorrect`, `StatDialogCorrect`, `ScreensCorrect` | `ScreensProofs` | `AlarmDialogInv`, `StatDialogInv`, `ScreensInv` for any calendar and any depth of nested loops |
| `OnlyThePromptAdds` | `ScreensProofs` | a deleted friend does not come back |
| `EngineCorrect`, `HitSurvivesRace` | `ButtonDismissProofs` | `EngineInv`; a hit is lost only by a further press |
| `DialogCorrect`, `DialogMeetsChallenge` | `ButtonDismissProofs` | `DialogInv`; the safety part of `Challenge` |
| `CameraCorrect`, `NoAbort` | `CameraProofs` | `CameraInv`; no running thread is destroyed |
| `UltrasonicCorrect`, `EveryStepIsHeld`, `UltrasonicMeetsChallenge` | `UltrasonicProofs` | `UltrasonicInv` for any number of sensors and readers; each step has a hold of its own; the safety part of `Challenge` |
| `GamesCorrect`, `GamesMeetChallenge` | `ClickGamesProofs` | `GamesInv` for games of any size; the safety part of `Challenge` |
| `WatchCorrect` | `DriversProofs` | `WatchInv` for any number of readers, presses, signals and ioctl callers |
| `DriversCorrect`, `StopWorks` | `DriversProofs` | `DriversInv` for any number of players and observers; a stopped Tetris begins at most one more note |

Every invariant that a run checks, and every action property but the two violated
ones, is a theorem. Components that share a device, a window or the tick share a proof
module: `AlarmClockProofs` extends `AlarmClock` and `AlarmSound`, `DriversProofs`
extends `Drivers` and `ButtonWatch`. So that both can be extended at once, the
specifications of the second ones are called `SoundSpec` and `WatchSpec`, and their
parts likewise.

Each theorem rests only on the named `ASSUME` of the modules it is about: positive
sizes, nonempty ranges, limits in their order, two clocks, and that a name used for
"nobody" (`"free"`, `Silence`, `NoAddress`) or for the worker is not one of the
others'. The bounds are assumed to be numbers, of any size.

Most of the invariants are not inductive as they stand. What has to be added
says why the code works:

- *Clock.* `ClockInd` adds that the list in memory is sorted between any two
  handlers. A tick under the dismiss dialog sorts it again and, by `SortedStays`,
  moves nothing: the modal dialog keeps the user away from the list, and this makes
  the ticks harmless, so the indices kept across `exec()` name the right alarms. It
  adds that the saved list has every id once, also when a write was cut, so that
  `Boot` may trust it, and that nothing is triggered once a dismissal is over. The
  logs rest on the indices too: `alarm.txt` gets the lines of the alarms kept in
  `triggered`, the own logs are found through their indices, and `TriggeredStillNamed`
  makes them the same alarms. That the saved list stays good while time passes is the lemma `ReloadTwice`: bringing an alarm up to date now and again later
  gives what bringing it up to date later gives, because a repetition that is still
  to come stays the next one (`NextRepeatStays`). These rest on the calendar:
  `WeekdayComes` shows that a search of a week is long enough, `NextRepeatIsNext` that
  what it finds is the first repetition. `SortArranges` gets its rearrangement from
  the ranks, which are one-to-one on a finite set and hence reach every row. That a
  set of numbers has a least and, if bounded, a greatest member is derived from the
  well-founded order of finite sets (`LeastNatural`), without induction.
- *Exchange.* `ExchangeInd` says for each stage of a fetch how the pieces of the answer
  are spread over its two ends: what is received is its first pieces in order
  (`InOrder`), what is under way is the rest and then the end of the connection
  (`Ahead`). Only the timer or a dead connection ends it early, and both set `cut`.
  The friend's log may grow during a fetch; it only grows, so the beginning that was
  shown stays one (`Untouched`).
- *Screens.* `Stacked` says which loop may lie above which open dialog
  (`MayLieAbove`); two dialogs of a kind never may, hence `OneDialogOfAKind`. A step
  leaves the loops as they are but for some that return, are told to quit, or lose
  their buttons (`Fewer`), or it adds one at the front (`Entered`); the lemmas show
  that both keep the order, in whatever order waits return. For the alarm dialog,
  `DialRoundTrip` shows that 12-hour dial and 24-hour time determine each other, and
  `RefreshedIsDate` that a date wheel which overruns a shorter month is put back. For
  the statistics, `DayColour` shows that a day has the colour of one of its records
  and none has a worse one, and `ClickedDayHasRecords` that a coloured day lists one.
- *Engine.* The bound `count <= target` while a round is played: a round that could
  stand past its target would be scored as lost in time. One lemma per slot,
  combined in `EngineStepInv`.
- *Button dialog.* `DialogInv` is inductive on top of `EngineInv`: a verdict is
  reached only from `PLAYING`, where no shot is pending (`VerdictQueuesShot`); that
  keeps each count of shots at one.
- *Camera.* The queue of signals has one of six shapes (`Shape`), so the counts of
  `CameraInv` become a choice between them (`Counted`). `FlagOnce` and `RequestOnce`
  say in which one of three places the token is, `HandEmpty` that the thread's hand
  is empty between frames. `Silence` is what `NeverAborts` rests on: while the thread
  starts up nothing has reached the dialog, so nothing has closed it. `FailureIsShown`
  needs that no frame comes after the error to cover its message: `LastWord` and the
  preview flag, which is still free when a start fails (`Silence`, `Ended`).
- *Ultrasonic.* `HolderMeasures`: who measures or formats holds the lock, and what has
  been measured so far is his. `NoSensorTwice` makes the release branch dead.
- *Click games.* `ShowFollows`: what was displayed is a beginning of the sequence, one
  colour ahead of the index while a colour is on. `OnlyColours` and `RoundsLeft` keep
  the chain of shots to the mode and the rounds it belongs to.
- *Sound.* `TuneInv`: the loop timer runs for the ringing alarm only, and a process
  that outlives its dismissal was sent SIGKILL.
- *Button watch.* `PressInv`: `PressesInHand` says that a press emitted, one in the
  driver and one latched are all different, and a worker ended inside its read stays
  ended, so at most one press is thrown away. While no ioctls overlap, `FlagFollows`
  follows the only caller inside through its ioctl.
- *Drivers.* `NotesLeft`, `StopStands` (a condemned player is in Tetris with the flag
  set; only a play call takes it back and it forgives everybody), `Encores` (a player
  on the way to a note has looked at the flag before the STOP, and will not get past
  it again), `OneOpens` (the
  lock is held through both commands and the wait), `SensorFollows`, and for loading
  `FailedLoadUnwinds` and `RemovalUnwinds`, which go through the error labels.
- *Challenge.* `DialogMeetsChallenge` and its two siblings show that initial states
  map to initial states and every step to a step of the challenge or a stutter;
  each adds the fact that the dialog is closed exactly when nothing is missing.

**Only model-checked:** liveness under fairness, which is beyond this prover -
`DialogKeepsMoving`, `RequestsAnswered`, `PhotoEndsDialog`, `StillHandRecognised`,
`PlayerGetsATurn`, `PressIsRead`, `ExitCompletes`, `DueAlarmsRing`, `RingingIsHeard`,
`BecomesSilent`, `FetchEnds`, `OpensReturn`, and the `WF(Close)` part of
`MeetsChallenge` - and the violations `EditStillNamed` and `DismissalOffered`.

**What the properties do not catch**, though the models do it, because the code makes
no promise to hold it against (see the notes of `PROJECT.json`'s hazards): the saved
list, or the friends', lost in a crash between truncation and rewrite; a request
pending when the stream breaks without a word (`RequestsAnswered` ends with the
thread); a second "Del" before the list is rebuilt; a friend's cut answer shown like
a complete one; a hold that counts for less than 500 ms because its first reading was
handled late; the power-down of a light sensor that another process has open.

## Not modelled, and why

- `practice_dd`: independent course exercises, among them a vendored JPEG library;
  the alarm clock uses none of them. They are most of the repository's lines, so
  the models cover a small share of all lines and nearly all of the control flow
  of `src/app` and `src/device_driver`.
- The drivers' hand-run test programs (they appear as the other readers, callers,
  players and observers), the kernel image, the poster, sounds.
- Inside modelled modules: layout, texts and styles; the photo's name; V4L2 buffers
  and pixels; millisecond arithmetic of the clock; pitches; the failure of a file
  to open (the code then silently skips the write); the short disabling of buttons
  and the 300 ms debounces of the windows, which only remove behaviours, except
  where a property is about them (`ClickGames`, `AlarmDialog`).
- The races that C++ leaves undefined on the camera's descriptor
  (`alarmcamerathread.cpp:70`): no outcome changes a state the program keeps.

## What is left

*Prove*: that no step but an edit changes which alarm has which time (the converse of
the violation); that `Boot` after a crash inside `Dismiss` rings again exactly the
alarms whose dismissal was not saved; an implementation of `Challenge` by the main
window's tick, with the dismiss dialog as its one thing to do.
*Model*: the LED ioctls of the button driver; a failed `open()` or `pipe()` in the
button watcher; the dismiss dialog on top of `Screens`.
