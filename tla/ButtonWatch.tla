----------------------------- MODULE ButtonWatch -----------------------------
(***************************************************************************)
(* From the physical button to the signal buttonPressed(): the button      *)
(* driver (device_driver/button/devtest.c), the worker thread that reads   *)
(* it and the destructor that ends the thread (app/buttonwatcher.cpp).     *)
(*                                                                         *)
(* Other processes may read the device too (alarm_test.c does, for ever).  *)
(* The driver has no poll operation, so select() always reports the device *)
(* as readable and the worker spends its life in a blocking read().  The   *)
(* ioctls that disable and enable the interrupt are used by hand           *)
(* (apptest.c); they test a flag, act and set the flag without a lock.     *)
(***************************************************************************)
EXTENDS Naturals

CONSTANTS
    Others,         \* other processes that read the device in a loop
    Callers,        \* processes that disable and enable the interrupt
    MaxPresses,     \* bound: falling edges of the button
    MaxSignals,     \* bound: signals handled by the worker's thread
    MaxDepth        \* bound: no ioctl disables the interrupt beyond this depth

ASSUME ButtonConstants ==
    /\ "worker" \notin Others
    /\ MaxPresses \in Nat /\ MaxSignals \in Nat /\ MaxDepth \in Nat

Readers == Others \union {"worker"}

VARIABLES
    pressed,    \* the driver's atomic flag
    reading,    \* where each reader is: see ReadStages
    edges,      \* how often the ISR ran
    emitted,    \* how often the worker emitted buttonPressed()
    unread,     \* history: no read has returned since the last edge
    owed,       \* history: edges that found the driver idle and wait for their read
    cancelled,  \* history: the worker was ended inside its read
    signals,    \* signals the worker's thread has handled
    stopPipe,   \* a byte is in the stop pipe
    watcher,    \* where ~ButtonWatcher() is: see WatcherStages
    irq_enabled,
    irqDepth,   \* how often the interrupt is disabled
    latched,    \* an edge came while it was disabled
    ioctl,      \* where each caller is: see IoctlStages
    overlapped  \* history: two callers have been in the ioctls at once

switchVars == <<irq_enabled, irqDepth, ioctl, overlapped>>
irqVars == <<latched, switchVars>>
pressHistory == <<unread, owed, cancelled>>
watchVars == <<pressed, reading, edges, emitted, pressHistory, signals, stopPipe, watcher,
               irqVars>>

(* Outside read(); in wait_event_interruptible(); past it, with the flag   *)
(* still to be cleared; the thread has ended.                              *)
ReadStages == {"out", "waiting", "taking", "ended"}

(* Not called; in wait(3000); in wait(1000) after terminate(); past        *)
(* "delete m_worker"; returned; ~QThread() found the thread still running  *)
(* and aborts.                                                             *)
WatcherStages == {"alive", "stopping", "terminating", "deleting", "gone", "aborted"}

(* Outside; past the test of irq_enabled; past enable_irq() or             *)
(* disable_irq().                                                          *)
IoctlStages == {"out", "enable", "enabled", "disable", "disabled"}

WatchInit ==
    /\ irq_enabled = TRUE /\ irqDepth = 0 /\ latched = FALSE
    /\ ioctl = [ c \in Callers |-> "out" ] /\ overlapped = FALSE
    /\ pressed = FALSE
    /\ reading = [ r \in Readers |-> "out" ]
    /\ edges = 0
    /\ emitted = 0
    /\ unread = FALSE /\ owed = 0 /\ cancelled = FALSE
    /\ signals = 0
    /\ stopPipe = FALSE
    /\ watcher = "alive"

Goes(r, from, to) == reading[r] = from /\ reading' = [ reading EXCEPT ![r] = to ]

-----------------------------------------------------------------------------
(* The driver.                                                             *)

(* No press is in the driver: the flag is clear, no edge waits and no      *)
(* reader is about to clear the flag.                                      *)
Idle == ~pressed /\ ~latched /\ \A r \in Readers : reading[r] # "taking"

(* The button is pressed.  A press that finds another one in the driver    *)
(* falls together with it.                                                 *)
Edge ==
    /\ edges < MaxPresses
    /\ edges' = edges + 1
    /\ unread' = TRUE
    /\ owed' = IF Idle THEN owed + 1 ELSE owed
    /\ UNCHANGED <<reading, emitted, cancelled, signals, stopPipe, watcher, switchVars>>

KeyIsr ==
    /\ irqDepth = 0
    /\ pressed' = TRUE
    /\ UNCHANGED latched
    /\ Edge

(* The kernel keeps one edge for an interrupt that is disabled.            *)
EdgeLatched ==
    /\ irqDepth > 0
    /\ latched' = TRUE
    /\ UNCHANGED pressed
    /\ Edge

(* ... and runs the ISR for it when the interrupt is enabled again.        *)
LatchedIsr ==
    /\ latched /\ irqDepth = 0
    /\ latched' = FALSE
    /\ pressed' = TRUE
    /\ UNCHANGED <<reading, edges, emitted, pressHistory, signals, stopPipe, watcher, switchVars>>

IoctlGoes(c, from, to) == ioctl[c] = from /\ ioctl' = [ ioctl EXCEPT ![c] = to ]

TestFlag(c) ==
    /\ \/ ~irq_enabled /\ IoctlGoes(c, "out", "enable")
       \/ irq_enabled /\ irqDepth < MaxDepth /\ IoctlGoes(c, "out", "disable")
    /\ overlapped' = (overlapped \/ \E d \in Callers : ioctl[d] # "out")
    /\ UNCHANGED <<irq_enabled, irqDepth>>

(* disable_irq() counts; enable_irq() warns when there is nothing to       *)
(* undo.                                                                   *)
SwitchIrq(c) ==
    /\ \/ IoctlGoes(c, "enable", "enabled") /\ irqDepth' = (IF irqDepth = 0 THEN 0 ELSE irqDepth - 1)
       \/ IoctlGoes(c, "disable", "disabled") /\ irqDepth' = irqDepth + 1
    /\ UNCHANGED <<irq_enabled, overlapped>>

SetFlag(c) ==
    /\ \/ IoctlGoes(c, "enabled", "out") /\ irq_enabled' = TRUE
       \/ IoctlGoes(c, "disabled", "out") /\ irq_enabled' = FALSE
    /\ UNCHANGED <<irqDepth, overlapped>>

IrqIoctl(c) ==
    /\ TestFlag(c) \/ SwitchIrq(c) \/ SetFlag(c)
    /\ UNCHANGED <<pressed, reading, edges, emitted, pressHistory, latched, signals, stopPipe,
                   watcher>>

(* wait_event_interruptible() sees the flag.  A press wakes every reader,  *)
(* and each that looks before the flag is cleared goes on.                 *)
WaitEnds(r) ==
    /\ Goes(r, "waiting", "taking")
    /\ pressed
    /\ UNCHANGED <<pressed, edges, emitted, pressHistory, signals, stopPipe, watcher, irqVars>>

(* A signal ends the wait, and device_read() does not look at its result.  *)
WaitInterrupted ==
    /\ signals < MaxSignals
    /\ signals' = signals + 1
    /\ Goes("worker", "waiting", "taking")
    /\ UNCHANGED <<pressed, edges, emitted, pressHistory, stopPipe, watcher, irqVars>>

\* Mutant of ReadReturns: the flag stays set.
ReadReturnsKeepingFlag(r) ==
    /\ Goes(r, "taking", "out")
    /\ unread' = FALSE
    /\ owed' = IF owed > 0 THEN owed - 1 ELSE 0
    /\ emitted' = IF r = "worker" THEN emitted + 1 ELSE emitted
    /\ UNCHANGED <<pressed, edges, cancelled, signals, stopPipe, watcher, irqVars>>

(* The flag is cleared and one byte returned; the worker emits             *)
(* buttonPressed().                                                        *)
ReadReturns(r) ==
    /\ Goes(r, "taking", "out")
    /\ pressed' = FALSE
    /\ unread' = FALSE
    /\ owed' = IF owed > 0 THEN owed - 1 ELSE 0
    /\ emitted' = IF r = "worker" THEN emitted + 1 ELSE emitted
    /\ UNCHANGED <<edges, cancelled, signals, stopPipe, watcher, irqVars>>

-----------------------------------------------------------------------------
(* The readers.                                                            *)

ReadAgain(r) ==
    /\ Goes(r, "out", "waiting")
    /\ UNCHANGED <<pressed, edges, emitted, pressHistory, signals, stopPipe, watcher, irqVars>>

\* Mutant of Select: presses made between two reads are flushed.
SelectFlushing ==
    /\ Goes("worker", "out", IF stopPipe THEN "ended" ELSE "waiting")
    /\ pressed' = FALSE
    /\ UNCHANGED <<edges, emitted, pressHistory, signals, stopPipe, watcher, irqVars>>

(* ButtonWorker::run(): the stop pipe is looked at first.                  *)
Select ==
    /\ Goes("worker", "out", IF stopPipe THEN "ended" ELSE "waiting")
    /\ UNCHANGED <<pressed, edges, emitted, pressHistory, signals, stopPipe, watcher, irqVars>>

-----------------------------------------------------------------------------
(* ~ButtonWatcher()                                                        *)

WriteStopPipe ==
    /\ watcher = "alive"
    /\ watcher' = "stopping"
    /\ stopPipe' = TRUE
    /\ UNCHANGED <<pressed, reading, edges, emitted, pressHistory, signals, irqVars>>

\* Mutant of WaitTimesOut: the destructor waits again instead.
WaitOnceMore ==
    /\ watcher = "stopping"
    /\ reading["worker"] = "waiting"
    /\ UNCHANGED watchVars

(* wait(3000) gives up: only a read keeps the worker that long.            *)
WaitTimesOut ==
    /\ watcher = "stopping"
    /\ reading["worker"] = "waiting"
    /\ watcher' = "terminating"
    /\ UNCHANGED <<pressed, reading, edges, emitted, pressHistory, signals, stopPipe, irqVars>>

(* The thread is ended from outside.  The signal that does it ends a wait  *)
(* in device_read() like any other: the flag is cleared, and no read       *)
(* returns for it.                                                         *)
WorkerEnds ==
    /\ reading["worker"] # "ended"
    /\ reading' = [ reading EXCEPT !["worker"] = "ended" ]
    /\ IF reading["worker"] \in {"waiting", "taking"}
       THEN pressed' = FALSE /\ cancelled' = TRUE
       ELSE UNCHANGED <<pressed, cancelled>>
    /\ UNCHANGED <<edges, emitted, unread, owed, signals, stopPipe, irqVars>>

(* terminate() reaches the thread in one of its system calls.              *)
Terminated ==
    /\ watcher \in {"terminating", "deleting"}
    /\ WorkerEnds
    /\ UNCHANGED watcher

(* The first wait returns because the thread is over.  The result of the   *)
(* second, wait(1000), is not looked at: the worker object is deleted and  *)
(* the descriptors are closed whether the thread is over or not.           *)
DeleteWorker ==
    /\ \/ watcher = "stopping" /\ reading["worker"] = "ended"
       \/ watcher = "terminating"
    /\ watcher' = "deleting"
    /\ UNCHANGED <<pressed, reading, edges, emitted, pressHistory, signals, stopPipe, irqVars>>

(* ~QThread() of m_thread aborts the program if the thread still runs.     *)
(* (Until then it uses a deleted object, which may abort it as well.)      *)
DestroyThread ==
    /\ watcher = "deleting"
    /\ \/ /\ reading["worker"] = "ended"
          /\ watcher' = "gone"
          /\ UNCHANGED <<pressed, reading, edges, emitted, pressHistory, signals, stopPipe, irqVars>>
       \/ watcher' = "aborted" /\ WorkerEnds

(* The program has ended and nobody presses the button any more.           *)
Gone == watcher \in {"gone", "aborted"} /\ edges = MaxPresses /\ UNCHANGED watchVars

WatchNext ==
    \/ KeyIsr
    \/ EdgeLatched \/ LatchedIsr
    \/ \E c \in Callers : IrqIoctl(c)
    \/ \E r \in Readers : WaitEnds(r) \/ ReadReturns(r)
    \/ WaitInterrupted
    \/ \E r \in Others : ReadAgain(r)
    \/ Select
    \/ WriteStopPipe \/ WaitTimesOut \/ Terminated \/ DeleteWorker \/ DestroyThread
    \/ Gone

(* Every thread is scheduled, and the kernel replays a latched edge.  No   *)
(* fairness on the button, on ioctls, on signals or on leaving the         *)
(* program.                                                                *)
WatchFairness ==
    /\ \A r \in Readers : WF_watchVars(WaitEnds(r)) /\ WF_watchVars(ReadReturns(r))
    /\ \A r \in Others : WF_watchVars(ReadAgain(r))
    /\ WF_watchVars(Select) /\ WF_watchVars(LatchedIsr)
    /\ WF_watchVars(WaitTimesOut) /\ WF_watchVars(Terminated)
    /\ WF_watchVars(DeleteWorker) /\ WF_watchVars(DestroyThread)

WatchSpec == WatchInit /\ [][WatchNext]_watchVars /\ WatchFairness

-----------------------------------------------------------------------------
(* Type invariant.                                                         *)
WatchTypeOK ==
    /\ pressed \in BOOLEAN
    /\ reading \in [ Readers -> ReadStages ]
    /\ edges \in 0..MaxPresses
    /\ emitted \in 0..(MaxPresses + MaxSignals)
    /\ unread \in BOOLEAN /\ cancelled \in BOOLEAN
    /\ owed \in 0..2
    /\ signals \in 0..MaxSignals
    /\ irqDepth \in Nat
    /\ irq_enabled \in BOOLEAN /\ latched \in BOOLEAN /\ overlapped \in BOOLEAN
    /\ ioctl \in [ Callers -> IoctlStages ]
    /\ stopPipe \in BOOLEAN
    /\ watcher \in WatcherStages

(* After a press some read returns: until then it is in the flag, in the   *)
(* hand of a reader that is about to return, or waits for the interrupt to *)
(* be enabled, whatever the ISR, the readers and the signals do between    *)
(* the test of the flag and its clearing.  A press may fall together with  *)
(* an earlier one that is still in the driver; and one that comes while    *)
(* the program ends its worker in device_read() is thrown away.            *)
PressNotForgotten ==
    unread => ~Idle \/ cancelled

(* Every press that found the driver idle has a read of its own: it has    *)
(* returned since, or the press is still in the driver, or it is the one   *)
(* that was thrown away with the worker.                                   *)
PressesAnswered ==
    owed <= (IF Idle THEN 0 ELSE 1) + (IF cancelled THEN 1 ELSE 0)

(* A press makes some read return, however many readers compete for it;    *)
(* while nobody else reads, unless the worker is over or the interrupt is  *)
(* disabled.                                                               *)
PressIsRead == unread ~> (~unread \/ reading["worker"] = "ended" \/ irqDepth > 0)

(* Leaving the program never hangs on the button's blocking read: the      *)
(* destructor returns, or the program aborts in it.                        *)
ExitCompletes == watcher = "stopping" ~> watcher \in {"gone", "aborted"}

(* Each signal to the game stands for a press, or for a signal that        *)
(* interrupted the wait, of its own: no press is counted twice though      *)
(* another process competes for the device and wakes with the worker.      *)
PressesCountedOnce == emitted <= edges + signals

(* irq_enabled tells whether the interrupt comes through whenever no       *)
(* caller is in the ioctls, however many there are, as long as no two of   *)
(* them have been in there at once.  Two that test the flag before either  *)
(* has set it both disable the interrupt, and no sequence of ioctls        *)
(* enables it again.                                                       *)
IrqFlagTells ==
    (~overlapped /\ \A c \in Callers : ioctl[c] = "out")
        => (irq_enabled <=> irqDepth = 0)

(* What holds of driver, readers and watcher at every moment: a press      *)
(* leaves the driver only with a read, none is counted twice, whoever      *)
(* competes for the device, and only overlapping ioctls spoil their flag.  *)
WatchInv ==
    /\ WatchTypeOK
    /\ PressNotForgotten
    /\ PressesAnswered
    /\ PressesCountedOnce
    /\ IrqFlagTells
=============================================================================
