------------------------------ MODULE LightSensor ------------------------------
(***************************************************************************)
(* The light-sensor driver (device_driver/lux/luxtest.c).  open() powers   *)
(* the BH1750 on, sets it to measure and waits, under a lock, for the      *)
(* first value; the release of any descriptor powers the sensor down,      *)
(* without the lock and whoever else has it open; read() takes no lock and *)
(* returns what the sensor gives.  Each transfer on the bus may fail.      *)
(***************************************************************************)
EXTENDS Naturals

CONSTANT Observers      \* processes that use the device

ASSUME LightConstants == "free" \notin Observers

VARIABLES
    opening,    \* where each observer is, see ObserverStages
    luxLock,    \* holder of data->lock, or "free"
    sensor,     \* "down", "on", "measuring" or "ready" with a value
    undisturbed \* history: observers since whose open() nobody released

lightVars == <<opening, luxLock, sensor, undisturbed>>

(* No descriptor; in mutex_lock(); past the first command; in msleep(180), *)
(* with the second command done or failed; with a descriptor.              *)
ObserverStages == {"closed", "locking", "setting", "waiting", "failing", "open"}

LightInit ==
    /\ opening = [ o \in Observers |-> "closed" ]
    /\ luxLock = "free"
    /\ sensor = "down"
    /\ undisturbed = {}

Passes(o, from, to) == opening[o] = from /\ opening' = [ opening EXCEPT ![o] = to ]

-----------------------------------------------------------------------------
OpenLight(o) ==
    /\ Passes(o, "closed", "locking")
    /\ undisturbed' = undisturbed \union {o}
    /\ UNCHANGED <<luxLock, sensor>>

\* Mutant of PowerOn: the error path returns without the unlock.
PowerOnKeepsLock(o) ==
    /\ luxLock = "free"
    /\ luxLock' = o
    /\ \/ Passes(o, "locking", "setting") /\ sensor' = IF sensor = "down" THEN "on" ELSE sensor
       \/ Passes(o, "locking", "closed") /\ UNCHANGED sensor
    /\ UNCHANGED undisturbed

PowerOn(o) ==
    /\ luxLock = "free"
    /\ \/ /\ Passes(o, "locking", "setting") /\ luxLock' = o
          /\ sensor' = IF sensor = "down" THEN "on" ELSE sensor
       \/ /\ Passes(o, "locking", "closed") /\ UNCHANGED <<luxLock, sensor>>
    /\ UNCHANGED undisturbed

\* Mutant of SetMode: open() does not wait for the first value.
SetModeAtOnce(o) ==
    /\ Passes(o, "setting", "open")
    /\ sensor' = IF sensor = "on" THEN "measuring" ELSE sensor
    /\ luxLock' = "free"
    /\ UNCHANGED undisturbed

(* The second command; a sensor that was powered down ignores it.          *)
SetMode(o) ==
    /\ \/ /\ Passes(o, "setting", "waiting")
          /\ sensor' = IF sensor = "on" THEN "measuring" ELSE sensor
       \/ Passes(o, "setting", "failing") /\ UNCHANGED sensor
    /\ UNCHANGED <<luxLock, undisturbed>>

(* The 180 ms are over: open() returns, with a descriptor or an error.     *)
OpenReturns(o) ==
    /\ \/ Passes(o, "waiting", "open") \/ Passes(o, "failing", "closed")
    /\ sensor' = IF sensor = "measuring" THEN "ready" ELSE sensor
    /\ luxLock' = "free"
    /\ UNCHANGED undisturbed

(* bh1750_release(): an error of the transfer is ignored.                  *)
ReleaseLight(o) ==
    /\ Passes(o, "open", "closed")
    /\ sensor' \in {"down", sensor}
    /\ undisturbed' = {}
    /\ UNCHANGED luxLock

LightStep(o) == PowerOn(o) \/ SetMode(o) \/ OpenReturns(o)

-----------------------------------------------------------------------------
LightTypeOK ==
    /\ opening \in [ Observers -> ObserverStages ]
    /\ luxLock \in Observers \union {"free"}
    /\ sensor \in {"down", "on", "measuring", "ready"}
    /\ undisturbed \subseteq Observers

(* An open() that returns a descriptor leaves a sensor with a value to     *)
(* read, and it stays so until some descriptor is released: however the    *)
(* opens of several processes, their failures and their waits overlap.     *)
ReadyUntilReleased ==
    \A o \in undisturbed : opening[o] = "open" => sensor = "ready"

(* Every open() returns, also when the ones before it failed.              *)
OpensReturn == \A o \in Observers : opening[o] = "locking" ~> opening[o] \in {"open", "closed"}

=============================================================================
