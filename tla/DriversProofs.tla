----------------------------- MODULE DriversProofs -----------------------------
(***************************************************************************)
(* For any number of processes in the drivers and notes of a melody: a     *)
(* driver that failed to load or was removed can be loaded again, the      *)
(* buzzer sounds only in somebody's note, a STOP ends the Tetris melodies  *)
(* it finds, and a light sensor that was opened has a value.               *)
(*                                                                         *)
(* For any number of competing readers of the button, of ioctl callers, of *)
(* presses and of signals: no press is lost except by the cancellation of  *)
(* the worker's read or read twice, and an interrupt answers for its flag  *)
(* unless two ioctls have overlapped.                                      *)
(***************************************************************************)
EXTENDS Drivers, ButtonWatch, TLAPS

-----------------------------------------------------------------------------
(* The buzzer.                                                             *)

NotesLeft == \A p \in Players : at[p] \in {"due", "pitched", "sounding"} => left[p] > 0

(* Only a Reset takes a STOP back, and it forgives everybody.              *)
StopStands == \A p \in condemned : InTetris(p) /\ g_stop

(* A player on the way to a note has not had its encore: it has tested the *)
(* flag before the STOP, and will not get past the test again.             *)
Encores ==
    \A p \in Players :
        /\ p \notin condemned => encore[p] = 0
        /\ encore[p] <= 1
        /\ at[p] \in {"due", "pitched"} => encore[p] = 0

BuzzerIInv ==
    /\ BuzzerTypeOK
    /\ NotesLeft
    /\ SoundsOnlyInANote
    /\ StopStands
    /\ Encores

LEMMA BuzzerUnmoved ==
    ASSUME BuzzerIInv, UNCHANGED buzzerVars
    PROVE  BuzzerIInv'
BY DEF BuzzerIInv, buzzerVars, stopHistory, BuzzerTypeOK, NotesLeft, SoundsOnlyInANote,
       StopStands, InTetris, Encores

LEMMA BuzzerMove ==
    ASSUME BuzzerIInv, NEW p \in Players,
           OpenBuzzer(p) \/ BuzzerCall(p) \/ BuzzerStep(p)
    PROVE  BuzzerIInv'
<1> USE DEF BuzzerIInv, PlayerStages, Moves
<1>1. CASE OpenBuzzer(p)
  <2>1. BuzzerTypeOK' /\ NotesLeft' /\ SoundsOnlyInANote'
    BY <1>1 DEF OpenBuzzer, stopHistory, BuzzerTypeOK, NotesLeft, SoundsOnlyInANote
  <2>2. StopStands' /\ Encores'
    BY <1>1 DEF OpenBuzzer, stopHistory, BuzzerTypeOK, StopStands, InTetris, Encores
  <2>3. QED
    BY <2>1, <2>2
<1>2. CASE CloseBuzzer(p)
  <2>1. BuzzerTypeOK' /\ NotesLeft' /\ SoundsOnlyInANote'
    BY <1>2 DEF CloseBuzzer, stopHistory, BuzzerTypeOK, NotesLeft, SoundsOnlyInANote
  <2>2. StopStands' /\ Encores'
    BY <1>2 DEF CloseBuzzer, stopHistory, BuzzerTypeOK, StopStands, InTetris, Encores
  <2>3. QED
    BY <2>1, <2>2
<1>3. ASSUME NEW melody \in {"tetris", "other"}, Play(p, melody)
      PROVE  BuzzerIInv'
  <2>1. p \notin condemned
    BY <1>3 DEF Play, StopStands, InTetris
  <2>2. BuzzerTypeOK'
    BY <1>3, BuzzerConstants DEF Play, stopHistory, BuzzerTypeOK
  <2>3. NotesLeft' /\ SoundsOnlyInANote'
    BY <1>3 DEF Play, BuzzerTypeOK, NotesLeft, SoundsOnlyInANote
  <2>4. StopStands' /\ Encores'
    BY <1>3, <2>1 DEF Play, stopHistory, BuzzerTypeOK, StopStands, InTetris, Encores
  <2>5. QED
    BY <2>2, <2>3, <2>4
<1>4. CASE ResetStop(p)
  <2>0. NoEncore \in [ Players -> Nat ] /\ \A q \in Players : NoEncore[q] = 0
    BY DEF NoEncore
  <2>1. BuzzerTypeOK'
    BY <1>4, <2>0 DEF ResetStop, BuzzerTypeOK
  <2>2. encore' = NoEncore
    BY <1>4 DEF ResetStop
  <2>3. Encores'
    BY <2>0, <2>2 DEF Encores
  <2>4. NotesLeft' /\ SoundsOnlyInANote' /\ StopStands'
    BY <1>4 DEF ResetStop, BuzzerTypeOK, NotesLeft, SoundsOnlyInANote, StopStands
  <2>5. QED
    BY <2>1, <2>3, <2>4
<1>5. CASE TestStop(p)
  <2>1. p \notin condemned
    BY <1>5 DEF TestStop, StopStands, InTetris
  <2>2. BuzzerTypeOK' /\ NotesLeft' /\ SoundsOnlyInANote'
    BY <1>5 DEF TestStop, stopHistory, BuzzerTypeOK, NotesLeft, SoundsOnlyInANote
  <2>3. StopStands' /\ Encores'
    BY <1>5, <2>1 DEF TestStop, stopHistory, BuzzerTypeOK, StopStands, InTetris, Encores
  <2>4. QED
    BY <2>2, <2>3
<1>6. CASE SetPitch(p)
  <2>1. BuzzerTypeOK' /\ NotesLeft' /\ SoundsOnlyInANote'
    BY <1>6 DEF SetPitch, stopHistory, BuzzerTypeOK, NotesLeft, SoundsOnlyInANote
  <2>2. StopStands' /\ Encores'
    BY <1>6 DEF SetPitch, stopHistory, BuzzerTypeOK, StopStands, InTetris, Encores
  <2>3. QED
    BY <2>1, <2>2
<1>7. CASE BeginNote(p)
  <2>1. encore[p] = 0
    BY <1>7 DEF BeginNote, Encores
  <2>2. BuzzerTypeOK'
    BY <1>7, <2>1 DEF BeginNote, BuzzerTypeOK
  <2>3. NotesLeft' /\ SoundsOnlyInANote'
    BY <1>7 DEF BeginNote, BuzzerTypeOK, NotesLeft, SoundsOnlyInANote
  <2>4. StopStands'
    BY <1>7 DEF BeginNote, BuzzerTypeOK, StopStands, InTetris
  <2>5. Encores'
    BY <1>7, <2>1 DEF BeginNote, BuzzerTypeOK, Encores
  <2>6. QED
    BY <2>2, <2>3, <2>4, <2>5
<1>8. CASE EndNote(p)
  <2>1. left[p] - 1 \in 0..Notes
    BY <1>8, BuzzerConstants DEF EndNote, BuzzerTypeOK, NotesLeft
  <2>2. BuzzerTypeOK'
    BY <1>8, <2>1 DEF EndNote, stopHistory, BuzzerTypeOK
  <2>3. NotesLeft' /\ SoundsOnlyInANote'
    BY <1>8 DEF EndNote, BuzzerTypeOK, NotesLeft, SoundsOnlyInANote
  <2>4. StopStands' /\ Encores'
    BY <1>8 DEF EndNote, stopHistory, BuzzerTypeOK, StopStands, InTetris, Encores
  <2>5. QED
    BY <2>2, <2>3, <2>4
<1>9. CASE Rest(p)
  <2>1. left[p] - 1 \in 0..Notes
    BY <1>9, BuzzerConstants DEF Rest, BuzzerTypeOK
  <2>2. BuzzerTypeOK' /\ NotesLeft'
    BY <1>9, <2>1 DEF Rest, stopHistory, BuzzerTypeOK, NotesLeft
  <2>3. SoundsOnlyInANote' /\ StopStands' /\ Encores'
    BY <1>9 DEF Rest, stopHistory, BuzzerTypeOK, SoundsOnlyInANote, StopStands, InTetris,
                Encores
  <2>4. QED
    BY <2>2, <2>3
<1>10. CASE EndSong(p)
  <2>1. BuzzerTypeOK' /\ NotesLeft'
    BY <1>10, BuzzerConstants DEF EndSong, BuzzerTypeOK, NotesLeft
  <2>2. SoundsOnlyInANote'
    BY <1>10 DEF EndSong, BuzzerTypeOK, SoundsOnlyInANote
  <2>3. StopStands' /\ Encores'
    BY <1>10 DEF EndSong, BuzzerTypeOK, StopStands, InTetris, Encores
  <2>4. QED
    BY <2>1, <2>2, <2>3
<1>11. CASE SetStop(p)
  <2>1. BuzzerTypeOK' /\ NotesLeft' /\ SoundsOnlyInANote'
    BY <1>11 DEF SetStop, BuzzerTypeOK, NotesLeft, SoundsOnlyInANote, InTetris
  <2>2. StopStands'
    BY <1>11 DEF SetStop, BuzzerTypeOK, StopStands, InTetris
  <2>3. \A q \in condemned : q \in condemned'
    BY <1>11 DEF SetStop, BuzzerTypeOK, StopStands
  <2>4. Encores'
    BY <1>11, <2>3 DEF SetStop, BuzzerTypeOK, Encores
  <2>5. QED
    BY <2>1, <2>2, <2>4
<1>12. CASE Silence(p)
  <2>1. BuzzerTypeOK' /\ NotesLeft' /\ SoundsOnlyInANote'
    BY <1>12 DEF Silence, stopHistory, BuzzerTypeOK, NotesLeft, SoundsOnlyInANote
  <2>2. StopStands' /\ Encores'
    BY <1>12 DEF Silence, stopHistory, BuzzerTypeOK, StopStands, InTetris, Encores
  <2>3. QED
    BY <2>1, <2>2
<1>13. QED
  BY <1>1, <1>2, <1>3, <1>4, <1>5, <1>6, <1>7, <1>8, <1>9, <1>10, <1>11, <1>12
     DEF BuzzerCall, BuzzerStep

-----------------------------------------------------------------------------
(* The light sensor.                                                       *)

(* The lock is held through the two commands and the wait, by one process. *)
InOpen(o) == opening[o] \in {"setting", "waiting", "failing"}
OneOpens == \A o \in Observers : InOpen(o) => luxLock = o

(* How far the sensor has got for somebody nobody has disturbed.           *)
SensorFollows ==
    \A o \in undisturbed :
        /\ opening[o] = "setting" => sensor # "down"
        /\ opening[o] = "waiting" => sensor \in {"measuring", "ready"}

LightIInv ==
    /\ LightTypeOK
    /\ OneOpens
    /\ SensorFollows
    /\ ReadyUntilReleased

LEMMA LightUnmoved ==
    ASSUME LightIInv, UNCHANGED lightVars
    PROVE  LightIInv'
BY DEF LightIInv, lightVars, LightTypeOK, OneOpens, InOpen, SensorFollows,
       ReadyUntilReleased

LEMMA LightMove ==
    ASSUME LightIInv, NEW o \in Observers,
           OpenLight(o) \/ LightStep(o) \/ ReleaseLight(o)
    PROVE  LightIInv'
<1> USE LightConstants
    DEF LightIInv, LightTypeOK, ObserverStages, Passes, OneOpens, InOpen
<1>1. CASE OpenLight(o)
  BY <1>1 DEF OpenLight, SensorFollows, ReadyUntilReleased
<1>2. CASE PowerOn(o)
  <2>1. \A q \in Observers : ~InOpen(q)
    BY <1>2 DEF PowerOn
  <2>2. LightTypeOK' /\ OneOpens'
    BY <1>2, <2>1 DEF PowerOn
  <2>3. SensorFollows' /\ ReadyUntilReleased'
    BY <1>2, <2>1 DEF PowerOn, SensorFollows, ReadyUntilReleased
  <2>4. QED
    BY <2>2, <2>3
<1>3. CASE SetMode(o)
  <2>1. \A q \in Observers \ {o} : ~InOpen(q)
    BY <1>3 DEF SetMode
  <2>2. LightTypeOK' /\ OneOpens'
    BY <1>3, <2>1 DEF SetMode
  <2>3. SensorFollows' /\ ReadyUntilReleased'
    BY <1>3, <2>1 DEF SetMode, SensorFollows, ReadyUntilReleased
  <2>4. QED
    BY <2>2, <2>3
<1>4. CASE OpenReturns(o)
  <2>1. \A q \in Observers \ {o} : ~InOpen(q)
    BY <1>4 DEF OpenReturns
  <2>2. LightTypeOK' /\ OneOpens'
    BY <1>4, <2>1 DEF OpenReturns
  <2>3. SensorFollows' /\ ReadyUntilReleased'
    BY <1>4, <2>1 DEF OpenReturns, SensorFollows, ReadyUntilReleased
  <2>4. QED
    BY <2>2, <2>3
<1>5. CASE ReleaseLight(o)
  BY <1>5 DEF ReleaseLight, SensorFollows, ReadyUntilReleased
<1>6. QED
  BY <1>1, <1>2, <1>3, <1>4, <1>5 DEF LightStep

-----------------------------------------------------------------------------
(* Loading and unloading.                                                  *)

LoadIInv ==
    /\ loaded \subseteq DriverNames
    /\ \A d \in DriverNames : resources[d] \subseteq ToSet(Acquires(d))
    /\ CanLoadAgain
    /\ DOMAIN resources = DriverNames

(* What each driver acquires, call by call.                                *)
LEMMA ButtonCalls ==
    /\ DOMAIN ButtonAcquires = 1..4
    /\ ButtonAcquires[1] = "region" /\ ButtonAcquires[2] = "cdev"
    /\ ButtonAcquires[3] = "mapping" /\ ButtonAcquires[4] = "irq"
BY DEF ButtonAcquires

LEMMA BuzzerCalls ==
    /\ DOMAIN BuzzerAcquires = 1..6
    /\ BuzzerAcquires[1] = "region" /\ BuzzerAcquires[2] = "cdev"
    /\ BuzzerAcquires[3] = "memory" /\ BuzzerAcquires[4] = "mapping"
    /\ BuzzerAcquires[5] = "clk" /\ BuzzerAcquires[6] = "clockOn"
BY DEF BuzzerAcquires

LEMMA LuxCalls ==
    /\ DOMAIN LuxAcquires = 1..2
    /\ LuxAcquires[1] = "data" /\ LuxAcquires[2] = "misc"
BY DEF LuxAcquires

LEMMA UltrasonicCalls ==
    /\ DOMAIN UltrasonicAcquires = 1..3
    /\ UltrasonicAcquires[1] = "data" /\ UltrasonicAcquires[2] = "gpios"
    /\ UltrasonicAcquires[3] = "misc"
BY DEF UltrasonicAcquires

Clock == {"clk", "clockOn"}

(* What was acquired before the call that fails is given back, but for the *)
(* clock.                                                                  *)
LEMMA FailedLoadUnwinds ==
    ASSUME NEW d \in DriverNames, NEW i \in DOMAIN Acquires(d), NEW j \in 1..(i - 1),
           Acquires(d)[i] \in CanFail(d)
    PROVE  Acquires(d)[j] \in Unwinds(d, Acquires(d)[i]) \union Clock
<1>1. CASE d = "button"
  <2>1. Acquires(d) = ButtonAcquires /\ Unwinds(d, Acquires(d)[i]) = ButtonUnwinds(Acquires(d)[i])
    BY <1>1 DEF Acquires, Unwinds
  <2>2. i \in 1..4 /\ j \in 1..3 /\ j < i
    BY <2>1, ButtonCalls
  <2>3. QED
    BY <2>1, <2>2, ButtonCalls DEF ButtonUnwinds
<1>2. CASE d = "buzzer"
  <2>1. Acquires(d) = BuzzerAcquires /\ Unwinds(d, Acquires(d)[i]) = BuzzerUnwinds(Acquires(d)[i])
    BY <1>2 DEF Acquires, Unwinds
  <2>2. i \in 1..6 /\ j \in 1..5 /\ j < i /\ Acquires(d)[i] # "clk"
    BY <2>1, BuzzerCalls DEF CanFail
  <2>3. QED
    BY <2>1, <2>2, BuzzerCalls DEF BuzzerUnwinds, Clock
<1>3. CASE d = "lux"
  <2>1. Acquires(d) = LuxAcquires /\ Unwinds(d, Acquires(d)[i]) = Managed
    BY <1>3 DEF Acquires, Unwinds
  <2>2. QED
    BY <2>1, LuxCalls DEF Managed
<1>4. CASE d = "ultrasonic"
  <2>1. Acquires(d) = UltrasonicAcquires /\ Unwinds(d, Acquires(d)[i]) = Managed
    BY <1>4 DEF Acquires, Unwinds
  <2>2. QED
    BY <2>1, UltrasonicCalls DEF Managed
<1>5. QED
  BY <1>1, <1>2, <1>3, <1>4 DEF DriverNames

(* Removing a driver gives back what it acquired, but for the clock.       *)
LEMMA RemovalUnwinds ==
    ASSUME NEW d \in DriverNames, NEW x \in ToSet(Acquires(d))
    PROVE  x \in Removes(d) \union Clock
<1>1. CASE d = "button"
  <2>1. Acquires(d) = ButtonAcquires /\ Removes(d) = ButtonRemoves
    BY <1>1 DEF Acquires, Removes
  <2>2. QED
    BY <2>1, ButtonCalls DEF ToSet, ButtonRemoves
<1>2. CASE d = "buzzer"
  <2>1. Acquires(d) = BuzzerAcquires /\ Removes(d) = BuzzerRemoves
    BY <1>2 DEF Acquires, Removes
  <2>2. QED
    BY <2>1, BuzzerCalls DEF ToSet, BuzzerRemoves, Clock
<1>3. CASE d = "lux"
  <2>1. Acquires(d) = LuxAcquires /\ Removes(d) = Managed \union {"misc"}
    BY <1>3 DEF Acquires, Removes
  <2>2. QED
    BY <2>1, LuxCalls DEF ToSet, Managed
<1>4. CASE d = "ultrasonic"
  <2>1. Acquires(d) = UltrasonicAcquires /\ Removes(d) = Managed \union {"misc"}
    BY <1>4 DEF Acquires, Removes
  <2>2. QED
    BY <2>1, UltrasonicCalls DEF ToSet, Managed
<1>5. QED
  BY <1>1, <1>2, <1>3, <1>4 DEF DriverNames

(* Every acquisition sequence is one; its elements are those of its set.   *)
LEMMA AcquiresInSet ==
    ASSUME NEW d, NEW i \in DOMAIN Acquires(d), NEW j \in 1..(i - 1), d \in DriverNames
    PROVE  Acquires(d)[j] \in ToSet(Acquires(d))
<1>1. DOMAIN Acquires(d) \in {1..2, 1..3, 1..4, 1..6}
  BY ButtonCalls, BuzzerCalls, LuxCalls, UltrasonicCalls DEF Acquires, DriverNames
<1>2. j \in DOMAIN Acquires(d)
  BY <1>1
<1>3. QED
  BY <1>2 DEF ToSet

LEMMA LoadMove ==
    ASSUME LoadIInv, NEW d \in DriverNames, Load(d)
    PROVE  LoadIInv'
<1> USE DEF LoadIInv
<1>1. CASE /\ resources[d] \subseteq {"clk", "clockOn"}
           /\ loaded' = loaded \union {d}
           /\ resources' = [ resources EXCEPT ![d] = ToSet(Acquires(d)) ]
  BY <1>1 DEF CanLoadAgain
<1>2. ASSUME NEW i \in DOMAIN Acquires(d),
             Acquires(d)[i] \in CanFail(d),
             resources' = [ resources EXCEPT ![d] =
                 (@ \union { Acquires(d)[j] : j \in 1..(i - 1) }) \ Unwinds(d, Acquires(d)[i]) ],
             UNCHANGED loaded
      PROVE  LoadIInv'
  <2>1. d \notin loaded
    BY DEF Load
  <2>2. resources[d] \subseteq Clock
    BY <2>1 DEF CanLoadAgain, Clock
  <2>3. resources'[d] =
          (resources[d] \union { Acquires(d)[j] : j \in 1..(i - 1) }) \ Unwinds(d, Acquires(d)[i])
    BY <1>2
  <2>4. resources'[d] \subseteq Clock
    BY <1>2, <2>2, <2>3, FailedLoadUnwinds
  <2>5. resources'[d] \subseteq ToSet(Acquires(d))
    BY <2>3, AcquiresInSet
  <2>6. /\ DOMAIN resources' = DriverNames
        /\ \A e \in DriverNames \ {d} : resources'[e] = resources[e]
    BY <1>2
  <2>7. QED
    BY <1>2, <2>4, <2>5, <2>6 DEF CanLoadAgain, Clock
<1>3. QED
  BY <1>1, <1>2 DEF Load

LEMMA UnloadMove ==
    ASSUME LoadIInv, NEW d \in DriverNames, Unload(d)
    PROVE  LoadIInv'
<1> USE DEF LoadIInv
<1>1. /\ loaded' = loaded \ {d}
      /\ DOMAIN resources' = DriverNames
      /\ \A e \in DriverNames \ {d} : resources'[e] = resources[e]
      /\ resources'[d] = resources[d] \ Removes(d)
  BY DEF Unload
<1>2. resources'[d] \subseteq Clock
  BY <1>1, RemovalUnwinds
<1>3. QED
  BY <1>1, <1>2 DEF CanLoadAgain, Clock

-----------------------------------------------------------------------------
(* All together.                                                           *)

DriversIInv == BuzzerIInv /\ LightIInv /\ LoadIInv

LEMMA DriversStart == Init => DriversIInv
<1> SUFFICES ASSUME Init PROVE DriversIInv
  OBVIOUS
<1>1. BuzzerIInv
  <2>1. 0 \in 0..Notes
    BY BuzzerConstants
  <2>2. BuzzerTypeOK /\ NotesLeft
    BY <2>1 DEF Init, BuzzerInit, NoEncore, BuzzerTypeOK, PlayerStages, NotesLeft
  <2>3. SoundsOnlyInANote /\ StopStands /\ Encores
    BY DEF Init, BuzzerInit, NoEncore, SoundsOnlyInANote, StopStands, Encores
  <2>4. QED
    BY <2>2, <2>3 DEF BuzzerIInv
<1>2. LightIInv
  BY DEF Init, LightInit, LightIInv, LightTypeOK, ObserverStages, OneOpens, InOpen,
         SensorFollows, ReadyUntilReleased
<1>3. LoadIInv
  BY DEF Init, LoadIInv, CanLoadAgain
<1>4. QED
  BY <1>1, <1>2, <1>3 DEF DriversIInv

LEMMA DriversStep ==
    DriversIInv /\ [Next]_vars => DriversIInv'
<1> SUFFICES ASSUME DriversIInv, [Next]_vars
             PROVE  DriversIInv'
  OBVIOUS
<1> USE DEF DriversIInv
<1>1. ASSUME NEW d \in DriverNames, Load(d) \/ Unload(d)
      PROVE  DriversIInv'
  <2>1. UNCHANGED buzzerVars /\ UNCHANGED lightVars
    BY <1>1 DEF Load, Unload
  <2>2. QED
    BY <1>1, <2>1, LoadMove, UnloadMove, BuzzerUnmoved, LightUnmoved
<1>2. CASE UseBuzzer
  <2>1. UNCHANGED <<loaded, resources>> /\ UNCHANGED lightVars
    BY <1>2 DEF UseBuzzer
  <2>2. BuzzerIInv'
    BY <1>2, BuzzerMove DEF UseBuzzer
  <2>3. LoadIInv'
    BY <2>1 DEF LoadIInv, CanLoadAgain
  <2>4. QED
    BY <2>1, <2>2, <2>3, LightUnmoved
<1>3. ASSUME NEW o \in Observers, UseLight(o)
      PROVE  DriversIInv'
  <2>1. UNCHANGED <<loaded, resources>> /\ UNCHANGED buzzerVars
    BY <1>3 DEF UseLight
  <2>2. LightIInv'
    BY <1>3, LightMove DEF UseLight
  <2>3. LoadIInv'
    BY <2>1 DEF LoadIInv, CanLoadAgain
  <2>4. QED
    BY <2>1, <2>2, <2>3, BuzzerUnmoved
<1>4. CASE UNCHANGED vars
  <2>1. UNCHANGED <<loaded, resources>> /\ UNCHANGED buzzerVars /\ UNCHANGED lightVars
    BY <1>4 DEF vars
  <2>2. LoadIInv'
    BY <2>1 DEF LoadIInv, CanLoadAgain
  <2>3. QED
    BY <2>1, <2>2, BuzzerUnmoved, LightUnmoved
<1>5. QED
  BY <1>1, <1>2, <1>3, <1>4 DEF Next

(* The drivers keep DriversInv, for any number of processes.               *)
THEOREM DriversCorrect == Spec => []DriversInv
<1>1. DriversIInv => DriversInv
  BY DEF DriversIInv, BuzzerIInv, LightIInv, LoadIInv, DriversInv, TypeOK
<1>2. QED
  BY <1>1, DriversStart, DriversStep, PTL DEF Spec

(* A STOP ends the Tetris melodies that it finds in the driver, each after *)
(* at most one note that its player had looked for already.                *)
THEOREM StopWorks == Spec => []StopEndsTetris
<1>1. DriversIInv => StopEndsTetris
  BY DEF DriversIInv, BuzzerIInv, BuzzerTypeOK, Encores, StopEndsTetris
<1>2. QED
  BY <1>1, DriversStart, DriversStep, PTL DEF Spec

-----------------------------------------------------------------------------
(* The button, from the interrupt to the signal of the watcher.            *)

(* What may still become an emission of the worker: the flag or the read   *)
(* it has let through - one and the same press until the read returns -    *)
(* and an edge that waits for its interrupt.                               *)
InDriver == IF pressed \/ reading["worker"] = "taking" THEN 1 ELSE 0
InLatch == IF latched THEN 1 ELSE 0

PressesInHand == emitted + InDriver + InLatch <= edges + signals

(* What the caller in the ioctls has done so far, while it is the only     *)
(* one.                                                                    *)
OneInside == \A c, d \in Callers : ioctl[c] # "out" /\ ioctl[d] # "out" => c = d
AllOutside == \A c \in Callers : ioctl[c] = "out"
FlagFollows ==
    ~overlapped =>
      /\ OneInside
      /\ AllOutside => irqDepth = (IF irq_enabled THEN 0 ELSE 1)
      /\ \A c \in Callers :
           /\ ioctl[c] = "enable" => ~irq_enabled /\ irqDepth = 1
           /\ ioctl[c] = "enabled" => ~irq_enabled /\ irqDepth = 0
           /\ ioctl[c] = "disable" => irq_enabled /\ irqDepth = 0
           /\ ioctl[c] = "disabled" => irq_enabled /\ irqDepth = 1

(* Where the presses are.                                                  *)
PressInv ==
    /\ PressNotForgotten
    /\ PressesAnswered
    /\ PressesInHand
    /\ cancelled => reading["worker"] = "ended"

WatchIInv ==
    /\ WatchTypeOK
    /\ PressInv
    /\ FlagFollows

LEMMA WatchImplied == WatchIInv => WatchInv
<1> SUFFICES ASSUME WatchIInv PROVE WatchInv
  OBVIOUS
<1>1. PressesCountedOnce
  BY ButtonConstants
     DEF WatchIInv, PressInv, PressesInHand, PressesCountedOnce, WatchTypeOK, InDriver, InLatch
<1>2. IrqFlagTells
  BY DEF WatchIInv, FlagFollows, AllOutside, IrqFlagTells, WatchTypeOK
<1>3. QED
  BY <1>1, <1>2 DEF WatchIInv, PressInv, WatchInv

LEMMA WatchStarts == WatchInit => WatchIInv
<1> SUFFICES ASSUME WatchInit PROVE WatchIInv
  OBVIOUS
<1>1. "worker" \in Readers
  BY DEF Readers
<1>2. WatchTypeOK
  <2>1. /\ 0 \in 0..MaxPresses /\ 0 \in 0..MaxSignals /\ 0 \in 0..(MaxPresses + MaxSignals)
        /\ 0 \in 0..2 /\ 0 \in Nat
    BY ButtonConstants
  <2>2. reading \in [ Readers -> ReadStages ] /\ ioctl \in [ Callers -> IoctlStages ]
    BY DEF WatchInit, ReadStages, IoctlStages
  <2>3. QED
    BY <2>1, <2>2 DEF WatchInit, WatchTypeOK, WatcherStages
<1>3. PressInv
  BY <1>1 DEF WatchInit, PressInv, PressNotForgotten, PressesAnswered, Idle, PressesInHand,
              InDriver, InLatch
<1>4. FlagFollows
  BY DEF WatchInit, FlagFollows, OneInside, AllOutside
<1>5. QED
  BY <1>2, <1>3, <1>4 DEF WatchIInv

(* What the presses depend on; nothing else can disturb them.              *)
LEMMA PressesKept ==
    ASSUME PressInv,
           UNCHANGED <<pressed, latched, reading, edges, emitted, pressHistory, signals>>
    PROVE  PressInv'
BY DEF PressInv, pressHistory, PressNotForgotten, PressesAnswered, Idle, PressesInHand,
       InDriver, InLatch

(* A step that leaves the ioctls alone keeps what their caller knows.      *)
LEMMA FlagKept ==
    ASSUME FlagFollows, UNCHANGED switchVars
    PROVE  FlagFollows'
BY DEF FlagFollows, OneInside, AllOutside, switchVars

(* An ioctl of caller c leaves the readers and the watcher alone.          *)
LEMMA IoctlKeeps ==
    ASSUME WatchIInv, NEW c \in Callers, IrqIoctl(c)
    PROVE  WatchIInv'
<1> USE DEF WatchIInv
<1>1. UNCHANGED <<pressed, reading, edges, emitted, pressHistory, latched, signals, stopPipe,
                  watcher>>
  BY DEF IrqIoctl
<1>2. PressInv'
  BY <1>1, PressesKept
<1>3. /\ irqDepth' \in Nat /\ irq_enabled' \in BOOLEAN /\ overlapped' \in BOOLEAN
      /\ ioctl' \in [ Callers -> IoctlStages ]
  <2>1. CASE TestFlag(c)
    BY <2>1 DEF TestFlag, IoctlGoes, WatchTypeOK, IoctlStages
  <2>2. CASE SwitchIrq(c)
    <3>1. irqDepth' \in Nat
      BY <2>2 DEF SwitchIrq, WatchTypeOK
    <3>2. ioctl' \in [ Callers -> IoctlStages ]
      BY <2>2 DEF SwitchIrq, IoctlGoes, WatchTypeOK, IoctlStages
    <3>3. QED
      BY <2>2, <3>1, <3>2 DEF SwitchIrq, WatchTypeOK
  <2>3. CASE SetFlag(c)
    BY <2>3 DEF SetFlag, IoctlGoes, WatchTypeOK, IoctlStages
  <2>4. QED
    BY <2>1, <2>2, <2>3 DEF IrqIoctl
<1>4. WatchTypeOK'
  BY <1>1, <1>3 DEF WatchTypeOK, pressHistory
<1>5. ASSUME ~overlapped' PROVE FlagFollows'
  <2>1. ~overlapped
    BY <1>5 DEF IrqIoctl, TestFlag, SwitchIrq, SetFlag
  <2>2. \A d \in Callers \ {c} : ioctl[d] = "out"
    <3>1. CASE TestFlag(c)
      BY <3>1, <1>5 DEF TestFlag
    <3>2. CASE SwitchIrq(c) \/ SetFlag(c)
      BY <2>1, <3>2 DEF SwitchIrq, SetFlag, IoctlGoes, FlagFollows, OneInside
    <3>3. QED
      BY <3>1, <3>2 DEF IrqIoctl
  <2>3. \A d \in Callers \ {c} : ioctl'[d] = "out"
    BY <2>2 DEF IrqIoctl, TestFlag, SwitchIrq, SetFlag, IoctlGoes, WatchTypeOK
  <2>4. OneInside'
    BY <2>3 DEF OneInside
  <2>5. CASE TestFlag(c)
    BY <2>1, <2>2, <2>3, <2>4, <2>5
       DEF TestFlag, IoctlGoes, FlagFollows, AllOutside, WatchTypeOK
  <2>6. CASE SwitchIrq(c)
    BY <2>1, <2>2, <2>3, <2>4, <2>6
       DEF SwitchIrq, IoctlGoes, FlagFollows, AllOutside, WatchTypeOK
  <2>7. CASE SetFlag(c)
    BY <2>1, <2>2, <2>3, <2>4, <2>7
       DEF SetFlag, IoctlGoes, FlagFollows, AllOutside, WatchTypeOK
  <2>8. QED
    BY <2>5, <2>6, <2>7 DEF IrqIoctl
<1>6. FlagFollows'
  BY <1>5 DEF FlagFollows
<1>7. QED
  BY <1>2, <1>4, <1>6

(* The bound on the emissions follows from the count of presses.           *)
LEMMA EmittedBound ==
    ASSUME NEW n \in Nat, NEW inDriver \in Nat, NEW inLatch \in Nat,
           NEW e \in Nat, NEW s \in Nat, NEW maxE \in Nat, NEW maxS \in Nat,
           n + inDriver + inLatch <= e + s, e <= maxE, s <= maxS
    PROVE  n <= maxE + maxS
OBVIOUS

(* A press, through the interrupt or into the latch.                       *)
LEMMA EdgeKeeps ==
    ASSUME WatchIInv, Edge,
           \/ pressed' = TRUE /\ UNCHANGED latched
           \/ latched' = TRUE /\ UNCHANGED pressed
    PROVE  WatchIInv'
<1> USE DEF WatchIInv
<1>1. FlagFollows'
  BY FlagKept DEF Edge
<1>2. /\ edges \in Nat /\ edges' \in 0..MaxPresses /\ edges' = edges + 1
      /\ emitted \in Nat /\ signals \in Nat
  BY ButtonConstants DEF Edge, WatchTypeOK
<1>3. ~Idle' /\ (Idle => owed <= 1) /\ owed \in 0..2
  BY DEF Idle, PressInv, PressesAnswered, WatchTypeOK, Edge
<1>4. (owed <= 1 /\ cancelled) \/ owed = 0 \/ ~Idle
  BY <1>3 DEF PressInv, PressesAnswered
<1>5. owed' \in 0..2
  BY <1>3 DEF Edge
<1>6. WatchTypeOK'
  BY <1>2, <1>5 DEF Edge, switchVars, WatchTypeOK
<1>7. PressNotForgotten' /\ PressesAnswered'
  BY <1>3, <1>4, <1>5 DEF Edge, PressNotForgotten, PressInv, PressesAnswered
<1>8. PressesInHand'
  BY <1>2 DEF Edge, PressInv, PressesInHand, InDriver, InLatch, WatchTypeOK
<1>9. QED
  BY <1>1, <1>6, <1>7, <1>8 DEF PressInv, Edge

(* The thread is ended from outside: one press at most goes with it.       *)
LEMMA EndKeeps ==
    ASSUME WatchIInv, WorkerEnds, watcher' \in WatcherStages
    PROVE  WatchIInv'
<1> USE DEF WatchIInv
<1>w. "worker" \in Readers /\ reading'["worker"] = "ended" /\ ~cancelled
  BY DEF Readers, WorkerEnds, WatchTypeOK, PressInv
<1>1. WatchTypeOK'
  BY DEF WorkerEnds, irqVars, switchVars, WatchTypeOK, ReadStages
<1>2. FlagFollows'
  BY FlagKept DEF WorkerEnds, irqVars
<1>3. PressesInHand'
  BY <1>w, ButtonConstants
     DEF WorkerEnds, irqVars, WatchTypeOK, PressInv, PressesInHand, InDriver, InLatch
<1>4. CASE reading["worker"] \in {"waiting", "taking"}
  <2>1. cancelled' /\ owed' = owed /\ owed <= 1 /\ owed \in 0..2
    BY <1>4, <1>w DEF WorkerEnds, PressInv, PressesAnswered, WatchTypeOK
  <2>2. PressNotForgotten' /\ PressesAnswered'
    BY <2>1 DEF PressNotForgotten, PressesAnswered
  <2>3. QED
    BY <1>w, <1>1, <1>2, <1>3, <2>2 DEF PressInv
<1>5. CASE reading["worker"] \notin {"waiting", "taking"}
  <2>1. UNCHANGED <<pressed, latched, cancelled, owed, unread>>
    BY <1>5 DEF WorkerEnds, irqVars
  <2>2. \A r \in Readers : reading'[r] = "taking" <=> reading[r] = "taking"
    BY <1>5, <1>w DEF WorkerEnds, WatchTypeOK
  <2>3. Idle' <=> Idle
    BY <2>1, <2>2 DEF Idle
  <2>4. PressNotForgotten' /\ PressesAnswered'
    BY <2>1, <2>3 DEF PressNotForgotten, PressInv, PressesAnswered
  <2>5. QED
    BY <1>w, <1>1, <1>2, <1>3, <2>4 DEF PressInv
<1>6. QED
  BY <1>4, <1>5

(* A reader moves to the end of its wait, or to another place outside it,  *)
(* and nothing else changes but, perhaps, the number of signals.           *)
LEMMA ReaderMoves ==
    ASSUME WatchIInv, NEW r \in Readers, NEW to \in ReadStages,
           reading' = [ reading EXCEPT ![r] = to ],
           reading[r] \notin {"taking", "ended"},
           UNCHANGED <<pressed, edges, emitted, pressHistory, stopPipe, watcher, irqVars>>,
           \/ signals' = signals /\ (to = "taking" => pressed)
           \/ signals' = signals + 1 /\ signals' \in 0..MaxSignals
    PROVE  WatchIInv'
<1> USE DEF WatchIInv
<1>w. "worker" \in Readers
  BY DEF Readers
<1>1. WatchTypeOK' /\ FlagFollows'
  BY FlagKept DEF WatchTypeOK, irqVars, switchVars, pressHistory
<1>2. UNCHANGED <<owed, unread, cancelled, pressed, latched>>
  BY DEF pressHistory, irqVars
<1>3. ~Idle => ~Idle'
  BY <1>2 DEF Idle, WatchTypeOK
<1>4. PressNotForgotten' /\ PressesAnswered'
  BY <1>2, <1>3 DEF PressNotForgotten, PressInv, PressesAnswered, WatchTypeOK
<1>5. PressesInHand'
  BY <1>w, ButtonConstants
     DEF irqVars, WatchTypeOK, PressInv, PressesInHand, InDriver, InLatch
<1>6. (cancelled => reading["worker"] = "ended")'
  BY <1>w, <1>2 DEF PressInv, WatchTypeOK
<1>7. QED
  BY <1>1, <1>4, <1>5, <1>6 DEF PressInv

(* A read returns and takes what is owed with it.                          *)
LEMMA ReturnKeeps ==
    ASSUME WatchIInv, NEW r \in Readers, ReadReturns(r)
    PROVE  WatchIInv'
<1> USE DEF WatchIInv
<1>w. "worker" \in Readers
  BY DEF Readers
<1>1. FlagFollows'
  BY FlagKept DEF ReadReturns, irqVars
<1>2. emitted' \in Nat /\ emitted \in Nat /\ edges \in Nat /\ signals \in Nat
  BY ButtonConstants DEF ReadReturns, WatchTypeOK
<1>3. PressesInHand'
  <2>1. CASE r = "worker"
    BY <1>w, <1>2, <2>1 DEF ReadReturns, Goes, irqVars, WatchTypeOK, PressInv, PressesInHand,
       InDriver, InLatch
  <2>2. CASE r # "worker"
    BY <1>w, <1>2, <2>2 DEF ReadReturns, Goes, irqVars, WatchTypeOK, PressInv, PressesInHand,
       InDriver, InLatch
  <2>3. QED
    BY <2>1, <2>2
<1>4. emitted' \in 0..(MaxPresses + MaxSignals)
  <2>1. InDriver' \in Nat /\ InLatch' \in Nat
    BY DEF InDriver, InLatch
  <2>2. /\ edges' \in Nat /\ signals' \in Nat /\ MaxPresses \in Nat /\ MaxSignals \in Nat
        /\ edges' <= MaxPresses /\ signals' <= MaxSignals
    BY ButtonConstants DEF ReadReturns, WatchTypeOK
  <2>3. emitted' + InDriver' + InLatch' <= edges' + signals'
    BY <1>3 DEF PressesInHand
  <2>4. emitted' <= MaxPresses + MaxSignals
    BY <1>2, <2>1, <2>2, <2>3, EmittedBound
  <2>5. QED
    BY <1>2, <2>2, <2>4
<1>5. owed \in 0..2 /\ owed' = (IF owed > 0 THEN owed - 1 ELSE 0) /\ ~Idle
  BY DEF ReadReturns, Goes, Idle, WatchTypeOK
<1>6. owed' \in 0..2
  BY <1>5
<1>7. WatchTypeOK'
  BY <1>4, <1>6 DEF ReadReturns, Goes, irqVars, switchVars, WatchTypeOK, ReadStages
<1>8. PressNotForgotten'
  BY DEF ReadReturns, PressNotForgotten
<1>9. PressesAnswered'
  BY <1>5 DEF ReadReturns, PressInv, PressesAnswered
<1>10. (cancelled => reading["worker"] = "ended")'
  BY <1>w DEF ReadReturns, Goes, PressInv, WatchTypeOK
<1>11. QED
  BY <1>1, <1>3, <1>7, <1>8, <1>9, <1>10 DEF PressInv

LEMMA WatchStep == WatchIInv /\ [WatchNext]_watchVars => WatchIInv'
<1> SUFFICES ASSUME WatchIInv, [WatchNext]_watchVars PROVE WatchIInv'
  OBVIOUS
<1> USE DEF WatchIInv
<1>w. "worker" \in Readers
  BY DEF Readers
<1>1. CASE KeyIsr \/ EdgeLatched
  BY <1>1, EdgeKeeps DEF KeyIsr, EdgeLatched
<1>2. CASE LatchedIsr
  <2>1. ~Idle /\ ~Idle' /\ UNCHANGED <<owed, unread, cancelled>>
    BY <1>2 DEF LatchedIsr, Idle, pressHistory
  <2>2. PressNotForgotten' /\ PressesAnswered'
    BY <2>1 DEF PressNotForgotten, PressInv, PressesAnswered
  <2>3. PressesInHand'
    BY <1>2, ButtonConstants
       DEF LatchedIsr, WatchTypeOK, PressInv, PressesInHand, InDriver, InLatch
  <2>4. WatchTypeOK' /\ FlagFollows'
    BY <1>2, FlagKept DEF LatchedIsr, switchVars, pressHistory, WatchTypeOK
  <2>5. QED
    BY <1>2, <2>1, <2>2, <2>3, <2>4 DEF LatchedIsr, PressInv
<1>3. ASSUME NEW c \in Callers, IrqIoctl(c) PROVE WatchIInv'
  BY <1>3, IoctlKeeps
<1>4. ASSUME NEW r \in Readers, WaitEnds(r) PROVE WatchIInv'
  BY <1>4, ReaderMoves DEF WaitEnds, Goes, ReadStages
<1>5. ASSUME NEW r \in Readers, ReadReturns(r) PROVE WatchIInv'
  BY <1>5, ReturnKeeps
<1>6. CASE WaitInterrupted
  <2>1. signals' = signals + 1 /\ signals' \in 0..MaxSignals
    BY <1>6, ButtonConstants DEF WaitInterrupted, WatchTypeOK
  <2>2. QED
    BY <1>6, <1>w, <2>1, ReaderMoves DEF WaitInterrupted, Goes, ReadStages
<1>7. ASSUME NEW r \in Others, ReadAgain(r) PROVE WatchIInv'
  BY <1>7, ReaderMoves DEF ReadAgain, Goes, ReadStages, Readers
<1>8. CASE Select
  BY <1>8, <1>w, ReaderMoves DEF Select, Goes, ReadStages
<1>9. CASE Terminated
  BY <1>9, EndKeeps DEF Terminated, WatchTypeOK
<1>10. CASE /\ UNCHANGED <<pressed, reading, edges, emitted, pressHistory, signals, irqVars>>
            /\ watcher' \in WatcherStages /\ stopPipe' \in BOOLEAN
  <2>1. PressInv' /\ FlagFollows'
    BY <1>10, PressesKept, FlagKept DEF irqVars
  <2>2. WatchTypeOK'
    BY <1>10 DEF irqVars, switchVars, pressHistory, WatchTypeOK
  <2>3. QED
    BY <2>1, <2>2
<1>11. CASE WriteStopPipe \/ WaitTimesOut \/ DeleteWorker
  BY <1>10, <1>11 DEF WriteStopPipe, WaitTimesOut, DeleteWorker, WatchTypeOK, WatcherStages
<1>12. CASE DestroyThread
  BY <1>10, <1>12, EndKeeps DEF DestroyThread, WatchTypeOK, WatcherStages
<1>13. CASE Gone \/ UNCHANGED watchVars
  BY <1>10, <1>13 DEF Gone, watchVars, WatchTypeOK
<1>14. QED
  BY <1>1, <1>2, <1>3, <1>4, <1>5, <1>6, <1>7, <1>8, <1>9, <1>11, <1>12, <1>13 DEF WatchNext

(* Driver, readers and watcher keep WatchInv for every number of each.     *)
THEOREM WatchCorrect == WatchSpec => []WatchInv
<1>1. WatchSpec => []WatchIInv
  BY WatchStarts, WatchStep, PTL DEF WatchSpec
<1>2. QED
  BY <1>1, WatchImplied, PTL
=============================================================================
