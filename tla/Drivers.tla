-------------------------------- MODULE Drivers --------------------------------
(***************************************************************************)
(* Loading and unloading of the four drivers under device_driver/, with    *)
(* the resources each acquires and gives back, and the use of the buzzer   *)
(* and of the light sensor while their modules are loaded.  (The use of    *)
(* the button and of the ultrasonic array is in ButtonWatch and            *)
(* UltrasonicDismiss.)  The drivers share nothing but the machine; the two *)
(* whose use is modelled are not loaded at the same time here.             *)
(***************************************************************************)
EXTENDS Buzzer, LightSensor, Sequences, SequencesExt

VARIABLES
    loaded,     \* the drivers that are loaded
    resources   \* what each driver holds

vars == <<loaded, resources, buzzerVars, lightVars>>

DriverNames == {"button", "buzzer", "lux", "ultrasonic"}

(* What device_init() and the probe functions acquire, in order.           *)
ButtonAcquires == <<"region", "cdev", "mapping", "irq">>
BuzzerAcquires == <<"region", "cdev", "memory", "mapping", "clk", "clockOn">>
LuxAcquires == <<"data", "misc">>
UltrasonicAcquires == <<"data", "gpios", "misc">>

Acquires(d) ==
    CASE d = "button" -> ButtonAcquires
      [] d = "buzzer" -> BuzzerAcquires
      [] d = "lux" -> LuxAcquires
      [] d = "ultrasonic" -> UltrasonicAcquires

(* What the error labels give back when one acquisition fails.             *)
ButtonUnwinds(failed) ==
    CASE failed = "region" -> {}
      [] failed = "cdev" -> {"region"}
      [] failed = "mapping" -> {"cdev", "region"}
      [] failed = "irq" -> {"mapping", "cdev", "region"}

BuzzerUnwinds(failed) ==
    CASE failed = "region" -> {}
      [] failed = "cdev" -> {"region"}
      [] failed = "memory" -> {"cdev", "region"}
      [] failed = "mapping" -> {"memory", "cdev", "region"}
      [] failed = "clockOn" -> {"mapping", "memory", "cdev", "region"}

(* clk_get() tells a failure by an error pointer, which the test against 0 *)
(* does not see: that error path is never taken.  (clk_prepare_enable()    *)
(* then gets the error pointer; what the kernel does with it is not        *)
(* modelled.)                                                              *)
CanFail(d) == ToSet(Acquires(d)) \ {"clk"}

(* The devm_ functions' resources go with the device, in every case.       *)
Managed == {"data", "gpios"}

Unwinds(d, failed) ==
    CASE d = "button" -> ButtonUnwinds(failed)
      [] d = "buzzer" -> BuzzerUnwinds(failed)
      [] OTHER -> Managed

ButtonRemoves == {"irq", "mapping", "cdev", "region"}
BuzzerRemoves == {"mapping", "memory", "cdev", "region"}

Removes(d) ==
    CASE d = "button" -> ButtonRemoves
      [] d = "buzzer" -> BuzzerRemoves
      [] OTHER -> Managed \union {"misc"}

Init ==
    /\ loaded = {}
    /\ resources = [ d \in DriverNames |-> {} ]
    /\ BuzzerInit
    /\ LightInit

(* A call that would acquire what is still held fails, and with it the     *)
(* load; the clock can be taken any number of times.                       *)
Load(d) ==
    /\ d \notin loaded
    /\ ~({"buzzer", "lux"} \subseteq loaded \union {d})
    /\ \/ /\ resources[d] \subseteq {"clk", "clockOn"}
          /\ loaded' = loaded \union {d}
          /\ resources' = [ resources EXCEPT ![d] = ToSet(Acquires(d)) ]
       \/ \E i \in DOMAIN Acquires(d) :
            /\ Acquires(d)[i] \in CanFail(d)
            /\ \A j \in 1..(i - 1) :
                 Acquires(d)[j] \in resources[d] => Acquires(d)[j] \in {"clk", "clockOn"}
            /\ resources' = [ resources EXCEPT ![d] =
                 (@ \union { Acquires(d)[j] : j \in 1..(i - 1) }) \ Unwinds(d, Acquires(d)[i]) ]
            /\ UNCHANGED loaded
    /\ UNCHANGED <<buzzerVars, lightVars>>

(* Each open descriptor holds a reference on its module.                   *)
InUse(d) ==
    \/ d = "buzzer" /\ \E p \in Players : at[p] # "closed"
    \/ d = "lux" /\ \E o \in Observers : opening[o] # "closed"

Unload(d) ==
    /\ d \in loaded /\ ~InUse(d)
    /\ loaded' = loaded \ {d}
    /\ resources' = [ resources EXCEPT ![d] = @ \ Removes(d) ]
    /\ UNCHANGED <<buzzerVars, lightVars>>

UseBuzzer ==
    /\ \E p \in Players : (("buzzer" \in loaded /\ OpenBuzzer(p)) \/ BuzzerCall(p) \/ BuzzerStep(p))
    /\ UNCHANGED <<loaded, resources, lightVars>>

UseLight(o) ==
    /\ ("lux" \in loaded /\ OpenLight(o)) \/ LightStep(o) \/ ReleaseLight(o)
    /\ UNCHANGED <<loaded, resources, buzzerVars>>

Next ==
    \/ \E d \in DriverNames : Load(d) \/ Unload(d)
    \/ UseBuzzer
    \/ \E o \in Observers : UseLight(o)

(* A process that is in the light-sensor driver goes on; the mutex gives   *)
(* each waiter its turn.                                                   *)
LightProgress(o) == LightStep(o) /\ UNCHANGED <<loaded, resources, buzzerVars>>

Spec == Init /\ [][Next]_vars /\ \A o \in Observers : SF_vars(LightProgress(o))

-----------------------------------------------------------------------------
TypeOK ==
    /\ BuzzerTypeOK
    /\ LightTypeOK
    /\ loaded \subseteq DriverNames
    /\ \A d \in DriverNames : resources[d] \subseteq ToSet(Acquires(d))

(* A driver that is not loaded, because it was removed or because any step *)
(* of its initialisation failed, holds nothing that keeps it from being    *)
(* loaded again.  What buzzertest.c does leave is the clock: no error path *)
(* and no removal gives it back.                                           *)
CanLoadAgain ==
    \A d \in DriverNames \ loaded : resources[d] \subseteq {"clk", "clockOn"}

(* What holds of the drivers at every moment: whatever failed or was       *)
(* removed can be loaded again, the buzzer sounds only in somebody's       *)
(* note, and a light sensor that was opened has a value.                   *)
DriversInv ==
    /\ TypeOK
    /\ CanLoadAgain
    /\ SoundsOnlyInANote
    /\ ReadyUntilReleased
=============================================================================
