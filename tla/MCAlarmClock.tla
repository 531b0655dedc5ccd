----------------------------- MODULE MCAlarmClock -----------------------------
(* Small instances of AlarmClock: the constants a .cfg cannot write down.  *)
EXTENDS AlarmClock

(* One-shot alarms, and alarms that repeat on weekday 0. *)
MCMasks == { {}, {0} }
=============================================================================
