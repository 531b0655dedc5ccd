------------------------------ MODULE Challenge ------------------------------
(***************************************************************************)
(* What the modes of DismissDialog promise about silencing an alarm: the   *)
(* dialog asks for a number of things, they are met one at a time, things  *)
(* already met may have to be done again as long as one is missing, and    *)
(* the dialog closes when, and only when, nothing is missing.  The modes   *)
(* implement it with timers, threads and drivers.                          *)
(***************************************************************************)
EXTENDS Naturals

CONSTANT MaxSteps   \* the most things a dialog asks for, at least one

VARIABLES
    left,   \* how many things are still missing
    won     \* the dialog has closed

challengeVars == <<left, won>>

ChallengeInit == left \in 1..MaxSteps /\ won = FALSE

\* One thing is met; the last one may close the dialog in the same step.
Meet ==
    /\ left > 0
    /\ left' = left - 1
    /\ won' \in {FALSE, left' = 0}

\* Something has to be done again.
StartOver ==
    /\ left > 0
    /\ left' \in left..MaxSteps
    /\ UNCHANGED won

Close ==
    /\ left = 0
    /\ won' = TRUE
    /\ UNCHANGED left

ChallengeNext == Meet \/ StartOver \/ Close

ChallengeSpec ==
    ChallengeInit /\ [][ChallengeNext]_challengeVars /\ WF_challengeVars(Close)
=============================================================================
