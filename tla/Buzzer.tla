-------------------------------- MODULE Buzzer --------------------------------
(***************************************************************************)
(* The buzzer driver (device_driver/buzzer/buzzertest.c): melodies that    *)
(* play inside the ioctl of the process that asks for them, the stop flag  *)
(* they share and the PWM that sounds.  There is no lock: any number of    *)
(* processes may be in the driver.  play_crazy_arcade(), play_super_mario()*)
(* and device_write() play in the same way, as "other"; the registers that *)
(* hold the pitch are left out.                                            *)
(***************************************************************************)
EXTENDS Naturals

CONSTANTS
    Players,        \* processes that use the device
    Notes           \* notes of a melody

ASSUME BuzzerConstants == Notes \in Nat \ {0}

VARIABLES
    at,         \* where each player is, see PlayerStages
    song,       \* what it plays: "tetris" or "other"
    left,       \* notes it still has to play
    g_stop,
    tone,       \* PWM_CTL is 0x81
    condemned,  \* history: players that a STOP found in play_tetris()'s loop
    encore      \* history: notes each of them has begun since

stopHistory == <<condemned, encore>>
buzzerVars == <<at, song, left, g_stop, tone, stopHistory>>

(* No descriptor; with one, outside the driver; in play_tetris() before    *)
(* g_stop is reset; at the head of a loop; past the test of g_stop, with   *)
(* buzzer_beep() to come; in buzzer_beep() past its first write of 0x80;   *)
(* past the write of 0x81; in IOCTL_STOP past the flag.                    *)
PlayerStages == {"closed", "open", "entry", "check", "due", "pitched", "sounding",
                 "stopping"}

NoEncore == [ p \in Players |-> 0 ]

BuzzerInit ==
    /\ at = [ p \in Players |-> "closed" ]
    /\ song = [ p \in Players |-> "other" ]
    /\ left = [ p \in Players |-> 0 ]
    /\ g_stop = FALSE
    /\ tone = FALSE
    /\ condemned = {} /\ encore = NoEncore

Moves(p, from, to) == at[p] = from /\ at' = [ at EXCEPT ![p] = to ]

InTetris(p) == song[p] = "tetris" /\ at[p] \in {"check", "due", "pitched", "sounding"}

-----------------------------------------------------------------------------
OpenBuzzer(p) ==
    /\ Moves(p, "closed", "open")
    /\ UNCHANGED <<song, left, g_stop, tone, stopHistory>>

CloseBuzzer(p) ==
    /\ Moves(p, "open", "closed")
    /\ UNCHANGED <<song, left, g_stop, tone, stopHistory>>

Play(p, melody) ==
    /\ Moves(p, "open", IF melody = "tetris" THEN "entry" ELSE "check")
    /\ song' = [ song EXCEPT ![p] = melody ]
    /\ left' = [ left EXCEPT ![p] = Notes ]
    /\ UNCHANGED <<g_stop, tone, stopHistory>>

(* play_tetris() takes back what was stopped before, or by someone else.   *)
ResetStop(p) ==
    /\ Moves(p, "entry", "check")
    /\ g_stop' = FALSE
    /\ condemned' = {} /\ encore' = NoEncore
    /\ UNCHANGED <<song, left, tone>>

\* Mutant of TestStop: play_tetris() does not look at g_stop.
GoOnUnasked(p) ==
    /\ left[p] > 0
    /\ Moves(p, "check", "due")
    /\ UNCHANGED <<song, left, g_stop, tone, stopHistory>>

(* The head of a loop finds a note to play; only play_tetris() looks at    *)
(* g_stop.  A STOP that comes between this test and the note is not seen   *)
(* before the next one.                                                    *)
TestStop(p) ==
    /\ left[p] > 0
    /\ song[p] = "tetris" => ~g_stop
    /\ Moves(p, "check", "due")
    /\ UNCHANGED <<song, left, g_stop, tone, stopHistory>>

(* buzzer_beep() silences the PWM, whoever's note it plays, and sets the   *)
(* pitch ...                                                               *)
SetPitch(p) ==
    /\ Moves(p, "due", "pitched")
    /\ tone' = FALSE
    /\ UNCHANGED <<song, left, g_stop, stopHistory>>

(* ... starts the PWM, whatever STOP did in between ...                    *)
BeginNote(p) ==
    /\ Moves(p, "pitched", "sounding")
    /\ tone' = TRUE
    /\ encore' = [ encore EXCEPT ![p] = IF p \in condemned THEN @ + 1 ELSE @ ]
    /\ UNCHANGED <<song, left, g_stop, condemned>>

(* ... and silences it again, whoever's note it plays by now.              *)
EndNote(p) ==
    /\ Moves(p, "sounding", "check")
    /\ left' = [ left EXCEPT ![p] = @ - 1 ]
    /\ tone' = FALSE
    /\ UNCHANGED <<song, g_stop, stopHistory>>

(* A rest, which play_tetris()'s notes do not have.                        *)
Rest(p) ==
    /\ at[p] = "check" /\ song[p] = "other" /\ left[p] > 0
    /\ left' = [ left EXCEPT ![p] = @ - 1 ]
    /\ UNCHANGED <<at, song, g_stop, tone, stopHistory>>

(* The loop ends and the ioctl returns.                                    *)
EndSong(p) ==
    /\ left[p] = 0 \/ (song[p] = "tetris" /\ g_stop)
    /\ Moves(p, "check", "open")
    /\ left' = [ left EXCEPT ![p] = 0 ]
    /\ tone' = (tone /\ song[p] = "other")
    /\ condemned' = condemned \ {p}
    /\ encore' = [ encore EXCEPT ![p] = 0 ]
    /\ UNCHANGED <<song, g_stop>>

(* IOCTL_STOP.  A player that an earlier STOP has condemned stays so.      *)
SetStop(p) ==
    /\ Moves(p, "open", "stopping")
    /\ g_stop' = TRUE
    /\ condemned' = { q \in Players : InTetris(q) }
    /\ UNCHANGED <<song, left, tone, encore>>

Silence(p) ==
    /\ Moves(p, "stopping", "open")
    /\ tone' = FALSE
    /\ UNCHANGED <<song, left, g_stop, stopHistory>>

BuzzerStep(p) ==
    \/ ResetStop(p)
    \/ TestStop(p) \/ SetPitch(p) \/ BeginNote(p) \/ EndNote(p) \/ Rest(p) \/ EndSong(p)
    \/ Silence(p)

BuzzerCall(p) ==
    \/ CloseBuzzer(p)
    \/ \E melody \in {"tetris", "other"} : Play(p, melody)
    \/ SetStop(p)

-----------------------------------------------------------------------------
BuzzerTypeOK ==
    /\ at \in [ Players -> PlayerStages ]
    /\ song \in [ Players -> {"tetris", "other"} ]
    /\ left \in [ Players -> 0..Notes ]
    /\ g_stop \in BOOLEAN /\ tone \in BOOLEAN
    /\ condemned \subseteq Players
    /\ encore \in [ Players -> Nat ]

(* The buzzer sounds only while some process is inside a note: no order in *)
(* which players begin and end their notes, stop each other and end leaves *)
(* it on with nobody there to end it.                                      *)
SoundsOnlyInANote == tone => \E p \in Players : at[p] = "sounding"

(* A STOP ends the Tetris melodies it finds, but not at once: a player     *)
(* that has looked at the flag already begins the one note it looked for,  *)
(* after the STOP has silenced the PWM, and no player begins a second one, *)
(* unless another process begins Tetris, which takes the STOP back.  (The  *)
(* other melodies do not look at the flag at all.)                         *)
StopEndsTetris == \A p \in condemned : encore[p] <= 1

=============================================================================
