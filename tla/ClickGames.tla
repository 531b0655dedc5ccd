------------------------------ MODULE ClickGames ------------------------------
(***************************************************************************)
(* The dismiss dialog's modes that are played on the screen                *)
(* (app/dismissdialog.cpp): Simple, with one button; the number-order      *)
(* game; and the colour-memory game, which shows a sequence with a chain   *)
(* of single shots and asks for it back.                                   *)
(*                                                                         *)
(* The red flash of a wrong number and the steps of the colour game are    *)
(* QTimer::singleShot calls, and they are delivered in any order here.     *)
(***************************************************************************)
EXTENDS Naturals, Sequences

CONSTANTS
    LastNumber,     \* 25 in the code
    Colors,         \* four in the code
    RoundLength,    \* roundLengths[]: four in the code
    Rounds,         \* three in the code
    MaxFlashes      \* bound: flashes of one number not restored yet

ASSUME GameConstants ==
    /\ LastNumber \in Nat \ {0} /\ RoundLength \in Nat \ {0}
    /\ Rounds \in Nat \ {0} /\ MaxFlashes \in Nat
    /\ Colors # {}

Numbers == 1..LastNumber
ColorSequences == [ 1..RoundLength -> Colors ]
Shots == {"show", "hide", "round"}
NoShots == [ k \in Shots |-> 0 ]

VARIABLES
    mode,       \* "simple", "numbers" or "colors"
    open,       \* exec() has not returned
    ready,      \* m_actionTimer.elapsed() >= 300
    next,       \* m_nextExpected
    style,      \* per number button: "plain", "red" or "solved" (disabled)
    flashes,    \* per number: its singleShot(350) calls not delivered yet
    round,      \* m_colorRound
    sequence,   \* m_colorSequence
    showIndex,  \* m_colorShowIndex
    inputIndex, \* m_colorInputIndex
    showing,    \* m_showingSequence
    enabled,    \* the four colour buttons are enabled
    shots,      \* single shots not delivered: showColorMemoryStep(), its
                \* lambda, startColorMemoryRound()
    shown       \* history: the colours displayed in this round

numberVars == <<next, style, flashes>>
colorVars == <<round, sequence, showIndex, inputIndex, showing, enabled, shots, shown>>
vars == <<mode, open, ready, numberVars, colorVars>>

Post(kind, pending) == [ pending EXCEPT ![kind] = @ + 1 ]

(* The constructor; buildColorMemoryGameUi() starts the first round.       *)
Init ==
    /\ mode \in {"simple", "numbers", "colors"}
    /\ open = TRUE
    /\ ready = FALSE
    /\ next = 1
    /\ style = [ n \in Numbers |-> "plain" ]
    /\ flashes = [ n \in Numbers |-> 0 ]
    /\ round = 0
    /\ sequence \in IF mode = "colors" THEN ColorSequences ELSE {<<>>}
    /\ showIndex = 0
    /\ inputIndex = 0
    /\ showing = (mode = "colors")
    /\ enabled = FALSE
    /\ shots = IF mode = "colors" THEN Post("show", NoShots) ELSE NoShots
    /\ shown = <<>>

Debounced ==
    /\ open /\ ~ready
    /\ ready' = TRUE
    /\ UNCHANGED <<mode, open, numberVars, colorVars>>

-----------------------------------------------------------------------------
(* Simple mode.                                                            *)

ClickDismiss ==
    /\ mode = "simple" /\ open /\ ready
    /\ ready' = FALSE
    /\ open' = FALSE
    /\ UNCHANGED <<mode, numberVars, colorVars>>

(* closeEvent() and reject() let the dialog close, in this mode only.      *)
Reject ==
    /\ mode = "simple" /\ open
    /\ open' = FALSE
    /\ UNCHANGED <<mode, ready, numberVars, colorVars>>

-----------------------------------------------------------------------------
(* The number-order game: onNumberClicked().                               *)

\* Mutant of RightNumber: the dialog closes when the last number is asked for.
RightNumberClosesEarly(n) ==
    /\ n = next
    /\ style' = [ style EXCEPT ![n] = "solved" ]
    /\ next' = next + 1
    /\ open' = (next' < LastNumber)
    /\ UNCHANGED flashes

RightNumber(n) ==
    /\ n = next
    /\ style' = [ style EXCEPT ![n] = "solved" ]
    /\ next' = next + 1
    /\ open' = (next' <= LastNumber)
    /\ UNCHANGED flashes

WrongNumber(n) ==
    /\ n # next
    /\ flashes[n] < MaxFlashes
    /\ style' = [ style EXCEPT ![n] = "red" ]
    /\ flashes' = [ flashes EXCEPT ![n] = @ + 1 ]
    /\ UNCHANGED <<next, open>>

(* A solved number's button is disabled and takes no click.                *)
OnNumberClicked(n) ==
    /\ mode = "numbers" /\ open /\ ready
    /\ style[n] # "solved"
    /\ ready' = FALSE
    /\ RightNumber(n) \/ WrongNumber(n)
    /\ UNCHANGED <<mode, colorVars>>

\* Mutant of RestoreStyle: whether the number has been solved since is not
\* looked at.
RestoreAlways(n) ==
    /\ open /\ flashes[n] > 0
    /\ flashes' = [ flashes EXCEPT ![n] = @ - 1 ]
    /\ style' = [ style EXCEPT ![n] = "plain" ]
    /\ UNCHANGED <<mode, open, ready, next, colorVars>>

(* The lambda of the 350 ms single shot.                                   *)
RestoreStyle(n) ==
    /\ open /\ flashes[n] > 0
    /\ flashes' = [ flashes EXCEPT ![n] = @ - 1 ]
    /\ style' = [ style EXCEPT ![n] = IF @ = "solved" THEN @ ELSE "plain" ]
    /\ UNCHANGED <<mode, open, ready, next, colorVars>>

-----------------------------------------------------------------------------
(* The colour-memory game.                                                 *)

(* startColorMemoryRound()                                                 *)
StartColorMemoryRound ==
    /\ open /\ shots["round"] > 0
    /\ IF round >= Rounds
       THEN /\ open' = FALSE
            /\ shots' = [ shots EXCEPT !["round"] = @ - 1 ]
            /\ UNCHANGED <<sequence, showIndex, inputIndex, showing, enabled, shown>>
       ELSE /\ sequence' \in ColorSequences
            /\ showIndex' = 0
            /\ inputIndex' = 0
            /\ showing' = TRUE
            /\ enabled' = FALSE
            /\ shots' = Post("show", [ shots EXCEPT !["round"] = @ - 1 ])
            /\ shown' = <<>>
            /\ UNCHANGED open
    /\ UNCHANGED <<mode, ready, numberVars, round>>

(* showColorMemoryStep(): the next colour, or the end of the show.         *)
ShowColorMemoryStep ==
    /\ open /\ shots["show"] > 0
    /\ IF showIndex >= Len(sequence)
       THEN /\ showing' = FALSE
            /\ inputIndex' = 0
            /\ enabled' = TRUE
            /\ shots' = [ shots EXCEPT !["show"] = @ - 1 ]
            /\ UNCHANGED shown
       ELSE /\ shown' = Append(shown, sequence[showIndex + 1])
            /\ shots' = Post("hide", [ shots EXCEPT !["show"] = @ - 1 ])
            /\ UNCHANGED <<showing, inputIndex, enabled>>
    /\ UNCHANGED <<mode, open, ready, numberVars, round, sequence, showIndex>>

(* The lambda of the 700 ms single shot: the colour goes off.              *)
HideColor ==
    /\ open /\ shots["hide"] > 0
    /\ showIndex' = showIndex + 1
    /\ shots' = Post("show", [ shots EXCEPT !["hide"] = @ - 1 ])
    /\ UNCHANGED <<mode, open, ready, numberVars, round, sequence, inputIndex,
                   showing, enabled, shown>>

(* The last colour of the sequence ends the round, or the game.            *)
RoundCleared ==
    /\ round' = round + 1
    /\ IF round + 1 >= Rounds
       THEN open' = FALSE /\ UNCHANGED <<enabled, shots>>
       ELSE enabled' = FALSE /\ shots' = Post("round", shots) /\ UNCHANGED open

RightColor(c) ==
    /\ c = sequence[inputIndex + 1]
    /\ inputIndex' = inputIndex + 1
    /\ IF inputIndex' = Len(sequence) THEN RoundCleared
       ELSE UNCHANGED <<round, enabled, shots, open>>

\* Mutant of WrongColor: nothing restarts the round.
WrongColorNoRetry(c) ==
    /\ c # sequence[inputIndex + 1]
    /\ enabled' = FALSE
    /\ UNCHANGED <<round, inputIndex, open, shots>>

WrongColor(c) ==
    /\ c # sequence[inputIndex + 1]
    /\ enabled' = FALSE
    /\ shots' = Post("round", shots)
    /\ UNCHANGED <<round, inputIndex, open>>

(* onColorClicked(): the debounce is restarted before the rest is looked   *)
(* at; a disabled button takes no click.                                   *)
OnColorClicked(c) ==
    /\ mode = "colors" /\ open /\ enabled /\ ready
    /\ ready' = FALSE
    /\ IF showing \/ inputIndex >= Len(sequence)
       THEN UNCHANGED <<round, inputIndex, enabled, shots, open>>
       ELSE RightColor(c) \/ WrongColor(c)
    /\ UNCHANGED <<mode, numberVars, sequence, showIndex, showing, shown>>

-----------------------------------------------------------------------------
(* exec() has returned.                                                    *)
Returned == ~open /\ UNCHANGED vars

Next ==
    \/ Debounced
    \/ ClickDismiss \/ Reject
    \/ \E n \in Numbers : OnNumberClicked(n) \/ RestoreStyle(n)
    \/ StartColorMemoryRound \/ ShowColorMemoryStep \/ HideColor
    \/ \E c \in Colors : OnColorClicked(c)
    \/ Returned

(* Time passes and single shots are delivered while exec() runs.  Nobody   *)
(* has to play.                                                            *)
Fairness ==
    /\ WF_vars(Debounced)
    /\ \A n \in Numbers : WF_vars(RestoreStyle(n))
    /\ WF_vars(StartColorMemoryRound) /\ WF_vars(ShowColorMemoryStep)
    /\ WF_vars(HideColor)

Spec == Init /\ [][Next]_vars /\ Fairness

-----------------------------------------------------------------------------
(* Type invariant; the indices stay inside the sequence.                   *)
TypeOK ==
    /\ mode \in {"simple", "numbers", "colors"}
    /\ open \in BOOLEAN /\ ready \in BOOLEAN
    /\ next \in 1..(LastNumber + 1)
    /\ style \in [ Numbers -> {"plain", "red", "solved"} ]
    /\ flashes \in [ Numbers -> 0..MaxFlashes ]
    /\ round \in 0..Rounds
    /\ sequence \in ColorSequences \union {<<>>}
    /\ showIndex \in 0..RoundLength /\ inputIndex \in 0..RoundLength
    /\ showing \in BOOLEAN /\ enabled \in BOOLEAN
    /\ shots \in [ Shots -> 0..1 ]
    /\ shown \in Seq(Colors) /\ Len(shown) <= RoundLength

(* A number that was solved while its red flash was still on stays solved: *)
(* the late single shot that ends the flash leaves it alone.  The solved   *)
(* ones are always those below the one asked for, so it can be pressed.    *)
SolvedAreBelowNext ==
    \A n \in Numbers : style[n] = "solved" <=> n < next

(* In the colour game either the buttons take input and nothing is         *)
(* pending, or they do not and exactly one single shot is: two chains of   *)
(* timers never show two sequences at once, and the game never stops.      *)
OneChain ==
    mode = "colors" /\ open =>
        shots["show"] + shots["hide"] + shots["round"] = (IF enabled THEN 0 ELSE 1)

(* The player is asked for a sequence that was displayed in full, in order *)
(* and once, also when the round was started over.                         *)
AskedWhatWasShown == enabled /\ mode = "colors" => shown = sequence

(* What holds of the games at every moment, late single shots              *)
(* notwithstanding: solved numbers stay solved, there is one chain of      *)
(* shots, and the sequence asked for is the one that was shown.            *)
GamesInv ==
    /\ TypeOK
    /\ SolvedAreBelowNext
    /\ OneChain
    /\ AskedWhatWasShown

(* After every show and every wrong colour the player gets a turn.         *)
PlayerGetsATurn == mode = "colors" ~> (enabled \/ ~open)

Asked == CASE mode = "simple"  -> IF open THEN 1 ELSE 0
           [] mode = "numbers" -> LastNumber + 1 - next
           [] mode = "colors"  -> Rounds - round

(* The dialog closes when every number, or every round, is done and not    *)
(* before; a cleared round is not lost again.                              *)
Abstract == INSTANCE Challenge WITH
    MaxSteps <- LastNumber + Rounds,
    left <- Asked,
    won <- ~open

MeetsChallenge == Abstract!ChallengeSpec
=============================================================================
