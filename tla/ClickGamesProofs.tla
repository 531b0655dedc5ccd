---------------------------- MODULE ClickGamesProofs ----------------------------
(***************************************************************************)
(* For any number of numbers, colours and rounds, and any length of a      *)
(* round: GamesInv.                                                        *)
(***************************************************************************)
EXTENDS ClickGames, SequenceTheorems, TLAPS

Waiting(kind) == shots[kind] = 1
Colours == mode = "colors"

(* What is displayed is a beginning of the sequence, one colour ahead of   *)
(* m_colorShowIndex while a colour is on.                                  *)
ShowFollows ==
    Colours =>
      /\ sequence \in ColorSequences
      /\ \A i \in 1..Len(shown) : shown[i] = sequence[i]
      /\ Waiting("show") => Len(shown) = showIndex
      /\ Waiting("hide") => Len(shown) = showIndex + 1
      /\ enabled => Len(shown) = RoundLength

(* The other modes have no chain of shots, and the last round closes the   *)
(* dialog at once.                                                         *)
OnlyColours == ~Colours => shots = NoShots /\ ~enabled
RoundsLeft == Colours /\ open => round < Rounds

GamesIInv ==
    /\ GamesInv
    /\ ShowFollows
    /\ OnlyColours
    /\ RoundsLeft

LEMMA Length ==
    ASSUME NEW s \in ColorSequences
    PROVE  Len(s) = RoundLength /\ s \in Seq(Colors)
BY GameConstants DEF ColorSequences

(* A whole show is the sequence.                                           *)
LEMMA WholeShow ==
    ASSUME NEW s \in ColorSequences, shown \in Seq(Colors), Len(shown) = RoundLength,
           \A i \in 1..Len(shown) : shown[i] = s[i]
    PROVE  shown = s
BY Length, SeqEqual

LEMMA GamesStart == Init => GamesIInv
<1> SUFFICES ASSUME Init PROVE GamesIInv
  OBVIOUS
<1>1. shots = [ k \in Shots |-> IF Colours /\ k = "show" THEN 1 ELSE 0 ]
  BY DEF Init, Post, NoShots, Shots, Colours
<1>2. TypeOK
  <2>1. /\ 1 \in 1..(LastNumber + 1) /\ 0 \in 0..MaxFlashes /\ 0 \in 0..Rounds /\ 0 \in 0..RoundLength
    BY GameConstants
  <2>2. shots \in [ Shots -> 0..1 ]
    BY <1>1
  <2>3. sequence \in ColorSequences \union {<<>>}
    BY DEF Init
  <2>4. shown \in Seq(Colors) /\ Len(shown) <= RoundLength
    BY GameConstants DEF Init
  <2>5. style \in [ Numbers -> {"plain", "red", "solved"} ] /\ flashes \in [ Numbers -> 0..MaxFlashes ]
    BY <2>1 DEF Init
  <2>6. QED
    BY <2>1, <2>2, <2>3, <2>4, <2>5 DEF Init, TypeOK
<1>3. SolvedAreBelowNext
  BY DEF Init, SolvedAreBelowNext, Numbers
<1>4. OneChain /\ AskedWhatWasShown
  BY <1>1 DEF Init, OneChain, AskedWhatWasShown, Colours, Shots
<1>5. ShowFollows
  BY <1>1 DEF Init, ShowFollows, Waiting, Colours, Shots
<1>6. OnlyColours /\ RoundsLeft
  BY <1>1, GameConstants DEF Init, OnlyColours, RoundsLeft, Colours, NoShots
<1>7. QED
  BY <1>2, <1>3, <1>4, <1>5, <1>6 DEF GamesIInv, GamesInv

-----------------------------------------------------------------------------
(* The steps.                                                              *)

LEMMA NumbersKeep ==
    ASSUME GamesIInv, NEW n \in Numbers, OnNumberClicked(n) \/ RestoreStyle(n)
    PROVE  GamesIInv'
<1> USE DEF GamesIInv, GamesInv, OnNumberClicked, RestoreStyle, RightNumber, WrongNumber, colorVars
<1>1. /\ n \in Nat /\ n >= 1 /\ n <= LastNumber /\ next \in Nat /\ next >= 1
      /\ LastNumber \in Nat /\ MaxFlashes \in Nat
      /\ \A m \in Numbers : m \in Nat
  BY GameConstants DEF Numbers, TypeOK
<1>2. UNCHANGED colorVars /\ mode' = mode /\ ready' \in BOOLEAN
  BY DEF TypeOK
<1>3. style' \in [ Numbers -> {"plain", "red", "solved"} ]
  BY DEF TypeOK
<1>4. flashes' \in [ Numbers -> 0..MaxFlashes ]
  BY <1>1 DEF TypeOK
<1>5. next' \in 1..(LastNumber + 1)
  <2>1. (next' = next + 1 /\ n = next) \/ next' = next
    OBVIOUS
  <2>2. QED
    BY <1>1, <2>1 DEF TypeOK
<1>x. open' \in BOOLEAN
  <2>1. open' = (next' <= LastNumber) \/ open' = open
    OBVIOUS
  <2>2. (next' <= LastNumber) \in BOOLEAN
    OBVIOUS
  <2>3. QED
    BY <2>1, <2>2 DEF TypeOK
<1>6. TypeOK'
  BY <1>2, <1>3, <1>4, <1>5, <1>x DEF TypeOK
<1>7. SolvedAreBelowNext'
  BY <1>1 DEF SolvedAreBelowNext, TypeOK
<1>8. open' => open
  BY DEF TypeOK
<1>9. /\ OneChain' /\ AskedWhatWasShown' /\ ShowFollows' /\ OnlyColours' /\ RoundsLeft'
  BY <1>2, <1>8 DEF OneChain, AskedWhatWasShown, ShowFollows, OnlyColours, RoundsLeft,
     Waiting, Colours
<1>10. QED
  BY <1>6, <1>7, <1>9

(* What the shots of the colour game say of one that is delivered.         *)
LEMMA Delivered ==
    ASSUME GamesIInv, open, NEW kind \in Shots, shots[kind] > 0
    PROVE  /\ Colours /\ ~enabled
           /\ shots = [ NoShots EXCEPT ![kind] = 1 ]
<1> USE DEF GamesIInv, GamesInv
<1>1. Colours
  BY DEF OnlyColours, NoShots
<1>2. /\ \A k \in Shots : shots[k] \in {0, 1}
      /\ DOMAIN shots = Shots
  BY DEF TypeOK
<1>3. ~enabled /\ shots[kind] = 1 /\ \A k \in Shots \ {kind} : shots[k] = 0
  BY <1>1, <1>2 DEF OneChain, Colours, Shots
<1>4. QED
  BY <1>1, <1>2, <1>3 DEF NoShots, TypeOK

(* The number game's variables and the mode stay when colours are shown.   *)
LEMMA ShotKeeps ==
    ASSUME GamesIInv, StartColorMemoryRound \/ ShowColorMemoryStep \/ HideColor
    PROVE  GamesIInv'
<1> USE DEF GamesIInv, GamesInv, numberVars
<1>n. RoundLength \in Nat /\ RoundLength >= 1
  BY GameConstants
<1>1. CASE StartColorMemoryRound
  <2>1. Colours /\ ~enabled /\ shots = [ NoShots EXCEPT !["round"] = 1 ]
    BY <1>1, Delivered DEF StartColorMemoryRound, Shots
  <2>2. round < Rounds /\ ~(round >= Rounds)
    BY <1>1, <2>1, GameConstants DEF StartColorMemoryRound, RoundsLeft, TypeOK
  <2>3. /\ sequence' \in ColorSequences /\ showIndex' = 0 /\ inputIndex' = 0
        /\ showing' = TRUE /\ enabled' = FALSE /\ shown' = <<>>
        /\ shots' = Post("show", [ shots EXCEPT !["round"] = @ - 1 ])
        /\ UNCHANGED <<open, mode, ready, next, style, flashes, round>>
    BY <1>1, <2>2 DEF StartColorMemoryRound
  <2>4. shots' = [ NoShots EXCEPT !["show"] = 1 ]
    BY <2>1, <2>3 DEF Post, NoShots, Shots
  <2>5. QED
    BY <1>n, <2>1, <2>3, <2>4 DEF TypeOK, SolvedAreBelowNext, OneChain, AskedWhatWasShown,
       ShowFollows, OnlyColours, RoundsLeft, Waiting, Colours, NoShots, Shots
<1>2. CASE ShowColorMemoryStep
  <2>1. Colours /\ ~enabled /\ shots = [ NoShots EXCEPT !["show"] = 1 ]
    BY <1>2, Delivered DEF ShowColorMemoryStep, Shots
  <2>2. /\ sequence \in ColorSequences /\ Len(sequence) = RoundLength
        /\ Len(shown) = showIndex /\ showIndex \in 0..RoundLength /\ shown \in Seq(Colors)
        /\ \A i \in 1..Len(shown) : shown[i] = sequence[i]
    BY <2>1, Length DEF ShowFollows, Waiting, NoShots, Shots, TypeOK
  <2>3. UNCHANGED <<mode, open, ready, next, style, flashes, round, sequence, showIndex>>
    BY <1>2 DEF ShowColorMemoryStep
  <2>4. CASE showIndex >= Len(sequence)
    <3>1. /\ showing' = FALSE /\ inputIndex' = 0 /\ enabled' = TRUE /\ shown' = shown
          /\ shots' = NoShots
      BY <1>2, <2>1, <2>4 DEF ShowColorMemoryStep, NoShots, Shots
    <3>2. shown = sequence /\ Len(shown) = RoundLength
      BY <1>n, <2>2, <2>4, WholeShow
    <3>3. TypeOK'
      <4>1. 0 \in 0..RoundLength /\ NoShots \in [ Shots -> 0..1 ]
        BY <1>n DEF NoShots, Shots
      <4>2. QED
        BY <2>3, <3>1, <4>1 DEF TypeOK
    <3>4. ShowFollows' /\ AskedWhatWasShown'
      BY <1>n, <2>1, <2>2, <2>3, <3>1, <3>2
         DEF ShowFollows, AskedWhatWasShown, Waiting, NoShots, Shots
    <3>5. SolvedAreBelowNext' /\ OneChain' /\ OnlyColours' /\ RoundsLeft'
      BY <2>1, <2>3, <3>1 DEF SolvedAreBelowNext, OneChain, OnlyColours, RoundsLeft,
         Colours, NoShots, Shots
    <3>6. QED
      BY <3>3, <3>4, <3>5
  <2>5. CASE ~(showIndex >= Len(sequence))
    <3>1. /\ shown' = Append(shown, sequence[showIndex + 1])
          /\ UNCHANGED <<showing, inputIndex, enabled>>
          /\ shots' = [ NoShots EXCEPT !["hide"] = 1 ]
      BY <1>2, <2>1, <2>5 DEF ShowColorMemoryStep, Post, NoShots, Shots
    <3>2. sequence[showIndex + 1] \in Colors
      BY <1>n, <2>2, <2>5 DEF ColorSequences
    <3>3. /\ shown' \in Seq(Colors) /\ Len(shown') = showIndex + 1 /\ Len(shown') <= RoundLength
          /\ \A i \in 1..Len(shown') : shown'[i] = sequence[i]
      BY <1>n, <2>2, <2>5, <3>1, <3>2
    <3>4. QED
      BY <1>n, <2>1, <2>2, <2>3, <3>1, <3>3 DEF TypeOK, SolvedAreBelowNext, OneChain,
         AskedWhatWasShown, ShowFollows, OnlyColours, RoundsLeft, Waiting, Colours, NoShots, Shots
  <2>6. QED
    BY <2>4, <2>5
<1>3. CASE HideColor
  <2>1. Colours /\ ~enabled /\ shots = [ NoShots EXCEPT !["hide"] = 1 ]
    BY <1>3, Delivered DEF HideColor, Shots
  <2>2. Len(shown) = showIndex + 1 /\ showIndex \in 0..RoundLength /\ Len(shown) <= RoundLength
    BY <2>1 DEF ShowFollows, Waiting, NoShots, Shots, TypeOK
  <2>3. /\ showIndex' = showIndex + 1 /\ showIndex' \in 0..RoundLength
        /\ shots' = [ NoShots EXCEPT !["show"] = 1 ]
        /\ UNCHANGED <<mode, open, ready, next, style, flashes, round, sequence, inputIndex,
                       showing, enabled, shown>>
    BY <1>3, <1>n, <2>1, <2>2 DEF HideColor, Post, NoShots, Shots
  <2>4. QED
    BY <1>n, <2>1, <2>2, <2>3 DEF TypeOK, SolvedAreBelowNext, OneChain,
       AskedWhatWasShown, ShowFollows, OnlyColours, RoundsLeft, Waiting, Colours, NoShots, Shots
<1>4. QED
  BY <1>1, <1>2, <1>3

LEMMA ColorKeeps ==
    ASSUME GamesIInv, NEW c \in Colors, OnColorClicked(c)
    PROVE  GamesIInv'
<1> USE DEF GamesIInv, GamesInv, numberVars
<1>n. RoundLength \in Nat /\ RoundLength >= 1 /\ Rounds \in Nat
  BY GameConstants
<1>1. /\ Colours /\ open /\ enabled
      /\ ready' = FALSE
      /\ UNCHANGED <<mode, next, style, flashes, sequence, showIndex, showing, shown>>
  BY DEF OnColorClicked, Colours
<1>2. shots = NoShots
  <2>1. \A k \in Shots : shots[k] = 0
    BY <1>1 DEF OneChain, Colours, Shots, TypeOK
  <2>2. QED
    BY <2>1 DEF NoShots, TypeOK
<1>3. sequence \in ColorSequences /\ Len(sequence) = RoundLength /\ round < Rounds
  BY <1>1, Length DEF ShowFollows, RoundsLeft
<1>4. \/ UNCHANGED <<round, inputIndex, enabled, shots, open>>
      \/ inputIndex < RoundLength /\ (RightColor(c) \/ WrongColor(c))
  <2>1. inputIndex \in Nat /\ (inputIndex >= RoundLength \/ inputIndex < RoundLength)
    BY <1>n DEF TypeOK
  <2>2. \/ UNCHANGED <<round, inputIndex, enabled, shots, open>>
        \/ ~(inputIndex >= RoundLength) /\ (RightColor(c) \/ WrongColor(c))
    BY <1>3 DEF OnColorClicked
  <2>3. QED
    BY <1>n, <2>1, <2>2
<1>5. /\ inputIndex' \in 0..RoundLength /\ round' \in 0..Rounds
      /\ open' \in BOOLEAN
      /\ open' => round' < Rounds
      /\ \/ UNCHANGED <<enabled, shots>>
         \/ enabled' = FALSE /\ shots' = [ NoShots EXCEPT !["round"] = 1 ]
  <2>1. CASE UNCHANGED <<round, inputIndex, enabled, shots, open>>
    BY <1>3, <2>1 DEF TypeOK
  <2>2. CASE inputIndex < RoundLength /\ WrongColor(c)
    BY <1>2, <1>3, <2>2 DEF WrongColor, Post, NoShots, Shots, TypeOK
  <2>3. CASE inputIndex < RoundLength /\ RightColor(c)
    <3>1. inputIndex' \in 0..RoundLength
      BY <1>n, <2>3 DEF RightColor, TypeOK
    <3>2. CASE RoundCleared
      <4>1. round' = round + 1 /\ round' \in 0..Rounds
        BY <1>n, <1>3, <3>2 DEF RoundCleared, TypeOK
      <4>2. /\ open' \in BOOLEAN /\ (open' => round' < Rounds)
            /\ \/ UNCHANGED <<enabled, shots>>
               \/ enabled' = FALSE /\ shots' = [ NoShots EXCEPT !["round"] = 1 ]
        <5>1. CASE round + 1 >= Rounds
          BY <3>2, <5>1 DEF RoundCleared
        <5>2. CASE ~(round + 1 >= Rounds)
          <6>1. enabled' = FALSE /\ shots' = Post("round", shots) /\ open' = open
            BY <3>2, <5>2 DEF RoundCleared
          <6>2. shots' = [ NoShots EXCEPT !["round"] = 1 ]
            BY <1>2, <6>1 DEF Post, NoShots, Shots
          <6>3. round' < Rounds
            BY <1>n, <1>3, <4>1, <5>2 DEF TypeOK
          <6>4. QED
            BY <1>1, <6>1, <6>2, <6>3
        <5>3. QED
          BY <5>1, <5>2
      <4>3. QED
        BY <3>1, <4>1, <4>2
    <3>3. CASE UNCHANGED <<round, enabled, shots, open>>
      BY <1>3, <3>1, <3>3 DEF TypeOK
    <3>4. QED
      BY <2>3, <3>2, <3>3 DEF RightColor
  <2>4. QED
    BY <1>4, <2>1, <2>2, <2>3
<1>6. TypeOK'
  <2>0. [ NoShots EXCEPT !["round"] = 1 ] \in [ Shots -> 0..1 ]
    BY DEF NoShots, Shots
  <2>1. shots' \in [ Shots -> 0..1 ] /\ enabled' \in BOOLEAN
    BY <1>5, <2>0 DEF TypeOK
  <2>2. QED
    BY <1>1, <1>5, <2>1 DEF TypeOK
<1>7. SolvedAreBelowNext' /\ AskedWhatWasShown'
  BY <1>1, <1>5 DEF SolvedAreBelowNext, AskedWhatWasShown
<1>8. OneChain' /\ OnlyColours' /\ RoundsLeft'
  <2>1. CASE UNCHANGED <<enabled, shots>>
    BY <1>1, <1>2, <1>5, <2>1 DEF OneChain, OnlyColours, RoundsLeft, Colours, NoShots, Shots
  <2>2. CASE enabled' = FALSE /\ shots' = [ NoShots EXCEPT !["round"] = 1 ]
    BY <1>1, <1>5, <2>2 DEF OneChain, OnlyColours, RoundsLeft, Colours, NoShots, Shots
  <2>3. QED
    BY <1>5, <2>1, <2>2
<1>9. ShowFollows'
  BY <1>1, <1>2, <1>5 DEF ShowFollows, Waiting, Colours, NoShots, Shots
<1>10. QED
  BY <1>6, <1>7, <1>8, <1>9

LEMMA GamesStep == GamesIInv /\ [Next]_vars => GamesIInv'
<1> SUFFICES ASSUME GamesIInv, [Next]_vars PROVE GamesIInv'
  OBVIOUS
<1>1. CASE Debounced \/ ClickDismiss \/ Reject
  <2>1. /\ UNCHANGED <<mode, numberVars, colorVars>>
        /\ open' \in BOOLEAN /\ ready' \in BOOLEAN /\ (open' => open)
    BY <1>1 DEF Debounced, ClickDismiss, Reject, GamesIInv, GamesInv, TypeOK
  <2>2. QED
    BY <2>1 DEF GamesIInv, GamesInv, TypeOK, SolvedAreBelowNext, OneChain, AskedWhatWasShown,
       ShowFollows, OnlyColours, RoundsLeft, Waiting, Colours, numberVars, colorVars
<1>2. CASE UNCHANGED vars
  BY <1>2 DEF vars, GamesIInv, GamesInv, TypeOK, SolvedAreBelowNext, OneChain,
     AskedWhatWasShown, ShowFollows, OnlyColours, RoundsLeft, Waiting, Colours,
     numberVars, colorVars
<1>3. QED
  BY <1>1, <1>2, NumbersKeep, ShotKeeps, ColorKeeps DEF Next, Returned

(* The games keep GamesInv, whatever their sizes.                          *)
THEOREM GamesCorrect == Spec => []GamesInv
<1>1. GamesIInv => GamesInv
  BY DEF GamesIInv
<1>2. QED
  BY <1>1, GamesStart, GamesStep, PTL DEF Spec

-----------------------------------------------------------------------------
(* The dialog closes in the step that meets the last thing asked for.      *)
ClosedWhenDone == Asked \in Nat /\ Asked <= LastNumber + Rounds /\ (~open <=> Asked = 0)

(* How a step is one of the challenge: nothing changes, or one thing less  *)
(* is asked for.                                                           *)
LEMMA OneLess ==
    ASSUME ClosedWhenDone, Asked' = Asked - 1, Asked > 0, ~open' <=> Asked' = 0
    PROVE  ClosedWhenDone' /\ [Abstract!ChallengeNext]_(Abstract!challengeVars)
<1>1. ClosedWhenDone'
  BY GameConstants DEF ClosedWhenDone
<1>2. (~open)' \in {FALSE, Asked' = 0}
  BY Zenon
<1>3. Abstract!Meet
  BY <1>2, Zenon DEF Abstract!Meet
<1>4. QED
  BY <1>1, <1>3 DEF Abstract!ChallengeNext

LEMMA NothingMet ==
    ASSUME ClosedWhenDone, UNCHANGED <<mode, open, next, round>>
    PROVE  ClosedWhenDone' /\ [Abstract!ChallengeNext]_(Abstract!challengeVars)
<1>1. Asked' = Asked /\ open' = open
  BY DEF Asked
<1>2. QED
  BY <1>1 DEF ClosedWhenDone, Abstract!challengeVars

LEMMA NumberMeets ==
    ASSUME GamesIInv, ClosedWhenDone, NEW n \in Numbers, OnNumberClicked(n)
    PROVE  ClosedWhenDone' /\ [Abstract!ChallengeNext]_(Abstract!challengeVars)
<1>1. mode = "numbers" /\ mode' = mode /\ open = TRUE /\ round' = round /\ next \in Nat
  BY GameConstants DEF OnNumberClicked, colorVars, GamesIInv, GamesInv, TypeOK
<1>2. Asked = LastNumber + 1 - next /\ Asked' = LastNumber + 1 - next'
  BY <1>1 DEF Asked
<1>3. CASE RightNumber(n)
  <2>1. next' = next + 1 /\ (~open' <=> ~(next + 1 <= LastNumber))
    BY <1>3 DEF RightNumber
  <2>2. Asked' = Asked - 1 /\ Asked > 0
    BY <1>1, <1>2, <2>1, GameConstants DEF ClosedWhenDone
  <2>3. ~open' <=> Asked' = 0
    BY <1>1, <1>2, <2>1, <2>2, GameConstants DEF ClosedWhenDone
  <2>4. QED
    BY <2>2, <2>3, OneLess
<1>4. CASE WrongNumber(n)
  BY <1>1, <1>4, NothingMet DEF WrongNumber
<1>5. QED
  BY <1>3, <1>4 DEF OnNumberClicked

LEMMA ColorMeets ==
    ASSUME GamesIInv, ClosedWhenDone, NEW c \in Colors, OnColorClicked(c)
    PROVE  ClosedWhenDone' /\ [Abstract!ChallengeNext]_(Abstract!challengeVars)
<1>1. mode = "colors" /\ mode' = mode /\ open = TRUE /\ next' = next /\ round \in Nat
  BY GameConstants DEF OnColorClicked, numberVars, GamesIInv, GamesInv, TypeOK
<1>2. Asked = Rounds - round /\ Asked' = Rounds - round'
  BY <1>1 DEF Asked
<1>3. CASE RoundCleared
  <2>1. round' = round + 1 /\ (~open' <=> round + 1 >= Rounds)
    BY <1>1, <1>3 DEF RoundCleared
  <2>2. Asked' = Asked - 1 /\ Asked > 0
    BY <1>1, <1>2, <2>1, GameConstants DEF ClosedWhenDone
  <2>3. ~open' <=> Asked' = 0
    BY <1>1, <1>2, <2>1, <2>2, GameConstants DEF ClosedWhenDone
  <2>4. QED
    BY <2>2, <2>3, OneLess
<1>4. CASE ~RoundCleared
  <2>1. round' = round /\ open' = open
    BY <1>4 DEF OnColorClicked, RightColor, WrongColor
  <2>2. QED
    BY <1>1, <2>1, NothingMet
<1>5. QED
  BY <1>3, <1>4

LEMMA SimpleMeets ==
    ASSUME ClosedWhenDone, GamesIInv, ClickDismiss \/ Reject
    PROVE  ClosedWhenDone' /\ [Abstract!ChallengeNext]_(Abstract!challengeVars)
<1>1. mode = "simple" /\ mode' = "simple" /\ open = TRUE /\ open' = FALSE
  BY DEF ClickDismiss, Reject, GamesIInv, GamesInv, TypeOK
<1>2. Asked = 1 /\ Asked' = 0
  BY <1>1 DEF Asked
<1>3. QED
  BY <1>1, <1>2, OneLess

(* The dialog implements the safety part of Challenge, for any sizes of    *)
(* the games: numbers or rounds are met one at a time, none is lost, and   *)
(* the dialog closes with the last.                                        *)
THEOREM GamesMeetChallenge ==
    Spec => Abstract!ChallengeInit /\ [][Abstract!ChallengeNext]_(Abstract!challengeVars)
<1>1. Init => Abstract!ChallengeInit /\ ClosedWhenDone
  <2> SUFFICES ASSUME Init PROVE Abstract!ChallengeInit /\ ClosedWhenDone
    OBVIOUS
  <2>1. /\ open = TRUE /\ next = 1 /\ round = 0
        /\ mode \in {"simple", "numbers", "colors"}
    BY DEF Init
  <2>2. Asked \in 1..(LastNumber + Rounds)
    BY <2>1, GameConstants DEF Asked
  <2>3. (~open) = FALSE
    BY <2>1
  <2>4. Abstract!ChallengeInit
    BY <2>2, <2>3, Zenon DEF Abstract!ChallengeInit
  <2>5. QED
    BY <2>1, <2>2, <2>4, GameConstants DEF ClosedWhenDone
<1>2. GamesIInv /\ ClosedWhenDone /\ [Next]_vars
      => ClosedWhenDone' /\ [Abstract!ChallengeNext]_(Abstract!challengeVars)
  <2> SUFFICES ASSUME GamesIInv, ClosedWhenDone, [Next]_vars
               PROVE  ClosedWhenDone' /\ [Abstract!ChallengeNext]_(Abstract!challengeVars)
    OBVIOUS
  <2>1. CASE ClickDismiss \/ Reject
    BY <2>1, SimpleMeets
  <2>2. CASE \E n \in Numbers : OnNumberClicked(n)
    BY <2>2, NumberMeets
  <2>3. CASE \E c \in Colors : OnColorClicked(c)
    BY <2>3, ColorMeets
  <2>4. CASE StartColorMemoryRound
    <3>1. round < Rounds
      BY <2>4 DEF StartColorMemoryRound, GamesIInv, RoundsLeft, OnlyColours, NoShots, Shots
    <3>2. ~(round >= Rounds)
      BY <3>1, GameConstants DEF GamesIInv, GamesInv, TypeOK
    <3>3. UNCHANGED <<mode, open, next, round>>
      BY <2>4, <3>2 DEF StartColorMemoryRound, numberVars
    <3>4. QED
      BY <3>3, NothingMet
  <2>5. CASE \/ Debounced \/ ShowColorMemoryStep \/ HideColor \/ Returned
             \/ (\E n \in Numbers : RestoreStyle(n)) \/ UNCHANGED vars
    <3>1. UNCHANGED <<mode, open, next, round>>
      BY <2>5 DEF Debounced, ShowColorMemoryStep, HideColor, Returned, RestoreStyle, vars,
         numberVars, colorVars
    <3>2. QED
      BY <3>1, NothingMet
  <2>6. QED
    BY <2>1, <2>2, <2>3, <2>4, <2>5 DEF Next
<1>3. QED
  BY <1>1, <1>2, GamesStart, GamesStep, PTL DEF Spec
=============================================================================
