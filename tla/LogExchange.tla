----------------------------- MODULE LogExchange -----------------------------
(***************************************************************************)
(* Two alarm clocks that look at each other's dismissal log: the client    *)
(* (connectAndShow() of app/mainwindow.cpp and fetchFromFriend() of        *)
(* app/statdialog.cpp) and the server every clock runs                     *)
(* (startAlarmServer()).                                                   *)
(*                                                                         *)
(* Both live in the one main thread of their clock.  A client waits in a   *)
(* nested event loop, so its clock goes on serving; a dismissal may open   *)
(* its dialog on top of that loop, which cannot return before it; and at   *)
(* the end of a dismissal the thread is blocked for a while (waiting for   *)
(* the sound player or the camera thread) and handles no event at all.     *)
(* A log or a photo is a sequence of pieces 1, 2, ...; a record is two     *)
(* pieces long, since TCP may cut it anywhere.                             *)
(***************************************************************************)
EXTENDS Naturals, Sequences

CONSTANTS
    Clocks,         \* two of them
    MaxRecords      \* bound: records in a log

ASSUME ExchangeConstants ==
    /\ \E a, b \in Clocks : a # b /\ Clocks = {a, b}
    /\ MaxRecords \in Nat

Peer(d) == CHOOSE p \in Clocks : p # d

RecordPieces == 2
PhotoPieces == 1
Pieces == 1..(RecordPieces * MaxRecords + PhotoPieces)
Fin == 0
UpTo(n) == [ i \in 1..n |-> i ]

VARIABLES
    main,       \* the main thread, see MainStages
    records,    \* how many records alarm.txt has
    fetch,      \* the client, see FetchStages
    want,       \* what it asks for: "log" or "photo"
    shown,      \* the pieces the statistics dialog shows, or NoDialog
    link,       \* its connection, see LinkStages
    connected,  \* connected() was delivered
    quit,       \* loop.quit() has been called for the loop it is in
    data,       \* the pieces it has received
    request,    \* how much of the request line has arrived: 0, 1 or 2 (all)
    wire,       \* pieces, and at last Fin, under way to the client
    asked,      \* history: pieces of what it asked for when it was served
    cut         \* history: the connection broke, or the timer stopped a loop

clientVars == <<fetch, want, shown, connected, quit, data>>
netVars == <<link, request, wire>>
vars == <<main, records, clientVars, netVars, asked, cut>>

(* In some event loop of its own; in a dismiss dialog above it; blocked.   *)
MainStages == {"free", "dismissing", "blocked"}
(* Not fetching; in the first loop; in the second loop; an alert is shown. *)
FetchStages == {"idle", "connecting", "receiving", "alert"}
(* None; SYN sent; established; closed by the server; refused or dead.     *)
LinkStages == {"none", "opening", "open", "closed", "dead"}

NoDialog == <<Fin>>

Init ==
    /\ main = [ d \in Clocks |-> "free" ]
    /\ records \in [ Clocks -> 0..MaxRecords ]
    /\ fetch = [ d \in Clocks |-> "idle" ]
    /\ want = [ d \in Clocks |-> "log" ]
    /\ shown = [ d \in Clocks |-> NoDialog ]
    /\ link = [ d \in Clocks |-> "none" ]
    /\ connected = [ d \in Clocks |-> FALSE ]
    /\ quit = [ d \in Clocks |-> FALSE ]
    /\ data = [ d \in Clocks |-> <<>> ]
    /\ request = [ d \in Clocks |-> 0 ]
    /\ wire = [ d \in Clocks |-> <<>> ]
    /\ asked = [ d \in Clocks |-> 0 ]
    /\ cut = [ d \in Clocks |-> FALSE ]

Alive(d) == main[d] # "blocked"

-----------------------------------------------------------------------------
(* The clock itself.                                                       *)

Ring(d) ==
    /\ main[d] = "free" /\ records[d] < MaxRecords
    /\ main' = [ main EXCEPT ![d] = "dismissing" ]
    /\ UNCHANGED <<records, clientVars, netVars, asked, cut>>

(* The dialog is closed and the dismissal is logged; the thread waits for  *)
(* the player.                                                             *)
Dismiss(d) ==
    /\ main[d] = "dismissing"
    /\ main' = [ main EXCEPT ![d] = "blocked" ]
    /\ records' = [ records EXCEPT ![d] = @ + 1 ]
    /\ UNCHANGED <<clientVars, netVars, asked, cut>>

WaitEnds(d) ==
    /\ main[d] = "blocked"
    /\ main' = [ main EXCEPT ![d] = "free" ]
    /\ UNCHANGED <<records, clientVars, netVars, asked, cut>>

-----------------------------------------------------------------------------
(* The client.                                                             *)

(* View in the friend list, or Refresh or a photo's View in the dialog:    *)
(* connectToHost() and the first loop.                                     *)
StartFetch(d, what) ==
    /\ main[d] = "free" /\ fetch[d] = "idle"
    /\ what = "photo" => shown[d] \notin {NoDialog, <<>>}
    /\ fetch' = [ fetch EXCEPT ![d] = "connecting" ]
    /\ want' = [ want EXCEPT ![d] = what ]
    /\ link' = [ link EXCEPT ![d] = "opening" ]
    /\ connected' = [ connected EXCEPT ![d] = FALSE ]
    /\ quit' = [ quit EXCEPT ![d] = FALSE ]
    /\ data' = [ data EXCEPT ![d] = <<>> ]
    /\ request' = [ request EXCEPT ![d] = 0 ]
    /\ wire' = [ wire EXCEPT ![d] = <<>> ]
    /\ asked' = [ asked EXCEPT ![d] = 0 ]
    /\ cut' = [ cut EXCEPT ![d] = FALSE ]
    /\ UNCHANGED <<main, records, shown>>

(* connected() quits the first loop.  (The socket's error signal is not    *)
(* connected to anything: a refusal is noticed by the timer.)              *)
OnConnected(d) ==
    /\ Alive(d) /\ fetch[d] = "connecting" /\ link[d] = "open"
    /\ ~connected[d]
    /\ connected' = [ connected EXCEPT ![d] = TRUE ]
    /\ quit' = [ quit EXCEPT ![d] = TRUE ]
    /\ UNCHANGED <<main, records, fetch, want, shown, data, netVars, asked, cut>>

(* The 5 s timer of either loop.                                           *)
OnTimeout(d) ==
    /\ Alive(d) /\ fetch[d] \in {"connecting", "receiving"} /\ ~quit[d]
    /\ quit' = [ quit EXCEPT ![d] = TRUE ]
    /\ cut' = [ cut EXCEPT ![d] = TRUE ]
    /\ UNCHANGED <<main, records, fetch, want, shown, connected, data, netVars, asked>>

(* What a fetch ends with: connectAndShow() opens the dialog or an alert,  *)
(* Refresh shows whatever came, a photo leaves the dialog as it is.        *)
Finish(d, received) ==
    LET viewed == shown[d] = NoDialog IN
    /\ fetch' = [ fetch EXCEPT ![d] =
                    IF viewed /\ received = <<>> THEN "alert" ELSE "idle" ]
    /\ shown' = [ shown EXCEPT ![d] =
                    IF want[d] = "photo" \/ (viewed /\ received = <<>>)
                    THEN @ ELSE received ]
    /\ link' = [ link EXCEPT ![d] = "none" ]
    /\ quit' = [ quit EXCEPT ![d] = FALSE ]

(* The first loop returns.  Under a dismissal connected() may be delivered *)
(* after the timer has quit the loop; then the fetch goes on all the same. *)
FirstLoopReturns(d) ==
    /\ main[d] = "free" /\ fetch[d] = "connecting" /\ quit[d]
    /\ IF connected[d]
       THEN /\ fetch' = [ fetch EXCEPT ![d] = "receiving" ]
            /\ quit' = [ quit EXCEPT ![d] = (link[d] = "dead") ]
            /\ cut' = [ cut EXCEPT ![d] = (link[d] = "dead") ]
            /\ UNCHANGED <<link, shown>>
       ELSE Finish(d, <<>>) /\ UNCHANGED cut
    /\ UNCHANGED <<main, records, want, connected, data, request, wire, asked>>

(* readyRead(): also while a dismissal keeps the loop from returning.      *)
OnReadyRead(d) ==
    /\ Alive(d) /\ fetch[d] = "receiving"
    /\ wire[d] # <<>> /\ Head(wire[d]) # Fin
    /\ data' = [ data EXCEPT ![d] = Append(@, Head(wire[d])) ]
    /\ wire' = [ wire EXCEPT ![d] = Tail(@) ]
    /\ UNCHANGED <<main, records, fetch, want, shown, connected, quit, link, request, asked, cut>>

(* disconnected() quits the second loop: the server has closed and all it  *)
(* sent is read, or the connection is dead.                                *)
OnDisconnected(d) ==
    /\ Alive(d) /\ fetch[d] = "receiving" /\ ~quit[d]
    /\ wire[d] = <<Fin>> \/ link[d] = "dead"
    /\ quit' = [ quit EXCEPT ![d] = TRUE ]
    /\ UNCHANGED <<main, records, fetch, want, shown, connected, data, netVars, asked, cut>>

(* The second loop returns.                                                *)
SecondLoopReturns(d) ==
    /\ main[d] = "free" /\ fetch[d] = "receiving" /\ quit[d]
    /\ Finish(d, data[d])
    /\ UNCHANGED <<main, records, want, connected, data, request, wire, asked, cut>>

(* The alert, or the statistics dialog, is closed.                         *)
CloseAlert(d) ==
    /\ main[d] = "free" /\ fetch[d] = "alert"
    /\ fetch' = [ fetch EXCEPT ![d] = "idle" ]
    /\ UNCHANGED <<main, records, want, shown, connected, quit, data, netVars, asked, cut>>

CloseDialog(d) ==
    /\ main[d] = "free" /\ fetch[d] = "idle" /\ shown[d] # NoDialog
    /\ shown' = [ shown EXCEPT ![d] = NoDialog ]
    /\ UNCHANGED <<main, records, fetch, want, connected, quit, data, netVars, asked, cut>>

-----------------------------------------------------------------------------
(* The network and the server at the other end.                            *)

(* The kernel answers for a server that listens, even a blocked one.       *)
Handshake(d) ==
    /\ link[d] = "opening"
    /\ \E up \in BOOLEAN : link' = [ link EXCEPT ![d] = IF up THEN "open" ELSE "dead" ]
    /\ UNCHANGED <<main, records, clientVars, request, wire, asked, cut>>

RequestArrives(d) ==
    /\ link[d] = "open" /\ fetch[d] = "receiving" /\ request[d] < 2
    /\ request' = [ request EXCEPT ![d] = @ + 1 ]
    /\ UNCHANGED <<main, records, clientVars, link, wire, asked, cut>>

(* The file the command names, as it is now; a photo may be gone.          *)
Payloads(d) ==
    IF want[d] = "log" THEN {RecordPieces * records[Peer(d)]} ELSE {0, PhotoPieces}

\* Mutant of Serve: the server does not wait for the whole line, and has
\* nothing to say to half a command.
ServeHalfLine(d) ==
    /\ Alive(Peer(d))
    /\ link[d] = "open" /\ request[d] > 0
    /\ \E n \in IF request[d] = 2 THEN Payloads(d) ELSE {0} :
          /\ wire' = [ wire EXCEPT ![d] = UpTo(n) \o <<Fin>> ]
          /\ asked' = [ asked EXCEPT ![d] = IF request[d] = 2 THEN n ELSE RecordPieces * records[Peer(d)] ]
    /\ link' = [ link EXCEPT ![d] = "closed" ]
    /\ UNCHANGED <<main, records, clientVars, request, cut>>

\* Mutant of Serve: a clock that waits for its friend does not serve.
ServeWhenIdle(d) ==
    /\ Alive(Peer(d)) /\ fetch[Peer(d)] = "idle"
    /\ link[d] = "open" /\ request[d] = 2
    /\ \E n \in Payloads(d) :
          /\ wire' = [ wire EXCEPT ![d] = UpTo(n) \o <<Fin>> ]
          /\ asked' = [ asked EXCEPT ![d] = n ]
    /\ link' = [ link EXCEPT ![d] = "closed" ]
    /\ UNCHANGED <<main, records, clientVars, request, cut>>

(* The slot on readyRead() of the server's socket: nothing before the line *)
(* is whole; then the payload is written and the connection closed.        *)
Serve(d) ==
    /\ Alive(Peer(d))
    /\ link[d] = "open" /\ request[d] = 2
    /\ \E n \in Payloads(d) :
          /\ wire' = [ wire EXCEPT ![d] = UpTo(n) \o <<Fin>> ]
          /\ asked' = [ asked EXCEPT ![d] = n ]
    /\ link' = [ link EXCEPT ![d] = "closed" ]
    /\ UNCHANGED <<main, records, clientVars, request, cut>>

(* The connection breaks; what is under way is lost.                       *)
Break(d) ==
    /\ link[d] \in {"open", "closed"} /\ wire[d] # <<Fin>>
    /\ link' = [ link EXCEPT ![d] = "dead" ]
    /\ wire' = [ wire EXCEPT ![d] = <<>> ]
    /\ cut' = [ cut EXCEPT ![d] = TRUE ]
    /\ UNCHANGED <<main, records, clientVars, request, asked>>

Next ==
    \E d \in Clocks :
        \/ Ring(d) \/ Dismiss(d) \/ WaitEnds(d)
        \/ \E what \in {"log", "photo"} : StartFetch(d, what)
        \/ OnConnected(d) \/ OnTimeout(d) \/ FirstLoopReturns(d)
        \/ OnReadyRead(d) \/ OnDisconnected(d) \/ SecondLoopReturns(d)
        \/ CloseAlert(d) \/ CloseDialog(d)
        \/ Handshake(d) \/ RequestArrives(d) \/ Serve(d) \/ Break(d)

(* Each main thread handles its events, the network delivers.  The timer   *)
(* is only counted on where nothing else can come; nobody has to dismiss.  *)
Fairness ==
    \A d \in Clocks :
        /\ WF_vars(WaitEnds(d))
        /\ WF_vars(Handshake(d)) /\ WF_vars(RequestArrives(d)) /\ WF_vars(Serve(d))
        /\ WF_vars(OnConnected(d)) /\ WF_vars(OnReadyRead(d)) /\ WF_vars(OnDisconnected(d))
        /\ WF_vars(link[d] = "dead" /\ OnTimeout(d))
        /\ WF_vars(FirstLoopReturns(d)) /\ WF_vars(SecondLoopReturns(d))

Spec == Init /\ [][Next]_vars /\ Fairness

-----------------------------------------------------------------------------
(* Type invariant.                                                         *)
TypeOK ==
    /\ main \in [ Clocks -> MainStages ]
    /\ records \in [ Clocks -> 0..MaxRecords ]
    /\ fetch \in [ Clocks -> FetchStages ]
    /\ want \in [ Clocks -> {"log", "photo"} ]
    /\ shown \in [ Clocks -> Seq(Pieces) \union {NoDialog} ]
    /\ connected \in [ Clocks -> BOOLEAN ]
    /\ link \in [ Clocks -> LinkStages ]
    /\ quit \in [ Clocks -> BOOLEAN ]
    /\ data \in [ Clocks -> Seq(Pieces) ]
    /\ request \in [ Clocks -> 0..2 ]
    /\ wire \in [ Clocks -> Seq(Pieces \union {Fin}) ]
    /\ asked \in [ Clocks -> 0..(RecordPieces * MaxRecords) ]
    /\ cut \in [ Clocks -> BOOLEAN ]

(* The statistics dialog shows a beginning of the friend's log and nothing *)
(* else: no piece twice, none out of order, none that was never there.     *)
ShownIsPrefix ==
    \A d \in Clocks : shown[d] # NoDialog =>
        /\ shown[d] = UpTo(Len(shown[d]))
        /\ Len(shown[d]) <= RecordPieces * records[Peer(d)]

(* A fetch that ends without its timer and without a broken connection has *)
(* all its friend had when it was asked, however the friend's answer was   *)
(* cut into pieces and whatever both clocks did meanwhile.  (After the     *)
(* timer a part is shown as if it were all.)                               *)
CompleteUnlessCut ==
    \A d \in Clocks : fetch[d] = "receiving" /\ quit[d] /\ ~cut[d] =>
        link[d] = "closed" /\ data[d] = UpTo(asked[d])

(* What holds of both clocks at every moment: what is received and shown   *)
(* is a beginning of the friend's log, and all of it unless the timer or   *)
(* the network cut it.                                                     *)
ExchangeInv ==
    /\ TypeOK
    /\ ShownIsPrefix
    /\ CompleteUnlessCut

(* Every fetch ends, unless the user leaves an alarm ringing above it.     *)
FetchEnds ==
    \A d \in Clocks :
        fetch[d] \in {"connecting", "receiving"}
            ~> fetch[d] \in {"idle", "alert"} \/ main[d] = "dismissing"
=============================================================================
