--------------------------- MODULE LogExchangeProofs ---------------------------
(***************************************************************************)
(* For two clocks with logs of any length: what one shows of the other's   *)
(* log is a beginning of it, and all of it unless the timer or the network *)
(* cut the answer.                                                         *)
(***************************************************************************)
EXTENDS LogExchange, TLAPS

-----------------------------------------------------------------------------
(* The inductive invariant.                                                *)

(* What has been received is the first pieces of the answer, in order.     *)
InOrder(d) ==
    /\ data[d] = UpTo(Len(data[d]))
    /\ Len(data[d]) <= asked[d]

(* What is under way is the rest of the answer, and then Fin.              *)
Ahead(d) ==
    /\ Len(data[d]) + Len(wire[d]) = asked[d] + 1
    /\ \A i \in 1..Len(wire[d]) :
         wire[d][i] = IF Len(data[d]) + i <= asked[d] THEN Len(data[d]) + i ELSE Fin

Connecting(d) ==
    /\ link[d] \in {"opening", "open", "dead"}
    /\ connected[d] => link[d] # "opening"
    /\ data[d] = << >> /\ wire[d] = << >> /\ request[d] = 0 /\ asked[d] = 0

Receiving(d) ==
    /\ link[d] \in {"open", "closed", "dead"}
    /\ InOrder(d)
    /\ want[d] = "log" => asked[d] <= RecordPieces * records[Peer(d)]
    /\ link[d] = "open" => data[d] = << >> /\ wire[d] = << >> /\ asked[d] = 0
    /\ link[d] = "closed" => Ahead(d)
    /\ link[d] = "dead" => cut[d] /\ wire[d] = << >>
    /\ quit[d] /\ ~cut[d] => link[d] = "closed" /\ wire[d] = <<Fin>>

ShownOK(d) ==
    shown[d] # NoDialog =>
        /\ shown[d] = UpTo(Len(shown[d]))
        /\ Len(shown[d]) <= RecordPieces * records[Peer(d)]

FetchInv(d) ==
    /\ ShownOK(d)
    /\ want[d] = "photo" => MaxRecords > 0
    /\ fetch[d] \in {"idle", "alert"} => link[d] = "none"
    /\ fetch[d] = "connecting" => Connecting(d)
    /\ fetch[d] = "receiving" => Receiving(d)

(* How the pieces of an answer are spread over its two ends at each stage  *)
(* of a fetch; only a dead connection or the timer ends it early.          *)
ExchangeInd ==
    /\ TypeOK
    /\ \A d \in Clocks : main[d] = "dismissing" => records[d] < MaxRecords
    /\ \A d \in Clocks : FetchInv(d)

-----------------------------------------------------------------------------
(* The pieces of an answer.                                                *)

(* Each clock has another one as its peer.                                 *)
LEMMA PeerIsClock == \A d \in Clocks : Peer(d) \in Clocks /\ Peer(d) # d
BY ExchangeConstants DEF Peer

(* The first n pieces of an answer, in order.                              *)
LEMMA UpToType ==
  ASSUME NEW n \in Nat
  PROVE  UpTo(n) \in Seq(1..n) /\ Len(UpTo(n)) = n /\ \A i \in 1..n : UpTo(n)[i] = i
BY DEF UpTo

(* The first none of them.                                                 *)
LEMMA UpToEmpty == UpTo(0) = << >>
BY DEF UpTo

(* The next piece continues them.                                          *)
LEMMA UpToNext ==
  ASSUME NEW n \in Nat
  PROVE  Append(UpTo(n), n + 1) = UpTo(n + 1)
<1>1. UpTo(n) \in Seq(Nat) /\ Len(UpTo(n)) = n
  BY DEF UpTo
<1>2. Append(UpTo(n), n + 1) \in Seq(Nat) /\ UpTo(n + 1) \in Seq(Nat)
  BY <1>1 DEF UpTo
<1>3. Len(Append(UpTo(n), n + 1)) = Len(UpTo(n + 1))
  BY <1>1 DEF UpTo
<1>4. \A i \in 1..(n + 1) : Append(UpTo(n), n + 1)[i] = UpTo(n + 1)[i]
  BY <1>1 DEF UpTo
<1>5. QED
  BY <1>1, <1>2, <1>3, <1>4 DEF UpTo

(* What is left of an answer when a piece of it has been read.             *)
LEMMA RestOfAnswer ==
  ASSUME NEW S, NEW w \in Seq(S), NEW n \in Nat, NEW a \in Nat, Len(w) \in Nat \ {0},
         n + Len(w) = a + 1,
         \A i \in 1..Len(w) : w[i] = IF n + i <= a THEN n + i ELSE Fin
  PROVE  /\ (n + 1) + Len(Tail(w)) = a + 1
         /\ \A i \in 1..Len(Tail(w)) :
              Tail(w)[i] = IF (n + 1) + i <= a THEN (n + 1) + i ELSE Fin
<1>1. /\ Len(Tail(w)) = Len(w) - 1
      /\ \A i \in 1..(Len(w) - 1) : Tail(w)[i] = w[i + 1]
  OBVIOUS
<1>2. ASSUME NEW i \in 1..(Len(w) - 1)
      PROVE  Tail(w)[i] = IF (n + 1) + i <= a THEN (n + 1) + i ELSE Fin
  <2>1. i + 1 \in 1..Len(w) /\ n + (i + 1) = (n + 1) + i
    OBVIOUS
  <2>2. w[i + 1] = IF n + (i + 1) <= a THEN n + (i + 1) ELSE Fin
    BY <2>1
  <2>3. QED
    BY <1>1, <2>1, <2>2
<1>3. QED
  BY <1>1, <1>2

(* The inductive invariant implies the one that is checked.                *)
LEMMA ExchangeFacts ==
  ASSUME ExchangeInd
  PROVE  ExchangeInv
<1>1. ShownIsPrefix
  BY DEF ExchangeInd, FetchInv, ShownOK, ShownIsPrefix
<1>2. ASSUME NEW d \in Clocks, fetch[d] = "receiving", quit[d], ~cut[d]
      PROVE  link[d] = "closed" /\ data[d] = UpTo(asked[d])
  <2>1. Receiving(d)
    BY <1>2 DEF ExchangeInd, FetchInv
  <2>2. link[d] = "closed" /\ wire[d] = <<Fin>> /\ Ahead(d) /\ InOrder(d)
    BY <1>2, <2>1 DEF Receiving
  <2>3. Len(data[d]) \in Nat /\ asked[d] \in Nat /\ Len(wire[d]) = 1
    BY <2>2 DEF ExchangeInd, TypeOK
  <2>4. QED
    BY <2>2, <2>3 DEF Ahead, InOrder
<1>3. CompleteUnlessCut
  BY <1>2 DEF CompleteUnlessCut
<1>4. QED
  BY <1>1, <1>3 DEF ExchangeInv, ExchangeInd

(* At first nobody fetches.                                                *)
LEMMA ExchangeInit == Init => ExchangeInd
<1> SUFFICES ASSUME Init PROVE ExchangeInd
  OBVIOUS
<1>1. TypeOK
  BY ExchangeConstants DEF Init, TypeOK, MainStages, FetchStages, LinkStages, NoDialog, RecordPieces
<1>2. ASSUME NEW d \in Clocks PROVE FetchInv(d)
  BY DEF Init, FetchInv, ShownOK
<1>3. \A d \in Clocks : main[d] # "dismissing"
  BY DEF Init
<1>4. QED
  BY <1>1, <1>2, <1>3 DEF ExchangeInd

-----------------------------------------------------------------------------
(* Each step.                                                              *)

(* A fetch is not touched by what does not concern it; its friend's log    *)
(* only grows.                                                             *)
LEMMA Untouched ==
  ASSUME ExchangeInd, NEW d \in Clocks, FetchInv(d),
         records \in [ Clocks -> Nat ], records' \in [ Clocks -> Nat ],
         \A p \in Clocks : records[p] <= records'[p],
         fetch'[d] = fetch[d], want'[d] = want[d], shown'[d] = shown[d], link'[d] = link[d],
         connected'[d] = connected[d], quit'[d] = quit[d], data'[d] = data[d],
         request'[d] = request[d], wire'[d] = wire[d], asked'[d] = asked[d], cut'[d] = cut[d]
  PROVE  FetchInv(d)'
<1>1. Peer(d) \in Clocks
  BY PeerIsClock
<1>2. Peer(d)' = Peer(d)
  BY DEF Peer
<1>3. RecordPieces * records[Peer(d)] <= RecordPieces * records'[Peer(d)]
  BY <1>1 DEF RecordPieces
<1>4. RecordPieces * records[Peer(d)] \in Nat /\ RecordPieces * records'[Peer(d)] \in Nat
  BY <1>1 DEF RecordPieces
<1>5. asked[d] \in Nat /\ (shown[d] # NoDialog => Len(shown[d]) \in Nat)
  BY DEF ExchangeInd, TypeOK
<1>6. ShownOK(d)'
  BY <1>3, <1>4, <1>5 DEF FetchInv, ShownOK
<1>7. fetch[d] = "receiving" => Receiving(d)'
  <2>1. InOrder(d)' <=> InOrder(d)
    BY DEF InOrder
  <2>2. Ahead(d)' <=> Ahead(d)
    BY DEF Ahead
  <2>3. asked[d] <= RecordPieces * records[Peer(d)] => asked[d] <= RecordPieces * records'[Peer(d)]
    BY <1>3, <1>4, <1>5
  <2>4. Receiving(d) => Receiving(d)'
    BY <2>1, <2>2, <2>3 DEF Receiving
  <2>5. QED
    BY <2>4 DEF FetchInv
<1>8. fetch[d] = "connecting" => Connecting(d)'
  BY DEF FetchInv, Connecting
<1>9. QED
  BY <1>6, <1>7, <1>8 DEF FetchInv

(* A handler of clock d, of its connection or of the server's end of it.   *)
LEMMA FetchStep ==
  ASSUME ExchangeInd, NEW d \in Clocks, TypeOK', FetchInv(d)', UNCHANGED <<main, records>>,
         \A e \in Clocks \ {d} :
           /\ fetch'[e] = fetch[e] /\ want'[e] = want[e] /\ shown'[e] = shown[e]
           /\ link'[e] = link[e] /\ connected'[e] = connected[e] /\ quit'[e] = quit[e]
           /\ data'[e] = data[e] /\ request'[e] = request[e] /\ wire'[e] = wire[e]
           /\ asked'[e] = asked[e] /\ cut'[e] = cut[e]
  PROVE  ExchangeInd'
<1>1. records \in [ Clocks -> Nat ] /\ records' \in [ Clocks -> Nat ]
  BY DEF ExchangeInd, TypeOK
<1>2. ASSUME NEW e \in Clocks PROVE FetchInv(e)'
  <2>1. CASE e = d
    BY <2>1
  <2>2. CASE e # d
    <3>1. FetchInv(e) /\ \A p \in Clocks : records[p] <= records'[p]
      BY <1>1 DEF ExchangeInd
    <3>2. e \in Clocks \ {d}
      BY <2>2
    <3>3. QED
      BY <1>1, <3>1, <3>2, Untouched
  <2>3. QED
    BY <2>1, <2>2
<1>3. QED
  BY <1>2 DEF ExchangeInd

(* The clock's own alarms leave every fetch alone.                         *)
LEMMA AlarmStep ==
  ASSUME ExchangeInd, NEW d \in Clocks, Ring(d) \/ Dismiss(d) \/ WaitEnds(d)
  PROVE  ExchangeInd'
<1>1. /\ main \in [ Clocks -> MainStages ] /\ records \in [ Clocks -> 0..MaxRecords ]
      /\ MaxRecords \in Nat
      /\ \A p \in Clocks : main[p] = "dismissing" => records[p] < MaxRecords
  BY ExchangeConstants DEF ExchangeInd, TypeOK
<1>2. UNCHANGED <<fetch, want, shown, connected, quit, data, link, request, wire, asked, cut>>
  BY DEF Ring, Dismiss, WaitEnds, clientVars, netVars
<1>3. main' \in [ Clocks -> MainStages ]
  BY <1>1 DEF Ring, Dismiss, WaitEnds, MainStages
<1>4. /\ records' \in [ Clocks -> 0..MaxRecords ]
      /\ \A p \in Clocks : records[p] <= records'[p]
      /\ \A p \in Clocks : main'[p] = "dismissing" => records'[p] < MaxRecords
  BY <1>1 DEF Ring, Dismiss, WaitEnds, MainStages
<1>5. TypeOK'
  BY <1>2, <1>3, <1>4 DEF ExchangeInd, TypeOK
<1>6. ASSUME NEW e \in Clocks PROVE FetchInv(e)'
  <2>1. FetchInv(e) /\ records \in [ Clocks -> Nat ] /\ records' \in [ Clocks -> Nat ]
    BY <1>1, <1>4 DEF ExchangeInd
  <2>2. QED
    BY <1>2, <1>4, <2>1, Untouched
<1>7. QED
  BY <1>4, <1>5, <1>6 DEF ExchangeInd

(* A fetch begins with its connection and an empty buffer.                 *)
LEMMA Start ==
  ASSUME ExchangeInd, NEW d \in Clocks, NEW what \in {"log", "photo"}, StartFetch(d, what)
  PROVE  ExchangeInd'
<1> USE DEF ExchangeInd
<1>1. TypeOK /\ FetchInv(d) /\ Peer(d) \in Clocks
  BY PeerIsClock
<1>2. TypeOK'
  <2>1. << >> \in Seq(Pieces) /\ << >> \in Seq(Pieces \union {Fin})
        /\ 0 \in 0..(RecordPieces * MaxRecords)
    BY ExchangeConstants DEF RecordPieces
  <2>2. /\ fetch' \in [ Clocks -> FetchStages ] /\ want' \in [ Clocks -> {"log", "photo"} ]
        /\ link' \in [ Clocks -> LinkStages ] /\ connected' \in [ Clocks -> BOOLEAN ]
        /\ quit' \in [ Clocks -> BOOLEAN ] /\ cut' \in [ Clocks -> BOOLEAN ]
    BY <1>1 DEF TypeOK, StartFetch, FetchStages, LinkStages
  <2>3. /\ data' \in [ Clocks -> Seq(Pieces) ] /\ request' \in [ Clocks -> 0..2 ]
        /\ wire' \in [ Clocks -> Seq(Pieces \union {Fin}) ]
        /\ asked' \in [ Clocks -> 0..(RecordPieces * MaxRecords) ]
    BY <1>1, <2>1 DEF TypeOK, StartFetch
  <2>4. QED
    BY <1>1, <2>2, <2>3 DEF TypeOK, StartFetch
<1>3. /\ fetch'[d] = "connecting" /\ want'[d] = what /\ link'[d] = "opening"
      /\ ~connected'[d] /\ ~quit'[d] /\ data'[d] = << >> /\ request'[d] = 0
      /\ wire'[d] = << >> /\ asked'[d] = 0 /\ shown'[d] = shown[d] /\ UNCHANGED <<main, records>>
  BY <1>1 DEF TypeOK, StartFetch
<1>4. what = "photo" => MaxRecords > 0
  <2> SUFFICES ASSUME what = "photo" PROVE MaxRecords > 0
    OBVIOUS
  <2>1. shown[d] # NoDialog /\ shown[d] # << >>
    BY DEF StartFetch
  <2>2. shown[d] \in Seq(Pieces) /\ Len(shown[d]) # 0 /\ Len(shown[d]) \in Nat
    BY <1>1, <2>1 DEF TypeOK
  <2>3. Len(shown[d]) <= RecordPieces * records[Peer(d)]
    BY <1>1, <2>1 DEF FetchInv, ShownOK
  <2>4. records[Peer(d)] \in 0..MaxRecords /\ MaxRecords \in Nat
    BY <1>1, ExchangeConstants DEF TypeOK
  <2>5. QED
    BY <2>2, <2>3, <2>4 DEF RecordPieces
<1>5. ShownOK(d)'
  BY <1>1, <1>3 DEF FetchInv, ShownOK, Peer
<1>6. Connecting(d)'
  BY <1>3 DEF Connecting
<1>7. FetchInv(d)'
  BY <1>3, <1>4, <1>5, <1>6 DEF FetchInv
<1>8. QED
  BY <1>2, <1>3, <1>7, FetchStep DEF StartFetch, TypeOK

(* Events that open the connection, carry the request or end a wait move   *)
(* no piece of an answer.                                                  *)
LEMMA OpenOrEnd ==
  ASSUME ExchangeInd, NEW d \in Clocks,
         OnConnected(d) \/ OnTimeout(d) \/ OnDisconnected(d) \/ Handshake(d) \/ RequestArrives(d)
  PROVE  ExchangeInd'
<1> USE DEF ExchangeInd
<1>1. TypeOK /\ FetchInv(d) /\ UNCHANGED <<main, records, fetch, want, shown, data, wire, asked>>
  BY DEF OnConnected, OnTimeout, OnDisconnected, Handshake, RequestArrives, netVars, clientVars
<1>2. TypeOK'
  <2>1. connected' \in [ Clocks -> BOOLEAN ] /\ quit' \in [ Clocks -> BOOLEAN ]
        /\ cut' \in [ Clocks -> BOOLEAN ]
    BY <1>1 DEF TypeOK, OnConnected, OnTimeout, OnDisconnected, Handshake, RequestArrives, clientVars
  <2>2. link' \in [ Clocks -> LinkStages ]
    <3>1. CASE Handshake(d)
      BY <1>1, <3>1 DEF TypeOK, Handshake, LinkStages
    <3>2. CASE UNCHANGED link
      BY <1>1, <3>2 DEF TypeOK
    <3>3. QED
      BY <3>1, <3>2 DEF OnConnected, OnTimeout, OnDisconnected, RequestArrives, netVars
  <2>3. request' \in [ Clocks -> 0..2 ]
    <3>1. CASE RequestArrives(d)
      <4>1. request \in [ Clocks -> 0..2 ]
        BY <1>1 DEF TypeOK
      <4>2. request[d] < 2 /\ request' = [ request EXCEPT ![d] = request[d] + 1 ]
        BY <3>1 DEF RequestArrives
      <4>3. request[d] + 1 \in 0..2
        BY <4>1, <4>2
      <4>4. QED
        BY <4>1, <4>2, <4>3
    <3>2. CASE UNCHANGED request
      BY <1>1, <3>2 DEF TypeOK
    <3>3. QED
      BY <3>1, <3>2 DEF OnConnected, OnTimeout, OnDisconnected, Handshake, netVars
  <2>4. QED
    BY <1>1, <2>1, <2>2, <2>3 DEF TypeOK
<1>3. ShownOK(d)' /\ (InOrder(d) => InOrder(d)') /\ (Ahead(d) => Ahead(d)')
  BY <1>1 DEF FetchInv, ShownOK, InOrder, Ahead, Peer
<1>4. fetch[d] = "connecting" => Connecting(d)'
  BY <1>1 DEF FetchInv, Connecting, TypeOK, OnConnected, OnTimeout, OnDisconnected, Handshake,
              RequestArrives, netVars, clientVars
<1>5. fetch[d] = "receiving" => Receiving(d)'
  <2> SUFFICES ASSUME fetch[d] = "receiving" PROVE Receiving(d)'
    OBVIOUS
  <2>1. Receiving(d)
    BY <1>1 DEF FetchInv
  <2>2. CASE OnTimeout(d)
    BY <1>1, <1>3, <2>1, <2>2 DEF Receiving, TypeOK, OnTimeout, netVars, Peer
  <2>3. CASE OnDisconnected(d)
    <3>1. <<Fin>> # << >>
      OBVIOUS
    <3>2. /\ UNCHANGED <<link, cut, request>>
          /\ wire[d] = <<Fin>> \/ link[d] = "dead"
      BY <2>3 DEF OnDisconnected, netVars
    <3>3. ~cut[d] => link[d] = "closed" /\ wire[d] = <<Fin>>
      BY <2>1, <3>1, <3>2 DEF Receiving
    <3>4. QED
      BY <1>1, <1>3, <2>1, <3>2, <3>3 DEF Receiving, Peer
  <2>4. CASE RequestArrives(d)
    BY <1>1, <1>3, <2>1, <2>4 DEF Receiving, TypeOK, RequestArrives, clientVars, Peer
  <2>5. CASE Handshake(d)
    BY <2>1, <2>5 DEF Receiving, Handshake
  <2>6. CASE OnConnected(d)
    BY <2>6 DEF OnConnected
  <2>7. QED
    BY <2>2, <2>3, <2>4, <2>5, <2>6
<1>6. fetch[d] \in {"idle", "alert"} => link'[d] = "none"
  BY <1>1 DEF FetchInv, TypeOK, OnConnected, OnTimeout, OnDisconnected, Handshake, RequestArrives,
              netVars, clientVars
<1>7. FetchInv(d)'
  BY <1>1, <1>3, <1>4, <1>5, <1>6 DEF FetchInv
<1>8. QED
  BY <1>1, <1>2, <1>7, FetchStep DEF TypeOK, OnConnected, OnTimeout, OnDisconnected, Handshake,
     RequestArrives, netVars, clientVars

(* A piece of the answer moves from the connection to the client.          *)
LEMMA ReadStep ==
  ASSUME ExchangeInd, NEW d \in Clocks, OnReadyRead(d)
  PROVE  ExchangeInd'
<1> USE DEF ExchangeInd
<1> DEFINE n == Len(data[d])
<1>1. /\ TypeOK /\ FetchInv(d) /\ Receiving(d) /\ fetch[d] = "receiving"
      /\ wire[d] # << >> /\ Head(wire[d]) # Fin
      /\ UNCHANGED <<main, records, fetch, want, shown, connected, quit, link, request, asked, cut>>
  BY DEF OnReadyRead, FetchInv
<1>2. /\ data[d] \in Seq(Pieces) /\ wire[d] \in Seq(Pieces \union {Fin})
      /\ n \in Nat /\ Len(wire[d]) \in Nat \ {0} /\ asked[d] \in Nat
  BY <1>1 DEF TypeOK
<1>3. link[d] = "closed" /\ Ahead(d) /\ InOrder(d)
  BY <1>1 DEF Receiving
<1>4. Head(wire[d]) = wire[d][1]
  BY <1>2
<1>5. n + 1 <= asked[d] /\ Head(wire[d]) = n + 1 /\ Head(wire[d]) \in Pieces
  <2>1. wire[d][1] = IF n + 1 <= asked[d] THEN n + 1 ELSE Fin
    BY <1>2, <1>3 DEF Ahead
  <2>2. wire[d][1] \in Pieces \union {Fin}
    BY <1>2
  <2>3. QED
    BY <1>1, <1>4, <2>1, <2>2
<1>6. data'[d] = Append(data[d], n + 1) /\ wire'[d] = Tail(wire[d])
  BY <1>1, <1>5 DEF TypeOK, OnReadyRead
<1>7. /\ data' = [ data EXCEPT ![d] = Append(data[d], n + 1) ]
      /\ wire' = [ wire EXCEPT ![d] = Tail(wire[d]) ]
  BY <1>5 DEF OnReadyRead
<1>8. /\ Append(data[d], n + 1) \in Seq(Pieces) /\ Len(Append(data[d], n + 1)) = n + 1
      /\ Tail(wire[d]) \in Seq(Pieces \union {Fin})
      /\ Len(Tail(wire[d])) = Len(wire[d]) - 1
      /\ \A i \in 1..(Len(wire[d]) - 1) : Tail(wire[d])[i] = wire[d][i + 1]
  BY <1>1, <1>2, <1>5
<1>9. TypeOK'
  BY <1>1, <1>7, <1>8 DEF TypeOK
<1>10. InOrder(d)'
  <2>1. Append(data[d], n + 1) = UpTo(n + 1)
    BY <1>2, <1>3, UpToNext DEF InOrder
  <2>2. QED
    BY <1>1, <1>5, <1>6, <1>8, <2>1 DEF InOrder
<1>11. Ahead(d)'
  <2>1. /\ n + Len(wire[d]) = asked[d] + 1
        /\ \A i \in 1..Len(wire[d]) : wire[d][i] = IF n + i <= asked[d] THEN n + i ELSE Fin
    BY <1>3 DEF Ahead
  <2> HIDE DEF n
  <2>2. /\ (n + 1) + Len(Tail(wire[d])) = asked[d] + 1
        /\ \A i \in 1..Len(Tail(wire[d])) :
             Tail(wire[d])[i] = IF (n + 1) + i <= asked[d] THEN (n + 1) + i ELSE Fin
    BY <1>2, <2>1, RestOfAnswer
  <2>3. Len(data'[d]) = n + 1 /\ asked'[d] = asked[d] /\ wire'[d] = Tail(wire[d])
    BY <1>1, <1>6, <1>8
  <2> HIDE DEF ExchangeInd
  <2>4. QED
    BY <2>2, <2>3, Zenon DEF Ahead
<1>12. Receiving(d)'
  <2>1. quit[d] /\ ~cut[d] => wire[d] = <<Fin>>
    BY <1>1 DEF Receiving
  <2>2. ~(quit[d] /\ ~cut[d])
    BY <1>1, <2>1
  <2>3. QED
    BY <1>1, <1>3, <1>10, <1>11, <2>2 DEF Receiving, Peer
<1>13. FetchInv(d)'
  BY <1>1, <1>12 DEF FetchInv, ShownOK, Peer
<1>14. QED
  BY <1>1, <1>7, <1>9, <1>13, FetchStep DEF TypeOK

(* A loop returns: the fetch goes on, or its result is shown.              *)
LEMMA LoopReturns ==
  ASSUME ExchangeInd, NEW d \in Clocks, FirstLoopReturns(d) \/ SecondLoopReturns(d)
  PROVE  ExchangeInd'
<1> USE DEF ExchangeInd
<1>1. /\ TypeOK /\ FetchInv(d) /\ Peer(d) \in Clocks
      /\ UNCHANGED <<main, records, want, connected, data, request, wire, asked>>
  BY PeerIsClock DEF FirstLoopReturns, SecondLoopReturns
<1>2. CASE FirstLoopReturns(d) /\ connected[d]
  <2>1. /\ Connecting(d) /\ link[d] \in {"open", "dead"}
    BY <1>1, <1>2 DEF FirstLoopReturns, FetchInv, Connecting
  <2>2. /\ fetch' = [ fetch EXCEPT ![d] = "receiving" ]
        /\ quit' = [ quit EXCEPT ![d] = (link[d] = "dead") ]
        /\ cut' = [ cut EXCEPT ![d] = (link[d] = "dead") ]
        /\ UNCHANGED <<link, shown>>
    BY <1>2 DEF FirstLoopReturns
  <2>3. fetch' \in [ Clocks -> FetchStages ] /\ fetch'[d] = "receiving"
    BY <1>1, <2>2 DEF TypeOK, FetchStages
  <2>4. /\ quit' \in [ Clocks -> BOOLEAN ] /\ cut' \in [ Clocks -> BOOLEAN ]
        /\ quit'[d] = (link[d] = "dead") /\ cut'[d] = (link[d] = "dead")
    BY <1>1, <2>2 DEF TypeOK
  <2>5. TypeOK'
    BY <1>1, <2>2, <2>3, <2>4 DEF TypeOK
  <2>6. InOrder(d)' /\ asked'[d] = 0
    BY <1>1, <2>1, UpToEmpty DEF Connecting, InOrder
  <2>7. 0 <= RecordPieces * records[Peer(d)]
    BY <1>1 DEF TypeOK, RecordPieces
  <2>8. Receiving(d)'
    BY <1>1, <2>1, <2>2, <2>4, <2>6, <2>7 DEF Receiving, Connecting, Peer
  <2>9. FetchInv(d)'
    BY <1>1, <2>2, <2>3, <2>8 DEF FetchInv, ShownOK, Peer
  <2>10. QED
    BY <1>1, <2>2, <2>5, <2>9, FetchStep DEF TypeOK
<1>3. ASSUME NEW received \in Seq(Pieces), Finish(d, received), UNCHANGED cut,
             want[d] = "log" => /\ received = UpTo(Len(received))
                                /\ Len(received) <= RecordPieces * records[Peer(d)]
      PROVE  ExchangeInd'
  <2>1. /\ fetch' \in [ Clocks -> FetchStages ] /\ fetch'[d] \in {"idle", "alert"}
        /\ link' \in [ Clocks -> LinkStages ] /\ link'[d] = "none"
        /\ quit' \in [ Clocks -> BOOLEAN ]
    BY <1>1, <1>3 DEF Finish, TypeOK, FetchStages, LinkStages
  <2>2. shown'[d] \in {shown[d], received} /\ (want[d] = "photo" => shown'[d] = shown[d])
    BY <1>1, <1>3 DEF Finish, TypeOK
  <2>3. shown' \in [ Clocks -> Seq(Pieces) \union {NoDialog} ]
    BY <1>1, <1>3 DEF Finish, TypeOK
  <2>4. TypeOK'
    BY <1>1, <1>3, <2>1, <2>3 DEF TypeOK
  <2>5. want[d] \in {"log", "photo"}
    BY <1>1 DEF TypeOK
  <2>6. ShownOK(d)'
    BY <1>1, <1>3, <2>2, <2>5 DEF FetchInv, ShownOK, Peer
  <2>7. FetchInv(d)'
    BY <1>1, <2>1, <2>6 DEF FetchInv
  <2>8. \A e \in Clocks \ {d} :
          fetch'[e] = fetch[e] /\ shown'[e] = shown[e] /\ link'[e] = link[e] /\ quit'[e] = quit[e]
    BY <1>1, <1>3 DEF Finish, TypeOK
  <2>9. QED
    BY <1>1, <1>3, <2>4, <2>7, <2>8, FetchStep
<1>4. CASE FirstLoopReturns(d) /\ ~connected[d]
  <2>1. Finish(d, << >>) /\ UNCHANGED cut
    BY <1>4 DEF FirstLoopReturns
  <2>2. << >> \in Seq(Pieces) /\ << >> = UpTo(0) /\ Len(<< >>) = 0
    BY UpToEmpty
  <2>3. 0 <= RecordPieces * records[Peer(d)]
    BY <1>1 DEF TypeOK, RecordPieces
  <2>4. QED
    BY <1>3, <2>1, <2>2, <2>3
<1>5. CASE SecondLoopReturns(d)
  <2>1. Finish(d, data[d]) /\ UNCHANGED cut /\ fetch[d] = "receiving"
    BY <1>5 DEF SecondLoopReturns
  <2>2. data[d] \in Seq(Pieces) /\ Len(data[d]) \in Nat /\ asked[d] \in Nat
        /\ RecordPieces * records[Peer(d)] \in Nat
    BY <1>1 DEF TypeOK, RecordPieces
  <2>3. Receiving(d)
    BY <1>1, <2>1 DEF FetchInv
  <2>4. want[d] = "log" => /\ data[d] = UpTo(Len(data[d]))
                           /\ Len(data[d]) <= RecordPieces * records[Peer(d)]
    BY <2>2, <2>3 DEF Receiving, InOrder
  <2>5. QED
    BY <1>3, <2>1, <2>2, <2>4
<1>6. QED
  BY <1>2, <1>4, <1>5

(* The user closes a message or the dialog.                                *)
LEMMA CloseStep ==
  ASSUME ExchangeInd, NEW d \in Clocks, CloseAlert(d) \/ CloseDialog(d)
  PROVE  ExchangeInd'
<1> USE DEF ExchangeInd
<1>1. /\ TypeOK /\ FetchInv(d) /\ fetch[d] \in {"idle", "alert"}
      /\ UNCHANGED <<main, records, want, connected, quit, data, link, request, wire, asked, cut>>
  BY DEF CloseAlert, CloseDialog, netVars
<1>2. /\ fetch' \in [ Clocks -> FetchStages ] /\ fetch'[d] = "idle"
      /\ \A e \in Clocks \ {d} : fetch'[e] = fetch[e] /\ shown'[e] = shown[e]
  BY <1>1 DEF CloseAlert, CloseDialog, TypeOK, FetchStages
<1>3. /\ shown' \in [ Clocks -> Seq(Pieces) \union {NoDialog} ]
      /\ shown'[d] \in {shown[d], NoDialog}
  BY <1>1 DEF CloseAlert, CloseDialog, TypeOK
<1>4. TypeOK'
  BY <1>1, <1>2, <1>3 DEF TypeOK
<1>5. FetchInv(d)'
  BY <1>1, <1>2, <1>3 DEF FetchInv, ShownOK, Peer
<1>6. QED
  BY <1>1, <1>2, <1>4, <1>5, FetchStep

(* The server answers with the beginning of its log as it is now.          *)
LEMMA ServeStep ==
  ASSUME ExchangeInd, NEW d \in Clocks, Serve(d)
  PROVE  ExchangeInd'
<1> USE DEF ExchangeInd
<1>1. /\ TypeOK /\ FetchInv(d) /\ Peer(d) \in Clocks /\ link[d] = "open" /\ request[d] = 2
      /\ UNCHANGED <<main, records, fetch, want, shown, connected, quit, data, request, cut>>
  BY PeerIsClock DEF Serve, clientVars
<1>2. fetch[d] = "receiving" /\ Receiving(d) /\ data[d] = << >> /\ ~(quit[d] /\ ~cut[d])
  <2>1. fetch[d] \in FetchStages
    BY <1>1 DEF TypeOK
  <2>2. fetch[d] = "receiving"
    BY <1>1, <2>1 DEF FetchInv, Connecting, FetchStages
  <2>3. QED
    BY <1>1, <2>2 DEF FetchInv, Receiving
<1>3. PICK n \in Payloads(d) : /\ wire' = [ wire EXCEPT ![d] = UpTo(n) \o <<Fin>> ]
                               /\ asked' = [ asked EXCEPT ![d] = n ]
                               /\ link' = [ link EXCEPT ![d] = "closed" ]
  BY DEF Serve
<1>4. MaxRecords \in Nat /\ records[Peer(d)] \in 0..MaxRecords /\ want[d] \in {"log", "photo"}
  BY <1>1, ExchangeConstants DEF TypeOK
<1>5. /\ n \in 0..(RecordPieces * MaxRecords)
      /\ want[d] = "log" => n <= RecordPieces * records[Peer(d)]
  <2>1. CASE want[d] = "log"
    BY <1>4, <2>1 DEF Payloads, RecordPieces
  <2>2. CASE want[d] = "photo"
    BY <1>1, <1>4, <2>2 DEF Payloads, RecordPieces, PhotoPieces, FetchInv
  <2>3. QED
    BY <1>4, <2>1, <2>2
<1>6. n \in Nat /\ \A i \in 1..n : i \in Pieces
  BY <1>4, <1>5 DEF Pieces, RecordPieces, PhotoPieces
<1> DEFINE w == UpTo(n) \o <<Fin>>
<1>7. /\ w \in Seq(Pieces \union {Fin}) /\ Len(w) = n + 1
      /\ \A i \in 1..(n + 1) : w[i] = IF i <= n THEN i ELSE Fin
  <2>1. UpTo(n) \in Seq(Pieces \union {Fin}) /\ <<Fin>> \in Seq(Pieces \union {Fin})
    BY <1>6 DEF UpTo
  <2>2. Len(UpTo(n)) = n /\ \A i \in 1..n : UpTo(n)[i] = i
    BY <1>6 DEF UpTo
  <2>3. QED
    BY <1>6, <2>1, <2>2
<1> HIDE DEF w
<1>8. wire'[d] = w /\ asked'[d] = n /\ link'[d] = "closed"
  BY <1>1, <1>3 DEF TypeOK, w
<1>9. TypeOK'
  <2>1. /\ wire' \in [ Clocks -> Seq(Pieces \union {Fin}) ]
        /\ asked' \in [ Clocks -> 0..(RecordPieces * MaxRecords) ]
        /\ link' \in [ Clocks -> LinkStages ]
    BY <1>1, <1>3, <1>5, <1>7 DEF TypeOK, LinkStages, w
  <2>2. QED
    BY <1>1, <2>1 DEF TypeOK
<1>10. InOrder(d)'
  BY <1>1, <1>2, <1>6, <1>8, UpToEmpty DEF InOrder
<1>11. Ahead(d)'
  BY <1>1, <1>2, <1>6, <1>7, <1>8 DEF Ahead
<1>12. Receiving(d)'
  BY <1>1, <1>2, <1>5, <1>8, <1>10, <1>11 DEF Receiving, Peer
<1>13. FetchInv(d)'
  BY <1>1, <1>2, <1>12 DEF FetchInv, ShownOK, Peer
<1>14. QED
  BY <1>1, <1>3, <1>9, <1>13, FetchStep DEF TypeOK

(* The network breaks a connection: what has arrived stays a beginning.    *)
LEMMA BreakStep ==
  ASSUME ExchangeInd, NEW d \in Clocks, Break(d)
  PROVE  ExchangeInd'
<1> USE DEF ExchangeInd
<1>1. /\ TypeOK /\ FetchInv(d) /\ link[d] \in {"open", "closed"}
      /\ UNCHANGED <<main, records, fetch, want, shown, connected, quit, data, request, asked>>
      /\ link' = [ link EXCEPT ![d] = "dead" ]
      /\ wire' = [ wire EXCEPT ![d] = << >> ]
      /\ cut' = [ cut EXCEPT ![d] = TRUE ]
  BY DEF Break, clientVars
<1>2. link'[d] = "dead" /\ wire'[d] = << >> /\ cut'[d] = TRUE
  BY <1>1 DEF TypeOK
<1>3. TypeOK'
  <2>1. << >> \in Seq(Pieces \union {Fin})
    OBVIOUS
  <2>2. QED
    BY <1>1, <2>1 DEF TypeOK, LinkStages
<1>4. fetch[d] = "connecting" => Connecting(d)'
  BY <1>1, <1>2 DEF FetchInv, Connecting
<1>5. fetch[d] = "receiving" => Receiving(d)'
  BY <1>1, <1>2 DEF FetchInv, Receiving, InOrder, Peer
<1>6. fetch[d] \notin {"idle", "alert"}
  BY <1>1 DEF FetchInv
<1>7. FetchInv(d)'
  BY <1>1, <1>4, <1>5, <1>6 DEF FetchInv, ShownOK, Peer
<1>8. QED
  BY <1>1, <1>3, <1>7, FetchStep DEF TypeOK

(* Every step keeps the invariant.                                         *)
LEMMA ExchangeStep == ExchangeInd /\ [Next]_vars => ExchangeInd'
<1> SUFFICES ASSUME ExchangeInd, [Next]_vars PROVE ExchangeInd'
  OBVIOUS
<1>1. ASSUME NEW d \in Clocks, Ring(d) \/ Dismiss(d) \/ WaitEnds(d) PROVE ExchangeInd'
  BY <1>1, AlarmStep
<1>2. ASSUME NEW d \in Clocks, NEW what \in {"log", "photo"}, StartFetch(d, what)
      PROVE  ExchangeInd'
  BY <1>2, Start
<1>3. ASSUME NEW d \in Clocks,
             \/ OnConnected(d) \/ OnTimeout(d) \/ OnDisconnected(d)
             \/ Handshake(d) \/ RequestArrives(d)
      PROVE  ExchangeInd'
  BY <1>3, OpenOrEnd
<1>4. ASSUME NEW d \in Clocks, FirstLoopReturns(d) \/ SecondLoopReturns(d) PROVE ExchangeInd'
  BY <1>4, LoopReturns
<1>5. ASSUME NEW d \in Clocks, OnReadyRead(d) PROVE ExchangeInd'
  BY <1>5, ReadStep
<1>6. ASSUME NEW d \in Clocks, CloseAlert(d) \/ CloseDialog(d) PROVE ExchangeInd'
  BY <1>6, CloseStep
<1>7. ASSUME NEW d \in Clocks, Serve(d) PROVE ExchangeInd'
  BY <1>7, ServeStep
<1>8. ASSUME NEW d \in Clocks, Break(d) PROVE ExchangeInd'
  BY <1>8, BreakStep
<1>9. CASE UNCHANGED vars
  <2>1. UNCHANGED <<main, records, fetch, want, shown, connected, quit, data, link, request,
                    wire, asked, cut>>
    BY <1>9 DEF vars, clientVars, netVars
  <2>2. TypeOK'
    BY <2>1 DEF ExchangeInd, TypeOK
  <2>3. records \in [ Clocks -> Nat ]
    BY DEF ExchangeInd, TypeOK
  <2>4. ASSUME NEW d \in Clocks PROVE FetchInv(d)'
    <3>1. FetchInv(d) /\ \A p \in Clocks : records[p] <= records'[p]
      BY <2>1, <2>3 DEF ExchangeInd
    <3>2. QED
      BY <2>1, <2>3, <3>1, Untouched
  <2>5. QED
    BY <2>1, <2>2, <2>4 DEF ExchangeInd
<1>10. QED
  BY <1>1, <1>2, <1>3, <1>4, <1>5, <1>6, <1>7, <1>8, <1>9 DEF Next

(* What is shown of the friend's log is a beginning of it, and all of it   *)
(* unless the timer or the network cut the answer.                         *)
THEOREM ExchangeCorrect == Spec => []ExchangeInv
BY ExchangeInit, ExchangeStep, ExchangeFacts, PTL DEF Spec
=============================================================================
