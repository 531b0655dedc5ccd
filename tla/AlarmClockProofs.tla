--------------------------- MODULE AlarmClockProofs ---------------------------
(***************************************************************************)
(* For any calendar, any masks, dates and bounds: the handlers of the main *)
(* window always find what they rely on, the alarms that ring are the      *)
(* alarms that are dismissed, a dismissed alarm does not ring again, and a *)
(* restart brings back the list in memory.                                 *)
(*                                                                         *)
(* For any set of sound files: no alarm rings with another one's tune, and *)
(* nothing is started while no alarm rings.                                *)
(***************************************************************************)
EXTENDS AlarmClock, AlarmSound, FiniteSetTheorems, TLAPS

-----------------------------------------------------------------------------
(* Natural numbers and the calendar.                                       *)

(* A nonempty set of naturals has a least element: its initial intervals   *)
(* are finite sets, and one of them has no smaller one among them.         *)
LEMMA LeastNatural ==
  ASSUME NEW S, S \subseteq Nat, S # {}
  PROVE  \E m \in S : \A n \in S : m <= n
<1> DEFINE Below == { 0..n : n \in S }
<1>1. Below \subseteq FiniteSubsetsOf(Nat)
  <2>1. ASSUME NEW n \in S PROVE 0..n \in FiniteSubsetsOf(Nat)
    BY <2>1, FS_Interval DEF FiniteSubsetsOf
  <2>2. QED
    BY <2>1
<1>2. PICK B \in Below : \A C \in Below : ~(<<C, B>> \in StrictSubsetOrdering(Nat))
  <2>1. IsWellFoundedOn(StrictSubsetOrdering(Nat), FiniteSubsetsOf(Nat))
    BY FS_StrictSubsetOrderingWellFounded
  <2>2. Below # {}
    OBVIOUS
  <2> HIDE DEF Below
  <2>3. \A R, T : IsWellFoundedOn(R, T) =>
          (\A U : U \subseteq T /\ U # {} => \E x \in U : \A y \in U : ~(<<y, x>> \in R))
    BY WFMin
  <2>4. QED
    BY <1>1, <2>1, <2>2, <2>3
<1>3. PICK m \in S : B = 0..m
  OBVIOUS
<1>4. ASSUME NEW n \in S PROVE m <= n
  <2>1. SUFFICES ASSUME n < m PROVE FALSE
    OBVIOUS
  <2>2. 0..n \subseteq 0..m /\ 0..n # 0..m /\ 0..n \subseteq Nat /\ 0..m \subseteq Nat
    <3>1. m \in 0..m /\ m \notin 0..n
      BY <2>1
    <3>2. 0..n \subseteq 0..m
      BY <2>1
    <3>3. QED
      BY <3>1, <3>2
  <2>3. <<0..n, 0..m>> \in StrictSubsetOrdering(Nat)
    BY <2>2 DEF StrictSubsetOrdering
  <2>4. QED
    BY <1>2, <1>3, <2>3
<1>5. QED
  BY <1>4

(* A moment is the moment of its day and its time of day.                  *)
LEMMA Division ==
  ASSUME NEW t \in Nat
  PROVE  /\ Day(t) \in Nat
         /\ TimeOfDay(t) \in TimesOfDay
         /\ t = Moment(Day(t), TimeOfDay(t))
BY CalendarConstants DEF Day, TimeOfDay, TimesOfDay, Moment

(* Multiples of n are n apart.                                             *)
LEMMA LaterMultiple ==
  ASSUME NEW n \in Nat \ {0}, NEW c \in Nat, NEW d \in Nat, c < d
  PROVE  c * n + n <= d * n
<1>1. (d - c) * n = d * n - c * n
  OBVIOUS
<1>2. (d - c) * n >= n
  OBVIOUS
<1>3. QED
  BY <1>1, <1>2

(* Quotient and remainder are unique.                                      *)
LEMMA UniqueDivision ==
  ASSUME NEW n \in Nat \ {0}, NEW d \in Nat, NEW r \in 0..(n - 1)
  PROVE  (d * n + r) \div n = d /\ (d * n + r) % n = r
OBVIOUS

(* The day and the time of day of a moment are those it was made of.       *)
LEMMA MomentParts ==
  ASSUME NEW d \in Nat, NEW tod \in TimesOfDay
  PROVE  /\ Moment(d, tod) \in Nat
         /\ Day(Moment(d, tod)) = d
         /\ TimeOfDay(Moment(d, tod)) = tod
BY CalendarConstants, UniqueDivision DEF Day, TimeOfDay, TimesOfDay, Moment

(* A moment of an earlier day is earlier, one of a later day is later.     *)
LEMMA LaterDay ==
  ASSUME NEW t \in Nat, NEW tod \in TimesOfDay, NEW d \in Nat
  PROVE  /\ d < Day(t) => Moment(d, tod) < t
         /\ d > Day(t) => Moment(d, tod) > t
<1> DEFINE rest == TimeOfDay(t)
<1>1. /\ Day(t) \in Nat /\ rest \in 0..(DayLength - 1)
      /\ t = Day(t) * DayLength + rest
  BY Division DEF TimesOfDay, Moment
<1>2. DayLength \in Nat \ {0} /\ tod \in 0..(DayLength - 1)
  BY CalendarConstants DEF TimesOfDay
<1>3. d < Day(t) => d * DayLength + DayLength <= Day(t) * DayLength
  BY <1>1, <1>2, LaterMultiple
<1>4. Day(t) < d => Day(t) * DayLength + DayLength <= d * DayLength
  BY <1>1, <1>2, LaterMultiple
<1>5. d * DayLength \in Nat /\ Day(t) * DayLength \in Nat
  BY <1>1, <1>2
<1> HIDE DEF rest
<1>6. QED
  BY <1>1, <1>2, <1>3, <1>4, <1>5 DEF Moment

(* Each weekday comes within a week, so that the search of                 *)
(* computeNextRepeatDateTime() always finds a day.                         *)
LEMMA WeekdayComes ==
  ASSUME NEW day \in Nat, NEW w \in Weekdays
  PROVE  \E o \in 1..WeekLength : WeekdayIndex(day + o) = w
<1> DEFINE a == day % WeekLength
           q == day \div WeekLength
<1>1. WeekLength \in Nat \ {0} /\ w \in 0..(WeekLength - 1)
  BY CalendarConstants DEF Weekdays
<1>2. a \in 0..(WeekLength - 1) /\ q \in Nat /\ day = q * WeekLength + a
  BY <1>1
<1> HIDE DEF a, q
<1>3. CASE a < w
  <2>1. day + (w - a) = q * WeekLength + w
    BY <1>1, <1>2
  <2>2. (q * WeekLength + w) % WeekLength = w
    BY <1>1, <1>2, UniqueDivision
  <2>3. w - a \in 1..WeekLength
    BY <1>1, <1>2, <1>3
  <2>4. QED
    BY <2>1, <2>2, <2>3 DEF WeekdayIndex
<1>4. CASE w <= a
  <2>1. day + (w - a + WeekLength) = (q + 1) * WeekLength + w
    BY <1>1, <1>2
  <2>2. ((q + 1) * WeekLength + w) % WeekLength = w
    BY <1>1, <1>2, UniqueDivision
  <2>3. w - a + WeekLength \in 1..WeekLength
    BY <1>1, <1>2, <1>4
  <2>4. QED
    BY <2>1, <2>2, <2>3 DEF WeekdayIndex
<1>5. QED
  BY <1>1, <1>2, <1>3, <1>4

(* The alarm rings on day d, after t.                                      *)
Occurs(t, tod, mask, d) == WeekdayIndex(d) \in mask /\ Moment(d, tod) > t

(* computeNextRepeatDateTime() finds the first repetition after now: a day *)
(* of the mask on which the time of day is still to come, and no earlier   *)
(* one.  Looking at today and one week is enough.                          *)
THEOREM NextRepeatIsNext ==
  ASSUME NEW t \in Nat, NEW tod \in TimesOfDay, NEW mask \in SUBSET Weekdays, mask # {}
  PROVE  \E d \in Nat : /\ NextRepeat(t, tod, mask) = Moment(d, tod)
                        /\ Occurs(t, tod, mask, d)
                        /\ \A c \in Nat : Occurs(t, tod, mask, c) => d <= c
<1> DEFINE Hits == { o \in 0..WeekLength : /\ WeekdayIndex(Day(t) + o) \in mask
                                           /\ Moment(Day(t) + o, tod) > t }
           first == CHOOSE o \in Hits : \A p \in Hits : o <= p
           d == Day(t) + first
<1>1. Day(t) \in Nat /\ WeekLength \in Nat \ {0}
  BY Division, CalendarConstants
<1>2. Hits # {}
  <2>1. PICK w \in mask : w \in Weekdays
    OBVIOUS
  <2>2. PICK o \in 1..WeekLength : WeekdayIndex(Day(t) + o) = w
    BY <1>1, <2>1, WeekdayComes
  <2>3. Moment(Day(t) + o, tod) > t
    BY <1>1, <2>2, LaterDay
  <2>4. o \in Hits
    BY <1>1, <2>1, <2>2, <2>3
  <2>5. QED
    BY <2>4
<1>3. Hits \subseteq Nat
  BY <1>1
<1>4. first \in Hits /\ \A p \in Hits : first <= p
  <2> HIDE DEF Hits
  <2>1. \E o \in Hits : \A p \in Hits : o <= p
    BY <1>2, <1>3, LeastNatural
  <2>2. QED
    BY <2>1
<1>5. NextRepeat(t, tod, mask) = Moment(d, tod)
  BY <1>2 DEF NextRepeat
<1> HIDE DEF first
<1>6. first \in 0..WeekLength /\ d \in Nat /\ Occurs(t, tod, mask, d)
  BY <1>1, <1>4 DEF Occurs
<1>7. ASSUME NEW c \in Nat, Occurs(t, tod, mask, c) PROVE d <= c
  <2>1. Moment(c, tod) \in Nat /\ WeekdayIndex(c) \in mask /\ Moment(c, tod) > t
    BY <1>7, MomentParts DEF Occurs
  <2>2. c >= Day(t)
    BY <1>1, <2>1, LaterDay
  <2>3. CASE c - Day(t) <= WeekLength
    <3>1. Day(t) + (c - Day(t)) = c /\ c - Day(t) \in 0..WeekLength
      BY <1>1, <2>2, <2>3
    <3>2. c - Day(t) \in Hits
      BY <2>1, <3>1
    <3>3. QED
      BY <1>1, <1>4, <1>6, <3>2
  <2>4. CASE c - Day(t) > WeekLength
    BY <1>1, <1>6, <2>4
  <2>5. QED
    BY <1>1, <2>3, <2>4
<1>8. QED
  BY <1>5, <1>6, <1>7

(* A bounded set of naturals has a greatest element.                       *)
LEMMA GreatestNatural ==
  ASSUME NEW S, S \subseteq Nat, S # {}, NEW b \in Nat, \A n \in S : n <= b
  PROVE  \E m \in S : \A n \in S : n <= m
<1> DEFINE T == { b - n : n \in S }
<1>1. T \subseteq Nat /\ T # {}
  <2>1. PICK n \in S : TRUE
    OBVIOUS
  <2>2. b - n \in T
    BY <2>1
  <2>3. QED
    BY <2>2
<1>2. PICK k \in T : \A l \in T : k <= l
  <2> HIDE DEF T
  <2>1. QED
    BY <1>1, LeastNatural
<1>3. PICK m \in S : k = b - m
  OBVIOUS
<1>4. ASSUME NEW n \in S PROVE n <= m
  <2>1. b - n \in T
    OBVIOUS
  <2>2. b - m <= b - n
    BY <1>2, <1>3, <2>1
  <2>3. QED
    BY <2>2
<1>5. QED
  BY <1>4

(* The next repetition is later, at the same time of day.                  *)
LEMMA NextRepeatLater ==
  ASSUME NEW t \in Nat, NEW tod \in TimesOfDay, NEW mask \in SUBSET Weekdays, mask # {}
  PROVE  /\ NextRepeat(t, tod, mask) \in Nat
         /\ NextRepeat(t, tod, mask) > t
         /\ TimeOfDay(NextRepeat(t, tod, mask)) = tod
BY NextRepeatIsNext, MomentParts DEF Occurs

(* While a repetition is still to come it stays the next one.              *)
LEMMA NextRepeatStays ==
  ASSUME NEW b \in Nat, NEW t \in Nat, b <= t,
         NEW tod \in TimesOfDay, NEW mask \in SUBSET Weekdays, mask # {},
         NextRepeat(b, tod, mask) > t
  PROVE  NextRepeat(t, tod, mask) = NextRepeat(b, tod, mask)
<1>1. PICK d \in Nat : /\ NextRepeat(b, tod, mask) = Moment(d, tod)
                       /\ Occurs(b, tod, mask, d)
                       /\ \A c \in Nat : Occurs(b, tod, mask, c) => d <= c
  BY NextRepeatIsNext
<1>2. PICK e \in Nat : /\ NextRepeat(t, tod, mask) = Moment(e, tod)
                       /\ Occurs(t, tod, mask, e)
                       /\ \A c \in Nat : Occurs(t, tod, mask, c) => e <= c
  BY NextRepeatIsNext
<1>3. Moment(d, tod) \in Nat /\ Moment(e, tod) \in Nat
  BY MomentParts
<1>4. Occurs(t, tod, mask, d) /\ Occurs(b, tod, mask, e)
  BY <1>1, <1>2, <1>3 DEF Occurs
<1>5. d = e
  BY <1>1, <1>2, <1>4
<1>6. QED
  BY <1>1, <1>2, <1>5

(* Bringing an alarm up to date and later again is bringing it up to date  *)
(* later: restarts in between change nothing.                              *)
LEMMA ReloadTwice ==
  ASSUME NEW e \in Entries, NEW b \in Nat, NEW t \in Nat, b <= t
  PROVE  /\ Reloaded(e, b) \in Entries
         /\ Reloaded(e, b).id = e.id
         /\ Reloaded(Reloaded(e, b), t) = Reloaded(e, t)
<1> DEFINE r == NextRepeat(b, TimeOfDay(e.at), e.mask)
           f == [ e EXCEPT !.at = r ]
<1>1. /\ e.at \in Nat /\ e.mask \in SUBSET Weekdays /\ e.enabled \in BOOLEAN
      /\ TimeOfDay(e.at) \in TimesOfDay
  BY Division DEF Entries
<1>2. CASE ~(e.enabled /\ e.at <= b)
  BY <1>1, <1>2 DEF Reloaded
<1>3. CASE e.enabled /\ e.at <= b /\ e.mask = {}
  <2>1. Reloaded(e, b) = [ e EXCEPT !.enabled = FALSE ]
    BY <1>3 DEF Reloaded
  <2>2. Reloaded(e, t) = [ e EXCEPT !.enabled = FALSE ]
    BY <1>1, <1>3 DEF Reloaded
  <2>3. [ e EXCEPT !.enabled = FALSE ] \in Entries
    BY DEF Entries
  <2>4. [ e EXCEPT !.enabled = FALSE ].enabled = FALSE /\ [ e EXCEPT !.enabled = FALSE ].id = e.id
    BY DEF Entries
  <2>5. Reloaded([ e EXCEPT !.enabled = FALSE ], t) = [ e EXCEPT !.enabled = FALSE ]
    BY <2>4 DEF Reloaded
  <2>6. QED
    BY <2>1, <2>2, <2>3, <2>4, <2>5
<1>4. CASE e.enabled /\ e.at <= b /\ e.mask # {}
  <2>1. r \in Nat /\ r > b /\ TimeOfDay(r) = TimeOfDay(e.at)
    BY <1>1, <1>4, NextRepeatLater
  <2>2. Reloaded(e, b) = f
    BY <1>4 DEF Reloaded
  <2>3. Reloaded(e, t) = [ e EXCEPT !.at = NextRepeat(t, TimeOfDay(e.at), e.mask) ]
    BY <1>1, <1>4 DEF Reloaded
  <2>4. f \in Entries /\ f.at = r /\ f.mask = e.mask /\ f.enabled /\ f.id = e.id
    BY <1>4, <2>1 DEF Entries
  <2>5. CASE r <= t
    <3>1. Reloaded(f, t) = [ f EXCEPT !.at = NextRepeat(t, TimeOfDay(e.at), e.mask) ]
      BY <1>4, <2>1, <2>4, <2>5 DEF Reloaded
    <3>2. [ f EXCEPT !.at = NextRepeat(t, TimeOfDay(e.at), e.mask) ]
            = [ e EXCEPT !.at = NextRepeat(t, TimeOfDay(e.at), e.mask) ]
      BY DEF Entries
    <3>3. QED
      BY <2>2, <2>3, <2>4, <3>1, <3>2
  <2>6. CASE r > t
    <3>1. NextRepeat(t, TimeOfDay(e.at), e.mask) = r
      BY <1>1, <1>4, <2>6, NextRepeatStays
    <3>2. Reloaded(f, t) = f
      BY <2>1, <2>4, <2>6 DEF Reloaded
    <3>3. QED
      BY <2>2, <2>3, <2>4, <3>1, <3>2
  <2>7. QED
    BY <2>1, <2>5, <2>6
<1>5. QED
  BY <1>2, <1>3, <1>4

-----------------------------------------------------------------------------
(* The list, and the list in order.                                        *)

Sorted(list) == \A i, j \in DOMAIN list : i <= j => list[i].at <= list[j].at

Before(list, j) == { i \in DOMAIN list : Precedes(list, i, j) }

(* The rows of a list of alarms.                                           *)
LEMMA Rows ==
  ASSUME NEW list \in Seq(Entries)
  PROVE  /\ Len(list) \in Nat /\ DOMAIN list = 1..Len(list)
         /\ list \in [1..Len(list) -> Entries]
         /\ \A k \in DOMAIN list : /\ list[k] \in Entries
                                  /\ list[k].at \in Nat /\ list[k].id \in Nat \ {0}
<1>1. /\ Len(list) \in Nat /\ DOMAIN list = 1..Len(list)
      /\ list \in [1..Len(list) -> Entries]
      /\ \A k \in DOMAIN list : list[k] \in Entries
  OBVIOUS
<1>2. \A e \in Entries : e.at \in Nat /\ e.id \in Nat \ {0}
  BY DEF Entries
<1>3. QED
  BY <1>1, <1>2

(* The place std::sort gives an alarm is a row of the list.                *)
LEMMA RankBounds ==
  ASSUME NEW list \in Seq(Entries), NEW j \in DOMAIN list
  PROVE  /\ IsFiniteSet(Before(list, j))
         /\ Rank(list, j) = Cardinality(Before(list, j))
         /\ Rank(list, j) \in 1..Len(list)
<1>1. DOMAIN list = 1..Len(list) /\ Len(list) \in Nat /\ list[j].at \in Nat
  BY Rows
<1>2. IsFiniteSet(DOMAIN list) /\ Cardinality(DOMAIN list) = Len(list)
  <2>1. \A n \in Nat : IsFiniteSet(1..n) /\ Cardinality(1..n) = n
    BY FS_Interval
  <2>2. QED
    BY <1>1, <2>1
<1>3. Before(list, j) \subseteq DOMAIN list /\ j \in Before(list, j)
  BY <1>1 DEF Before, Precedes
<1>4. IsFiniteSet(Before(list, j)) /\ Cardinality(Before(list, j)) <= Len(list)
  BY <1>2, <1>3, FS_Subset
<1>5. Cardinality(Before(list, j)) \in Nat /\ Cardinality(Before(list, j)) # 0
  BY <1>3, <1>4, FS_CardinalityType, FS_EmptySet
<1>6. Rank(list, j) = Cardinality(Before(list, j))
  BY DEF Rank, Before
<1>7. QED
  BY <1>1, <1>4, <1>5, <1>6

(* Who goes before another gets an earlier place.                          *)
LEMMA RankMonotone ==
  ASSUME NEW list \in Seq(Entries), NEW i \in DOMAIN list, NEW j \in DOMAIN list,
         i # j, Precedes(list, i, j)
  PROVE  Rank(list, i) < Rank(list, j)
<1>1. DOMAIN list = 1..Len(list) /\ Len(list) \in Nat
  OBVIOUS
<1>2. \A k \in DOMAIN list : list[k].at \in Nat
  BY Rows
<1>3. Before(list, i) \subseteq Before(list, j)
  BY <1>1, <1>2 DEF Before, Precedes
<1>4. j \in Before(list, j) /\ j \notin Before(list, i)
  BY <1>1, <1>2 DEF Before, Precedes
<1>5. /\ IsFiniteSet(Before(list, j))
      /\ Rank(list, i) = Cardinality(Before(list, i)) /\ Rank(list, i) \in Nat
      /\ Rank(list, j) = Cardinality(Before(list, j)) /\ Rank(list, j) \in Nat
  BY RankBounds
<1>6. Cardinality(Before(list, i)) <= Cardinality(Before(list, j))
      /\ Cardinality(Before(list, j)) # Cardinality(Before(list, i))
  BY <1>3, <1>4, <1>5, FS_Subset
<1>7. QED
  BY <1>5, <1>6

(* How the sorted list arises: p[k] is the row that becomes row k.         *)
Arranges(p, list, sorted) ==
    /\ p \in [1..Len(list) -> 1..Len(list)]
    /\ \A k, l \in 1..Len(list) : p[k] = p[l] => k = l
    /\ \A j \in 1..Len(list) : \E k \in 1..Len(list) : p[k] = j
    /\ sorted = [ k \in 1..Len(list) |-> list[p[k]] ]

(* The sort moves every row to one place, and the result is sorted.        *)
THEOREM SortArranges ==
  ASSUME NEW list \in Seq(Entries)
  PROVE  /\ \E p : Arranges(p, list, SortAlarmsByTime(list))
         /\ Sorted(SortAlarmsByTime(list))
<1> DEFINE n == Len(list)
           r == [ j \in 1..n |-> Rank(list, j) ]
           p == [ k \in 1..n |-> CHOOSE j \in 1..n : Rank(list, j) = k ]
<1>1. DOMAIN list = 1..n /\ n \in Nat
  OBVIOUS
<1>2. \A k \in 1..n : list[k].at \in Nat
  BY Rows
<1>3. ASSUME NEW i \in 1..n, NEW j \in 1..n, Rank(list, i) = Rank(list, j) PROVE i = j
  <2>1. Rank(list, i) \in Nat /\ Rank(list, j) \in Nat
    BY <1>1, RankBounds
  <2>2. Precedes(list, i, j) \/ Precedes(list, j, i)
    BY <1>1, <1>2 DEF Precedes
  <2>3. QED
    BY <1>1, <1>3, <2>1, <2>2, RankMonotone
<1>4. r \in Injection(1..n, 1..n)
  <2>1. r \in [1..n -> 1..n]
    BY <1>1, RankBounds
  <2>2. QED
    BY <1>3, <2>1 DEF Injection, IsInjective
<1>5. \A k \in 1..n : \E j \in 1..n : Rank(list, j) = k
  <2>1. IsFiniteSet(1..n)
    BY <1>1, FS_Interval
  <2>2. r \in Surjection(1..n, 1..n)
    BY <1>4, <2>1, FS_Injection
  <2>3. QED
    BY <2>2 DEF Surjection
<1>6. \A k \in 1..n : p[k] \in 1..n /\ Rank(list, p[k]) = k
  BY <1>5
<1>7. SortAlarmsByTime(list) = [ k \in 1..n |-> list[p[k]] ]
  BY <1>1 DEF SortAlarmsByTime
<1> HIDE DEF p, n
<1>8. p \in [1..n -> 1..n]
  BY <1>6 DEF p
<1>9. \A j \in 1..n : \E k \in 1..n : p[k] = j
  <2> SUFFICES ASSUME NEW j \in 1..n PROVE p[Rank(list, j)] = j /\ Rank(list, j) \in 1..n
    OBVIOUS
  <2>1. Rank(list, j) \in 1..n
    BY <1>1, RankBounds DEF n
  <2>2. p[Rank(list, j)] \in 1..n /\ Rank(list, p[Rank(list, j)]) = Rank(list, j)
    BY <1>6, <2>1
  <2>3. QED
    BY <1>3, <2>1, <2>2
<1>10. Arranges(p, list, SortAlarmsByTime(list))
  <2>1. \A k, l \in 1..n : p[k] = p[l] => k = l
    <3> SUFFICES ASSUME NEW k \in 1..n, NEW l \in 1..n, p[k] = p[l] PROVE k = l
      OBVIOUS
    <3>1. Rank(list, p[k]) = k /\ Rank(list, p[l]) = l
      BY <1>6
    <3>2. QED
      BY <3>1
  <2>2. QED
    BY <1>7, <1>8, <1>9, <2>1 DEF Arranges, n
<1>11. ASSUME NEW k \in 1..n, NEW l \in 1..n, k <= l
       PROVE  list[p[k]].at <= list[p[l]].at
  <2>1. CASE list[p[l]].at < list[p[k]].at
    <3>1. Precedes(list, p[l], p[k]) /\ p[l] # p[k]
      BY <1>2, <1>6, <2>1 DEF Precedes
    <3>2. l < k
      BY <1>1, <1>6, <3>1, RankMonotone
    <3>3. QED
      BY <1>1, <1>11, <3>2
  <2>2. QED
    BY <1>2, <1>6, <2>1
<1>12. Sorted(SortAlarmsByTime(list))
  BY <1>7, <1>11 DEF Sorted
<1>13. QED
  BY <1>10, <1>12

(* A sorted list is left as it is.                                         *)
LEMMA SortedStays ==
  ASSUME NEW list \in Seq(Entries), Sorted(list)
  PROVE  SortAlarmsByTime(list) = list
<1> DEFINE n == Len(list)
<1>1. DOMAIN list = 1..n /\ n \in Nat
  OBVIOUS
<1>2. \A k \in 1..n : list[k].at \in Nat
  BY Rows
<1>3. ASSUME NEW j \in 1..n PROVE Rank(list, j) = j
  <2>1. Before(list, j) = 1..j
    BY <1>1, <1>2 DEF Before, Precedes, Sorted
  <2>2. Cardinality(1..j) = j
    BY <1>1, FS_Interval
  <2>3. QED
    BY <1>1, <2>1, <2>2, RankBounds
<1> DEFINE p == [ k \in 1..n |-> CHOOSE j \in 1..n : Rank(list, j) = k ]
<1>4. \A k \in 1..n : p[k] = k
  BY <1>3
<1>5. SortAlarmsByTime(list) = [ k \in 1..n |-> list[p[k]] ]
  BY <1>1 DEF SortAlarmsByTime
<1> HIDE DEF p
<1>6. SortAlarmsByTime(list) = [ k \in 1..n |-> list[k] ]
  BY <1>4, <1>5
<1>7. QED
  BY <1>1, <1>6

SameEntries(list, new) ==
    /\ \A i \in DOMAIN list : \E j \in DOMAIN new : new[j] = list[i]
    /\ \A j \in DOMAIN new : \E i \in DOMAIN list : list[i] = new[j]

(* What the handlers need of the sort.                                     *)
LEMMA SortFacts ==
  ASSUME NEW list \in Seq(Entries)
  PROVE  /\ SortAlarmsByTime(list) \in Seq(Entries)
         /\ Len(SortAlarmsByTime(list)) = Len(list)
         /\ Sorted(SortAlarmsByTime(list))
         /\ SameEntries(list, SortAlarmsByTime(list))
         /\ DistinctIds(list) => DistinctIds(SortAlarmsByTime(list))
<1> DEFINE s == SortAlarmsByTime(list)
           n == Len(list)
<1>1. PICK p : Arranges(p, list, s)
  BY SortArranges
<1>2. /\ p \in [1..n -> 1..n] /\ s = [ k \in 1..n |-> list[p[k]] ]
      /\ \A k, l \in 1..n : p[k] = p[l] => k = l
      /\ \A j \in 1..n : \E k \in 1..n : p[k] = j
  BY <1>1 DEF Arranges
<1>3. n \in Nat /\ DOMAIN list = 1..n /\ \A k \in 1..n : list[k] \in Entries
  BY Rows
<1> HIDE DEF s, n
<1>4. \A k \in 1..n : p[k] \in 1..n /\ s[k] = list[p[k]]
  BY <1>2
<1>5. s \in [1..n -> Entries]
  BY <1>2, <1>3
<1>6. s \in Seq(Entries) /\ Len(s) = n /\ DOMAIN s = 1..n
  BY <1>3, <1>5
<1>7. SameEntries(list, s)
  BY <1>2, <1>3, <1>4, <1>6 DEF SameEntries
<1>8. DistinctIds(list) => DistinctIds(s)
  <2> SUFFICES ASSUME DistinctIds(list), NEW k \in 1..n, NEW l \in 1..n, s[k].id = s[l].id
               PROVE  k = l
    BY <1>6 DEF DistinctIds
  <2>1. list[p[k]].id = list[p[l]].id /\ p[k] \in 1..n /\ p[l] \in 1..n
    BY <1>4
  <2>2. p[k] = p[l]
    BY <1>3, <2>1 DEF DistinctIds
  <2>3. QED
    BY <1>2, <2>2
<1>9. QED
  BY <1>6, <1>7, <1>8, SortArranges DEF s, n

(* The entries that loadAlarms() makes of a saved list.                    *)
AfterReload(list, t) == { Reloaded(list[i], t) : i \in DOMAIN list }

(* Lists with the same entries come back with the same entries.            *)
LEMMA SameReload ==
  ASSUME NEW list, NEW new, NEW t, SameEntries(list, new)
  PROVE  AfterReload(list, t) = AfterReload(new, t)
BY DEF SameEntries, AfterReload

(* A list whose entries keep their ids keeps the ids distinct.             *)
LEMMA KeepIds ==
  ASSUME NEW list \in Seq(Entries), NEW new \in Seq(Entries), Len(new) = Len(list),
         \A i \in DOMAIN list : new[i].id = list[i].id
  PROVE  DistinctIds(list) => DistinctIds(new)
BY Rows DEF DistinctIds

(* The triggered list and the mode of the dialog for it.                   *)
LEMMA ChallengeType ==
  ASSUME NEW list \in Seq(Entries), NEW t
  PROVE  /\ Triggered(list, t) \subseteq
              [ index : Nat \ {0}, id : Nat \ {0}, at : Nat, mode : DismissModes ]
         /\ ChallengeFor(Triggered(list, t)) \in DismissModes
<1> DEFINE due == Triggered(list, t)
           games == { u \in due : u.mode \in Games }
<1>1. /\ Len(list) \in Nat /\ DOMAIN list = 1..Len(list)
      /\ \A k \in DOMAIN list : /\ list[k].at \in Nat /\ list[k].id \in Nat \ {0}
                                /\ list[k] \in Entries
  BY Rows
<1>2. \A e \in Entries : e.mode \in DismissModes
  BY DEF Entries
<1>3. \A u \in due : u.index \in 1..Len(list)
  BY <1>1 DEF Triggered
<1>4. due \subseteq [ index : Nat \ {0}, id : Nat \ {0}, at : Nat, mode : DismissModes ]
  BY <1>1, <1>2 DEF Triggered
<1> HIDE DEF due
<1>5. ASSUME games # {}
      PROVE  (CHOOSE g \in games : \A u \in games : u.index <= g.index).mode \in DismissModes
  <2> DEFINE places == { u.index : u \in games }
  <2>1. places \subseteq Nat /\ places # {} /\ \A n \in places : n <= Len(list)
    BY <1>1, <1>3, <1>5
  <2>2. PICK m \in places : \A n \in places : n <= m
    <3> HIDE DEF places
    <3>1. QED
      BY <1>1, <2>1, GreatestNatural
  <2>3. PICK g \in games : g.index = m
    BY <2>2
  <2>4. \A u \in games : u.index <= g.index
    BY <2>2, <2>3
  <2>5. (CHOOSE h \in games : \A u \in games : u.index <= h.index) \in games
    BY <2>3, <2>4
  <2>6. \A g1 \in games : g1.mode \in DismissModes
    BY DEF DismissModes
  <2>7. QED
    BY <2>5, <2>6
<1>6. ChallengeFor(due) \in DismissModes
  BY <1>5 DEF ChallengeFor, DismissModes
<1>7. QED
  BY <1>4, <1>6 DEF due

-----------------------------------------------------------------------------
(* The inductive invariant, and each step.                                 *)

LogLines == [ main : SUBSET (Nat \ {0}), own : SUBSET (Nat \ {0}) ]

(* The list is sorted, so that a tick under the dismiss dialog moves no    *)
(* alarm; the saved list, too, has every id once; nothing is triggered     *)
(* once the dismissal is over, and nothing is open without the program.    *)
ClockInd ==
    /\ ClockInv
    /\ TriggeredStillNamed
    /\ RestartKeepsAlarms
    /\ Sorted(alarms)
    /\ DistinctIds(disk.alarms)
    /\ ~alarmHandling => triggered = {}
    /\ ~running => alarms = << >> /\ dialog = "none" /\ ~alarmHandling

(* The clock starts with nothing saved.                                    *)
LEMMA ClockInit == Init => ClockInd
<1> SUFFICES ASSUME Init PROVE ClockInd
  OBVIOUS
<1>1. << >> \in Seq(Entries) /\ DOMAIN << >> = {} /\ Len(<< >>) = 0
  OBVIOUS
<1>2. TypeOK
  <2>1. disk \in [ counter : Nat, alarms : Seq(Entries) ]
    BY <1>1 DEF Init, EmptyDisk
  <2>2. dialog \in UserDialogs /\ editing \in [ row : Nat, id : Nat ] /\ challenge \in DismissModes
    BY DEF Init, UserDialogs, NotEditing, DismissModes
  <2>3. /\ alarms \in Seq(Entries) /\ rows \in Seq(Entries) /\ currentRow \in 0..Len(alarms)
        /\ now \in Nat /\ nextAlarmId \in Nat \ {0} /\ stops \in Nat
    BY <1>1 DEF Init
  <2>4. running \in BOOLEAN /\ alarmHandling \in BOOLEAN /\ triggered = {}
    BY DEF Init
  <2>5. appended \in LogLines
    BY DEF Init, NoLines, LogLines
  <2>6. QED
    BY <2>1, <2>2, <2>3, <2>4, <2>5, Zenon DEF TypeOK, LogLines
<1>3. LiveIdsDistinct /\ RowsShowAlarms /\ EditRowInRange /\ TriggeredStillNamed
  BY <1>1 DEF Init, LiveIdsDistinct, DistinctIds, RowsShowAlarms, EditRowInRange,
              TriggeredStillNamed
<1>4. RestartKeepsAlarms
  BY <1>1 DEF Init, RestartKeepsAlarms, EmptyDisk
<1>5. Sorted(alarms) /\ DistinctIds(disk.alarms)
  BY <1>1 DEF Init, Sorted, DistinctIds, EmptyDisk
<1>6. QED
  BY <1>2, <1>3, <1>4, <1>5 DEF ClockInd, ClockInv, Init

(* A handler of the main window, or the end of a dismissal, replaces the   *)
(* list by one with distinct ids and leaves the same entries on disk.      *)
LEMMA NewList ==
  ASSUME ClockInd, running, running', now' = now, stops' = stops,
         NEW list \in Seq(Entries), DistinctIds(list), ShowSorted(list),
         nextAlarmId' \in Nat \ {0}, \A i \in DOMAIN list : list[i].id < nextAlarmId',
         currentRow' \in 0..Len(list),
         disk' \in [ counter : Nat, alarms : Seq(Entries) ],
         disk'.alarms = list \/ disk'.alarms = SortAlarmsByTime(list),
         dialog' \in UserDialogs, editing' \in [ row : Nat, id : Nat ],
         dialog' = "edit" => editing'.row \in DOMAIN list,
         alarmHandling' = FALSE, triggered' = {}, challenge' \in DismissModes,
         appended' \in LogLines
  PROVE  ClockInd'
<1>1. /\ alarms' = SortAlarmsByTime(list) /\ rows' = alarms'
      /\ alarms' \in Seq(Entries) /\ Len(alarms') = Len(list)
      /\ Sorted(alarms') /\ DistinctIds(alarms') /\ SameEntries(list, alarms')
  BY SortFacts DEF ShowSorted
<1>2. /\ Len(list) \in Nat /\ DOMAIN list = 1..Len(list)
      /\ DOMAIN alarms' = 1..Len(list)
  BY <1>1
<1>3. TypeOK'
  BY <1>1, <1>2 DEF ClockInd, ClockInv, TypeOK, LogLines
<1>4. LiveIdsDistinct'
  BY <1>1 DEF LiveIdsDistinct, SameEntries
<1>5. RowsShowAlarms' /\ EditRowInRange' /\ TriggeredStillNamed'
  BY <1>1, <1>2 DEF RowsShowAlarms, EditRowInRange, TriggeredStillNamed
<1>6. RestartKeepsAlarms'
  <2>1. SameEntries(disk'.alarms, alarms')
    <3>1. CASE disk'.alarms = list
      BY <1>1, <3>1
    <3>2. CASE disk'.alarms = alarms'
      BY <3>2 DEF SameEntries
    <3>3. QED
      BY <1>1, <3>1, <3>2
  <2>2. AfterReload(disk'.alarms, now') = AfterReload(alarms', now')
    BY <2>1, SameReload
  <2>3. QED
    BY <2>2, Zenon DEF RestartKeepsAlarms, AfterReload
<1>7. DistinctIds(disk'.alarms)
  BY <1>1
<1>8. QED
  BY <1>1, <1>3, <1>4, <1>5, <1>6, <1>7 DEF ClockInd, ClockInv

(* The tick: the list is sorted already, so sorting it again moves         *)
(* nothing.                                                                *)
LEMMA TickStep ==
  ASSUME ClockInd, UpdateCurrentTime
  PROVE  ClockInd'
<1> USE DEF ClockInd, ClockInv
<1>1. SortAlarmsByTime(alarms) = alarms
  BY SortedStays DEF TypeOK
<1>2. /\ alarms' = alarms /\ rows' = alarms
      /\ currentRow' = KeptRow(alarms) /\ RingDue(alarms, alarmHandling)
      /\ UNCHANGED <<now, running, nextAlarmId, dialog, editing, disk, stops>>
  BY <1>1 DEF UpdateCurrentTime, RefreshAlarmList, ShowSorted
<1>3. TypeOK'
  <2>1. currentRow' \in 0..Len(alarms)
    BY <1>2 DEF KeptRow, TypeOK
  <2>2. /\ alarmHandling' \in BOOLEAN /\ challenge' \in DismissModes
        /\ triggered' \subseteq
             [ index : Nat \ {0}, id : Nat \ {0}, at : Nat, mode : DismissModes ]
    <3>1. CASE Triggered(alarms, now) = {} \/ alarmHandling
      BY <1>2, <3>1 DEF RingDue, TypeOK
    <3>2. CASE ~(Triggered(alarms, now) = {} \/ alarmHandling)
      <4>1. /\ alarmHandling' = TRUE /\ triggered' = Triggered(alarms, now)
            /\ challenge' = ChallengeFor(Triggered(alarms, now))
        BY <1>2, <3>2 DEF RingDue
      <4>2. alarms \in Seq(Entries)
        BY DEF TypeOK
      <4>3. QED
        BY <4>1, <4>2, ChallengeType
    <3>3. QED
      BY <3>1, <3>2
  <2>3. appended' \in [ main : SUBSET (Nat \ {0}), own : SUBSET (Nat \ {0}) ]
    BY <1>2 DEF RingDue, NoLines, TypeOK
  <2>4. QED
    BY <1>2, <2>1, <2>2, <2>3 DEF TypeOK
<1>4. LiveIdsDistinct' /\ RowsShowAlarms' /\ EditRowInRange' /\ RestartKeepsAlarms'
  <2>1. LiveIdsDistinct' /\ RowsShowAlarms'
    BY <1>2 DEF LiveIdsDistinct, RowsShowAlarms
  <2>2. EditRowInRange'
    BY <1>2 DEF EditRowInRange
  <2>3. RestartKeepsAlarms'
    BY <1>2 DEF RestartKeepsAlarms
  <2>4. QED
    BY <2>1, <2>2, <2>3
<1>5. TriggeredStillNamed'
  BY <1>2 DEF TriggeredStillNamed, RingDue, Triggered
<1>6. (~alarmHandling => triggered = {})'
  BY <1>2 DEF RingDue, TypeOK
<1>7. running
  BY DEF UpdateCurrentTime
<1>8. QED
  BY <1>2, <1>3, <1>4, <1>5, <1>6, <1>7

(* The selected row after a refresh.                                       *)
LEMMA KeptRowType ==
  ASSUME NEW list, Len(list) \in Nat
  PROVE  KeptRow(list) \in 0..Len(list)
BY DEF KeptRow

(* The dismissed alarm is the same one, and is over.                       *)
LEMMA DismissedEntry ==
  ASSUME NEW e \in Entries, NEW t \in Nat
  PROVE  /\ AfterDismissal(e, t) \in Entries
         /\ AfterDismissal(e, t).id = e.id
         /\ ~AfterDismissal(e, t).enabled \/ AfterDismissal(e, t).at > t
<1>1. e.at \in Nat /\ e.mask \in SUBSET Weekdays /\ TimeOfDay(e.at) \in TimesOfDay
  BY Division DEF Entries
<1>2. e.mask # {} => /\ NextRepeat(t, TimeOfDay(e.at), e.mask) \in Nat
                     /\ NextRepeat(t, TimeOfDay(e.at), e.mask) > t
  BY <1>1, NextRepeatLater
<1>3. QED
  BY <1>2 DEF AfterDismissal, Entries

(* The lines a dismissal writes are those of alarms.                       *)
LEMMA LinesType ==
  ASSUME TypeOK, NEW due \in SUBSET triggered
  PROVE  LinesOf(due) \subseteq Nat \ {0} /\ LogsOf(due) \subseteq Nat \ {0}
<1>1. LinesOf(due) \subseteq Nat \ {0}
  BY DEF LinesOf, TypeOK
<1>2. LogsOf(due) \subseteq Nat \ {0}
  BY Rows DEF LogsOf, TypeOK
<1>3. QED
  BY <1>1, <1>2

(* What follows dlg.exec(): the triggered alarms are updated, the list is  *)
(* sorted, saved and shown.                                                *)
LEMMA DismissStep ==
  ASSUME ClockInd, Dismiss
  PROVE  ClockInd'
<1> USE DEF ClockInd, ClockInv
<1> DEFINE list == DismissedList
<1>1. /\ alarms \in Seq(Entries) /\ now \in Nat
      /\ Len(alarms) \in Nat /\ DOMAIN alarms = 1..Len(alarms)
  BY Rows DEF TypeOK
<1>2. \A e \in Entries : AfterDismissal(e, now) \in Entries /\ AfterDismissal(e, now).id = e.id
  BY <1>1, DismissedEntry
<1>3. \A i \in DOMAIN alarms : list[i] \in Entries /\ list[i].id = alarms[i].id
  BY <1>1, <1>2 DEF DismissedList
<1>4. list \in Seq(Entries) /\ Len(list) = Len(alarms) /\ DOMAIN list = 1..Len(alarms)
  BY <1>1, <1>3 DEF DismissedList
<1>5. DistinctIds(list) /\ \A i \in DOMAIN list : list[i].id < nextAlarmId
  BY <1>1, <1>3, <1>4, KeepIds DEF LiveIdsDistinct, Dismiss
<1>6. appended' \in LogLines
  BY LinesType DEF Dismiss, AllLines, LogLines
<1>7. /\ disk'.alarms = list
      /\ disk' \in [ counter : Nat, alarms : Seq(Entries) ]
  BY <1>4 DEF Dismiss, TypeOK
<1>8. currentRow' \in 0..Len(list)
  BY <1>1, <1>4, KeptRowType DEF Dismiss, RefreshAlarmList
<1>9. /\ running /\ running' /\ ShowSorted(list)
      /\ alarmHandling' = FALSE /\ triggered' = {} /\ challenge' \in DismissModes
      /\ UNCHANGED <<now, nextAlarmId, dialog, editing, stops>>
  BY DEF Dismiss, RefreshAlarmList, DismissModes
<1>10. dialog' = "edit" => editing'.row \in DOMAIN list
  BY <1>1, <1>4, <1>9 DEF EditRowInRange
<1> HIDE DEF list
<1>11. QED
  BY <1>4, <1>5, <1>6, <1>7, <1>8, <1>9, <1>10, NewList DEF TypeOK

(* A new alarm takes the next id, which no alarm of the list has.          *)
LEMMA AppendStep ==
  ASSUME ClockInd, ~alarmHandling, running, NEW e \in Entries, e.id = nextAlarmId,
         AppendAlarm(e), currentRow' \in 0..Len(Append(alarms, e))
  PROVE  ClockInd'
<1> USE DEF ClockInd, ClockInv
<1> DEFINE list == Append(alarms, e)
<1>1. /\ alarms \in Seq(Entries) /\ nextAlarmId \in Nat \ {0}
      /\ Len(alarms) \in Nat /\ DOMAIN alarms = 1..Len(alarms)
  BY Rows DEF TypeOK
<1>2. /\ list \in Seq(Entries) /\ DOMAIN list = 1..(Len(alarms) + 1)
      /\ \A i \in DOMAIN list : list[i] = IF i = Len(alarms) + 1 THEN e ELSE alarms[i]
  BY <1>1
<1> HIDE DEF list
<1>3. \A i \in DOMAIN alarms : alarms[i].id \in Nat /\ alarms[i].id < nextAlarmId
  BY <1>1, Rows DEF LiveIdsDistinct
<1>4. DistinctIds(list)
  BY <1>1, <1>2, <1>3 DEF LiveIdsDistinct, DistinctIds
<1>5. nextAlarmId' = nextAlarmId + 1 /\ \A i \in DOMAIN list : list[i].id < nextAlarmId'
  BY <1>1, <1>2, <1>3 DEF AppendAlarm
<1>6. /\ disk'.alarms = list
      /\ disk' \in [ counter : Nat, alarms : Seq(Entries) ]
  <2>1. disk' = [ disk EXCEPT !.counter = nextAlarmId + 1, !.alarms = list ]
    BY DEF AppendAlarm, list
  <2>2. disk \in [ counter : Nat, alarms : Seq(Entries) ]
    BY DEF TypeOK
  <2>3. nextAlarmId + 1 \in Nat /\ list \in Seq(Entries)
    BY <1>1, <1>2
  <2> HIDE DEF ClockInd, ClockInv
  <2>4. QED
    BY <2>1, <2>2, <2>3
<1>7. /\ running' /\ ShowSorted(list) /\ dialog' = "none"
      /\ UNCHANGED <<now, editing, alarmHandling, triggered, challenge, appended, stops>>
  BY DEF AppendAlarm, ringState, list
<1>8. currentRow' \in 0..Len(list)
  BY DEF list
<1>9. /\ nextAlarmId' \in Nat \ {0} /\ dialog' \in UserDialogs
      /\ editing' \in [ row : Nat, id : Nat ]
      /\ alarmHandling' = FALSE /\ triggered' = {} /\ challenge' \in DismissModes
      /\ appended' \in LogLines
  BY <1>1, <1>5, <1>7 DEF TypeOK, UserDialogs, LogLines
<1>10. dialog' = "edit" => editing'.row \in DOMAIN list
  BY <1>7
<1>11. now' = now /\ stops' = stops
  BY <1>7
<1>12. QED
  BY <1>2, <1>4, <1>5, <1>6, <1>7, <1>8, <1>9, <1>10, <1>11, NewList

(* What the add and edit dialogs return.                                   *)
LEMMA ConfirmedTypes ==
  ASSUME TypeOK, NEW c \in ConfirmedTimes(now, Masks, Dates)
  PROVE  c.at \in Nat /\ c.mask \in SUBSET Weekdays
<1>1. now \in Nat /\ Day(now) \in Nat
  BY Division DEF TypeOK
<1>2. CASE \E tod \in TimesOfDay, m \in Masks \ {{}} :
             c = [ at |-> NextRepeat(now, tod, m), mask |-> m ]
  BY <1>1, <1>2, ClockConstants, NextRepeatLater
<1>3. CASE \E d \in Dates, tod \in TimesOfDay : c = [ at |-> Moment(d, tod), mask |-> {} ]
  BY <1>3, ClockConstants, MomentParts
<1>4. CASE \E tod \in TimesOfDay : c = [ at |-> NextOneShot(now, tod), mask |-> {} ]
  BY <1>1, <1>4, MomentParts DEF NextOneShot
<1>5. QED
  BY <1>2, <1>3, <1>4 DEF ConfirmedTimes

(* openAddDialog() finds the row of the alarm it has added.                *)
LEMMA AddedRow ==
  ASSUME NEW list \in Seq(Entries), NEW e \in Entries
  PROVE  LET sorted == SortAlarmsByTime(Append(list, e))
         IN  FirstRowLike(e, sorted) \in 0..Len(Append(list, e))
<1> DEFINE all == Append(list, e)
           sorted == SortAlarmsByTime(all)
           S == { i \in DOMAIN sorted : SameButId(sorted[i], e) }
<1>1. all \in Seq(Entries) /\ Len(list) + 1 \in DOMAIN all /\ all[Len(list) + 1] = e
  OBVIOUS
<1> HIDE DEF all
<1>2. /\ Len(sorted) = Len(all) /\ DOMAIN sorted = 1..Len(all) /\ Len(all) \in Nat
      /\ SameEntries(all, sorted)
  BY <1>1, SortFacts
<1>3. PICK i \in DOMAIN sorted : sorted[i] = e
  BY <1>1, <1>2 DEF SameEntries
<1>4. S # {} /\ S \subseteq Nat
  BY <1>2, <1>3 DEF SameButId
<1>5. PICK m \in S : \A n \in S : m <= n
  <2> HIDE DEF S
  <2>1. QED
    BY <1>4, LeastNatural
<1>6. FirstRowLike(e, sorted) \in DOMAIN sorted
  <2> HIDE DEF sorted
  <2>1. \E j \in DOMAIN sorted : /\ SameButId(sorted[j], e)
                                 /\ \A k \in DOMAIN sorted : SameButId(sorted[k], e) => j <= k
    BY <1>5
  <2>2. QED
    BY <2>1 DEF FirstRowLike
<1>7. QED
  BY <1>2, <1>6 DEF all

(* openAddDialog() and the debug dialog add an alarm.                      *)
LEMMA ConfirmStep ==
  ASSUME ClockInd, ConfirmAdd \/ ConfirmDebug
  PROVE  ClockInd'
<1>1. running /\ ~alarmHandling /\ TypeOK
  BY DEF ConfirmAdd, ConfirmDebug, DialogUsable, ClockInd, ClockInv
<1>2. alarms \in Seq(Entries) /\ now \in Nat /\ nextAlarmId \in Nat \ {0}
  BY <1>1 DEF TypeOK
<1>3. ASSUME NEW at \in Nat, NEW mask \in SUBSET Weekdays, NEW mode \in Modes
      PROVE  NewEntry(at, mask, mode) \in Entries /\ NewEntry(at, mask, mode).id = nextAlarmId
  BY <1>2, ClockConstants DEF NewEntry, Entries
<1>4. CASE ConfirmAdd
  <2>1. PICK c \in ConfirmedTimes(now, Masks, Dates), mode \in Modes :
          LET e == NewEntry(c.at, c.mask, mode)
          IN  /\ AppendAlarm(e)
              /\ currentRow' = FirstRowLike(e, SortAlarmsByTime(Append(alarms, e)))
    BY <1>4 DEF ConfirmAdd
  <2> DEFINE e == NewEntry(c.at, c.mask, mode)
  <2>2. e \in Entries /\ e.id = nextAlarmId
    BY <1>1, <1>3, ConfirmedTypes
  <2>3. AppendAlarm(e) /\ currentRow' = FirstRowLike(e, SortAlarmsByTime(Append(alarms, e)))
    BY <2>1
  <2> HIDE DEF e
  <2>4. currentRow' \in 0..Len(Append(alarms, e))
    BY <1>2, <2>2, <2>3, AddedRow
  <2>5. QED
    BY <1>1, <2>2, <2>3, <2>4, AppendStep
<1>5. CASE ConfirmDebug
  <2>1. PICK mode \in Modes :
          /\ AppendAlarm(NewEntry(now + DebugDelay, {}, mode))
          /\ currentRow' = KeptRow(Append(alarms, NewEntry(now + DebugDelay, {}, mode)))
    BY <1>5 DEF ConfirmDebug
  <2> DEFINE e == NewEntry(now + DebugDelay, {}, mode)
  <2>2. now + DebugDelay \in Nat /\ {} \in SUBSET Weekdays
    BY <1>2, ClockConstants
  <2>3. e \in Entries /\ e.id = nextAlarmId
    BY <1>3, <2>2
  <2>4. AppendAlarm(e) /\ currentRow' = KeptRow(Append(alarms, e))
    BY <2>1
  <2> HIDE DEF e
  <2>5. currentRow' \in 0..Len(Append(alarms, e))
    <3>1. Len(Append(alarms, e)) \in Nat
      BY <1>2, <2>3
    <3>2. QED
      BY <2>4, <3>1, KeptRowType
  <2>6. QED
    BY <1>1, <2>3, <2>4, <2>5, AppendStep
<1>6. QED
  BY <1>4, <1>5

(* A handler of the main window or of the edit dialog replaces the list.   *)
LEMMA ReplaceStep ==
  ASSUME ClockInd, running, running', ~alarmHandling, NEW list \in Seq(Entries),
         DistinctIds(list), \A i \in DOMAIN list : list[i].id < nextAlarmId,
         SaveAlarms(list) \/ SaveAlarms(SortAlarmsByTime(list)), RefreshAlarmList(list),
         dialog' = "none", editing' \in [ row : Nat, id : Nat ],
         UNCHANGED <<now, nextAlarmId, ringState, stops>>
  PROVE  ClockInd'
<1>1. /\ nextAlarmId' \in Nat \ {0} /\ dialog' \in UserDialogs
      /\ alarmHandling' = FALSE /\ triggered' = {} /\ challenge' \in DismissModes
      /\ now' = now /\ stops' = stops /\ nextAlarmId' = nextAlarmId
      /\ appended' \in LogLines
  BY DEF ringState, ClockInd, ClockInv, TypeOK, UserDialogs, LogLines
<1>2. currentRow' \in 0..Len(list) /\ ShowSorted(list)
  BY KeptRowType DEF RefreshAlarmList
<1>3. /\ disk'.alarms = list \/ disk'.alarms = SortAlarmsByTime(list)
      /\ disk' \in [ counter : Nat, alarms : Seq(Entries) ]
  <2>1. disk \in [ counter : Nat, alarms : Seq(Entries) ]
    BY DEF ClockInd, ClockInv, TypeOK
  <2>2. SortAlarmsByTime(list) \in Seq(Entries)
    BY SortFacts
  <2>3. QED
    BY <2>1, <2>2 DEF SaveAlarms
<1>4. dialog' = "edit" => editing'.row \in DOMAIN list
  OBVIOUS
<1>5. QED
  BY <1>1, <1>2, <1>3, <1>4, NewList

(* An entry of the list is replaced by another version of the same alarm.  *)
LEMMA UpdatedRow ==
  ASSUME ClockInd, running, NEW i \in DOMAIN alarms, NEW f \in Entries, f.id = alarms[i].id
  PROVE  /\ [ alarms EXCEPT ![i] = f ] \in Seq(Entries)
         /\ DistinctIds([ alarms EXCEPT ![i] = f ])
         /\ \A j \in DOMAIN [ alarms EXCEPT ![i] = f ] : [ alarms EXCEPT ![i] = f ][j].id < nextAlarmId
<1> DEFINE list == [ alarms EXCEPT ![i] = f ]
<1>1. alarms \in Seq(Entries)
  BY DEF ClockInd, ClockInv, TypeOK
<1>2. /\ list \in Seq(Entries) /\ Len(list) = Len(alarms) /\ DOMAIN list = DOMAIN alarms
      /\ \A j \in DOMAIN alarms : list[j] = IF j = i THEN f ELSE alarms[j]
  BY <1>1
<1> HIDE DEF list
<1>3. \A j \in DOMAIN alarms : list[j].id = alarms[j].id
  BY <1>2
<1>4. DistinctIds(list) /\ \A j \in DOMAIN list : list[j].id < nextAlarmId
  BY <1>1, <1>2, <1>3, KeepIds DEF ClockInd, ClockInv, LiveIdsDistinct
<1>5. QED
  BY <1>2, <1>4 DEF list

(* openEditDialog() replaces the row it was opened for by one with the     *)
(* same id.                                                                *)
LEMMA EditStep ==
  ASSUME ClockInd, ConfirmEdit
  PROVE  ClockInd'
<1>1. /\ running /\ ~alarmHandling /\ TypeOK /\ editing.row \in DOMAIN alarms
      /\ dialog' = "none" /\ editing' = NotEditing
      /\ UNCHANGED <<now, running, nextAlarmId, ringState, stops>>
  BY DEF ConfirmEdit, DialogUsable, ClockInd, ClockInv
<1>2. PICK c \in ConfirmedTimes(now, Masks, Dates), mode \in Modes :
        LET list == [ alarms EXCEPT ![editing.row] =
                        [ @ EXCEPT !.at = c.at, !.mask = c.mask,
                                   !.mode = mode, !.enabled = TRUE ] ]
        IN  SaveAlarms(SortAlarmsByTime(list)) /\ RefreshAlarmList(list)
  BY DEF ConfirmEdit
<1> DEFINE f == [ alarms[editing.row] EXCEPT !.at = c.at, !.mask = c.mask,
                                             !.mode = mode, !.enabled = TRUE ]
           list == [ alarms EXCEPT ![editing.row] = f ]
<1>3. alarms[editing.row] \in Entries
  BY <1>1 DEF TypeOK
<1>4. c.at \in Nat /\ c.mask \in SUBSET Weekdays /\ mode \in DismissModes
  BY <1>1, ConfirmedTypes, ClockConstants
<1>5. f \in Entries /\ f.id = alarms[editing.row].id
  BY <1>3, <1>4 DEF Entries
<1>6. SaveAlarms(SortAlarmsByTime(list)) /\ RefreshAlarmList(list)
  BY <1>2
<1> HIDE DEF f
<1>7. /\ list \in Seq(Entries) /\ DistinctIds(list)
      /\ \A j \in DOMAIN list : list[j].id < nextAlarmId
  BY <1>1, <1>5, UpdatedRow
<1> HIDE DEF list
<1>8. editing' \in [ row : Nat, id : Nat ] /\ running'
  BY <1>1 DEF NotEditing
<1>9. QED
  BY <1>1, <1>6, <1>7, <1>8, ReplaceStep

(* A handler of the main window that replaces the list.                    *)
LEMMA MainWindowStep ==
  ASSUME ClockInd, MainWindowUsable, NEW list \in Seq(Entries), DistinctIds(list),
         \A i \in DOMAIN list : list[i].id < nextAlarmId, ReplaceList(list)
  PROVE  ClockInd'
<1>1. /\ running /\ running' /\ ~alarmHandling
      /\ dialog' = "none" /\ editing' \in [ row : Nat, id : Nat ]
      /\ UNCHANGED <<now, nextAlarmId, ringState, stops>>
      /\ SaveAlarms(list) /\ RefreshAlarmList(list)
  BY DEF MainWindowUsable, ReplaceList, ClockInd, ClockInv, TypeOK
<1>2. QED
  BY <1>1, ReplaceStep

(* The buttons of a row disable and enable its alarm.                      *)
LEMMA ButtonStep ==
  ASSUME ClockInd, NEW i \in DOMAIN rows, DisableRow(i) \/ EnableRow(i)
  PROVE  ClockInd'
<1>1. /\ running /\ MainWindowUsable /\ i \in DOMAIN alarms
      /\ alarms \in Seq(Entries) /\ now \in Nat
  BY DEF DisableRow, EnableRow, MainWindowUsable, ClockInd, ClockInv, TypeOK
<1>2. alarms[i] \in Entries
  BY <1>1
<1>3. /\ alarms[i].at \in Nat /\ alarms[i].mask \in SUBSET Weekdays
      /\ TimeOfDay(alarms[i].at) \in TimesOfDay
  BY <1>2, Division DEF Entries
<1>4. PICK f \in Entries : f.id = alarms[i].id /\ ReplaceList([ alarms EXCEPT ![i] = f ])
  <2>1. CASE DisableRow(i)
    <3> DEFINE f == [ alarms[i] EXCEPT !.enabled = FALSE ]
    <3>1. f \in Entries /\ f.id = alarms[i].id
      BY <1>2 DEF Entries
    <3>2. ReplaceList([ alarms EXCEPT ![i] = f ])
      BY <2>1 DEF DisableRow
    <3>3. QED
      BY <3>1, <3>2
  <2>2. CASE EnableRow(i)
    <3> DEFINE f == Reenabled(alarms[i], now)
    <3>1. /\ alarms[i].mask # {} => NextRepeat(now, TimeOfDay(alarms[i].at), alarms[i].mask) \in Nat
          /\ NextOneShot(now, TimeOfDay(alarms[i].at)) \in Nat
      <4>1. alarms[i].mask # {} => NextRepeat(now, TimeOfDay(alarms[i].at), alarms[i].mask) \in Nat
        BY <1>1, <1>3, NextRepeatLater
      <4>2. Day(now) \in Nat /\ Day(now) + 1 \in Nat
        <5>1. now \in Nat
          BY <1>1
        <5>2. Day(now) \in Nat
          BY <5>1, Division
        <5>3. QED
          BY <5>2
      <4>3. NextOneShot(now, TimeOfDay(alarms[i].at)) \in Nat
        BY <1>3, <4>2, MomentParts DEF NextOneShot
      <4>4. QED
        BY <4>1, <4>3
    <3>2. f \in Entries /\ f.id = alarms[i].id
      BY <1>2, <3>1 DEF Reenabled, Entries
    <3>3. ReplaceList([ alarms EXCEPT ![i] = f ])
      BY <2>2 DEF EnableRow
    <3> HIDE DEF f
    <3>4. QED
      BY <3>2, <3>3
  <2>3. QED
    BY <2>1, <2>2
<1> DEFINE list == [ alarms EXCEPT ![i] = f ]
<1>5. /\ list \in Seq(Entries) /\ DistinctIds(list)
      /\ \A j \in DOMAIN list : list[j].id < nextAlarmId
  BY <1>1, <1>4, UpdatedRow
<1>6. ReplaceList(list)
  BY <1>4
<1> HIDE DEF list
<1>7. QED
  BY <1>1, <1>5, <1>6, MainWindowStep

(* deleteSelectedAlarm() leaves the ids of the others distinct.            *)
LEMMA DeleteStep ==
  ASSUME ClockInd, DeleteSelectedAlarm
  PROVE  ClockInd'
<1> DEFINE list == RemoveRow(alarms, currentRow)
<1>1. /\ running /\ MainWindowUsable /\ currentRow \in DOMAIN alarms
      /\ alarms \in Seq(Entries) /\ ReplaceList(list)
  BY DEF DeleteSelectedAlarm, MainWindowUsable, ClockInd, ClockInv, TypeOK
<1>2. /\ Len(alarms) \in Nat /\ DOMAIN alarms = 1..Len(alarms)
      /\ \A k \in 1..Len(alarms) : alarms[k] \in Entries
  BY <1>1, Rows
<1>3. DistinctIds(alarms) /\ \A k \in 1..Len(alarms) : alarms[k].id < nextAlarmId
  BY <1>1, <1>2 DEF ClockInd, ClockInv, LiveIdsDistinct
<1>4. /\ DOMAIN list = 1..(Len(alarms) - 1)
      /\ \A k \in 1..(Len(alarms) - 1) : list[k] = IF k < currentRow THEN alarms[k] ELSE alarms[k + 1]
  BY DEF RemoveRow
<1>5. list \in [ 1..(Len(alarms) - 1) -> Entries ]
  BY <1>1, <1>2 DEF RemoveRow
<1>6. Len(alarms) - 1 \in Nat
  BY <1>1, <1>2
<1>7. list \in Seq(Entries)
  BY <1>5, <1>6
<1> HIDE DEF list
<1> DEFINE from(k) == IF k < currentRow THEN k ELSE k + 1
<1>8. \A k \in DOMAIN list : from(k) \in 1..Len(alarms) /\ list[k] = alarms[from(k)]
  BY <1>1, <1>2, <1>4
<1>9. \A j, k \in DOMAIN list : from(j) = from(k) => j = k
  BY <1>1, <1>2, <1>4
<1> HIDE DEF from
<1>10. DistinctIds(list) /\ \A k \in DOMAIN list : list[k].id < nextAlarmId
  BY <1>2, <1>3, <1>8, <1>9 DEF DistinctIds
<1>11. QED
  BY <1>1, <1>7, <1>10, MainWindowStep

(* The program ends: nothing of its memory is left, and what is on disk    *)
(* has every id once.                                                      *)
LEMMA StopStep ==
  ASSUME ClockInd, Stop,
         disk' \in [ counter : Nat, alarms : Seq(Entries) ],
         DistinctIds(disk'.alarms), appended' \in LogLines
  PROVE  ClockInd'
<1>1. /\ ~running' /\ now' = now /\ stops' = stops + 1
      /\ alarms' = << >> /\ rows' = << >> /\ nextAlarmId' = 1 /\ currentRow' = 0
      /\ dialog' = "none" /\ editing' = NotEditing
      /\ alarmHandling' = FALSE /\ triggered' = {} /\ challenge' = "Simple"
      /\ running' \in BOOLEAN /\ now \in Nat /\ stops \in Nat
  BY DEF Stop, ClockInd, ClockInv, TypeOK
<1>2. << >> \in Seq(Entries) /\ DOMAIN << >> = {} /\ Len(<< >>) = 0
  OBVIOUS
<1>3. TypeOK'
  <2>1. /\ alarms' \in Seq(Entries) /\ rows' \in Seq(Entries)
        /\ currentRow' \in 0..Len(alarms') /\ now' \in Nat
        /\ nextAlarmId' \in Nat \ {0} /\ stops' \in Nat
    BY <1>1, <1>2
  <2>2. /\ dialog' \in UserDialogs /\ editing' \in [ row : Nat, id : Nat ]
        /\ challenge' \in DismissModes
    BY <1>1 DEF UserDialogs, NotEditing, DismissModes
  <2>3. running' \in BOOLEAN /\ alarmHandling' \in BOOLEAN /\ triggered' = {}
    BY <1>1
  <2>4. QED
    BY <2>1, <2>2, <2>3, Zenon DEF TypeOK, LogLines
<1>4. Sorted(alarms') /\ DistinctIds(alarms')
  BY <1>1, <1>2 DEF Sorted, DistinctIds
<1>5. QED
  BY <1>1, <1>3, <1>4 DEF ClockInd, ClockInv, LiveIdsDistinct, RowsShowAlarms, EditRowInRange,
     TriggeredStillNamed, RestartKeepsAlarms

(* A dismissal cut short leaves the list as it was, or, once every line is *)
(* written, none.                                                          *)
LEMMA CutsType ==
  ASSUME TypeOK, NEW cut \in DismissalCuts
  PROVE  /\ \/ cut.disk = [ disk EXCEPT !.alarms = disk.alarms ]
            \/ cut.disk = [ disk EXCEPT !.alarms = << >> ] /\ cut.appended = AllLines
         /\ cut.appended \in LogLines
<1> DEFINE First(k) == { t \in triggered : t.index <= k }
           Cut(list, lines) == [ disk |-> [ disk EXCEPT !.alarms = list ], appended |-> lines ]
           SomeMain(k) == [ main |-> LinesOf(First(k)), own |-> {} ]
           SomeOwn(k) == [ AllLines EXCEPT !.own = LogsOf(First(k)) ]
<1>1. /\ \A k : LinesOf(First(k)) \subseteq Nat \ {0} /\ LogsOf(First(k)) \subseteq Nat \ {0}
      /\ LinesOf(triggered) \subseteq Nat \ {0} /\ LogsOf(triggered) \subseteq Nat \ {0}
  BY LinesType
<1>2. \/ \E k : cut = Cut(disk.alarms, SomeMain(k))
      \/ \E k : cut = Cut(disk.alarms, SomeOwn(k))
      \/ cut = Cut(<< >>, AllLines)
  BY DEF DismissalCuts
<1>3. AllLines \in LogLines /\ \A k : SomeMain(k) \in LogLines /\ SomeOwn(k) \in LogLines
  BY <1>1 DEF AllLines, LogLines
<1> HIDE DEF SomeMain, SomeOwn
<1>4. QED
  BY <1>2, <1>3

(* Each of the moments at which the program may stop leaves on disk the    *)
(* old list, the new one or none.                                          *)
LEMMA StopsStep ==
  ASSUME ClockInd, StopIdle \/ StopInSave \/ StopInAppend \/ StopInDismiss
  PROVE  ClockInd'
<1>1. /\ disk \in [ counter : Nat, alarms : Seq(Entries) ]
      /\ DistinctIds(disk.alarms)
      /\ nextAlarmId \in Nat /\ alarms \in Seq(Entries)
      /\ appended \in LogLines
  BY DEF ClockInd, ClockInv, TypeOK, LogLines
<1>2. << >> \in Seq(Entries) /\ DistinctIds(<< >>)
  BY DEF DistinctIds
<1>3. CASE StopIdle
  BY <1>1, <1>3, StopStep DEF StopIdle
<1>4. CASE StopInSave
  <2>1. Stop /\ disk' = [ disk EXCEPT !.alarms = << >> ] /\ appended' = appended
    BY <1>4 DEF StopInSave
  <2>2. /\ disk' \in [ counter : Nat, alarms : Seq(Entries) ]
        /\ disk'.alarms = << >>
    BY <1>1, <1>2, <2>1
  <2>3. QED
    BY <1>1, <1>2, <2>1, <2>2, StopStep
<1>5. CASE StopInAppend
  <2>1. /\ Stop /\ appended' = appended
        /\ \/ disk' = [ disk EXCEPT !.counter = 0 ]
           \/ disk' = [ disk EXCEPT !.counter = nextAlarmId + 1 ]
           \/ disk' = [ disk EXCEPT !.counter = nextAlarmId + 1, !.alarms = << >> ]
    BY <1>5 DEF StopInAppend
  <2>2. PICK c \in Nat, list \in { disk.alarms, << >> } :
          disk' = [ disk EXCEPT !.counter = c, !.alarms = list ]
    <3>1. nextAlarmId + 1 \in Nat /\ 0 \in Nat
      BY <1>1
    <3>2. \A c : [ disk EXCEPT !.counter = c ]
                   = [ disk EXCEPT !.counter = c, !.alarms = disk.alarms ]
      BY <1>1
    <3>3. QED
      BY <2>1, <3>1, <3>2
  <2>3. list \in Seq(Entries) /\ DistinctIds(list)
    BY <1>1, <1>2
  <2>4. /\ disk' \in [ counter : Nat, alarms : Seq(Entries) ]
        /\ DistinctIds(disk'.alarms)
    BY <1>1, <2>2, <2>3
  <2>5. QED
    BY <1>1, <2>1, <2>4, StopStep
<1>6. CASE StopInDismiss
  <2>1. TypeOK
    BY DEF ClockInd, ClockInv
  <2>2. PICK cut \in DismissalCuts : disk' = cut.disk /\ appended' = cut.appended
    BY <1>6 DEF StopInDismiss
  <2>3. /\ cut.disk = [ disk EXCEPT !.alarms = disk.alarms ]
           \/ cut.disk = [ disk EXCEPT !.alarms = << >> ]
        /\ cut.appended \in LogLines
    BY <2>1, CutsType
  <2>4. /\ disk' \in [ counter : Nat, alarms : Seq(Entries) ]
        /\ disk'.alarms = disk.alarms \/ disk'.alarms = << >>
    BY <1>1, <1>2, <2>2, <2>3
  <2>5. DistinctIds(disk'.alarms)
    BY <1>1, <1>2, <2>4
  <2>6. QED
    BY <1>6, <2>2, <2>3, <2>4, <2>5, StopStep DEF StopInDismiss
<1>7. QED
  BY <1>3, <1>4, <1>5, <1>6

(* The constructor: what is loaded is what the disk has, brought up to     *)
(* date; the next id is above all of them.                                 *)
LEMMA BootStep ==
  ASSUME ClockInd, Boot
  PROVE  ClockInd'
<1> DEFINE list == LoadedList
           saved == disk.alarms
<1>1. /\ disk.alarms \in Seq(Entries) /\ DistinctIds(disk.alarms)
      /\ disk \in [ counter : Nat, alarms : Seq(Entries) ]
      /\ now \in Nat /\ dialog = "none" /\ ~running /\ alarms = << >> /\ triggered = {}
      /\ editing \in [ row : Nat, id : Nat ] /\ stops \in Nat /\ challenge \in DismissModes
      /\ appended \in LogLines
  BY DEF Boot, ClockInd, ClockInv, TypeOK, LogLines
<1>2. /\ Len(saved) \in Nat /\ DOMAIN saved = 1..Len(saved)
      /\ \A i \in DOMAIN saved : saved[i] \in Entries /\ saved[i].id \in Nat \ {0}
  BY <1>1, Rows
<1>3. /\ DOMAIN list = DOMAIN saved
      /\ \A i \in DOMAIN saved : list[i] = Reloaded(saved[i], now)
  BY DEF LoadedList
<1>4. \A i \in DOMAIN saved : /\ Reloaded(saved[i], now) \in Entries
                              /\ Reloaded(saved[i], now).id = saved[i].id
                              /\ Reloaded(Reloaded(saved[i], now), now) = Reloaded(saved[i], now)
  <2>1. now <= now
    BY <1>1
  <2>2. QED
    BY <1>1, <1>2, <2>1, ReloadTwice
<1>5. list \in Seq(Entries) /\ Len(list) = Len(saved)
  BY <1>2, <1>4 DEF LoadedList
<1>6. /\ nextAlarmId' \in FirstFreeId /\ RefreshAlarmList(list)
      /\ RingDue(SortAlarmsByTime(list), FALSE) /\ running' = TRUE
      /\ UNCHANGED <<now, dialog, editing, disk, stops>>
  BY DEF Boot
<1> HIDE DEF list
<1>7. nextAlarmId' \in Nat \ {0} /\ \A i \in DOMAIN saved : saved[i].id < nextAlarmId'
  <2> DEFINE Candidates == { IF disk.counter > 0 THEN disk.counter ELSE 1 }
                             \union { id + 1 : id \in Ids(disk.alarms) }
  <2>1. Candidates \subseteq Nat \ {0}
    BY <1>1, <1>2 DEF Ids
  <2>2. \A i \in DOMAIN saved : saved[i].id + 1 \in Candidates
    BY DEF Ids
  <2>3. nextAlarmId' \in Candidates /\ \A m \in Candidates : m <= nextAlarmId'
    BY <1>6 DEF FirstFreeId
  <2> HIDE DEF Candidates
  <2>4. QED
    BY <1>2, <2>1, <2>2, <2>3
<1>8. /\ alarms' = SortAlarmsByTime(list) /\ rows' = alarms'
      /\ alarms' \in Seq(Entries) /\ Len(alarms') = Len(list)
      /\ Sorted(alarms') /\ SameEntries(list, alarms')
      /\ DistinctIds(list) => DistinctIds(alarms')
  BY <1>5, <1>6, SortFacts DEF RefreshAlarmList, ShowSorted
<1>9. DistinctIds(alarms') /\ \A i \in DOMAIN alarms' : alarms'[i].id < nextAlarmId'
  <2>1. \A i \in DOMAIN list : list[i].id = saved[i].id
    BY <1>3, <1>4
  <2>2. DistinctIds(list)
    BY <1>1, <1>5, <2>1, KeepIds, <1>3
  <2>3. \A i \in DOMAIN list : list[i].id < nextAlarmId'
    BY <1>3, <1>7, <2>1
  <2>4. QED
    BY <1>8, <2>2, <2>3 DEF SameEntries
<1>10. currentRow' \in 0..Len(alarms')
  BY <1>2, <1>5, <1>6, <1>8, KeptRowType DEF RefreshAlarmList
<1>11. /\ alarmHandling' \in BOOLEAN /\ challenge' \in DismissModes
       /\ triggered' = {} \/ triggered' = Triggered(alarms', now)
       /\ ~alarmHandling' => triggered' = {}
       /\ appended' \in LogLines
  <2>1. CASE Triggered(alarms', now) = {}
    BY <1>1, <1>6, <1>8, <2>1 DEF RingDue
  <2>2. CASE Triggered(alarms', now) # {}
    <3>1. /\ alarmHandling' = TRUE /\ triggered' = Triggered(alarms', now)
          /\ challenge' = ChallengeFor(Triggered(alarms', now)) /\ appended' = NoLines
      BY <1>6, <1>8, <2>2 DEF RingDue
    <3>2. NoLines \in LogLines
      BY DEF NoLines, LogLines
    <3>3. QED
      BY <1>8, <3>1, <3>2, ChallengeType
  <2>3. QED
    BY <2>1, <2>2
<1>12. TypeOK'
  <2>1. triggered' \subseteq
          [ index : Nat \ {0}, id : Nat \ {0}, at : Nat, mode : DismissModes ]
    BY <1>8, <1>11, ChallengeType
  <2>2. running' \in BOOLEAN /\ now' \in Nat /\ stops' \in Nat /\ dialog' \in UserDialogs
        /\ editing' \in [ row : Nat, id : Nat ]
    BY <1>1, <1>6 DEF UserDialogs
  <2>3. disk' \in [ counter : Nat, alarms : Seq(Entries) ]
    BY <1>1, <1>6
  <2>4. QED
    BY <1>7, <1>8, <1>10, <1>11, <2>1, <2>2, <2>3, Zenon DEF TypeOK, LogLines
<1>13. LiveIdsDistinct' /\ RowsShowAlarms' /\ EditRowInRange'
  BY <1>1, <1>6, <1>8, <1>9 DEF LiveIdsDistinct, RowsShowAlarms, EditRowInRange
<1>14. TriggeredStillNamed'
  BY <1>11 DEF TriggeredStillNamed, Triggered
<1>15. RestartKeepsAlarms'
  <2>1. AfterReload(list, now) = AfterReload(saved, now)
    BY <1>3, <1>4 DEF AfterReload
  <2>2. AfterReload(list, now) = AfterReload(alarms', now)
    BY <1>8, SameReload
  <2>3. AfterReload(disk'.alarms, now') = AfterReload(alarms', now')
    BY <1>6, <2>1, <2>2
  <2>4. QED
    BY <2>3, Zenon DEF RestartKeepsAlarms, AfterReload
<1>16. DistinctIds(disk'.alarms)
  BY <1>1, <1>6
<1>17. QED
  BY <1>6, <1>8, <1>11, <1>12, <1>13, <1>14, <1>15, <1>16 DEF ClockInd, ClockInv

(* Time passes: a list that would come back the same still does.           *)
LEMMA TimeStep ==
  ASSUME ClockInd, TimePasses
  PROVE  ClockInd'
<1>1. /\ now' = now + 1 /\ now \in Nat /\ now' \in Nat
      /\ UNCHANGED <<running, alarms, nextAlarmId, rows, currentRow, dialog, editing,
                     alarmHandling, triggered, challenge, disk, appended, stops>>
  BY DEF TimePasses, memory, ClockInd, ClockInv, TypeOK
<1>2. ASSUME NEW list \in Seq(Entries)
      PROVE  AfterReload(list, now') = { Reloaded(f, now') : f \in AfterReload(list, now) }
  <2>1. \A i \in DOMAIN list : list[i] \in Entries
    OBVIOUS
  <2>2. \A i \in DOMAIN list : Reloaded(Reloaded(list[i], now), now') = Reloaded(list[i], now')
    <3>1. now <= now'
      BY <1>1
    <3>2. QED
      BY <1>1, <2>1, <3>1, ReloadTwice
  <2>3. QED
    BY <2>2 DEF AfterReload
<1>3. RestartKeepsAlarms'
  <2> SUFFICES ASSUME running
               PROVE  AfterReload(disk.alarms, now') = AfterReload(alarms, now')
    <3>1. running' = running /\ disk'.alarms = disk.alarms /\ alarms' = alarms
      BY <1>1
    <3>2. QED
      BY <3>1, Zenon DEF RestartKeepsAlarms, AfterReload
  <2>1. disk.alarms \in Seq(Entries) /\ alarms \in Seq(Entries)
    BY DEF ClockInd, ClockInv, TypeOK
  <2>2. AfterReload(disk.alarms, now) = AfterReload(alarms, now)
    BY Zenon DEF ClockInd, RestartKeepsAlarms, AfterReload
  <2>3. QED
    BY <1>2, <2>1, <2>2
<1>4. ClockInv' /\ TriggeredStillNamed'
  BY <1>1 DEF ClockInd, ClockInv, TypeOK, LiveIdsDistinct, RowsShowAlarms, EditRowInRange,
              TriggeredStillNamed
<1>5. QED
  BY <1>1, <1>3, <1>4 DEF ClockInd

(* The remaining events touch neither the lists nor the clock.             *)
LEMMA UserStep ==
  ASSUME ClockInd,
         \/ \E i \in DOMAIN rows : SelectRow(i)
         \/ \E d \in {"add", "debug", "view"} : OpenDialog(d)
         \/ OpenEditDialog \/ CloseDialog \/ UNCHANGED vars
  PROVE  ClockInd'
<1>1. /\ UNCHANGED <<now, alarms, nextAlarmId, rows, alarmHandling, triggered, challenge,
                     disk, appended, stops, running>>
      /\ UNCHANGED <<dialog, editing>> \/ running
  BY DEF SelectRow, OpenDialog, OpenEditDialog, CloseDialog, vars, memory, ringState,
         MainWindowUsable, DialogUsable
<1>2. alarms \in Seq(Entries) /\ rows = alarms
  BY DEF ClockInd, ClockInv, TypeOK, RowsShowAlarms
<1>3. /\ Len(alarms) \in Nat /\ DOMAIN alarms = 1..Len(alarms)
      /\ \A k \in DOMAIN alarms : alarms[k].id \in Nat \ {0}
  BY <1>2, Rows
<1>4. currentRow' \in 0..Len(alarms)
  BY <1>2, <1>3 DEF SelectRow, OpenDialog, OpenEditDialog, CloseDialog, vars, memory,
                    ClockInd, ClockInv, TypeOK
<1>5. /\ dialog' \in UserDialogs
      /\ editing' \in [ row : Nat, id : Nat ]
      /\ dialog' = "edit" => editing'.row \in DOMAIN alarms
  <2>1. CASE UNCHANGED <<dialog, editing>>
    BY <2>1 DEF ClockInd, ClockInv, TypeOK, EditRowInRange
  <2>2. CASE OpenEditDialog
    BY <1>3, <2>2 DEF OpenEditDialog, UserDialogs
  <2>3. ASSUME NEW d \in {"add", "debug", "view"}, OpenDialog(d)
        PROVE  dialog' = d /\ editing' = editing
    BY <2>3 DEF OpenDialog
  <2>4. CASE CloseDialog
    BY <2>4 DEF CloseDialog, NotEditing, UserDialogs
  <2>5. QED
    BY <2>1, <2>2, <2>3, <2>4 DEF SelectRow, vars, memory, UserDialogs, ClockInd, ClockInv, TypeOK
<1>6. TypeOK'
  BY <1>1, <1>4, <1>5 DEF ClockInd, ClockInv, TypeOK
<1>7. LiveIdsDistinct' /\ RowsShowAlarms'
  BY <1>1 DEF ClockInd, ClockInv, LiveIdsDistinct, RowsShowAlarms
<1>8. EditRowInRange'
  BY <1>1, <1>5 DEF EditRowInRange
<1>9. TriggeredStillNamed'
  BY <1>1 DEF ClockInd, TriggeredStillNamed
<1>10. RestartKeepsAlarms'
  BY <1>1 DEF ClockInd, RestartKeepsAlarms
<1>11. ClockInv'
  BY <1>6, <1>7, <1>8 DEF ClockInv
<1>12. /\ Sorted(alarms') /\ DistinctIds(disk'.alarms)
       /\ ~alarmHandling' => triggered' = {}
       /\ ~running' => alarms' = << >> /\ dialog' = "none" /\ ~alarmHandling'
  BY <1>1 DEF ClockInd
<1>13. QED
  BY <1>9, <1>10, <1>11, <1>12 DEF ClockInd

(* Every step keeps the invariant.                                         *)
LEMMA ClockStep == ClockInd /\ [Next]_vars => ClockInd'
<1> SUFFICES ASSUME ClockInd, [Next]_vars PROVE ClockInd'
  OBVIOUS
<1>1. CASE UpdateCurrentTime
  BY <1>1, TickStep
<1>2. CASE Dismiss
  BY <1>2, DismissStep
<1>3. ASSUME NEW i \in DOMAIN rows, DisableRow(i) \/ EnableRow(i) PROVE ClockInd'
  BY <1>3, ButtonStep
<1>4. CASE \/ \E i \in DOMAIN rows : SelectRow(i)
           \/ \E d \in {"add", "debug", "view"} : OpenDialog(d)
           \/ OpenEditDialog \/ CloseDialog \/ UNCHANGED vars
  BY <1>4, UserStep
<1>5. CASE ConfirmAdd \/ ConfirmDebug
  BY <1>5, ConfirmStep
<1>6. CASE ConfirmEdit
  BY <1>6, EditStep
<1>7. CASE DeleteSelectedAlarm
  BY <1>7, DeleteStep
<1>8. CASE StopIdle \/ StopInSave \/ StopInAppend \/ StopInDismiss
  BY <1>8, StopsStep
<1>9. CASE Boot
  BY <1>9, BootStep
<1>10. CASE TimePasses
  BY <1>10, TimeStep
<1>11. QED
  BY <1>1, <1>2, <1>3, <1>4, <1>5, <1>6, <1>7, <1>8, <1>9, <1>10 DEF Next

(* The invariant holds throughout.                                         *)
LEMMA ClockAlways == Spec => []ClockInd
BY ClockInit, ClockStep, PTL DEF Spec

-----------------------------------------------------------------------------
(* What holds throughout.                                                  *)

(* Handlers find what they rely on: types, distinct ids, rows that show    *)
(* their alarms, and a row to edit.                                        *)
THEOREM ClockCorrect == Spec => []ClockInv
<1>1. ClockInd => ClockInv
  BY DEF ClockInd
<1>2. QED
  BY <1>1, ClockAlways, PTL

(* The alarms that rang are the ones that are dismissed, however many      *)
(* ticks re-sort the list under the dialog.                                *)
THEOREM RightAlarmsDismissed == Spec => []TriggeredStillNamed
<1>1. ClockInd => TriggeredStillNamed
  BY DEF ClockInd
<1>2. QED
  BY <1>1, ClockAlways, PTL

(* A restart at any moment brings back the list in memory.                 *)
THEOREM RestartIsFaithful == Spec => []RestartKeepsAlarms
<1>1. ClockInd => RestartKeepsAlarms
  BY DEF ClockInd
<1>2. QED
  BY <1>1, ClockAlways, PTL

(* Only the end of a dismissal takes the program out of it alive.          *)
LEMMA DismissalEnds ==
  ASSUME ClockInd, Next, alarmHandling, running', ~alarmHandling'
  PROVE  Dismiss
<1>1. CASE UpdateCurrentTime
  BY <1>1 DEF UpdateCurrentTime, RingDue
<1>2. ASSUME NEW i \in DOMAIN rows, SelectRow(i) \/ DisableRow(i) \/ EnableRow(i) PROVE FALSE
  BY <1>2 DEF SelectRow, DisableRow, EnableRow, MainWindowUsable
<1>3. CASE (\E d \in {"add", "debug", "view"} : OpenDialog(d)) \/ OpenEditDialog \/ CloseDialog
  BY <1>3 DEF OpenDialog, OpenEditDialog, CloseDialog, MainWindowUsable, DialogUsable
<1>4. CASE ConfirmAdd \/ ConfirmDebug \/ ConfirmEdit \/ DeleteSelectedAlarm
  BY <1>4 DEF ConfirmAdd, ConfirmDebug, ConfirmEdit, DeleteSelectedAlarm, MainWindowUsable,
     DialogUsable
<1>5. CASE StopIdle \/ StopInSave \/ StopInAppend \/ StopInDismiss
  BY <1>5 DEF StopIdle, StopInSave, StopInAppend, StopInDismiss, Stop
<1>6. CASE Boot
  BY <1>6 DEF Boot, ClockInd
<1>7. CASE TimePasses
  BY <1>7 DEF TimePasses, memory
<1>8. QED
  BY <1>1, <1>2, <1>3, <1>4, <1>5, <1>6, <1>7 DEF Next

(* After the dismissal a triggered alarm is disabled or due later.         *)
LEMMA DismissedIsOver ==
  ASSUME ClockInd, Dismiss, NEW t \in triggered, NEW i \in DOMAIN alarms', alarms'[i].id = t.id
  PROVE  ~alarms'[i].enabled \/ alarms'[i].at > now
<1>1. /\ alarms \in Seq(Entries) /\ now \in Nat /\ DistinctIds(alarms)
      /\ t.index \in DOMAIN alarms /\ alarms[t.index].id = t.id
  BY DEF ClockInd, ClockInv, TypeOK, LiveIdsDistinct, TriggeredStillNamed
<1>2. /\ \A j \in DOMAIN alarms : alarms[j] \in Entries
      /\ Len(alarms) \in Nat /\ DOMAIN alarms = 1..Len(alarms)
  BY <1>1, Rows
<1>3. \A e \in Entries : /\ AfterDismissal(e, now) \in Entries
                         /\ AfterDismissal(e, now).id = e.id
                         /\ ~AfterDismissal(e, now).enabled \/ AfterDismissal(e, now).at > now
  BY <1>1, DismissedEntry
<1>4. \A j \in DOMAIN alarms : DismissedList[j] \in Entries /\ DismissedList[j].id = alarms[j].id
  BY <1>2, <1>3 DEF DismissedList
<1>5. DismissedList \in Seq(Entries) /\ DOMAIN DismissedList = DOMAIN alarms
  BY <1>2, <1>4 DEF DismissedList
<1>6. SameEntries(DismissedList, alarms')
  BY <1>5, SortFacts DEF Dismiss, RefreshAlarmList, ShowSorted
<1>7. PICK j \in DOMAIN alarms : alarms'[i] = DismissedList[j]
  BY <1>5, <1>6 DEF SameEntries
<1>8. j = t.index
  BY <1>1, <1>4, <1>7 DEF DistinctIds
<1>9. DismissedList[j] = AfterDismissal(alarms[j], now)
  BY <1>8 DEF DismissedList
<1>10. QED
  BY <1>2, <1>3, <1>7, <1>9

(* One occurrence rings once.                                              *)
THEOREM RingsOnce == Spec => DismissedDoesNotRingAgain
<1> DEFINE Ends == alarmHandling /\ running' /\ ~alarmHandling'
           Over == \A t \in triggered : \A i \in DOMAIN alarms' :
                     alarms'[i].id = t.id => ~alarms'[i].enabled \/ alarms'[i].at > now
<1>1. ClockInd /\ [Next]_vars => [Ends => Over]_vars
  <2> SUFFICES ASSUME ClockInd, Next, Ends PROVE Over
    OBVIOUS
  <2>1. Dismiss
    BY DismissalEnds
  <2>2. QED
    BY <2>1, DismissedIsOver
<1>2. QED
  BY <1>1, ClockAlways, PTL DEF Spec, DismissedDoesNotRingAgain

(* This dismissal is in alarm.txt and in the own log of every alarm that   *)
(* rang before the saved list shows it.                                    *)
THEOREM LogsPrecedeList == Spec => DismissalLoggedFirst
<1> DEFINE Writes == alarmHandling /\ disk'.alarms # disk.alarms
           Logged == \A t \in triggered : t.id \in appended'.main /\ t.id \in appended'.own
<1>1. ClockInd /\ [Next]_vars => [Writes => Logged]_vars
  <2> SUFFICES ASSUME ClockInd, Next, Writes PROVE Logged
    OBVIOUS
  <2>1. \A t \in triggered : t.index \in DOMAIN alarms /\ alarms[t.index].id = t.id
    BY DEF ClockInd, TriggeredStillNamed
  <2>2. \A t \in triggered : t.id \in AllLines.main /\ t.id \in AllLines.own
    BY <2>1 DEF AllLines, LinesOf, LogsOf
  <2>3. TypeOK /\ disk \in [ counter : Nat, alarms : Seq(Entries) ]
    BY DEF ClockInd, ClockInv, TypeOK
  <2>4. CASE Dismiss
    BY <2>2, <2>4 DEF Dismiss
  <2>5. CASE StopInDismiss
    <3>1. PICK cut \in DismissalCuts : disk' = cut.disk /\ appended' = cut.appended
      BY <2>5 DEF StopInDismiss
    <3>2. cut.appended = AllLines
      BY <2>3, <3>1, CutsType
    <3>3. QED
      BY <2>2, <3>1, <3>2
  <2>6. CASE UpdateCurrentTime \/ StopIdle \/ Boot \/ TimePasses
    BY <2>6 DEF UpdateCurrentTime, StopIdle, Boot, TimePasses
  <2>7. ASSUME NEW i \in DOMAIN rows, SelectRow(i) \/ DisableRow(i) \/ EnableRow(i) PROVE FALSE
    BY <2>7 DEF SelectRow, DisableRow, EnableRow, MainWindowUsable
  <2>8. CASE (\E d \in {"add", "debug", "view"} : OpenDialog(d)) \/ OpenEditDialog \/ CloseDialog
             \/ ConfirmAdd \/ ConfirmDebug \/ ConfirmEdit \/ DeleteSelectedAlarm
             \/ StopInSave \/ StopInAppend
    BY <2>8 DEF OpenDialog, OpenEditDialog, CloseDialog, ConfirmAdd, ConfirmDebug, ConfirmEdit,
       DeleteSelectedAlarm, StopInSave, StopInAppend, MainWindowUsable, DialogUsable
  <2>9. QED
    BY <2>4, <2>5, <2>6, <2>7, <2>8 DEF Next
<1>2. QED
  BY <1>1, ClockAlways, PTL DEF Spec, DismissalLoggedFirst

-----------------------------------------------------------------------------
(* The sound of the alarm that rings.                                      *)

(* Why the tune is the right one.  The loop timer runs for the ringing     *)
(* alarm only, a player that is not running has no process, and a process  *)
(* that outlives its dismissal was sent SIGKILL: it may still be there     *)
(* when the next alarm begins, and start() is refused because of it.       *)
TuneInv ==
    /\ SoundInv
    /\ looping = (IF main = "ringing" THEN ringing ELSE Silence)
    /\ player = "NotRunning" => child = Silence
    /\ main = "idle" /\ child # Silence => killed

(* At first nothing sounds.                                                *)
LEMMA TuneInit == SoundInit => TuneInv
BY DEF SoundInit, TuneInv, SoundInv, SoundTypeOK, NoForeignTune, PlayerStates, Silence

(* Every step of the player and of the main thread keeps the invariant.    *)
LEMMA TuneStep == TuneInv /\ [SoundNext]_soundVars => TuneInv'
<1> SUFFICES ASSUME TuneInv, [SoundNext]_soundVars PROVE TuneInv'
  OBVIOUS
<1> USE DEF TuneInv, SoundInv, SoundTypeOK, NoForeignTune, PlayerStates, Silence
<1>1. ASSUME NEW f \in SoundFiles, Ring(f) PROVE TuneInv'
  BY <1>1, SoundConstants DEF Ring, StartPlayer
<1>2. CASE LoopTick
  BY <1>2, SoundConstants DEF LoopTick, StartPlayer
<1>3. CASE Dismissed
  BY <1>3 DEF Dismissed
<1>4. CASE WaitReturns
  BY <1>4 DEF WaitReturns
<1>5. CASE WaitTimesOut
  BY <1>5 DEF WaitTimesOut
<1>6. CASE ChildEnds
  BY <1>6 DEF ChildEnds
<1>7. CASE NoticeStart
  BY <1>7 DEF NoticeStart
<1>8. CASE NoticeEnd
  BY <1>8 DEF NoticeEnd
<1>9. CASE UNCHANGED soundVars
  BY <1>9 DEF soundVars
<1>10. QED
  BY <1>1, <1>2, <1>3, <1>4, <1>5, <1>6, <1>7, <1>8, <1>9 DEF SoundNext

(* The invariant holds throughout.                                         *)
LEMMA TuneAlways == SoundSpec => []TuneInv
BY TuneInit, TuneStep, PTL DEF SoundSpec

(* Every alarm rings with its own tune, whatever the player of the one     *)
(* before it did.                                                          *)
THEOREM SoundCorrect == SoundSpec => []SoundInv
<1>1. TuneInv => SoundInv
  BY DEF TuneInv
<1>2. QED
  BY <1>1, TuneAlways, PTL

(* After a dismissal nothing starts the sound again.                       *)
THEOREM SilenceIsKept == SoundSpec => NoSoundWithoutAlarm
<1> DEFINE Starts == child' # child /\ child' # Silence
           Allowed == main' = "ringing" /\ child' = ringing'
<1>1. TuneInv /\ [SoundNext]_soundVars => [Starts => Allowed]_soundVars
  <2> SUFFICES ASSUME TuneInv, SoundNext, Starts PROVE Allowed
    OBVIOUS
  <2>1. ASSUME NEW f \in SoundFiles, Ring(f) PROVE Allowed
    BY <2>1 DEF Ring, StartPlayer
  <2>2. CASE LoopTick
    BY <2>2 DEF LoopTick, StartPlayer, TuneInv
  <2>3. CASE Dismissed \/ WaitReturns \/ WaitTimesOut \/ ChildEnds \/ NoticeEnd
    BY <2>3 DEF Dismissed, WaitReturns, WaitTimesOut, ChildEnds, NoticeEnd
  <2>4. CASE NoticeStart
    BY <2>4 DEF NoticeStart
  <2>5. QED
    BY <2>1, <2>2, <2>3, <2>4 DEF SoundNext
<1>2. QED
  BY <1>1, TuneAlways, PTL DEF SoundSpec, NoSoundWithoutAlarm
=============================================================================
