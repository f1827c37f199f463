------------------------- MODULE AlertOutboxProofs -------------------------
(***************************************************************************)
(* Proofs about AlertOutbox, for any prices, sellers, settings, batch size *)
(* and limits: types; an event marked sent has been told; a rise of the    *)
(* card is announced once.                                                 *)
(*                                                                         *)
(* AlertInv adds to them that the batch names rows of the outbox and that  *)
(* it says "sent" only of an event Telegram has (OutboxOK): without it,    *)
(* the mark that follows could be put on anything. For the band it adds    *)
(* that without a percentage there is no band (CardOK), so that a rise     *)
(* that is announced without one cannot lower it.                          *)
(*                                                                         *)
(* The first part is about the counting by which the newest rows and the   *)
(* median are defined: the k-th newest row and the k-th lowest price       *)
(* exist, whatever the rows.                                               *)
(***************************************************************************)
EXTENDS AlertOutbox, TLAPS, FiniteSetTheorems, WellFoundedInduction, SequenceTheorems

(* Counting rows. *)

LEMMA LeastOf ==
  ASSUME NEW T \in SUBSET Nat, T # {}
  PROVE  \E n \in T : \A m \in T : n <= m
<1>1. PICK n \in T : \A m \in T : ~(<<m, n>> \in OpToRel(<, Nat))
  BY NatLessThanWellFounded, WFMin
<1>2. \A m \in T : ~(m < n)
  BY <1>1 DEF OpToRel
<1>3. QED
  BY <1>2

LEMMA PartFinite ==
  ASSUME NEW n \in Nat, NEW S \in SUBSET (1 .. n)
  PROVE  IsFiniteSet(S) /\ Cardinality(S) \in Nat
<1>1. IsFiniteSet(1 .. n)
  <2>1. 1 \in Int /\ n \in Int
    OBVIOUS
  <2>2. QED
    BY <2>1, FS_Interval
<1>2. IsFiniteSet(S)
  BY <1>1, FS_Subset
<1>3. QED
  BY <1>2, FS_CardinalityType

\* The members of S from i on, and their number.
From(S, i) == {j \in S : j >= i}

LEMMA FromStep ==
  ASSUME NEW n \in Nat, NEW S \in SUBSET (1 .. n), NEW i \in 1 .. n
  PROVE  /\ Cardinality(From(S, i)) \in Nat /\ Cardinality(From(S, i + 1)) \in Nat
         /\ Cardinality(From(S, i)) = Cardinality(From(S, i + 1)) + (IF i \in S THEN 1 ELSE 0)
<1>1. \A k : IsFiniteSet(From(S, k)) /\ Cardinality(From(S, k)) \in Nat
  BY PartFinite DEF From
<1>2. \A h \in S : h \in Nat /\ (h >= i <=> h >= i + 1 \/ h = i)
  OBVIOUS
<1>3. CASE i \in S
  <2>1. From(S, i) = From(S, i + 1) \cup {i}
    <3>1. \A h : h \in From(S, i) <=> h \in From(S, i + 1) \cup {i}
      BY <1>2, <1>3 DEF From
    <3>2. QED
      BY <3>1, Zenon
  <2>2. i \notin From(S, i + 1)
    BY DEF From
  <2>3. Cardinality(From(S, i)) = Cardinality(From(S, i + 1)) + 1
    BY <1>1, <2>1, <2>2, FS_AddElement
  <2>4. QED
    BY <1>1, <1>3, <2>3
<1>4. CASE i \notin S
  <2>1. From(S, i) = From(S, i + 1)
    <3>1. \A h : h \in From(S, i) <=> h \in From(S, i + 1)
      BY <1>2, <1>4 DEF From
    <3>2. QED
      BY <3>1, Zenon
  <2>2. QED
    BY <1>1, <1>4, <2>1
<1>5. QED
  BY <1>3, <1>4

\* Every number up to the size of S is reached.
LEMMA FromReached ==
  ASSUME NEW n \in Nat, NEW S \in SUBSET (1 .. n), NEW k \in 1 .. Cardinality(S)
  PROVE  \E i \in S : Cardinality(From(S, i)) = k
<1> DEFINE T == {i \in 1 .. n + 1 : ~(Cardinality(From(S, i)) >= k)}
<1>1. Cardinality(S) \in Nat /\ k \in Nat /\ k >= 1
  BY PartFinite
<1>2. From(S, 1) = S /\ From(S, n + 1) = {}
  <2>1. \A h \in S : h >= 1 /\ ~(h >= n + 1)
    OBVIOUS
  <2>2. QED
    BY <2>1, Zenon DEF From
<1>3. n + 1 \in T
  BY <1>1, <1>2, FS_EmptySet
<1>4. PICK m \in T : \A j \in T : m <= j
  <2>1. T \subseteq Nat /\ T # {}
    BY <1>3
  <2> HIDE DEF T
  <2>2. QED
    BY <2>1, LeastOf
<1>5. m \in 1 .. n + 1 /\ m # 1
  BY <1>1, <1>2, <1>4
<1>6. m - 1 \in 1 .. n /\ m - 1 \in 1 .. n + 1 /\ (m - 1) + 1 = m
  BY <1>5
<1>7. m - 1 \notin T
  <2>1. ~(m <= m - 1)
    BY <1>5
  <2> HIDE DEF T
  <2>2. QED
    BY <1>4, <2>1
<1>8. Cardinality(From(S, m - 1)) >= k /\ ~(Cardinality(From(S, m)) >= k)
  BY <1>4, <1>6, <1>7
<1>9. Cardinality(From(S, m - 1)) = Cardinality(From(S, m)) + (IF m - 1 \in S THEN 1 ELSE 0)
      /\ Cardinality(From(S, m)) \in Nat
  BY <1>6, FromStep
<1>10. QED
  BY <1>1, <1>8, <1>9

\* The rows of NewestFirst are the rows it was given, as many of them.
LEMMA NewestFirstRows ==
  ASSUME NEW n \in Nat, NEW S \in SUBSET (1 .. n)
  PROVE  NewestFirst(S) \in Seq(S) /\ Len(NewestFirst(S)) = Cardinality(S)
<1>1. Cardinality(S) \in Nat
  BY PartFinite
<1>2. ASSUME NEW k \in 1 .. Cardinality(S)
      PROVE  (CHOOSE i \in S : Cardinality({j \in S : j >= i}) = k) \in S
  BY FromReached DEF From
<1>3. NewestFirst(S) \in [1 .. Cardinality(S) -> S]
  BY <1>2 DEF NewestFirst
<1>4. QED
  BY <1>1, <1>3

\* Finitely many prices have a bound.
LEMMA Bounded ==
  ASSUME NEW n \in Nat, NEW f \in [1 .. n -> Nat]
  PROVE  \E x \in Nat : \A i \in 1 .. n : f[i] <= x
<1> DEFINE Fine(m) == \E x \in Nat : \A i \in 1 .. m : f[i] <= x
           Bad == {m \in 0 .. n : ~Fine(m)}
<1>1. SUFFICES ASSUME Bad # {} PROVE FALSE
  <2>1. n \in 0 .. n
    OBVIOUS
  <2>2. QED
    BY <1>1, <2>1
<1>2. PICK m \in Bad : \A j \in Bad : m <= j
  <2>1. Bad \subseteq Nat
    OBVIOUS
  <2> HIDE DEF Bad
  <2>2. QED
    BY <1>1, <2>1, LeastOf
<1>3. m # 0
  <2>1. Fine(0)
    <3>1. \A i \in 1 .. 0 : FALSE
      OBVIOUS
    <3>2. QED
      BY <3>1
  <2> HIDE DEF Fine
  <2>2. QED
    BY <1>2, <2>1
<1>4. m \in 1 .. n /\ m - 1 \in 0 .. n
  BY <1>2, <1>3
<1>5. m - 1 \notin Bad
  <2>1. ~(m <= m - 1)
    BY <1>4
  <2> HIDE DEF Bad
  <2>2. QED
    BY <1>2, <2>1
<1>6. PICK x \in Nat : \A i \in 1 .. m - 1 : f[i] <= x
  BY <1>4, <1>5
<1>7. f[m] \in Nat
  BY <1>4
<1>8. \A i \in 1 .. m : f[i] <= x + f[m]
  <2>1. ASSUME NEW i \in 1 .. m PROVE f[i] <= x + f[m]
    <3>1. f[i] \in Nat /\ (i \in 1 .. m - 1 \/ i = m)
      BY <1>4
    <3>2. CASE i = m
      BY <1>7, <3>2
    <3>3. CASE i \in 1 .. m - 1
      <4>1. f[i] <= x
        BY <1>6, <3>3
      <4>2. QED
        BY <1>7, <3>1, <4>1
    <3>4. QED
      BY <3>1, <3>2, <3>3
  <2>2. QED
    BY <2>1
<1>9. Fine(m)
  <2>1. x + f[m] \in Nat
    BY <1>7
  <2>2. QED
    BY <1>8, <2>1
<1>10. QED
  BY <1>2, <1>9

\* The places of prices up to x, and of those below it.
UpTo(prices, x) == {i \in DOMAIN prices : prices[i] <= x}
Below(prices, x) == {i \in DOMAIN prices : prices[i] < x}

\* The k-th lowest price is one of the prices.
LEMMA LowestIs ==
  ASSUME NEW prices \in Seq(Nat), NEW k \in 1 .. Len(prices)
  PROVE  \E i \in DOMAIN prices : Lowest(prices, k) = prices[i]
<1> DEFINE n == Len(prices)
           T == {x \in Nat : Cardinality(UpTo(prices, x)) >= k}
<1>1. n \in Nat /\ DOMAIN prices = 1 .. n /\ prices \in [1 .. n -> Nat] /\ k \in Nat /\ k > 0 /\ k <= n
  OBVIOUS
<1>2. \A x : Cardinality(UpTo(prices, x)) \in Nat /\ Cardinality(Below(prices, x)) \in Nat
  BY <1>1, PartFinite DEF UpTo, Below
<1>3. PICK top \in Nat : \A i \in 1 .. n : prices[i] <= top
  BY <1>1, Bounded
<1>4. top \in T
  <2>1. UpTo(prices, top) = 1 .. n
    BY <1>1, <1>3, Zenon DEF UpTo
  <2>2. Cardinality(1 .. n) = n
    <3>1. Cardinality(1 .. n) = IF 1 > n THEN 0 ELSE n - 1 + 1
      BY <1>1, FS_Interval
    <3>2. QED
      BY <1>1, <3>1
  <2>3. QED
    BY <1>1, <2>1, <2>2
<1>5. PICK p \in T : \A x \in T : p <= x
  <2>1. T \subseteq Nat /\ T # {}
    BY <1>4
  <2> HIDE DEF T
  <2>2. QED
    BY <2>1, LeastOf
<1>6. p \in Nat /\ Cardinality(UpTo(prices, p)) >= k
  BY <1>5
<1>7. Cardinality(Below(prices, p)) < k
  <2>1. CASE p = 0
    <3>1. \A i \in DOMAIN prices : ~(prices[i] < p)
      BY <1>1, <2>1
    <3>2. Below(prices, p) = {}
      BY <3>1, Zenon DEF Below
    <3>3. QED
      BY <1>1, <3>2, FS_EmptySet
  <2>2. CASE p # 0
    <3>1. p - 1 \in Nat /\ ~(p <= p - 1)
      BY <1>6, <2>2
    <3>2. p - 1 \notin T
      <4> HIDE DEF T
      <4>1. QED
        BY <1>5, <3>1
    <3>3. ~(Cardinality(UpTo(prices, p - 1)) >= k)
      BY <3>1, <3>2
    <3>4. \A i \in DOMAIN prices : prices[i] < p <=> prices[i] <= p - 1
      BY <1>1, <1>6
    <3>5. Below(prices, p) = UpTo(prices, p - 1)
      BY <3>4, Zenon DEF Below, UpTo
    <3>6. QED
      BY <1>1, <1>2, <3>3, <3>5
  <2>3. QED
    BY <2>1, <2>2
<1>8. \E i \in DOMAIN prices : prices[i] = p
  <2>1. UpTo(prices, p) # Below(prices, p)
    BY <1>1, <1>2, <1>6, <1>7
  <2>2. \E i \in DOMAIN prices : prices[i] <= p /\ ~(prices[i] < p)
    <3>1. SUFFICES ASSUME \A i \in DOMAIN prices : prices[i] <= p => prices[i] < p PROVE FALSE
      OBVIOUS
    <3>2. \A i \in DOMAIN prices : prices[i] < p => prices[i] <= p
      BY <1>1, <1>6
    <3>3. QED
      BY <2>1, <3>1, <3>2, Zenon DEF UpTo, Below
  <2>3. QED
    BY <1>1, <1>6, <2>2
<1> DEFINE Fits(x) == /\ Cardinality({i \in DOMAIN prices : prices[i] < x}) < k
                      /\ Cardinality({i \in DOMAIN prices : prices[i] <= x}) >= k
<1>9. p \in {prices[i] : i \in DOMAIN prices} /\ Fits(p)
  BY <1>6, <1>7, <1>8 DEF UpTo, Below
<1>10. Lowest(prices, k) = CHOOSE x \in {prices[i] : i \in DOMAIN prices} : Fits(x)
  BY DEF Lowest
<1> HIDE DEF Fits
<1>11. Lowest(prices, k) \in {prices[i] : i \in DOMAIN prices}
  BY <1>9, <1>10
<1>12. QED
  BY <1>11

LEMMA Median2Type ==
  ASSUME NEW prices \in Seq(Prices), prices # <<>>
  PROVE  Median2(prices) \in Nat /\ Median2(prices) > 0
<1> DEFINE n == Len(prices)
           a == (n + 1) \div 2
           b == n \div 2 + 1
<1>1. n \in Nat /\ n > 0 /\ DOMAIN prices = 1 .. n
  OBVIOUS
<1>2. prices \in Seq(Nat) /\ \A i \in DOMAIN prices : prices[i] \in Nat /\ prices[i] > 0
  <2>1. \A x \in Prices : x \in Nat /\ x > 0
    BY AlertConstants
  <2>2. \A i \in DOMAIN prices : prices[i] \in Prices
    OBVIOUS
  <2>3. QED
    BY <1>1, <2>1, <2>2
<1> HIDE DEF n
<1>3. a \in 1 .. n /\ b \in 1 .. n
  BY <1>1
<1> HIDE DEF a, b
<1>4. \E i \in DOMAIN prices : Lowest(prices, a) = prices[i]
  BY <1>2, <1>3, LowestIs DEF n
<1>5. \E i \in DOMAIN prices : Lowest(prices, b) = prices[i]
  BY <1>2, <1>3, LowestIs DEF n
<1>6. Median2(prices) = Lowest(prices, a) + Lowest(prices, b)
  BY DEF Median2, a, b, n
<1>7. QED
  BY <1>2, <1>4, <1>5, <1>6

LEMMA HistoryType ==
  ASSUME NEW seen \in Seq(Offer)
  PROVE  History(seen) \in Seq(Prices)
<1> DEFINE S == {i \in DOMAIN seen : seen[i].form # "absent"}
           valid == NewestFirst(S)
           n == IF Len(valid) < Window THEN Len(valid) ELSE Window
<1>1. Len(seen) \in Nat /\ S \in SUBSET (1 .. Len(seen))
  OBVIOUS
<1>2. valid \in Seq(S)
  BY <1>1, NewestFirstRows
<1>3. \A i \in S : seen[i].price \in Prices
  BY DEF Offer
<1> HIDE DEF S, valid
<1>4. n \in Nat /\ n <= Len(valid)
  <2>1. Window \in Nat /\ Len(valid) \in Nat
    BY <1>2, AlertConstants
  <2>2. QED
    BY <2>1
<1> HIDE DEF n
<1>5. \A i \in 1 .. n : valid[i] \in S
  BY <1>2, <1>4
<1>6. History(seen) = [i \in 1 .. n |-> seen[valid[i]].price]
  BY DEF History, n, valid, S
<1>7. QED
  BY <1>3, <1>4, <1>5, <1>6

(* The amounts an event and a card keep are natural numbers. *)

LEMMA DivType ==
  ASSUME NEW a \in Nat, NEW b \in Nat, b > 0
  PROVE  a \div b \in Nat
  OBVIOUS

LEMMA TenthsType ==
  ASSUME NEW price \in Nat, NEW median2 \in Nat, median2 > 0, NEW threshold \in Thresholds,
         InAlertZone(price, median2, threshold)
  PROVE  Tenths(price, median2) \in Nat
<1>1. threshold \in {10, 20, 50}
  BY AlertConstants
<1>2. 2 * price <= median2
  <2>1. CASE threshold = 10
    BY <2>1 DEF InAlertZone
  <2>2. CASE threshold = 20
    BY <2>2 DEF InAlertZone
  <2>3. CASE threshold = 50
    BY <2>3 DEF InAlertZone
  <2>4. QED
    BY <1>1, <2>1, <2>2, <2>3
<1>3. 2000 * (median2 - 2 * price) + median2 \in Nat /\ 2 * median2 \in Nat /\ 2 * median2 > 0
  BY <1>2
<1>4. QED
  BY <1>3, DivType DEF Tenths

LEMMA BandType ==
  ASSUME NEW price \in Nat, NEW base \in Nat, base > 0, price >= base, NEW rise \in Nat
  PROVE  Band(price, base, rise) \in Nat
<1>1. CASE rise = 0
  BY <1>1 DEF Band
<1>2. CASE rise # 0
  <2>1. (price - base) * 100 \in Nat
    OBVIOUS
  <2>2. base * rise \in Nat /\ base * rise > 0
    BY <1>2
  <2>3. ((price - base) * 100) \div (base * rise) \in Nat
    BY <2>1, <2>2, DivType
  <2>4. QED
    BY <1>2, <2>3 DEF Band
<1>3. QED
  BY <1>1, <1>2

\* The lowest price itself is in no band.
LEMMA ZeroBand ==
  ASSUME NEW x \in Nat, x > 0, NEW rise \in Nat, rise # 0
  PROVE  Band(x, x, rise) = 0
<1>1. (x - x) * 100 = 0
  OBVIOUS
<1>2. x * rise \in Nat /\ x * rise > 0
  OBVIOUS
<1> DEFINE n == x * rise
<1> HIDE DEF n
<1>3. 0 \div n = 0
  BY <1>2 DEF n
<1>4. QED
  BY <1>1, <1>3 DEF Band, n

(* Events. *)

Event == Drop \union Rise

\* What a step may change of an event besides its place.
LEMMA EventTold ==
  ASSUME NEW e \in Event, NEW b \in BOOLEAN
  PROVE  /\ [e EXCEPT !.told = b] \in Event
         /\ [e EXCEPT !.told = b].told = b /\ [e EXCEPT !.told = b].out = e.out
<1>1. CASE e \in Drop
  BY <1>1 DEF Event, Drop
<1>2. CASE e \in Rise
  BY <1>2 DEF Event, Rise
<1>3. QED
  BY <1>1, <1>2 DEF Event

LEMMA EventOut ==
  ASSUME NEW e \in Event, NEW s \in {"no", "sent", "suppressed"}
  PROVE  /\ [e EXCEPT !.out = s] \in Event
         /\ [e EXCEPT !.out = s].told = e.told /\ [e EXCEPT !.out = s].out = s
<1>1. CASE e \in Drop
  BY <1>1 DEF Event, Drop
<1>2. CASE e \in Rise
  BY <1>2 DEF Event, Rise
<1>3. QED
  BY <1>1, <1>2 DEF Event

LEMMA EventKind ==
  ASSUME NEW e \in Event
  PROVE  /\ e.told \in BOOLEAN
         /\ e.kind = "drop" => e \in Drop
         /\ e.kind # "drop" => e \in Rise
<1>1. CASE e \in Drop
  BY <1>1 DEF Drop
<1>2. CASE e \in Rise
  BY <1>2 DEF Rise
<1>3. QED
  BY <1>1, <1>2 DEF Event

LEMMA DropYoung ==
  ASSUME NEW e \in Drop
  PROVE  /\ [e EXCEPT !.young = FALSE] \in Drop
         /\ [e EXCEPT !.young = FALSE].told = e.told /\ [e EXCEPT !.young = FALSE].out = e.out
  BY DEF Drop

LEMMA DropSeen ==
  ASSUME NEW e \in Drop, NEW b \in BOOLEAN
  PROVE  /\ [e EXCEPT !.checked = TRUE, !.reseen = b] \in Drop
         /\ [e EXCEPT !.checked = TRUE, !.reseen = b].told = e.told
         /\ [e EXCEPT !.checked = TRUE, !.reseen = b].out = e.out
  BY DEF Drop

(* The parts of the invariant. *)
SupplyOK ==
  /\ offers \in Seq(Offer) /\ offers # <<>>
  /\ recent \in BOOLEAN
  /\ alert \in [on : BOOLEAN, threshold : Thresholds, linked : BOOLEAN]

CardOK ==
  /\ card \in Card /\ market \in [enabled : BOOLEAN, rise : Rises]
  /\ card.base = NoPrice => card.price = NoPrice /\ card.band = 0
  /\ market.rise = 0 => card.band = 0
  /\ held \in Tokens \union {NoToken}

OutboxOK ==
  /\ events \in Seq(Event)
  /\ batch \in [ids : Seq(DOMAIN events), sent : BOOLEAN]
  /\ SentMeansTold
  /\ batch.sent => batch.ids # <<>> /\ events[Head(batch.ids)].told

BoundsOK == checks \in 0 .. MaxChecks /\ edits \in 0 .. MaxEdits /\ mishaps \in 0 .. MaxMishaps

AlertInv == SupplyOK /\ CardOK /\ OutboxOK /\ BoundsOK

\* Rows are kept and neither sent nor marked, new ones are not marked.
RowsStay ==
  /\ events' \in Seq(Event) /\ Len(events') >= Len(events)
  /\ \A i \in DOMAIN events : events'[i].told = events[i].told /\ events'[i].out = events[i].out
  /\ \A i \in DOMAIN events' : i > Len(events) => events'[i].out = "no"

LEMMA RowsStayOutbox ==
  ASSUME OutboxOK, RowsStay, batch' = batch
  PROVE  OutboxOK'
<1>1. events \in Seq(Event) /\ events' \in Seq(Event) /\ Len(events') >= Len(events)
  BY DEF OutboxOK, RowsStay
<1>2. DOMAIN events \subseteq DOMAIN events'
  BY <1>1
<1>3. batch.ids \in Seq(DOMAIN events) /\ batch \in [ids : Seq(DOMAIN events), sent : BOOLEAN]
  BY DEF OutboxOK
<1>4. batch.ids \in Seq(DOMAIN events')
  BY <1>2, <1>3
<1>5. batch' \in [ids : Seq(DOMAIN events'), sent : BOOLEAN]
  BY <1>3, <1>4
<1>6. SentMeansTold'
  <2>1. ASSUME NEW i \in DOMAIN events', events'[i].out = "sent" PROVE events'[i].told
    <3>1. i \in DOMAIN events
      <4>1. ~(i > Len(events))
        BY <2>1 DEF RowsStay
      <4>2. QED
        BY <1>1, <4>1
    <3>2. events[i].out = "sent" /\ events'[i].told = events[i].told
      BY <2>1, <3>1 DEF RowsStay
    <3>3. events[i].told
      BY <3>1, <3>2 DEF OutboxOK, SentMeansTold
    <3>4. QED
      BY <3>2, <3>3
  <2>2. QED
    BY <2>1 DEF SentMeansTold
<1>7. ASSUME batch.sent PROVE batch.ids # <<>> /\ events'[Head(batch.ids)].told
  <2>1. batch.ids # <<>> /\ events[Head(batch.ids)].told
    BY <1>7 DEF OutboxOK
  <2>2. Head(batch.ids) \in DOMAIN events
    BY <1>3, <2>1
  <2>3. events'[Head(batch.ids)].told = events[Head(batch.ids)].told
    BY <2>2 DEF RowsStay
  <2>4. QED
    BY <2>1, <2>3
<1>8. QED
  BY <1>1, <1>5, <1>6, <1>7 DEF OutboxOK

LEMMA RowsUnchanged ==
  ASSUME OutboxOK, UNCHANGED events
  PROVE  RowsStay
  BY DEF OutboxOK, RowsStay

\* An event is added.
LEMMA AppendStays ==
  ASSUME events \in Seq(Event), NEW d \in Event, d.out = "no", events' = Append(events, d)
  PROVE  RowsStay
<1>1. events' \in Seq(Event) /\ Len(events') = Len(events) + 1
  OBVIOUS
<1>2. \A i \in DOMAIN events : events'[i] = events[i]
  OBVIOUS
<1>3. events'[Len(events) + 1] = d
  OBVIOUS
<1>4. \A i \in DOMAIN events' : i > Len(events) => i = Len(events) + 1
  BY <1>1
<1>5. QED
  BY <1>1, <1>2, <1>3, <1>4 DEF RowsStay

LEMMA InitInv == Init => AlertInv
<1> SUFFICES ASSUME Init PROVE AlertInv
  OBVIOUS
<1>1. PICK start \in Starts :
        /\ offers = <<start.offer>>
        /\ alert = [on |-> TRUE, threshold |-> start.threshold, linked |-> start.linked]
        /\ market = [enabled |-> start.enabled, rise |-> start.rise]
        /\ checks = start.used /\ edits = start.edited
  BY DEF Init
<1>2. start \in [linked : BOOLEAN, enabled : BOOLEAN, threshold : Thresholds, rise : Rises,
                  offer : Offer, used : 0 .. MaxChecks, edited : 0 .. MaxEdits]
  BY AlertConstants
<1>3. SupplyOK
  BY <1>1, <1>2 DEF Init, SupplyOK
<1>4. CardOK
  <2>1. NewCard \in Card
    BY DEF NewCard, Card, Counts
  <2>2. QED
    BY <1>1, <1>2, <2>1 DEF Init, CardOK, NewCard
<1>5. OutboxOK
  BY DEF Init, OutboxOK, NoBatch, SentMeansTold
<1>6. BoundsOK
  <2>1. MaxMishaps \in Nat
    BY AlertConstants
  <2>2. QED
    BY <1>1, <1>2, <2>1 DEF Init, BoundsOK
<1>7. QED
  BY <1>3, <1>4, <1>5, <1>6 DEF AlertInv

LEMMA DropOfType ==
  ASSUME SupplyOK, NEW o \in Offer, FallsFrom(offers, o)
  PROVE  DropOf(offers, o) \in Drop /\ DropOf(offers, o).out = "no"
<1> DEFINE prices == History(offers)
           median2 == Median2(prices)
<1>1. prices \in Seq(Prices) /\ prices # <<>>
  BY HistoryType DEF SupplyOK, FallsFrom
<1>2. o.form = "sold" /\ InAlertZone(o.price, median2, alert.threshold)
  BY DEF FallsFrom
<1>3. o.price \in Prices /\ o.seller \in Sellers
  BY <1>2 DEF Offer
<1> HIDE DEF prices
<1>4. median2 \in Nat /\ median2 > 0
  BY <1>1, Median2Type
<1>5. o.price \in Nat /\ alert.threshold \in Thresholds
  BY <1>3, AlertConstants, ZenonT(60) DEF SupplyOK
<1> HIDE DEF median2
<1>6. Tenths(o.price, median2) \in Nat
  BY <1>2, <1>4, <1>5, TenthsType
<1>7. DropOf(offers, o) = [kind |-> "drop", price |-> o.price, mark |-> o.seller, tenths |-> Tenths(o.price, median2),
        young |-> TRUE, checked |-> FALSE, reseen |-> FALSE, out |-> "no", told |-> FALSE]
  BY DEF DropOf, median2, prices
<1> DEFINE ten == Tenths(o.price, median2)
<1>8. ten \in Nat
  BY <1>6
<1>9. QED
  BY <1>3, <1>7, <1>8 DEF Drop

\* The rows after a check, before a new one is appended: a drop is looked at.
Older(o) == [i \in DOMAIN events |->
               IF events[i].kind # "drop" THEN events[i]
               ELSE [events[i] EXCEPT !.checked = TRUE, !.reseen = @ \/ SameOffer(events[i], o)]]

LEMMA OlderRows ==
  ASSUME events \in Seq(Event), NEW o \in Offer
  PROVE  /\ Older(o) \in Seq(Event) /\ Len(Older(o)) = Len(events) /\ DOMAIN Older(o) = DOMAIN events
         /\ \A i \in DOMAIN events :
              Older(o)[i] \in Event /\ Older(o)[i].told = events[i].told /\ Older(o)[i].out = events[i].out
<1> DEFINE older == [i \in DOMAIN events |->
                       IF events[i].kind # "drop" THEN events[i]
                       ELSE [events[i] EXCEPT !.checked = TRUE, !.reseen = @ \/ SameOffer(events[i], o)]]
<1>1. events \in Seq(Event)
  OBVIOUS
<1>2. ASSUME NEW i \in DOMAIN events
      PROVE  older[i] \in Event /\ older[i].told = events[i].told /\ older[i].out = events[i].out
  <2>1. events[i] \in Event
    BY <1>1
  <2>2. CASE events[i].kind # "drop"
    BY <2>1, <2>2
  <2>3. CASE events[i].kind = "drop"
    <3> DEFINE b == events[i].reseen \/ SameOffer(events[i], o)
    <3>1. events[i] \in Drop
      BY <2>1, <2>3, EventKind
    <3>2. older[i] = [events[i] EXCEPT !.checked = TRUE, !.reseen = b]
      BY <2>3
    <3>3. b \in BOOLEAN
      OBVIOUS
    <3> HIDE DEF b, older
    <3>4. QED
      BY <3>1, <3>2, <3>3, DropSeen, ZenonT(60) DEF Event
  <2>4. QED
    BY <2>2, <2>3
<1>3. older \in Seq(Event) /\ Len(older) = Len(events) /\ DOMAIN older = DOMAIN events
  <2>1. DOMAIN older = DOMAIN events
    OBVIOUS
  <2> HIDE DEF older
  <2>2. Len(events) \in Nat /\ DOMAIN events = 1 .. Len(events)
    BY <1>1
  <2>3. older \in [1 .. Len(events) -> Event]
    <3>1. older = [i \in DOMAIN events |-> older[i]]
      BY DEF older
    <3>2. QED
      BY <1>2, <2>2, <3>1
  <2>4. QED
    BY <2>1, <2>2, <2>3
<1>4. Older(o) = older
  BY DEF Older
<1> HIDE DEF older
<1>5. QED
  BY <1>2, <1>3, <1>4

LEMMA ObserveInv ==
  ASSUME AlertInv, NEW o \in Offer, Observe(o)
  PROVE  AlertInv'
<1> DEFINE older == Older(o)
<1>1. events \in Seq(Event) /\ SupplyOK /\ OutboxOK
  BY DEF AlertInv, OutboxOK
<1>2. \A i \in DOMAIN events :
        older[i] \in Event /\ older[i].told = events[i].told /\ older[i].out = events[i].out
  BY <1>1, OlderRows
<1>3. older \in Seq(Event) /\ Len(older) = Len(events) /\ DOMAIN older = DOMAIN events
  BY <1>1, OlderRows
<1>4. \/ offers' = offers /\ events' = older
      \/ /\ offers' = Append(offers, o)
         /\ events' = IF FallsFrom(offers, o) THEN Append(older, DropOf(offers, o)) ELSE older
  BY DEF Observe, Older
<1> HIDE DEF older
<1>5. RowsStay
  <2>1. CASE events' = older
    BY <1>1, <1>2, <1>3, <2>1 DEF RowsStay
  <2>2. CASE FallsFrom(offers, o) /\ events' = Append(older, DropOf(offers, o))
    <3> DEFINE d == DropOf(offers, o)
    <3>1. d \in Event /\ d.out = "no"
      BY <1>1, <2>2, DropOfType DEF Event
    <3> HIDE DEF d
    <3>2. events' = Append(older, d)
      BY <2>2 DEF d
    <3>3. events' \in Seq(Event) /\ Len(events') = Len(events) + 1
      BY <1>1, <1>3, <3>1, <3>2
    <3>4. \A i \in DOMAIN events : events'[i] = older[i]
      BY <1>1, <1>3, <3>2
    <3>5. events'[Len(events) + 1] = d
      BY <1>1, <1>3, <3>2
    <3>6. \A i \in DOMAIN events' : i > Len(events) => i = Len(events) + 1
      BY <1>1, <3>3
    <3>7. QED
      BY <1>1, <1>2, <3>1, <3>3, <3>4, <3>5, <3>6 DEF RowsStay
  <2>3. QED
    BY <1>4, <2>1, <2>2
<1>6. OutboxOK'
  BY <1>1, <1>5, RowsStayOutbox DEF Observe
<1>7. SupplyOK'
  <2>1. offers' \in Seq(Offer) /\ offers' # <<>>
    BY <1>1, <1>4 DEF SupplyOK
  <2>2. QED
    BY <1>1, <2>1 DEF SupplyOK, Observe
<1>8. CardOK'
  BY DEF AlertInv, CardOK, Observe
<1>9. BoundsOK'
  <2>1. MaxChecks \in Nat
    BY AlertConstants
  <2>2. QED
    <3>1. checks \in 0 .. MaxChecks /\ edits' = edits /\ mishaps' = mishaps
      BY DEF AlertInv, BoundsOK, Observe
    <3>2. checks' = checks \/ (checks < MaxChecks /\ checks' = checks + 1)
      BY DEF Observe
    <3>3. QED
      BY <2>1, <3>1, <3>2 DEF AlertInv, BoundsOK
<1>10. QED
  BY <1>6, <1>7, <1>8, <1>9 DEF AlertInv

LEMMA HalfAnHourInv ==
  ASSUME AlertInv, NEW i \in DOMAIN events, HalfAnHourPasses(i)
  PROVE  AlertInv'
<1>1. events \in Seq(Event) /\ OutboxOK
  BY DEF AlertInv, OutboxOK
<1> DEFINE e == [events[i] EXCEPT !.young = FALSE]
<1>2. events[i] \in Event /\ events[i].kind = "drop"
  BY <1>1 DEF HalfAnHourPasses
<1>3. events[i] \in Drop
  BY <1>2, EventKind
<1>4. e \in Event /\ e.told = events[i].told /\ e.out = events[i].out
  BY <1>3, DropYoung DEF Event
<1>5. events' = [events EXCEPT ![i] = e]
  BY DEF HalfAnHourPasses
<1> HIDE DEF e
<1>6. RowsStay
  <2>1. events' \in Seq(Event) /\ Len(events') = Len(events)
    BY <1>1, <1>4, <1>5
  <2>2. \A j \in DOMAIN events : events'[j] = IF j = i THEN e ELSE events[j]
    BY <1>1, <1>5
  <2>3. QED
    BY <1>1, <1>4, <2>1, <2>2 DEF RowsStay
<1>7. OutboxOK'
  BY <1>1, <1>6, RowsStayOutbox DEF HalfAnHourPasses
<1>8. QED
  BY <1>7 DEF AlertInv, SupplyOK, CardOK, BoundsOK, HalfAnHourPasses

\* The owner changes a price alert or its source, or time passes for the supplier.
LEMMA SupplyInv ==
  ASSUME AlertInv, EditAlert \/ TenMinutesPass
  PROVE  AlertInv'
<1>1. OutboxOK'
  <2>1. UNCHANGED <<events, batch>>
    BY DEF EditAlert, TenMinutesPass
  <2>2. QED
    BY <2>1, RowsUnchanged, RowsStayOutbox DEF AlertInv
<1>2. CardOK'
  BY DEF AlertInv, CardOK, EditAlert, TenMinutesPass
<1>3. BoundsOK'
  <2>1. MaxEdits \in Nat
    BY AlertConstants
  <2>2. QED
    BY <2>1 DEF AlertInv, BoundsOK, EditAlert, Edit, TenMinutesPass
<1>4. SupplyOK'
  <2>1. CASE TenMinutesPass
    BY <2>1 DEF AlertInv, SupplyOK, TenMinutesPass
  <2>2. CASE EditAlert
    <3>1. alert \in [on : BOOLEAN, threshold : Thresholds, linked : BOOLEAN]
      BY DEF AlertInv, SupplyOK
    <3>2. alert' \in [on : BOOLEAN, threshold : Thresholds, linked : BOOLEAN]
      <4>1. CASE \E s \in Thresholds : alert' = [alert EXCEPT !.on = ~@] \/ alert' = [alert EXCEPT !.threshold = s]
        BY <3>1, <4>1
      <4>2. CASE alert' = [alert EXCEPT !.linked = ~@]
        BY <3>1, <4>2
      <4>3. QED
        BY <2>2, <4>1, <4>2 DEF EditAlert
    <3>3. QED
      BY <2>2, <3>2 DEF AlertInv, SupplyOK, EditAlert
  <2>3. QED
    BY <2>1, <2>2
<1>5. QED
  BY <1>1, <1>2, <1>3, <1>4 DEF AlertInv

LEMMA ConstantNats ==
  /\ \A x \in CardPrices : x \in Nat /\ x > 0
  /\ \A r \in Rises : r \in Nat
<1>1. CardPrices \subseteq Nat \ {0}
  BY AlertConstants
<1>2. Rises \subseteq 0 .. 1000
  BY AlertConstants
<1>3. QED
  BY <1>1, <1>2

\* Changes of the card's row.
Look(c, x, n, band) ==
  [c EXCEPT !.band = band, !.price = x, !.count = n, !.fresh = TRUE, !.failed = FALSE]
Lower(c, x) == [c EXCEPT !.base = x, !.band = 0]

LEMMA CardLower ==
  ASSUME NEW c \in Card, NEW x \in CardPrices
  PROVE  Lower(c, x) \in Card /\ Lower(c, x).base = x /\ Lower(c, x).band = 0
  BY DEF Card, Lower

LEMMA CardLook ==
  ASSUME NEW c \in Card, NEW x \in CardPrices \union {NoPrice}, NEW n \in Counts, NEW band \in Nat
  PROVE  /\ Look(c, x, n, band) \in Card /\ Look(c, x, n, band).band = band
         /\ Look(c, x, n, band).base = c.base /\ Look(c, x, n, band).price = x
  BY DEF Card, Look

LEMMA CardType ==
  ASSUME card \in Card
  PROVE  /\ card.base \in Nat /\ card.price \in Nat /\ card.band \in Nat
         /\ card.token \in Tokens \union {NoToken}
<1>1. /\ card.base \in CardPrices \union {NoPrice} /\ card.price \in CardPrices \union {NoPrice}
      /\ card.band \in Nat /\ card.token \in Tokens \union {NoToken}
  BY DEF Card
<1>2. \A x \in CardPrices \union {NoPrice} : x \in Nat
  BY ConstantNats DEF NoPrice
<1>3. QED
  BY <1>1, <1>2

\* The band counted anew is that of a price no lower than the lowest one.
LEMMA EditMarketInv ==
  ASSUME AlertInv, EditMarket
  PROVE  AlertInv'
<1>1. OutboxOK' /\ SupplyOK'
  <2>1. UNCHANGED <<events, batch>>
    BY DEF EditMarket
  <2>2. OutboxOK'
    BY <2>1, RowsUnchanged, RowsStayOutbox DEF AlertInv
  <2>3. QED
    BY <2>2 DEF AlertInv, SupplyOK, EditMarket
<1>2. BoundsOK'
  <2>1. MaxEdits \in Nat
    BY AlertConstants
  <2>2. QED
    BY <2>1 DEF AlertInv, BoundsOK, EditMarket, Edit
<1>3. CardOK'
  <2>1. CardOK
    BY DEF AlertInv
  <2>2. PICK on \in BOOLEAN, r \in Rises :
          /\ market' = [enabled |-> on, rise |-> r]
          /\ card' = IF r = market.rise THEN card
                     ELSE [card EXCEPT !.band = IF card.price = NoPrice THEN 0
                                                ELSE Band(Highest(card.price, card.base), card.base, r)]
    BY DEF EditMarket
  <2>3. held' = held /\ market' \in [enabled : BOOLEAN, rise : Rises]
    BY <2>2 DEF EditMarket
  <2>4. CASE r = market.rise
    BY <2>1, <2>2, <2>3, <2>4 DEF CardOK
  <2>5. CASE r # market.rise
    <3> DEFINE band == IF card.price = NoPrice THEN 0
                       ELSE Band(Highest(card.price, card.base), card.base, r)
    <3>1. card \in Card /\ card.base \in Nat /\ card.price \in Nat
      BY <2>1, CardType DEF CardOK
    <3>2. r \in Nat
      BY AlertConstants
    <3>3. band \in Nat /\ (r = 0 => band = 0) /\ (card.base = NoPrice => band = 0)
      <4>1. CASE card.price = NoPrice
        BY <4>1
      <4>2. CASE card.price # NoPrice
        <5>1. card.base > 0
          BY <2>1, <3>1, <4>2 DEF CardOK, NoPrice
        <5>2. Highest(card.price, card.base) \in Nat /\ Highest(card.price, card.base) >= card.base
          BY <3>1 DEF Highest
        <5>3. Band(Highest(card.price, card.base), card.base, r) \in Nat
          BY <3>1, <3>2, <5>1, <5>2, BandType
        <5>4. r = 0 => Band(Highest(card.price, card.base), card.base, r) = 0
          BY DEF Band
        <5>5. QED
          BY <3>1, <4>2, <5>1, <5>3, <5>4 DEF NoPrice
      <4>3. QED
        BY <4>1, <4>2
    <3>4. card' = [card EXCEPT !.band = band]
      BY <2>2, <2>5
    <3> HIDE DEF band
    <3>5. card' \in Card /\ card'.band = band /\ card'.base = card.base /\ card'.price = card.price
      BY <3>1, <3>3, <3>4 DEF Card
    <3>6. QED
      BY <2>1, <2>2, <2>3, <3>3, <3>5 DEF CardOK
  <2>6. QED
    BY <2>4, <2>5
<1>4. QED
  BY <1>1, <1>2, <1>3 DEF AlertInv

\* The card's lease is taken or runs out, or a deadline passes.
LEMMA CardInv ==
  ASSUME AlertInv, CardComesDue \/ CardGoesStale \/ ClaimCard \/ CardLapses
  PROVE  AlertInv'
<1>1. OutboxOK' /\ SupplyOK'
  <2>1. UNCHANGED <<events, batch, offers, recent, alert>>
    BY DEF CardComesDue, CardGoesStale, ClaimCard, CardLapses
  <2>2. OutboxOK'
    BY <2>1, RowsUnchanged, RowsStayOutbox DEF AlertInv
  <2>3. QED
    BY <2>1, <2>2 DEF AlertInv, SupplyOK
<1>2. BoundsOK'
  <2>1. MaxMishaps \in Nat /\ BoundsOK
    BY AlertConstants DEF AlertInv
  <2>2. checks' = checks /\ edits' = edits /\ (mishaps' = mishaps \/ (mishaps < MaxMishaps /\ mishaps' = mishaps + 1))
    BY DEF CardComesDue, CardGoesStale, ClaimCard, CardLapses
  <2>3. QED
    BY <2>1, <2>2 DEF BoundsOK
<1>3. CardOK'
  <2>1. CardOK /\ market' = market
    BY DEF AlertInv, CardComesDue, CardGoesStale, ClaimCard, CardLapses
  <2>2. card \in Card
    BY <2>1 DEF CardOK
  <2>3. ASSUME card' \in Card, card'.base = card.base, card'.price = card.price, card'.band = card.band,
               held' \in Tokens \union {NoToken}
        PROVE  CardOK'
    BY <2>1, <2>3 DEF CardOK
  <2>4. CASE CardComesDue
    BY <2>1, <2>2, <2>3, <2>4 DEF CardComesDue, CardOK, Card
  <2>5. CASE CardGoesStale
    BY <2>1, <2>2, <2>3, <2>5 DEF CardGoesStale, CardOK, Card
  <2>6. CASE CardLapses
    BY <2>1, <2>2, <2>3, <2>6 DEF CardLapses, CardOK, Card
  <2>7. CASE ClaimCard
    <3> DEFINE k == CHOOSE fresh \in Tokens : fresh \notin {card.token, card.done}
    <3>1. \E x \in Tokens : x \notin {card.token, card.done}
      <4>1. card.token \in Tokens \union {NoToken} /\ card.done \in Tokens \union {NoToken}
        BY <2>2 DEF Card
      <4>2. Tokens # {} /\ \A x, y \in Tokens : Tokens \ {x, y} # {}
        BY AlertConstants
      <4>3. NoToken \notin Tokens
        BY AlertConstants
      <4>4. CASE card.token \in Tokens /\ card.done \in Tokens
        BY <4>2, <4>4
      <4>5. CASE card.token = NoToken /\ card.done = NoToken
        BY <4>2, <4>3, <4>5
      <4>6. CASE card.token \in Tokens /\ card.done = NoToken
        <5>1. Tokens \ {card.token, card.token} # {}
          BY <4>2, <4>6
        <5>2. QED
          BY <4>3, <4>6, <5>1
      <4>7. CASE card.token = NoToken /\ card.done \in Tokens
        <5>1. Tokens \ {card.done, card.done} # {}
          BY <4>2, <4>7
        <5>2. QED
          BY <4>3, <4>7, <5>1
      <4>8. QED
        BY <4>1, <4>4, <4>5, <4>6, <4>7
    <3>2. k \in Tokens
      BY <3>1
    <3>3. card' = [card EXCEPT !.token = k, !.live = TRUE] /\ (held' = k \/ held' = held)
      BY <2>7 DEF ClaimCard
    <3> HIDE DEF k
    <3>4. card' \in Card /\ card'.base = card.base /\ card'.price = card.price /\ card'.band = card.band
      BY <2>2, <3>2, <3>3 DEF Card
    <3>5. held' \in Tokens \union {NoToken}
      BY <2>1, <3>2, <3>3 DEF CardOK
    <3>6. QED
      BY <2>3, <3>4, <3>5
  <2>8. QED
    BY <2>4, <2>5, <2>6, <2>7
<1>4. QED
  BY <1>1, <1>2, <1>3 DEF AlertInv

\* What an answer makes of the card.
LEMMA LoweredCard ==
  ASSUME CardOK, NEW f \in Found, f.count = 1
  PROVE  /\ Lowered(f) \in Card
         /\ Lowered(f).base \in Nat /\ Lowered(f).base > 0 /\ Lowered(f).base <= f.price
         /\ \/ Lowered(f).base = card.base /\ Lowered(f).band = card.band
            \/ /\ Lowered(f).base # card.base /\ Lowered(f).band = 0
               /\ Lowered(f).base = f.price
<1>1. card \in Card /\ card.base \in Nat
  BY CardType DEF CardOK
<1>2. f.price \in CardPrices
  BY DEF Found
<1>3. f.price \in Nat /\ f.price > 0
  BY <1>2, ConstantNats
<1>4. CASE card.base = NoPrice \/ f.price < card.base
  <2>1. Lowered(f) = Lower(card, f.price)
    BY <1>4 DEF Lowered, Lower
  <2>2. Lowered(f) \in Card /\ Lowered(f).base = f.price /\ Lowered(f).band = 0
    BY <1>1, <1>2, <2>1, CardLower
  <2>3. f.price # card.base
    BY <1>1, <1>3, <1>4 DEF NoPrice
  <2>4. QED
    BY <1>3, <2>2, <2>3
<1>5. CASE ~(card.base = NoPrice \/ f.price < card.base)
  <2>1. Lowered(f) = card
    BY <1>5 DEF Lowered
  <2>2. QED
    BY <1>1, <1>3, <1>5, <2>1 DEF NoPrice
<1>6. QED
  BY <1>4, <1>5

LEMMA ObservedCard ==
  ASSUME CardOK, NEW f \in Found
  PROVE  /\ Observed(f) \in Card
         /\ Observed(f).base = NoPrice => Observed(f).price = NoPrice /\ Observed(f).band = 0
         /\ market.rise = 0 => Observed(f).band = 0
         /\ Observed(f).band < card.band => Observed(f).base # card.base
         /\ Observed(f).band > card.band => Announces(f)
<1>1. card \in Card /\ card.band \in Nat /\ (card.base = NoPrice => card.band = 0)
      /\ (market.rise = 0 => card.band = 0) /\ market.rise \in Nat
  <2>1. market.rise \in Rises
    BY DEF CardOK
  <2>2. market.rise \in Nat
    BY <2>1, ConstantNats
  <2>3. QED
    BY <2>2, CardType DEF CardOK
<1>2. CASE f.count = 1
  <2> DEFINE c == Lowered(f)
             band == NewBand(f)
  <2>1. /\ c \in Card /\ c.base \in Nat /\ c.base > 0 /\ c.base <= f.price
        /\ \/ c.base = card.base /\ c.band = card.band
           \/ c.base # card.base /\ c.band = 0
    BY <1>2, LoweredCard
  <2>2. f.price \in CardPrices /\ f.price \in Nat
    <3>1. f.price \in CardPrices
      BY <1>2 DEF Found
    <3>2. QED
      BY <3>1, ConstantNats
  <2>3. c.band \in Nat
    BY <2>1 DEF Card
  <2>4. Band(f.price, c.base, market.rise) \in Nat
    BY <1>1, <2>1, <2>2, BandType
  <2>5. /\ band \in Nat
        /\ market.rise = 0 => band = 0
        /\ band < card.band => c.base # card.base
        /\ band > card.band => Announces(f)
    <3>1. CASE ~Announces(f)
      <4>1. band = c.band
        BY <1>2, <3>1 DEF NewBand
      <4>2. QED
        BY <1>1, <2>1, <2>3, <3>1, <4>1
    <3>2. CASE Announces(f)
      <4>1. band = Band(f.price, c.base, market.rise)
        BY <1>2, <3>2 DEF NewBand
      <4>2. market.rise = 0 => band = 0
        BY <4>1 DEF Band
      <4>3. market.rise = 0 \/ band > c.band
        BY <1>2, <3>2, <4>1 DEF Announces
      <4>4. band \in Nat
        BY <2>4, <4>1
      <4> HIDE DEF band, c
      <4>5. QED
        BY <1>1, <2>1, <2>3, <3>2, <4>2, <4>3, <4>4
    <3>3. QED
      BY <3>1, <3>2
  <2>6. Observed(f) = Look(c, f.price, f.count, band)
    BY DEF Observed, Look
  <2> HIDE DEF c, band
  <2>7. /\ Observed(f) \in Card /\ Observed(f).band = band /\ Observed(f).base = c.base
    <3>1. f.price \in CardPrices \union {NoPrice} /\ f.count \in Counts /\ c \in Card /\ band \in Nat
      BY <1>2, <2>1, <2>2, <2>5 DEF Counts
    <3> DEFINE x == f.price
               k == f.count
               looked == Look(c, x, k, band)
    <3>2. x \in CardPrices \union {NoPrice} /\ k \in Counts
      BY <3>1
    <3> HIDE DEF x, k
    <3>3. looked \in Card /\ looked.band = band /\ looked.base = c.base
      BY <3>1, <3>2, CardLook
    <3>4. Observed(f) = looked
      BY <2>6 DEF x, k
    <3> HIDE DEF looked
    <3>5. QED
      BY <3>3, <3>4
  <2>8. QED
    BY <2>1, <2>5, <2>7 DEF NoPrice
<1>3. CASE f.count # 1
  <2>1. f.count = 0 /\ f.price = NoPrice
    BY <1>3 DEF Found
  <2>2. Lowered(f) = card /\ NewBand(f) = card.band
    BY <1>3 DEF Lowered, NewBand
  <2>3. Observed(f) = Look(card, f.price, f.count, card.band)
    BY <2>2 DEF Observed, Look
  <2>4. /\ Observed(f) \in Card /\ Observed(f).band = card.band /\ Observed(f).base = card.base
        /\ Observed(f).price = NoPrice
    <3>1. f.price \in CardPrices \union {NoPrice} /\ f.count \in Counts
      BY <2>1 DEF Counts
    <3>2. /\ Observed(f) \in Card /\ Observed(f).band = card.band /\ Observed(f).base = card.base
          /\ Observed(f).price = f.price
      BY <1>1, <2>3, <3>1, CardLook
    <3>3. QED
      BY <2>1, <3>2
  <2>5. QED
    BY <1>1, <2>4
<1>4. QED
  BY <1>2, <1>3

LEMMA CompletedCard ==
  ASSUME NEW c \in Card
  PROVE  /\ Completed(c) \in Card /\ Completed(c).base = c.base
         /\ Completed(c).price = c.price /\ Completed(c).band = c.band
  BY DEF Completed, Card

\* What complete_card does to the rows: nothing, or a result without a price,
\* or a card that was observed and perhaps announced.
LEMMA CompleteCases ==
  ASSUME CompleteCard
  PROVE  \/ UNCHANGED <<card, events, checks>>
         \/ card' = Completed([card EXCEPT !.failed = TRUE]) /\ UNCHANGED <<events, checks>>
         \/ \E f \in Found :
              /\ checks < MaxChecks /\ checks' = checks + 1
              /\ card' = Completed(Observed(f))
              /\ events' = IF Announces(f)
                           THEN Append(events, [kind |-> "market", price |-> f.price, mark |-> f.count,
                                                out |-> "no", told |-> FALSE])
                           ELSE events
<1>1. PICK f \in Found \union {Failed} :
       LET useful == market.enabled /\ f # Failed
       IN  IF held = card.token /\ card.live
           THEN /\ useful => checks < MaxChecks
                /\ checks' = IF useful THEN checks + 1 ELSE checks
                /\ card' = Completed(IF useful THEN Observed(f) ELSE [card EXCEPT !.failed = TRUE])
                /\ events' = IF useful /\ Announces(f)
                             THEN Append(events, [kind |-> "market", price |-> f.price, mark |-> f.count,
                                                  out |-> "no", told |-> FALSE])
                             ELSE events
           ELSE UNCHANGED <<card, events, checks>>
  BY DEF CompleteCard
<1>2. CASE ~(held = card.token /\ card.live)
  BY <1>1, <1>2
<1>3. CASE held = card.token /\ card.live /\ market.enabled /\ f # Failed
  BY <1>1, <1>3
<1>4. CASE held = card.token /\ card.live /\ ~(market.enabled /\ f # Failed)
  BY <1>1, <1>4
<1>5. QED
  BY <1>2, <1>3, <1>4

LEMMA CompleteCardInv ==
  ASSUME AlertInv, CompleteCard
  PROVE  AlertInv'
<1>1. CardOK /\ OutboxOK /\ BoundsOK /\ card \in Card /\ events \in Seq(Event)
  BY DEF AlertInv, CardOK, OutboxOK
<1>2. UNCHANGED <<offers, recent, alert, market, batch, edits>>
  BY DEF CompleteCard
<1>3. held' \in Tokens \union {NoToken}
  BY <1>1 DEF CompleteCard, CardOK
<1>4. mishaps' = mishaps \/ (mishaps < MaxMishaps /\ mishaps' = mishaps + 1)
  BY DEF CompleteCard
<1>5. CardOK' /\ RowsStay /\ (checks' = checks \/ (checks < MaxChecks /\ checks' = checks + 1))
  <2>1. CASE UNCHANGED <<card, events, checks>>
    BY <1>1, <1>2, <1>3, <2>1, RowsUnchanged DEF CardOK
  <2>2. CASE card' = Completed([card EXCEPT !.failed = TRUE]) /\ UNCHANGED <<events, checks>>
    <3> DEFINE c == [card EXCEPT !.failed = TRUE]
    <3>1. c \in Card /\ c.base = card.base /\ c.price = card.price /\ c.band = card.band
      BY <1>1 DEF Card
    <3>2. card' = Completed(c)
      BY <2>2
    <3> HIDE DEF c
    <3>3. card' \in Card /\ card'.base = card.base /\ card'.price = card.price /\ card'.band = card.band
      BY <3>1, <3>2, CompletedCard
    <3>4. CardOK'
      BY <1>1, <1>2, <1>3, <3>3 DEF CardOK
    <3>5. QED
      BY <1>1, <2>2, <3>4, RowsUnchanged
  <2>3. ASSUME NEW f \in Found,
               checks < MaxChecks, checks' = checks + 1,
               card' = Completed(Observed(f)),
               events' = IF Announces(f)
                         THEN Append(events, [kind |-> "market", price |-> f.price, mark |-> f.count,
                                              out |-> "no", told |-> FALSE])
                         ELSE events
        PROVE  CardOK' /\ RowsStay
    <3> DEFINE c == Observed(f)
    <3>1. /\ c \in Card
          /\ c.base = NoPrice => c.price = NoPrice /\ c.band = 0
          /\ market.rise = 0 => c.band = 0
      BY <1>1, ObservedCard
    <3>2. card' = Completed(c)
      BY <2>3
    <3> HIDE DEF c
    <3>3. card' \in Card /\ card'.base = c.base /\ card'.price = c.price /\ card'.band = c.band
      BY <3>1, <3>2, CompletedCard
    <3>4. CardOK'
      BY <1>1, <1>2, <1>3, <3>1, <3>3 DEF CardOK
    <3>5. CASE ~Announces(f)
      BY <1>1, <2>3, <3>4, <3>5, RowsUnchanged
    <3>6. CASE Announces(f)
      <4> DEFINE d == [kind |-> "market", price |-> f.price, mark |-> f.count, out |-> "no", told |-> FALSE]
      <4>1. f.price \in CardPrices \union {NoPrice} /\ f.count \in Counts
        BY DEF Found, Counts
      <4>2. d \in Event /\ d.out = "no"
        BY <4>1 DEF Event, Rise
      <4>3. events' = Append(events, d)
        BY <2>3, <3>6
      <4> HIDE DEF d
      <4>4. RowsStay
        BY <1>1, <4>2, <4>3, AppendStays
      <4>5. QED
        BY <3>4, <4>4
    <3>7. QED
      BY <3>5, <3>6
  <2>4. QED
    BY <2>1, <2>2, <2>3, CompleteCases
<1>6. OutboxOK'
  BY <1>1, <1>2, <1>5, RowsStayOutbox
<1>7. BoundsOK'
  <2>1. MaxChecks \in Nat /\ MaxMishaps \in Nat
    BY AlertConstants
  <2>2. QED
    BY <1>1, <1>2, <1>4, <1>5, <2>1 DEF BoundsOK
<1>8. QED
  BY <1>2, <1>5, <1>6, <1>7 DEF AlertInv, SupplyOK

(* The publisher. *)

\* The newest open events, and the ready ones among them.
LEMMA ReadBatchInv ==
  ASSUME AlertInv, ReadBatch
  PROVE  AlertInv'
<1>1. OutboxOK /\ events \in Seq(Event) /\ Len(events) \in Nat /\ DOMAIN events = 1 .. Len(events)
  BY DEF AlertInv, OutboxOK
<1> DEFINE S == {i \in Newest : Ready(events[i])}
<1>2. batch' = [ids |-> NewestFirst(S), sent |-> FALSE]
  BY DEF ReadBatch
<1>3. S \in SUBSET (1 .. Len(events))
  BY <1>1 DEF Newest
<1> HIDE DEF S
<1>4. NewestFirst(S) \in Seq(1 .. Len(events))
  <2>1. NewestFirst(S) \in Seq(S)
    BY <1>1, <1>3, NewestFirstRows
  <2>2. QED
    BY <1>3, <2>1, SeqMonotonic
<1>5. events' = [i \in DOMAIN events |->
                  IF i \in Newest /\ Suppressed(events[i]) THEN [events[i] EXCEPT !.out = "suppressed"] ELSE events[i]]
  BY DEF ReadBatch
<1>6. ASSUME NEW i \in DOMAIN events
      PROVE  /\ events'[i] \in Event /\ events'[i].told = events[i].told
             /\ events'[i].out = "sent" => events[i].out = "sent"
  <2>1. events[i] \in Event
    BY <1>1
  <2>2. CASE i \in Newest /\ Suppressed(events[i])
    <3>1. events'[i] = [events[i] EXCEPT !.out = "suppressed"]
      BY <1>5, <2>2
    <3>2. events'[i] \in Event /\ events'[i].told = events[i].told /\ events'[i].out = "suppressed"
      BY <2>1, <3>1, EventOut
    <3>3. QED
      BY <3>2
  <2>3. CASE ~(i \in Newest /\ Suppressed(events[i]))
    BY <1>5, <2>1, <2>3
  <2>4. QED
    BY <2>2, <2>3
<1>7. events' \in Seq(Event) /\ DOMAIN events' = DOMAIN events
  <2>1. DOMAIN events' = DOMAIN events /\ events' = [i \in DOMAIN events |-> events'[i]]
    BY <1>5
  <2>2. events' \in [1 .. Len(events) -> Event]
    BY <1>1, <1>6, <2>1
  <2>3. QED
    BY <1>1, <2>1, <2>2
<1>8. OutboxOK'
  <2>1. SentMeansTold'
    <3>1. ASSUME NEW i \in DOMAIN events', events'[i].out = "sent" PROVE events'[i].told
      BY <1>1, <1>6, <1>7, <3>1 DEF OutboxOK, SentMeansTold
    <3>2. QED
      BY <3>1 DEF SentMeansTold
  <2>2. batch' \in [ids : Seq(DOMAIN events'), sent : BOOLEAN] /\ batch'.sent = FALSE
    BY <1>1, <1>2, <1>4, <1>7
  <2>3. QED
    BY <1>7, <2>1, <2>2 DEF OutboxOK
<1>9. QED
  BY <1>8 DEF AlertInv, SupplyOK, CardOK, BoundsOK, ReadBatch

\* The event whose turn it is, and the batch without it.
LEMMA HeadOfBatch ==
  ASSUME OutboxOK, batch.ids # <<>>
  PROVE  /\ Head(batch.ids) \in DOMAIN events /\ events[Head(batch.ids)] \in Event
         /\ Passed \in [ids : Seq(DOMAIN events), sent : BOOLEAN] /\ Passed.sent = FALSE
<1>1. batch.ids \in Seq(DOMAIN events) /\ events \in Seq(Event)
  BY DEF OutboxOK
<1>2. Head(batch.ids) \in DOMAIN events /\ Tail(batch.ids) \in Seq(DOMAIN events)
  BY <1>1, HeadTailProperties
<1>3. events[Head(batch.ids)] \in Event
  BY <1>1, <1>2
<1>4. QED
  BY <1>2, <1>3 DEF Passed

\* One event is changed where it stands, and not into a sent one that was not told.
LEMMA OneChanged ==
  ASSUME OutboxOK, NEW h \in DOMAIN events, NEW e \in Event, events' = [events EXCEPT ![h] = e],
         e.out = "sent" => e.told,
         batch' \in [ids : Seq(DOMAIN events), sent : BOOLEAN],
         batch'.sent => batch'.ids # <<>> /\ Head(batch'.ids) = h /\ e.told
  PROVE  OutboxOK'
<1>1. events \in Seq(Event)
  BY DEF OutboxOK
<1>2. events' \in Seq(Event) /\ DOMAIN events' = DOMAIN events
  BY <1>1
<1>3. \A i \in DOMAIN events : events'[i] = IF i = h THEN e ELSE events[i]
  BY <1>1
<1>4. SentMeansTold'
  <2>1. ASSUME NEW i \in DOMAIN events', events'[i].out = "sent" PROVE events'[i].told
    BY <1>2, <1>3, <2>1 DEF OutboxOK, SentMeansTold
  <2>2. QED
    BY <2>1 DEF SentMeansTold
<1>5. batch'.sent => batch'.ids # <<>> /\ events'[Head(batch'.ids)].told
  BY <1>3
<1>6. QED
  BY <1>2, <1>4, <1>5 DEF OutboxOK

LEMMA SendInv ==
  ASSUME AlertInv, Send
  PROVE  AlertInv'
<1> DEFINE h == Head(batch.ids)
           e == [events[h] EXCEPT !.told = TRUE]
<1>1. OutboxOK /\ batch.ids # <<>>
  BY DEF AlertInv, Send
<1>2. h \in DOMAIN events /\ events[h] \in Event
  BY <1>1, HeadOfBatch
<1>3. e \in Event /\ e.told = TRUE
  BY <1>2, EventTold
<1>4. events' = [events EXCEPT ![h] = e]
  BY DEF Send
<1>5. batch' \in [ids : Seq(DOMAIN events), sent : BOOLEAN] /\ batch'.ids = batch.ids
  BY <1>1 DEF OutboxOK, Send
<1>6. Head(batch'.ids) = h
  BY <1>5
<1> HIDE DEF h, e
<1>7. OutboxOK'
  BY <1>1, <1>2, <1>3, <1>4, <1>5, <1>6, OneChanged
<1>8. QED
  BY <1>7 DEF AlertInv, SupplyOK, CardOK, BoundsOK, Send

LEMMA SendFailsInv ==
  ASSUME AlertInv, SendFails
  PROVE  AlertInv'
<1> DEFINE h == Head(batch.ids)
<1>1. OutboxOK /\ batch.ids # <<>> /\ batch' = Passed
  BY DEF AlertInv, SendFails
<1>2. PICK taken \in BOOLEAN : events' = [events EXCEPT ![h].told = @ \/ taken]
  BY DEF SendFails
<1> DEFINE b == events[h].told \/ taken
           e == [events[h] EXCEPT !.told = b]
<1>3. h \in DOMAIN events /\ events[h] \in Event
      /\ batch' \in [ids : Seq(DOMAIN events), sent : BOOLEAN] /\ batch'.sent = FALSE
  BY <1>1, HeadOfBatch
<1>4. events' = [events EXCEPT ![h] = e]
  BY <1>2
<1>5. b \in BOOLEAN /\ (events[h].told => b)
  OBVIOUS
<1> HIDE DEF b
<1>6. e \in Event /\ e.told = b /\ e.out = events[h].out
  BY <1>3, <1>5, EventTold
<1> HIDE DEF h, e
<1>7. e.out = "sent" => e.told
  BY <1>1, <1>3, <1>5, <1>6 DEF OutboxOK, SentMeansTold
<1>8. OutboxOK'
  BY <1>1, <1>3, <1>4, <1>6, <1>7, OneChanged
<1>9. BoundsOK'
  <2>1. MaxMishaps \in Nat
    BY AlertConstants
  <2>2. QED
    BY <2>1 DEF AlertInv, BoundsOK, SendFails
<1>10. QED
  BY <1>8, <1>9 DEF AlertInv, SupplyOK, CardOK, SendFails

LEMMA RecordInv ==
  ASSUME AlertInv, Record
  PROVE  AlertInv'
<1> DEFINE h == Head(batch.ids)
           e == [events[h] EXCEPT !.out = "sent"]
<1>1. OutboxOK /\ batch.ids # <<>> /\ batch.sent /\ batch' = Passed
  BY DEF AlertInv, Record, Recordable
<1>2. h \in DOMAIN events /\ events[h] \in Event
      /\ batch' \in [ids : Seq(DOMAIN events), sent : BOOLEAN] /\ batch'.sent = FALSE
  BY <1>1, HeadOfBatch
<1>3. events[h].told
  BY <1>1 DEF OutboxOK
<1>4. e \in Event /\ e.told = events[h].told
  BY <1>2, EventOut
<1>5. events' = [events EXCEPT ![h] = e]
  BY DEF Record
<1> HIDE DEF h, e
<1>6. OutboxOK'
  BY <1>1, <1>2, <1>3, <1>4, <1>5, OneChanged
<1>7. QED
  BY <1>6 DEF AlertInv, SupplyOK, CardOK, BoundsOK, Record

LEMMA CrashInv ==
  ASSUME AlertInv, PublisherCrashes
  PROVE  AlertInv'
<1>1. OutboxOK'
  BY DEF AlertInv, OutboxOK, SentMeansTold, PublisherCrashes, NoBatch
<1>2. BoundsOK'
  <2>1. MaxMishaps \in Nat
    BY AlertConstants
  <2>2. QED
    BY <2>1 DEF AlertInv, BoundsOK, PublisherCrashes
<1>3. QED
  BY <1>1, <1>2 DEF AlertInv, SupplyOK, CardOK, PublisherCrashes

LEMMA NextInv == AlertInv /\ [Next]_vars => AlertInv'
<1> SUFFICES ASSUME AlertInv, [Next]_vars PROVE AlertInv'
  OBVIOUS
<1>1. ASSUME NEW o \in Offer, Observe(o) PROVE AlertInv'
  BY <1>1, ObserveInv
<1>2. ASSUME NEW i \in DOMAIN events, HalfAnHourPasses(i) PROVE AlertInv'
  BY <1>2, HalfAnHourInv
<1>3. CASE EditAlert \/ TenMinutesPass
  BY <1>3, SupplyInv
<1>4. CASE EditMarket
  BY <1>4, EditMarketInv
<1>5. CASE CardComesDue \/ CardGoesStale \/ ClaimCard \/ CardLapses
  BY <1>5, CardInv
<1>6. CASE CompleteCard
  BY <1>6, CompleteCardInv
<1>7. CASE ReadBatch
  BY <1>7, ReadBatchInv
<1>8. CASE Send
  BY <1>8, SendInv
<1>9. CASE SendFails
  BY <1>9, SendFailsInv
<1>10. CASE Record
  BY <1>10, RecordInv
<1>11. CASE PublisherCrashes
  BY <1>11, CrashInv
<1>12. CASE UNCHANGED vars
  BY <1>12 DEF vars, AlertInv, SupplyOK, CardOK, OutboxOK, SentMeansTold, BoundsOK
<1>13. QED
  BY <1>1, <1>2, <1>3, <1>4, <1>5, <1>6, <1>7, <1>8, <1>9, <1>10, <1>11, <1>12 DEF Next

LEMMA SpecInv == Spec => []AlertInv
  BY InitInv, NextInv, PTL DEF Spec

\* Every reachable state has the types of the tables' columns, among them that
\* a price fall, a band and the members of a batch are what they should be.
THEOREM AlertTypeOK == Spec => []TypeOK
<1>1. AlertInv => TypeOK
  BY DEF AlertInv, SupplyOK, CardOK, OutboxOK, BoundsOK, Event, TypeOK
<1>2. QED
  BY <1>1, SpecInv, PTL

\* _record_publish_result marks an event as published only after Telegram took
\* its message, wherever the publisher died before, and whatever was edited,
\* observed or appended between the reading of the batch and the mark.
THEOREM NothingIsMarkedUntold == Spec => []SentMeansTold
<1>1. AlertInv => SentMeansTold
  BY DEF AlertInv, OutboxOK
<1>2. QED
  BY <1>1, SpecInv, PTL

\* What the action property says of one step.
BandStep ==
  /\ card'.band < card.band => card'.base # card.base \/ market'.rise # market.rise
  /\ market'.rise = market.rise =>
       /\ RiseAnnounced =>
            card'.price > (IF card.price = NoPrice THEN card.base ELSE card.price)
       /\ market.rise # 0 => (RiseAnnounced <=> card'.band > card.band)

\* An announced rise is above the last price and, under a percentage, in a
\* higher band than the one announced before.
LEMMA AnnouncedRise ==
  ASSUME CardOK, NEW f \in Found, f.count = 1, Announces(f)
  PROVE  /\ Observed(f).price > (IF card.price = NoPrice THEN card.base ELSE card.price)
         /\ market.rise # 0 => Observed(f).band > card.band
<1> DEFINE c == Lowered(f)
           band == Band(f.price, c.base, market.rise)
<1>1. card.band \in Nat /\ card.base \in Nat /\ market.rise \in Nat
  <2>1. market.rise \in Rises /\ card \in Card
    BY DEF CardOK
  <2>2. QED
    BY <2>1, ConstantNats, CardType DEF CardOK, Card
<1>2. f.price \in Nat /\ f.price > 0
  <2>1. f.price \in CardPrices
    BY DEF Found
  <2>2. QED
    BY <2>1, ConstantNats
<1>3. /\ c \in Card /\ c.base \in Nat /\ c.base > 0 /\ c.base <= f.price
      /\ \/ c.base = card.base /\ c.band = card.band
         \/ c.base # card.base /\ c.band = 0 /\ c.base = f.price
  BY LoweredCard
<1>4. /\ f.price > (IF card.price = NoPrice THEN c.base ELSE card.price)
      /\ market.rise = 0 \/ band > c.band
  BY DEF Announces
<1>5. Observed(f).price = f.price /\ Observed(f).band = band
  <2>1. NewBand(f) = band
    BY DEF NewBand
  <2>2. Observed(f) = Look(c, f.price, f.count, band)
    BY <2>1 DEF Observed, Look
  <2> HIDE DEF c, band
  <2>3. QED
    BY <1>3, <2>2 DEF Look, Card
<1>6. market.rise # 0 => band > card.band
  <2>1. CASE c.base = card.base
    BY <1>3, <1>4, <2>1
  <2>2. CASE c.base # card.base /\ market.rise # 0
    <3>1. c.base = f.price /\ c.band = 0
      BY <1>3, <2>2
    <3>2. band = 0
      BY <1>1, <1>2, <2>2, <3>1, ZeroBand
    <3>3. QED
      BY <1>4, <2>2, <3>1, <3>2
  <2>3. QED
    BY <2>1, <2>2
<1> HIDE DEF c, band
<1>7. QED
  BY <1>1, <1>2, <1>3, <1>4, <1>5, <1>6

\* Only the card's check announces a rise.
LEMMA NoRise ==
  ASSUME AlertInv, Next, ~CompleteCard
  PROVE  ~RiseAnnounced
<1>1. events \in Seq(Event) /\ Len(events) \in Nat
  BY DEF AlertInv, OutboxOK
<1>2. events' \in Seq(Event)
  BY NextInv DEF AlertInv, OutboxOK
<1>3. CASE events' = events
  BY <1>1, <1>3 DEF RiseAnnounced
<1>4. CASE DOMAIN events' = DOMAIN events
  <2>1. Len(events') = Len(events)
    BY <1>1, <1>2, <1>4
  <2>2. QED
    BY <1>1, <2>1 DEF RiseAnnounced
<1>5. ASSUME NEW o \in Offer, Observe(o) PROVE ~RiseAnnounced
  <2> DEFINE d == DropOf(offers, o)
  <2>1. events' = Older(o) \/ events' = Append(Older(o), d)
    BY <1>5 DEF Observe, Older
  <2>2. Older(o) \in Seq(Event) /\ DOMAIN Older(o) = DOMAIN events
    BY <1>1, OlderRows
  <2>3. d.kind = "drop"
    BY DEF DropOf
  <2> HIDE DEF d
  <2>4. CASE events' = Older(o)
    BY <1>4, <2>2, <2>4
  <2>5. CASE events' = Append(Older(o), d)
    <3>1. Len(events') = Len(Older(o)) + 1 /\ events'[Len(Older(o)) + 1] = d
      BY <2>2, <2>5
    <3>2. Last(events') = d
      BY <3>1 DEF Last
    <3>3. QED
      BY <2>3, <3>2 DEF RiseAnnounced
  <2>6. QED
    BY <2>1, <2>4, <2>5
<1>6. CASE \E i \in DOMAIN events : HalfAnHourPasses(i)
  BY <1>4, <1>6 DEF HalfAnHourPasses
<1>7. CASE ReadBatch \/ Send \/ SendFails \/ Record
  <2>1. CASE ReadBatch
    BY <1>4, <2>1 DEF ReadBatch
  <2>2. CASE Send
    BY <1>4, <2>2 DEF Send
  <2>3. CASE SendFails
    BY <1>4, <2>3 DEF SendFails
  <2>4. CASE Record
    BY <1>4, <2>4 DEF Record
  <2>5. QED
    BY <1>7, <2>1, <2>2, <2>3, <2>4
<1>8. CASE TenMinutesPass \/ EditAlert \/ EditMarket
  BY <1>3, <1>8 DEF TenMinutesPass, EditAlert, EditMarket
<1>9. CASE CardComesDue \/ CardGoesStale \/ ClaimCard \/ CardLapses \/ PublisherCrashes
  BY <1>3, <1>9 DEF CardComesDue, CardGoesStale, ClaimCard, CardLapses, PublisherCrashes
<1>10. QED
  BY <1>5, <1>6, <1>7, <1>8, <1>9 DEF Next

LEMMA BandMoves == AlertInv /\ [Next]_vars => [BandStep]_vars
<1> SUFFICES ASSUME AlertInv, Next PROVE BandStep
  OBVIOUS
<1>1. CardOK /\ card \in Card /\ card.band \in Nat
  BY CardType DEF AlertInv, CardOK
<1>2. ~(card.band < card.band) /\ ~(card.band > card.band)
  BY <1>1
<1>3. CASE card'.band = card.band /\ ~RiseAnnounced
  BY <1>2, <1>3 DEF BandStep
<1>4. CASE card' = card /\ ~RiseAnnounced
  BY <1>2, <1>4 DEF BandStep
<1>5. ~CompleteCard => ~RiseAnnounced
  BY NoRise
<1>6. events' = events => ~RiseAnnounced
  <2>1. Len(events) \in Nat
    BY DEF AlertInv, OutboxOK
  <2>2. QED
    BY <2>1 DEF RiseAnnounced
<1>7. CASE EditMarket /\ ~CompleteCard
  <2>1. PICK on \in BOOLEAN, r \in Rises :
          /\ market' = [enabled |-> on, rise |-> r]
          /\ r = market.rise => card' = card
    BY <1>7 DEF EditMarket
  <2>2. market'.rise = r
    BY <2>1
  <2>3. QED
    BY <1>4, <1>7, <1>5, <2>1, <2>2 DEF BandStep
<1>8. CASE CompleteCard
  <2>1. CASE UNCHANGED <<card, events, checks>>
    BY <1>4, <1>6, <2>1
  <2>2. CASE card' = Completed([card EXCEPT !.failed = TRUE]) /\ events' = events
    <3> DEFINE c == [card EXCEPT !.failed = TRUE]
    <3>1. c \in Card /\ c.band = card.band
      BY <1>1 DEF Card
    <3>2. card' = Completed(c)
      BY <2>2
    <3> HIDE DEF c
    <3>3. card'.band = card.band
      BY <3>1, <3>2, CompletedCard
    <3>4. QED
      BY <1>3, <1>6, <2>2, <3>3
  <2>3. ASSUME NEW f \in Found, card' = Completed(Observed(f)),
               events' = IF Announces(f)
                         THEN Append(events, [kind |-> "market", price |-> f.price, mark |-> f.count,
                                              out |-> "no", told |-> FALSE])
                         ELSE events
        PROVE  BandStep
    <3> DEFINE c == Observed(f)
    <3>1. /\ c \in Card
          /\ c.band < card.band => c.base # card.base
          /\ c.band > card.band => Announces(f)
      BY <1>1, ObservedCard
    <3>2. card' = Completed(c)
      BY <2>3
    <3> HIDE DEF c
    <3>3. card'.base = c.base /\ card'.band = c.band /\ card'.price = c.price
      BY <3>1, <3>2, CompletedCard
    <3>4. market' = market
      BY <1>8 DEF CompleteCard
    <3>5. CASE ~Announces(f)
      <4>1. ~RiseAnnounced
        BY <1>6, <2>3, <3>5
      <4>2. ~(c.band > card.band)
        BY <3>1, <3>5
      <4>3. QED
        BY <3>1, <3>3, <4>1, <4>2 DEF BandStep
    <3>6. CASE Announces(f)
      <4> DEFINE d == [kind |-> "market", price |-> f.price, mark |-> f.count, out |-> "no", told |-> FALSE]
      <4>1. events' = Append(events, d)
        BY <2>3, <3>6
      <4>2. d.kind = "market" /\ d.mark = f.count
        OBVIOUS
      <4> HIDE DEF d
      <4>3. events \in Seq(Event) /\ Len(events) \in Nat
        BY DEF AlertInv, OutboxOK
      <4>4. Len(events') = Len(events) + 1 /\ events'[Len(events) + 1] = d
        BY <4>1, <4>3
      <4>5. Last(events') = d
        BY <4>4 DEF Last
      <4>6. RiseAnnounced <=> f.count = 1
        BY <4>2, <4>3, <4>4, <4>5 DEF RiseAnnounced
      <4>7. CASE f.count = 1
        <5>1. /\ c.price > (IF card.price = NoPrice THEN card.base ELSE card.price)
              /\ market.rise # 0 => c.band > card.band
          BY <1>1, <3>6, <4>7, AnnouncedRise DEF c
        <5>2. QED
          BY <3>1, <3>3, <3>4, <4>6, <4>7, <5>1 DEF BandStep
      <4>8. CASE f.count # 1
        <5>1. c.band = card.band
          <6>1. Lowered(f) = card /\ NewBand(f) = card.band
            BY <4>8 DEF Lowered, NewBand
          <6>2. Observed(f).band = card.band
            BY <1>1, <6>1 DEF Observed, Card
          <6>3. QED
            BY <6>2 DEF c
        <5>2. QED
          BY <1>3, <3>3, <4>6, <4>8, <5>1
      <4>9. QED
        BY <4>7, <4>8
    <3>7. QED
      BY <3>5, <3>6
  <2>4. QED
    BY <1>8, <2>1, <2>2, <2>3, CompleteCases
<1>9. CASE (CardComesDue \/ CardGoesStale \/ ClaimCard \/ CardLapses) /\ ~CompleteCard
  <2>1. card'.band = card.band
    <3>2. CASE CardComesDue
      BY <1>1, <3>2 DEF CardComesDue, Card
    <3>3. CASE CardGoesStale
      BY <1>1, <3>3 DEF CardGoesStale, Card
    <3>4. CASE CardLapses
      BY <1>1, <3>4 DEF CardLapses, Card
    <3>5. CASE ClaimCard
      BY <1>1, <3>5 DEF ClaimCard, Card
    <3>6. QED
      BY <1>9, <3>2, <3>3, <3>4, <3>5
  <2>2. QED
    BY <1>3, <1>9, <1>5, <2>1
<1>10. ASSUME ~EditMarket, ~CompleteCard, ~(CardComesDue \/ CardGoesStale \/ ClaimCard \/ CardLapses)
      PROVE  card' = card
  BY <1>10 DEF Next, Observe, TenMinutesPass, HalfAnHourPasses, EditAlert, ReadBatch, Send, SendFails,
              Record, PublisherCrashes
<1>11. QED
  BY <1>4, <1>7, <1>8, <1>9, <1>10, <1>5

\* A rise is announced once (complete_card, update_settings): under one
\* percentage and one lowest price the announced band never falls, and a rise is
\* announced exactly by the check that moves it up, so no band is announced
\* twice; without a percentage every announced price is above the last one.
THEOREM RisesAreAnnouncedOnce == Spec => BandOnlyRises
<1>1. AlertInv /\ [Next]_vars => [BandStep]_vars
  BY BandMoves
<1>2. QED
  BY <1>1, SpecInv, PTL DEF Spec, BandOnlyRises, BandStep

=============================================================================
