-------------------------- MODULE RepricingProofs --------------------------
(***************************************************************************)
(* Proofs about PriceRules and Repricing, for any shops, markets, costs,   *)
(* amounts and number of outside changes: the floor is the least price     *)
(* that earns the minimum; types; no price goes out for stock below the    *)
(* floor; the owner's shops start no race.                                 *)
(*                                                                         *)
(* The first parts have no state: least and greatest members, the floor,   *)
(* the most profitable price, and what each rule may answer (Safe, Fair).  *)
(* LoopInv adds to the types that a cycle in a state row is none or a      *)
(* complete one, and that a row planned for stock carries a price other    *)
(* than the one its scan saw: the ordinary rule may answer with the own    *)
(* price, which may lie below the floor, and such an answer is not planned.*)
(***************************************************************************)
EXTENDS Repricing, TLAPS, FiniteSetTheorems, WellFoundedInduction

-----------------------------------------------------------------------------
(* Least and greatest members. *)

\* Every set of natural numbers has a least member.
LEMMA LeastOf ==
  ASSUME NEW T \in SUBSET Nat, T # {}
  PROVE  \E n \in T : \A m \in T : n <= m
<1>1. PICK n \in T : \A m \in T : ~(<<m, n>> \in OpToRel(<, Nat))
  BY NatLessThanWellFounded, WFMin
<1>2. \A m \in T : ~(m < n)
  BY <1>1 DEF OpToRel
<1>3. QED
  BY <1>2

\* Min and Max of a bounded set are what their names say.
LEMMA MinIs ==
  ASSUME NEW S \in SUBSET Int, S # {}, NEW lo \in Int, \A x \in S : lo <= x
  PROVE  /\ Min(S) \in S /\ Min(S) \in Int
         /\ \A x \in S : Min(S) <= x
<1>1. {x - lo : x \in S} \in SUBSET Nat /\ {x - lo : x \in S} # {}
  <2>1. \A x \in S : x - lo \in Nat
    OBVIOUS
  <2>2. QED
    BY <2>1
<1>2. PICK n \in {x - lo : x \in S} : \A m \in {x - lo : x \in S} : n <= m
  BY <1>1, LeastOf
<1>3. PICK y \in S : n = y - lo
  OBVIOUS
<1>4. ASSUME NEW x \in S PROVE n <= x - lo
  BY <1>2
<1>5. \A x \in S : y <= x
  BY <1>3, <1>4
<1>6. Min(S) \in S /\ \A x \in S : Min(S) <= x
  BY <1>5, Zenon DEF Min
<1>7. QED
  BY <1>6

LEMMA MaxIs ==
  ASSUME NEW S \in SUBSET Int, S # {}, NEW hi \in Int, \A x \in S : x <= hi
  PROVE  /\ Max(S) \in S /\ Max(S) \in Int
         /\ \A x \in S : x <= Max(S)
<1>1. {hi - x : x \in S} \in SUBSET Nat /\ {hi - x : x \in S} # {}
  <2>1. \A x \in S : hi - x \in Nat
    OBVIOUS
  <2>2. QED
    BY <2>1
<1>2. PICK n \in {hi - x : x \in S} : \A m \in {hi - x : x \in S} : n <= m
  BY <1>1, LeastOf
<1>3. PICK y \in S : n = hi - y
  OBVIOUS
<1>4. ASSUME NEW x \in S PROVE n <= hi - x
  BY <1>2
<1>5. \A x \in S : y >= x
  BY <1>3, <1>4
<1>6. Max(S) \in S /\ \A x \in S : Max(S) >= x
  BY <1>5, Zenon DEF Max
<1>7. QED
  BY <1>6

LEMMA MinOfTwo ==
  ASSUME NEW a \in Int, NEW b \in Int
  PROVE  Min({a, b}) = IF a <= b THEN a ELSE b
<1>1. PICK lo \in {a, b} : lo <= a /\ lo <= b
  OBVIOUS
<1>2. {a, b} \in SUBSET Int /\ {a, b} # {} /\ lo \in Int /\ \A x \in {a, b} : lo <= x
  BY <1>1
<1>3. Min({a, b}) \in {a, b} /\ \A x \in {a, b} : Min({a, b}) <= x
  BY <1>2, MinIs
<1>4. QED
  BY <1>3

LEMMA MaxOfTwo ==
  ASSUME NEW a \in Int, NEW b \in Int
  PROVE  Max({a, b}) = IF a >= b THEN a ELSE b
<1>1. PICK hi \in {a, b} : a <= hi /\ b <= hi
  OBVIOUS
<1>2. {a, b} \in SUBSET Int /\ {a, b} # {} /\ hi \in Int /\ \A x \in {a, b} : x <= hi
  BY <1>1
<1>3. Max({a, b}) \in {a, b} /\ \A x \in {a, b} : x <= Max({a, b})
  BY <1>2, MaxIs
<1>4. QED
  BY <1>3

LEMMA MinOfThree ==
  ASSUME NEW a \in Int, NEW b \in Int, NEW c \in Int
  PROVE  /\ Min({a, b, c}) \in {a, b, c} /\ Min({a, b, c}) \in Int
         /\ Min({a, b, c}) <= a /\ Min({a, b, c}) <= b /\ Min({a, b, c}) <= c
<1>1. PICK lo \in {a, b, c} : lo <= a /\ lo <= b /\ lo <= c
  OBVIOUS
<1>2. {a, b, c} \in SUBSET Int /\ {a, b, c} # {} /\ lo \in Int /\ \A x \in {a, b, c} : lo <= x
  BY <1>1
<1>3. Min({a, b, c}) \in {a, b, c} /\ \A x \in {a, b, c} : Min({a, b, c}) <= x
  BY <1>2, MinIs
<1>4. QED
  BY <1>3

LEMMA MaxOfThree ==
  ASSUME NEW a \in Int, NEW b \in Int, NEW c \in Int
  PROVE  /\ Max({a, b, c}) \in {a, b, c} /\ Max({a, b, c}) \in Int
         /\ a <= Max({a, b, c}) /\ b <= Max({a, b, c}) /\ c <= Max({a, b, c})
<1>1. PICK hi \in {a, b, c} : a <= hi /\ b <= hi /\ c <= hi
  OBVIOUS
<1>2. {a, b, c} \in SUBSET Int /\ {a, b, c} # {} /\ hi \in Int /\ \A x \in {a, b, c} : x <= hi
  BY <1>1
<1>3. Max({a, b, c}) \in {a, b, c} /\ \A x \in {a, b, c} : x <= Max({a, b, c})
  BY <1>2, MaxIs
<1>4. QED
  BY <1>3

-----------------------------------------------------------------------------
(* The safe floor. *)

Bands == {0} \cup Breaks

\* The tariff of a price is that of the band it lies in.
LEMMA TariffOf ==
  ASSUME NEW p \in Int
  PROVE  /\ Tariff(p) \in Nat
         /\ \E b \in Bands : Tariff(b) = Tariff(p) /\ (b <= p \/ p < 0)
<1>1. 0 \in Bands /\ 1000 \in Bands /\ 3000 \in Bands /\ 5000 \in Bands /\ 10000 \in Bands
  BY DEF Bands, Breaks
<1>2. Tariff(p) \in Nat
  BY DEF Tariff
<1>3. CASE p < 1000
  BY <1>1, <1>2, <1>3 DEF Tariff
<1>4. CASE 1000 <= p /\ p < 3000
  BY <1>1, <1>2, <1>4 DEF Tariff
<1>5. CASE 3000 <= p /\ p < 5000
  BY <1>1, <1>2, <1>5 DEF Tariff
<1>6. CASE 5000 <= p /\ p < 10000
  BY <1>1, <1>2, <1>6 DEF Tariff
<1>7. CASE 10000 <= p
  BY <1>1, <1>2, <1>7 DEF Tariff
<1>8. QED
  BY <1>3, <1>4, <1>5, <1>6, <1>7

LEMMA BandOf ==
  ASSUME NEW p \in Int, NEW q \in Int, NEW b \in Bands,
         b <= p, p <= q, Tariff(q) = Tariff(b)
  PROVE  Tariff(p) = Tariff(b)
BY DEF Tariff, Bands, Breaks

LEMMA RoundedUp ==
  ASSUME NEW x \in Nat
  PROVE  /\ (x + 84) \div 85 \in Nat
         /\ 85 * ((x + 84) \div 85) >= x
         /\ 85 * ((x + 84) \div 85) < x + 85
OBVIOUS

\* Inside a band the profit reaches the minimum from InBand on.
LEMMA InBandIs ==
  ASSUME NEW c \in Nat, NEW b \in Bands
  PROVE  /\ InBand(b, c) \in Nat \ {0}
         /\ \A p \in Int : p >= InBand(b, c)
                            <=> p >= b /\ 85 * p >= 100 * (c + MinProfit + Tariff(b))
<1> DEFINE need == 100 * (c + MinProfit + Tariff(b))
           up == (need + 84) \div 85
<1>1. b \in Nat /\ MinProfit \in Nat /\ Tariff(b) \in Nat \ {0}
  BY RulesAssumption DEF Bands, Breaks, Tariff
<1>2. need \in Nat \ {0}
  BY <1>1
<1>3. InBand(b, c) = Max({b, up})
  BY DEF InBand
<1> HIDE DEF need
<1>4. up \in Nat /\ 85 * up >= need /\ 85 * up < need + 85
  BY <1>2, RoundedUp
<1> HIDE DEF up
<1>5. InBand(b, c) = IF b >= up THEN b ELSE up
  BY <1>1, <1>3, <1>4, MaxOfTwo
<1>6. up # 0
  BY <1>2, <1>4
<1>7. \A p \in Int : p >= up <=> 85 * p >= need
  BY <1>2, <1>4
<1>8. QED
  BY <1>1, <1>4, <1>5, <1>6, <1>7 DEF need

\* calculate_safe_floor, for every cost and every minimum profit: the floor earns
\* the minimum, and no lower price does, whatever the tariff bands in between.
THEOREM FloorOfCost ==
  ASSUME NEW c \in Nat
  PROVE  /\ SafeFloor(c) \in Nat \ {0}
         /\ Profit(SafeFloor(c), c) >= 100 * MinProfit
         /\ \A p \in Int : p < SafeFloor(c) => Profit(p, c) < 100 * MinProfit
<1> DEFINE F == {p \in {InBand(b, c) : b \in Bands} :
                   \E b \in Bands : p = InBand(b, c) /\ Tariff(p) = Tariff(b)}
<1>1. SafeFloor(c) = Min(F)
  BY DEF SafeFloor, Bands
<1>2. \A b \in Bands : InBand(b, c) \in Nat \ {0}
  BY InBandIs
<1>3. F \in SUBSET Int /\ \A p \in F : p \in Nat \ {0} /\ 0 <= p
  BY <1>2
<1>4. InBand(10000, c) \in F
  <2>1. 10000 \in Bands
    BY DEF Bands, Breaks
  <2>2. InBand(10000, c) >= 10000
    BY <1>2, <2>1, InBandIs
  <2>3. Tariff(InBand(10000, c)) = Tariff(10000)
    BY <1>2, <2>1, <2>2 DEF Tariff
  <2>4. QED
    BY <2>1, <2>3
<1>5. SafeFloor(c) \in F /\ \A p \in F : SafeFloor(c) <= p
  <2>1. F # {} /\ 0 \in Int /\ \A p \in F : 0 <= p
    BY <1>3, <1>4
  <2> HIDE DEF F
  <2>2. QED
    BY <1>1, <1>3, <2>1, MinIs
<1>6. PICK b \in Bands : SafeFloor(c) = InBand(b, c) /\ Tariff(SafeFloor(c)) = Tariff(b)
  BY <1>5
<1>7. SafeFloor(c) \in Nat \ {0}
  BY <1>3, <1>5
<1>8. Profit(SafeFloor(c), c) >= 100 * MinProfit
  <2>1. 85 * SafeFloor(c) >= 100 * (c + MinProfit + Tariff(b))
    BY <1>6, <1>7, InBandIs
  <2>2. Tariff(b) \in Nat /\ MinProfit \in Nat
    BY <1>6, RulesAssumption DEF Tariff, Bands, Breaks
  <2>3. QED
    BY <1>6, <1>7, <2>1, <2>2 DEF Profit
<1>9. ASSUME NEW p \in Int, Profit(p, c) >= 100 * MinProfit
      PROVE  SafeFloor(c) <= p
  <2>1. MinProfit \in Nat /\ Tariff(p) \in Nat
    BY RulesAssumption, TariffOf
  <2>2. 85 * p >= 100 * (c + MinProfit + Tariff(p))
    BY <1>9, <2>1 DEF Profit
  <2>3. p >= 0
    BY <2>1, <2>2
  <2>4. PICK d \in Bands : Tariff(d) = Tariff(p) /\ d <= p
    BY <2>3, TariffOf
  <2>5. InBand(d, c) <= p
    BY <2>2, <2>4, InBandIs
  <2>6. InBand(d, c) \in Int /\ d <= InBand(d, c)
    BY InBandIs
  <2>7. Tariff(InBand(d, c)) = Tariff(d)
    BY <2>4, <2>5, <2>6, BandOf
  <2>8. InBand(d, c) \in F
    BY <2>7
  <2>9. QED
    BY <1>5, <1>7, <2>5, <2>6, <2>8
<1>10. ASSUME NEW p \in Int, p < SafeFloor(c)
       PROVE  Profit(p, c) < 100 * MinProfit
  <2>1. ~(SafeFloor(c) <= p)
    BY <1>7, <1>10
  <2>2. Profit(p, c) \in Int /\ MinProfit \in Nat
    BY TariffOf, RulesAssumption DEF Profit
  <2>3. QED
    BY <1>9, <2>1, <2>2
<1>11. QED
  BY <1>7, <1>8, <1>10

-----------------------------------------------------------------------------
(* The most profitable price. *)

LEMMA ProfitIsInt ==
  ASSUME NEW p \in Int, NEW c \in Nat
  PROVE  Profit(p, c) \in Int
BY TariffOf DEF Profit

\* The members of S with the greatest profit have a greatest member.
LEMMA MostProfitable ==
  ASSUME NEW S \in SUBSET Int, S # {}, NEW hi \in Nat, \A p \in S : p <= hi, NEW c \in Nat
  PROVE  \E p \in S : \A q \in S : \/ Profit(q, c) < Profit(p, c)
                                   \/ Profit(q, c) = Profit(p, c) /\ q <= p
<1> DEFINE G == {Profit(q, c) : q \in S}
           T == {q \in S : Profit(q, c) = Max(G)}
<1>1. \A q \in S : Profit(q, c) \in Int /\ Profit(q, c) <= 85 * hi
  BY TariffOf DEF Profit
<1>2. G \in SUBSET Int /\ G # {} /\ 85 * hi \in Int /\ \A x \in G : x <= 85 * hi
  <2>1. \A x \in G : x \in Int /\ x <= 85 * hi
    BY <1>1
  <2>2. PICK q \in S : TRUE
    OBVIOUS
  <2>3. Profit(q, c) \in G
    OBVIOUS
  <2>4. QED
    BY <2>1, <2>3
<1>3. Max(G) \in G /\ Max(G) \in Int /\ \A x \in G : x <= Max(G)
  <2> HIDE DEF G
  <2>1. QED
    BY <1>2, MaxIs
<1>4. T \in SUBSET Int /\ T # {} /\ \A p \in T : p <= hi
  <2>1. PICK q \in S : Max(G) = Profit(q, c)
    BY <1>3
  <2>2. QED
    BY <2>1
<1>5. Max(T) \in T /\ \A q \in T : q <= Max(T)
  <2> HIDE DEF T
  <2>1. QED
    BY <1>4, MaxIs
<1>6. ASSUME NEW q \in S
      PROVE  \/ Profit(q, c) < Profit(Max(T), c)
             \/ Profit(q, c) = Profit(Max(T), c) /\ q <= Max(T)
  <2>1. Profit(Max(T), c) = Max(G)
    BY <1>5
  <2>2. Profit(q, c) <= Max(G)
    BY <1>3
  <2>3. CASE Profit(q, c) = Max(G)
    BY <1>5, <2>1, <2>3
  <2>4. CASE Profit(q, c) # Max(G)
    BY <1>1, <1>3, <2>1, <2>2, <2>4
  <2>5. QED
    BY <2>3, <2>4
<1>7. Max(T) \in S
  BY <1>5
<1> DEFINE best == Max(T)
<1> HIDE DEF best
<1>8. best \in S /\ \A q \in S : \/ Profit(q, c) < Profit(best, c)
                                 \/ Profit(q, c) = Profit(best, c) /\ q <= best
  BY <1>6, <1>7 DEF best
<1>9. QED
  BY <1>8

\* Best takes the price or a border below it, and earns at least what any price
\* between does; if it lies below one of them, it earns more.
THEOREM BestOfAll ==
  ASSUME NEW top \in Nat, NEW low \in Nat, NEW c \in Nat
  PROVE  /\ Best(top, low, c) \in Nat
         /\ low <= top => low <= Best(top, low, c)
         /\ Best(top, low, c) <= top
         /\ \A p \in low .. top :
              /\ Profit(p, c) <= Profit(Best(top, low, c), c)
              /\ Best(top, low, c) < p => Profit(p, c) < Profit(Best(top, low, c), c)
<1> DEFINE S == {top} \cup {p \in {b - 1 : b \in Breaks} : low <= p /\ p <= top}
           best == Best(top, low, c)
<1>1. S \in SUBSET Int /\ S # {} /\ \A p \in S : p \in Nat /\ p <= top /\ (low <= top => low <= p)
  <2>1. \A b \in Breaks : b \in Nat \ {0}
    BY DEF Breaks
  <2>2. QED
    BY <2>1
<1>2. best \in S /\ \A q \in S : \/ Profit(q, c) < Profit(best, c)
                                 \/ Profit(q, c) = Profit(best, c) /\ q <= best
  <2>1. best = CHOOSE p \in S : \A q \in S : \/ Profit(q, c) < Profit(p, c)
                                             \/ Profit(q, c) = Profit(p, c) /\ q <= p
    BY Zenon DEF Best
  <2> HIDE DEF S, best
  <2>2. PICK p \in S : \A q \in S : \/ Profit(q, c) < Profit(p, c)
                                    \/ Profit(q, c) = Profit(p, c) /\ q <= p
    BY <1>1, MostProfitable
  <2>3. QED
    BY <2>1, <2>2, Zenon
<1>3. best \in Nat /\ (low <= top => low <= best) /\ best <= top
  BY <1>1, <1>2
<1>4. ASSUME NEW p \in low .. top
      PROVE  /\ Profit(p, c) <= Profit(best, c)
             /\ best < p => Profit(p, c) < Profit(best, c)
  <2>1. PICK e \in S : p <= e /\ Tariff(e) = Tariff(p)
    <3>1. CASE Tariff(top) = Tariff(p)
      BY <3>1
    <3>2. CASE Tariff(top) # Tariff(p)
      <4>1. PICK b \in Breaks : p <= b - 1 /\ b - 1 <= top /\ Tariff(b - 1) = Tariff(p)
        <5>1. CASE p < 1000
          <6>1. 1000 \in Breaks /\ top >= 1000
            BY <3>2, <5>1 DEF Breaks, Tariff
          <6>2. QED
            BY <5>1, <6>1 DEF Tariff
        <5>2. CASE 1000 <= p /\ p < 3000
          <6>1. 3000 \in Breaks /\ top >= 3000
            BY <3>2, <5>2 DEF Breaks, Tariff
          <6>2. QED
            BY <5>2, <6>1 DEF Tariff
        <5>3. CASE 3000 <= p /\ p < 5000
          <6>1. 5000 \in Breaks /\ top >= 5000
            BY <3>2, <5>3 DEF Breaks, Tariff
          <6>2. QED
            BY <5>3, <6>1 DEF Tariff
        <5>4. CASE 5000 <= p /\ p < 10000
          <6>1. 10000 \in Breaks /\ top >= 10000
            BY <3>2, <5>4 DEF Breaks, Tariff
          <6>2. QED
            BY <5>4, <6>1 DEF Tariff
        <5>5. CASE 10000 <= p
          BY <3>2, <5>5 DEF Tariff
        <5>6. QED
          BY <5>1, <5>2, <5>3, <5>4, <5>5
      <4>2. b \in Int /\ low <= b - 1
        BY <4>1 DEF Breaks
      <4>3. b - 1 \in S
        BY <4>1, <4>2
      <4>4. QED
        BY <4>1, <4>3
    <3>3. QED
      BY <3>1, <3>2
  <2>2. e \in Int /\ Tariff(p) \in Nat
    BY <1>1, <2>1, TariffOf
  <2>3. Profit(p, c) <= Profit(e, c) /\ (p # e => Profit(p, c) < Profit(e, c))
    BY <2>1, <2>2 DEF Profit
  <2>4. \/ Profit(e, c) < Profit(best, c)
        \/ Profit(e, c) = Profit(best, c) /\ e <= best
    BY <1>2, <2>1
  <2>5. Profit(p, c) \in Int /\ Profit(e, c) \in Int /\ Profit(best, c) \in Int
    BY <1>3, <2>2, ProfitIsInt
  <2> HIDE DEF best
  <2>6. QED
    BY <1>3, <2>1, <2>2, <2>3, <2>4, <2>5
<1>5. QED
  BY <1>3, <1>4

-----------------------------------------------------------------------------
(* What a scan says. *)

Offer == [price : Nat \ {0}, later : Nat]
Scan == [own : Nat \ {0}, peer : Nat, rivals : Seq(Offer), complete : BOOLEAN]
Live == [base : Nat \ {0}, phase : {"raise", "step"}, at : Nat]
Cycle == {NoCycle} \cup Live

\* The parts of a scan.
LEMMA ScanFields ==
  ASSUME NEW m \in Scan
  PROVE  /\ m.own \in Nat \ {0} /\ m.peer \in Nat /\ m.complete \in BOOLEAN
         /\ m.rivals \in Seq(Offer) /\ Len(m.rivals) \in Nat
         /\ DOMAIN m.rivals = 1 .. Len(m.rivals)
         /\ \A i \in 1 .. Len(m.rivals) : m.rivals[i] \in Offer
BY DEF Scan

LEMMA OfferFields ==
  ASSUME NEW r \in Offer
  PROVE  r.price \in Nat \ {0} /\ r.later \in Nat
BY DEF Offer

\* The price the ordinary rule looks at exists, or is 0.
LEMMA CheapestIs ==
  ASSUME NEW m \in Scan
  PROVE  Cheapest(m) \in Nat /\ Selected(m) \in Nat
<1>1. CASE Eligible(m) = {}
  BY <1>1 DEF Cheapest, Selected
<1>2. CASE Eligible(m) # {}
  <2>1. Eligible(m) \subseteq 1 .. Len(m.rivals) /\ Len(m.rivals) \in Nat
    BY ScanFields DEF Eligible
  <2>2. Eligible(m) \in SUBSET Int /\ 0 \in Int /\ \A i \in Eligible(m) : 0 <= i
    BY <2>1
  <2>3. Min(Eligible(m)) \in Eligible(m)
    BY <1>2, <2>2, MinIs
  <2>4. m.rivals[Min(Eligible(m))] \in Offer
    BY <2>1, <2>3, ScanFields
  <2>5. Cheapest(m) \in Nat
    BY <1>2, <2>4, OfferFields DEF Cheapest
  <2>6. QED
    BY <2>5 DEF Selected
<1>3. QED
  BY <1>1, <1>2

\* What a seller leaves is a price, whatever its delivery.
LEMMA CapIs ==
  ASSUME NEW r \in Offer
  PROVE  Cap(r) \in Nat
<1> DEFINE share == Min({15, 5 * r.later})
           part == (r.price * share) \div 100
<1>1. r.price \in Nat \ {0} /\ r.later \in Nat
  BY OfferFields
<1>2. share \in Nat
  BY <1>1, MinOfTwo
<1> HIDE DEF share
<1>3. part \in Nat
  <2>1. r.price * share \in Nat
    BY <1>1, <1>2
  <2> DEFINE x == r.price * share
  <2> HIDE DEF x
  <2>2. x \in Nat => x \div 100 \in Nat
    OBVIOUS
  <2>3. QED
    BY <2>1, <2>2 DEF x
<1>4. Premium(r) = Min({2000, 500 * r.later, part})
  BY DEF Premium, share
<1> HIDE DEF part
<1>5. Premium(r) \in Nat
  <2> DEFINE most == 2000
             days == 500 * r.later
  <2>1. most \in Nat /\ days \in Nat
    BY <1>1
  <2>2. Premium(r) = Min({most, days, part})
    BY <1>4
  <2> HIDE DEF most, days
  <2>3. Premium(r) \in {most, days, part}
    BY <1>3, <2>1, <2>2, MinOfThree
  <2>4. QED
    BY <1>3, <2>1, <2>3
<1>6. QED
  BY <1>1, <1>5 DEF Cap

\* The ceiling exists for every market, an empty one too, and keeps the limit.
LEMMA CeilingIs ==
  ASSUME NEW m \in Scan
  PROVE  Ceiling(m) \in Nat /\ Ceiling(m) <= MaxPrice
<1> DEFINE R == {m.rivals[i] : i \in DOMAIN m.rivals}
           each == {Cap(r) : r \in {q \in R : q.later = 0 \/ m.peer # 0}}
           rank == IF m.peer = 0 /\ R # {} THEN {Cap(Third(m.rivals))} ELSE {}
           place == IF Len(m.rivals) >= 3 THEN {m.rivals[3].price - 1} ELSE {}
           S == {MaxPrice} \cup each \cup rank \cup place
<1>1. Ceiling(m) = Min(S)
  BY DEF Ceiling
<1>2. R \subseteq Offer
  BY ScanFields
<1>3. MaxPrice \in Nat
  BY RulesAssumption
<1>4. each \subseteq Nat
  BY <1>2, CapIs
<1>5. rank \subseteq Nat
  <2>1. ASSUME R # {}
        PROVE  Third(m.rivals) \in Offer
    <3>1. Len(m.rivals) \in Nat \ {0}
      BY <2>1, ScanFields
    <3>2. Min({3, Len(m.rivals)}) \in 1 .. Len(m.rivals)
      BY <3>1, MinOfTwo
    <3>3. QED
      BY <3>2, ScanFields DEF Third
  <2>2. QED
    BY <2>1, CapIs
<1>6. place \subseteq Nat
  <2>1. CASE Len(m.rivals) >= 3
    <3>1. m.rivals[3] \in Offer
      BY <2>1, ScanFields
    <3>2. QED
      BY <2>1, <3>1, OfferFields
  <2>2. QED
    BY <2>1
<1>7. S \in SUBSET Int /\ S # {} /\ MaxPrice \in S /\ 0 \in Int /\ \A x \in S : x \in Nat /\ 0 <= x
  <2> HIDE DEF each, rank, place
  <2>1. QED
    BY <1>3, <1>4, <1>5, <1>6
<1> HIDE DEF S
<1>8. Min(S) \in S /\ \A x \in S : Min(S) <= x
  BY <1>7, MinIs
<1>9. QED
  BY <1>1, <1>7, <1>8

\* Reserving a tenge for the leader does not go below the floor.
LEMMA ReservedIs ==
  ASSUME NEW ceiling \in Nat, NEW floor \in Nat, NEW leads
  PROVE  /\ Reserved(ceiling, floor, leads) \in Nat
         /\ Reserved(ceiling, floor, leads) <= ceiling
         /\ floor <= ceiling => floor <= Reserved(ceiling, floor, leads)
BY DEF Reserved

-----------------------------------------------------------------------------
(* The ordinary rule and the position of a preorder. *)

\* A price can be set, and where one is to be written that is not the shop's own
\* already, it is not below the floor.
Safe(d, own, floor) ==
  /\ d.target \in Nat \ {0}
  /\ d.write => d.target >= floor \/ d.target = own

\* The tariff jump stays above the floor.
LEMMA JumpedIs ==
  ASSUME NEW p \in Nat, NEW floor \in Nat \ {0}, floor <= p
  PROVE  Jumped(p, floor) \in Nat \ {0} /\ floor <= Jumped(p, floor)
<1> DEFINE at == {b \in Breaks : b <= p /\ p <= b + Tariff(b) /\ floor <= b - 1}
<1>1. CASE at = {}
  BY <1>1 DEF Jumped
<1>2. CASE at # {}
  <2>1. \A b \in at : b \in Int /\ b <= p /\ floor <= b - 1
    BY DEF Breaks
  <2> HIDE DEF at
  <2>2. at \in SUBSET Int /\ p \in Int /\ \A b \in at : b <= p
    BY <2>1
  <2>3. Max(at) \in at
    BY <1>2, <2>2, MaxIs
  <2>4. Jumped(p, floor) = Max(at) - 1
    BY <1>2 DEF Jumped, at
  <2>5. QED
    BY <2>1, <2>3, <2>4
<1>3. QED
  BY <1>1, <1>2

\* The rule of one shop.
LEMMA UndercutIs ==
  ASSUME NEW own \in Nat \ {0}, NEW rival \in Nat, NEW floor \in Nat \ {0}, NEW raise
  PROVE  Safe(Undercut(own, rival, floor, raise), own, floor)
<1> DEFINE limit == Max({floor, rival - Step})
           target == IF limit > own /\ ~raise THEN own
                     ELSE IF limit < own THEN Jumped(limit, floor) ELSE limit
<1>1. Step \in Nat
  BY RulesAssumption
<1>2. limit \in Nat /\ floor <= limit
  BY <1>1, MaxOfTwo
<1> HIDE DEF limit
<1>3. Jumped(limit, floor) \in Nat \ {0} /\ floor <= Jumped(limit, floor)
  BY <1>2, JumpedIs
<1>4. target \in Nat \ {0} /\ (floor <= target \/ target = own)
  BY <1>2, <1>3
<1>5. \/ Undercut(own, rival, floor, raise) = Wait(own)
      \/ Undercut(own, rival, floor, raise) = Want(target)
  BY DEF Undercut, limit
<1> HIDE DEF target
<1>6. QED
  BY <1>4, <1>5 DEF Safe, Wait, Want

\* The rule of two shops: the anchor is taken only when it lies above the floor.
LEMMA GroupIs ==
  ASSUME NEW m \in Scan, NEW floor \in Nat \ {0}, NEW saved \in Nat
  PROVE  Safe(Group(m, floor, saved), m.own, floor)
<1> DEFINE external == Cheapest(m)
           start == IF external # 0 THEN external ELSE Max({saved, m.own, m.peer})
           border == start - Band
           rival == IF external # 0 /\ Selected(m) # 0 THEN Min({Selected(m), m.peer}) ELSE m.peer
           plain == Undercut(m.own, rival, floor, TRUE)
           last == Max({floor, border - Step})
<1>1. m.own \in Nat \ {0} /\ m.peer \in Nat /\ Band \in Nat /\ Step \in Nat
  BY ScanFields, RulesAssumption
<1>2. external \in Nat /\ Selected(m) \in Nat
  BY CheapestIs
<1> HIDE DEF external
<1>3. start \in Nat
  <2>1. saved \in Int /\ m.own \in Int /\ m.peer \in Int
    BY <1>1
  <2>2. Max({saved, m.own, m.peer}) \in {saved, m.own, m.peer}
    BY <2>1, MaxOfThree, Zenon
  <2>3. Max({saved, m.own, m.peer}) \in Nat
    BY <1>1, <2>2
  <2>4. QED
    BY <1>2, <2>3
<1> HIDE DEF start
<1>4. rival \in Nat
  BY <1>1, <1>2, MinOfTwo
<1> HIDE DEF rival
<1>5. Safe(plain, m.own, floor)
  BY <1>1, <1>4, UndercutIs
<1>6. last \in Nat /\ floor <= last
  BY <1>1, <1>3, MaxOfTwo
<1> HIDE DEF last, plain
<1>7. Group(m, floor, saved) \in {Want(start), Want(last), plain}
      /\ (Group(m, floor, saved) = Want(start) => start > floor \/ Group(m, floor, saved) \in {Want(last), plain})
  BY DEF Group, external, start, rival, plain, last
<1>8. start > floor => Safe(Want(start), m.own, floor)
  BY <1>3 DEF Safe, Want
<1>9. Safe(Want(last), m.own, floor)
  BY <1>6 DEF Safe, Want
<1>10. QED
  BY <1>5, <1>7, <1>8, <1>9

LEMMA ManualIs ==
  ASSUME NEW m \in Scan, NEW c \in Nat, NEW saved \in Nat, NEW raise
  PROVE  Safe(Manual(m, c, saved, raise), m.own, SafeFloor(c))
<1>1. SafeFloor(c) \in Nat \ {0} /\ m.own \in Nat \ {0} /\ Selected(m) \in Nat
  BY FloorOfCost, ScanFields, CheapestIs
<1>2. Safe(Group(m, SafeFloor(c), saved), m.own, SafeFloor(c))
  BY <1>1, GroupIs
<1>3. Safe(Undercut(m.own, Selected(m), SafeFloor(c), raise), m.own, SafeFloor(c))
  BY <1>1, UndercutIs
<1>4. QED
  BY <1>2, <1>3 DEF Manual

\* The position of a preorder.
LEMMA PlacedIs ==
  ASSUME NEW m \in Scan, NEW c \in Nat, NEW raise
  PROVE  Safe(Want(Placed(m, c, raise)), m.own, SafeFloor(c))
<1> DEFINE n == Len(m.rivals)
           floor == SafeFloor(c)
           P(i) == m.rivals[i].price
           before == IF Position = 1 THEN 0 ELSE P(Position - 1)
           raw == CASE n = 0 -> m.own
                    [] n # 0 /\ Position > n -> P(n) + Step
                    [] OTHER -> IF P(Position) - Step > before THEN P(Position) - Step
                                ELSE P(Position)
           target == Max({raw, floor})
<1>1. n \in Nat /\ floor \in Nat \ {0} /\ m.own \in Nat \ {0} /\ Step \in Nat /\ Position \in Nat \ {0}
  <2>1. n \in Nat /\ m.own \in Nat \ {0}
    BY ScanFields
  <2>2. Step \in Nat /\ Position \in Nat \ {0}
    BY RulesAssumption
  <2>3. QED
    BY <2>1, <2>2, FloorOfCost
<1>2. \A i \in 1 .. n : P(i) \in Nat \ {0}
  BY ScanFields, OfferFields
<1>3. Placed(m, c, raise) = IF (target > m.own /\ ~raise) \/ TooDeep(m.own, target) THEN m.own ELSE target
  BY DEF Placed
<1> HIDE DEF n, P, floor
<1>4. raw \in Int
  <2>1. CASE n = 0
    BY <1>1, <2>1
  <2>2. CASE n # 0 /\ Position > n
    BY <1>1, <1>2, <2>2
  <2>3. CASE n # 0 /\ ~(Position > n)
    <3>1. P(Position) \in Nat
      BY <1>1, <1>2, <2>3
    <3>2. QED
      BY <1>1, <2>3, <3>1
  <2>4. QED
    BY <2>1, <2>2, <2>3
<1> HIDE DEF raw
<1>5. target \in Nat \ {0} /\ floor <= target
  BY <1>1, <1>4, MaxOfTwo
<1> HIDE DEF target
<1>6. QED
  BY <1>1, <1>3, <1>5 DEF Safe, Want, floor

-----------------------------------------------------------------------------
(* The automation. *)

\* A decision in automation works on a live cycle, old or new.
LEMMA BaseIs ==
  ASSUME NEW m \in Scan, m.peer # 0, NEW k \in Cycle, NEW t \in Nat
  PROVE  Base(m, k, t) \in Live
<1> DEFINE base == Max({Min({m.own, m.peer}), Max({m.own, m.peer}) - 1})
<1>1. m.own \in Nat \ {0} /\ m.peer \in Nat \ {0}
  BY ScanFields
<1>2. base \in Nat \ {0}
  BY <1>1, MinOfTwo, MaxOfTwo
<1>3. Started(m, t) = [base |-> base, phase |-> "raise", at |-> t]
  BY DEF Started
<1> HIDE DEF base
<1>4. Started(m, t) \in Live
  BY <1>2, <1>3 DEF Live
<1>5. k # NoCycle => k \in Live
  BY DEF Cycle
<1>6. QED
  BY <1>4, <1>5 DEF Base

LEMMA LiveFields ==
  ASSUME NEW k \in Live
  PROVE  k.base \in Nat \ {0} /\ k.phase \in {"raise", "step"} /\ k.at \in Nat
BY DEF Live

LEMMA TurnedIs ==
  ASSUME NEW m, NEW k \in Live, NEW ceiling, NEW floor, NEW c, NEW leads, NEW t \in Nat
  PROVE  Turned(m, k, ceiling, floor, c, leads, t) \in Live
<1>1. [k EXCEPT !.phase = "step", !.at = t] \in Live
  BY DEF Live
<1>2. [k EXCEPT !.phase = "raise", !.at = t] \in Live
  BY DEF Live
<1> DEFINE up == [k EXCEPT !.phase = "step", !.at = t]
           down == [k EXCEPT !.phase = "raise", !.at = t]
<1>3. Turned(m, k, ceiling, floor, c, leads, t) \in {up, down, k}
  BY DEF Turned
<1>4. QED
  BY <1>1, <1>2, <1>3

LEMMA SummitIs ==
  ASSUME NEW k \in Live, NEW slot \in {0, 1}, NEW top \in Nat, NEW floor \in Nat, NEW c \in Nat
  PROVE  Summit(k, slot, top, floor, c) \in Nat
<1> DEFINE high == Min({k.base + 100 + slot, top})
           low == Max({k.base, floor})
<1>1. high \in Nat /\ low \in Nat
  BY LiveFields, MinOfTwo, MaxOfTwo
<1>2. Summit(k, slot, top, floor, c) = Best(high, low, c)
  BY DEF Summit
<1> HIDE DEF high, low
<1>3. QED
  BY <1>1, <1>2, BestOfAll

\* One tenge below the other shop, but not below the floor.
LEMMA SteppedIs ==
  ASSUME NEW m \in Scan, NEW k \in Live, NEW top \in Nat, NEW upper \in Nat,
         NEW floor \in Nat \ {0}, NEW c, NEW leads
  PROVE  /\ Stepped(m, k, top, upper, floor, c, leads) \in Nat
         /\ floor <= Stepped(m, k, top, upper, floor, c, leads)
<1> DEFINE low == Max({k.base, floor})
           before == m.peer - 1
           under == Min({upper, m.own, before})
           here == Min({m.own, top})
           over == Min({upper, m.peer + 1})
           down == IF m.own >= m.peer THEN Max({low, under}) ELSE Max({low, here})
           yield == Max({down, over})
<1>1. m.own \in Nat \ {0} /\ m.peer \in Nat /\ k.base \in Nat
  BY ScanFields, LiveFields
<1>2. low \in Nat /\ floor <= low
  BY <1>1, MaxOfTwo
<1>3. under \in Int
  <2>1. before \in Int /\ m.own \in Int /\ upper \in Int
    BY <1>1
  <2> HIDE DEF before
  <2>2. QED
    BY <2>1, MinOfThree
<1>4. here \in Int /\ over \in Int
  BY <1>1, MinOfTwo
<1>5. Stepped(m, k, top, upper, floor, c, leads) \in {down, yield}
  BY DEF Stepped
<1> HIDE DEF low, under, here, over
<1>6. down \in Nat /\ floor <= down
  BY <1>2, <1>3, <1>4, MaxOfTwo
<1> HIDE DEF down
<1>7. yield \in Nat /\ floor <= yield
  BY <1>4, <1>6, MaxOfTwo
<1>8. QED
  BY <1>5, <1>6, <1>7

\* While the sellers leave the price, nothing goes down.
LEMMA FreeIs ==
  ASSUME NEW m \in Scan, NEW floor \in Nat \ {0}, NEW top \in Nat, floor <= top, NEW c \in Nat
  PROVE  /\ Free(m, top, floor, c) \in Nat
         /\ floor <= Free(m, top, floor, c)
         /\ m.own <= top => m.own <= Free(m, top, floor, c)
<1> DEFINE here == Min({m.own, top})
           kept == Max({floor, here})
           best == Best(top, floor, c)
<1>1. m.own \in Nat \ {0}
  BY ScanFields
<1>2. here = IF m.own <= top THEN m.own ELSE top
  BY <1>1, MinOfTwo
<1>3. kept \in Nat /\ floor <= kept /\ (m.own <= top => m.own <= kept)
  <2>1. here \in Nat
    BY <1>1, <1>2
  <2>2. kept = IF floor >= here THEN floor ELSE here
    <3> HIDE DEF here
    <3>1. QED
      BY <2>1, MaxOfTwo
  <2> HIDE DEF here, kept
  <2>3. QED
    BY <1>1, <1>2, <2>1, <2>2
<1>4. best \in Nat
  BY BestOfAll
<1>5. Free(m, top, floor, c) = IF best > kept /\ Profit(best, c) > Profit(kept, c) THEN best ELSE kept
  BY DEF Free
<1> HIDE DEF here, kept, best
<1>6. QED
  BY <1>1, <1>3, <1>4, <1>5

\* A shop that follows the market alone goes down for the market or for profit.
LEMMA ApartIs ==
  ASSUME NEW m \in Scan, NEW floor \in Nat \ {0}, NEW top \in Nat, floor <= top, NEW c \in Nat
  PROVE  /\ Apart(m, top, floor, c) \in Nat
         /\ floor <= Apart(m, top, floor, c)
         /\ Apart(m, top, floor, c) < m.own
              => m.own > top \/ Profit(Apart(m, top, floor, c), c) > Profit(m.own, c)
<1> DEFINE best == Best(top, floor, c)
<1>1. m.own \in Nat \ {0}
  BY ScanFields
<1>2. best \in Nat /\ floor <= best
  BY BestOfAll
<1>3. Apart(m, top, floor, c) = IF floor <= m.own /\ m.own <= top /\ Profit(best, c) <= Profit(m.own, c)
                                  THEN m.own ELSE best
  BY DEF Apart
<1> HIDE DEF best
<1>4. Profit(best, c) \in Int /\ Profit(m.own, c) \in Int
  <2>1. best \in Int /\ m.own \in Int
    BY <1>1, <1>2
  <2>2. QED
    BY <2>1, ProfitIsInt
<1>5. QED
  BY <1>1, <1>2, <1>3, <1>4

\* In both phases of the cycle a price goes down only if the sellers force it.
LEMMA WishedIs ==
  ASSUME NEW m \in Scan, NEW k \in Live, NEW top \in Nat, NEW upper \in Nat,
         NEW floor \in Nat \ {0}, floor <= top, NEW c \in Nat, NEW leads
  PROVE  /\ Wished(m, k, top, upper, floor, c, leads) \in Nat
         /\ floor <= Wished(m, k, top, upper, floor, c, leads)
         /\ Wished(m, k, top, upper, floor, c, leads) < m.own => m.own > top
<1> DEFINE high == Max({m.own, upper})
           near == Min({top, high})
           raised == Max({floor, near})
<1>1. m.own \in Nat \ {0} /\ k.phase \in {"raise", "step"}
  BY ScanFields, LiveFields
<1>2. high \in Nat /\ m.own <= high
  BY <1>1, MaxOfTwo
<1> HIDE DEF high
<1>3. near \in Nat /\ near \in {top, high}
  BY <1>2, MinOfTwo
<1>4. near = top \/ m.own <= near
  BY <1>2, <1>3
<1> HIDE DEF near
<1>5. raised \in Nat /\ floor <= raised /\ near <= raised
  BY <1>3, MaxOfTwo
<1> HIDE DEF raised
<1>6. CASE k.phase = "raise"
  <2>1. Wished(m, k, top, upper, floor, c, leads) = raised
    BY <1>6 DEF Wished, raised, near, high
  <2>2. QED
    BY <1>1, <1>3, <1>4, <1>5, <2>1
<1>7. CASE k.phase = "step" /\ m.own <= top
  <2> DEFINE free == Free(m, top, floor, c)
  <2>1. Wished(m, k, top, upper, floor, c, leads) = free
    BY <1>7 DEF Wished
  <2>2. free \in Nat /\ floor <= free /\ (m.own <= top => m.own <= free)
    BY FreeIs
  <2> HIDE DEF free
  <2>3. QED
    BY <1>1, <1>7, <2>1, <2>2
<1>8. CASE k.phase = "step" /\ ~(m.own <= top)
  <2>1. Wished(m, k, top, upper, floor, c, leads) = Stepped(m, k, top, upper, floor, c, leads)
    BY <1>8 DEF Wished
  <2>2. QED
    BY <1>1, <1>8, <2>1, SteppedIs
<1>9. QED
  BY <1>1, <1>6, <1>7, <1>8

\* What the automation promises of a price below the own one, and more.
Fair(target, m, room, c) ==
  target < m.own => m.own > room \/ Profit(target, c) > Profit(m.own, c)

\* The decision of one of two shops.
LEMMA CycledIs ==
  ASSUME NEW m \in Scan, m.peer # 0, NEW c \in Nat, NEW k \in Cycle, NEW leads \in BOOLEAN,
         NEW t \in Nat, SafeFloor(c) <= Ceiling(m)
  PROVE  /\ Safe(Cycled(m, c, k, leads, t), m.own, SafeFloor(c))
         /\ Cycled(m, c, k, leads, t).cycle \in Cycle
         /\ Fair(Cycled(m, c, k, leads, t).target, m, Reserved(Ceiling(m), SafeFloor(c), leads), c)
<1> DEFINE floor == SafeFloor(c)
           top == Reserved(Ceiling(m), floor, leads)
           base == Base(m, k, t)
           slot == IF leads THEN 0 ELSE 1
           upper == Summit(base, slot, top, floor, c)
           next == Turned(m, base, Ceiling(m), floor, c, leads, t)
           apart == Apart(m, top, floor, c)
           wished == Wished(m, next, top, upper, floor, c, leads)
           Price(p, q) == [target |-> p, write |-> p # m.own, cycle |-> q]
           d == Cycled(m, c, k, leads, t)
<1>1. floor \in Nat \ {0} /\ Ceiling(m) \in Nat
  BY FloorOfCost, CeilingIs
<1>2. top \in Nat /\ floor <= top
  BY <1>1, ReservedIs
<1>3. d = IF upper <= Max({base.base, floor}) THEN Price(apart, base) ELSE Price(wished, next)
  BY DEF Cycled
<1>4. slot \in {0, 1}
  OBVIOUS
<1>5. base \in Live
  BY BaseIs
<1> HIDE DEF floor, base, slot
<1>6. next \in Live
  BY <1>5, TurnedIs
<1> HIDE DEF top
<1>7. upper \in Nat
  BY <1>1, <1>2, <1>4, <1>5, SummitIs
<1>8. apart \in Nat /\ floor <= apart /\ Fair(apart, m, top, c)
  BY <1>1, <1>2, ApartIs DEF Fair
<1> HIDE DEF upper, next
<1>9. wished \in Nat /\ floor <= wished /\ Fair(wished, m, top, c)
  BY <1>1, <1>2, <1>6, <1>7, WishedIs DEF Fair
<1> HIDE DEF apart, wished, d
<1>10. \/ d.target = apart /\ d.cycle = base
       \/ d.target = wished /\ d.cycle = next
  BY <1>3
<1>11. d.target \in Nat /\ floor <= d.target /\ Fair(d.target, m, top, c)
  BY <1>8, <1>9, <1>10
<1>12. d.cycle \in Cycle
  BY <1>5, <1>6, <1>10 DEF Cycle
<1>13. Safe(d, m.own, floor)
  BY <1>1, <1>11 DEF Safe
<1>14. QED
  BY <1>11, <1>12, <1>13 DEF d, top, floor

\* decide_automated_price, for every market, cost, cycle and limit: a price that is
\* written is not below the floor, the cycle stays a cycle, and a lower price than
\* the shop's own is one the sellers force or one that earns more.
THEOREM AutomatedDecision ==
  ASSUME NEW m \in Scan, NEW c \in Nat, NEW k \in Cycle, NEW leads \in BOOLEAN,
         NEW old, NEW t \in Nat
  PROVE  /\ Safe(Automated(m, c, k, leads, old, t), m.own, SafeFloor(c))
         /\ Automated(m, c, k, leads, old, t).cycle \in Cycle
         /\ Fair(Automated(m, c, k, leads, old, t).target, m,
                 Reserved(Ceiling(m), SafeFloor(c), leads), c)
<1> DEFINE floor == SafeFloor(c)
           room == Reserved(Ceiling(m), floor, leads)
           Keep(e) == [target |-> e.target, write |-> e.write, cycle |-> k]
           rest == Min({Max({m.own, floor}), MaxPrice})
           up == Max({m.own, floor})
           best == Best(Ceiling(m), floor, c)
           d == Automated(m, c, k, leads, old, t)
<1>1. floor \in Nat \ {0} /\ Ceiling(m) \in Nat /\ Ceiling(m) <= MaxPrice
      /\ m.own \in Nat \ {0} /\ MaxPrice \in Nat \ {0}
  BY FloorOfCost, CeilingIs, ScanFields, RulesAssumption
<1>2. room \in Nat /\ room <= Ceiling(m)
  BY <1>1, ReservedIs
<1>3. up \in Nat \ {0} /\ floor <= up /\ m.own <= up
  BY <1>1, MaxOfTwo
<1>4. rest = IF up <= MaxPrice THEN up ELSE MaxPrice
  BY <1>1, <1>3, MinOfTwo
<1>5. best \in Nat /\ (floor <= Ceiling(m) => floor <= best)
  BY <1>1, BestOfAll
<1>6. floor <= Ceiling(m) => Fair(best, m, room, c)
  <2>1. ASSUME floor <= Ceiling(m), best < m.own, m.own <= room
        PROVE  Profit(best, c) > Profit(m.own, c)
    <3>1. m.own \in floor .. Ceiling(m)
      BY <1>1, <1>2, <1>5, <2>1
    <3>2. QED
      BY <1>1, <2>1, <3>1, BestOfAll
  <2>2. m.own \in Int /\ room \in Int /\ best \in Int
    BY <1>1, <1>2, <1>5
  <2> HIDE DEF floor, room, best
  <2>3. QED
    BY <2>1, <2>2 DEF Fair
<1> DEFINE Good(e) == /\ Safe(e, m.own, floor) /\ e.cycle \in Cycle
                      /\ Fair(e.target, m, room, c)
<1>7. Good(d)
  <2> HIDE DEF floor, room, up, rest, best, d
  <2>1. CASE ~m.complete
    <3>1. d = [target |-> m.own, write |-> FALSE, cycle |-> k]
      BY <2>1 DEF d, Automated, Wait
    <3>2. QED
      BY <1>1, <3>1 DEF Safe, Fair
  <2>2. CASE m.complete /\ MaxPrice < floor
    <3>1. d = [target |-> up, write |-> FALSE, cycle |-> k]
      BY <1>1, <2>2 DEF d, Automated, Wait, floor, up
    <3>2. QED
      BY <1>1, <1>3, <3>1 DEF Safe, Fair
  <2>3. CASE m.complete /\ ~(MaxPrice < floor) /\ m.rivals = << >>
    <3>1. d = [target |-> rest, write |-> rest # m.own, cycle |-> k]
      BY <1>1, <2>3 DEF d, Automated, floor, rest
    <3>2. QED
      BY <1>1, <1>2, <1>3, <1>4, <2>3, <3>1 DEF Safe, Fair
  <2>4. CASE m.complete /\ ~(MaxPrice < floor) /\ m.rivals # << >> /\ Ceiling(m) < floor
    <3>1. d = [target |-> up, write |-> m.own < floor, cycle |-> k]
      BY <1>1, <2>4 DEF d, Automated, floor, up
    <3>2. QED
      BY <1>1, <1>3, <3>1 DEF Safe, Fair
  <2>5. CASE m.complete /\ ~(MaxPrice < floor) /\ m.rivals # << >> /\ ~(Ceiling(m) < floor)
    <3>1. floor <= Ceiling(m) /\ MaxPrice >= floor
      BY <1>1, <2>5
    <3>2. d = IF m.peer = 0 THEN [target |-> best, write |-> best # m.own, cycle |-> k]
              ELSE IF old THEN [target |-> m.own, write |-> FALSE, cycle |-> k]
              ELSE Cycled(m, c, k, leads, t)
      BY <2>5, <3>1 DEF d, Automated, floor, best, Wait
    <3>3. CASE m.peer = 0
      BY <1>1, <1>5, <1>6, <3>1, <3>2, <3>3 DEF Safe
    <3>4. CASE m.peer # 0 /\ old
      BY <1>1, <3>2, <3>4 DEF Safe, Fair
    <3>5. CASE m.peer # 0 /\ ~old
      <4>1. d = Cycled(m, c, k, leads, t)
        BY <3>2, <3>5
      <4>2. QED
        BY <3>1, <3>5, <4>1, CycledIs DEF floor, room
    <3>6. QED
      BY <3>3, <3>4, <3>5
  <2>6. QED
    BY <1>1, <2>1, <2>2, <2>3, <2>4, <2>5, ScanFields
<1>8. QED
  BY <1>7

-----------------------------------------------------------------------------
(* Times. *)

\* The values of a function on a finite set have a bound.
LEMMA Bounded ==
  ASSUME NEW S, IsFiniteSet(S), NEW f \in [S -> Nat]
  PROVE  \E h \in Nat : \A x \in S : f[x] <= h
<1> DEFINE Under(R) == \E h \in Nat : \A x \in R : f[x] <= h
           D == {n \in Nat : \E R \in SUBSET S : Cardinality(R) = n /\ ~Under(R)}
<1>1. SUFFICES ASSUME ~Under(S) PROVE FALSE
  OBVIOUS
<1>2. Cardinality(S) \in D
  <2>1. Cardinality(S) \in Nat /\ S \in SUBSET S
    BY FS_CardinalityType
  <2> HIDE DEF Under
  <2>2. QED
    BY <1>1, <2>1
<1>3. PICK n \in D : \A i \in D : n <= i
  BY <1>2, LeastOf
<1>4. PICK R \in SUBSET S : Cardinality(R) = n /\ ~Under(R)
  OBVIOUS
<1>5. PICK y \in R : TRUE
  <2>1. R = {} => Under(R)
    OBVIOUS
  <2>2. QED
    BY <1>4, <2>1
<1>6. IsFiniteSet(R)
  BY FS_Subset
<1>7. Cardinality(R \ {y}) = n - 1 /\ Cardinality(R \ {y}) \in Nat
  <2>1. IsFiniteSet(R \ {y}) /\ Cardinality(R \ {y}) = Cardinality(R) - 1
    BY <1>5, <1>6, FS_RemoveElement
  <2>2. QED
    BY <1>4, <2>1, FS_CardinalityType
<1>8. Under(R \ {y})
  <2>1. R \ {y} \in SUBSET S
    OBVIOUS
  <2>2. n \in Nat
    OBVIOUS
  <2>3. n - 1 \notin D
    BY <1>3, <2>2
  <2> HIDE DEF Under
  <2>4. QED
    BY <1>7, <2>1, <2>3
<1>9. PICK h \in Nat : \A x \in R \ {y} : f[x] <= h
  BY <1>8
<1>10. f[y] \in Nat
  OBVIOUS
<1>11. \A x \in R : f[x] <= h + f[y]
  BY <1>9, <1>10
<1>12. QED
  BY <1>4, <1>10, <1>11

\* The set of times in two functions with 0, which Timed ranks and Now exceeds.
Times(j, k) == {0} \cup {j[s].at : s \in Shops} \cup {k[s].at : s \in Shops}

LEMMA TimesAreFinite ==
  ASSUME NEW j, NEW k, \A s \in Shops : j[s].at \in Nat /\ k[s].at \in Nat
  PROVE  /\ Times(j, k) \in SUBSET Nat
         /\ IsFiniteSet(Times(j, k))
         /\ \E h \in Nat : \A x \in Times(j, k) : x <= h
<1> DEFINE f == [s \in Shops |-> j[s].at]
           g == [s \in Shops |-> k[s].at]
<1>1. IsFiniteSet(Shops)
  BY LoopAssumption
<1>2. f \in [Shops -> Nat] /\ g \in [Shops -> Nat]
  OBVIOUS
<1>3. PICK hf \in Nat : \A s \in Shops : f[s] <= hf
  <2> HIDE DEF f
  <2>1. QED
    BY <1>1, <1>2, Bounded
<1>4. PICK hg \in Nat : \A s \in Shops : g[s] <= hg
  <2> HIDE DEF g
  <2>1. QED
    BY <1>1, <1>2, Bounded
<1>5. Times(j, k) \in SUBSET Nat
  BY DEF Times
<1>6. \A x \in Times(j, k) : x <= hf + hg
  BY <1>3, <1>4 DEF Times
<1>7. IsFiniteSet(Times(j, k))
  <2>1. Times(j, k) \subseteq 0 .. (hf + hg)
    BY <1>5, <1>6
  <2>2. IsFiniteSet(0 .. (hf + hg))
    BY FS_Interval
  <2>3. QED
    BY <2>1, <2>2, FS_Subset
<1>8. QED
  BY <1>5, <1>6, <1>7

-----------------------------------------------------------------------------
(* The invariant. *)

\* A job beyond "idle" has seen the shop's own price; a planned one has a price to
\* set, and for stock it differs from the own one of its scan.
Rows ==
  {j \in [stage : {"idle", "read", "planned", "handed"},
          seen : [own : Nat, peer : Nat, rivals : Seq(Offer), complete : BOOLEAN],
          kind : {"none", "inventory", "supplier"}, target : Nat, day : {0, 1}, at : Nat] :
     /\ j.stage # "idle" => j.seen \in Scan
     /\ j.stage \in {"planned", "handed"} =>
          /\ j.target \in Nat \ {0}
          /\ j.kind = "inventory" => j.target # j.seen.own}

LoopInv ==
  /\ market \in Markets /\ sellers \in SUBSET Shops /\ day \in {0, 1} /\ left \in 0 .. Changes
  /\ price \in [Shops -> Nat \ {0}] /\ cost \in [Shops -> Costs]
  /\ mode \in [Shops -> {"manual", "automation"}]
  /\ anchor \in [Shops -> Nat]
  /\ job \in [Shops -> Rows]
  /\ cycle \in [Shops -> Cycle]

LEMMA RowFields ==
  ASSUME NEW j \in Rows
  PROVE  /\ j.stage \in {"idle", "read", "planned", "handed"} /\ j.at \in Nat
         /\ j.kind \in {"none", "inventory", "supplier"} /\ j.target \in Nat
         /\ j.stage # "idle" => j.seen \in Scan
         /\ j.stage \in {"planned", "handed"} =>
              j.target \in Nat \ {0} /\ (j.kind = "inventory" => j.target # j.seen.own)
BY DEF Rows

LEMMA CycleFields ==
  ASSUME NEW k \in Cycle
  PROVE  k.at \in Nat
BY DEF Cycle, Live, NoCycle

\* Only the order of times counts: a row stays a row, a cycle a cycle.
LEMMA Redated ==
  ASSUME NEW n \in Nat
  PROVE  /\ \A j \in Rows : [j EXCEPT !.at = n] \in Rows /\ [j EXCEPT !.at = n].stage = j.stage
         /\ \A k \in Live : [k EXCEPT !.at = n] \in Live
<1>1. ASSUME NEW j \in Rows
      PROVE  [j EXCEPT !.at = n] \in Rows /\ [j EXCEPT !.at = n].stage = j.stage
  BY DEF Rows
<1>2. ASSUME NEW k \in Live
      PROVE  [k EXCEPT !.at = n] \in Live
  BY DEF Live
<1>3. QED
  BY <1>1, <1>2

\* Ranking the times keeps rows and cycles and changes no stage.
LEMMA TimedIs ==
  ASSUME NEW j \in [Shops -> Rows], NEW k \in [Shops -> Cycle], Timed(j, k)
  PROVE  /\ job' \in [Shops -> Rows] /\ cycle' \in [Shops -> Cycle]
         /\ \A s \in Shops : job'[s].stage = j[s].stage
<1> DEFINE T == Times(j, k)
           Rank(t) == Cardinality({u \in T : u < t})
<1>1. \A s \in Shops : j[s] \in Rows /\ j[s].at \in Nat /\ k[s] \in Cycle /\ k[s].at \in Nat
  BY RowFields, CycleFields
<1>2. T \in SUBSET Nat /\ IsFiniteSet(T)
  BY <1>1, TimesAreFinite
<1>3. job' = [s \in Shops |-> [j[s] EXCEPT !.at = Rank(j[s].at)]]
  BY DEF Timed, Times
<1>4. cycle' = [s \in Shops |-> [k[s] EXCEPT !.at = Rank(k[s].at)]]
  BY DEF Timed, Times
<1> HIDE DEF T
<1>5. ASSUME NEW t \in Nat
      PROVE  Rank(t) \in Nat
  <2>1. IsFiniteSet({u \in T : u < t})
    BY <1>2, FS_Subset
  <2>2. QED
    BY <2>1, FS_CardinalityType
<1>6. Rank(0) = 0
  <2>1. \A u \in T : ~(u < 0)
    BY <1>2
  <2>2. {u \in T : u < 0} = {}
    BY <2>1
  <2>3. QED
    BY <2>2, FS_EmptySet
<1> HIDE DEF Rank
<1>7. \A s \in Shops : /\ [j[s] EXCEPT !.at = Rank(j[s].at)] \in Rows
                       /\ [j[s] EXCEPT !.at = Rank(j[s].at)].stage = j[s].stage
  BY <1>1, <1>5, Redated
<1>8. ASSUME NEW s \in Shops
      PROVE  [k[s] EXCEPT !.at = Rank(k[s].at)] \in Cycle
  <2>1. CASE k[s] = NoCycle
    <3>1. [NoCycle EXCEPT !.at = Rank(NoCycle.at)] = NoCycle
      BY <1>6 DEF NoCycle
    <3>2. QED
      BY <2>1, <3>1 DEF Cycle
  <2>2. CASE k[s] \in Live
    BY <1>1, <1>5, <2>2, Redated DEF Cycle
  <2>3. QED
    BY <1>1, <2>1, <2>2 DEF Cycle
<1>9. QED
  BY <1>3, <1>4, <1>7, <1>8

LEMMA NowIs ==
  ASSUME LoopInv
  PROVE  Now \in Nat
<1>1. \A s \in Shops : job[s].at \in Nat /\ cycle[s].at \in Nat
  BY RowFields, CycleFields DEF LoopInv
<1>2. PICK h \in Nat : \A x \in Times(job, cycle) : x <= h
  BY <1>1, TimesAreFinite
<1>3. Times(job, cycle) \in SUBSET Nat /\ 0 \in Times(job, cycle)
  BY <1>1, TimesAreFinite DEF Times
<1>4. Max(Times(job, cycle)) \in Times(job, cycle)
  <2>1. Times(job, cycle) \in SUBSET Int /\ Times(job, cycle) # {} /\ h \in Int
    BY <1>3
  <2>2. QED
    BY <1>2, <2>1, MaxIs
<1>5. Now = 1 + Max(Times(job, cycle))
  BY DEF Now, Times
<1>6. QED
  BY <1>3, <1>4, <1>5

-----------------------------------------------------------------------------
(* One decision. *)

\* What the invariant says of one shop.
LEMMA ShopFields ==
  ASSUME LoopInv, NEW s \in Shops
  PROVE  /\ price[s] \in Nat \ {0} /\ anchor[s] \in Nat /\ mode[s] \in {"manual", "automation"}
         /\ cost[s].unit \in Nat /\ cost[s].kind \in {"inventory", "supplier"} /\ cost[s] \in Costs
         /\ job[s] \in Rows /\ cycle[s] \in Cycle /\ Leads(s) \in BOOLEAN
<1>1. cost[s] \in Costs /\ Costs \subseteq [kind : {"inventory", "supplier"}, unit : Nat]
  BY LoopAssumption DEF LoopInv
<1>2. cost[s].unit \in Nat /\ cost[s].kind \in {"inventory", "supplier"}
  BY <1>1
<1>3. QED
  BY <1>1, <1>2 DEF LoopInv, Leads

\* The newest known cycle exists and is a cycle.
LEMMA SharedIs ==
  ASSUME LoopInv, NEW s \in Shops
  PROVE  SharedCycle(s) \in Cycle
<1> DEFINE Q == {q \in sellers : q = s \/ mode[q] = "automation"}
           known == {cycle[q] : q \in Q}
<1>1. cycle[s] \in Cycle /\ \A q \in Shops : cycle[q] \in Cycle /\ cycle[q].at \in Nat
  BY ShopFields, CycleFields
<1>2. CASE \A k \in known : k.at <= cycle[s].at
  BY <1>1, <1>2 DEF SharedCycle
<1>3. CASE \E k \in known : ~(k.at <= cycle[s].at)
  <2> DEFINE ats == {cycle[q].at : q \in Q}
  <2>1. Q \subseteq Shops /\ Q # {}
    BY <1>3 DEF LoopInv
  <2>2. \A q \in Shops : job[q].at \in Nat
    BY ShopFields, RowFields
  <2>3. PICK h \in Nat : \A x \in Times(job, cycle) : x <= h
    BY <1>1, <2>2, TimesAreFinite
  <2> HIDE DEF Q
  <2>4. ats \in SUBSET Int /\ ats # {} /\ \A x \in ats : x <= h
    <3>1. \A x \in ats : x \in Times(job, cycle) /\ x \in Int
      BY <1>1, <2>1 DEF Times
    <3>2. QED
      BY <2>1, <2>3, <3>1
  <2>5. Max(ats) \in ats /\ \A x \in ats : x <= Max(ats)
    <3> HIDE DEF ats
    <3>1. h \in Int
      OBVIOUS
    <3>2. QED
      BY <2>4, <3>1, MaxIs
  <2>6. PICK q \in Q : cycle[q].at = Max(ats)
    BY <2>5
  <2>7. \A d \in known : d.at <= cycle[q].at
    BY <2>5, <2>6
  <2>8. cycle[q] \in known
    OBVIOUS
  <2> HIDE DEF known
  <2>9. (CHOOSE k \in known : \A d \in known : d.at <= k.at) \in known
    BY <2>7, <2>8, Zenon
  <2>10. SharedCycle(s) \in known \cup {cycle[s]}
    BY <2>9 DEF SharedCycle, known, Q
  <2>11. QED
    BY <1>1, <2>1, <2>10 DEF known
<1>4. QED
  BY <1>2, <1>3

\* What holds of every decision: Safe under either rule, Fair in automation.
Sound(d, s, m) ==
  /\ Safe(d, m.own, SafeFloor(cost[s].unit))
  /\ d.cycle \in Cycle
  /\ mode[s] = "automation" =>
       Fair(d.target, m, Reserved(Ceiling(m), SafeFloor(cost[s].unit), Leads(s)), cost[s].unit)

\* The decision of _decide_policy_price, whichever rule takes it.
LEMMA DecisionIs ==
  ASSUME LoopInv, NEW s \in Shops, NEW m \in Scan, NEW start \in Nat, NEW old, NEW t \in Nat
  PROVE  Sound(Decision(s, m, start, old, t), s, m)
<1> DEFINE k == SharedCycle(s)
           c == cost[s].unit
           late == old \/ (k # NoCycle /\ t < k.at)
           Keep(d) == [target |-> d.target, write |-> d.write, cycle |-> cycle[s]]
           placed == Want(Placed(m, c, AllowRaise))
           manual == Manual(m, c, start, AllowRaise)
           d == Decision(s, m, start, old, t)
<1>1. c \in Nat /\ cycle[s] \in Cycle /\ Leads(s) \in BOOLEAN
      /\ cost[s].kind \in {"inventory", "supplier"} /\ mode[s] \in {"manual", "automation"}
  BY ShopFields
<1>2. k \in Cycle
  BY SharedIs
<1> HIDE DEF k, c
<1>3. CASE mode[s] = "automation"
  <2>1. d = Automated(m, c, k, Leads(s), late, t)
    BY <1>3 DEF Decision, k, c
  <2> HIDE DEF late
  <2>2. QED
    BY <1>1, <1>2, <2>1, AutomatedDecision DEF Sound, c
<1>4. CASE mode[s] # "automation" /\ cost[s].kind = "supplier"
  <2>1. d = Keep(placed)
    BY <1>4 DEF Decision, c
  <2>2. Safe(placed, m.own, SafeFloor(c))
    BY <1>1, PlacedIs
  <2> HIDE DEF placed, d
  <2>3. d.target = placed.target /\ d.write = placed.write /\ d.cycle = cycle[s]
    BY <2>1
  <2>4. QED
    BY <1>1, <1>4, <2>2, <2>3 DEF Sound, Safe, c, d
<1>5. CASE mode[s] # "automation" /\ cost[s].kind # "supplier"
  <2>1. d = Keep(manual)
    BY <1>5 DEF Decision, c
  <2>2. Safe(manual, m.own, SafeFloor(c))
    BY <1>1, ManualIs
  <2> HIDE DEF manual, d
  <2>3. d.target = manual.target /\ d.write = manual.write /\ d.cycle = cycle[s]
    BY <2>1
  <2>4. QED
    BY <1>1, <1>5, <2>2, <2>3 DEF Sound, Safe, c, d
<1>6. QED
  BY <1>3, <1>4, <1>5

LEMMA AnchoredIs ==
  ASSUME NEW m \in Scan, NEW saved \in Nat
  PROVE  Anchored(m, saved) \in Nat
<1>1. m.own \in Nat /\ m.peer \in Nat
  BY ScanFields
<1>2. Max({saved, m.own, m.peer}) \in Nat
  <2>1. saved \in Int /\ m.own \in Int /\ m.peer \in Int
    BY <1>1
  <2>2. Max({saved, m.own, m.peer}) \in {saved, m.own, m.peer}
    BY <2>1, MaxOfThree, Zenon
  <2>3. QED
    BY <1>1, <2>2
<1>3. m.rivals # << >> => Head(m.rivals).price \in Nat
  <2>1. ASSUME m.rivals # << >> PROVE Head(m.rivals) \in Offer
    BY <2>1, ScanFields
  <2>2. QED
    BY <2>1, OfferFields
<1>4. QED
  BY <1>2, <1>3 DEF Anchored

\* What an agent sees is a scan.
LEMMA FreshIs ==
  ASSUME LoopInv, NEW s \in sellers
  PROVE  Fresh(s) \in Scan
<1> DEFINE peer == IF sellers = {s} THEN 0 ELSE price[CHOOSE q \in sellers : q # s]
<1>1. market \in [rivals : Seq(Offer), complete : BOOLEAN]
  BY LoopAssumption DEF LoopInv, Offer
<1>2. s \in Shops /\ price[s] \in Nat \ {0}
  BY DEF LoopInv
<1>3. peer \in Nat
  <2>1. CASE sellers = {s}
    BY <2>1
  <2>2. CASE sellers # {s}
    <3>1. \E q \in sellers : q # s
      BY <2>2
    <3>2. (CHOOSE q \in sellers : q # s) \in sellers
      BY <3>1, Zenon
    <3>3. QED
      BY <2>2, <3>2 DEF LoopInv
  <2>3. QED
    BY <2>1, <2>2
<1>4. Fresh(s) = [own |-> price[s], rivals |-> market.rivals, complete |-> market.complete, peer |-> peer]
  BY DEF Fresh
<1> HIDE DEF peer
<1>5. QED
  BY <1>1, <1>2, <1>3, <1>4 DEF Scan

-----------------------------------------------------------------------------
(* The steps. *)

LEMMA IdleIsRow == Idle \in Rows /\ Idle.stage = "idle"
BY DEF Idle, Rows

LEMMA RowReads ==
  ASSUME NEW j \in Rows, NEW m \in Scan
  PROVE  /\ [j EXCEPT !.stage = "read", !.seen = m] \in Rows
         /\ [j EXCEPT !.stage = "read", !.seen = m].stage = "read"
<1>1. m \in [own : Nat, peer : Nat, rivals : Seq(Offer), complete : BOOLEAN]
  BY DEF Scan
<1>2. QED
  BY <1>1 DEF Rows

LEMMA InitHolds ==
  ASSUME Init
  PROVE  LoopInv
<1>1. Idle \in Rows
  BY IdleIsRow
<1>2. market \in Markets /\ sellers \in SUBSET Shops /\ day \in {0, 1} /\ left \in 0 .. Changes
  BY LoopAssumption DEF Init
<1>3. price \in [Shops -> Nat \ {0}] /\ cost \in [Shops -> Costs] /\ anchor \in [Shops -> Nat]
  BY LoopAssumption DEF Init
<1>4. mode \in [Shops -> {"manual", "automation"}] /\ job \in [Shops -> Rows] /\ cycle \in [Shops -> Cycle]
  BY <1>1 DEF Init, Cycle
<1>5. QED
  BY <1>2, <1>3, <1>4 DEF LoopInv

LEMMA OutsideKeeps ==
  ASSUME LoopInv,
         MarketMoves \/ NewDay \/ \E s \in Shops : CostChanges(s)
  PROVE  LoopInv' /\ UNCHANGED job
<1>1. Changes \in Nat
  BY LoopAssumption
<1>2. Outside => left' \in 0 .. Changes
  BY <1>1 DEF LoopInv, Outside
<1>3. CASE MarketMoves
  BY <1>2, <1>3 DEF MarketMoves, LoopInv
<1>4. CASE NewDay
  BY <1>2, <1>4 DEF NewDay, LoopInv
<1>5. ASSUME NEW s \in Shops, CostChanges(s)
      PROVE  LoopInv' /\ UNCHANGED job
  BY <1>2, <1>5 DEF CostChanges, LoopInv
<1>6. QED
  BY <1>3, <1>4, <1>5

LEMMA SwitchKeeps ==
  ASSUME LoopInv, NEW s \in Shops, Switch(s)
  PROVE  LoopInv' /\ \A q \in Shops : job'[q].stage \in {job[q].stage, "idle"}
<1> DEFINE rows == [job EXCEPT ![s] = Idle]
<1>1. rows \in [Shops -> Rows] /\ \A q \in Shops : rows[q].stage \in {job[q].stage, "idle"}
  BY IdleIsRow DEF LoopInv
<1>2. cycle \in [Shops -> Cycle] /\ [cycle EXCEPT ![s] = NoCycle] \in [Shops -> Cycle]
  BY DEF LoopInv, Cycle
<1>3. PICK cycles \in [Shops -> Cycle] : Timed(rows, cycles)
  BY <1>2 DEF Switch
<1>4. job' \in [Shops -> Rows] /\ cycle' \in [Shops -> Cycle]
      /\ \A q \in Shops : job'[q].stage = rows[q].stage
  <2> HIDE DEF rows
  <2>1. QED
    BY <1>1, <1>3, TimedIs
<1>5. left' \in 0 .. Changes
  BY LoopAssumption DEF LoopInv, Switch, Outside
<1>6. mode' \in [Shops -> {"manual", "automation"}]
  BY DEF LoopInv, Switch
<1>7. UNCHANGED <<market, sellers, price, cost, anchor, day>>
  BY DEF Switch
<1> HIDE DEF rows
<1>8. QED
  BY <1>1, <1>4, <1>5, <1>6, <1>7 DEF LoopInv

LEMMA ReadKeeps ==
  ASSUME LoopInv, NEW s \in Shops, Read(s)
  PROVE  LoopInv' /\ \A q \in Shops : job'[q].stage \in {job[q].stage, "read"}
<1> DEFINE row == [Idle EXCEPT !.stage = "read", !.seen = Fresh(s)]
<1>1. Fresh(s) \in Scan
  BY FreshIs DEF Read
<1>2. row \in Rows /\ row.stage = "read"
  BY <1>1, IdleIsRow, RowReads
<1>3. job' = [job EXCEPT ![s] = row]
  BY DEF Read
<1> HIDE DEF row
<1>4. job' \in [Shops -> Rows] /\ \A q \in Shops : job'[q].stage \in {job[q].stage, "read"}
  BY <1>2, <1>3 DEF LoopInv
<1>5. UNCHANGED <<market, sellers, price, cost, mode, cycle, anchor, day, left>>
  BY DEF Read
<1>6. QED
  BY <1>4, <1>5 DEF LoopInv

\* A planned row: the decision's price is one that can be set, and for stock it
\* differs from the price the scan saw.
Planned(j, kind, target, date, t) ==
  [j EXCEPT !.stage = "planned", !.kind = kind, !.target = target, !.day = date, !.at = t]

LEMMA RowPlanned ==
  ASSUME NEW j \in Rows, j.stage = "read", NEW kind \in {"inventory", "supplier"},
         NEW target \in Nat \ {0}, kind = "inventory" => target # j.seen.own,
         NEW date \in {0, 1}, NEW t \in Nat
  PROVE  Planned(j, kind, target, date, t) \in Rows /\ Planned(j, kind, target, date, t).stage = "planned"
BY DEF Rows, Planned

LEMMA RowHanded ==
  ASSUME NEW j \in Rows, j.stage = "planned"
  PROVE  [j EXCEPT !.stage = "handed"] \in Rows
BY DEF Rows

\* complete_scan plans only what differs from the price the scan saw.
LEMMA CompleteKeeps ==
  ASSUME LoopInv, NEW s \in Shops, Complete(s)
  PROVE  LoopInv' /\ \A q \in Shops : job'[q].stage \in {job[q].stage, "idle", "planned"}
<1> DEFINE seen == job[s].seen
           start == Anchored(seen, anchor[s])
           d == Decision(s, seen, start, FALSE, Now)
           kind == cost[s].kind
           plan == \/ kind = "inventory" /\ d.write /\ d.target # seen.own
                   \/ kind = "supplier" /\ (mode[s] = "manual" \/ seen.complete)
           row == Planned(job[s], kind, d.target, day, Now)
           next == IF plan THEN row ELSE Idle
           rows == [job EXCEPT ![s] = next]
           cycles == [cycle EXCEPT ![s] = d.cycle]
<1>1. job[s] \in Rows /\ job[s].stage = "read" /\ seen \in Scan
  BY ShopFields, RowFields DEF Complete
<1>2. start \in Nat
  BY <1>1, ShopFields, AnchoredIs
<1>3. Sound(d, s, seen)
  <2> HIDE DEF start, seen
  <2>1. Now \in Nat
    BY NowIs
  <2>2. QED
    BY <1>1, <1>2, <2>1, DecisionIs
<1>4. anchor' = [anchor EXCEPT ![s] = start] /\ Timed(rows, cycles)
  BY DEF Complete, Planned
<1>5. d.target \in Nat \ {0} /\ d.cycle \in Cycle
  BY <1>3 DEF Sound, Safe
<1>6. kind \in {"inventory", "supplier"} /\ Now \in Nat /\ day \in {0, 1}
  BY ShopFields, NowIs DEF LoopInv
<1> HIDE DEF d, start, kind
<1>7. next \in Rows /\ next.stage \in {"planned", "idle"}
  <2>1. CASE plan
    <3>1. kind = "inventory" => d.target # job[s].seen.own
      BY <2>1
    <3>2. row \in Rows /\ row.stage = "planned"
      BY <1>1, <1>5, <1>6, <3>1, RowPlanned
    <3> HIDE DEF row
    <3>3. QED
      BY <2>1, <3>2
  <2>2. CASE ~plan
    BY <2>2, IdleIsRow
  <2>3. QED
    BY <2>1, <2>2
<1> HIDE DEF next
<1>8. rows \in [Shops -> Rows] /\ \A q \in Shops : rows[q].stage \in {job[q].stage, "idle", "planned"}
  BY <1>7 DEF LoopInv
<1>9. cycles \in [Shops -> Cycle]
  BY <1>5 DEF LoopInv
<1> HIDE DEF rows, cycles
<1>10. job' \in [Shops -> Rows] /\ cycle' \in [Shops -> Cycle]
       /\ \A q \in Shops : job'[q].stage = rows[q].stage
  BY <1>4, <1>8, <1>9, TimedIs
<1>11. anchor' \in [Shops -> Nat]
  BY <1>2, <1>4 DEF LoopInv
<1>12. UNCHANGED <<market, sellers, price, cost, mode, day, left>>
  BY DEF Complete
<1>13. QED
  BY <1>8, <1>10, <1>11, <1>12 DEF LoopInv

\* A price is handed out only where the second decision lets the first stand.
LEMMA PrepareKeeps ==
  ASSUME LoopInv, NEW s \in Shops, Prepare(s)
  PROVE  /\ LoopInv'
         /\ \A q \in Shops : job'[q].stage = "handed" /\ job[q].stage # "handed" =>
              /\ q = s
              /\ \E d : Sound(d, s, job[s].seen) /\ Stands(s, d)
<1> DEFINE d == Decision(s, job[s].seen, anchor[s], day # job[s].day, job[s].at)
           row == [job[s] EXCEPT !.stage = "handed"]
           next == IF Stands(s, d) THEN row ELSE Idle
           later == IF job[s].kind = cost[s].kind THEN d.cycle ELSE cycle[s]
           rows == [job EXCEPT ![s] = next]
           cycles == [cycle EXCEPT ![s] = later]
<1>1. job[s] \in Rows /\ job[s].stage = "planned" /\ job[s].seen \in Scan /\ job[s].at \in Nat
  BY ShopFields, RowFields DEF Prepare
<1>2. Sound(d, s, job[s].seen)
  <2>1. anchor[s] \in Nat
    BY ShopFields
  <2>2. QED
    BY <1>1, <2>1, DecisionIs
<1>3. Timed(rows, cycles)
  BY DEF Prepare
<1> HIDE DEF d
<1>4. later \in Cycle
  BY <1>2, ShopFields DEF Sound
<1>5. row \in Rows
  BY <1>1, RowHanded
<1> HIDE DEF row, later
<1>6. next \in Rows /\ (~Stands(s, d) => next.stage = "idle")
  BY <1>5, IdleIsRow
<1> HIDE DEF next
<1>7. rows \in [Shops -> Rows]
  BY <1>6 DEF LoopInv
<1>8. \A q \in Shops : rows[q].stage = "handed" /\ job[q].stage # "handed" => q = s /\ Stands(s, d)
  BY <1>6 DEF LoopInv
<1>9. cycles \in [Shops -> Cycle]
  BY <1>4 DEF LoopInv
<1> HIDE DEF rows, cycles
<1>10. job' \in [Shops -> Rows] /\ cycle' \in [Shops -> Cycle]
       /\ \A q \in Shops : job'[q].stage = rows[q].stage
  BY <1>3, <1>7, <1>9, TimedIs
<1>11. UNCHANGED <<market, sellers, price, cost, mode, anchor, day, left>>
  BY DEF Prepare
<1>12. LoopInv'
  BY <1>10, <1>11 DEF LoopInv
<1>13. QED
  BY <1>2, <1>8, <1>10, <1>12

LEMMA ApplyKeeps ==
  ASSUME LoopInv, NEW s \in Shops, Apply(s)
  PROVE  LoopInv' /\ \A q \in Shops : job'[q].stage \in {job[q].stage, "idle"}
<1> DEFINE rows == [job EXCEPT ![s] = Idle]
<1>1. rows \in [Shops -> Rows] /\ \A q \in Shops : rows[q].stage \in {job[q].stage, "idle"}
  BY IdleIsRow DEF LoopInv
<1>2. job[s].target \in Nat \ {0}
  BY ShopFields, RowFields DEF Apply
<1>3. Timed(rows, cycle) /\ cycle \in [Shops -> Cycle]
  BY DEF Apply, LoopInv
<1> HIDE DEF rows
<1>4. job' \in [Shops -> Rows] /\ cycle' \in [Shops -> Cycle]
      /\ \A q \in Shops : job'[q].stage = rows[q].stage
  BY <1>1, <1>3, TimedIs
<1>5. price' \in [Shops -> Nat \ {0}]
  BY <1>2 DEF Apply, LoopInv
<1>6. UNCHANGED <<market, sellers, cost, mode, anchor, day, left>>
  BY DEF Apply
<1>7. QED
  BY <1>1, <1>4, <1>5, <1>6 DEF LoopInv

\* The invariant is kept, and every price that is handed out stands twice.
LEMMA Steps ==
  ASSUME LoopInv, [Next]_vars
  PROVE  /\ LoopInv'
         /\ \A s \in Shops : job'[s].stage = "handed" /\ job[s].stage # "handed" =>
              \E d : Sound(d, s, job[s].seen) /\ Stands(s, d)
<1>1. CASE UNCHANGED vars
  BY <1>1 DEF vars, LoopInv
<1>2. CASE MarketMoves \/ NewDay \/ \E s \in Shops : CostChanges(s)
  BY <1>2, OutsideKeeps
<1>3. ASSUME NEW s \in Shops, Switch(s)
      PROVE  /\ LoopInv'
             /\ \A q \in Shops : job'[q].stage # "handed" \/ job[q].stage = "handed"
  BY <1>3, SwitchKeeps
<1>4. ASSUME NEW s \in Shops, Read(s)
      PROVE  /\ LoopInv'
             /\ \A q \in Shops : job'[q].stage # "handed" \/ job[q].stage = "handed"
  BY <1>4, ReadKeeps
<1>5. ASSUME NEW s \in Shops, Complete(s)
      PROVE  /\ LoopInv'
             /\ \A q \in Shops : job'[q].stage # "handed" \/ job[q].stage = "handed"
  BY <1>5, CompleteKeeps
<1>6. ASSUME NEW s \in Shops, Prepare(s)
      PROVE  /\ LoopInv'
             /\ \A q \in Shops : job'[q].stage = "handed" /\ job[q].stage # "handed" =>
                  \E d : Sound(d, q, job[q].seen) /\ Stands(q, d)
  BY <1>6, PrepareKeeps
<1>7. ASSUME NEW s \in Shops, Apply(s)
      PROVE  /\ LoopInv'
             /\ \A q \in Shops : job'[q].stage # "handed" \/ job[q].stage = "handed"
  BY <1>7, ApplyKeeps
<1>8. QED
  BY <1>1, <1>2, <1>3, <1>4, <1>5, <1>6, <1>7 DEF Next

\* The invariant holds.
LEMMA SpecInv == Spec => []LoopInv
<1>1. Init => LoopInv
  BY InitHolds
<1>2. LoopInv /\ [Next]_vars => LoopInv'
  BY Steps
<1>3. QED
  BY <1>1, <1>2, PTL DEF Spec

-----------------------------------------------------------------------------
(* What follows. *)

\* For any shops, markets, costs and settings the variables keep their types: every
\* price a shop has on Kaspi is a positive number, every cycle in the state row is
\* either none or one with a base and a phase (read_shared_cycle, complete_scan).
THEOREM TypeCorrect == Spec => []TypeOK
<1>1. LoopInv => TypeOK
  <2>1. SUFFICES ASSUME LoopInv PROVE TypeOK
    OBVIOUS
  <2>2. market \in Markets /\ sellers \subseteq Shops /\ day \in {0, 1} /\ left \in 0 .. Changes
    BY <2>1 DEF LoopInv
  <2>3. ASSUME NEW s \in Shops
        PROVE  /\ price[s] \in Nat \ {0} /\ cost[s] \in Costs /\ mode[s] \in {"manual", "automation"}
               /\ job[s].stage \in {"idle", "read", "planned", "handed"}
               /\ \/ cycle[s] = NoCycle
                  \/ cycle[s].base \in Nat \ {0} /\ cycle[s].phase \in {"raise", "step"}
    <3>1. job[s].stage \in {"idle", "read", "planned", "handed"}
      BY <2>1, ShopFields, RowFields
    <3>2. cycle[s] = NoCycle \/ cycle[s] \in Live
      BY <2>1, ShopFields DEF Cycle
    <3>3. QED
      BY <2>1, <3>1, <3>2, ShopFields, LiveFields
  <2>4. QED
    BY <2>2, <2>3 DEF TypeOK
<1>2. QED
  BY <1>1, SpecInv, PTL

\* calculate_safe_floor on every cost the products ever have: the floor earns the
\* minimum, the prices just below it and below each tariff border under it do not.
THEOREM FloorCorrect == Spec => []FloorIsLeast
<1>1. LoopInv => FloorIsLeast
  <2>1. SUFFICES ASSUME LoopInv, NEW s \in Shops
                 PROVE  LET c == cost[s].unit
                            f == SafeFloor(c)
                        IN /\ Profit(f, c) >= 100 * MinProfit
                           /\ \A p \in {f - 1} \cup {b - 1 : b \in {b \in Breaks : b <= f}} :
                                Profit(p, c) < 100 * MinProfit
    BY DEF FloorIsLeast
  <2> DEFINE c == cost[s].unit
             f == SafeFloor(c)
  <2>2. c \in Nat
    BY <2>1, ShopFields
  <2> HIDE DEF c
  <2>3. f \in Nat \ {0} /\ Profit(f, c) >= 100 * MinProfit
        /\ \A p \in Int : p < f => Profit(p, c) < 100 * MinProfit
    BY <2>2, FloorOfCost
  <2> HIDE DEF f
  <2>4. ASSUME NEW p \in {f - 1} \cup {b - 1 : b \in {b \in Breaks : b <= f}}
        PROVE  p \in Int /\ p < f
    BY <2>3 DEF Breaks
  <2>5. \A p \in {f - 1} \cup {b - 1 : b \in {b \in Breaks : b <= f}} : Profit(p, c) < 100 * MinProfit
    BY <2>3, <2>4
  <2>6. QED
    BY <2>3, <2>5 DEF c, f
<1>2. QED
  BY <1>1, SpecInv, PTL

HandsFairly ==
  \A s \in Shops :
    (Hands(s) /\ mode[s] = "automation" /\ job[s].target < job[s].seen.own)
      => LET floor == SafeFloor(cost[s].unit)
         IN \/ job[s].seen.own > Reserved(Ceiling(job[s].seen), floor, Leads(s))
            \/ Profit(job[s].target, cost[s].unit) > Profit(job[s].seen.own, cost[s].unit)

HandsSafely ==
  \A s \in Shops : Hands(s) /\ cost[s].kind = "inventory"
                     => job[s].target >= SafeFloor(cost[s].unit)

LEMMA HandsWell ==
  ASSUME LoopInv, [Next]_vars
  PROVE  HandsFairly /\ HandsSafely
<1>1. ASSUME NEW s \in Shops, Hands(s)
      PROVE  /\ cost[s].kind = "inventory" => job[s].target >= SafeFloor(cost[s].unit)
             /\ mode[s] = "automation" =>
                  Fair(job[s].target, job[s].seen,
                       Reserved(Ceiling(job[s].seen), SafeFloor(cost[s].unit), Leads(s)), cost[s].unit)
  <2>1. job[s].stage = "planned" /\ job'[s].stage = "handed"
    BY <1>1 DEF Hands
  <2>2. PICK d : Sound(d, s, job[s].seen) /\ Stands(s, d)
    BY <2>1, Steps
  <2>3. job[s].kind = "inventory" => job[s].target # job[s].seen.own
    BY <2>1, ShopFields, RowFields
  <2>4. cost[s].kind \in {"inventory", "supplier"} /\ cost[s].kind = job[s].kind
    BY <2>2, ShopFields DEF Stands
  <2>5. job[s].kind = "inventory" => d.write /\ d.target = job[s].target
    BY <2>2 DEF Stands
  <2>6. mode[s] = "automation" => d.target = job[s].target
    BY <2>2, <2>4, <2>5 DEF Stands
  <2>7. Safe(d, job[s].seen.own, SafeFloor(cost[s].unit))
    BY <2>2 DEF Sound
  <2>8. cost[s].kind = "inventory" => job[s].target >= SafeFloor(cost[s].unit)
    BY <2>3, <2>4, <2>5, <2>7 DEF Safe
  <2>9. QED
    BY <2>2, <2>6, <2>8 DEF Sound
<1>2. HandsSafely
  BY <1>1 DEF HandsSafely
<1>3. HandsFairly
  BY <1>1 DEF HandsFairly, Fair
<1>4. QED
  BY <1>2, <1>3

\* No price race of the owner's shops, for any two shops, market, cycle and day: what
\* prepare_apply hands out in automation is below the own price only where the
\* sellers of the scan no longer leave that, or where the lower price earns more.
THEOREM NoRace == Spec => LowersForSellers
<1>1. LoopInv /\ [Next]_vars => [HandsFairly]_vars
  BY HandsWell
<1>2. QED
  BY <1>1, SpecInv, PTL DEF Spec, LowersForSellers, HandsFairly

\* prepare_apply decides again: whatever the cost has become since the scan, no price
\* goes out for stock below the floor of that cost, under either rule.
THEOREM FloorKept == Spec => StockAboveFloor
<1>1. LoopInv /\ [Next]_vars => [HandsSafely]_vars
  BY HandsWell
<1>2. QED
  BY <1>1, SpecInv, PTL DEF Spec, StockAboveFloor, HandsSafely
=============================================================================
