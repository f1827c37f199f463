------------------------ MODULE InventoryFifoProofs ------------------------
(***************************************************************************)
(* Proofs about InventoryFifo, for any products, batches, orders, lines,   *)
(* demands and importers.                                                  *)
(*                                                                         *)
(* Whatever commits inside the window of an import: types; no unit is lost *)
(* or invented; every batch stays reachable; every card shows the stock of *)
(* its pool; units leave a pool oldest batch first. Until an import serves *)
(* a line whose order was cancelled or returned in that window (~late):    *)
(* a cancelled order holds no purchased unit, and returned goods stay      *)
(* allocated.                                                              *)
(*                                                                         *)
(* The invariant is Sound, said of the tables as a value, so that it can   *)
(* be carried through the services a transaction calls one after the       *)
(* other. It adds to the properties what an allocation needs: a batch that *)
(* has not arrived has nothing to give, one below its obligations (cut)    *)
(* still owes no more than it had, and no order asks for more than its     *)
(* line. LateInv adds that a manual stage fits the status it was set under.*)
(*                                                                         *)
(* The FIFO argument: laid end to end, the units that the lines of one     *)
(* call need tile the units of the pool, oldest batch first, without a gap *)
(* (NoGap), so what a younger batch gives lies behind all of an older one, *)
(* which is used up (AheadGrows, ServeOldest). Sums are cardinalities of   *)
(* sets of units, so what is known of finite sets carries over.            *)
(***************************************************************************)
EXTENDS InventoryFifo, FiniteSetTheorems, NaturalsInduction, WellFoundedInduction, TLAPS

\* Sums over a finite set. Total(f) counts the pairs of an element and one of
\* its units.
LEMMA UnitOf ==
  ASSUME NEW S, NEW f \in [S -> Nat]
  PROVE  \A u : u \in Units(f) <=> \E x \in S, k \in Nat : k \in 1 .. f[x] /\ u = <<x, k>>
<1>1. ASSUME NEW u \in Units(f) PROVE \E x \in S, k \in Nat : k \in 1 .. f[x] /\ u = <<x, k>>
  <2>1. PICK x \in S : u \in {x} \X (1 .. f[x])
    BY DEF Units
  <2>2. QED
    BY <2>1
<1>2. ASSUME NEW x \in S, NEW k \in 1 .. f[x] PROVE <<x, k>> \in Units(f)
  BY DEF Units
<1>3. QED
  BY <1>1, <1>2

LEMMA UnitParts ==
  ASSUME NEW S, NEW f \in [S -> Nat], NEW u \in Units(f)
  PROVE  u[1] \in S /\ u[2] \in 1 .. f[u[1]] /\ u = <<u[1], u[2]>>
  BY UnitOf

LEMMA UnitsFinite ==
  ASSUME NEW S, IsFiniteSet(S), NEW f \in [S -> Nat]
  PROVE  IsFiniteSet(Units(f)) /\ Total(f) \in Nat
<1> DEFINE C == {{x} \X (1 .. f[x]) : x \in S}
           g == [x \in S |-> {x} \X (1 .. f[x])]
<1>1. g \in Surjection(S, C)
  BY DEF Surjection
<1>2. IsFiniteSet(C)
  BY <1>1, FS_Surjection
<1>3. ASSUME NEW x \in S PROVE IsFiniteSet({x} \X (1 .. f[x]))
  <2>1. IsFiniteSet({x})
    BY FS_Singleton
  <2>2. IsFiniteSet(1 .. f[x])
    BY FS_Interval
  <2>3. QED
    BY <2>1, <2>2, FS_Product
<1>4. IsFiniteSet(UNION C)
  BY <1>2, <1>3, FS_UNION
<1>5. Units(f) = UNION C
  BY DEF Units
<1>6. QED
  BY <1>4, <1>5, FS_CardinalityType DEF Total

\* A sum is split, is zero, is added up, and grows, as one expects.
LEMMA TotalSplit ==
  ASSUME NEW S, IsFiniteSet(S), NEW f \in [S -> Nat], NEW A
  PROVE  /\ Total(f) = Total([x \in S \cap A |-> f[x]]) + Total([x \in S \ A |-> f[x]])
         /\ Total([x \in S \cap A |-> f[x]]) \in Nat /\ Total([x \in S \ A |-> f[x]]) \in Nat
<1> DEFINE g == [x \in S \cap A |-> f[x]]
           h == [x \in S \ A |-> f[x]]
<1>1. /\ IsFiniteSet(S \cap A) /\ IsFiniteSet(S \ A)
      /\ g \in [S \cap A -> Nat] /\ h \in [S \ A -> Nat]
  BY FS_Intersection, FS_Difference
<1>2. IsFiniteSet(Units(g)) /\ IsFiniteSet(Units(h)) /\ Total(g) \in Nat /\ Total(h) \in Nat
  BY <1>1, UnitsFinite
<1>3. Units(f) = Units(g) \cup Units(h)
  BY DEF Units
<1>4. Units(g) \cap Units(h) = {}
  BY DEF Units
<1>5. Cardinality(Units(f)) = Cardinality(Units(g)) + Cardinality(Units(h)) - Cardinality(Units(g) \cap Units(h))
  BY <1>2, <1>3, FS_Union
<1>6. Cardinality(Units(g) \cap Units(h)) = 0
  BY <1>4, FS_EmptySet
<1> HIDE DEF g, h
<1>7. QED
  BY <1>2, <1>5, <1>6 DEF Total, g, h

LEMMA TotalZero ==
  ASSUME NEW S, IsFiniteSet(S), NEW f \in [S -> Nat]
  PROVE  Total(f) = 0 <=> \A x \in S : f[x] = 0
<1>1. Total(f) = 0 <=> Units(f) = {}
  BY UnitsFinite, FS_EmptySet DEF Total
<1>2. ASSUME \A x \in S : f[x] = 0 PROVE Units(f) = {}
  BY <1>2 DEF Units
<1>3. ASSUME Units(f) = {}, NEW x \in S PROVE f[x] = 0
  <2>1. SUFFICES ASSUME f[x] # 0 PROVE FALSE
    OBVIOUS
  <2>2. 1 \in 1 .. f[x]
    BY <2>1
  <2>3. <<x, 1>> \in Units(f)
    BY <2>2, UnitOf
  <2>4. QED
    BY <1>3, <2>3
<1>4. QED
  BY <1>1, <1>2, <1>3

LEMMA TotalAdd ==
  ASSUME NEW S, IsFiniteSet(S), NEW f \in [S -> Nat], NEW g \in [S -> Nat],
         NEW sum \in [S -> Nat], \A x \in S : sum[x] = f[x] + g[x]
  PROVE  Total(sum) = Total(f) + Total(g)
<1> DEFINE moved == {u \in Units(sum) : u[2] > f[u[1]]}
           shift == [u \in Units(g) |-> <<u[1], f[u[1]] + u[2]>>]
<1>1. sum \in [S -> Nat]
  OBVIOUS
<1>2. /\ IsFiniteSet(Units(f)) /\ IsFiniteSet(Units(g)) /\ IsFiniteSet(Units(sum))
      /\ Total(f) \in Nat /\ Total(g) \in Nat
  BY <1>1, UnitsFinite
<1>3. shift \in Bijection(Units(g), moved)
  <2>1. ASSUME NEW u \in Units(g) PROVE shift[u] \in moved
    <3>1. PICK x \in S, k \in Nat : k \in 1 .. g[x] /\ u = <<x, k>>
      BY UnitOf
    <3>2. f[x] + k \in 1 .. sum[x] /\ f[x] + k > f[x]
      BY <3>1
    <3>3. <<x, f[x] + k>> \in Units(sum)
      BY <1>1, <3>2, UnitOf
    <3>4. QED
      BY <3>1, <3>2, <3>3
  <2>2. ASSUME NEW u \in Units(g), NEW v \in Units(g), shift[u] = shift[v] PROVE u = v
    <3>1. PICK x \in S, k \in Nat : k \in 1 .. g[x] /\ u = <<x, k>>
      BY UnitOf
    <3>2. PICK y \in S, m \in Nat : m \in 1 .. g[y] /\ v = <<y, m>>
      BY UnitOf
    <3>3. <<x, f[x] + k>> = <<y, f[y] + m>>
      BY <2>2, <3>1, <3>2
    <3>4. x = y /\ f[x] + k = f[x] + m /\ f[x] \in Nat
      BY <3>3
    <3>5. QED
      BY <3>1, <3>2, <3>4
  <2>3. ASSUME NEW w \in moved PROVE \E u \in Units(g) : shift[u] = w
    <3>1. PICK x \in S, k \in Nat : k \in 1 .. sum[x] /\ w = <<x, k>>
      BY <1>1, UnitOf
    <3>2. k > f[x]
      BY <3>1
    <3>3. k - f[x] \in 1 .. g[x] /\ f[x] + (k - f[x]) = k
      BY <3>1, <3>2
    <3>4. <<x, k - f[x]>> \in Units(g)
      BY <3>3, UnitOf
    <3>5. QED
      BY <3>1, <3>3, <3>4
  <2> HIDE DEF shift, moved
  <2>4. shift \in [Units(g) -> moved]
    BY <2>1 DEF shift
  <2>5. shift \in Injection(Units(g), moved)
    BY <2>2, <2>4 DEF Injection, IsInjective
  <2>6. shift \in Surjection(Units(g), moved)
    BY <2>3, <2>4 DEF Surjection
  <2>7. QED
    BY <2>5, <2>6 DEF Bijection
<1>4. IsFiniteSet(moved) /\ Cardinality(moved) = Cardinality(Units(g))
  BY <1>2, <1>3, FS_Bijection DEF ExistsBijection
<1>5. Units(sum) = Units(f) \cup moved
  <2>1. ASSUME NEW u \in Units(sum) PROVE u \in Units(f) \cup moved
    <3>1. PICK x \in S, k \in Nat : k \in 1 .. sum[x] /\ u = <<x, k>>
      BY <1>1, UnitOf
    <3>2. CASE k > f[x]
      BY <3>1, <3>2
    <3>3. CASE k <= f[x]
      <4>1. k \in 1 .. f[x]
        BY <3>1, <3>3
      <4>2. QED
        BY <3>1, <4>1, UnitOf
    <3>4. QED
      BY <3>2, <3>3
  <2>2. ASSUME NEW u \in Units(f) PROVE u \in Units(sum)
    <3>1. PICK x \in S, k \in Nat : k \in 1 .. f[x] /\ u = <<x, k>>
      BY UnitOf
    <3>2. k \in 1 .. sum[x]
      BY <3>1
    <3>3. QED
      BY <1>1, <3>1, <3>2, UnitOf
  <2>3. QED
    BY <2>1, <2>2
<1>6. Units(f) \cap moved = {}
  <2>1. ASSUME NEW u \in Units(f) PROVE u \notin moved
    <3>1. PICK x \in S, k \in Nat : k \in 1 .. f[x] /\ u = <<x, k>>
      BY UnitOf
    <3>2. ~(k > f[x])
      BY <3>1
    <3>3. QED
      BY <3>1, <3>2
  <2>2. QED
    BY <2>1
<1> HIDE DEF moved, shift
<1>7. Cardinality(Units(sum)) = Cardinality(Units(f)) + Cardinality(moved) - Cardinality(Units(f) \cap moved)
  BY <1>2, <1>4, <1>5, FS_Union
<1>8. Cardinality(Units(f) \cap moved) = 0
  BY <1>6, FS_EmptySet
<1>9. QED
  BY <1>2, <1>4, <1>7, <1>8 DEF Total

LEMMA TotalAt ==
  ASSUME NEW S, IsFiniteSet(S), NEW f \in [S -> Nat], NEW x \in S
  PROVE  /\ Total(f) = f[x] + Total([y \in S \ {x} |-> f[y]])
         /\ f[x] <= Total(f)
<1> DEFINE one == [y \in S \cap {x} |-> f[y]]
           rest == [y \in S \ {x} |-> f[y]]
<1>1. Total(f) = Total(one) + Total(rest)
  BY TotalSplit
<1>2. rest \in [S \ {x} -> Nat] /\ IsFiniteSet(S \ {x})
  BY FS_RemoveElement
<1>3. Total(rest) \in Nat
  BY <1>2, UnitsFinite
<1>4. Units(one) = {x} \X (1 .. f[x])
  BY DEF Units
<1>5. Total(one) = f[x]
  <2> DEFINE X == {x}
             I == 1 .. f[x]
  <2>1. IsFiniteSet(X) /\ Cardinality(X) = 1
    BY FS_Singleton
  <2>2. f[x] \in Nat /\ IsFiniteSet(I) /\ Cardinality(I) = f[x]
    BY FS_Interval
  <2>3. Units(one) = X \X I
    BY <1>4
  <2> HIDE DEF X, I, one
  <2>4. Cardinality(X \X I) = Cardinality(X) * Cardinality(I)
    BY <2>1, <2>2, FS_Product
  <2>5. Cardinality(X \X I) = f[x]
    BY <2>1, <2>2, <2>4
  <2>6. QED
    BY <2>3, <2>5 DEF Total
<1> HIDE DEF one, rest
<1>6. QED
  BY <1>1, <1>3, <1>5 DEF rest

LEMMA TotalSubset ==
  ASSUME NEW S, IsFiniteSet(S), NEW f \in [S -> Nat], NEW A \in SUBSET S,
         NEW g \in [A -> Nat], \A x \in A : g[x] <= f[x]
  PROVE  Total(g) <= Total(f) /\ Total(g) \in Nat
<1>1. IsFiniteSet(A)
  BY FS_Subset
<1>2. Units(g) \subseteq Units(f)
  <2>1. ASSUME NEW x \in A PROVE 1 .. g[x] \subseteq 1 .. f[x]
    OBVIOUS
  <2>2. QED
    BY <2>1 DEF Units
<1>3. QED
  BY <1>1, <1>2, UnitsFinite, FS_Subset DEF Total

\* The units that two intervals share.
Larger(a, b) == IF a > b THEN a ELSE b
Smaller(a, b) == IF a < b THEN a ELSE b

LEMMA OverlapIs ==
  ASSUME NEW a \in Nat, NEW n \in Nat, NEW c \in Nat, NEW m \in Nat
  PROVE  /\ Overlap(a, n, c, m) = Monus(Smaller(a + n, c + m), Larger(a, c))
         /\ Overlap(a, n, c, m) \in Nat
         /\ Overlap(a, n, c, m) <= n /\ Overlap(a, n, c, m) <= m
<1>1. Min({a + n, c + m}) = Smaller(a + n, c + m)
  BY DEF Min, Smaller
<1>2. Max({a, c}) = Larger(a, c)
  BY DEF Max, Larger
<1>3. QED
  BY <1>1, <1>2 DEF Overlap, Monus, Smaller, Larger

\* part lays the needs of Q end to end and cuts n units from a on out of them.
Spread(S, Q, from, need, a, n, part) ==
  /\ IsFiniteSet(S) /\ Q \subseteq S
  /\ from \in [S -> Nat] /\ need \in [S -> Nat] /\ a \in Nat /\ n \in Nat
  /\ part \in [S -> Nat]
  /\ \A k, l \in Q : k # l => from[k] + need[k] <= from[l] \/ from[l] + need[l] <= from[k]
  /\ \A l \in S : part[l] = IF l \in Q THEN Overlap(a, n, from[l], need[l]) ELSE 0

\* The parts that disjoint needs take of the cut fit into it.
LEMMA SpreadFits ==
  ASSUME NEW S, NEW Q, NEW from, NEW need, NEW a, NEW n, NEW part,
         Spread(S, Q, from, need, a, n, part)
  PROVE  Total(part) <= n
<1> USE DEF Spread
<1> DEFINE low(l) == Larger(a, from[l])
           place == [u \in Units(part) |-> low(u[1]) - a + u[2]]
<1>1. part \in [S -> Nat]
  OBVIOUS
<1>2. ASSUME NEW l \in S, NEW k \in Nat, k \in 1 .. part[l]
      PROVE  /\ l \in Q /\ low(l) - a + k \in 1 .. n /\ low(l) \in Nat
             /\ low(l) + k <= from[l] + need[l] /\ low(l) >= from[l]
  <2>1. l \in Q
    BY <1>2
  <2>2. part[l] = Monus(Smaller(a + n, from[l] + need[l]), low(l))
    BY <2>1, OverlapIs
  <2>3. QED
    BY <1>2, <2>1, <2>2 DEF Monus, Smaller, Larger
<1>3. IsFiniteSet(1 .. n) /\ Cardinality(1 .. n) = n
  BY FS_Interval
<1>4. \A u \in Units(part) : u[1] \in S /\ u[2] \in 1 .. part[u[1]] /\ u = <<u[1], u[2]>>
  BY <1>1, UnitParts
<1>5. place \in Injection(Units(part), 1 .. n)
  <2>1. ASSUME NEW u \in Units(part) PROVE place[u] \in 1 .. n
    BY <1>2, <1>4
  <2>2. ASSUME NEW u \in Units(part), NEW v \in Units(part), place[u] = place[v] PROVE u = v
    <3> DEFINE l == u[1]
               k == u[2]
               j == v[1]
               m == v[2]
    <3>1. low(l) - a + k = low(j) - a + m
      BY <2>2
    <3>2. l \in S /\ k \in 1 .. part[l] /\ j \in S /\ m \in 1 .. part[j]
      BY <1>4
    <3>3. u = <<l, k>> /\ v = <<j, m>>
      BY <1>4
    <3> HIDE DEF l, k, j, m
    <3>4. k \in Nat /\ m \in Nat /\ k >= 1 /\ m >= 1
      BY <1>1, <3>2
    <3>5. /\ l \in Q /\ low(l) \in Nat /\ low(l) + k <= from[l] + need[l] /\ low(l) >= from[l]
          /\ j \in Q /\ low(j) \in Nat /\ low(j) + m <= from[j] + need[j] /\ low(j) >= from[j]
      BY <1>2, <3>2, <3>4
    <3>6. from[l] \in Nat /\ need[l] \in Nat /\ from[j] \in Nat /\ need[j] \in Nat
      BY <3>2
    <3> HIDE DEF low
    <3>7. ~(from[j] + need[j] <= from[l])
      BY <3>1, <3>4, <3>5, <3>6
    <3>8. ~(from[l] + need[l] <= from[j])
      BY <3>1, <3>4, <3>5, <3>6
    <3>9. l = j
      BY <3>5, <3>7, <3>8
    <3>10. k = m
      BY <3>1, <3>4, <3>5, <3>9
    <3>11. QED
      BY <3>3, <3>9, <3>10
  <2> HIDE DEF place, low
  <2>3. place \in [Units(part) -> 1 .. n]
    BY <2>1 DEF place
  <2>4. QED
    BY <2>2, <2>3 DEF Injection, IsInjective
<1> HIDE DEF place
<1>6. Cardinality(Units(part)) <= Cardinality(1 .. n)
  BY <1>3, <1>5, FS_Injection
<1>7. QED
  BY <1>3, <1>6 DEF Total

\* When the needs leave no gap up to the end of the cut, it is used up.
LEMMA SpreadFills ==
  ASSUME NEW S, NEW Q, NEW from, NEW need, NEW a, NEW n, NEW part,
         Spread(S, Q, from, need, a, n, part), NEW top \in Nat, a + n <= top,
         \A x \in Nat : x < top => \E k \in Q : from[k] <= x /\ x < from[k] + need[k]
  PROVE  Total(part) = n
<1> DEFINE low(k) == Larger(a, from[k])
           of(y) == CHOOSE k \in Q : from[k] <= a + y - 1 /\ a + y - 1 < from[k] + need[k]
           unit == [y \in 1 .. n |-> <<of(y), a + y - low(of(y))>>]
<1>1. Total(part) <= n
  BY SpreadFits
<1> USE DEF Spread
<1>2. IsFiniteSet(Units(part)) /\ Total(part) \in Nat
  BY UnitsFinite
<1>3. ASSUME NEW y \in 1 .. n
      PROVE  /\ of(y) \in Q /\ from[of(y)] <= a + y - 1 /\ a + y - 1 < from[of(y)] + need[of(y)]
  <2>1. a + y - 1 \in Nat /\ a + y - 1 < top
    OBVIOUS
  <2>2. \E k \in Q : from[k] <= a + y - 1 /\ a + y - 1 < from[k] + need[k]
    BY <2>1
  <2>3. QED
    BY <2>2
<1> HIDE DEF of
<1>4. ASSUME NEW y \in 1 .. n
      PROVE  unit[y] \in Units(part) /\ unit[y] = <<of(y), a + y - low(of(y))>> /\ low(of(y)) \in Nat
  <2> DEFINE k == of(y)
             m == a + y - low(k)
  <2>1. k \in Q /\ k \in S /\ from[k] \in Nat /\ need[k] \in Nat
    BY <1>3
  <2>2. from[k] <= a + y - 1 /\ a + y - 1 < from[k] + need[k]
    BY <1>3
  <2>3. part[k] = Monus(Smaller(a + n, from[k] + need[k]), low(k))
    BY <2>1, OverlapIs
  <2> HIDE DEF k
  <2>4. m \in 1 .. part[k] /\ m \in Nat /\ low(k) \in Nat
    BY <2>1, <2>2, <2>3 DEF Monus, Smaller, Larger
  <2>5. <<k, m>> \in Units(part)
    BY <2>1, <2>4, UnitOf
  <2>6. unit[y] = <<k, m>>
    BY DEF k
  <2>7. QED
    BY <2>4, <2>5, <2>6 DEF k
<1>5. ASSUME NEW y \in 1 .. n, NEW z \in 1 .. n, unit[y] = unit[z] PROVE y = z
  <2>1. /\ <<of(y), a + y - low(of(y))>> = <<of(z), a + z - low(of(z))>>
        /\ low(of(y)) \in Nat
    BY <1>4, <1>5
  <2> HIDE DEF low
  <2>2. of(y) = of(z) /\ a + y - low(of(y)) = a + z - low(of(z))
    BY <2>1
  <2>3. QED
    BY <2>1, <2>2
<1> HIDE DEF unit
<1>6. unit \in Injection(1 .. n, Units(part))
  <2>1. unit \in [1 .. n -> Units(part)]
    BY <1>4 DEF unit
  <2>2. QED
    BY <1>5, <2>1 DEF Injection, IsInjective
<1>7. IsFiniteSet(1 .. n) /\ Cardinality(1 .. n) = n
  BY FS_Interval
<1>8. Cardinality(1 .. n) <= Cardinality(Units(part))
  BY <1>2, <1>6, FS_Injection
<1>9. QED
  BY <1>1, <1>2, <1>7, <1>8 DEF Total

\* A set of numbers that is not empty has a least element.
LEMMA LeastNumber ==
  ASSUME NEW T, T \subseteq Nat, T # {}
  PROVE  \E n \in T : \A m \in T : ~(m < n)
<1>1. \E n \in T : \A m \in T : ~(<<m, n>> \in OpToRel(<, Nat))
  BY NatLessThanWellFounded, WFMin
<1>2. QED
  BY <1>1 DEF OpToRel

-----------------------------------------------------------------------------
\* The lines, the tables and their rows.
LEMMA Finite == IsFiniteSet(Products) /\ IsFiniteSet(Batches) /\ IsFiniteSet(Lines)
  BY InventoryAssumption

LEMMA LineOrder ==
  ASSUME NEW j \in Lines, NEW k \in Lines, NEW l \in Lines
  PROVE  j < k /\ k < l => j < l /\ j # k
  BY InventoryAssumption

LEMMA LinesOrdered ==
  ASSUME NEW k \in Lines, NEW l \in Lines
  PROVE  k # l => k < l \/ l < k
  BY InventoryAssumption

\* Of some lines one is the first, and one the last.
LEMMA FirstLine ==
  ASSUME NEW T, T \subseteq Lines, T # {}
  PROVE  \E k \in T : \A j \in T : ~(j < k)
  BY LeastNumber, InventoryAssumption

LEMMA LastLine ==
  ASSUME NEW l \in Lines, NEW T, T \subseteq Lines, T # {}, \A j \in T : j < l
  PROVE  \E k \in T : \A j \in T : ~(k < j)
<1> DEFINE D == {l - j : j \in T}
<1>1. Lines \subseteq Nat
  BY InventoryAssumption
<1>2. D \subseteq Nat /\ D # {}
  <2>1. ASSUME NEW j \in T PROVE l - j \in Nat
    <3>1. j \in Nat /\ l \in Nat /\ j < l
      BY <1>1
    <3>2. QED
      BY <3>1
  <2>2. QED
    BY <2>1
<1>3. PICK n \in D : \A m \in D : ~(m < n)
  <2> HIDE DEF D
  <2>1. QED
    BY <1>2, LeastNumber
<1>4. PICK k \in T : n = l - k
  OBVIOUS
<1>5. ASSUME NEW j \in T, k < j PROVE FALSE
  <2>1. j \in Nat /\ k \in Nat /\ l \in Nat
    BY <1>1
  <2>2. l - j \in D
    OBVIOUS
  <2>3. ~(l - j < l - k)
    BY <1>3, <1>4, <2>2
  <2>4. QED
    BY <1>5, <2>1, <2>3
<1>6. QED
  BY <1>5

\* The tables of a database and their types.
LEMMA Fields ==
  ASSUME NEW d \in Database
  PROVE  /\ d.owner \in [Products -> Products]
         /\ d.batch \in [Batches -> Batch \cup {NoBatch}]
         /\ d.alloc \in [Lines -> [Batches -> Nat]]
         /\ d.order \in [Orders -> [status : Status, manual : Manual \cup {"none"}]]
         /\ d.line \in [Lines -> [product : Products \cup {NoProduct}, quantity : Nat]]
         /\ d.shown \in [Products -> Nat]
  BY DEF Database

LEMMA RowOf ==
  ASSUME NEW d \in Database, NEW b \in Batches
  PROVE  /\ Exists(d, b) => d.batch[b] \in Batch /\ d.batch[b].kind \in Kinds
         /\ ~Exists(d, b) => d.batch[b] = NoBatch /\ d.batch[b].kind = "none"
         /\ b \in Purchased(d) <=> d.batch[b].kind = "purchase"
         /\ b \in Purchased(d) => Exists(d, b)
<1>1. d.batch[b] \in Batch \cup {NoBatch}
  BY Fields
<1>2. NoBatch.kind = "none"
  BY DEF NoBatch
<1>3. \A row \in Batch : row.kind \in Kinds
  BY DEF Batch
<1>4. QED
  BY <1>1, <1>2, <1>3 DEF Exists, Purchased, Kinds

LEMMA ShelfRow ==
  ASSUME NEW d \in Database, NEW p, NEW b \in Shelf(d, p)
  PROVE  /\ b \in Batches /\ Exists(d, b) /\ d.batch[b] \in Batch
         /\ d.batch[b].kind = "purchase" /\ d.batch[b].here /\ d.batch[b].owner = p
         /\ d.batch[b].left \in Nat
<1>1. b \in Batches /\ b \in Purchased(d)
  BY DEF Shelf, Purchased
<1>2. d.batch[b] \in Batch
  BY <1>1, RowOf
<1>3. QED
  BY <1>1, <1>2, RowOf DEF Shelf, Batch

LEMMA SumsType ==
  ASSUME NEW d \in Database
  PROVE  /\ \A l \in Lines : OfLine(d, l) \in Nat
         /\ \A b \in Batches : OfBatch(d, b) \in Nat
         /\ \A p : Stock(d, p) \in Nat
<1>1. ASSUME NEW l \in Lines PROVE OfLine(d, l) \in Nat
  BY Fields, UnitsFinite, Finite DEF OfLine
<1>2. ASSUME NEW b \in Batches PROVE OfBatch(d, b) \in Nat
  <2>1. [l \in Lines |-> d.alloc[l][b]] \in [Lines -> Nat]
    BY Fields
  <2>2. QED
    BY <2>1, UnitsFinite, Finite DEF OfBatch
<1>3. ASSUME NEW p PROVE Stock(d, p) \in Nat
  <2>1. Shelf(d, p) \subseteq Batches
    BY ShelfRow
  <2>2. IsFiniteSet(Shelf(d, p))
    BY <2>1, FS_Subset, Finite
  <2>3. [b \in Shelf(d, p) |-> d.batch[b].left] \in [Shelf(d, p) -> Nat]
    BY ShelfRow
  <2>4. QED
    BY <2>2, <2>3, UnitsFinite DEF Stock
<1>4. QED
  BY <1>1, <1>2, <1>3

-----------------------------------------------------------------------------
\* What a call gives. A line begins behind the lines before it that the same
\* pool serves.
LEMMA BeforeGrows ==
  ASSUME NEW d \in Database, NEW need \in [Lines -> Nat]
  PROVE  /\ \A l \in Lines : Before(d, need, l) \in Nat
         /\ \A k, l \in Lines :
              /\ k < l /\ need[k] > 0
              /\ Owner(d, d.line[k].product) = Owner(d, d.line[l].product)
              => Before(d, need, k) + need[k] <= Before(d, need, l)
<1> DEFINE K(l) == {k \in Lines : /\ k < l /\ need[k] > 0
                                  /\ Owner(d, d.line[k].product) = Owner(d, d.line[l].product)}
<1>1. \A l : Before(d, need, l) = Total([k \in K(l) |-> need[k]])
  BY DEF Before
<1>2. ASSUME NEW l \in Lines
      PROVE  /\ K(l) \subseteq Lines /\ IsFiniteSet(K(l))
             /\ [k \in K(l) |-> need[k]] \in [K(l) -> Nat]
  BY FS_Subset, Finite
<1>3. ASSUME NEW l \in Lines PROVE Before(d, need, l) \in Nat
  <2> HIDE DEF K
  <2>1. Total([k \in K(l) |-> need[k]]) \in Nat
    BY <1>2, UnitsFinite
  <2>2. QED
    BY <1>1, <2>1
<1>4. ASSUME NEW k \in Lines, NEW l \in Lines, k < l, need[k] > 0,
             Owner(d, d.line[k].product) = Owner(d, d.line[l].product)
      PROVE  Before(d, need, k) + need[k] <= Before(d, need, l)
  <2> DEFINE f == [j \in K(l) |-> need[j]]
             rest == [j \in K(l) \ {k} |-> f[j]]
  <2>1. k \in K(l)
    BY <1>4
  <2>2. f \in [K(l) -> Nat] /\ IsFiniteSet(K(l)) /\ IsFiniteSet(K(l) \ {k})
    BY <1>2, FS_RemoveElement
  <2>3. Total(f) = f[k] + Total(rest)
    <3> HIDE DEF f, K
    <3>1. QED
      BY <2>1, <2>2, TotalAt
  <2>4. K(k) \subseteq K(l) \ {k}
    <3>1. ASSUME NEW j \in K(k) PROVE j \in K(l) \ {k}
      BY <1>4, LineOrder
    <3>2. QED
      BY <3>1
  <2>5. rest \in [K(l) \ {k} -> Nat]
    BY <2>2
  <2> DEFINE g == [j \in K(k) |-> need[j]]
  <2>6. g \in [K(k) -> Nat] /\ \A j \in K(k) : g[j] <= rest[j]
    BY <2>4
  <2>7. Total(g) <= Total(rest)
    <3> HIDE DEF rest, K, g
    <3>1. QED
      BY <2>2, <2>4, <2>5, <2>6, TotalSubset
  <2>8. Before(d, need, k) <= Total(rest)
    BY <1>1, <2>7
  <2>9. f[k] = need[k] /\ Total(f) = Before(d, need, l)
    BY <1>1, <2>1
  <2>10. Total(rest) \in Nat
    <3> HIDE DEF rest, K
    <3>1. QED
      BY <2>2, <2>5, UnitsFinite
  <2> HIDE DEF f, rest, K
  <2>11. QED
    BY <1>3, <2>3, <2>8, <2>9, <2>10
<1>5. QED
  BY <1>3, <1>4

\* A line is given what its need and the batch have in common, and only by the
\* pool of its card.
LEMMA GivenType ==
  ASSUME NEW d \in Database, NEW need \in [Lines -> Nat]
  PROVE  \A l \in Lines, b \in Batches :
           /\ Given(d, need)[l][b] \in Nat
           /\ Given(d, need)[l][b] > 0 => need[l] > 0 /\ b \in Shelf(d, Owner(d, d.line[l].product))
           /\ need[l] > 0 /\ b \in Shelf(d, Owner(d, d.line[l].product)) =>
                Given(d, need)[l][b] =
                  Overlap(Ahead(d, b, Shelf(d, d.batch[b].owner)), d.batch[b].left,
                          Before(d, need, l), need[l])
<1> SUFFICES ASSUME NEW l \in Lines, NEW b \in Batches
             PROVE  /\ Given(d, need)[l][b] \in Nat
                    /\ Given(d, need)[l][b] > 0 => need[l] > 0 /\ b \in Shelf(d, Owner(d, d.line[l].product))
                    /\ need[l] > 0 /\ b \in Shelf(d, Owner(d, d.line[l].product)) =>
                         Given(d, need)[l][b] =
                           Overlap(Ahead(d, b, Shelf(d, d.batch[b].owner)), d.batch[b].left,
                                   Before(d, need, l), need[l])
  OBVIOUS
<1> DEFINE own == Owner(d, d.line[l].product)
<1>1. Given(d, need)[l][b] =
        IF need[l] > 0 /\ b \in Shelf(d, own)
        THEN Overlap(Ahead(d, b, Shelf(d, own)), d.batch[b].left, Before(d, need, l), need[l])
        ELSE 0
  BY DEF Given
<1>2. CASE need[l] > 0 /\ b \in Shelf(d, own)
  <2>1. d.batch[b].owner = own /\ d.batch[b].left \in Nat
    BY <1>2, ShelfRow
  <2>2. Ahead(d, b, Shelf(d, own)) \in Nat
    <3> DEFINE A == {c \in Shelf(d, own) : Older(d, c, b)}
    <3>1. A \subseteq Batches
      BY ShelfRow
    <3>2. IsFiniteSet(A)
      BY <3>1, FS_Subset, Finite
    <3>3. [c \in A |-> d.batch[c].left] \in [A -> Nat]
      BY ShelfRow
    <3>4. Ahead(d, b, Shelf(d, own)) = Total([c \in A |-> d.batch[c].left])
      BY DEF Ahead
    <3> HIDE DEF A
    <3>5. QED
      BY <3>2, <3>3, <3>4, UnitsFinite
  <2>3. Before(d, need, l) \in Nat /\ need[l] \in Nat
    BY BeforeGrows
  <2> HIDE DEF own
  <2>4. Overlap(Ahead(d, b, Shelf(d, own)), d.batch[b].left, Before(d, need, l), need[l]) \in Nat
    BY <2>1, <2>2, <2>3, OverlapIs
  <2>5. QED
    BY <1>1, <1>2, <2>1, <2>4 DEF own
<1>3. CASE ~(need[l] > 0 /\ b \in Shelf(d, own))
  BY <1>1, <1>3
<1>4. QED
  BY <1>2, <1>3

\* The lines that a call serves from an owner's pool, and where each begins in
\* the sequence of the units they need.
Served(d, need, own) == {l \in Lines : need[l] > 0 /\ Owner(d, d.line[l].product) = own}
Begin(d, need) == [l \in Lines |-> Before(d, need, l)]

\* What a call takes from a batch is cut out of the units its lines need.
LEMMA GivenSpread ==
  ASSUME NEW d \in Database, NEW need \in [Lines -> Nat], NEW b \in Batches,
         NEW own, b \in Shelf(d, own),
         NEW part, part = [l \in Lines |-> Given(d, need)[l][b]]
  PROVE  Spread(Lines, Served(d, need, own), Begin(d, need), need,
                Ahead(d, b, Shelf(d, own)), d.batch[b].left, part)
<1> DEFINE Q == Served(d, need, own)
           from == Begin(d, need)
           a == Ahead(d, b, Shelf(d, own))
           n == d.batch[b].left
<1>1. part \in [Lines -> Nat] /\ d.batch[b].owner = own /\ n \in Nat
  BY GivenType, ShelfRow
<1>2. a \in Nat
  <2> DEFINE A == {c \in Shelf(d, own) : Older(d, c, b)}
  <2>1. A \subseteq Batches
    BY ShelfRow
  <2>2. IsFiniteSet(A)
    BY <2>1, FS_Subset, Finite
  <2>3. [c \in A |-> d.batch[c].left] \in [A -> Nat]
    BY ShelfRow
  <2>4. a = Total([c \in A |-> d.batch[c].left])
    BY DEF Ahead
  <2> HIDE DEF A
  <2>5. QED
    BY <2>2, <2>3, <2>4, UnitsFinite
<1>3. from \in [Lines -> Nat] /\ Q \subseteq Lines
  BY BeforeGrows DEF Begin, Served
<1>4. \A k, l \in Q : k # l => from[k] + need[k] <= from[l] \/ from[l] + need[l] <= from[k]
  BY BeforeGrows, LinesOrdered DEF Begin, Served
<1>5. ASSUME NEW l \in Lines
      PROVE  part[l] = IF l \in Q THEN Overlap(a, n, from[l], need[l]) ELSE 0
  <2>1. CASE l \in Q
    BY <1>1, <2>1, GivenType DEF Served, Begin
  <2>2. CASE l \notin Q
    <3>1. ~(need[l] > 0 /\ b \in Shelf(d, Owner(d, d.line[l].product)))
      BY <1>1, <2>2, ShelfRow DEF Served
    <3>2. Given(d, need)[l][b] \in Nat /\ ~(Given(d, need)[l][b] > 0)
      BY <3>1, GivenType
    <3>3. QED
      BY <2>2, <3>2
  <2>3. QED
    BY <2>1, <2>2
<1> HIDE DEF Q, from, a, n
<1>6. Spread(Lines, Q, from, need, a, n, part)
  BY <1>1, <1>2, <1>3, <1>4, <1>5, Finite DEF Spread
<1>7. QED
  BY <1>6 DEF Q, from, a, n

\* A call never takes more from a batch than the batch has.
LEMMA GivenFits ==
  ASSUME NEW d \in Database, NEW need \in [Lines -> Nat], NEW b \in Batches
  PROVE  /\ [l \in Lines |-> Given(d, need)[l][b]] \in [Lines -> Nat]
         /\ Total([l \in Lines |-> Given(d, need)[l][b]]) \in Nat
         /\ b \in Shelf(d, d.batch[b].owner) =>
              Total([l \in Lines |-> Given(d, need)[l][b]]) <= d.batch[b].left
         /\ b \notin Shelf(d, d.batch[b].owner) => Total([l \in Lines |-> Given(d, need)[l][b]]) = 0
         /\ \A l \in Lines : Given(d, need)[l][b] <= Total([k \in Lines |-> Given(d, need)[k][b]])
<1> DEFINE part == [l \in Lines |-> Given(d, need)[l][b]]
           own == d.batch[b].owner
<1>1. part \in [Lines -> Nat]
  BY GivenType
<1>2. Total(part) \in Nat
  BY <1>1, UnitsFinite, Finite
<1>3. CASE b \in Shelf(d, own)
  <2> HIDE DEF own
  <2>1. Spread(Lines, Served(d, need, own), Begin(d, need), need,
               Ahead(d, b, Shelf(d, own)), d.batch[b].left, part)
    BY <1>3, GivenSpread
  <2> HIDE DEF part
  <2>2. Total(part) <= d.batch[b].left
    BY <2>1, SpreadFits
  <2>3. \A l \in Lines : part[l] <= Total(part)
    BY <1>1, TotalAt, Finite
  <2>4. QED
    BY <1>1, <1>2, <1>3, <2>2, <2>3 DEF own, part
<1>4. CASE b \notin Shelf(d, own)
  <2>1. \A l \in Lines : part[l] = 0
    <3>1. ASSUME NEW l \in Lines PROVE part[l] = 0
      <4>1. b \notin Shelf(d, Owner(d, d.line[l].product))
        BY <1>4, ShelfRow
      <4>2. Given(d, need)[l][b] \in Nat /\ ~(Given(d, need)[l][b] > 0)
        BY <4>1, GivenType
      <4>3. QED
        BY <4>2
    <3>2. QED
      BY <3>1
  <2> HIDE DEF part
  <2>2. Total(part) = 0
    BY <1>1, <2>1, TotalZero, Finite
  <2>3. QED
    BY <1>1, <1>4, <2>1, <2>2, <1>2 DEF part
<1>5. QED
  BY <1>3, <1>4

-----------------------------------------------------------------------------
\* What an operator on the tables leaves of a database d in e.
SameRows(d, e) ==
  \A b \in Batches :
    /\ Exists(e, b) <=> Exists(d, b)
    /\ e.batch[b].kind = d.batch[b].kind
    /\ Exists(d, b) => /\ e.batch[b].owner = d.batch[b].owner /\ e.batch[b].at = d.batch[b].at
                       /\ e.batch[b].got = d.batch[b].got /\ e.batch[b].here = d.batch[b].here
SameOrders(d, e) == e.order = d.order /\ e.line = d.line /\ e.owner = d.owner

\* Serve: the batches lose what the lines gain.
LEMMA WithLeftFields ==
  ASSUME NEW row \in Batch, NEW n \in Nat
  PROVE  /\ WithLeft(row, n) \in Batch /\ WithLeft(row, n) # NoBatch
         /\ WithLeft(row, n).left = n /\ WithLeft(row, n).kind = row.kind
         /\ WithLeft(row, n).owner = row.owner /\ WithLeft(row, n).at = row.at
         /\ WithLeft(row, n).got = row.got /\ WithLeft(row, n).here = row.here
<1>1. WithLeft(row, n) \in Batch /\ row.kind \in Kinds
  BY DEF WithLeft, Batch
<1>2. WithLeft(row, n).kind = row.kind
  BY DEF WithLeft, Batch
<1>3. WithLeft(row, n) # NoBatch
  BY <1>1, <1>2 DEF NoBatch, Kinds
<1>4. QED
  BY <1>1, <1>3 DEF WithLeft, Batch

Taken(d, need, b) == Total([l \in Lines |-> Given(d, need)[l][b]])

LEMMA ServeFields ==
  ASSUME NEW d \in Database, NEW need \in [Lines -> Nat], NEW e, e = Serve(d, need)
  PROVE  /\ e \in Database /\ SameRows(d, e) /\ SameOrders(d, e) /\ e.shown = d.shown
         /\ \A l \in Lines, b \in Batches : e.alloc[l][b] = d.alloc[l][b] + Given(d, need)[l][b]
         /\ \A b \in Batches : Exists(d, b) => e.batch[b].left = d.batch[b].left - Taken(d, need, b)
<1> DEFINE given == Given(d, need)
           taken(b) == Taken(d, need, b)
           A == [l \in Lines |-> [b \in Batches |-> d.alloc[l][b] + given[l][b]]]
           row(b) == IF taken(b) = 0 THEN d.batch[b]
                     ELSE WithLeft(d.batch[b], d.batch[b].left - taken(b))
           B == [b \in Batches |-> row(b)]
<1>1. e = [d EXCEPT !.alloc = A, !.batch = B]
  BY DEF Serve, Taken
<1>2. \A b \in Batches : /\ taken(b) \in Nat
                         /\ b \in Shelf(d, d.batch[b].owner) => taken(b) <= d.batch[b].left
                         /\ b \notin Shelf(d, d.batch[b].owner) => taken(b) = 0
  BY GivenFits DEF Taken
<1>3. A \in [Lines -> [Batches -> Nat]]
  <2>1. \A l \in Lines, b \in Batches : given[l][b] \in Nat /\ d.alloc[l][b] \in Nat
    BY GivenType, Fields
  <2> HIDE DEF given
  <2>2. QED
    BY <2>1
<1> HIDE DEF taken
<1>4. ASSUME NEW b \in Batches
      PROVE  /\ row(b) \in Batch \cup {NoBatch} /\ row(b).kind = d.batch[b].kind
             /\ row(b) # NoBatch <=> Exists(d, b)
             /\ Exists(d, b) => /\ row(b).owner = d.batch[b].owner /\ row(b).at = d.batch[b].at
                                /\ row(b).got = d.batch[b].got /\ row(b).here = d.batch[b].here
                                /\ row(b).left = d.batch[b].left - taken(b)
  <2>1. CASE taken(b) = 0
    <3>1. Exists(d, b) => d.batch[b].left \in Nat
      BY RowOf DEF Batch
    <3>2. QED
      BY <2>1, <3>1, Fields DEF Exists
  <2>2. CASE taken(b) # 0
    <3>1. b \in Shelf(d, d.batch[b].owner)
      BY <1>2, <2>2
    <3>2. Exists(d, b) /\ d.batch[b] \in Batch /\ d.batch[b].left \in Nat
      BY <3>1, ShelfRow
    <3>3. d.batch[b].left - taken(b) \in Nat
      BY <1>2, <3>1, <3>2
    <3> DEFINE n == d.batch[b].left - taken(b)
    <3>4. row(b) = WithLeft(d.batch[b], n)
      BY <2>2
    <3>5. n \in Nat
      BY <3>3
    <3> HIDE DEF row, n
    <3>6. /\ row(b) \in Batch /\ row(b) # NoBatch /\ row(b).left = n
          /\ row(b).kind = d.batch[b].kind
          /\ row(b).owner = d.batch[b].owner /\ row(b).at = d.batch[b].at
          /\ row(b).got = d.batch[b].got /\ row(b).here = d.batch[b].here
      <4> DEFINE r == d.batch[b]
                 w == WithLeft(r, n)
      <4>1. r \in Batch
        BY <3>2
      <4> HIDE DEF r
      <4>2. /\ w \in Batch /\ w # NoBatch /\ w.left = n /\ w.kind = r.kind
            /\ w.owner = r.owner /\ w.at = r.at /\ w.got = r.got /\ w.here = r.here
        BY <4>1, <3>5, WithLeftFields
      <4>3. row(b) = w
        BY <3>4 DEF r
      <4> HIDE DEF w
      <4>4. QED
        BY <4>2, <4>3 DEF r
    <3>7. QED
      BY <3>2, <3>6 DEF n
  <2>3. QED
    BY <2>1, <2>2
<1> HIDE DEF row
<1>5. B \in [Batches -> Batch \cup {NoBatch}] /\ \A b \in Batches : B[b] = row(b)
  BY <1>4
<1>6. \A l \in Lines, b \in Batches : A[l][b] = d.alloc[l][b] + given[l][b]
  OBVIOUS
<1> HIDE DEF A, B, given
<1>7. /\ e \in Database /\ e.alloc = A /\ e.batch = B
      /\ SameOrders(d, e) /\ e.shown = d.shown
  BY <1>1, <1>3, <1>5 DEF Database, SameOrders
<1>8. SameRows(d, e)
  BY <1>4, <1>5, <1>7 DEF SameRows, Exists
<1>9. QED
  BY <1>4, <1>5, <1>6, <1>7, <1>8 DEF given, taken

-----------------------------------------------------------------------------
\* The parts of the invariant, said of the tables d. Pools are one level deep,
\* and batches belong to owners.
TwoLevel(d) ==
  /\ \A p \in Products : Owner(d, Owner(d, p)) = Owner(d, p)
  /\ \A b \in Batches : Exists(d, b) => Owner(d, d.batch[b].owner) = d.batch[b].owner

\* Only purchases are on the shelf.
HereIsBought(d) ==
  \A b \in Batches : Exists(d, b) /\ d.batch[b].here => d.batch[b].kind = "purchase"

\* What batch b may have allocated and left, even when it was edited below its
\* obligations.
Sparing(d, b) ==
  /\ ~Exists(d, b) => OfBatch(d, b) = 0
  /\ Exists(d, b) =>
       /\ ~d.batch[b].here => d.batch[b].left = 0
       /\ ~d.batch[b].here /\ d.batch[b].kind = "purchase" => OfBatch(d, b) = 0
       /\ d.batch[b].kind = "production" => OfBatch(d, b) <= d.batch[b].got

\* Batch b has left or allocated what it was received with.
Even(d, b) ==
  Exists(d, b) /\ d.batch[b].here => d.batch[b].left + OfBatch(d, b) = d.batch[b].got

\* The same of a batch that was just filled up again, as far as its obligations
\* let it.
Filled(d, b) ==
  Exists(d, b) /\ d.batch[b].here => d.batch[b].left = Monus(d.batch[b].got, OfBatch(d, b))

\* Every batch spares, and all but the excepted are even.
Balanced(d, excepted) ==
  /\ \A b \in Batches : Sparing(d, b)
  /\ \A b \in Batches \ excepted : Even(d, b)

\* A cancelled order holds no purchased unit.
NoneCancelled(d) ==
  \A l \in Lines : IsCancelled(d, OrderOf[l]) =>
    \A b \in Purchased(d) : d.alloc[l][b] = 0

\* The cards of every pool show its stock, but for the untold.
Told(d, untold) ==
  \A p \in Products : Owner(d, p) \notin untold => d.shown[p] = Stock(d, Owner(d, p))

\* Tables that differ in some parts only.
LEMMA SameRowsSame ==
  ASSUME NEW d, NEW e, SameRows(d, e)
  PROVE  /\ Purchased(e) = Purchased(d)
         /\ HereIsBought(d) => HereIsBought(e)
<1>1. Purchased(e) = Purchased(d)
  BY DEF SameRows, Purchased
<1>2. HereIsBought(d) => HereIsBought(e)
  BY DEF SameRows, HereIsBought
<1>3. QED
  BY <1>1, <1>2

LEMMA SameShelves ==
  ASSUME NEW d \in Database, NEW e \in Database, SameRows(d, e)
  PROVE  \A p : Shelf(e, p) = Shelf(d, p)
<1>1. Purchased(e) = Purchased(d)
  BY SameRowsSame
<1>2. ASSUME NEW b \in Purchased(d)
      PROVE  e.batch[b].owner = d.batch[b].owner /\ e.batch[b].here = d.batch[b].here
  <2>1. b \in Batches
    BY <1>2 DEF Purchased
  <2>2. Exists(d, b)
    BY <1>2, <2>1, RowOf
  <2>3. QED
    BY <2>1, <2>2 DEF SameRows
<1>3. QED
  BY <1>1, <1>2 DEF Shelf

LEMMA StockSame ==
  ASSUME NEW d \in Database, NEW e \in Database, NEW p, Shelf(e, p) = Shelf(d, p),
         \A b \in Shelf(d, p) : e.batch[b].left = d.batch[b].left
  PROVE  Stock(e, p) = Stock(d, p)
  BY DEF Stock

LEMMA OfBatchSame ==
  ASSUME NEW d, NEW e, NEW b, \A l \in Lines : e.alloc[l][b] = d.alloc[l][b]
  PROVE  OfBatch(e, b) = OfBatch(d, b)
  BY DEF OfBatch

LEMMA TakenIs ==
  ASSUME NEW d \in Database, NEW need \in [Lines -> Nat], NEW b \in Batches
  PROVE  /\ Taken(d, need, b) \in Nat
         /\ Taken(d, need, b) > 0 =>
              /\ b \in Shelf(d, d.batch[b].owner) /\ Taken(d, need, b) <= d.batch[b].left
              /\ Exists(d, b) /\ d.batch[b].here /\ d.batch[b].kind = "purchase"
              /\ \E l \in Lines : /\ need[l] > 0 /\ Owner(d, d.line[l].product) = d.batch[b].owner
                                  /\ Given(d, need)[l][b] > 0
<1> DEFINE f == [l \in Lines |-> Given(d, need)[l][b]]
<1>1. f \in [Lines -> Nat] /\ Taken(d, need, b) = Total(f) /\ Total(f) \in Nat
  BY GivenFits DEF Taken
<1>2. ASSUME Taken(d, need, b) > 0
      PROVE  /\ b \in Shelf(d, d.batch[b].owner) /\ Taken(d, need, b) <= d.batch[b].left
             /\ Exists(d, b) /\ d.batch[b].here /\ d.batch[b].kind = "purchase"
  <2>1. b \in Shelf(d, d.batch[b].owner) /\ Taken(d, need, b) <= d.batch[b].left
    BY <1>1, <1>2, GivenFits DEF Taken
  <2>2. QED
    BY <2>1, ShelfRow
<1>3. ASSUME Taken(d, need, b) > 0
      PROVE  \E l \in Lines : /\ need[l] > 0 /\ Owner(d, d.line[l].product) = d.batch[b].owner
                              /\ Given(d, need)[l][b] > 0
  <2>1. PICK l \in Lines : f[l] # 0
    <3> HIDE DEF f
    <3>1. QED
      BY <1>1, <1>3, TotalZero, Finite
  <2>2. Given(d, need)[l][b] > 0
    BY <1>1, <2>1
  <2>3. need[l] > 0 /\ b \in Shelf(d, Owner(d, d.line[l].product))
    BY <2>2, GivenType
  <2>4. QED
    BY <2>2, <2>3, ShelfRow
<1>4. QED
  BY <1>1, <1>2, <1>3

\* The lines a pool serves need its units without a gap.
LEMMA NoGap ==
  ASSUME NEW d \in Database, NEW need \in [Lines -> Nat], NEW own,
         NEW l \in Served(d, need, own), NEW x \in Nat, x < Begin(d, need)[l] + need[l]
  PROVE  \E k \in Served(d, need, own) :
           Begin(d, need)[k] <= x /\ x < Begin(d, need)[k] + need[k]
<1> DEFINE Q == Served(d, need, own)
           from == Begin(d, need)
           T == {k \in Q : x < from[k] + need[k]}
<1>1. \A k \in Lines : from[k] \in Nat /\ from[k] = Before(d, need, k)
  BY BeforeGrows DEF Begin
<1>2. Q \subseteq Lines /\ l \in T
  BY DEF Served
<1> HIDE DEF from
<1>3. PICK k \in T : \A j \in T : ~(j < k)
  <2> HIDE DEF T
  <2>1. T \subseteq Lines /\ T # {}
    BY <1>2 DEF T
  <2>2. QED
    BY <2>1, FirstLine
<1>4. ASSUME x < from[k] PROVE FALSE
  <2> DEFINE K(i) == {j \in Lines : /\ j < i /\ need[j] > 0
                                    /\ Owner(d, d.line[j].product) = Owner(d, d.line[i].product)}
             f(i) == [j \in K(i) |-> need[j]]
  <2>1. \A i \in Lines : from[i] = Total(f(i))
    BY <1>1 DEF Before
  <2>2. \A i \in Q : K(i) = {j \in Q : j < i}
    BY DEF Served
  <2>3. \A i \in Lines : K(i) \subseteq Lines /\ IsFiniteSet(K(i)) /\ f(i) \in [K(i) -> Nat]
    BY FS_Subset, Finite
  <2> HIDE DEF K
  <2>4. K(k) # {}
    <3>1. SUFFICES ASSUME K(k) = {} PROVE FALSE
      OBVIOUS
    <3>2. \A j \in K(k) : f(k)[j] = 0
      BY <3>1
    <3> HIDE DEF f
    <3>3. Total(f(k)) = 0
      BY <1>2, <2>3, <3>2, TotalZero
    <3>4. QED
      BY <1>1, <1>2, <1>4, <2>1, <3>3
  <2>5. PICK j \in K(k) : \A i \in K(k) : ~(j < i)
    <3>1. K(k) \subseteq Lines /\ \A i \in K(k) : i < k
      BY <1>2, <2>2
    <3>2. QED
      BY <1>2, <2>4, <3>1, LastLine
  <2>6. j \in Q /\ j \in Lines /\ k \in Q /\ k \in Lines /\ j < k
    BY <1>2, <2>2
  <2>7. ASSUME NEW i PROVE i \in K(j) <=> i \in K(k) \ {j}
    <3>1. CASE i \in Lines
      <4>1. ~(j < i) => i = j \/ i < j
        BY <2>6, <3>1, LinesOrdered
      <4>2. i < j => i < k /\ i # j
        BY <2>6, <3>1, LineOrder
      <4>3. QED
        BY <2>2, <2>5, <2>6, <4>1, <4>2
    <3>2. CASE i \notin Lines
      BY <2>3, <2>6, <3>2
    <3>3. QED
      BY <3>1, <3>2
  <2>8. K(j) = K(k) \ {j}
    BY <2>7
  <2> DEFINE rest == [i \in K(k) \ {j} |-> f(k)[i]]
  <2>9. rest = f(j) /\ f(k)[j] = need[j]
    BY <2>8
  <2> HIDE DEF rest, f
  <2>10. Total(f(k)) = f(k)[j] + Total(rest)
    <3>1. IsFiniteSet(K(k)) /\ f(k) \in [K(k) -> Nat] /\ j \in K(k)
      BY <2>3, <2>5, <2>6
    <3>2. QED
      BY <3>1, TotalAt DEF rest
  <2>11. from[k] = need[j] + from[j]
    BY <2>1, <2>6, <2>9, <2>10
  <2>12. from[j] \in Nat /\ need[j] \in Nat
    BY <1>1, <2>6
  <2>13. j \in T
    BY <1>4, <2>6, <2>11, <2>12
  <2>14. QED
    BY <1>3, <2>6, <2>13
<1>5. from[k] \in Nat
  BY <1>1, <1>2
<1>6. QED
  BY <1>3, <1>4, <1>5 DEF from

\* A younger batch comes after all the units of an older one.
LEMMA AheadGrows ==
  ASSUME NEW d \in Database, NEW p, NEW b \in Shelf(d, p), NEW c \in Shelf(d, p), Older(d, c, b)
  PROVE  /\ Ahead(d, b, Shelf(d, p)) \in Nat /\ Ahead(d, c, Shelf(d, p)) \in Nat
         /\ Ahead(d, c, Shelf(d, p)) + d.batch[c].left <= Ahead(d, b, Shelf(d, p))
<1> DEFINE A(x) == {y \in Shelf(d, p) : Older(d, y, x)}
           f(x) == [y \in A(x) |-> d.batch[y].left]
           rest == [y \in A(b) \ {c} |-> f(b)[y]]
<1>1. \A x : Ahead(d, x, Shelf(d, p)) = Total(f(x))
  BY DEF Ahead
<1>2. \A y \in Shelf(d, p) : /\ y \in Batches /\ y \in Nat /\ d.batch[y].at \in Nat
                             /\ d.batch[y].left \in Nat
  BY ShelfRow, InventoryAssumption DEF Batch
<1>3. \A x : IsFiniteSet(A(x)) /\ f(x) \in [A(x) -> Nat]
  <2>1. ASSUME NEW x PROVE IsFiniteSet(A(x))
    <3>1. A(x) \subseteq Batches
      BY <1>2
    <3>2. QED
      BY <3>1, FS_Subset, Finite
  <2>2. QED
    BY <1>2, <2>1
<1>4. c \in A(b)
  OBVIOUS
<1>5. A(c) \subseteq A(b) \ {c}
  BY <1>2 DEF Older
<1>6. /\ rest \in [A(b) \ {c} -> Nat] /\ IsFiniteSet(A(b) \ {c})
      /\ \A y \in A(c) : f(c)[y] <= rest[y]
      /\ f(b)[c] = d.batch[c].left
  <2>1. IsFiniteSet(A(b) \ {c})
    BY <1>3, <1>4, FS_RemoveElement
  <2>2. \A y \in A(c) : f(c)[y] = d.batch[y].left /\ d.batch[y].left \in Nat
    BY <1>2
  <2>3. \A y \in A(b) : f(b)[y] = d.batch[y].left /\ d.batch[y].left \in Nat
    BY <1>2
  <2> HIDE DEF A, f
  <2>4. \A y \in A(c) : f(c)[y] <= rest[y]
    BY <1>5, <2>2, <2>3
  <2>5. rest \in [A(b) \ {c} -> Nat]
    BY <2>3
  <2>6. QED
    BY <1>4, <2>1, <2>3, <2>4, <2>5
<1> HIDE DEF f, A
<1>7. Total(f(b)) = f(b)[c] + Total(rest)
  BY <1>3, <1>4, TotalAt
<1> HIDE DEF rest
<1>8. Total(f(c)) <= Total(rest)
  BY <1>3, <1>5, <1>6, TotalSubset
<1>9. Total(f(b)) \in Nat /\ Total(f(c)) \in Nat
  BY <1>3, UnitsFinite
<1>10. Total(rest) \in Nat
  BY <1>6, UnitsFinite
<1>11. QED
  BY <1>1, <1>2, <1>6, <1>7, <1>8, <1>9, <1>10

\* No line takes from a batch before the older batches of the pool are used up.
OldestUsed(d, e) ==
  \A l \in Lines, b \in Purchased(e) :
    e.alloc[l][b] > d.alloc[l][b] =>
      \A c \in Shelf(e, e.batch[b].owner) : Older(e, c, b) => e.batch[c].left = 0

LEMMA ServeOldest ==
  ASSUME NEW d \in Database, NEW need \in [Lines -> Nat], NEW e, e = Serve(d, need)
  PROVE  OldestUsed(d, e)
<1>1. /\ e \in Database /\ SameRows(d, e)
      /\ \A l \in Lines, b \in Batches : e.alloc[l][b] = d.alloc[l][b] + Given(d, need)[l][b]
      /\ \A b \in Batches : Exists(d, b) => e.batch[b].left = d.batch[b].left - Taken(d, need, b)
  BY ServeFields
<1> SUFFICES ASSUME NEW l \in Lines, NEW b \in Purchased(e), e.alloc[l][b] > d.alloc[l][b],
                    NEW c \in Shelf(e, e.batch[b].owner), Older(e, c, b)
             PROVE  e.batch[c].left = 0
  BY DEF OldestUsed
<1> DEFINE own == d.batch[b].owner
<1>2. b \in Batches /\ c \in Batches
  BY DEF Purchased, Shelf
<1>3. Given(d, need)[l][b] > 0
  <2>1. Given(d, need)[l][b] \in Nat /\ d.alloc[l][b] \in Nat
    BY <1>2, GivenType, Fields
  <2>2. QED
    BY <1>1, <1>2, <2>1
<1>4. need[l] > 0 /\ b \in Shelf(d, Owner(d, d.line[l].product)) /\ own = Owner(d, d.line[l].product)
  BY <1>2, <1>3, GivenType, ShelfRow
<1>5. b \in Shelf(d, own) /\ l \in Served(d, need, own)
  BY <1>4 DEF Served
<1>6. Exists(d, b) /\ e.batch[b].owner = own /\ e.batch[b].at = d.batch[b].at
  BY <1>1, <1>2, <1>5, ShelfRow DEF SameRows
<1> HIDE DEF own
<1>7. c \in Shelf(d, own)
  BY <1>1, <1>6, SameShelves
<1>8. Exists(d, c) /\ e.batch[c].at = d.batch[c].at
  BY <1>1, <1>2, <1>7, ShelfRow DEF SameRows
<1>9. Older(d, c, b)
  BY <1>6, <1>8 DEF Older
<1> DEFINE part == [k \in Lines |-> Given(d, need)[k][c]]
           a == Ahead(d, c, Shelf(d, own))
           n == d.batch[c].left
           m == Ahead(d, b, Shelf(d, own))
           from == Begin(d, need)
           top == from[l] + need[l]
<1>10. Spread(Lines, Served(d, need, own), from, need, a, n, part)
  BY <1>2, <1>7, GivenSpread
<1>11. m \in Nat /\ a \in Nat /\ n \in Nat /\ a + n <= m
  BY <1>5, <1>7, <1>9, AheadGrows, ShelfRow
<1>12. from[l] \in Nat /\ need[l] \in Nat /\ from[l] = Before(d, need, l)
  BY BeforeGrows DEF Begin
<1>13. m < top
  <2>1. Given(d, need)[l][b] = Overlap(m, d.batch[b].left, from[l], need[l]) /\ d.batch[b].left \in Nat
    BY <1>2, <1>4, <1>5, <1>12, GivenType, ShelfRow DEF own
  <2> DEFINE left == d.batch[b].left
             at == from[l]
             units == need[l]
  <2>2. Given(d, need)[l][b] = Overlap(m, left, at, units) /\ left \in Nat
        /\ m \in Nat /\ at \in Nat /\ units \in Nat /\ top = at + units
    BY <1>11, <1>12, <2>1
  <2> HIDE DEF m, from, left, at, units, top
  <2>3. Overlap(m, left, at, units) = Monus(Smaller(m + left, at + units), Larger(m, at))
    BY <2>2, OverlapIs
  <2>4. QED
    BY <1>3, <2>2, <2>3 DEF Monus, Smaller, Larger
<1>14. \A x \in Nat : x < top => \E k \in Served(d, need, own) : from[k] <= x /\ x < from[k] + need[k]
  BY <1>5, NoGap
<1>15. top \in Nat /\ a + n <= top
  BY <1>11, <1>12, <1>13
<1> HIDE DEF part, a, n, m, from, top
<1>16. Total(part) = n
  BY <1>10, <1>14, <1>15, SpreadFills
<1>17. Taken(d, need, c) = n /\ n \in Nat
  BY <1>11, <1>16 DEF Taken, part
<1>18. QED
  BY <1>1, <1>2, <1>8, <1>17 DEF n

\* A call that allocates moves units from the shelf to the lines.
LEMMA ServeSums ==
  ASSUME NEW d \in Database, NEW need \in [Lines -> Nat], NEW e, e = Serve(d, need),
         NEW b \in Batches
  PROVE  OfBatch(e, b) = OfBatch(d, b) + Taken(d, need, b)
<1> DEFINE f == [l \in Lines |-> d.alloc[l][b]]
           g == [l \in Lines |-> Given(d, need)[l][b]]
           sum == [l \in Lines |-> e.alloc[l][b]]
<1>1. e \in Database /\ \A l \in Lines : e.alloc[l][b] = d.alloc[l][b] + Given(d, need)[l][b]
  BY ServeFields
<1>2. f \in [Lines -> Nat] /\ sum \in [Lines -> Nat]
  BY <1>1, Fields
<1>3. g \in [Lines -> Nat]
  BY GivenFits
<1>4. \A l \in Lines : sum[l] = f[l] + g[l]
  BY <1>1
<1>5. OfBatch(e, b) = Total(sum) /\ OfBatch(d, b) = Total(f) /\ Taken(d, need, b) = Total(g)
  BY DEF OfBatch, Taken
<1> HIDE DEF f, g, sum
<1>6. QED
  BY <1>2, <1>3, <1>4, <1>5, TotalAdd, Finite

LEMMA ServeBalances ==
  ASSUME NEW d \in Database, NEW need \in [Lines -> Nat], NEW e, e = Serve(d, need),
         NEW b \in Batches
  PROVE  /\ Sparing(d, b) => Sparing(e, b)
         /\ Even(d, b) => Even(e, b)
         /\ Filled(d, b) => Filled(e, b)
<1> DEFINE n == Taken(d, need, b)
<1>1. OfBatch(e, b) = OfBatch(d, b) + n
  BY ServeSums
<1>2. OfBatch(d, b) \in Nat
  BY SumsType
<1>3. n \in Nat /\ (n > 0 => n <= d.batch[b].left /\ Exists(d, b) /\ d.batch[b].here
                             /\ d.batch[b].kind = "purchase")
  BY TakenIs
<1>4. SameRows(d, e) /\ (Exists(d, b) => e.batch[b].left = d.batch[b].left - n)
  BY ServeFields
<1>5. Exists(d, b) => d.batch[b].left \in Nat /\ d.batch[b].got \in Nat
  BY RowOf DEF Batch
<1>6. Exists(e, b) <=> Exists(d, b)
  BY <1>4 DEF SameRows
<1>7. Exists(d, b) => /\ e.batch[b].got = d.batch[b].got /\ e.batch[b].here = d.batch[b].here
                      /\ e.batch[b].kind = d.batch[b].kind
  BY <1>4 DEF SameRows
<1> HIDE DEF n
<1>8. Sparing(d, b) => Sparing(e, b)
  <2>1. CASE n = 0
    BY <1>1, <1>2, <1>4, <1>5, <1>6, <1>7, <2>1 DEF Sparing
  <2>2. CASE n > 0
    BY <1>3, <1>6, <1>7, <2>2 DEF Sparing
  <2>3. QED
    BY <1>3, <2>1, <2>2
<1>9. CASE ~Exists(d, b)
  BY <1>6, <1>8, <1>9 DEF Even, Filled
<1>10. CASE Exists(d, b)
  <2>1. /\ e.batch[b].left = d.batch[b].left - n /\ e.batch[b].got = d.batch[b].got
        /\ e.batch[b].here = d.batch[b].here
        /\ d.batch[b].left \in Nat /\ d.batch[b].got \in Nat
    BY <1>4, <1>5, <1>7, <1>10
  <2>2. d.batch[b].left + OfBatch(d, b) = d.batch[b].got
           => e.batch[b].left + OfBatch(e, b) = e.batch[b].got
    BY <1>1, <1>2, <1>3, <2>1
  <2>3. d.batch[b].left = Monus(d.batch[b].got, OfBatch(d, b))
           => e.batch[b].left = Monus(e.batch[b].got, OfBatch(e, b))
    BY <1>1, <1>2, <1>3, <2>1 DEF Monus
  <2>4. QED
    BY <1>6, <1>8, <1>10, <2>1, <2>2, <2>3 DEF Even, Filled
<1>11. QED
  BY <1>9, <1>10

\* What a call that allocates keeps.
LEMMA ServeKeeps ==
  ASSUME NEW d \in Database, NEW need \in [Lines -> Nat], NEW e, e = Serve(d, need)
  PROVE  /\ TwoLevel(d) => TwoLevel(e)
         /\ HereIsBought(d) => HereIsBought(e)
         /\ \A excepted : Balanced(d, excepted) => Balanced(e, excepted)
         /\ NoneCancelled(d) /\ (\A l \in Lines : need[l] > 0 => ~IsCancelled(d, OrderOf[l]))
              => NoneCancelled(e)
<1>1. e \in Database /\ SameRows(d, e) /\ SameOrders(d, e)
  BY ServeFields
<1>2. TwoLevel(d) => TwoLevel(e)
  BY <1>1 DEF TwoLevel, SameRows, SameOrders, Owner
<1>3. HereIsBought(d) => HereIsBought(e)
  BY <1>1, SameRowsSame
<1>4. \A excepted : Balanced(d, excepted) => Balanced(e, excepted)
  BY ServeBalances DEF Balanced
<1>5. ASSUME NoneCancelled(d), \A l \in Lines : need[l] > 0 => ~IsCancelled(d, OrderOf[l])
      PROVE  NoneCancelled(e)
  <2> SUFFICES ASSUME NEW l \in Lines, IsCancelled(e, OrderOf[l]), NEW b \in Purchased(e)
               PROVE  e.alloc[l][b] = 0
    BY DEF NoneCancelled
  <2>1. IsCancelled(d, OrderOf[l]) /\ b \in Purchased(d) /\ b \in Batches
    BY <1>1, SameRowsSame DEF SameOrders, IsCancelled, Purchased
  <2>2. d.alloc[l][b] = 0
    BY <1>5, <2>1 DEF NoneCancelled
  <2>3. Given(d, need)[l][b] \in Nat /\ ~(Given(d, need)[l][b] > 0)
    BY <1>5, <2>1, GivenType
  <2>4. e.alloc[l][b] = d.alloc[l][b] + Given(d, need)[l][b]
    BY <2>1, ServeFields
  <2>5. QED
    BY <2>2, <2>3, <2>4
<1>6. QED
  BY <1>2, <1>3, <1>4, <1>5

\* A call that allocates changes the stock of the pools it takes from.
LEMMA ServeStock ==
  ASSUME NEW d \in Database, NEW need \in [Lines -> Nat], NEW e, e = Serve(d, need),
         NEW untold, Told(d, untold),
         \A b \in Batches : Taken(d, need, b) > 0 => d.batch[b].owner \in untold
  PROVE  Told(e, untold)
<1>1. e \in Database /\ SameRows(d, e) /\ SameOrders(d, e) /\ e.shown = d.shown
  BY ServeFields
<1>2. ASSUME NEW p \in Products, Owner(e, p) \notin untold
      PROVE  e.shown[p] = Stock(e, Owner(e, p))
  <2> DEFINE own == Owner(d, p)
  <2>1. Owner(e, p) = own
    BY <1>1 DEF SameOrders, Owner
  <2>2. Shelf(e, own) = Shelf(d, own)
    BY <1>1, SameShelves
  <2>3. ASSUME NEW b \in Shelf(d, own) PROVE e.batch[b].left = d.batch[b].left
    <3>1. b \in Batches /\ d.batch[b].owner = own /\ Exists(d, b) /\ d.batch[b].left \in Nat
      BY ShelfRow
    <3>2. Taken(d, need, b) = 0
      BY <1>2, <2>1, <3>1, TakenIs
    <3>3. QED
      BY <3>1, <3>2, ServeFields
  <2>4. Stock(e, own) = Stock(d, own)
    BY <1>1, <2>2, <2>3, StockSame
  <2>5. QED
    BY <1>1, <1>2, <2>1, <2>4 DEF Told
<1>3. QED
  BY <1>2 DEF Told

-----------------------------------------------------------------------------
\* What every service keeps of the invariant.
Keeps(d, e) ==
  /\ TwoLevel(d) => TwoLevel(e)
  /\ HereIsBought(d) => HereIsBought(e)
  /\ \A excepted : Balanced(d, excepted) => Balanced(e, excepted)
  /\ NoneCancelled(d) => NoneCancelled(e)

\* Tables with the same stock.
SameStock(d, e) == e.batch = d.batch /\ e.alloc = d.alloc

LEMMA SameFields ==
  ASSUME NEW d, NEW e, SameStock(d, e), e.owner = d.owner
  PROVE  /\ TwoLevel(d) => TwoLevel(e)
         /\ HereIsBought(d) => HereIsBought(e)
         /\ \A excepted : Balanced(d, excepted) => Balanced(e, excepted)
         /\ \A b : (Filled(d, b) => Filled(e, b)) /\ (Even(d, b) => Even(e, b))
         /\ SameRows(d, e) /\ \A p : Stock(e, p) = Stock(d, p)
<1> USE DEF SameStock
<1>1. \A b : /\ OfBatch(e, b) = OfBatch(d, b)
             /\ Exists(e, b) <=> Exists(d, b)
  BY DEF OfBatch, Exists
<1>2. TwoLevel(d) => TwoLevel(e)
  BY <1>1 DEF TwoLevel, Owner
<1>3. HereIsBought(d) => HereIsBought(e)
  BY <1>1 DEF HereIsBought
<1>4. \A b : Sparing(d, b) => Sparing(e, b)
  BY <1>1 DEF Sparing
<1>5. \A b : (Even(d, b) => Even(e, b)) /\ (Filled(d, b) => Filled(e, b))
  BY <1>1 DEF Even, Filled
<1>6. \A excepted : Balanced(d, excepted) => Balanced(e, excepted)
  BY <1>4, <1>5 DEF Balanced
<1>7. SameRows(d, e)
  BY <1>1 DEF SameRows
<1>8. \A p : Stock(e, p) = Stock(d, p)
  BY DEF Stock, Shelf, Purchased
<1>9. QED
  BY <1>2, <1>3, <1>5, <1>6, <1>7, <1>8

\* Allocate, for the lines S: only lines whose order does not block it need
\* units.
LEMMA NeedsType ==
  ASSUME NEW d \in Database, NEW S
  PROVE  /\ Needs(d, S) \in [Lines -> Nat]
         /\ \A l \in Lines : Needs(d, S)[l] > 0 =>
              /\ l \in S /\ ~Blocks(d, OrderOf[l])
              /\ d.line[l].product \in Products /\ d.line[l].product # NoProduct
<1>1. ASSUME NEW l \in Lines PROVE Needed(d, l) \in Nat /\ d.line[l].product \in Products \cup {NoProduct}
  <2>1. d.line[l] \in [product : Products \cup {NoProduct}, quantity : Nat]
    BY Fields
  <2>2. d.line[l].quantity \in Nat /\ OfLine(d, l) \in Nat
    BY <2>1, SumsType
  <2>3. QED
    BY <2>1, <2>2 DEF Needed, Monus
<1>2. \A l \in Lines : Needs(d, S)[l] =
        IF l \in S /\ ~Blocks(d, OrderOf[l]) /\ d.line[l].product # NoProduct
        THEN Needed(d, l) ELSE 0
  BY DEF Needs
<1>3. Needs(d, S) \in [Lines -> Nat]
  BY <1>1 DEF Needs
<1>4. QED
  BY <1>1, <1>2, <1>3

LEMMA AllocateKeeps ==
  ASSUME NEW d \in Database, NEW S, NEW e, e = Allocate(d, S)
  PROVE  /\ e \in Database /\ SameRows(d, e) /\ SameOrders(d, e) /\ e.shown = d.shown
         /\ Keeps(d, e)
         /\ \A b \in Batches : (Filled(d, b) => Filled(e, b)) /\ (Even(d, b) => Even(e, b))
<1>1. Needs(d, S) \in [Lines -> Nat] /\ e = Serve(d, Needs(d, S))
  BY NeedsType DEF Allocate
<1>2. \A l \in Lines : Needs(d, S)[l] > 0 => ~IsCancelled(d, OrderOf[l])
  <2>1. ASSUME NEW l \in Lines, Needs(d, S)[l] > 0 PROVE ~IsCancelled(d, OrderOf[l])
    <3>1. ~Blocks(d, OrderOf[l])
      BY <2>1, NeedsType
    <3>2. QED
      BY <3>1 DEF Blocks, IsCancelled, Terminal
  <2>2. QED
    BY <2>1
<1> DEFINE need == Needs(d, S)
<1> HIDE DEF need
<1>3. need \in [Lines -> Nat] /\ e = Serve(d, need) /\ \A l \in Lines : need[l] > 0 => ~IsCancelled(d, OrderOf[l])
  BY <1>1, <1>2 DEF need
<1>4. e \in Database /\ SameRows(d, e) /\ SameOrders(d, e) /\ e.shown = d.shown
  BY <1>3, ServeFields
<1>5. Keeps(d, e)
  BY <1>3, ServeKeeps DEF Keeps
<1>6. \A b \in Batches : (Filled(d, b) => Filled(e, b)) /\ (Even(d, b) => Even(e, b))
  BY <1>3, ServeBalances
<1>7. QED
  BY <1>4, <1>5, <1>6

\* It changes the stock of the pools of these lines only.
LEMMA AllocateStock ==
  ASSUME NEW d \in Database, NEW S, NEW untold, Told(d, untold),
         \A l \in Lines \cap S : d.line[l].product \in Products => Owner(d, d.line[l].product) \in untold
  PROVE  Told(Allocate(d, S), untold)
<1> DEFINE need == Needs(d, S)
<1>1. need \in [Lines -> Nat] /\ Allocate(d, S) = Serve(d, need)
  BY NeedsType DEF Allocate
<1>2. \A l \in Lines : need[l] > 0 => l \in S /\ d.line[l].product \in Products
  BY NeedsType
<1> HIDE DEF need
<1>3. ASSUME NEW b \in Batches, Taken(d, need, b) > 0 PROVE d.batch[b].owner \in untold
  <2>1. PICK l \in Lines : need[l] > 0 /\ Owner(d, d.line[l].product) = d.batch[b].owner
    BY <1>1, <1>3, TakenIs
  <2>2. QED
    BY <1>2, <2>1
<1>4. QED
  BY <1>1, <1>3, ServeStock

\* Show tells the feed, and changes nothing else.
LEMMA ShowKeeps ==
  ASSUME NEW d \in Database, NEW owners, NEW e, e = Show(d, owners)
  PROVE  /\ e \in Database /\ SameStock(d, e) /\ SameOrders(d, e) /\ SameRows(d, e)
         /\ Keeps(d, e)
         /\ \A b \in Batches : (Filled(d, b) => Filled(e, b)) /\ (Even(d, b) => Even(e, b))
         /\ \A untold : Told(d, untold) => Told(e, untold \ owners)
<1> DEFINE told == [p \in Products |-> IF Owner(d, p) \in owners THEN Stock(d, Owner(d, p)) ELSE d.shown[p]]
<1>1. e = [d EXCEPT !.shown = told]
  BY DEF Show
<1>2. told \in [Products -> Nat]
  BY SumsType, Fields
<1>3. \A p \in Products : told[p] = IF Owner(d, p) \in owners THEN Stock(d, Owner(d, p)) ELSE d.shown[p]
  OBVIOUS
<1> HIDE DEF told
<1>4. /\ e \in Database /\ e.shown = told
      /\ SameStock(d, e) /\ SameOrders(d, e)
  BY <1>1, <1>2 DEF Database, SameStock, SameOrders
<1>5. /\ TwoLevel(d) => TwoLevel(e)
      /\ HereIsBought(d) => HereIsBought(e)
      /\ \A excepted : Balanced(d, excepted) => Balanced(e, excepted)
      /\ \A b : (Filled(d, b) => Filled(e, b)) /\ (Even(d, b) => Even(e, b))
      /\ SameRows(d, e) /\ \A p : Stock(e, p) = Stock(d, p)
  BY <1>4, SameFields DEF SameOrders
<1>6. NoneCancelled(d) => NoneCancelled(e)
  <2>1. Purchased(e) = Purchased(d)
    BY <1>5, SameRowsSame
  <2>2. QED
    BY <1>4, <2>1 DEF NoneCancelled, IsCancelled, SameOrders, SameStock
<1>7. ASSUME NEW untold, Told(d, untold), NEW p \in Products, Owner(e, p) \notin untold \ owners
      PROVE  e.shown[p] = Stock(e, Owner(e, p))
  <2>1. Owner(e, p) = Owner(d, p)
    BY <1>4 DEF SameOrders, Owner
  <2>2. CASE Owner(d, p) \in owners
    BY <1>3, <1>4, <1>5, <2>1, <2>2
  <2>3. CASE Owner(d, p) \notin owners
    BY <1>3, <1>4, <1>5, <1>7, <2>1, <2>3 DEF Told
  <2>4. QED
    BY <2>2, <2>3
<1>8. QED
  BY <1>4, <1>5, <1>6, <1>7 DEF Told, Keeps

-----------------------------------------------------------------------------
\* Rebuild gives all of a pool's units back and allocates them anew.
LEMMA FewerUnits ==
  ASSUME NEW d \in Database, NEW e \in Database, NEW b \in Batches,
         \A l \in Lines : e.alloc[l][b] <= d.alloc[l][b]
  PROVE  OfBatch(e, b) <= OfBatch(d, b)
<1> DEFINE f == [l \in Lines |-> d.alloc[l][b]]
           g == [l \in Lines |-> e.alloc[l][b]]
<1>1. f \in [Lines -> Nat] /\ g \in [Lines -> Nat] /\ \A l \in Lines : g[l] <= f[l]
  BY Fields
<1>2. OfBatch(d, b) = Total(f) /\ OfBatch(e, b) = Total(g)
  BY DEF OfBatch
<1> HIDE DEF f, g
<1>3. QED
  BY <1>1, <1>2, TotalSubset, Finite

\* The allocations of the pool are deleted, but for the kept ones ...
LEMMA WithdrawnFields ==
  ASSUME NEW d \in Database, NEW own, NEW cards, NEW e, e = Withdrawn(d, own, cards)
  PROVE  /\ e \in Database /\ e.batch = d.batch /\ SameOrders(d, e) /\ e.shown = d.shown
         /\ \A l \in Lines, b \in Batches :
              e.alloc[l][b] = IF b \in PurchasedOf(d, own) /\ ~Kept(d, l, cards)
                              THEN 0 ELSE d.alloc[l][b]
         /\ \A b \in Batches : /\ OfBatch(e, b) <= OfBatch(d, b)
                               /\ b \notin PurchasedOf(d, own) => OfBatch(e, b) = OfBatch(d, b)
         /\ NoneCancelled(d) => NoneCancelled(e)
<1> DEFINE A == [l \in Lines |-> [b \in Batches |->
                   IF b \in PurchasedOf(d, own) /\ ~Kept(d, l, cards) THEN 0 ELSE d.alloc[l][b]]]
<1>1. e = [d EXCEPT !.alloc = A]
  BY DEF Withdrawn
<1>2. \A l \in Lines, b \in Batches : d.alloc[l][b] \in Nat
  BY Fields
<1>3. A \in [Lines -> [Batches -> Nat]]
  BY <1>2
<1>4. \A l \in Lines, b \in Batches :
        A[l][b] = IF b \in PurchasedOf(d, own) /\ ~Kept(d, l, cards) THEN 0 ELSE d.alloc[l][b]
  OBVIOUS
<1> HIDE DEF A
<1>5. e \in Database /\ e.alloc = A /\ e.batch = d.batch /\ SameOrders(d, e) /\ e.shown = d.shown
  BY <1>1, <1>3 DEF Database, SameOrders
<1>6. ASSUME NEW b \in Batches
      PROVE  /\ OfBatch(e, b) <= OfBatch(d, b)
             /\ b \notin PurchasedOf(d, own) => OfBatch(e, b) = OfBatch(d, b)
  <2>1. \A l \in Lines : e.alloc[l][b] <= d.alloc[l][b]
    BY <1>2, <1>4, <1>5
  <2>2. OfBatch(e, b) <= OfBatch(d, b)
    BY <1>5, <2>1, FewerUnits
  <2>3. ASSUME b \notin PurchasedOf(d, own) PROVE OfBatch(e, b) = OfBatch(d, b)
    BY <1>4, <1>5, <2>3, OfBatchSame
  <2>4. QED
    BY <2>2, <2>3
<1>7. ASSUME NoneCancelled(d) PROVE NoneCancelled(e)
  <2> SUFFICES ASSUME NEW l \in Lines, IsCancelled(e, OrderOf[l]), NEW b \in Purchased(e)
               PROVE  e.alloc[l][b] = 0
    BY DEF NoneCancelled
  <2>1. IsCancelled(d, OrderOf[l]) /\ b \in Purchased(d) /\ b \in Batches
    BY <1>5 DEF SameOrders, IsCancelled, Purchased
  <2>2. d.alloc[l][b] = 0
    BY <1>7, <2>1 DEF NoneCancelled
  <2>3. QED
    BY <1>4, <1>5, <2>1, <2>2
<1>8. QED
  BY <1>4, <1>5, <1>6, <1>7

\* ... and its batches are filled up again.
LEMMA RestockedFields ==
  ASSUME NEW d \in Database, NEW own, NEW e, e = Restocked(d, own)
  PROVE  /\ e \in Database /\ SameRows(d, e) /\ SameOrders(d, e)
         /\ e.alloc = d.alloc /\ e.shown = d.shown
         /\ \A b \in Batches : Exists(d, b) =>
              e.batch[b].left = IF b \in PurchasedOf(d, own) THEN LeftOnShelf(d, b) ELSE d.batch[b].left
<1> DEFINE row(b) == IF b \in PurchasedOf(d, own) THEN WithLeft(d.batch[b], LeftOnShelf(d, b))
                     ELSE d.batch[b]
           B == [b \in Batches |-> row(b)]
<1>1. e = [d EXCEPT !.batch = B]
  BY DEF Restocked
<1>2. ASSUME NEW b \in Batches
      PROVE  /\ row(b) \in Batch \cup {NoBatch} /\ row(b).kind = d.batch[b].kind
             /\ row(b) # NoBatch <=> Exists(d, b)
             /\ Exists(d, b) => /\ row(b).owner = d.batch[b].owner /\ row(b).at = d.batch[b].at
                                /\ row(b).got = d.batch[b].got /\ row(b).here = d.batch[b].here
                                /\ row(b).left = IF b \in PurchasedOf(d, own) THEN LeftOnShelf(d, b)
                                                 ELSE d.batch[b].left
  <2>1. CASE b \notin PurchasedOf(d, own)
    BY <2>1, Fields DEF Exists
  <2>2. CASE b \in PurchasedOf(d, own)
    <3>1. d.batch[b] \in Batch /\ Exists(d, b)
      BY <2>2, RowOf DEF PurchasedOf
    <3>2. LeftOnShelf(d, b) \in Nat
      BY <3>1, SumsType DEF LeftOnShelf, Monus, Batch
    <3>3. row(b) = WithLeft(d.batch[b], LeftOnShelf(d, b))
      BY <2>2
    <3> HIDE DEF row
    <3>4. /\ row(b) \in Batch /\ row(b) # NoBatch /\ row(b).left = LeftOnShelf(d, b)
          /\ row(b).kind = d.batch[b].kind
          /\ row(b).owner = d.batch[b].owner /\ row(b).at = d.batch[b].at
          /\ row(b).got = d.batch[b].got /\ row(b).here = d.batch[b].here
      BY <3>1, <3>2, <3>3, WithLeftFields
    <3>5. QED
      BY <2>2, <3>1, <3>4
  <2>3. QED
    BY <2>1, <2>2
<1> HIDE DEF row
<1>3. B \in [Batches -> Batch \cup {NoBatch}] /\ \A b \in Batches : B[b] = row(b)
  BY <1>2
<1> HIDE DEF B
<1>4. /\ e \in Database /\ e.batch = B /\ SameOrders(d, e)
      /\ e.alloc = d.alloc /\ e.shown = d.shown
  BY <1>1, <1>3 DEF Database, SameOrders
<1>5. SameRows(d, e)
  BY <1>2, <1>3, <1>4 DEF SameRows, Exists
<1>6. QED
  BY <1>2, <1>3, <1>4, <1>5

\* Both.
Emptied(d, own, cards) == Restocked(Withdrawn(d, own, cards), own)

LEMMA EmptiedKeeps ==
  ASSUME NEW d \in Database, NEW own, NEW cards, NEW e, e = Emptied(d, own, cards)
  PROVE  /\ e \in Database /\ SameRows(d, e) /\ SameOrders(d, e) /\ e.shown = d.shown
         /\ Keeps(d, e)
         /\ \A b \in PurchasedOf(d, own) :
              Filled(e, b) /\ (OfBatch(d, b) <= d.batch[b].got => Even(e, b))
         /\ \A untold : Told(d, untold) => Told(e, untold \cup {own})
<1> DEFINE w == Withdrawn(d, own, cards)
<1>1. /\ w \in Database /\ w.batch = d.batch /\ SameOrders(d, w) /\ w.shown = d.shown
      /\ \A b \in Batches : /\ OfBatch(w, b) <= OfBatch(d, b)
                            /\ b \notin PurchasedOf(d, own) => OfBatch(w, b) = OfBatch(d, b)
      /\ NoneCancelled(d) => NoneCancelled(w)
  BY WithdrawnFields
<1>2. e = Restocked(w, own)
  BY DEF Emptied
<1> HIDE DEF w
<1>3. /\ e \in Database /\ SameRows(w, e) /\ SameOrders(w, e)
      /\ e.alloc = w.alloc /\ e.shown = w.shown
      /\ \A b \in Batches : Exists(w, b) =>
           e.batch[b].left = IF b \in PurchasedOf(w, own) THEN LeftOnShelf(w, b) ELSE w.batch[b].left
  BY <1>1, <1>2, RestockedFields
<1>4. /\ \A b : Exists(w, b) <=> Exists(d, b)
      /\ Purchased(w) = Purchased(d) /\ PurchasedOf(w, own) = PurchasedOf(d, own)
  BY <1>1 DEF Exists, Purchased, PurchasedOf
<1>5. SameRows(d, e) /\ SameOrders(d, e) /\ e.shown = d.shown
  BY <1>1, <1>3, <1>4 DEF SameRows, SameOrders
<1>6. Purchased(e) = Purchased(d) /\ (HereIsBought(d) => HereIsBought(e))
  BY <1>5, SameRowsSame
<1>7. ASSUME NEW b \in Batches
      PROVE  /\ OfBatch(e, b) <= OfBatch(d, b) /\ OfBatch(e, b) \in Nat /\ OfBatch(d, b) \in Nat
             /\ b \notin PurchasedOf(d, own) => OfBatch(e, b) = OfBatch(d, b)
             /\ Exists(d, b) => e.batch[b].left =
                  IF b \notin PurchasedOf(d, own) THEN d.batch[b].left
                  ELSE IF d.batch[b].here THEN Monus(d.batch[b].got, OfBatch(e, b)) ELSE 0
  <2>1. OfBatch(e, b) = OfBatch(w, b)
    BY <1>3, OfBatchSame
  <2>2. LeftOnShelf(w, b) = IF d.batch[b].here THEN Monus(d.batch[b].got, OfBatch(e, b)) ELSE 0
    BY <1>1, <2>1 DEF LeftOnShelf
  <2>3. OfBatch(e, b) \in Nat /\ OfBatch(d, b) \in Nat
    BY <1>3, SumsType
  <2>4. QED
    BY <1>1, <1>3, <1>4, <2>1, <2>2, <2>3
<1>8. ASSUME NEW b \in Batches, Exists(d, b)
      PROVE  /\ d.batch[b].got \in Nat /\ d.batch[b].left \in Nat
             /\ Exists(e, b) /\ e.batch[b].got = d.batch[b].got /\ e.batch[b].here = d.batch[b].here
             /\ e.batch[b].kind = d.batch[b].kind
             /\ b \in PurchasedOf(d, own) => d.batch[b].kind = "purchase"
  <2>1. d.batch[b] \in Batch
    BY <1>8, RowOf
  <2>2. QED
    BY <1>5, <1>8, <2>1 DEF SameRows, Batch, PurchasedOf, Purchased
<1>9. ASSUME NEW b \in Batches, Sparing(d, b) PROVE Sparing(e, b)
  <2>1. CASE ~Exists(d, b)
    <3>1. OfBatch(d, b) = 0 /\ ~Exists(e, b)
      BY <1>5, <1>9, <2>1 DEF Sparing, SameRows
    <3>2. OfBatch(e, b) = 0
      BY <1>7, <3>1
    <3>3. QED
      BY <3>1, <3>2 DEF Sparing
  <2>2. CASE Exists(d, b)
    <3>1. ~d.batch[b].here => e.batch[b].left = 0
      BY <1>7, <1>9, <2>2 DEF Sparing
    <3>2. OfBatch(d, b) = 0 => OfBatch(e, b) = 0
      BY <1>7
    <3>3. OfBatch(d, b) <= d.batch[b].got => OfBatch(e, b) <= d.batch[b].got
      BY <1>7, <1>8, <2>2
    <3>4. QED
      BY <1>8, <1>9, <2>2, <3>1, <3>2, <3>3 DEF Sparing
  <2>3. QED
    BY <2>1, <2>2
<1>10. ASSUME NEW b \in PurchasedOf(d, own)
       PROVE  Filled(e, b) /\ (OfBatch(d, b) <= d.batch[b].got => Even(e, b))
  <2>1. b \in Batches /\ Exists(d, b)
    <3>1. b \in Batches /\ b \in Purchased(d)
      BY DEF PurchasedOf, Purchased
    <3>2. QED
      BY <3>1, RowOf
  <2>2. d.batch[b].here => e.batch[b].left = Monus(d.batch[b].got, OfBatch(e, b))
    BY <1>7, <2>1
  <2>3. OfBatch(d, b) <= d.batch[b].got =>
          Monus(d.batch[b].got, OfBatch(e, b)) + OfBatch(e, b) = d.batch[b].got
    BY <1>7, <1>8, <2>1 DEF Monus
  <2>4. QED
    BY <1>8, <2>1, <2>2, <2>3 DEF Filled, Even
<1>11. ASSUME NEW b \in Batches, Even(d, b) PROVE Even(e, b)
  <2>1. CASE ~Exists(d, b)
    BY <1>5, <2>1 DEF Even, SameRows
  <2>2. CASE Exists(d, b) /\ d.batch[b].here
    <3>1. d.batch[b].left + OfBatch(d, b) = d.batch[b].got
      BY <1>11, <2>2 DEF Even
    <3>2. e.batch[b].left + OfBatch(e, b) = d.batch[b].got
      BY <1>7, <1>8, <2>2, <3>1 DEF Monus
    <3>3. QED
      BY <1>8, <2>2, <3>2 DEF Even
  <2>3. CASE Exists(d, b) /\ ~d.batch[b].here
    BY <1>8, <2>3 DEF Even
  <2>4. QED
    BY <2>1, <2>2, <2>3
<1>12. NoneCancelled(d) => NoneCancelled(e)
  BY <1>1, <1>3, <1>4, <1>6 DEF NoneCancelled, SameOrders, IsCancelled
<1>13. TwoLevel(d) => TwoLevel(e)
  BY <1>5 DEF TwoLevel, SameRows, SameOrders, Owner
<1>14. Keeps(d, e)
  BY <1>6, <1>9, <1>11, <1>12, <1>13 DEF Keeps, Balanced
<1>15. ASSUME NEW untold, Told(d, untold), NEW p \in Products, Owner(e, p) \notin untold \cup {own}
       PROVE  e.shown[p] = Stock(e, Owner(e, p))
  <2> DEFINE q == Owner(d, p)
  <2>1. Owner(e, p) = q
    BY <1>5 DEF SameOrders, Owner
  <2>2. Shelf(e, q) = Shelf(d, q)
    BY <1>3, <1>5, SameShelves
  <2>3. ASSUME NEW b \in Shelf(d, q) PROVE e.batch[b].left = d.batch[b].left
    <3>1. b \in Batches /\ Exists(d, b) /\ d.batch[b].owner = q
      BY ShelfRow
    <3>2. b \notin PurchasedOf(d, own)
      BY <1>15, <2>1, <3>1 DEF PurchasedOf
    <3>3. QED
      BY <1>7, <3>1, <3>2
  <2>4. Stock(e, q) = Stock(d, q)
    BY <1>3, <2>2, <2>3, StockSame
  <2>5. QED
    BY <1>5, <1>15, <2>1, <2>4 DEF Told
<1>16. QED
  BY <1>3, <1>5, <1>10, <1>14, <1>15 DEF Told

-----------------------------------------------------------------------------
\* Returned goods whose order nobody cancelled rest where they are allocated.
Resting(d, l) ==
  d.order[OrderOf[l]].status = "returned" /\ d.order[OrderOf[l]].manual # "cancelled"

\* From d to e units leave the batches oldest first, and no returned one moves.
Orderly(d, e) ==
  /\ OldestUsed(d, e)
  /\ \A l \in Lines : Resting(d, l) => e.alloc[l] = d.alloc[l]

\* e gives units back and takes none.
Yields(d, e) ==
  /\ \A l \in Lines, b \in Batches : e.alloc[l][b] <= d.alloc[l][b]
  /\ \A l \in Lines : Resting(d, l) => Resting(e, l) /\ e.alloc[l] = d.alloc[l]

\* Only the purchased batches of some owners are touched.
Within(d, e, owners) ==
  \A b \in Batches : b \notin Purchased(d) \/ d.batch[b].owner \notin owners =>
    /\ \A l \in Lines : e.alloc[l][b] = d.alloc[l][b]
    /\ Exists(d, b) => e.batch[b].left = d.batch[b].left

\* Giving back, and then taking oldest first, takes oldest first.
LEMMA YieldsIs ==
  ASSUME NEW d \in Database, NEW m \in Database, NEW e \in Database
  PROVE  /\ m.alloc = d.alloc /\ m.order = d.order => Yields(d, m)
         /\ Yields(d, m) /\ Yields(m, e) => Yields(d, e)
         /\ Yields(d, e) => Orderly(d, e)
         /\ Yields(d, m) /\ Orderly(m, e) => Orderly(d, e)
<1>1. \A l \in Lines, b \in Batches :
        d.alloc[l][b] \in Nat /\ m.alloc[l][b] \in Nat /\ e.alloc[l][b] \in Nat
  BY Fields
<1>2. m.alloc = d.alloc /\ m.order = d.order => Yields(d, m)
  BY <1>1 DEF Yields, Resting
<1>3. Yields(d, m) /\ Yields(m, e) => Yields(d, e)
  <2>1. SUFFICES ASSUME Yields(d, m), Yields(m, e) PROVE Yields(d, e)
    OBVIOUS
  <2>2. \A l \in Lines, b \in Batches : e.alloc[l][b] <= d.alloc[l][b]
    BY <1>1, <2>1 DEF Yields
  <2>3. \A l \in Lines : Resting(d, l) => Resting(e, l) /\ e.alloc[l] = d.alloc[l]
    BY <2>1 DEF Yields
  <2>4. QED
    BY <2>2, <2>3 DEF Yields
<1>4. \A b \in Purchased(e) : b \in Batches
  BY DEF Purchased
<1>5. Yields(d, e) => Orderly(d, e)
  BY <1>1, <1>4 DEF Yields, Orderly, OldestUsed
<1>6. ASSUME Yields(d, m), Orderly(m, e) PROVE Orderly(d, e)
  <2>1. \A l \in Lines : Resting(d, l) => e.alloc[l] = d.alloc[l]
    BY <1>6 DEF Yields, Orderly
  <2>2. ASSUME NEW l \in Lines, NEW b \in Purchased(e), e.alloc[l][b] > d.alloc[l][b]
        PROVE  e.alloc[l][b] > m.alloc[l][b]
    <3>1. m.alloc[l][b] <= d.alloc[l][b]
      BY <1>4, <1>6 DEF Yields
    <3>2. QED
      BY <1>1, <1>4, <2>2, <3>1
  <2>3. OldestUsed(d, e)
    BY <1>6, <2>2 DEF Orderly, OldestUsed
  <2>4. QED
    BY <2>1, <2>3 DEF Orderly
<1>7. QED
  BY <1>2, <1>3, <1>5, <1>6

\* The tables may be shown to the feed afterwards.
LEMMA OrderlyShow ==
  ASSUME NEW d, NEW a \in Database, Orderly(d, a), NEW owners
  PROVE  Orderly(d, Show(a, owners))
<1> DEFINE e == Show(a, owners)
<1>1. SameStock(a, e)
  BY ShowKeeps
<1> HIDE DEF e
<1>2. Orderly(d, e)
  BY <1>1 DEF Orderly, OldestUsed, SameStock, Older, Shelf, Purchased
<1>3. QED
  BY <1>2 DEF e

\* The calls that allocate take oldest first, and leave returned goods.
LEMMA ServeOrderly ==
  ASSUME NEW d \in Database, NEW need \in [Lines -> Nat], NEW e, e = Serve(d, need),
         \A l \in Lines : need[l] > 0 => ~Blocks(d, OrderOf[l])
  PROVE  Orderly(d, e)
<1>1. OldestUsed(d, e)
  BY ServeOldest
<1>2. e \in Database /\ \A l \in Lines, b \in Batches : e.alloc[l][b] = d.alloc[l][b] + Given(d, need)[l][b]
  BY ServeFields
<1>3. ASSUME NEW l \in Lines, Resting(d, l) PROVE e.alloc[l] = d.alloc[l]
  <2>1. ~(need[l] > 0)
    BY <1>3 DEF Resting, Blocks, Terminal
  <2>2. ASSUME NEW b \in Batches PROVE e.alloc[l][b] = d.alloc[l][b]
    <3>1. Given(d, need)[l][b] \in Nat /\ ~(Given(d, need)[l][b] > 0) /\ d.alloc[l][b] \in Nat
      BY <2>1, GivenType, Fields
    <3>2. QED
      BY <1>2, <3>1
  <2>3. e.alloc[l] \in [Batches -> Nat] /\ d.alloc[l] \in [Batches -> Nat]
    BY <1>2, Fields
  <2>4. QED
    BY <2>2, <2>3
<1>4. QED
  BY <1>1, <1>3 DEF Orderly

LEMMA AllocateOrderly ==
  ASSUME NEW d \in Database, NEW S, NEW e, e = Allocate(d, S)
  PROVE  Orderly(d, e)
<1> DEFINE need == Needs(d, S)
<1>1. need \in [Lines -> Nat] /\ e = Serve(d, need) /\ \A l \in Lines : need[l] > 0 => ~Blocks(d, OrderOf[l])
  BY NeedsType DEF Allocate
<1> HIDE DEF need
<1>2. QED
  BY <1>1, ServeOrderly

\* The calls stay within a pool.
LEMMA AllocateWithin ==
  ASSUME NEW d \in Database, NEW S, NEW own,
         \A l \in Lines \cap S : d.line[l].product \in Products => Owner(d, d.line[l].product) = own,
         NEW e, e = Allocate(d, S)
  PROVE  Within(d, e, {own})
<1> DEFINE need == Needs(d, S)
<1>1. /\ need \in [Lines -> Nat] /\ e = Serve(d, need)
      /\ \A l \in Lines : need[l] > 0 => l \in S /\ d.line[l].product \in Products
  BY NeedsType DEF Allocate
<1> HIDE DEF need
<1>2. /\ \A l \in Lines, b \in Batches : e.alloc[l][b] = d.alloc[l][b] + Given(d, need)[l][b]
      /\ \A b \in Batches : Exists(d, b) => e.batch[b].left = d.batch[b].left - Taken(d, need, b)
  BY <1>1, ServeFields
<1>3. ASSUME NEW b \in Batches, b \notin Purchased(d) \/ d.batch[b].owner # own
      PROVE  /\ \A l \in Lines : e.alloc[l][b] = d.alloc[l][b]
             /\ Exists(d, b) => e.batch[b].left = d.batch[b].left
  <2>1. ASSUME NEW l \in Lines PROVE Given(d, need)[l][b] = 0
    <3>1. SUFFICES ASSUME Given(d, need)[l][b] > 0 PROVE FALSE
      BY <1>1, GivenType
    <3>2. need[l] > 0 /\ b \in Shelf(d, Owner(d, d.line[l].product))
      BY <1>1, <3>1, GivenType
    <3>3. b \in Purchased(d) /\ d.batch[b].owner = Owner(d, d.line[l].product)
      BY <3>2 DEF Shelf
    <3>4. QED
      BY <1>1, <1>3, <3>2, <3>3
  <2>2. \A l \in Lines : d.alloc[l][b] \in Nat
    BY Fields
  <2>3. Taken(d, need, b) = 0
    BY <1>1, <2>1, TakenIs
  <2>4. Exists(d, b) => d.batch[b].left \in Nat
    BY RowOf DEF Batch
  <2>5. QED
    BY <1>2, <2>1, <2>2, <2>3, <2>4
<1>4. QED
  BY <1>3 DEF Within

LEMMA EmptiedYields ==
  ASSUME NEW d \in Database, NEW own, NEW cards, NEW e, e = Emptied(d, own, cards)
  PROVE  Yields(d, e) /\ Within(d, e, {own})
<1> DEFINE w == Withdrawn(d, own, cards)
<1>1. /\ w \in Database /\ w.batch = d.batch /\ SameOrders(d, w)
      /\ \A l \in Lines, b \in Batches :
           w.alloc[l][b] = IF b \in PurchasedOf(d, own) /\ ~Kept(d, l, cards) THEN 0 ELSE d.alloc[l][b]
  BY WithdrawnFields
<1>2. e = Restocked(w, own)
  BY DEF Emptied
<1> HIDE DEF w
<1>3. /\ e \in Database /\ SameOrders(w, e) /\ e.alloc = w.alloc
      /\ \A b \in Batches : Exists(w, b) =>
           e.batch[b].left = IF b \in PurchasedOf(w, own) THEN LeftOnShelf(w, b) ELSE w.batch[b].left
  BY <1>1, <1>2, RestockedFields
<1>4. \A l \in Lines, b \in Batches : d.alloc[l][b] \in Nat
  BY Fields
<1>5. ASSUME NEW l \in Lines, Resting(d, l) PROVE Resting(e, l) /\ e.alloc[l] = d.alloc[l]
  <2>1. Kept(d, l, cards)
    BY <1>5 DEF Resting, Kept, IsCancelled
  <2>2. \A b \in Batches : e.alloc[l][b] = d.alloc[l][b]
    BY <1>1, <1>3, <2>1
  <2>3. e.alloc[l] \in [Batches -> Nat] /\ d.alloc[l] \in [Batches -> Nat]
    BY <1>3, Fields
  <2>4. e.order = d.order
    BY <1>1, <1>3 DEF SameOrders
  <2>5. QED
    BY <1>5, <2>2, <2>3, <2>4 DEF Resting
<1>6. Yields(d, e)
  BY <1>1, <1>3, <1>4, <1>5 DEF Yields
<1>7. \A b : (b \in PurchasedOf(d, own) <=> b \in Purchased(d) /\ d.batch[b].owner = own)
             /\ (b \in PurchasedOf(w, own) <=> b \in PurchasedOf(d, own))
             /\ (Exists(w, b) <=> Exists(d, b))
  BY <1>1 DEF PurchasedOf, Purchased, Exists
<1>8. Within(d, e, {own})
  BY <1>1, <1>3, <1>7 DEF Within
<1>9. QED
  BY <1>6, <1>8

\* Two calls for different pools, one after the other.
LEMMA OrderlyThen ==
  ASSUME NEW d \in Database, NEW c \in Database, NEW e \in Database, NEW some, NEW others,
         SameRows(d, c), SameRows(c, e), c.order = d.order,
         Orderly(d, c), Within(d, c, some), Orderly(c, e), Within(c, e, others),
         some \cap others = {}
  PROVE  Orderly(d, e) /\ Within(d, e, some \cup others)
<1>1. Purchased(c) = Purchased(d) /\ Purchased(e) = Purchased(c)
  BY SameRowsSame
<1>2. \A p : Shelf(e, p) = Shelf(c, p)
  BY SameShelves
<1>3. ASSUME NEW b \in Purchased(d)
      PROVE  /\ b \in Batches /\ Exists(d, b) /\ Exists(c, b)
             /\ c.batch[b].owner = d.batch[b].owner /\ e.batch[b].owner = d.batch[b].owner
             /\ c.batch[b].at = d.batch[b].at /\ e.batch[b].at = d.batch[b].at
  <2>1. b \in Batches
    BY <1>3 DEF Purchased
  <2>2. Exists(d, b)
    BY <1>3, <2>1, RowOf
  <2>3. QED
    BY <2>1, <2>2 DEF SameRows
<1>4. ASSUME NEW l \in Lines, NEW b \in Purchased(e), e.alloc[l][b] > d.alloc[l][b],
             NEW y \in Shelf(e, e.batch[b].owner), Older(e, y, b)
      PROVE  e.batch[y].left = 0
  <2> DEFINE own == d.batch[b].owner
  <2>1. b \in Purchased(d) /\ e.batch[b].owner = own /\ c.batch[b].owner = own /\ b \in Batches
    BY <1>1, <1>3
  <2>2. y \in Shelf(c, own) /\ y \in Purchased(d) /\ d.batch[y].owner = own /\ c.batch[y].owner = own
    BY <1>1, <1>2, <1>3, <2>1 DEF Shelf
  <2> HIDE DEF own
  <2>3. Older(c, y, b)
    BY <1>3, <1>4, <2>1, <2>2 DEF Older
  <2>4. CASE own \in others
    <3>1. c.alloc[l][b] = d.alloc[l][b]
      BY <2>1, <2>4 DEF Within, own
    <3>2. QED
      BY <1>4, <3>1 DEF Orderly, OldestUsed
  <2>5. CASE own \notin others
    <3>1. e.alloc[l][b] = c.alloc[l][b]
      BY <2>1, <2>5 DEF Within
    <3>2. c.batch[y].left = 0
      BY <1>1, <1>4, <2>1, <2>2, <2>3, <3>1 DEF Orderly, OldestUsed
    <3>3. e.batch[y].left = c.batch[y].left
      BY <1>3, <2>2, <2>5 DEF Within
    <3>4. QED
      BY <3>2, <3>3
  <2>6. QED
    BY <2>4, <2>5
<1>5. \A l \in Lines : Resting(d, l) => e.alloc[l] = d.alloc[l]
  BY DEF Orderly, Resting
<1>6. ASSUME NEW b \in Batches, b \notin Purchased(d) \/ d.batch[b].owner \notin some \cup others
      PROVE  /\ \A l \in Lines : e.alloc[l][b] = d.alloc[l][b]
             /\ Exists(d, b) => e.batch[b].left = d.batch[b].left
  <2>1. b \notin Purchased(c) \/ c.batch[b].owner \notin others
    BY <1>1, <1>3, <1>6
  <2>2. Exists(c, b) <=> Exists(d, b)
    BY DEF SameRows
  <2>3. QED
    BY <1>6, <2>1, <2>2 DEF Within
<1>7. QED
  BY <1>4, <1>5, <1>6 DEF Orderly, OldestUsed, Within

-----------------------------------------------------------------------------
\* One service after another.
LEMMA KeepsTrans ==
  ASSUME NEW d, NEW e, NEW f
  PROVE  /\ SameRows(d, e) /\ SameRows(e, f) => SameRows(d, f)
         /\ SameOrders(d, e) /\ SameOrders(e, f) => SameOrders(d, f)
         /\ Keeps(d, e) /\ Keeps(e, f) => Keeps(d, f)
<1>1. SameRows(d, e) /\ SameRows(e, f) => SameRows(d, f)
  BY DEF SameRows
<1>2. SameOrders(d, e) /\ SameOrders(e, f) => SameOrders(d, f)
  BY DEF SameOrders
<1>3. Keeps(d, e) /\ Keeps(e, f) => Keeps(d, f)
  BY DEF Keeps
<1>4. QED
  BY <1>1, <1>2, <1>3

LEMMA ToldLess ==
  ASSUME NEW d, NEW few, NEW many, few \subseteq many, Told(d, few)
  PROVE  Told(d, many)
  BY DEF Told

\* Rebuilding a pool keeps the invariant, tells the feed, and takes oldest
\* first.
LEMMA RebuildKeeps ==
  ASSUME NEW d \in Database, TwoLevel(d), NEW p \in Products, NEW detached,
         NEW e, e = Rebuild(d, p, detached)
  PROVE  /\ e \in Database /\ SameRows(d, e) /\ SameOrders(d, e)
         /\ Keeps(d, e)
         /\ \A b \in PurchasedOf(d, Owner(d, p)) :
              Filled(e, b) /\ (OfBatch(d, b) <= d.batch[b].got => Even(e, b))
         /\ \A untold : Told(d, untold) => Told(e, untold \ {Owner(d, p)})
         /\ Orderly(d, e) /\ Within(d, e, {Owner(d, p)})
<1> DEFINE own == Owner(d, p)
           r == Emptied(d, own, Group(d, own) \cup detached)
           a == Allocate(r, Waiting(r, own))
<1>1. e = Show(a, {own})
  BY DEF Rebuild, Emptied
<1>2. own \in Products /\ Owner(d, own) = own
  BY Fields DEF TwoLevel, Owner
<1>3. /\ r \in Database /\ SameRows(d, r) /\ SameOrders(d, r) /\ Keeps(d, r)
      /\ \A b \in PurchasedOf(d, own) :
           Filled(r, b) /\ (OfBatch(d, b) <= d.batch[b].got => Even(r, b))
      /\ \A untold : Told(d, untold) => Told(r, untold \cup {own})
  BY EmptiedKeeps
<1>14. Yields(d, r) /\ Within(d, r, {own})
  BY EmptiedYields
<1> HIDE DEF own
<1>4. Owner(r, own) = own
  BY <1>2, <1>3 DEF SameOrders, Owner
<1>5. \A l \in Waiting(r, own) : Owner(r, r.line[l].product) = own
  BY <1>4 DEF Waiting, Group
<1> HIDE DEF r
<1>6. /\ a \in Database /\ SameRows(r, a) /\ SameOrders(r, a) /\ Keeps(r, a)
      /\ \A b \in Batches : (Filled(r, b) => Filled(a, b)) /\ (Even(r, b) => Even(a, b))
  BY <1>3, AllocateKeeps
<1>15. Orderly(r, a) /\ Within(r, a, {own})
  BY <1>3, <1>5, AllocateOrderly, AllocateWithin
<1>7. ASSUME NEW untold, Told(d, untold) PROVE Told(a, untold \cup {own})
  BY <1>3, <1>5, <1>7, AllocateStock
<1> HIDE DEF a
<1>8. /\ e \in Database /\ SameRows(a, e) /\ SameOrders(a, e) /\ Keeps(a, e)
      /\ \A b \in Batches : (Filled(a, b) => Filled(e, b)) /\ (Even(a, b) => Even(e, b))
      /\ \A untold : Told(a, untold) => Told(e, untold \ {own})
  BY <1>1, <1>6, ShowKeeps
<1>9. SameRows(d, e) /\ SameOrders(d, e) /\ Keeps(d, e)
  BY <1>3, <1>6, <1>8, KeepsTrans
<1>16. Orderly(d, e)
  <2>1. Orderly(d, a)
    BY <1>3, <1>6, <1>14, <1>15, YieldsIs
  <2>2. QED
    BY <1>1, <1>6, <2>1, OrderlyShow
<1>17. Within(d, e, {own})
  <2>1. SameStock(a, e)
    BY <1>1, <1>6, ShowKeeps
  <2>2. Purchased(r) = Purchased(d) /\ \A b \in Purchased(d) : r.batch[b].owner = d.batch[b].owner
    <3>1. \A b \in Purchased(d) : b \in Batches /\ Exists(d, b)
      BY RowOf DEF Purchased
    <3>2. QED
      BY <1>3, <3>1, SameRowsSame DEF SameRows
  <2>3. \A b \in Batches : Exists(r, b) <=> Exists(d, b)
    BY <1>3 DEF SameRows
  <2>4. QED
    BY <1>14, <1>15, <2>1, <2>2, <2>3 DEF Within, SameStock
<1>10. PurchasedOf(d, own) \subseteq Batches
  BY DEF PurchasedOf, Purchased
<1>11. \A b \in PurchasedOf(d, own) :
         Filled(e, b) /\ (OfBatch(d, b) <= d.batch[b].got => Even(e, b))
  BY <1>3, <1>6, <1>8, <1>10
<1>12. ASSUME NEW untold, Told(d, untold) PROVE Told(e, untold \ {own})
  <2>1. Told(e, (untold \cup {own}) \ {own})
    BY <1>7, <1>8, <1>12
  <2>2. (untold \cup {own}) \ {own} \subseteq untold \ {own}
    OBVIOUS
  <2>3. QED
    BY <2>1, <2>2, ToldLess
<1>13. QED
  BY <1>8, <1>9, <1>11, <1>12, <1>16, <1>17 DEF own

-----------------------------------------------------------------------------
\* Release: an order gives its purchased units back.
LEMMA HeldIs ==
  ASSUME NEW d \in Database, NEW o, NEW b \in Batches
  PROVE  /\ Held(d, o, b) \in Nat /\ Held(d, o, b) <= OfBatch(d, b)
         /\ Held(d, o, b) > 0 => b \in Purchased(d) /\ Exists(d, b)
<1> DEFINE f == [l \in Lines |-> d.alloc[l][b]]
           L == LinesOf(o)
           g == [l \in L |-> d.alloc[l][b]]
<1>1. L \subseteq Lines /\ f \in [Lines -> Nat] /\ g \in [L -> Nat] /\ \A l \in L : g[l] <= f[l]
  BY Fields DEF LinesOf
<1>2. OfBatch(d, b) = Total(f) /\ OfBatch(d, b) \in Nat
  BY SumsType DEF OfBatch
<1>3. Held(d, o, b) = IF b \in Purchased(d) THEN Total(g) ELSE 0
  BY DEF Held
<1>4. b \in Purchased(d) => Exists(d, b)
  BY RowOf
<1>5. Total(g) <= Total(f) /\ Total(g) \in Nat
  <2> HIDE DEF f, g, L
  <2>1. QED
    BY <1>1, TotalSubset, Finite
<1>6. QED
  BY <1>1, <1>2, <1>3, <1>4, <1>5

\* Its allocations are deleted and the batches get the units back.
LEMMA ReturnedFields ==
  ASSUME NEW d \in Database, NEW o, NEW e, e = Returned(d, o)
  PROVE  /\ e \in Database /\ SameRows(d, e) /\ SameOrders(d, e) /\ e.shown = d.shown
         /\ \A l \in Lines, b \in Batches :
              e.alloc[l][b] = IF OrderOf[l] = o /\ b \in Purchased(d) THEN 0 ELSE d.alloc[l][b]
         /\ \A b \in Batches : Exists(d, b) => e.batch[b].left = d.batch[b].left + Held(d, o, b)
<1> DEFINE A == [l \in Lines |-> [b \in Batches |->
                   IF OrderOf[l] = o /\ b \in Purchased(d) THEN 0 ELSE d.alloc[l][b]]]
           row(b) == IF Held(d, o, b) > 0 THEN WithLeft(d.batch[b], d.batch[b].left + Held(d, o, b))
                     ELSE d.batch[b]
           B == [b \in Batches |-> row(b)]
<1>1. e = [d EXCEPT !.alloc = A, !.batch = B]
  BY DEF Returned
<1>2. A \in [Lines -> [Batches -> Nat]]
  <2>1. \A l \in Lines, b \in Batches : d.alloc[l][b] \in Nat
    BY Fields
  <2>2. QED
    BY <2>1
<1>3. ASSUME NEW b \in Batches
      PROVE  /\ row(b) \in Batch \cup {NoBatch} /\ row(b).kind = d.batch[b].kind
             /\ row(b) # NoBatch <=> Exists(d, b)
             /\ Exists(d, b) => /\ row(b).owner = d.batch[b].owner /\ row(b).at = d.batch[b].at
                                /\ row(b).got = d.batch[b].got /\ row(b).here = d.batch[b].here
                                /\ row(b).left = d.batch[b].left + Held(d, o, b)
  <2>1. CASE Held(d, o, b) = 0
    <3>1. Exists(d, b) => d.batch[b].left \in Nat
      BY RowOf DEF Batch
    <3>2. QED
      BY <2>1, <3>1, Fields DEF Exists
  <2>2. CASE Held(d, o, b) # 0
    <3> DEFINE n == d.batch[b].left + Held(d, o, b)
    <3>1. Held(d, o, b) > 0 /\ Exists(d, b)
      BY <2>2, HeldIs
    <3>2. d.batch[b] \in Batch
      BY <3>1, RowOf
    <3>3. n \in Nat
      BY <3>2, HeldIs DEF Batch
    <3>4. row(b) = WithLeft(d.batch[b], n)
      BY <3>1
    <3> HIDE DEF row, n
    <3>5. /\ row(b) \in Batch /\ row(b) # NoBatch /\ row(b).left = n
          /\ row(b).kind = d.batch[b].kind
          /\ row(b).owner = d.batch[b].owner /\ row(b).at = d.batch[b].at
          /\ row(b).got = d.batch[b].got /\ row(b).here = d.batch[b].here
      BY <3>2, <3>3, <3>4, WithLeftFields
    <3>6. QED
      BY <3>1, <3>5 DEF n
  <2>3. QED
    BY <2>1, <2>2
<1> HIDE DEF row
<1>4. B \in [Batches -> Batch \cup {NoBatch}] /\ \A b \in Batches : B[b] = row(b)
  BY <1>3
<1>5. \A l \in Lines, b \in Batches :
        A[l][b] = IF OrderOf[l] = o /\ b \in Purchased(d) THEN 0 ELSE d.alloc[l][b]
  OBVIOUS
<1> HIDE DEF A, B
<1>6. /\ e \in Database /\ e.alloc = A /\ e.batch = B
      /\ SameOrders(d, e) /\ e.shown = d.shown
  BY <1>1, <1>2, <1>4 DEF Database, SameOrders
<1>7. SameRows(d, e)
  BY <1>3, <1>4, <1>6 DEF SameRows, Exists
<1>8. QED
  BY <1>3, <1>4, <1>5, <1>6, <1>7

LEMMA ReturnedSums ==
  ASSUME NEW d \in Database, NEW o, NEW e, e = Returned(d, o), NEW b \in Batches
  PROVE  OfBatch(e, b) + Held(d, o, b) = OfBatch(d, b)
<1> DEFINE L == LinesOf(o)
           f == [l \in Lines |-> d.alloc[l][b]]
           g == [l \in Lines |-> e.alloc[l][b]]
           fin == [l \in Lines \cap L |-> f[l]]
           fout == [l \in Lines \ L |-> f[l]]
           gin == [l \in Lines \cap L |-> g[l]]
           gout == [l \in Lines \ L |-> g[l]]
<1>1. /\ e \in Database
      /\ \A l \in Lines : e.alloc[l][b] = IF OrderOf[l] = o /\ b \in Purchased(d) THEN 0 ELSE d.alloc[l][b]
  BY ReturnedFields
<1>2. OfBatch(d, b) = Total(f) /\ OfBatch(e, b) = Total(g) /\ OfBatch(d, b) \in Nat
  BY SumsType DEF OfBatch
<1>3. CASE b \notin Purchased(d)
  <2>1. OfBatch(e, b) = OfBatch(d, b)
    BY <1>1, <1>3, OfBatchSame
  <2>2. QED
    BY <1>2, <1>3, <2>1 DEF Held
<1>4. CASE b \in Purchased(d)
  <2>1. f \in [Lines -> Nat] /\ g \in [Lines -> Nat]
    BY <1>1, Fields
  <2>2. Lines \cap L = L /\ fin = [l \in L |-> d.alloc[l][b]] /\ fout = gout
    BY <1>1 DEF LinesOf
  <2>3. \A l \in Lines \cap L : gin[l] = 0
    BY <1>1, <1>4 DEF LinesOf
  <2>4. gin \in [Lines \cap L -> Nat] /\ IsFiniteSet(Lines \cap L)
    BY <2>1, FS_Intersection, Finite
  <2>5. /\ Total(f) = Total(fin) + Total(fout) /\ Total(fin) \in Nat /\ Total(fout) \in Nat
        /\ Total(g) = Total(gin) + Total(gout)
    <3> HIDE DEF f, g, L
    <3>1. Total(f) = Total(fin) + Total(fout) /\ Total(fin) \in Nat /\ Total(fout) \in Nat
      BY <2>1, TotalSplit, Finite
    <3>2. Total(g) = Total(gin) + Total(gout)
      BY <2>1, TotalSplit, Finite, SMTT(30)
    <3>3. QED
      BY <3>1, <3>2
  <2>6. Total(gin) = 0
    <3> HIDE DEF gin, L
    <3>1. QED
      BY <2>3, <2>4, TotalZero
  <2>7. Held(d, o, b) = Total(fin)
    BY <1>4, <2>2 DEF Held
  <2> HIDE DEF f, g, fin, gin, fout, gout, L
  <2>8. QED
    BY <1>2, <2>2, <2>5, <2>6, <2>7
<1>5. QED
  BY <1>3, <1>4

\* Only the order o may be cancelled and still hold purchased units.
NoneCancelledBut(d, o) ==
  \A l \in Lines : IsCancelled(d, OrderOf[l]) /\ OrderOf[l] # o =>
    \A b \in Purchased(d) : d.alloc[l][b] = 0

\* It holds none any more, and the pools it gave to are shown.
LEMMA ReleaseKeeps ==
  ASSUME NEW d \in Database, NEW o, NEW e, e = Release(d, o)
  PROVE  /\ e \in Database /\ SameRows(d, e) /\ SameOrders(d, e)
         /\ TwoLevel(d) => TwoLevel(e)
         /\ HereIsBought(d) => HereIsBought(e)
         /\ \A excepted : Balanced(d, excepted) => Balanced(e, excepted)
         /\ NoneCancelledBut(d, o) => NoneCancelled(e)
         /\ \A untold : Told(d, untold) => Told(e, untold)
         /\ (\A l \in LinesOf(o) : ~Resting(d, l)) => Yields(d, e)
<1> DEFINE r == Returned(d, o)
           owners == {d.batch[b].owner : b \in {b \in Batches : Held(d, o, b) > 0}}
<1>1. /\ r \in Database /\ SameRows(d, r) /\ SameOrders(d, r) /\ r.shown = d.shown
      /\ \A l \in Lines, b \in Batches :
           r.alloc[l][b] = IF OrderOf[l] = o /\ b \in Purchased(d) THEN 0 ELSE d.alloc[l][b]
      /\ \A b \in Batches : Exists(d, b) => r.batch[b].left = d.batch[b].left + Held(d, o, b)
  BY ReturnedFields
<1>2. \A b \in Batches : OfBatch(r, b) + Held(d, o, b) = OfBatch(d, b)
  BY ReturnedSums
<1>3. e = Show(r, owners)
  BY DEF Release
<1>4. \A b \in Batches : Held(d, o, b) > 0 => d.batch[b].owner \in owners
  OBVIOUS
<1> HIDE DEF r, owners
<1>5. /\ e \in Database /\ SameOrders(r, e) /\ SameRows(r, e) /\ Keeps(r, e)
      /\ \A untold : Told(r, untold) => Told(e, untold \ owners)
  BY <1>1, <1>3, ShowKeeps
<1>6. /\ Purchased(r) = Purchased(d) /\ (HereIsBought(d) => HereIsBought(r))
  BY <1>1, SameRowsSame
<1>7. TwoLevel(d) => TwoLevel(r)
  BY <1>1 DEF TwoLevel, SameRows, SameOrders, Owner
<1>8. ASSUME NEW b \in Batches
      PROVE  (Sparing(d, b) => Sparing(r, b)) /\ (Even(d, b) => Even(r, b))
  <2>1. /\ OfBatch(d, b) \in Nat /\ OfBatch(r, b) \in Nat /\ Held(d, o, b) \in Nat
        /\ OfBatch(r, b) + Held(d, o, b) = OfBatch(d, b)
    BY <1>1, <1>2, SumsType, HeldIs
  <2>2. CASE ~Exists(d, b)
    <3>1. ~Exists(r, b)
      BY <1>1, <2>2 DEF SameRows
    <3>2. OfBatch(d, b) = 0 => OfBatch(r, b) = 0
      BY <2>1
    <3>3. QED
      BY <2>2, <3>1, <3>2 DEF Sparing, Even
  <2>3. CASE Exists(d, b)
    <3>1. d.batch[b].left \in Nat /\ d.batch[b].got \in Nat /\ d.batch[b].kind \in Kinds
      BY <2>3, RowOf DEF Batch
    <3>2. /\ Exists(r, b) /\ r.batch[b].got = d.batch[b].got /\ r.batch[b].here = d.batch[b].here
          /\ r.batch[b].kind = d.batch[b].kind /\ r.batch[b].left = d.batch[b].left + Held(d, o, b)
      BY <1>1, <2>3 DEF SameRows
    <3>3. OfBatch(d, b) = 0 => OfBatch(r, b) = 0 /\ Held(d, o, b) = 0
      BY <2>1
    <3>4. OfBatch(d, b) <= d.batch[b].got => OfBatch(r, b) <= d.batch[b].got
      BY <2>1, <3>1
    <3>5. d.batch[b].left + OfBatch(d, b) = r.batch[b].left + OfBatch(r, b)
      BY <2>1, <3>1, <3>2
    <3>6. Held(d, o, b) > 0 => d.batch[b].kind = "purchase"
      BY HeldIs DEF Purchased
    <3>7. Sparing(d, b) => Sparing(r, b)
      <4>1. ASSUME Sparing(d, b), ~d.batch[b].here PROVE r.batch[b].left = 0
        <5>1. d.batch[b].left = 0
          BY <2>3, <4>1 DEF Sparing
        <5>2. Held(d, o, b) = 0
          <6>1. CASE d.batch[b].kind = "purchase"
            BY <2>3, <3>3, <4>1, <6>1 DEF Sparing
          <6>2. CASE d.batch[b].kind # "purchase"
            BY <2>1, <3>6, <6>2
          <6>3. QED
            BY <6>1, <6>2
        <5>3. QED
          BY <3>2, <5>1, <5>2
      <4>2. QED
        BY <2>3, <3>2, <3>3, <3>4, <4>1 DEF Sparing
    <3>8. Even(d, b) => Even(r, b)
      BY <2>3, <3>2, <3>5 DEF Even
    <3>9. QED
      BY <3>7, <3>8
  <2>4. QED
    BY <2>2, <2>3
<1>9. \A excepted : Balanced(d, excepted) => Balanced(r, excepted)
  BY <1>8 DEF Balanced
<1>10. ASSUME NoneCancelledBut(d, o) PROVE NoneCancelled(r)
  <2> SUFFICES ASSUME NEW l \in Lines, IsCancelled(r, OrderOf[l]), NEW b \in Purchased(r)
               PROVE  r.alloc[l][b] = 0
    BY DEF NoneCancelled
  <2>1. IsCancelled(d, OrderOf[l]) /\ b \in Purchased(d) /\ b \in Batches
    BY <1>1, <1>6 DEF SameOrders, IsCancelled, Purchased
  <2>2. CASE OrderOf[l] = o
    BY <1>1, <2>1, <2>2
  <2>3. CASE OrderOf[l] # o
    BY <1>1, <1>10, <2>1, <2>3 DEF NoneCancelledBut
  <2>4. QED
    BY <2>2, <2>3
<1>11. ASSUME NEW untold, Told(d, untold) PROVE Told(e, untold)
  <2>1. ASSUME NEW p \in Products, Owner(r, p) \notin untold \cup owners
        PROVE  r.shown[p] = Stock(r, Owner(r, p))
    <3> DEFINE q == Owner(d, p)
    <3>1. Owner(r, p) = q
      BY <1>1 DEF SameOrders, Owner
    <3>2. Shelf(r, q) = Shelf(d, q)
      BY <1>1, SameShelves
    <3>3. ASSUME NEW b \in Shelf(d, q) PROVE r.batch[b].left = d.batch[b].left
      <4>1. b \in Batches /\ Exists(d, b) /\ d.batch[b].owner = q /\ d.batch[b].left \in Nat
        BY ShelfRow
      <4>2. Held(d, o, b) = 0
        BY <1>4, <2>1, <3>1, <4>1, HeldIs
      <4>3. QED
        BY <1>1, <4>1, <4>2
    <3>4. Stock(r, q) = Stock(d, q)
      BY <1>1, <3>2, <3>3, StockSame
    <3>5. QED
      BY <1>1, <1>11, <2>1, <3>1, <3>4 DEF Told
  <2>2. Told(r, untold \cup owners)
    BY <2>1 DEF Told
  <2>3. Told(e, (untold \cup owners) \ owners)
    BY <1>5, <2>2
  <2>4. (untold \cup owners) \ owners \subseteq untold
    OBVIOUS
  <2>5. QED
    BY <2>3, <2>4, ToldLess
<1>12. SameRows(d, e) /\ SameOrders(d, e)
  BY <1>1, <1>5, KeepsTrans
<1>13. ASSUME \A l \in LinesOf(o) : ~Resting(d, l) PROVE Yields(d, e)
  <2>1. e.alloc = r.alloc /\ e.order = d.order
    BY <1>1, <1>3, <1>12, ShowKeeps DEF SameStock, SameOrders
  <2>2. \A l \in Lines, b \in Batches : d.alloc[l][b] \in Nat
    BY Fields
  <2>3. ASSUME NEW l \in Lines, Resting(d, l) PROVE Resting(e, l) /\ e.alloc[l] = d.alloc[l]
    <3>1. OrderOf[l] # o
      BY <1>13, <2>3 DEF LinesOf
    <3>2. \A b \in Batches : e.alloc[l][b] = d.alloc[l][b]
      BY <1>1, <2>1, <3>1
    <3>3. e.alloc[l] \in [Batches -> Nat] /\ d.alloc[l] \in [Batches -> Nat]
      BY <1>5, Fields
    <3>4. QED
      BY <2>1, <2>3, <3>2, <3>3 DEF Resting
  <2>4. QED
    BY <1>1, <2>1, <2>2, <2>3 DEF Yields
<1>14. QED
  BY <1>5, <1>6, <1>7, <1>9, <1>10, <1>11, <1>12, <1>13 DEF Keeps

-----------------------------------------------------------------------------
\* Rebuilding several pools, in the order of FoldSet.
Pick(s) == CHOOSE p \in s : TRUE

Rebuilt(d, iter, s) ==
  IF s = {} THEN d ELSE Rebuild(iter[s \ {Pick(s)}], Pick(s), {})

\* The pools that are left after one more.
LEMMA OneOwnerLess ==
  ASSUME NEW S, IsFiniteSet(S), NEW s \in SUBSET S, s # {}
  PROVE  /\ Pick(s) \in s /\ s \ {Pick(s)} \in SUBSET S
         /\ Cardinality(s) \in Nat /\ Cardinality(s \ {Pick(s)}) \in Nat
         /\ Cardinality(s \ {Pick(s)}) = Cardinality(s) - 1
<1>1. IsFiniteSet(s)
  BY FS_Subset
<1>2. Pick(s) \in s
  BY DEF Pick
<1>3. QED
  BY <1>1, <1>2, FS_RemoveElement, FS_CardinalityType

LEMMA RebuiltExists ==
  ASSUME NEW d, NEW owners, IsFiniteSet(owners)
  PROVE  \E iter : iter = [s \in SUBSET owners |-> Rebuilt(d, iter, s)]
<1> DEFINE Small(n) == {s \in SUBSET owners : Cardinality(s) <= n}
           Defined(n) == \E f : f = [s \in Small(n) |-> Rebuilt(d, f, s)]
           bad == {n \in Nat : ~Defined(n)}
<1>0. \A s \in SUBSET owners : Cardinality(s) \in Nat
  BY FS_Subset, FS_CardinalityType
<1>1. ASSUME NEW n \in Nat, n = 0 \/ Defined(n - 1) PROVE Defined(n)
  <2>1. PICK f : n # 0 => f = [s \in Small(n - 1) |-> Rebuilt(d, f, s)]
    BY <1>1
  <2> DEFINE g == [s \in Small(n) |-> Rebuilt(d, f, s)]
  <2>2. ASSUME NEW s \in Small(n) PROVE Rebuilt(d, f, s) = Rebuilt(d, g, s)
    <3>1. CASE s = {}
      BY <3>1 DEF Rebuilt
    <3>2. CASE s # {}
      <4> DEFINE t == s \ {Pick(s)}
      <4>1. /\ t \in SUBSET owners /\ Cardinality(s) \in Nat /\ Cardinality(t) \in Nat
            /\ Cardinality(t) = Cardinality(s) - 1
        BY <3>2, OneOwnerLess
      <4>2. n # 0 /\ t \in Small(n - 1) /\ t \in Small(n)
        BY <4>1
      <4> HIDE DEF Small, t
      <4>3. f[t] = Rebuilt(d, f, t)
        BY <2>1, <4>2
      <4>4. g[t] = Rebuilt(d, f, t)
        BY <4>2
      <4>5. QED
        BY <3>2, <4>3, <4>4 DEF Rebuilt, t
    <3>3. QED
      BY <3>1, <3>2
  <2>3. g = [s \in Small(n) |-> Rebuilt(d, g, s)]
    <3> HIDE DEF Small
    <3> DEFINE h == [s \in Small(n) |-> Rebuilt(d, g, s)]
    <3> SUFFICES g = h
      OBVIOUS
    <3>1. \A s \in Small(n) : g[s] = Rebuilt(d, f, s)
      OBVIOUS
    <3>2. DOMAIN g = Small(n) /\ g = [s \in Small(n) |-> g[s]]
      OBVIOUS
    <3>3. \A s \in Small(n) : g[s] = Rebuilt(d, g, s)
      BY <2>2, <3>1
    <3> HIDE DEF g
    <3>4. QED
      BY <3>2, <3>3
  <2>4. QED
    BY <2>3
<1>2. \A n \in Nat : Defined(n)
  <2> HIDE DEF Defined
  <2>1. SUFFICES ASSUME bad # {} PROVE FALSE
    OBVIOUS
  <2>2. PICK n \in bad : \A m \in bad : ~(m < n)
    BY <2>1, LeastNumber
  <2>3. n = 0 \/ Defined(n - 1)
    BY <2>2
  <2>4. QED
    BY <1>1, <2>2, <2>3
<1>3. Cardinality(owners) \in Nat /\ \A s \in SUBSET owners : Cardinality(s) <= Cardinality(owners)
  BY FS_Subset, FS_CardinalityType
<1>4. Small(Cardinality(owners)) = SUBSET owners
  BY <1>3
<1>5. Defined(Cardinality(owners))
  BY <1>2, <1>3
<1> HIDE DEF Small
<1>6. QED
  BY <1>4, <1>5

\* The fold over the owners is that recursion; it exists by well-founded
\* recursion on the number of pools.
LEMMA RebuildAllIs ==
  ASSUME NEW d, NEW owners, IsFiniteSet(owners)
  PROVE  \E iter : /\ iter = [s \in SUBSET owners |-> Rebuilt(d, iter, s)]
                   /\ RebuildAll(d, owners) = iter[owners]
<1> DEFINE step(f) == [s \in SUBSET owners |->
             IF s = {} THEN d
             ELSE Rebuild(f[s \ {CHOOSE x \in s : TRUE}], CHOOSE x \in s : TRUE, {})]
           iter == CHOOSE f : f = step(f)
<1>1. RebuildAll(d, owners) = iter[owners]
  BY DEF RebuildAll, FoldSet, MapThenFoldSet
<1>2. iter = [s \in SUBSET owners |-> Rebuilt(d, iter, s)]
  <2>1. \A f : step(f) = [s \in SUBSET owners |-> Rebuilt(d, f, s)]
    BY DEF Rebuilt, Pick
  <2> HIDE DEF step
  <2>2. \E f : f = step(f)
    <3>1. PICK f : f = [s \in SUBSET owners |-> Rebuilt(d, f, s)]
      BY RebuiltExists
    <3>2. step(f) = [s \in SUBSET owners |-> Rebuilt(d, f, s)]
      BY <2>1
    <3>3. f = step(f)
      BY <3>1, <3>2, Zenon
    <3>4. QED
      BY <3>3
  <2>3. iter = step(iter)
    BY <2>2, Zenon
  <2>4. QED
    BY <2>1, <2>3
<1> HIDE DEF iter
<1>3. QED
  BY <1>1, <1>2

\* Each pool is rebuilt and shown; the others are not touched by it.
LEMMA RebuildAllKeeps ==
  ASSUME NEW d \in Database, TwoLevel(d), NEW owners \in SUBSET Products,
         \A p \in owners : Owner(d, p) = p,
         NEW e, e = RebuildAll(d, owners)
  PROVE  /\ e \in Database /\ SameRows(d, e) /\ SameOrders(d, e)
         /\ Keeps(d, e)
         /\ Told(d, owners) => Told(e, {})
         /\ Orderly(d, e) /\ Within(d, e, owners)
<1>1. IsFiniteSet(owners)
  BY FS_Subset, Finite
<1>2. PICK iter : /\ iter = [s \in SUBSET owners |-> Rebuilt(d, iter, s)]
                  /\ RebuildAll(d, owners) = iter[owners]
  BY <1>1, RebuildAllIs
<1> DEFINE Good(s) == /\ iter[s] \in Database /\ SameRows(d, iter[s]) /\ SameOrders(d, iter[s])
                      /\ Keeps(d, iter[s]) /\ Orderly(d, iter[s]) /\ Within(d, iter[s], s)
                      /\ Told(d, owners) => Told(iter[s], owners \ s)
           bad == {n \in Nat : \E s \in SUBSET owners : Cardinality(s) = n /\ ~Good(s)}
<1>3. Good({})
  <2>1. iter[{}] = d
    BY <1>2 DEF Rebuilt
  <2>2. SameRows(d, d) /\ SameOrders(d, d) /\ Keeps(d, d)
    BY DEF SameRows, SameOrders, Keeps
  <2>3. owners \ {} = owners
    OBVIOUS
  <2>4. Orderly(d, d)
    BY YieldsIs
  <2>5. Within(d, d, {})
    BY DEF Within
  <2>6. QED
    BY <2>1, <2>2, <2>3, <2>4, <2>5
<1>4. ASSUME NEW s \in SUBSET owners, s # {}, Good(s \ {Pick(s)}) PROVE Good(s)
  <2> DEFINE p == Pick(s)
             c == iter[s \ {Pick(s)}]
  <2>1. p \in s /\ s \ {p} \in SUBSET owners
    BY <1>1, <1>4, OneOwnerLess
  <2>2. iter[s] = Rebuild(c, p, {})
    BY <1>2, <1>4, <2>1 DEF Rebuilt
  <2>3. /\ c \in Database /\ SameRows(d, c) /\ SameOrders(d, c) /\ Keeps(d, c)
        /\ Told(d, owners) => Told(c, owners \ (s \ {p}))
        /\ Orderly(d, c) /\ Within(d, c, s \ {p})
    BY <1>4
  <2> HIDE DEF c, p, Good
  <2>4. TwoLevel(c) /\ p \in Products /\ Owner(c, p) = p
    BY <2>1, <2>3 DEF Keeps, SameOrders, Owner
  <2> DEFINE f == iter[s]
  <2>5. f = Rebuild(c, p, {})
    BY <2>2
  <2> HIDE DEF f
  <2>6. /\ f \in Database /\ SameRows(c, f) /\ SameOrders(c, f) /\ Keeps(c, f)
        /\ \A untold : Told(c, untold) => Told(f, untold \ {p})
        /\ Orderly(c, f) /\ Within(c, f, {p})
    BY <2>3, <2>4, <2>5, RebuildKeeps
  <2>7. SameRows(d, f) /\ SameOrders(d, f) /\ Keeps(d, f)
    BY <2>3, <2>6, KeepsTrans
  <2>8. ASSUME Told(d, owners) PROVE Told(f, owners \ s)
    <3>1. Told(f, (owners \ (s \ {p})) \ {p})
      BY <2>3, <2>6, <2>8
    <3>2. (owners \ (s \ {p})) \ {p} \subseteq owners \ s
      OBVIOUS
    <3>3. QED
      BY <3>1, <3>2, ToldLess
  <2>9. Orderly(d, f) /\ Within(d, f, s)
    <3>1. (s \ {p}) \cup {p} = s /\ (s \ {p}) \cap {p} = {} /\ c.order = d.order
      BY <2>1, <2>3 DEF SameOrders
    <3>2. Orderly(d, f) /\ Within(d, f, (s \ {p}) \cup {p})
      BY <2>3, <2>6, <3>1, OrderlyThen
    <3>3. QED
      BY <3>1, <3>2
  <2>10. QED
    BY <2>6, <2>7, <2>8, <2>9 DEF f, Good
<1>5. \A s \in SUBSET owners : Cardinality(s) \in Nat
  BY <1>1, FS_Subset, FS_CardinalityType
<1> HIDE DEF Good
<1>6. \A s \in SUBSET owners : Good(s)
  <2>1. SUFFICES ASSUME bad # {} PROVE FALSE
    BY <1>5
  <2>2. PICK n \in bad : \A m \in bad : ~(m < n)
    BY <2>1, LeastNumber
  <2>3. PICK s \in SUBSET owners : Cardinality(s) = n /\ ~Good(s)
    BY <2>2
  <2>4. s # {} /\ ~Good(s \ {Pick(s)})
    BY <1>3, <1>4, <2>3
  <2>5. /\ s \ {Pick(s)} \in SUBSET owners /\ Cardinality(s \ {Pick(s)}) \in Nat
        /\ Cardinality(s \ {Pick(s)}) < n
    BY <1>1, <2>2, <2>3, <2>4, OneOwnerLess
  <2>6. QED
    BY <2>2, <2>4, <2>5
<1>7. Good(owners) /\ owners \ owners = {}
  BY <1>6
<1>8. QED
  BY <1>2, <1>7 DEF Good

-----------------------------------------------------------------------------
\* A line asks for what its order may demand.
Quantities(d) == \A l \in Lines : d.line[l].quantity \in {0} \cup Demand[l]

\* The tables are sound, but for the balance of the excepted batches, and the
\* feed was told the stock.
Sound(d, excepted) ==
  /\ d \in Database
  /\ Quantities(d)
  /\ TwoLevel(d)
  /\ HereIsBought(d)
  /\ Balanced(d, excepted)
  /\ Told(d, {})

\* The inductive invariant, whatever commits inside an import.
StockInv ==
  /\ TypeOK
  /\ Sound(db, cut)

\* The type invariant, part by part.
LEMMA OrderOfType == OrderOf \in [Lines -> Orders] /\ Matches \in [Lines -> Products] /\ NoProduct \notin Products
  BY InventoryAssumption

LEMMA TypeQuantities == TypeOK <=> /\ db \in Database /\ Quantities(db)
                                   /\ reads \in [Importers -> {NoRead} \cup [needed : Nat, line : Lines]]
                                   /\ cut \subseteq Batches
                                   /\ edits \in 0..MaxEdits
                                   /\ late \in BOOLEAN
  BY DEF TypeOK, Quantities

\* A change of orders, lines or the feed leaves batches and pools as they are.
LEMMA SameStockSound ==
  ASSUME NEW d \in Database, NEW e \in Database, NEW excepted, Sound(d, excepted),
         SameStock(d, e), e.owner = d.owner, e.shown = d.shown, Quantities(e)
  PROVE  Sound(e, excepted) /\ SameRows(d, e)
<1>1. /\ TwoLevel(d) => TwoLevel(e)
      /\ HereIsBought(d) => HereIsBought(e)
      /\ \A any : Balanced(d, any) => Balanced(e, any)
      /\ SameRows(d, e) /\ \A p : Stock(e, p) = Stock(d, p)
  BY SameFields
<1>2. Told(e, {})
  BY <1>1 DEF Sound, Told, Owner
<1>3. QED
  BY <1>1, <1>2 DEF Sound

\* A service keeps what it does not have to tell the feed about.
LEMMA KeepsSound ==
  ASSUME NEW d, NEW e \in Database, NEW excepted, Quantities(d), TwoLevel(d), HereIsBought(d),
         Balanced(d, excepted), Keeps(d, e), SameOrders(d, e), Told(e, {})
  PROVE  Sound(e, excepted)
  BY DEF Sound, Keeps, SameOrders, Quantities

-----------------------------------------------------------------------------
\* Writing what Kaspi reports of an order.
LEMMA SeenKeeps ==
  ASSUME NEW d \in Database, NEW o \in Orders, NEW s \in Status, NEW q \in [LinesOf(o) -> Nat],
         \A l \in LinesOf(o) : q[l] \in Demand[l], NEW e, e = Seen(d, o, s, q)
  PROVE  /\ e \in Database /\ SameStock(d, e) /\ e.owner = d.owner /\ e.shown = d.shown
         /\ Quantities(d) => Quantities(e)
         /\ NoneCancelled(d) => NoneCancelledBut(e, o) /\ (s # "cancelled" => NoneCancelled(e))
<1> DEFINE L == [l \in Lines |-> IF l \in LinesOf(o) THEN [d.line[l] EXCEPT !.quantity = q[l]] ELSE d.line[l]]
           O == [d.order EXCEPT ![o] = Observed(d.order[o], s)]
<1>1. e = [d EXCEPT !.order = O, !.line = L]
  BY Fields DEF Seen
<1>2. L \in [Lines -> [product : Products \cup {NoProduct}, quantity : Nat]]
  <2>1. \A l \in Lines : d.line[l] \in [product : Products \cup {NoProduct}, quantity : Nat]
    BY Fields
  <2>2. \A l \in LinesOf(o) : q[l] \in Nat
    OBVIOUS
  <2>3. QED
    BY <2>1, <2>2
<1>3. O \in [Orders -> [status : Status, manual : Manual \cup {"none"}]]
  <2>1. d.order[o] \in [status : Status, manual : Manual \cup {"none"}]
    BY Fields
  <2>2. Observed(d.order[o], s) \in [status : Status, manual : Manual \cup {"none"}]
    BY <2>1 DEF Observed
  <2>3. QED
    BY <2>2, Fields
<1>4. \A l \in Lines : L[l].quantity = IF l \in LinesOf(o) THEN q[l] ELSE d.line[l].quantity
  <2>1. \A l \in Lines : d.line[l] \in [product : Products \cup {NoProduct}, quantity : Nat]
    BY Fields
  <2>2. QED
    BY <2>1
<1>5. O[o] = Observed(d.order[o], s) /\ \A r \in Orders \ {o} : O[r] = d.order[r]
  BY Fields
<1> HIDE DEF L, O
<1>6. /\ e \in Database /\ SameStock(d, e) /\ e.owner = d.owner /\ e.shown = d.shown
      /\ e.order = O /\ e.line = L
  BY <1>1, <1>2, <1>3 DEF Database, SameStock
<1>7. Quantities(d) => Quantities(e)
  BY <1>4, <1>6 DEF Quantities
<1>8. Purchased(e) = Purchased(d)
  BY <1>6 DEF SameStock, Purchased
<1>9. ASSUME NoneCancelled(d), NEW l \in Lines, IsCancelled(e, OrderOf[l]), OrderOf[l] # o \/ s # "cancelled"
      PROVE  IsCancelled(d, OrderOf[l])
  <2>1. CASE OrderOf[l] # o
    BY <1>5, <1>6, <1>9, <2>1, OrderOfType DEF IsCancelled
  <2>2. CASE OrderOf[l] = o /\ s # "cancelled"
    <3>1. e.order[o].status = s /\ (e.order[o].manual = "cancelled" => d.order[o].manual = "cancelled")
      BY <1>5, <1>6 DEF Observed
    <3>2. QED
      BY <1>9, <2>2, <3>1 DEF IsCancelled
  <2>3. QED
    BY <1>9, <2>1, <2>2
<1>10. ASSUME NoneCancelled(d) PROVE NoneCancelledBut(e, o)
  BY <1>6, <1>8, <1>9, <1>10 DEF NoneCancelled, NoneCancelledBut, SameStock
<1>11. ASSUME NoneCancelled(d), s # "cancelled" PROVE NoneCancelled(e)
  BY <1>6, <1>8, <1>9, <1>11 DEF NoneCancelled, SameStock
<1>12. QED
  BY <1>6, <1>7, <1>10, <1>11

\* Linking lines to cards.
LEMMA LinkedKeeps ==
  ASSUME NEW d \in Database, NEW found, NEW e, e = Linked(d, found)
  PROVE  /\ e \in Database /\ SameStock(d, e) /\ e.owner = d.owner /\ e.shown = d.shown
         /\ e.order = d.order
         /\ Quantities(d) => Quantities(e)
         /\ NoneCancelled(d) => NoneCancelled(e)
<1> DEFINE L == [l \in Lines |-> IF l \in found /\ d.line[l].product = NoProduct
                                 THEN [d.line[l] EXCEPT !.product = Matches[l]] ELSE d.line[l]]
<1>1. e = [d EXCEPT !.line = L]
  BY DEF Linked
<1>2. \A l \in Lines : d.line[l] \in [product : Products \cup {NoProduct}, quantity : Nat]
  BY Fields
<1>3. L \in [Lines -> [product : Products \cup {NoProduct}, quantity : Nat]]
  BY <1>2, OrderOfType
<1>4. \A l \in Lines : L[l].quantity = d.line[l].quantity
  BY <1>2
<1> HIDE DEF L
<1>5. /\ e \in Database /\ SameStock(d, e) /\ e.owner = d.owner /\ e.shown = d.shown
      /\ e.order = d.order /\ e.line = L
  BY <1>1, <1>3 DEF Database, SameStock
<1>6. Quantities(d) => Quantities(e)
  BY <1>4, <1>5 DEF Quantities
<1>7. NoneCancelled(d) => NoneCancelled(e)
  BY <1>5 DEF NoneCancelled, IsCancelled, SameStock, Purchased
<1>8. QED
  BY <1>5, <1>6, <1>7

\* A manual stage is kept for orders on their way in only.
StagesFit(d) ==
  \A o \in Orders : d.order[o].manual # "none" => d.order[o].status \in Incoming

\* What an import writes of an order moves no returned unit.
LEMMA SeenYields ==
  ASSUME NEW d \in Database, NEW o \in Orders, NEW s \in Reported(o, d.order[o].status),
         s \in Status, NEW q \in [LinesOf(o) -> Nat], \A l \in LinesOf(o) : q[l] \in Demand[l],
         NEW e, e = Seen(d, o, s, q)
  PROVE  /\ Yields(d, e) /\ (StagesFit(d) => StagesFit(e))
         /\ s = "cancelled" => \A l \in LinesOf(o) : ~Resting(e, l)
<1>1. e \in Database /\ SameStock(d, e)
  BY SeenKeeps
<1>2. /\ e.order[o] = Observed(d.order[o], s)
      /\ \A r \in Orders \ {o} : e.order[r] = d.order[r]
  <2>1. e.order = [d.order EXCEPT ![o] = Observed(d.order[o], s)]
    <3>1. e.order = [d EXCEPT !.order = [d.order EXCEPT ![o] = Observed(d.order[o], s)]].order
      BY Fields DEF Seen
    <3>2. QED
      BY <3>1 DEF Database
  <2>2. QED
    BY <2>1, Fields
<1>3. d.order[o] \in [status : Status, manual : Manual \cup {"none"}]
  BY Fields
<1>4. e.order[o].status = s
  BY <1>2 DEF Observed
<1>5. e.order[o].manual = "none" \/ (e.order[o].manual = d.order[o].manual /\ s = d.order[o].status)
  BY <1>2 DEF Observed
<1>6. d.order[o].status = "returned" => s = "returned"
  BY DEF Reported
<1>7. ASSUME NEW l \in Lines, Resting(d, l) PROVE Resting(e, l)
  <2>1. CASE OrderOf[l] = o
    BY <1>4, <1>5, <1>6, <1>7, <2>1 DEF Resting
  <2>2. CASE OrderOf[l] # o
    BY <1>2, <1>7, <2>2, OrderOfType DEF Resting
  <2>3. QED
    BY <2>1, <2>2
<1>8. \A l \in Lines, b \in Batches : d.alloc[l][b] \in Nat
  BY Fields
<1>9. Yields(d, e)
  BY <1>1, <1>7, <1>8 DEF Yields, SameStock
<1>10. StagesFit(d) => StagesFit(e)
  BY <1>2, <1>4, <1>5 DEF StagesFit
<1>11. s = "cancelled" => \A l \in LinesOf(o) : ~Resting(e, l)
  BY <1>4 DEF LinesOf, Resting
<1>12. QED
  BY <1>9, <1>10, <1>11

\* The pools an import has taken from are the ones it tells the feed about.
LEMMA ServedStock ==
  ASSUME NEW d \in Database, NEW o, NEW e, e = Allocate(d, LinesOf(o)), Told(d, {})
  PROVE  Told(e, Touched(d, e, o))
<1> DEFINE need == Needs(d, LinesOf(o))
<1>1. need \in [Lines -> Nat] /\ e = Serve(d, need) /\ \A l \in Lines : need[l] > 0 => l \in LinesOf(o)
  BY NeedsType DEF Allocate
<1> HIDE DEF need
<1>2. e \in Database /\ SameOrders(d, e)
  BY <1>1, ServeFields
<1>3. ASSUME NEW b \in Batches, Taken(d, need, b) > 0 PROVE d.batch[b].owner \in Touched(d, e, o)
  <2>1. PICK l \in Lines : /\ need[l] > 0 /\ Owner(d, d.line[l].product) = d.batch[b].owner
                           /\ Given(d, need)[l][b] > 0
    BY <1>1, <1>3, TakenIs
  <2>2. e.alloc[l][b] = d.alloc[l][b] + Given(d, need)[l][b] /\ d.alloc[l][b] \in Nat
        /\ Given(d, need)[l][b] \in Nat
    BY <1>1, ServeFields, Fields, GivenType
  <2>3. e.alloc[l] # d.alloc[l]
    BY <2>1, <2>2
  <2>4. Owner(e, e.line[l].product) = Owner(d, d.line[l].product)
    BY <1>2 DEF SameOrders, Owner
  <2>5. QED
    BY <1>1, <2>1, <2>3, <2>4 DEF Touched
<1>4. Told(d, Touched(d, e, o))
  BY ToldLess
<1>5. QED
  BY <1>1, <1>3, <1>4, ServeStock

LEMMA ShowTold ==
  ASSUME NEW d \in Database, NEW owners, Told(d, owners)
  PROVE  Told(Show(d, owners), {})
<1>1. Told(Show(d, owners), owners \ owners)
  BY ShowKeeps
<1>2. owners \ owners = {}
  OBVIOUS
<1>3. QED
  BY <1>1, <1>2

-----------------------------------------------------------------------------
\* One lemma per transaction: what it commits is sound.
LEMMA ImportKeeps ==
  ASSUME StockInv, NEW o \in Orders, Import(o)
  PROVE  /\ Sound(db', cut) /\ (NoneCancelled(db) => NoneCancelled(db'))
         /\ Orderly(db, db') /\ (StagesFit(db) => StagesFit(db'))
<1>1. PICK s \in Reported(o, db.order[o].status),
           q \in {f \in [LinesOf(o) -> UNION {Demand[l] : l \in LinesOf(o)}] :
                    \A l \in LinesOf(o) : f[l] \in Demand[l]},
           found \in SUBSET {l \in LinesOf(o) : db.line[l].product = NoProduct} :
        LET seen == Seen(db, o, s, q)
            linked == Linked(IF s = "cancelled" THEN Release(seen, o) ELSE seen, found)
            served == Allocate(linked, LinesOf(o))
        IN db' = Show(served, Touched(linked, served, o))
  BY DEF Import, Commit
<1> DEFINE seen == Seen(db, o, s, q)
           freed == IF s = "cancelled" THEN Release(seen, o) ELSE seen
           linked == Linked(freed, found)
           served == Allocate(linked, LinesOf(o))
           done == Show(served, Touched(linked, served, o))
<1>2. db' = done
  BY <1>1
<1>3. /\ db \in Database /\ Quantities(db) /\ TwoLevel(db) /\ HereIsBought(db)
      /\ Balanced(db, cut) /\ Told(db, {}) /\ Sound(db, cut)
  BY DEF StockInv, Sound
<1>4. s \in Status
  <2>1. Reported(o, db.order[o].status) \subseteq Status
    BY InventoryAssumption DEF Reported, Status, Incoming, Handed, Terminal
  <2>2. QED
    BY <2>1
<1>5. q \in [LinesOf(o) -> Nat] /\ \A l \in LinesOf(o) : q[l] \in Demand[l]
  <2>1. LinesOf(o) \subseteq Lines /\ \A l \in Lines : Demand[l] \subseteq Nat
    BY InventoryAssumption DEF LinesOf
  <2>2. QED
    BY <2>1
<1> HIDE DEF done
<1>6. /\ seen \in Database /\ SameStock(db, seen) /\ seen.owner = db.owner /\ seen.shown = db.shown
      /\ Quantities(seen)
      /\ NoneCancelled(db) => NoneCancelledBut(seen, o) /\ (s # "cancelled" => NoneCancelled(seen))
  BY <1>3, <1>4, <1>5, SeenKeeps
<1>20. /\ Yields(db, seen) /\ (StagesFit(db) => StagesFit(seen))
       /\ s = "cancelled" => \A l \in LinesOf(o) : ~Resting(seen, l)
  BY <1>3, <1>4, <1>5, SeenYields
<1> HIDE DEF seen
<1>7. Sound(seen, cut)
  BY <1>3, <1>6, SameStockSound
<1>8. /\ freed \in Database /\ Sound(freed, cut) /\ (NoneCancelled(db) => NoneCancelled(freed))
      /\ Yields(seen, freed) /\ freed.order = seen.order
  <2>1. CASE s = "cancelled"
    <3> DEFINE r == Release(seen, o)
    <3>1. /\ r \in Database /\ SameRows(seen, r) /\ SameOrders(seen, r)
          /\ TwoLevel(seen) => TwoLevel(r)
          /\ HereIsBought(seen) => HereIsBought(r)
          /\ \A excepted : Balanced(seen, excepted) => Balanced(r, excepted)
          /\ NoneCancelledBut(seen, o) => NoneCancelled(r)
          /\ \A untold : Told(seen, untold) => Told(r, untold)
          /\ Yields(seen, r)
      BY <1>6, <1>20, <2>1, ReleaseKeeps
    <3>2. freed = r
      BY <2>1
    <3> HIDE DEF r, freed
    <3>3. QED
      BY <1>6, <1>7, <3>1, <3>2 DEF Sound, SameOrders, Quantities
  <2>2. CASE s # "cancelled"
    BY <1>6, <1>7, <2>2, YieldsIs
  <2>3. QED
    BY <2>1, <2>2
<1> HIDE DEF freed
<1>9. /\ linked \in Database /\ SameStock(freed, linked) /\ linked.owner = freed.owner
      /\ linked.shown = freed.shown /\ (Quantities(freed) => Quantities(linked))
      /\ NoneCancelled(freed) => NoneCancelled(linked)
      /\ linked.order = freed.order
  BY <1>8, LinkedKeeps
<1> HIDE DEF linked
<1>10. Sound(linked, cut)
  BY <1>8, <1>9, SameStockSound DEF Sound
<1>11. /\ served \in Database /\ SameOrders(linked, served) /\ Keeps(linked, served)
       /\ Orderly(linked, served)
  BY <1>9, AllocateKeeps, AllocateOrderly
<1>12. Told(served, Touched(linked, served, o))
  BY <1>9, <1>10, ServedStock DEF Sound
<1> HIDE DEF served
<1> DEFINE owners == Touched(linked, served, o)
<1>13. done = Show(served, owners) /\ Told(served, owners)
  BY <1>12 DEF done
<1> HIDE DEF owners
<1>14. /\ done \in Database /\ SameOrders(served, done) /\ Keeps(served, done)
       /\ Orderly(linked, done)
  BY <1>11, <1>13, ShowKeeps, OrderlyShow
<1>15. Told(done, {})
  BY <1>11, <1>13, ShowTold
<1>16. Keeps(linked, done) /\ SameOrders(linked, done)
  BY <1>11, <1>14, KeepsTrans
<1>17. Sound(done, cut)
  BY <1>10, <1>14, <1>15, <1>16, KeepsSound DEF Sound
<1>18. NoneCancelled(db) => NoneCancelled(done)
  BY <1>8, <1>9, <1>16 DEF Keeps
<1>19. Orderly(db, done)
  <2>1. Yields(freed, linked)
    BY <1>8, <1>9, YieldsIs DEF SameStock
  <2>2. Yields(db, freed)
    BY <1>3, <1>6, <1>8, <1>20, YieldsIs
  <2>3. Yields(db, linked)
    BY <1>3, <1>8, <1>9, <2>1, <2>2, YieldsIs
  <2>4. QED
    BY <1>3, <1>9, <1>14, <2>3, YieldsIs
<1>21. StagesFit(db) => StagesFit(done)
  BY <1>8, <1>9, <1>16, <1>20 DEF StagesFit, SameOrders
<1>22. QED
  BY <1>2, <1>17, <1>18, <1>19, <1>21

LEMMA OverrideKeeps ==
  ASSUME StockInv, NEW o \in Orders, Override(o)
  PROVE  /\ Sound(db', cut) /\ (NoneCancelled(db) => NoneCancelled(db'))
         /\ Orderly(db, db') /\ (StagesFit(db) => StagesFit(db'))
<1>1. PICK stage \in Manual \cup {"none"} :
        /\ db' = IF stage = "cancelled" THEN Release([db EXCEPT !.order[o].manual = stage], o)
                 ELSE RebuildOrder([db EXCEPT !.order[o].manual = stage], o)
        /\ stage # "none" => db.order[o].status \in Incoming
  BY DEF Override, Commit
<1> DEFINE set == [db EXCEPT !.order[o].manual = stage]
<1>2. /\ db \in Database /\ Quantities(db) /\ TwoLevel(db) /\ HereIsBought(db)
      /\ Balanced(db, cut) /\ Told(db, {}) /\ Sound(db, cut)
  BY DEF StockInv, Sound
<1>3. /\ set \in Database /\ SameStock(db, set) /\ set.owner = db.owner /\ set.shown = db.shown
      /\ set.line = db.line
      /\ \A r \in Orders : /\ set.order[r].status = db.order[r].status
                           /\ set.order[r].manual = IF r = o THEN stage ELSE db.order[r].manual
  <2>1. db.order \in [Orders -> [status : Status, manual : Manual \cup {"none"}]]
    BY <1>2, Fields
  <2> DEFINE O == [db.order EXCEPT ![o] = [db.order[o] EXCEPT !.manual = stage]]
  <2>2. O \in [Orders -> [status : Status, manual : Manual \cup {"none"}]]
    BY <2>1
  <2>3. \A r \in Orders : /\ O[r].status = db.order[r].status
                          /\ O[r].manual = IF r = o THEN stage ELSE db.order[r].manual
    BY <2>1
  <2>4. set = [db EXCEPT !.order = O]
    BY <1>2, <2>1
  <2> HIDE DEF O, set
  <2>5. QED
    BY <1>2, <2>2, <2>3, <2>4 DEF Database, SameStock
<1> HIDE DEF set
<1>4. Sound(set, cut) /\ Quantities(set)
  <2>1. Quantities(set)
    BY <1>2, <1>3 DEF Quantities
  <2>2. QED
    BY <1>2, <1>3, <2>1, SameStockSound
<1>5. \A l \in Lines : /\ IsCancelled(set, OrderOf[l]) /\ (OrderOf[l] # o \/ stage # "cancelled")
                            => IsCancelled(db, OrderOf[l])
  BY <1>3, OrderOfType DEF IsCancelled
<1>6. Purchased(set) = Purchased(db)
  BY <1>3 DEF SameStock, Purchased
<1>7. NoneCancelled(db) => NoneCancelledBut(set, o) /\ (stage # "cancelled" => NoneCancelled(set))
  BY <1>3, <1>5, <1>6 DEF NoneCancelled, NoneCancelledBut, SameStock
<1>11. StagesFit(db) => StagesFit(set)
  BY <1>1, <1>3 DEF StagesFit
<1>12. ASSUME NEW l \in Lines, Resting(db, l) PROVE Resting(set, l)
  BY <1>1, <1>3, <1>12, OrderOfType DEF Resting, Incoming
<1>13. Yields(db, set)
  <2>1. \A l \in Lines, b \in Batches : db.alloc[l][b] \in Nat
    BY <1>2, Fields
  <2>2. QED
    BY <1>3, <1>12, <2>1 DEF Yields, SameStock
<1>8. CASE stage = "cancelled"
  <2> DEFINE r == Release(set, o)
  <2>1. /\ r \in Database /\ SameRows(set, r) /\ SameOrders(set, r)
        /\ TwoLevel(set) => TwoLevel(r)
        /\ HereIsBought(set) => HereIsBought(r)
        /\ \A excepted : Balanced(set, excepted) => Balanced(r, excepted)
        /\ NoneCancelledBut(set, o) => NoneCancelled(r)
        /\ \A untold : Told(set, untold) => Told(r, untold)
        /\ Yields(set, r)
    <3>1. \A l \in LinesOf(o) : ~Resting(set, l)
      BY <1>3, <1>8 DEF LinesOf, Resting
    <3>2. QED
      BY <1>3, <3>1, ReleaseKeeps
  <2>2. db' = r
    BY <1>1, <1>8 DEF set
  <2> HIDE DEF r
  <2>3. Orderly(db, r)
    BY <1>2, <1>3, <1>13, <2>1, YieldsIs
  <2>4. StagesFit(db) => StagesFit(r)
    BY <1>11, <2>1 DEF StagesFit, SameOrders
  <2>5. QED
    BY <1>4, <1>7, <2>1, <2>2, <2>3, <2>4 DEF Sound, SameOrders, Quantities
<1>9. CASE stage # "cancelled"
  <2> DEFINE owners == {Owner(set, set.line[l].product) :
                          l \in {k \in LinesOf(o) : set.line[k].product # NoProduct}}
             e == RebuildAll(set, owners)
  <2>1. db' = e
    BY <1>1, <1>9 DEF set, RebuildOrder
  <2>2. owners \subseteq Products /\ \A p \in owners : Owner(set, p) = p
    <3>1. ASSUME NEW l \in LinesOf(o), set.line[l].product # NoProduct
          PROVE  set.line[l].product \in Products
      <4>1. l \in Lines
        BY <3>1 DEF LinesOf
      <4>2. set.line[l] \in [product : Products \cup {NoProduct}, quantity : Nat]
        BY <1>3, <4>1, Fields
      <4>3. QED
        BY <3>1, <4>2
    <3>2. set.owner \in [Products -> Products] /\ \A p \in Products : Owner(set, Owner(set, p)) = Owner(set, p)
      BY <1>3, <1>4, Fields DEF Sound, TwoLevel
    <3>3. QED
      BY <3>1, <3>2 DEF Owner
  <2>3. Told(set, owners)
    BY <1>4, ToldLess DEF Sound
  <2> HIDE DEF owners
  <2>4. /\ e \in Database /\ SameOrders(set, e) /\ Keeps(set, e)
        /\ Told(set, owners) => Told(e, {})
        /\ Orderly(set, e)
    BY <1>3, <1>4, <2>2, RebuildAllKeeps DEF Sound
  <2> HIDE DEF e
  <2>5. Sound(e, cut)
    BY <1>4, <2>3, <2>4, KeepsSound DEF Sound
  <2>6. Orderly(db, e)
    BY <1>2, <1>3, <1>13, <2>4, YieldsIs
  <2>7. StagesFit(db) => StagesFit(e)
    BY <1>11, <2>4 DEF StagesFit, SameOrders
  <2>8. QED
    BY <1>7, <1>9, <2>1, <2>4, <2>5, <2>6, <2>7 DEF Keeps
<1>10. QED
  BY <1>8, <1>9

LEMMA RelinkKeeps ==
  ASSUME StockInv, NEW l \in Lines, Relink(l)
  PROVE  /\ Sound(db', cut) /\ (NoneCancelled(db) => NoneCancelled(db'))
         /\ Orderly(db, db') /\ db'.order = db.order
<1>1. PICK p \in Products \cup {NoProduct} : db' = [db EXCEPT !.line[l].product = p]
  BY DEF Relink, Edit
<1> DEFINE L == [db.line EXCEPT ![l] = [db.line[l] EXCEPT !.product = p]]
           e == [db EXCEPT !.line = L]
<1>2. db \in Database /\ Sound(db, cut) /\ Quantities(db)
  BY DEF StockInv, Sound
<1>3. db.line \in [Lines -> [product : Products \cup {NoProduct}, quantity : Nat]]
  BY <1>2, Fields
<1>4. db' = e
  BY <1>1, <1>2, <1>3
<1>5. /\ L \in [Lines -> [product : Products \cup {NoProduct}, quantity : Nat]]
      /\ \A k \in Lines : L[k].quantity = db.line[k].quantity
  BY <1>3
<1> HIDE DEF L
<1>6. /\ e \in Database /\ SameStock(db, e) /\ e.owner = db.owner /\ e.shown = db.shown
      /\ e.order = db.order /\ e.line = L
  BY <1>2, <1>5 DEF Database, SameStock
<1> HIDE DEF e
<1>7. Quantities(e)
  BY <1>2, <1>5, <1>6 DEF Quantities
<1>8. Sound(e, cut)
  BY <1>2, <1>6, <1>7, SameStockSound
<1>9. NoneCancelled(db) => NoneCancelled(e)
  BY <1>6 DEF NoneCancelled, IsCancelled, SameStock, Purchased
<1>10. Orderly(db, e)
  BY <1>2, <1>6, YieldsIs DEF SameStock
<1>11. QED
  BY <1>4, <1>6, <1>8, <1>9, <1>10

-----------------------------------------------------------------------------
\* The row of a batch is written.
Written(d, b, row) == [d EXCEPT !.batch[b] = row]

LEMMA RowWritten ==
  ASSUME NEW d \in Database, NEW b \in Batches, NEW row \in Batch \cup {NoBatch},
         NEW e, e = Written(d, b, row)
  PROVE  /\ e \in Database /\ e.alloc = d.alloc /\ SameOrders(d, e) /\ e.shown = d.shown
         /\ e.batch[b] = row /\ \A c \in Batches \ {b} : e.batch[c] = d.batch[c]
<1> DEFINE B == [d.batch EXCEPT ![b] = row]
<1>1. d.batch \in [Batches -> Batch \cup {NoBatch}]
  BY Fields
<1>2. e = [d EXCEPT !.batch = B]
  BY <1>1 DEF Written
<1>3. /\ B \in [Batches -> Batch \cup {NoBatch}]
      /\ B[b] = row /\ \A c \in Batches \ {b} : B[c] = d.batch[c]
  BY <1>1
<1> HIDE DEF B
<1>4. QED
  BY <1>2, <1>3 DEF Database, SameOrders

\* The other batches stay as they are, and so do the pools that neither gain
\* nor lose units by it.
LEMMA RowWrittenRest ==
  ASSUME NEW d \in Database, NEW e \in Database, NEW b \in Batches, SameOrders(d, e),
         e.shown = d.shown, \A c \in Batches \ {b} : e.batch[c] = d.batch[c],
         \A c \in Batches \ {b} : OfBatch(e, c) = OfBatch(d, c)
  PROVE  /\ \A c \in Batches \ {b} : /\ Sparing(d, c) => Sparing(e, c)
                                     /\ Even(d, c) => Even(e, c)
         /\ \A untold : /\ Told(d, untold)
                        /\ Exists(d, b) => d.batch[b].owner \in untold
                        /\ Exists(e, b) => e.batch[b].owner \in untold
                        => Told(e, untold)
         /\ TwoLevel(d) /\ (Exists(e, b) => Owner(d, e.batch[b].owner) = e.batch[b].owner)
              => TwoLevel(e)
         /\ HereIsBought(d) /\ (Exists(e, b) /\ e.batch[b].here => e.batch[b].kind = "purchase")
              => HereIsBought(e)
<1>1. \A c \in Batches \ {b} : Exists(e, c) <=> Exists(d, c)
  BY DEF Exists
<1>2. ASSUME NEW c \in Batches \ {b} PROVE (Sparing(d, c) => Sparing(e, c)) /\ (Even(d, c) => Even(e, c))
  <2>1. (Exists(e, c) <=> Exists(d, c)) /\ e.batch[c] = d.batch[c] /\ OfBatch(e, c) = OfBatch(d, c)
    BY <1>1
  <2>2. QED
    BY <2>1 DEF Sparing, Even
<1>3. ASSUME NEW untold, Told(d, untold), Exists(d, b) => d.batch[b].owner \in untold,
             Exists(e, b) => e.batch[b].owner \in untold,
             NEW p \in Products, Owner(e, p) \notin untold
      PROVE  e.shown[p] = Stock(e, Owner(e, p))
  <2> DEFINE q == Owner(d, p)
  <2>1. Owner(e, p) = q
    BY DEF SameOrders, Owner
  <2>2. b \notin Shelf(d, q) /\ b \notin Shelf(e, q)
    BY <1>3, <2>1, ShelfRow
  <2>3. Shelf(e, q) = Shelf(d, q)
    BY <2>2 DEF Shelf, Purchased
  <2>4. \A c \in Shelf(d, q) : e.batch[c].left = d.batch[c].left
    BY <2>2, ShelfRow
  <2>5. Stock(e, q) = Stock(d, q)
    BY <2>3, <2>4, StockSame
  <2>6. QED
    BY <1>3, <2>1, <2>5 DEF Told
<1>4. TwoLevel(d) /\ (Exists(e, b) => Owner(d, e.batch[b].owner) = e.batch[b].owner) => TwoLevel(e)
  BY <1>1 DEF TwoLevel, SameOrders, Owner
<1>5. HereIsBought(d) /\ (Exists(e, b) /\ e.batch[b].here => e.batch[b].kind = "purchase")
        => HereIsBought(e)
  BY <1>1 DEF HereIsBought
<1>6. QED
  BY <1>2, <1>3, <1>4, <1>5 DEF Told

\* A batch of which nothing is allocated.
LEMMA NothingOf ==
  ASSUME NEW d \in Database, NEW b \in Batches
  PROVE  OfBatch(d, b) = 0 <=> \A l \in Lines : d.alloc[l][b] = 0
<1> DEFINE f == [l \in Lines |-> d.alloc[l][b]]
<1>1. f \in [Lines -> Nat] /\ OfBatch(d, b) = Total(f)
  BY Fields DEF OfBatch
<1>2. \A l \in Lines : f[l] = d.alloc[l][b]
  OBVIOUS
<1> HIDE DEF f
<1>3. QED
  BY <1>1, <1>2, TotalZero, Finite

\* A batch that becomes a purchase has no units allocated.
LEMMA NoneCancelledRow ==
  ASSUME NEW d \in Database, NEW e \in Database, NEW b \in Batches, SameOrders(d, e),
         e.alloc = d.alloc, \A c \in Batches \ {b} : e.batch[c] = d.batch[c],
         b \in Purchased(d) \/ b \notin Purchased(e) \/ OfBatch(d, b) = 0,
         NoneCancelled(d)
  PROVE  NoneCancelled(e)
<1> SUFFICES ASSUME NEW l \in Lines, IsCancelled(e, OrderOf[l]), NEW c \in Purchased(e)
             PROVE  e.alloc[l][c] = 0
  BY DEF NoneCancelled
<1>1. IsCancelled(d, OrderOf[l]) /\ c \in Batches
  BY DEF SameOrders, IsCancelled, Purchased
<1>2. CASE c \in Purchased(d)
  BY <1>1, <1>2 DEF NoneCancelled
<1>3. CASE c \notin Purchased(d)
  <2>1. c = b
    BY <1>1, <1>3 DEF Purchased
  <2>2. OfBatch(d, b) = 0
    BY <1>3, <2>1
  <2>3. QED
    BY <2>1, <2>2, NothingOf
<1>4. QED
  BY <1>2, <1>3

\* A batch that is received serves lines of its own pool only.
LEMMA ReconcileKeeps ==
  ASSUME NEW d \in Database, NEW b \in Batches, NEW own, own = d.batch[b].owner,
         Owner(d, own) = own, NEW e, e = Reconcile(d, b)
  PROVE  /\ e \in Database /\ SameRows(d, e) /\ SameOrders(d, e) /\ Keeps(d, e)
         /\ Told(d, {own}) => Told(e, {own})
         /\ Orderly(d, e)
<1>1. PICK S \in SUBSET Waiting(d, own) : e = Allocate(d, S)
  BY DEF Reconcile
<1>2. \A l \in S : Owner(d, d.line[l].product) = own
  BY DEF Waiting, Group
<1>3. /\ e \in Database /\ SameRows(d, e) /\ SameOrders(d, e) /\ Keeps(d, e)
  BY <1>1, AllocateKeeps
<1>4. Told(d, {own}) => Told(e, {own})
  BY <1>1, <1>2, AllocateStock
<1>5. Orderly(d, e)
  BY <1>1, AllocateOrderly
<1>6. QED
  BY <1>3, <1>4, <1>5

\* The operations on batches.
LEMMA AddBatchKeeps ==
  ASSUME StockInv, NEW p \in Products, AddBatch(p)
  PROVE  /\ Sound(db', cut) /\ (NoneCancelled(db) => NoneCancelled(db'))
         /\ Orderly(db, db') /\ db'.order = db.order
<1>1. PICK b \in {c \in Batches : ~Exists(db, c)}, kind \in Kinds, n \in Amounts,
           t \in Times, here \in BOOLEAN :
        /\ here => kind = "purchase"
        /\ \E done \in Created(p, b, kind, n, t, here) : db' = Show(done, {Owner(db, p)})
  BY DEF AddBatch, Commit
<1> DEFINE own == Owner(db, p)
           row == [kind |-> kind, owner |-> own, at |-> t, got |-> n,
                   left |-> IF here THEN n ELSE 0, here |-> here]
           stored == [db EXCEPT !.batch[b] = row]
<1>2. PICK done \in {stored} \cup {Reconcile(stored, b)} : db' = Show(done, {own})
  BY <1>1 DEF Created
<1>3. /\ db \in Database /\ Quantities(db) /\ TwoLevel(db) /\ HereIsBought(db)
      /\ Balanced(db, cut) /\ Told(db, {}) /\ Sound(db, cut)
  BY DEF StockInv, Sound
<1>4. own \in Products /\ Owner(db, own) = own
  BY <1>3, Fields DEF TwoLevel, Owner
<1>5. n \in Nat \ {0} /\ t \in Nat
  BY InventoryAssumption
<1> HIDE DEF own
<1>6. /\ row \in Batch /\ row.owner = own /\ row.here = here /\ row.kind = kind /\ row.got = n
      /\ row.left = IF here THEN n ELSE 0
  BY <1>4, <1>5 DEF Batch
<1> HIDE DEF row
<1>61. stored = Written(db, b, row)
  BY DEF Written
<1> HIDE DEF stored
<1>7. /\ stored \in Database /\ stored.alloc = db.alloc /\ SameOrders(db, stored)
      /\ stored.shown = db.shown
      /\ stored.batch[b] = row /\ \A c \in Batches \ {b} : stored.batch[c] = db.batch[c]
  BY <1>3, <1>6, <1>61, RowWritten
<1>8. \A c \in Batches : OfBatch(stored, c) = OfBatch(db, c)
  BY <1>7, OfBatchSame
<1>9. Exists(stored, b) /\ ~Exists(db, b) /\ OfBatch(db, b) = 0
  <2>1. row # NoBatch
    BY <1>6 DEF NoBatch, Kinds
  <2>2. QED
    BY <1>3, <1>7, <2>1 DEF Exists, Balanced, Sparing
<1>10. /\ \A c \in Batches \ {b} : /\ Sparing(db, c) => Sparing(stored, c)
                                   /\ Even(db, c) => Even(stored, c)
       /\ Told(stored, {own}) /\ TwoLevel(stored) /\ HereIsBought(stored)
  <2>1. Told(db, {own})
    BY <1>3, ToldLess
  <2>2. QED
    BY <1>1, <1>3, <1>4, <1>6, <1>7, <1>8, <1>9, <2>1, RowWrittenRest
<1>11. Sparing(stored, b) /\ Even(stored, b)
  BY <1>5, <1>6, <1>7, <1>8, <1>9 DEF Sparing, Even
<1>12. Balanced(stored, cut)
  BY <1>3, <1>10, <1>11 DEF Balanced
<1>13. NoneCancelled(db) => NoneCancelled(stored)
  BY <1>3, <1>7, <1>9, NoneCancelledRow
<1>14. /\ done \in Database /\ SameOrders(stored, done) /\ Keeps(stored, done) /\ Told(done, {own})
       /\ Orderly(stored, done)
  <2>1. CASE done = stored
    BY <1>7, <1>10, <2>1, YieldsIs DEF SameOrders, Keeps
  <2>2. CASE done = Reconcile(stored, b)
    <3>1. own = stored.batch[b].owner /\ Owner(stored, own) = own
      BY <1>4, <1>6, <1>7 DEF SameOrders, Owner
    <3>2. QED
      BY <1>7, <1>10, <2>2, <3>1, ReconcileKeeps
  <2>3. QED
    BY <2>1, <2>2
<1> DEFINE e == Show(done, {own})
<1>15. e \in Database /\ SameOrders(done, e) /\ Keeps(done, e) /\ Told(e, {})
  BY <1>14, ShowKeeps, ShowTold
<1> HIDE DEF e
<1>16. SameOrders(stored, e) /\ Keeps(stored, e)
  BY <1>14, <1>15, KeepsTrans
<1>17. Quantities(stored)
  BY <1>3, <1>7 DEF Quantities, SameOrders
<1>18. Sound(e, cut)
  BY <1>10, <1>12, <1>15, <1>16, <1>17, KeepsSound
<1>19. NoneCancelled(db) => NoneCancelled(e)
  BY <1>13, <1>16 DEF Keeps
<1>20. Orderly(db, e) /\ e.order = db.order
  <2>1. Orderly(stored, e)
    BY <1>14, OrderlyShow DEF e
  <2>2. Yields(db, stored)
    BY <1>3, <1>7, YieldsIs DEF SameOrders
  <2>3. QED
    BY <1>3, <1>7, <1>15, <1>16, <2>1, <2>2, YieldsIs DEF SameOrders
<1>21. QED
  BY <1>2, <1>18, <1>19, <1>20 DEF e

LEMMA ReceiveBatchKeeps ==
  ASSUME StockInv, NEW b \in Batches, ReceiveBatch(b)
  PROVE  /\ Sound(db', cut) /\ (NoneCancelled(db) => NoneCancelled(db'))
         /\ Orderly(db, db') /\ db'.order = db.order
<1> DEFINE own == db.batch[b].owner
           row == [db.batch[b] EXCEPT !.here = TRUE, !.at = Now, !.left = db.batch[b].got]
           stored == [db EXCEPT !.batch[b] = row]
           done == Reconcile(stored, b)
           e == Show(done, {own})
<1>1. db' = e /\ b \in Purchased(db) /\ ~db.batch[b].here
  BY DEF ReceiveBatch, Commit, Arrived
<1>2. /\ db \in Database /\ Quantities(db) /\ TwoLevel(db) /\ HereIsBought(db)
      /\ Balanced(db, cut) /\ Told(db, {}) /\ Sound(db, cut)
  BY DEF StockInv, Sound
<1>3. /\ db.batch[b] \in Batch /\ Exists(db, b) /\ db.batch[b].kind = "purchase"
      /\ Owner(db, own) = own
  BY <1>1, <1>2, RowOf DEF TwoLevel
<1>4. OfBatch(db, b) = 0
  BY <1>1, <1>2, <1>3 DEF Balanced, Sparing
<1>5. /\ row \in Batch /\ row.owner = own /\ row.here /\ row.kind = "purchase"
      /\ row.got = db.batch[b].got /\ row.left = db.batch[b].got /\ db.batch[b].got \in Nat
      /\ row.kind \in Kinds
  <2>1. Now \in Nat
    BY InventoryAssumption
  <2>2. QED
    BY <1>3, <2>1 DEF Batch
<1> HIDE DEF own, row
<1>6. stored = Written(db, b, row)
  BY DEF Written
<1> HIDE DEF stored
<1>7. /\ stored \in Database /\ stored.alloc = db.alloc /\ SameOrders(db, stored)
      /\ stored.shown = db.shown
      /\ stored.batch[b] = row /\ \A c \in Batches \ {b} : stored.batch[c] = db.batch[c]
  BY <1>2, <1>5, <1>6, RowWritten
<1>8. \A c \in Batches : OfBatch(stored, c) = OfBatch(db, c)
  BY <1>7, OfBatchSame
<1>9. Exists(stored, b)
  BY <1>5, <1>7 DEF Exists, NoBatch, Kinds
<1>10. /\ \A c \in Batches \ {b} : /\ Sparing(db, c) => Sparing(stored, c)
                                   /\ Even(db, c) => Even(stored, c)
       /\ Told(stored, {own}) /\ TwoLevel(stored) /\ HereIsBought(stored)
  <2>1. Told(db, {own}) /\ db.batch[b].owner = own
    BY <1>2, ToldLess DEF own
  <2>2. QED
    BY <1>2, <1>3, <1>5, <1>7, <1>8, <2>1, RowWrittenRest
<1>11. Sparing(stored, b) /\ Even(stored, b)
  BY <1>4, <1>5, <1>7, <1>8, <1>9 DEF Sparing, Even
<1>12. Balanced(stored, cut)
  BY <1>2, <1>10, <1>11 DEF Balanced
<1>13. NoneCancelled(db) => NoneCancelled(stored)
  BY <1>1, <1>2, <1>7, NoneCancelledRow
<1>14. own = stored.batch[b].owner /\ Owner(stored, own) = own
  BY <1>3, <1>5, <1>7 DEF SameOrders, Owner
<1>15. /\ done \in Database /\ SameOrders(stored, done) /\ Keeps(stored, done) /\ Told(done, {own})
       /\ Orderly(stored, done)
  BY <1>7, <1>10, <1>14, ReconcileKeeps
<1> HIDE DEF done
<1>16. /\ e \in Database /\ SameOrders(done, e) /\ Keeps(done, e) /\ Told(e, {})
       /\ Orderly(stored, e)
  BY <1>15, ShowKeeps, ShowTold, OrderlyShow
<1> HIDE DEF e
<1>17. SameOrders(stored, e) /\ Keeps(stored, e)
  BY <1>15, <1>16, KeepsTrans
<1>18. Quantities(stored)
  BY <1>2, <1>7 DEF Quantities, SameOrders
<1>19. Sound(e, cut)
  BY <1>10, <1>12, <1>16, <1>17, <1>18, KeepsSound
<1>20. Orderly(db, e) /\ e.order = db.order
  <2>1. Yields(db, stored)
    BY <1>2, <1>7, YieldsIs DEF SameOrders
  <2>2. QED
    BY <1>2, <1>7, <1>16, <1>17, <2>1, YieldsIs DEF SameOrders
<1>21. QED
  BY <1>1, <1>13, <1>17, <1>19, <1>20 DEF Keeps

LEMMA EditBatchKeeps ==
  ASSUME StockInv, NEW b \in Batches, EditBatch(b)
  PROVE  /\ Sound(db', cut') /\ cut' \subseteq Batches
         /\ (NoneCancelled(db) => NoneCancelled(db'))
         /\ Orderly(db, db') /\ db'.order = db.order
<1>1. PICK kind \in Kinds, n \in Amounts, t \in Times :
        LET here == db.batch[b].here /\ kind = "purchase"
            row == [db.batch[b] EXCEPT !.kind = kind, !.got = n, !.at = t,
                                       !.here = here, !.left = IF here THEN n ELSE 0]
            done == Rebuild([db EXCEPT !.batch[b] = row], row.owner, {})
        IN /\ OfBatch(db, b) > 0 => db.batch[b].kind = "purchase" /\ kind = "purchase"
           /\ db' = done
           /\ cut' = IF OfBatch(done, b) > n THEN cut \cup {b} ELSE cut \ {b}
  BY ZenonT(60) DEF EditBatch, Edit
<1> DEFINE here == db.batch[b].here /\ kind = "purchase"
           row == [db.batch[b] EXCEPT !.kind = kind, !.got = n, !.at = t,
                                      !.here = here, !.left = IF here THEN n ELSE 0]
           own == db.batch[b].owner
           stored == [db EXCEPT !.batch[b] = row]
           e == Rebuild(stored, own, {})
<1>2. /\ db \in Database /\ Quantities(db) /\ TwoLevel(db) /\ HereIsBought(db)
      /\ Balanced(db, cut) /\ Told(db, {}) /\ Sound(db, cut) /\ cut \subseteq Batches
  BY DEF StockInv, Sound, TypeOK
<1>3. /\ db.batch[b] \in Batch /\ Exists(db, b) /\ db.batch[b].kind \in Kinds
      /\ own \in Products /\ Owner(db, own) = own
  <2>1. Exists(db, b)
    BY DEF EditBatch
  <2>2. QED
    BY <1>2, <2>1, RowOf DEF TwoLevel, Batch
<1>4. /\ row \in Batch /\ row.owner = own /\ row.here = here /\ row.kind = kind
      /\ row.got = n /\ row.left = IF here THEN n ELSE 0
  <2>1. n \in Nat \ {0} /\ t \in Nat
    BY InventoryAssumption
  <2>2. here \in BOOLEAN
    BY <1>3 DEF Batch
  <2> HIDE DEF here
  <2>3. QED
    BY <1>3, <2>1, <2>2 DEF Batch
<1>5. n \in Nat
  BY InventoryAssumption
<1>6. /\ db' = e /\ (OfBatch(db, b) > 0 => db.batch[b].kind = "purchase" /\ kind = "purchase")
      /\ cut' = IF OfBatch(e, b) > n THEN cut \cup {b} ELSE cut \ {b}
  BY <1>1, <1>4
<1>7. here => db.batch[b].here /\ kind = "purchase"
  OBVIOUS
<1>8. kind = "purchase" /\ ~here => ~db.batch[b].here
  OBVIOUS
<1>9. stored = Written(db, b, row)
  BY DEF Written
<1> HIDE DEF own, row, stored, here
<1>10. /\ stored \in Database /\ stored.alloc = db.alloc /\ SameOrders(db, stored)
       /\ stored.shown = db.shown
       /\ stored.batch[b] = row /\ \A c \in Batches \ {b} : stored.batch[c] = db.batch[c]
  BY <1>2, <1>4, <1>9, RowWritten
<1>11. \A c \in Batches : OfBatch(stored, c) = OfBatch(db, c)
  BY <1>10, OfBatchSame
<1>12. Exists(stored, b)
  BY <1>4, <1>10 DEF Exists, NoBatch, Kinds
<1>13. /\ \A c \in Batches \ {b} : /\ Sparing(db, c) => Sparing(stored, c)
                                   /\ Even(db, c) => Even(stored, c)
       /\ Told(stored, {own}) /\ TwoLevel(stored) /\ HereIsBought(stored)
  <2>1. Told(db, {own}) /\ db.batch[b].owner = own
    BY <1>2, ToldLess DEF own
  <2>2. QED
    BY <1>2, <1>3, <1>4, <1>7, <1>10, <1>11, <2>1, RowWrittenRest
<1>14. OfBatch(db, b) \in Nat /\ Sparing(db, b)
  BY <1>2, SumsType DEF Balanced
<1>15. Sparing(stored, b)
  <2>1. ~here /\ kind = "purchase" => OfBatch(db, b) = 0
    BY <1>3, <1>6, <1>8, <1>14 DEF Sparing
  <2>2. kind = "production" => OfBatch(db, b) = 0
    BY <1>6, <1>14
  <2>3. QED
    BY <1>4, <1>5, <1>10, <1>11, <1>12, <2>1, <2>2 DEF Sparing
<1>16. Balanced(stored, cut \cup {b})
  BY <1>2, <1>13, <1>15 DEF Balanced
<1>17. NoneCancelled(db) => NoneCancelled(stored)
  <2>1. b \in Purchased(db) \/ b \notin Purchased(stored) \/ OfBatch(db, b) = 0
    BY <1>6, <1>14 DEF Purchased
  <2>2. QED
    BY <1>2, <1>10, <2>1, NoneCancelledRow
<1>18. Owner(stored, own) = own
  BY <1>3, <1>10 DEF SameOrders, Owner
<1>19. /\ e \in Database /\ SameRows(stored, e) /\ SameOrders(stored, e) /\ Keeps(stored, e)
       /\ \A c \in PurchasedOf(stored, own) : Filled(e, c)
       /\ Told(e, {own} \ {own}) /\ Orderly(stored, e)
  BY <1>3, <1>10, <1>13, <1>18, RebuildKeeps
<1> HIDE DEF e
<1>20. Told(e, {})
  <2>1. {own} \ {own} = {}
    OBVIOUS
  <2>2. QED
    BY <1>19, <2>1
<1>21. Quantities(stored)
  BY <1>2, <1>10 DEF Quantities, SameOrders
<1>22. Sound(e, cut \cup {b})
  BY <1>13, <1>16, <1>19, <1>20, <1>21, KeepsSound
<1>23. ASSUME ~(OfBatch(e, b) > n) PROVE Even(e, b)
  <2>1. SUFFICES ASSUME Exists(e, b), e.batch[b].here
                 PROVE  e.batch[b].left + OfBatch(e, b) = e.batch[b].got
    BY DEF Even
  <2>2. /\ e.batch[b].got = n /\ stored.batch[b].here /\ stored.batch[b].kind = "purchase"
        /\ stored.batch[b].owner = own
    BY <1>4, <1>7, <1>10, <1>12, <1>19, <2>1 DEF SameRows
  <2>3. Filled(e, b)
    BY <1>19, <2>2 DEF PurchasedOf, Purchased
  <2>4. OfBatch(e, b) \in Nat
    BY <1>19, SumsType
  <2>5. QED
    BY <1>5, <1>23, <2>1, <2>2, <2>3, <2>4 DEF Filled, Monus
<1>24. Sound(e, cut')
  <2>1. Balanced(e, cut \cup {b})
    BY <1>22 DEF Sound
  <2>2. Balanced(e, cut')
    <3>1. CASE OfBatch(e, b) > n
      BY <1>6, <2>1, <3>1
    <3>2. CASE ~(OfBatch(e, b) > n)
      BY <1>6, <1>23, <2>1, <3>2 DEF Balanced
    <3>3. QED
      BY <3>1, <3>2
  <2>3. QED
    BY <1>22, <2>2 DEF Sound
<1>25. cut' \subseteq Batches
  BY <1>2, <1>6
<1>26. Orderly(db, e) /\ e.order = db.order
  <2>1. Yields(db, stored)
    BY <1>2, <1>10, YieldsIs DEF SameOrders
  <2>2. QED
    BY <1>2, <1>10, <1>19, <2>1, YieldsIs DEF SameOrders
<1>27. QED
  BY <1>6, <1>17, <1>19, <1>24, <1>25, <1>26 DEF Keeps

LEMMA DeleteBatchKeeps ==
  ASSUME StockInv, NEW b \in Batches, DeleteBatch(b)
  PROVE  /\ Sound(db', cut') /\ cut' \subseteq Batches
         /\ (NoneCancelled(db) => NoneCancelled(db'))
         /\ OldestUsed(db, db') /\ ~Exists(db', b) /\ db'.order = db.order
<1> DEFINE own == db.batch[b].owner
           mine == PurchasedOf(db, own)
           A == [l \in Lines |-> [c \in Batches |-> IF c \in mine THEN 0 ELSE db.alloc[l][c]]]
           B == [db.batch EXCEPT ![b] = NoBatch]
           r == Removed(db, b)
           e == Rebuild(r, own, {})
<1>1. /\ db' = e /\ cut' = cut \ {b} /\ Exists(db, b)
      /\ ~(db.batch[b].kind = "production" /\ OfBatch(db, b) > 0)
  BY DEF DeleteBatch, Edit
<1>2. /\ db \in Database /\ Quantities(db) /\ TwoLevel(db) /\ HereIsBought(db)
      /\ Balanced(db, cut) /\ Told(db, {}) /\ Sound(db, cut) /\ cut \subseteq Batches
  BY DEF StockInv, Sound, TypeOK
<1>3. /\ db.batch[b] \in Batch /\ db.batch[b].kind \in Kinds
      /\ own \in Products /\ Owner(db, own) = own
  BY <1>1, <1>2, RowOf DEF TwoLevel, Batch
<1>4. r = [db EXCEPT !.alloc = A, !.batch = B]
  BY <1>2, Fields DEF Removed
<1>5. /\ B \in [Batches -> Batch \cup {NoBatch}]
      /\ B[b] = NoBatch /\ \A c \in Batches \ {b} : B[c] = db.batch[c]
  BY <1>2, Fields
<1>6. /\ A \in [Lines -> [Batches -> Nat]]
      /\ \A l \in Lines, c \in Batches : A[l][c] = IF c \in mine THEN 0 ELSE db.alloc[l][c]
  <2>1. \A l \in Lines, c \in Batches : db.alloc[l][c] \in Nat
    BY <1>2, Fields
  <2> HIDE DEF mine
  <2>2. QED
    BY <2>1
<1> HIDE DEF A, B, r
<1>7. /\ r \in Database /\ r.alloc = A /\ r.batch = B /\ SameOrders(db, r) /\ r.shown = db.shown
  BY <1>2, <1>4, <1>5, <1>6 DEF Database, SameOrders
<1>8. ASSUME NEW c \in Batches
      PROVE  /\ c \in mine => OfBatch(r, c) = 0
             /\ c \notin mine => OfBatch(r, c) = OfBatch(db, c)
  <2>1. CASE c \in mine
    <3>1. \A l \in Lines : r.alloc[l][c] = 0
      BY <1>6, <1>7, <2>1
    <3>2. QED
      BY <1>7, <2>1, <3>1, NothingOf
  <2>2. CASE c \notin mine
    BY <1>6, <1>7, <2>2, OfBatchSame
  <2>3. QED
    BY <2>1, <2>2
<1>9. \A c \in Batches : OfBatch(db, c) \in Nat /\ Sparing(db, c)
  BY <1>2, SumsType DEF Balanced
<1>10. ~Exists(r, b) /\ \A c \in Batches \ {b} : r.batch[c] = db.batch[c] /\ (Exists(r, c) <=> Exists(db, c))
  BY <1>5, <1>7 DEF Exists
<1>11. Sparing(r, b)
  <2>1. CASE b \in mine
    BY <1>8, <1>10, <2>1 DEF Sparing
  <2>2. CASE b \notin mine
    <3>1. db.batch[b].kind # "purchase"
      BY <2>2 DEF PurchasedOf, Purchased
    <3>2. db.batch[b].kind = "production"
      BY <1>3, <3>1 DEF Kinds
    <3>3. OfBatch(db, b) = 0
      BY <1>1, <1>9, <3>2
    <3>4. QED
      BY <1>8, <1>10, <2>2, <3>3 DEF Sparing
  <2>3. QED
    BY <2>1, <2>2
<1>12. ASSUME NEW c \in Batches \ {b} PROVE Sparing(r, c) /\ (c \notin mine /\ Even(db, c) => Even(r, c))
  <2>1. r.batch[c] = db.batch[c] /\ (Exists(r, c) <=> Exists(db, c)) /\ Sparing(db, c)
    BY <1>9, <1>10
  <2>2. CASE c \notin mine
    <3>1. OfBatch(r, c) = OfBatch(db, c)
      BY <1>8, <2>2
    <3>2. QED
      BY <2>1, <3>1 DEF Sparing, Even
  <2>3. CASE c \in mine
    <3>1. OfBatch(r, c) = 0 /\ db.batch[c].kind = "purchase"
      BY <1>8, <2>3 DEF PurchasedOf, Purchased
    <3>2. QED
      BY <2>1, <2>3, <3>1 DEF Sparing
  <2>4. QED
    BY <2>2, <2>3
<1>13. Balanced(r, cut \cup mine)
  <2>1. Even(r, b)
    BY <1>10 DEF Even
  <2>2. QED
    BY <1>2, <1>11, <1>12, <2>1 DEF Balanced
<1>14. TwoLevel(r) /\ HereIsBought(r)
  <2>1. \A c \in Batches : Exists(r, c) => c # b /\ Exists(db, c) /\ r.batch[c] = db.batch[c]
    BY <1>10
  <2>2. QED
    BY <1>2, <1>7, <2>1 DEF TwoLevel, HereIsBought, SameOrders, Owner
<1>15. Told(r, {own})
  <2>1. ASSUME NEW p \in Products, Owner(r, p) # own PROVE r.shown[p] = Stock(r, Owner(r, p))
    <3> DEFINE q == Owner(db, p)
    <3>1. Owner(r, p) = q
      BY <1>7 DEF SameOrders, Owner
    <3>2. b \notin Shelf(db, q) /\ b \notin Shelf(r, q)
      BY <1>2, <1>7, <1>10, <2>1, <3>1, ShelfRow
    <3>3. Shelf(r, q) = Shelf(db, q)
      BY <1>10, <3>2 DEF Shelf, Purchased
    <3>4. \A c \in Shelf(db, q) : r.batch[c].left = db.batch[c].left
      BY <1>2, <1>10, <3>2, ShelfRow
    <3>5. Stock(r, q) = Stock(db, q)
      BY <1>2, <1>7, <3>3, <3>4, StockSame
    <3>6. QED
      BY <1>2, <1>7, <3>1, <3>5 DEF Told
  <2>2. QED
    BY <2>1 DEF Told
<1>16. NoneCancelled(db) => NoneCancelled(r)
  <2> SUFFICES ASSUME NoneCancelled(db), NEW l \in Lines, IsCancelled(r, OrderOf[l]), NEW c \in Purchased(r)
               PROVE  r.alloc[l][c] = 0
    BY DEF NoneCancelled
  <2>1. c \in Batches /\ IsCancelled(db, OrderOf[l])
    BY <1>7 DEF SameOrders, IsCancelled, Purchased
  <2>2. c # b
    <3>1. NoBatch.kind = "none"
      BY DEF NoBatch
    <3>2. QED
      BY <1>5, <1>7, <3>1 DEF Purchased
  <2>3. c \in Purchased(db)
    BY <1>10, <2>1, <2>2 DEF Purchased
  <2>4. db.alloc[l][c] = 0
    BY <2>1, <2>3 DEF NoneCancelled
  <2>5. QED
    BY <1>6, <1>7, <2>1, <2>4
<1> HIDE DEF own
<1>17. Owner(r, own) = own
  BY <1>3, <1>7 DEF SameOrders, Owner
<1>18. /\ e \in Database /\ SameRows(r, e) /\ SameOrders(r, e) /\ Keeps(r, e)
       /\ \A c \in PurchasedOf(r, own) : OfBatch(r, c) <= r.batch[c].got => Even(e, c)
       /\ Told(e, {own} \ {own}) /\ Orderly(r, e)
  BY <1>3, <1>7, <1>14, <1>15, <1>17, RebuildKeeps
<1> HIDE DEF e
<1>19. Told(e, {}) /\ Quantities(r)
  <2>1. {own} \ {own} = {}
    OBVIOUS
  <2>2. QED
    BY <1>2, <1>7, <1>18, <2>1 DEF Quantities, SameOrders
<1>20. Sound(e, cut \cup mine)
  BY <1>13, <1>14, <1>18, <1>19, KeepsSound
<1>21. ASSUME NEW c \in mine PROVE Even(e, c)
  <2>1. c \in Batches /\ db.batch[c].kind = "purchase" /\ db.batch[c].owner = own
    BY DEF PurchasedOf, Purchased
  <2>2. CASE c = b
    BY <1>10, <1>18, <2>2 DEF Even, SameRows
  <2>3. CASE c # b
    <3>1. c \in PurchasedOf(r, own)
      BY <1>10, <2>1, <2>3 DEF PurchasedOf, Purchased
    <3>2. OfBatch(r, c) = 0
      BY <1>8, <2>1
    <3>3. r.batch[c].got \in Nat
      <4>1. r.batch[c] = db.batch[c] /\ db.batch[c] \in Batch
        BY <1>2, <1>10, <2>1, <2>3, RowOf DEF Purchased
      <4>2. QED
        BY <4>1 DEF Batch
    <3>4. QED
      BY <1>18, <3>1, <3>2, <3>3
  <2>4. QED
    BY <2>2, <2>3
<1>22. Even(e, b)
  BY <1>10, <1>18 DEF Even, SameRows
<1> HIDE DEF mine
<1>23. Sound(e, cut')
  <2>1. Balanced(e, cut \cup mine)
    BY <1>20 DEF Sound
  <2>2. \A c \in Batches \ cut' : Even(e, c)
    BY <1>1, <1>21, <1>22, <2>1 DEF Balanced
  <2>3. Balanced(e, cut')
    BY <2>1, <2>2 DEF Balanced
  <2>4. QED
    BY <1>20, <2>3 DEF Sound
<1>24. OldestUsed(db, e)
  <2>1. \A l \in Lines, c \in Batches : r.alloc[l][c] <= db.alloc[l][c]
    <3>1. \A l \in Lines, c \in Batches : db.alloc[l][c] \in Nat
      BY <1>2, Fields
    <3>2. QED
      BY <1>6, <1>7, <3>1
  <2>2. ASSUME NEW l \in Lines, NEW c \in Purchased(e), e.alloc[l][c] > db.alloc[l][c]
        PROVE  e.alloc[l][c] > r.alloc[l][c]
    <3>1. c \in Batches
      BY DEF Purchased
    <3>2. e.alloc[l][c] \in Nat /\ r.alloc[l][c] \in Nat /\ db.alloc[l][c] \in Nat
      BY <1>2, <1>7, <1>18, <3>1, Fields
    <3>3. QED
      BY <2>1, <2>2, <3>1, <3>2
  <2>3. QED
    BY <1>18, <2>2 DEF Orderly, OldestUsed
<1>25. ~Exists(e, b) /\ e.order = db.order
  BY <1>7, <1>10, <1>18 DEF SameRows, SameOrders
<1>26. QED
  BY <1>1, <1>2, <1>16, <1>18, <1>23, <1>24, <1>25 DEF Keeps

\* A production batch promises no more than its size.
LEMMA ReservedFits ==
  ASSUME NEW d \in Database, NEW b \in Batches, NEW l \in Lines
  PROVE  /\ Reserved(d, b, l) \in Nat
         /\ Reserved(d, b, l) > 0 => Reserved(d, b, l) <= Capacity(d, b)
<1> DEFINE p == d.batch[b].owner
           expected == {c \in Batches : Exists(d, c) /\ ~d.batch[c].here /\ d.batch[c].owner = p}
           queue == {k \in Waiting(d, p) : d.order[OrderOf[k]].status \in Incoming}
           E == {c \in expected : Older(d, c, b)}
           Q == {k \in queue : k < l}
           f == [c \in E |-> Capacity(d, c)]
           g == [k \in Q |-> Needed(d, k)]
<1>1. Reserved(d, b, l) = IF b \in expected /\ l \in queue
                          THEN Overlap(Total(f), Capacity(d, b), Total(g), Needed(d, l)) ELSE 0
  BY DEF Reserved
<1>2. ASSUME NEW c \in Batches, Exists(d, c) PROVE Capacity(d, c) \in Nat
  <2>1. d.batch[c] \in Batch
    BY <1>2, RowOf
  <2>2. d.batch[c].got \in Nat /\ OfBatch(d, c) \in Nat
    BY <2>1, SumsType DEF Batch
  <2>3. QED
    BY <2>2 DEF Capacity, Monus
<1>3. ASSUME NEW k \in Lines PROVE Needed(d, k) \in Nat
  <2>1. d.line[k] \in [product : Products \cup {NoProduct}, quantity : Nat]
    BY Fields
  <2>2. d.line[k].quantity \in Nat /\ OfLine(d, k) \in Nat
    BY <2>1, SumsType
  <2>3. QED
    BY <2>2 DEF Needed, Monus
<1>4. IsFiniteSet(E) /\ f \in [E -> Nat]
  <2>1. E \subseteq Batches
    OBVIOUS
  <2>2. QED
    BY <1>2, <2>1, FS_Subset, Finite
<1>5. IsFiniteSet(Q) /\ g \in [Q -> Nat]
  <2>1. Q \subseteq Lines
    BY DEF Waiting
  <2>2. QED
    BY <1>3, <2>1, FS_Subset, Finite
<1>6. b \in expected => Exists(d, b)
  OBVIOUS
<1> HIDE DEF E, Q, f, g, expected, queue
<1>7. Total(f) \in Nat /\ Total(g) \in Nat
  BY <1>4, <1>5, UnitsFinite
<1>8. QED
  BY <1>1, <1>2, <1>3, <1>6, <1>7, OverlapIs

LEMMA ManufactureKeeps ==
  ASSUME StockInv, NEW b \in Batches, NEW l \in Lines, Manufacture(b, l)
  PROVE  /\ Sound(db', cut) /\ (NoneCancelled(db) => NoneCancelled(db'))
         /\ Orderly(db, db') /\ db'.order = db.order
<1> DEFINE n == Reserved(db, b, l)
           A == [db.alloc EXCEPT ![l] = [db.alloc[l] EXCEPT ![b] = db.alloc[l][b] + n]]
           e == Completed(b, l)
<1>1. db' = e /\ db.batch[b].kind = "production" /\ n > 0
  BY DEF Manufacture, Commit
<1>2. /\ db \in Database /\ Quantities(db) /\ TwoLevel(db) /\ HereIsBought(db)
      /\ Balanced(db, cut) /\ Told(db, {}) /\ Sound(db, cut)
  BY DEF StockInv, Sound
<1>3. n \in Nat /\ n <= Capacity(db, b)
  BY <1>1, <1>2, ReservedFits
<1>4. db.alloc \in [Lines -> [Batches -> Nat]]
  BY <1>2, Fields
<1> HIDE DEF n
<1>5. e = [db EXCEPT !.alloc = A]
  BY <1>2, <1>4 DEF Completed, n
<1>6. /\ A \in [Lines -> [Batches -> Nat]]
      /\ \A k \in Lines, c \in Batches :
           A[k][c] = IF k = l /\ c = b THEN db.alloc[l][b] + n ELSE db.alloc[k][c]
  BY <1>3, <1>4
<1> HIDE DEF A, e
<1>7. /\ e \in Database /\ e.alloc = A /\ e.batch = db.batch /\ SameOrders(db, e)
      /\ e.shown = db.shown
  BY <1>2, <1>5, <1>6 DEF Database, SameOrders
<1>8. \A c \in Batches \ {b} : OfBatch(e, c) = OfBatch(db, c)
  BY <1>6, <1>7, OfBatchSame
<1>9. OfBatch(e, b) = OfBatch(db, b) + n
  <2> DEFINE f == [k \in Lines |-> db.alloc[k][b]]
             g == [k \in Lines |-> e.alloc[k][b]]
             rest == [k \in Lines \ {l} |-> f[k]]
  <2>1. f \in [Lines -> Nat] /\ g \in [Lines -> Nat]
    BY <1>4, <1>6, <1>7
  <2>2. rest = [k \in Lines \ {l} |-> g[k]]
    BY <1>6, <1>7
  <2>3. OfBatch(db, b) = Total(f) /\ OfBatch(e, b) = Total(g)
    BY DEF OfBatch
  <2>4. g[l] = f[l] + n /\ f[l] \in Nat
    BY <1>4, <1>6, <1>7
  <2>5. rest \in [Lines \ {l} -> Nat] /\ IsFiniteSet(Lines \ {l})
    BY <2>1, FS_RemoveElement, Finite
  <2> HIDE DEF f, g
  <2>6. Total(f) = f[l] + Total(rest)
    <3>1. f \in [Lines -> Nat]
      BY <2>1
    <3>2. QED
      BY <3>1, TotalAt, Finite
  <2>7. Total(g) = g[l] + Total(rest)
    BY <2>1, <2>2, TotalAt, Finite
  <2>8. Total(rest) \in Nat
    <3> HIDE DEF rest
    <3>1. QED
      BY <2>5, UnitsFinite
  <2> HIDE DEF rest
  <2>9. QED
    BY <1>3, <2>3, <2>4, <2>6, <2>7, <2>8
<1>10. OfBatch(db, b) \in Nat /\ Sparing(db, b)
  BY <1>2, SumsType DEF Balanced
<1>11. Exists(db, b) /\ db.batch[b].got \in Nat /\ ~db.batch[b].here
  <2>1. NoBatch.kind = "none"
    BY DEF NoBatch
  <2>2. Exists(db, b)
    BY <1>1, <2>1 DEF Exists
  <2>3. db.batch[b] \in Batch
    BY <1>2, <2>2, RowOf
  <2>4. QED
    BY <1>1, <1>2, <2>2, <2>3 DEF Batch, HereIsBought
<1>12. OfBatch(e, b) <= db.batch[b].got
  BY <1>1, <1>3, <1>9, <1>10, <1>11 DEF Capacity, Monus
<1>13. Sparing(e, b) /\ Even(e, b)
  <2>1. Exists(e, b) /\ e.batch[b] = db.batch[b]
    BY <1>7, <1>11 DEF Exists
  <2>2. QED
    BY <1>1, <1>10, <1>11, <1>12, <2>1 DEF Sparing, Even
<1>14. /\ \A c \in Batches \ {b} : /\ Sparing(db, c) => Sparing(e, c)
                                   /\ Even(db, c) => Even(e, c)
       /\ TwoLevel(e) /\ HereIsBought(e)
  <2>1. Exists(e, b) <=> Exists(db, b)
    BY <1>7 DEF Exists
  <2>2. Owner(db, e.batch[b].owner) = e.batch[b].owner
    BY <1>2, <1>7, <1>11 DEF TwoLevel
  <2>3. QED
    BY <1>2, <1>7, <1>8, <1>11, <2>2, RowWrittenRest
<1>15. Balanced(e, cut)
  BY <1>2, <1>13, <1>14 DEF Balanced
<1>16. Told(e, {})
  <2>1. \A p : Stock(e, p) = Stock(db, p)
    BY <1>7 DEF Stock, Shelf, Purchased
  <2>2. QED
    BY <1>2, <1>7, <2>1 DEF Told, SameOrders, Owner
<1>17. Quantities(e)
  BY <1>2, <1>7 DEF Quantities, SameOrders
<1>18. NoneCancelled(db) => NoneCancelled(e)
  <2> SUFFICES ASSUME NoneCancelled(db), NEW k \in Lines, IsCancelled(e, OrderOf[k]), NEW c \in Purchased(e)
               PROVE  e.alloc[k][c] = 0
    BY DEF NoneCancelled
  <2>1. c \in Purchased(db) /\ c \in Batches /\ c # b /\ IsCancelled(db, OrderOf[k])
    BY <1>1, <1>7 DEF Purchased, SameOrders, IsCancelled
  <2>2. QED
    BY <1>6, <1>7, <2>1 DEF NoneCancelled
<1>19. Orderly(db, e)
  <2>1. OldestUsed(db, e)
    <3>1. \A c \in Purchased(e) : c \in Batches /\ c # b
      BY <1>1, <1>7 DEF Purchased
    <3>2. \A k \in Lines, c \in Purchased(e) : ~(e.alloc[k][c] > db.alloc[k][c])
      <4>1. \A k \in Lines, c \in Batches : db.alloc[k][c] \in Nat
        BY <1>4
      <4>2. QED
        BY <1>6, <1>7, <3>1, <4>1
    <3>3. QED
      BY <3>2 DEF OldestUsed
  <2>2. ~Blocks(db, OrderOf[l])
    <3>1. Reserved(db, b, l) > 0
      BY DEF Manufacture
    <3>2. l \in Waiting(db, db.batch[b].owner)
      BY <3>1 DEF Reserved
    <3>3. QED
      BY <3>2 DEF Waiting
  <2>3. ASSUME NEW k \in Lines, Resting(db, k) PROVE e.alloc[k] = db.alloc[k]
    <3>1. k # l
      BY <2>2, <2>3 DEF Resting, Blocks, Terminal
    <3>2. \A c \in Batches : e.alloc[k][c] = db.alloc[k][c]
      BY <1>6, <1>7, <3>1
    <3>3. e.alloc[k] \in [Batches -> Nat] /\ db.alloc[k] \in [Batches -> Nat]
      BY <1>4, <1>6, <1>7
    <3>4. QED
      BY <3>2, <3>3
  <2>4. QED
    BY <2>1, <2>3 DEF Orderly
<1>20. e.order = db.order
  BY <1>7 DEF SameOrders
<1>21. QED
  BY <1>1, <1>7, <1>14, <1>15, <1>16, <1>17, <1>18, <1>19, <1>20 DEF Sound

\* The second half of an import takes from the tables of that moment.
LEMMA TakeStockKeeps ==
  ASSUME StockInv, NEW i \in Importers, TakeStock(i)
  PROVE  /\ Sound(db', cut)
         /\ SameOrders(db, db')
         /\ OldestUsed(db, db')
         /\ ~Blocks(db, OrderOf[reads[i].line]) => Orderly(db, db')
         /\ NoneCancelled(db) /\ ~IsCancelled(db, OrderOf[reads[i].line]) => NoneCancelled(db')
<1> DEFINE l == reads[i].line
           need == [k \in Lines |-> IF k = l THEN reads[i].needed ELSE 0]
           own == Owner(db, db.line[l].product)
           s == Serve(db, need)
           e == Show(s, {own})
<1>1. db' = e
  BY DEF TakeStock
<1>2. /\ db \in Database /\ Quantities(db) /\ TwoLevel(db) /\ HereIsBought(db)
      /\ Balanced(db, cut) /\ Told(db, {}) /\ Sound(db, cut)
  BY DEF StockInv, Sound
<1>3. reads[i] \in [needed : Nat, line : Lines]
  BY DEF StockInv, TypeOK, TakeStock
<1>4. need \in [Lines -> Nat] /\ \A k \in Lines : need[k] > 0 => k = l
  BY <1>3
<1> HIDE DEF need, l
<1>5. s \in Database /\ SameOrders(db, s)
  BY <1>2, <1>4, ServeFields
<1>6. /\ TwoLevel(s) /\ HereIsBought(s) /\ Balanced(s, cut)
      /\ NoneCancelled(db) /\ ~IsCancelled(db, OrderOf[l]) => NoneCancelled(s)
  BY <1>2, <1>4, ServeKeeps
<1>7. Told(s, {own})
  <2>1. ASSUME NEW b \in Batches, Taken(db, need, b) > 0 PROVE db.batch[b].owner \in {own}
    BY <1>2, <1>4, <2>1, TakenIs
  <2>2. Told(db, {own})
    BY <1>2, ToldLess
  <2> HIDE DEF own
  <2>3. QED
    BY <1>2, <1>4, <2>1, <2>2, ServeStock
<1>13. /\ OldestUsed(db, s)
       /\ ~Blocks(db, OrderOf[l]) => Orderly(db, s)
  BY <1>2, <1>4, ServeOldest, ServeOrderly
<1> HIDE DEF s, own
<1>14. SameStock(s, e) /\ (Orderly(db, s) => Orderly(db, e))
  BY <1>5, ShowKeeps, OrderlyShow
<1>8. e \in Database /\ SameOrders(s, e) /\ Keeps(s, e) /\ Told(e, {})
  BY <1>5, <1>7, ShowKeeps, ShowTold
<1> HIDE DEF e
<1>9. SameOrders(db, e)
  BY <1>5, <1>8, KeepsTrans
<1>10. Quantities(s)
  BY <1>2, <1>5 DEF Quantities, SameOrders
<1>11. Sound(e, cut)
  BY <1>6, <1>8, <1>10, KeepsSound
<1>12. OldestUsed(db, e)
  BY <1>13, <1>14 DEF OldestUsed, SameStock, Older, Shelf, Purchased
<1>15. QED
  BY <1>1, <1>6, <1>8, <1>9, <1>11, <1>12, <1>13, <1>14 DEF Keeps, l

\* Pools are merged and split.
LEMMA MergeKeeps ==
  ASSUME StockInv, NEW p \in Products, NEW q \in Products, Merge(p, q)
  PROVE  /\ Sound(db', cut) /\ (NoneCancelled(db) => NoneCancelled(db'))
         /\ Orderly(db, db') /\ db'.order = db.order
<1> DEFINE old == Owner(db, p)
           own == Owner(db, q)
           O == [r \in Products |-> IF r \in Group(db, p) THEN own ELSE db.owner[r]]
           row(b) == IF Exists(db, b) /\ db.batch[b].owner = old
                     THEN [db.batch[b] EXCEPT !.owner = own] ELSE db.batch[b]
           B == [b \in Batches |-> row(b)]
           m == Merged(p, q)
           e == Rebuild(m, own, {})
<1>1. db' = e /\ old # own
  BY DEF Merge, Edit
<1>2. /\ db \in Database /\ Quantities(db) /\ TwoLevel(db) /\ HereIsBought(db)
      /\ Balanced(db, cut) /\ Told(db, {}) /\ Sound(db, cut)
  BY DEF StockInv, Sound
<1>3. /\ old \in Products /\ own \in Products /\ Owner(db, own) = own /\ Owner(db, old) = old
  BY <1>2, Fields DEF TwoLevel, Owner
<1>4. m = [db EXCEPT !.owner = O, !.batch = B]
  BY DEF Merged
<1> HIDE DEF old, own
<1>5. /\ O \in [Products -> Products]
      /\ \A r \in Products : O[r] = IF Owner(db, r) = old THEN own ELSE Owner(db, r)
  BY <1>2, <1>3, Fields DEF Group, Owner, old
<1>6. ASSUME NEW b \in Batches
      PROVE  /\ row(b) \in Batch \cup {NoBatch}
             /\ row(b) # NoBatch <=> Exists(db, b)
             /\ row(b).kind = db.batch[b].kind
             /\ Exists(db, b) => /\ row(b).here = db.batch[b].here /\ row(b).left = db.batch[b].left
                                 /\ row(b).got = db.batch[b].got
                                 /\ row(b).owner = IF db.batch[b].owner = old THEN own ELSE db.batch[b].owner
  <2>1. CASE Exists(db, b) /\ db.batch[b].owner = old
    <3>1. db.batch[b] \in Batch /\ db.batch[b].kind \in Kinds
      BY <1>2, <2>1, RowOf
    <3>2. row(b) = [db.batch[b] EXCEPT !.owner = own]
      BY <2>1
    <3> HIDE DEF row
    <3>3. /\ row(b) \in Batch /\ row(b).kind = db.batch[b].kind /\ row(b).here = db.batch[b].here
          /\ row(b).left = db.batch[b].left /\ row(b).got = db.batch[b].got /\ row(b).owner = own
      BY <1>3, <3>1, <3>2 DEF Batch
    <3>4. row(b) # NoBatch
      BY <3>1, <3>3 DEF NoBatch, Kinds
    <3>5. QED
      BY <2>1, <3>3, <3>4
  <2>2. CASE ~(Exists(db, b) /\ db.batch[b].owner = old)
    BY <1>2, <2>2, Fields DEF Exists
  <2>3. QED
    BY <2>1, <2>2
<1> HIDE DEF row
<1>7. B \in [Batches -> Batch \cup {NoBatch}] /\ \A b \in Batches : B[b] = row(b)
  BY <1>6
<1> HIDE DEF O, B, m
<1>8. /\ m \in Database /\ m.owner = O /\ m.batch = B /\ m.alloc = db.alloc /\ m.order = db.order
      /\ m.line = db.line /\ m.shown = db.shown
  BY <1>2, <1>4, <1>5, <1>7 DEF Database
<1>9. \A b : OfBatch(m, b) = OfBatch(db, b)
  BY <1>8 DEF OfBatch
<1>10. ASSUME NEW b \in Batches
       PROVE  /\ Exists(m, b) <=> Exists(db, b)
              /\ m.batch[b].kind = db.batch[b].kind
              /\ Exists(db, b) =>
                   /\ m.batch[b].here = db.batch[b].here /\ m.batch[b].left = db.batch[b].left
                   /\ m.batch[b].got = db.batch[b].got
                   /\ m.batch[b].owner = IF db.batch[b].owner = old THEN own ELSE db.batch[b].owner
  BY <1>6, <1>7, <1>8 DEF Exists
<1>11. TwoLevel(m)
  <2>1. \A r \in Products : Owner(m, r) = IF Owner(db, r) = old THEN own ELSE Owner(db, r)
    BY <1>5, <1>8 DEF Owner
  <2>2. \A r \in Products : Owner(db, r) \in Products /\ Owner(db, Owner(db, r)) = Owner(db, r)
    BY <1>2, Fields DEF TwoLevel, Owner
  <2>3. Owner(m, own) = own
    BY <1>1, <1>3, <2>1
  <2>4. \A r \in Products : Owner(m, Owner(m, r)) = Owner(m, r)
    BY <2>1, <2>2, <2>3
  <2>5. ASSUME NEW b \in Batches, Exists(m, b) PROVE Owner(m, m.batch[b].owner) = m.batch[b].owner
    <3>1. Exists(db, b) /\ db.batch[b] \in Batch
      BY <1>2, <1>10, <2>5, RowOf
    <3>2. db.batch[b].owner \in Products /\ Owner(db, db.batch[b].owner) = db.batch[b].owner
      BY <1>2, <3>1 DEF Batch, TwoLevel
    <3>3. QED
      BY <1>10, <2>1, <2>3, <3>1, <3>2
  <2>6. QED
    BY <2>4, <2>5 DEF TwoLevel
<1>12. HereIsBought(m)
  BY <1>2, <1>10 DEF HereIsBought
<1>13. ASSUME NEW b \in Batches
       PROVE  (Sparing(db, b) => Sparing(m, b)) /\ (Even(db, b) => Even(m, b))
  BY <1>9, <1>10 DEF Sparing, Even
<1>14. Balanced(m, cut)
  BY <1>2, <1>13 DEF Balanced
<1>15. Told(m, {own})
  <2>1. ASSUME NEW r \in Products, Owner(m, r) # own PROVE m.shown[r] = Stock(m, Owner(m, r))
    <3> DEFINE x == Owner(db, r)
    <3>1. Owner(m, r) = x /\ x # old /\ x # own
      BY <1>5, <1>8, <2>1 DEF Owner
    <3>2. ASSUME NEW b \in Batches
          PROVE  b \in Shelf(m, x) <=> b \in Shelf(db, x)
      <4>1. b \in Purchased(m) <=> b \in Purchased(db)
        BY <1>10 DEF Purchased
      <4>2. b \in Purchased(db) => Exists(db, b)
        BY <1>2, RowOf
      <4>3. QED
        BY <1>10, <3>1, <4>1, <4>2 DEF Shelf
    <3>3. Shelf(m, x) = Shelf(db, x)
      BY <3>2 DEF Shelf, Purchased
    <3>4. \A b \in Shelf(db, x) : m.batch[b].left = db.batch[b].left
      BY <1>2, <1>10, ShelfRow
    <3>5. Stock(m, x) = Stock(db, x)
      BY <1>2, <1>8, <3>3, <3>4, StockSame
    <3>6. QED
      BY <1>2, <1>8, <3>1, <3>5 DEF Told
  <2>2. QED
    BY <2>1 DEF Told
<1>16. NoneCancelled(db) => NoneCancelled(m)
  <2>1. Purchased(m) = Purchased(db)
    BY <1>10 DEF Purchased
  <2>2. QED
    BY <1>8, <2>1 DEF NoneCancelled, IsCancelled
<1>17. Owner(m, own) = own
  BY <1>1, <1>3, <1>5, <1>8 DEF Owner
<1>18. /\ e \in Database /\ SameOrders(m, e) /\ Keeps(m, e) /\ Told(e, {own} \ {own})
       /\ Orderly(m, e)
  BY <1>3, <1>8, <1>11, <1>15, <1>17, RebuildKeeps
<1> HIDE DEF e
<1>19. Told(e, {}) /\ Quantities(m)
  <2>1. {own} \ {own} = {}
    OBVIOUS
  <2>2. QED
    BY <1>2, <1>8, <1>18, <2>1 DEF Quantities
<1>20. Sound(e, cut)
  BY <1>11, <1>12, <1>14, <1>18, <1>19, KeepsSound
<1>21. Orderly(db, e) /\ e.order = db.order
  <2>1. Yields(db, m)
    BY <1>2, <1>8, YieldsIs
  <2>2. QED
    BY <1>2, <1>8, <1>18, <2>1, YieldsIs DEF SameOrders
<1>22. QED
  BY <1>1, <1>16, <1>18, <1>20, <1>21 DEF Keeps

LEMMA DetachKeeps ==
  ASSUME StockInv, NEW p \in Products, Detach(p)
  PROVE  /\ Sound(db', cut) /\ (NoneCancelled(db) => NoneCancelled(db'))
         /\ Orderly(db, db') /\ db'.order = db.order
<1> DEFINE own == Owner(db, p)
           leaving == IF p = own THEN Group(db, p) \ {own} ELSE {p}
           a == Apart(db, leaving)
           pool == Rebuild(a, own, leaving)
           e == RebuildAll(pool, leaving)
           O == [r \in Products |-> IF r \in leaving THEN r ELSE db.owner[r]]
<1>1. db' = e
  BY DEF Detach, Edit
<1>2. /\ db \in Database /\ Quantities(db) /\ TwoLevel(db) /\ HereIsBought(db)
      /\ Balanced(db, cut) /\ Told(db, {}) /\ Sound(db, cut)
  BY DEF StockInv, Sound
<1>3. /\ own \in Products /\ Owner(db, own) = own /\ leaving \in SUBSET Products /\ own \notin leaving
  BY <1>2, Fields DEF TwoLevel, Owner, Group
<1> HIDE DEF own, leaving
<1>4. a = [db EXCEPT !.owner = O]
  BY DEF Apart
<1>5. /\ O \in [Products -> Products]
      /\ \A r \in Products : O[r] = IF r \in leaving THEN r ELSE Owner(db, r)
  BY <1>2, <1>3, Fields DEF Owner
<1> HIDE DEF O, a
<1>6. /\ a \in Database /\ a.owner = O /\ SameStock(db, a) /\ a.order = db.order
      /\ a.line = db.line /\ a.shown = db.shown
  BY <1>2, <1>4, <1>5 DEF Database, SameStock
<1>7. \A b : /\ Exists(a, b) <=> Exists(db, b)
             /\ OfBatch(a, b) = OfBatch(db, b)
  BY <1>6 DEF SameStock, Exists, OfBatch
<1>8. TwoLevel(a)
  <2>1. \A r \in Products : Owner(a, r) = IF r \in leaving THEN r ELSE Owner(db, r)
    BY <1>5, <1>6 DEF Owner
  <2>2. \A r \in Products : Owner(db, r) \in Products /\ Owner(db, Owner(db, r)) = Owner(db, r)
    BY <1>2, Fields DEF TwoLevel, Owner
  <2>3. \A r \in Products : Owner(a, Owner(a, r)) = Owner(a, r)
    BY <2>1, <2>2
  <2>4. ASSUME NEW b \in Batches, Exists(a, b) PROVE Owner(a, a.batch[b].owner) = a.batch[b].owner
    <3>1. Exists(db, b) /\ a.batch[b] = db.batch[b] /\ db.batch[b] \in Batch
      BY <1>2, <1>6, <1>7, <2>4, RowOf DEF SameStock
    <3>2. db.batch[b].owner \in Products /\ Owner(db, db.batch[b].owner) = db.batch[b].owner
      BY <1>2, <3>1 DEF Batch, TwoLevel
    <3>3. QED
      BY <2>1, <3>1, <3>2
  <2>5. QED
    BY <2>3, <2>4 DEF TwoLevel
<1>9. HereIsBought(a)
  BY <1>2, <1>6, <1>7 DEF HereIsBought, SameStock
<1>10. Balanced(a, cut)
  <2>1. \A b \in Batches : (Sparing(db, b) => Sparing(a, b)) /\ (Even(db, b) => Even(a, b))
    BY <1>6, <1>7 DEF Sparing, Even, SameStock
  <2>2. QED
    BY <1>2, <2>1 DEF Balanced
<1>11. Told(a, leaving)
  <2>1. \A q : Stock(a, q) = Stock(db, q)
    BY <1>6 DEF Stock, Shelf, Purchased, SameStock
  <2>2. \A r \in Products : Owner(a, r) \notin leaving => Owner(a, r) = Owner(db, r)
    BY <1>5, <1>6 DEF Owner
  <2>3. QED
    BY <1>2, <1>6, <2>1, <2>2 DEF Told
<1>12. NoneCancelled(db) => NoneCancelled(a)
  BY <1>6 DEF NoneCancelled, IsCancelled, SameStock, Purchased
<1>13. Owner(a, own) = own /\ \A r \in leaving : Owner(a, r) = r
  BY <1>3, <1>5, <1>6 DEF Owner
<1>14. /\ pool \in Database /\ SameOrders(a, pool) /\ Keeps(a, pool)
       /\ Told(pool, leaving \ {own})
       /\ SameRows(a, pool) /\ Orderly(a, pool) /\ Within(a, pool, {own})
  BY <1>3, <1>6, <1>8, <1>11, <1>13, RebuildKeeps
<1> HIDE DEF pool
<1>15. Told(pool, leaving)
  BY <1>14, ToldLess
<1>16. TwoLevel(pool) /\ \A r \in leaving : Owner(pool, r) = r
  BY <1>8, <1>13, <1>14 DEF Keeps, SameOrders, Owner
<1>17. /\ e \in Database /\ SameOrders(pool, e) /\ Keeps(pool, e)
       /\ Told(pool, leaving) => Told(e, {})
       /\ SameRows(pool, e) /\ Orderly(pool, e) /\ Within(pool, e, leaving)
  BY <1>3, <1>14, <1>16, RebuildAllKeeps
<1> HIDE DEF e
<1>18. SameOrders(a, e) /\ Keeps(a, e)
  BY <1>14, <1>17, KeepsTrans
<1>19. Quantities(a)
  BY <1>2, <1>6 DEF Quantities
<1>20. Sound(e, cut)
  BY <1>8, <1>9, <1>10, <1>15, <1>17, <1>18, <1>19, KeepsSound
<1>21. Orderly(db, e) /\ e.order = db.order
  <2>1. Orderly(a, e)
    <3>1. {own} \cap leaving = {} /\ pool.order = a.order
      BY <1>3, <1>14 DEF SameOrders
    <3>2. QED
      BY <1>6, <1>14, <1>17, <3>1, OrderlyThen
  <2>2. Yields(db, a)
    BY <1>2, <1>6, YieldsIs DEF SameStock
  <2>3. QED
    BY <1>2, <1>6, <1>17, <1>18, <2>1, <2>2, YieldsIs DEF SameOrders
<1>22. QED
  BY <1>1, <1>12, <1>18, <1>20, <1>21 DEF Keeps

-----------------------------------------------------------------------------
\* The empty tables are sound.
LEMMA EmptySound ==
  ASSUME NEW owners \in [Products -> Products],
         \A p \in Products : owners[owners[p]] = owners[p],
         NEW d, d = Empty(owners)
  PROVE  Sound(d, {}) /\ NoneCancelled(d)
<1>1. /\ d.owner = owners /\ d.batch = [b \in Batches |-> NoBatch]
      /\ d.alloc = [l \in Lines |-> [b \in Batches |-> 0]]
      /\ d.order = [o \in Orders |-> [status |-> "absent", manual |-> "none"]]
      /\ d.line = [l \in Lines |-> [product |-> NoProduct, quantity |-> 0]]
      /\ d.shown = [p \in Products |-> 0]
  BY DEF Empty
<1>2. d \in Database
  <2>1. [o \in Orders |-> [status |-> "absent", manual |-> "none"]]
           \in [Orders -> [status : Status, manual : Manual \cup {"none"}]]
    BY DEF Status
  <2>2. d = [owner |-> d.owner, batch |-> d.batch, alloc |-> d.alloc, order |-> d.order,
             line |-> d.line, shown |-> d.shown]
    BY DEF Empty
  <2>3. QED
    BY <1>1, <2>1, <2>2 DEF Database
<1>3. Quantities(d)
  BY <1>1 DEF Quantities
<1>4. \A b \in Batches : ~Exists(d, b) /\ b \notin Purchased(d)
  <2>1. NoBatch.kind = "none"
    BY DEF NoBatch
  <2>2. QED
    BY <1>1, <2>1 DEF Exists, Purchased
<1>5. TwoLevel(d) /\ HereIsBought(d)
  BY <1>1, <1>4 DEF TwoLevel, HereIsBought, Owner
<1>6. Balanced(d, {})
  <2>1. \A b \in Batches : OfBatch(d, b) = 0
    BY <1>1, <1>2, NothingOf
  <2>2. QED
    BY <1>4, <2>1 DEF Balanced, Sparing, Even
<1>7. Told(d, {})
  <2>1. ASSUME NEW p PROVE Stock(d, p) = 0
    <3> DEFINE f == [b \in Shelf(d, p) |-> d.batch[b].left]
    <3>1. Shelf(d, p) = {}
      BY <1>4 DEF Shelf, Purchased
    <3>2. f \in [Shelf(d, p) -> Nat] /\ \A b \in Shelf(d, p) : f[b] = 0
      BY <3>1
    <3>3. IsFiniteSet(Shelf(d, p))
      BY <3>1, FS_EmptySet
    <3> HIDE DEF f
    <3>4. Total(f) = 0
      BY <3>2, <3>3, TotalZero
    <3>5. QED
      BY <3>4 DEF f, Stock
  <2>2. QED
    BY <1>1, <2>1 DEF Told
<1>8. NoneCancelled(d)
  BY <1>4 DEF NoneCancelled, Purchased
<1>9. QED
  BY <1>2, <1>3, <1>5, <1>6, <1>7, <1>8 DEF Sound

LEMMA StockInit ==
  ASSUME Init
  PROVE  StockInv /\ NoneCancelled(db)
<1>1. PICK owners \in [Products -> Products] :
        (\A p \in Products : owners[owners[p]] = owners[p]) /\ db = Empty(owners)
  BY DEF Init
<1>2. Sound(db, {}) /\ NoneCancelled(db)
  BY <1>1, EmptySound
<1>3. cut = {} /\ reads = [i \in Importers |-> NoRead] /\ edits = 0 /\ late = FALSE
  BY DEF Init
<1>4. TypeOK
  <2>1. edits \in 0..MaxEdits
    BY <1>3, InventoryAssumption
  <2>2. QED
    BY <1>2, <1>3, <2>1, TypeQuantities DEF Sound
<1>5. QED
  BY <1>2, <1>3, <1>4 DEF StockInv

LEMMA LateType ==
  ASSUME late \in BOOLEAN, Next
  PROVE  late' \in BOOLEAN
<1>1. \A d : Edit(d) \/ Commit(d) => late' = late
  BY DEF Edit, Commit
<1>2. ASSUME NEW i, TakeStock(i) PROVE late' \in BOOLEAN
  <2>1. \A o : Blocks(db, o) \in BOOLEAN
    BY DEF Blocks
  <2>2. QED
    BY <1>2, <2>1 DEF TakeStock
<1>3. ASSUME NEW i, ReadLine(i) PROVE late' = late
  BY <1>3 DEF ReadLine
<1>4. ASSUME NEW o, Import(o) PROVE late' = late
  BY <1>1, <1>4, ZenonT(60) DEF Import
<1>5. ASSUME NEW o, Override(o) PROVE late' = late
  BY <1>1, <1>5 DEF Override
<1>6. ASSUME NEW l, Relink(l) PROVE late' = late
  BY <1>1, <1>6 DEF Relink
<1>7. ASSUME NEW p, AddBatch(p) PROVE late' = late
  BY <1>1, <1>7, ZenonT(60) DEF AddBatch
<1>8. ASSUME NEW p, Detach(p) PROVE late' = late
  BY <1>1, <1>8, ZenonT(60) DEF Detach
<1>9. ASSUME NEW p, NEW q, Merge(p, q) PROVE late' = late
  BY <1>1, <1>9 DEF Merge
<1>10. ASSUME NEW b, ReceiveBatch(b) \/ EditBatch(b) \/ DeleteBatch(b) PROVE late' = late
  BY <1>1, <1>10, ZenonT(60) DEF ReceiveBatch, EditBatch, DeleteBatch
<1>11. ASSUME NEW b, NEW l, Manufacture(b, l) PROVE late' = late
  BY <1>1, <1>11 DEF Manufacture
<1>12. QED
  BY <1>2, <1>3, <1>4, <1>5, <1>6, <1>7, <1>8, <1>9, <1>10, <1>11, ZenonT(60) DEF Next

\* Every transaction, and every read of an import, keeps the invariant.
LEMMA StockStep ==
  ASSUME StockInv, Next
  PROVE  StockInv'
<1>1. /\ reads \in [Importers -> {NoRead} \cup [needed : Nat, line : Lines]]
      /\ cut \subseteq Batches /\ edits \in 0..MaxEdits /\ MaxEdits \in Nat
  BY InventoryAssumption DEF StockInv, TypeOK
<1>17. late' \in BOOLEAN
  BY LateType DEF StockInv, TypeOK
<1>2. SUFFICES /\ Sound(db', cut')
               /\ reads' \in [Importers -> {NoRead} \cup [needed : Nat, line : Lines]]
               /\ cut' \subseteq Batches /\ edits' \in 0..MaxEdits
  BY <1>17 DEF StockInv, TypeOK, Sound, Quantities
<1>3. ASSUME NEW d, Edit(d) PROVE edits' \in 0..MaxEdits /\ reads' = reads
  BY <1>1, <1>3 DEF Edit
<1>4. CASE \E o \in Orders : Import(o)
  BY <1>1, <1>4, ImportKeeps, ZenonT(60) DEF Import, Commit
<1>5. CASE \E o \in Orders : Override(o)
  BY <1>1, <1>5, OverrideKeeps DEF Override, Commit
<1>6. CASE \E i \in Importers : ReadLine(i)
  <2>1. PICK i \in Importers : ReadLine(i)
    BY <1>6
  <2>2. PICK l \in Lines : /\ Needed(db, l) > 0
                           /\ reads' = [reads EXCEPT ![i] = [needed |-> Needed(db, l), line |-> l]]
    BY <2>1 DEF ReadLine
  <2>3. Needed(db, l) \in Nat
    <3>1. db.line[l] \in [product : Products \cup {NoProduct}, quantity : Nat]
      BY Fields DEF StockInv, TypeOK
    <3>2. db.line[l].quantity \in Nat /\ OfLine(db, l) \in Nat
      BY <3>1, SumsType DEF StockInv, TypeOK
    <3>3. QED
      BY <3>2 DEF Needed, Monus
  <2>4. db' = db /\ cut' = cut /\ edits' = edits
    BY <2>1 DEF ReadLine
  <2>5. Sound(db', cut')
    BY <2>4 DEF StockInv
  <2>6. QED
    BY <1>1, <2>2, <2>3, <2>4, <2>5
<1>7. CASE \E i \in Importers : TakeStock(i)
  <2>1. PICK i \in Importers : TakeStock(i)
    BY <1>7
  <2>2. Sound(db', cut)
    BY <2>1, TakeStockKeeps
  <2>3. reads' = [reads EXCEPT ![i] = NoRead] /\ cut' = cut /\ edits' = edits
    BY <2>1 DEF TakeStock
  <2>4. QED
    BY <1>1, <2>2, <2>3
<1>8. CASE \E l \in Lines : Relink(l)
  <2>1. PICK l \in Lines : Relink(l)
    BY <1>8
  <2>2. Sound(db', cut) /\ cut' = cut
    BY <2>1, RelinkKeeps DEF Relink
  <2>3. QED
    BY <1>1, <1>3, <2>1, <2>2 DEF Relink
<1>9. CASE \E p \in Products : AddBatch(p)
  BY <1>1, <1>9, AddBatchKeeps DEF AddBatch, Commit
<1>10. CASE \E p \in Products : Detach(p)
  <2>1. PICK p \in Products : Detach(p)
    BY <1>10
  <2>2. Sound(db', cut) /\ cut' = cut
    BY <2>1, DetachKeeps DEF Detach
  <2>3. QED
    BY <1>1, <1>3, <2>1, <2>2 DEF Detach
<1>11. CASE \E p, q \in Products : Merge(p, q)
  <2>1. PICK p \in Products, q \in Products : Merge(p, q)
    BY <1>11
  <2>2. Sound(db', cut) /\ cut' = cut
    BY <2>1, MergeKeeps DEF Merge
  <2>3. QED
    BY <1>1, <1>3, <2>1, <2>2 DEF Merge
<1>12. CASE \E b \in Batches : ReceiveBatch(b)
  BY <1>1, <1>12, ReceiveBatchKeeps DEF ReceiveBatch, Commit
<1>13. CASE \E b \in Batches : EditBatch(b)
  <2>1. PICK b \in Batches : EditBatch(b)
    BY <1>13
  <2>2. Sound(db', cut') /\ cut' \subseteq Batches
    BY <2>1, EditBatchKeeps
  <2>3. QED
    BY <1>1, <1>3, <2>1, <2>2 DEF EditBatch
<1>14. CASE \E b \in Batches : DeleteBatch(b)
  <2>1. PICK b \in Batches : DeleteBatch(b)
    BY <1>14
  <2>2. Sound(db', cut') /\ cut' \subseteq Batches
    BY <2>1, DeleteBatchKeeps
  <2>3. QED
    BY <1>1, <1>3, <2>1, <2>2 DEF DeleteBatch
<1>15. CASE \E b \in Batches, l \in Lines : Manufacture(b, l)
  BY <1>1, <1>15, ManufactureKeeps DEF Manufacture, Commit
<1>16. QED
  BY <1>4, <1>5, <1>6, <1>7, <1>8, <1>9, <1>10, <1>11, <1>12, <1>13, <1>14, <1>15 DEF Next

\* In every reachable state the tables are sound: types, quantities, pools,
\* balance of the batches, and the feed.
THEOREM StockInvariant == Spec => []StockInv
<1>1. Init => StockInv
  BY StockInit
<1>2. StockInv /\ [Next]_vars => StockInv'
  <2>1. ASSUME StockInv, UNCHANGED vars PROVE StockInv'
    BY <2>1 DEF vars, StockInv, TypeOK, Sound, Quantities
  <2>2. QED
    BY <2>1, StockStep
<1>3. QED
  BY <1>1, <1>2, PTL DEF Spec

\* Type correctness: no amount on a shelf or in an allocation is negative,
\* although what is left of a batch is computed by subtraction.
THEOREM InventoryTypeOK == Spec => []TypeOK
<1>1. StockInv => TypeOK
  BY DEF StockInv
<1>2. QED
  BY <1>1, StockInvariant, PTL

\* No unit is lost or invented by any sequence of imports, overrides, receipts,
\* edits, deletions, merges and splits: what a batch that is here was received
\* with is on its shelf or allocated, also after a rebuild of its pool; only a
\* batch that was edited below its obligations is excepted.
THEOREM StockIsConserved == Spec => []StockConserved
<1>1. StockInv => StockConserved
  BY DEF StockInv, Sound, Balanced, Sparing, Even, StockConserved
<1>2. QED
  BY <1>1, StockInvariant, PTL

\* Merging, splitting and receiving never leave a batch with a card that is not
\* the owner of its pool, where no endpoint and no allocation would find it.
THEOREM BatchesReachable == Spec => []BatchesStayReachable
<1>1. StockInv => BatchesStayReachable
  BY DEF StockInv, Sound, TwoLevel, BatchesStayReachable
<1>2. QED
  BY <1>1, StockInvariant, PTL

\* After every transaction each card shows the stock of its pool: every service
\* tells the feed about all the pools whose stock it has changed.
THEOREM FeedIsTold == Spec => []FeedShowsStock
<1>1. StockInv => FeedShowsStock
  BY DEF StockInv, Sound, Told, FeedShowsStock
<1>2. QED
  BY <1>1, StockInvariant, PTL

\* Every committed transaction takes the oldest batches first.
LEMMA StepOldest ==
  ASSUME StockInv, Next
  PROVE  OldestUsed(db, db')
<1>1. CASE \E o \in Orders : Import(o) \/ Override(o)
  BY <1>1, ImportKeeps, OverrideKeeps DEF Orderly
<1>2. CASE \E i \in Importers : ReadLine(i)
  <2>1. db' = db /\ db \in Database
    BY <1>2 DEF ReadLine, StockInv, TypeOK
  <2>2. Orderly(db, db')
    BY <2>1, YieldsIs
  <2>3. QED
    BY <2>2 DEF Orderly
<1>3. CASE \E i \in Importers : TakeStock(i)
  BY <1>3, TakeStockKeeps
<1>4. CASE \E l \in Lines : Relink(l)
  BY <1>4, RelinkKeeps DEF Orderly
<1>5. CASE \E p \in Products : AddBatch(p) \/ Detach(p)
  BY <1>5, AddBatchKeeps, DetachKeeps DEF Orderly
<1>6. CASE \E p, q \in Products : Merge(p, q)
  BY <1>6, MergeKeeps DEF Orderly
<1>7. CASE \E b \in Batches : ReceiveBatch(b) \/ EditBatch(b)
  BY <1>7, ReceiveBatchKeeps, EditBatchKeeps DEF Orderly
<1>8. CASE \E b \in Batches : DeleteBatch(b)
  BY <1>8, DeleteBatchKeeps
<1>9. CASE \E b \in Batches, l \in Lines : Manufacture(b, l)
  BY <1>9, ManufactureKeeps DEF Orderly
<1>10. QED
  BY <1>1, <1>2, <1>3, <1>4, <1>5, <1>6, <1>7, <1>8, <1>9 DEF Next

\* Units leave a pool oldest batch first, whichever operation allocates them
\* and however many lines it serves at once, and even when an import takes
\* stock that others have changed since it read its need.
THEOREM OldestFirstOut == Spec => FifoTaken
<1>1. StockInv /\ [Next]_vars => [OldestFirst]_vars
  <2>1. ASSUME StockInv, Next PROVE OldestFirst
    BY <2>1, StepOldest DEF OldestUsed, OldestFirst
  <2>2. QED
    BY <2>1
<1>2. QED
  BY <1>1, StockInvariant, PTL DEF Spec, FifoTaken

-----------------------------------------------------------------------------
\* What holds of the orders, and until an import serves a line late.
LateInv ==
  /\ StagesFit(db)
  /\ ~late => NoneCancelled(db)

\* It is inductive together with StockInv.
LEMMA LateStep ==
  ASSUME StockInv, LateInv, Next
  PROVE  LateInv'
<1>1. ASSUME late' = late, NoneCancelled(db) => NoneCancelled(db'), StagesFit(db) => StagesFit(db')
      PROVE  LateInv'
  BY <1>1 DEF LateInv, NoneCancelled, IsCancelled, Purchased, StagesFit
<1>2. db'.order = db.order => (StagesFit(db) => StagesFit(db'))
  BY DEF StagesFit
<1>3. CASE \E o \in Orders : Import(o)
  BY <1>1, <1>3, ImportKeeps, ZenonT(60) DEF Import, Commit
<1>4. CASE \E o \in Orders : Override(o)
  BY <1>1, <1>4, OverrideKeeps DEF Override, Commit
<1>5. CASE \E i \in Importers : ReadLine(i)
  <2>1. db' = db /\ late' = late
    BY <1>5 DEF ReadLine
  <2>2. QED
    BY <1>1, <2>1
<1>6. CASE \E i \in Importers : TakeStock(i)
  <2>1. PICK i \in Importers : TakeStock(i)
    BY <1>6
  <2>2. late' = (late \/ Blocks(db, OrderOf[reads[i].line]))
    BY <2>1 DEF TakeStock
  <2>3. SameOrders(db, db')
    BY <2>1, TakeStockKeeps
  <2>4. StagesFit(db')
    BY <2>3 DEF SameOrders, StagesFit, LateInv
  <2>5. ASSUME ~late' PROVE NoneCancelled(db')
    BY <2>1, <2>2, <2>5, TakeStockKeeps DEF LateInv, Blocks, IsCancelled, Terminal
  <2>6. QED
    BY <2>4, <2>5 DEF LateInv, NoneCancelled, IsCancelled, Purchased, StagesFit
<1>7. CASE \E l \in Lines : Relink(l)
  BY <1>1, <1>2, <1>7, RelinkKeeps DEF Relink, Edit
<1>8. CASE \E p \in Products : AddBatch(p)
  BY <1>1, <1>2, <1>8, AddBatchKeeps DEF AddBatch, Commit
<1>9. CASE \E p \in Products : Detach(p)
  BY <1>1, <1>2, <1>9, DetachKeeps DEF Detach, Edit
<1>10. CASE \E p, q \in Products : Merge(p, q)
  BY <1>1, <1>2, <1>10, MergeKeeps DEF Merge, Edit
<1>11. CASE \E b \in Batches : ReceiveBatch(b)
  BY <1>1, <1>2, <1>11, ReceiveBatchKeeps DEF ReceiveBatch, Commit
<1>12. CASE \E b \in Batches : EditBatch(b)
  <2>1. PICK b \in Batches : EditBatch(b)
    BY <1>12
  <2>2. (NoneCancelled(db) => NoneCancelled(db')) /\ db'.order = db.order
    BY <2>1, EditBatchKeeps
  <2>3. late' = late
    BY <2>1 DEF EditBatch, Edit
  <2>4. QED
    BY <1>1, <1>2, <2>2, <2>3
<1>13. CASE \E b \in Batches : DeleteBatch(b)
  BY <1>1, <1>2, <1>13, DeleteBatchKeeps DEF DeleteBatch, Edit
<1>14. CASE \E b \in Batches, l \in Lines : Manufacture(b, l)
  BY <1>1, <1>2, <1>14, ManufactureKeeps DEF Manufacture, Commit
<1>15. QED
  BY <1>3, <1>4, <1>5, <1>6, <1>7, <1>8, <1>9, <1>10, <1>11, <1>12, <1>13, <1>14 DEF Next

LEMMA LateInvariant == Spec => [](StockInv /\ LateInv)
<1>1. Init => StockInv /\ LateInv
  <2>1. ASSUME Init PROVE LateInv
    <3>1. StagesFit(db)
      BY <2>1 DEF Init, Empty, StagesFit
    <3>2. QED
      BY <2>1, <3>1, StockInit DEF LateInv
  <2>2. QED
    BY <2>1, StockInit
<1>2. (StockInv /\ LateInv) /\ [Next]_vars => (StockInv /\ LateInv)'
  <2>1. ASSUME StockInv, LateInv, UNCHANGED vars PROVE StockInv' /\ LateInv'
    <3>1. StockInv'
      BY <2>1 DEF vars, StockInv, TypeOK, Sound, Quantities
    <3>2. LateInv'
      BY <2>1 DEF vars, LateInv, NoneCancelled, IsCancelled, Purchased, StagesFit
    <3>3. QED
      BY <3>1, <3>2
  <2>2. QED
    BY <2>1, StockStep, LateStep
<1>3. QED
  BY <1>1, <1>2, PTL DEF Spec

\* An order that is cancelled, by Kaspi or by the owner, holds no purchased unit
\* after the transaction that cancels it, nor takes any later: no rebuild,
\* receipt or merge serves its lines again, and no import does whose read was
\* of the order before. Only an import that read a line before the cancellation
\* and locks the batches after it breaks this.
THEOREM CancelledGivesBack == Spec => []CancelledHoldsNothing
<1>1. LateInv => CancelledHoldsNothing
  BY DEF LateInv, NoneCancelled, CancelledHoldsNothing
<1>2. QED
  BY <1>1, LateInvariant, PTL

\* No transaction moves returned goods.
LEMMA StepRests ==
  ASSUME StockInv, LateInv, Next, ~late'
  PROVE  ReturnsUntouched
<1>1. \A l \in Lines : db.order[OrderOf[l]].status = "returned" => Resting(db, l)
  BY OrderOfType DEF LateInv, StagesFit, Resting, Incoming
<1>2. ASSUME Orderly(db, db') PROVE ReturnsUntouched
  BY <1>1, <1>2 DEF Orderly, ReturnsUntouched
<1>3. CASE \E o \in Orders : Import(o) \/ Override(o)
  BY <1>2, <1>3, ImportKeeps, OverrideKeeps
<1>4. CASE \E i \in Importers : ReadLine(i)
  BY <1>4 DEF ReadLine, ReturnsUntouched
<1>5. CASE \E i \in Importers : TakeStock(i)
  <2>1. PICK i \in Importers : TakeStock(i)
    BY <1>5
  <2>2. ~Blocks(db, OrderOf[reads[i].line])
    BY <2>1 DEF TakeStock
  <2>3. QED
    BY <1>2, <2>1, <2>2, TakeStockKeeps
<1>6. CASE \E l \in Lines : Relink(l)
  BY <1>2, <1>6, RelinkKeeps
<1>7. CASE \E p \in Products : AddBatch(p) \/ Detach(p)
  BY <1>2, <1>7, AddBatchKeeps, DetachKeeps
<1>8. CASE \E p, q \in Products : Merge(p, q)
  BY <1>2, <1>8, MergeKeeps
<1>9. CASE \E b \in Batches : ReceiveBatch(b) \/ EditBatch(b)
  BY <1>2, <1>9, ReceiveBatchKeeps, EditBatchKeeps
<1>10. CASE \E b \in Batches : DeleteBatch(b)
  BY <1>10, DeleteBatchKeeps DEF DeleteBatch, ReturnsUntouched
<1>11. CASE \E b \in Batches, l \in Lines : Manufacture(b, l)
  BY <1>2, <1>11, ManufactureKeeps
<1>12. QED
  BY <1>3, <1>4, <1>5, <1>6, <1>7, <1>8, <1>9, <1>10, <1>11 DEF Next

\* Goods that were returned stay allocated to their line through every operation
\* on stock, orders and pools, until a batch is deleted: rebuilding a pool
\* deletes and recomputes the allocations of all its other lines. Only an
\* import that read a line before its order was returned or cancelled and locks
\* the batches after it breaks this.
THEOREM ReturnsRest == Spec => ReturnsStayAllocated
<1>1. StockInv /\ LateInv /\ [Next]_vars => [~late' => ReturnsUntouched]_vars
  BY StepRests
<1>2. QED
  BY <1>1, LateInvariant, PTL DEF Spec, ReturnsStayAllocated
=============================================================================
