----------------------------- MODULE PriceRules -----------------------------
(***************************************************************************)
(* The price rules of Fast Dumping as operators without state: the safe    *)
(* floor, the ordinary rule with its tariff jump and its two own shops,    *)
(* the profit-first automation with the shared cycle of the two shops, and *)
(* the position of a preorder.  Prices and costs are whole tenge; profits  *)
(* are in hundredths of a tenge, so that the 85% that remain after         *)
(* commission and tax stay integers.                                       *)
(*                                                                         *)
(* A market is a record: own and peer are the prices of the shop and of    *)
(* the owner's other shop (0 when it does not sell), rivals the sequence,  *)
(* sorted by price, of the external sellers [price, later], where later is *)
(* by how many days a seller delivers after us (0 when earlier, equal or   *)
(* unknown), and complete whether the scan saw every seller.               *)
(***************************************************************************)
EXTENDS Integers, Sequences, FiniteSetsExt

CONSTANTS MinProfit,   \* minimum_profit_kzt
          Step,        \* undercut_step_kzt of the ordinary rule
          MaxGap,      \* max_undercut_gap_percent
          Band,        \* owned_price_band_kzt
          Position,    \* preorder_target_position
          MaxPrice     \* maximum_price_kzt of the automation

ASSUME RulesAssumption == /\ MinProfit \in Nat /\ Step \in Nat \ {0}
                          /\ MaxGap \in 1 .. 100 /\ Band \in Nat \ {0}
                          /\ Position \in 1 .. 50 /\ MaxPrice \in Nat \ {0}

-----------------------------------------------------------------------------
(* Tariff and floor. *)

Breaks == {1000, 3000, 5000, 10000}

Tariff(p) == CASE p < 1000  -> 57
               [] p < 3000  -> 173
               [] p < 5000  -> 231
               [] p < 10000 -> 927
               [] OTHER     -> 1507

Profit(p, cost) == 85 * p - 100 * Tariff(p) - 100 * cost

\* The least price of the band that begins at b and reaches the minimum.
\* Variant: the division rounds down.
InBandDown(b, cost) == Max({b, (100 * (cost + MinProfit + Tariff(b))) \div 85})
InBand(b, cost) == Max({b, (100 * (cost + MinProfit + Tariff(b)) + 84) \div 85})

\* The first tariff band that holds such a price gives the floor.
SafeFloor(cost) ==
  Min({p \in {InBand(b, cost) : b \in {0} \cup Breaks} :
         \E b \in {0} \cup Breaks : p = InBand(b, cost) /\ Tariff(p) = Tariff(b)})

-----------------------------------------------------------------------------
(* The ordinary rule. *)

Wait(own) == [target |-> own, write |-> FALSE]
Want(p) == [target |-> p, write |-> TRUE]

\* A fall of more than MaxGap percent, rounded to hundredths of a percent.
TooDeep(own, p) == p < own /\ 20000 * (own - p) > (200 * MaxGap + 1) * own

\* A price just above a tariff border moves below it if the floor allows it.
Jumped(p, floor) ==
  LET at == {b \in Breaks : b <= p /\ p <= b + Tariff(b) /\ floor <= b - 1}
  IN IF at = {} THEN p ELSE Max(at) - 1

\* One step below the rival, never below the floor; rival 0 is no rival.
Undercut(own, rival, floor, raise) ==
  LET market == Max({floor, rival - Step})
      target == IF market > own /\ ~raise THEN own
                ELSE IF market < own THEN Jumped(market, floor) ELSE market
  IN IF rival = 0 \/ TooDeep(own, rival) \/ TooDeep(own, target) THEN Wait(own)
     ELSE Want(target)

\* Sellers that deliver later than we do set no price (their places), and the
\* cheapest of the others, 0 when there is none.
Eligible(m) == {i \in DOMAIN m.rivals : m.rivals[i].later = 0}
Cheapest(m) == IF Eligible(m) = {} THEN 0 ELSE m.rivals[Min(Eligible(m))].price

\* With every seller seen it is the cheapest eligible one, otherwise only the
\* one the agent had chosen (the cheapest row), if it is eligible.
Selected(m) ==
  IF m.complete \/ 1 \in Eligible(m) THEN Cheapest(m) ELSE 0

\* Two own shops undercut each other inside a band below an anchor, the
\* cheapest eligible seller or the saved start, and then both go back to it.
Group(m, floor, saved) ==
  LET external == Cheapest(m)
      anchor   == IF external # 0 THEN external ELSE Max({saved, m.own, m.peer})
      border   == anchor - Band
      rival    == IF external # 0 /\ Selected(m) # 0
                    THEN Min({Selected(m), m.peer}) ELSE m.peer
      plain    == Undercut(m.own, rival, floor, TRUE)
      last     == Max({floor, border - Step})
  IN IF anchor > floor /\ Min({m.own, m.peer}) < border THEN Want(anchor)
     ELSE IF (external = 0 \/ m.peer < anchor) /\ plain.write /\ plain.target < last
       THEN Want(last)
     ELSE plain

Manual(m, cost, saved, raise) ==
  IF m.peer # 0 THEN Group(m, SafeFloor(cost), saved)
  ELSE Undercut(m.own, Selected(m), SafeFloor(cost), raise)

\* The saved start: the cheapest seller of the last scan, or the highest own
\* price since there was one.
Anchored(m, saved) == IF m.rivals # << >> THEN Head(m.rivals).price
                      ELSE Max({saved, m.own, m.peer})

-----------------------------------------------------------------------------
(* Automation of one shop. *)

\* What a buyer may pay more for a delivery that is `later` days earlier.
Premium(r) == Min({2000, 500 * r.later, (r.price * Min({15, 5 * r.later})) \div 100})
Cap(r) == IF r.later = 0 THEN r.price - 1 ELSE r.price + Premium(r)

Third(rivals) == rivals[Min({3, Len(rivals)})]

\* The highest price the sellers leave us: below each that delivers as fast,
\* within the premium over the third (over every one when two shops agree),
\* and at least third by price.
Ceiling(m) ==
  LET R == {m.rivals[i] : i \in DOMAIN m.rivals}
  IN Min({MaxPrice} \cup {Cap(r) : r \in {q \in R : q.later = 0 \/ m.peer # 0}}
           \cup (IF m.peer = 0 /\ R # {} THEN {Cap(Third(m.rivals))} ELSE {})
           \cup (IF Len(m.rivals) >= 3 THEN {m.rivals[3].price - 1} ELSE {}))

\* The most profitable of a price and the prices just below a tariff border.
Best(top, low, cost) ==
  LET S == {top} \cup {p \in {b - 1 : b \in Breaks} : low <= p /\ p <= top}
  IN CHOOSE p \in S : \A q \in S : \/ Profit(q, cost) < Profit(p, cost)
                                   \/ Profit(q, cost) = Profit(p, cost) /\ q <= p

-----------------------------------------------------------------------------
(* The shared cycle of two shops in automation: up by a hundred together,  *)
(* then down again one tenge at a time while external sellers press.  A    *)
(* cycle is [base, phase, at], at being the scan that last changed it.     *)

NoCycle == [base |-> 0, phase |-> "none", at |-> 0]

Started(m, t) == [base  |-> Max({Min({m.own, m.peer}), Max({m.own, m.peer}) - 1}),
                  phase |-> "raise", at |-> t]

\* The cycle at the beginning of a decision: a new one when there is none, and
\* again when both shops have left the old one upwards.
Base(m, cycle, t) ==
  IF cycle = NoCycle \/ Min({m.own, m.peer}) > cycle.base + 101
    THEN Started(m, t) ELSE cycle

\* Today's leader keeps one tenge of the ceiling for itself.
Reserved(ceiling, floor, leads) == IF leads /\ ceiling > floor THEN ceiling - 1 ELSE ceiling

\* Where the shop with that slot arrives when the cycle goes up.
Summit(c, slot, top, floor, cost) ==
  Best(Min({c.base + 100 + slot, top}), Max({c.base, floor}), cost)

\* The cycle after its change of phase, if the two prices call for one.
Turned(m, c, ceiling, floor, cost, leads, t) ==
  LET low == Max({c.base, floor})
      mine == IF leads THEN 0 ELSE 1
      At(slot) == Summit(c, slot, Max({floor, ceiling - (1 - slot)}), floor, cost)
      both == m.own >= At(mine) /\ m.peer >= At(1 - mine)
  IN IF c.phase = "raise" /\ both THEN [c EXCEPT !.phase = "step", !.at = t]
     ELSE IF c.phase = "step" /\ Min({m.own, m.peer}) <= low
       THEN [c EXCEPT !.phase = "raise", !.at = t]
     ELSE c

\* One tenge below the other shop, not below the start; the shop that does not
\* lead today stays above when that earns as much.
Stepped(m, c, top, upper, floor, cost, leads) ==
  LET low   == Max({c.base, floor})
      down  == IF m.own >= m.peer THEN Max({low, Min({upper, m.own, m.peer - 1})})
               ELSE Max({low, Min({m.own, top})})
      yield == Max({down, Min({upper, m.peer + 1})})
  IN IF ~leads /\ down <= m.peer /\ Profit(yield, cost) >= Profit(down, cost)
       THEN yield ELSE down

\* The price while the sellers leave it: kept, or raised to the market if that
\* earns more.
Free(m, top, floor, cost) ==
  LET kept == Max({floor, Min({m.own, top})})
      best == Best(top, floor, cost)
  IN IF best > kept /\ Profit(best, cost) > Profit(kept, cost) THEN best ELSE kept

\* The price that the phase of the cycle asks for.
\* Variant: each shop goes below the other without any pressure.
WishedRace(m, c, top, upper, floor, cost, leads) ==
  IF c.phase = "raise" THEN Max({floor, Min({top, Max({m.own, upper})})})
  ELSE Max({c.base, floor, Min({m.own, m.peer - 1})})
Wished(m, c, top, upper, floor, cost, leads) ==
  CASE c.phase = "raise" -> Max({floor, Min({top, Max({m.own, upper})})})
    [] c.phase = "step" /\ m.own <= top -> Free(m, top, floor, cost)
    [] OTHER -> Stepped(m, c, top, upper, floor, cost, leads)

\* Without room between the base and the ceiling a shop follows the market alone.
\* Variant: it never goes up again.
ApartFrozen(m, top, floor, cost) == Max({floor, Min({m.own, top})})
Apart(m, top, floor, cost) ==
  LET best == Best(top, floor, cost)
  IN IF floor <= m.own /\ m.own <= top /\ Profit(best, cost) <= Profit(m.own, cost)
       THEN m.own ELSE best

\* The decision of one of two shops.
Cycled(m, cost, cycle, leads, t) ==
  LET floor == SafeFloor(cost)
      top   == Reserved(Ceiling(m), floor, leads)
      c     == Base(m, cycle, t)
      slot  == IF leads THEN 0 ELSE 1
      upper == Summit(c, slot, top, floor, cost)
      next  == Turned(m, c, Ceiling(m), floor, cost, leads, t)
      Price(p, k) == [target |-> p, write |-> p # m.own, cycle |-> k]
  IN IF upper <= Max({c.base, floor}) THEN Price(Apart(m, top, floor, cost), c)
     ELSE Price(Wished(m, next, top, upper, floor, cost, leads), next)

\* The decision of the automation.  old: the day has changed since the scan,
\* or the other shop has changed the phase after it.
Automated(m, cost, cycle, leads, old, t) ==
  LET floor == SafeFloor(cost)
      Keep(d) == [target |-> d.target, write |-> d.write, cycle |-> cycle]
      rest == Min({Max({m.own, floor}), MaxPrice})
      best == Best(Ceiling(m), floor, cost)
  IN CASE ~m.complete -> Keep(Wait(m.own))
       [] m.complete /\ MaxPrice < floor -> Keep(Wait(Max({m.own, floor})))
       [] m.complete /\ MaxPrice >= floor /\ m.rivals = << >> ->
            Keep([target |-> rest, write |-> rest # m.own])
       [] m.complete /\ MaxPrice >= floor /\ m.rivals # << >> /\ Ceiling(m) < floor ->
            Keep([target |-> Max({m.own, floor}), write |-> m.own < floor])
       [] OTHER ->
            IF m.peer = 0 THEN Keep([target |-> best, write |-> best # m.own])
            ELSE IF old THEN Keep(Wait(m.own))
            ELSE Cycled(m, cost, cycle, leads, t)

-----------------------------------------------------------------------------
(* The position of a preorder. *)

\* The highest price that leaves Position - 1 external sellers cheaper.
Placed(m, cost, raise) ==
  LET n      == Len(m.rivals)
      floor  == SafeFloor(cost)
      P(i)   == m.rivals[i].price
      before == IF Position = 1 THEN 0 ELSE P(Position - 1)
      raw    == CASE n = 0 -> m.own
                  [] n # 0 /\ Position > n -> P(n) + Step
                  [] OTHER -> IF P(Position) - Step > before THEN P(Position) - Step
                              ELSE P(Position)
      target == Max({raw, floor})
  IN IF (target > m.own /\ ~raise) \/ TooDeep(m.own, target) THEN m.own ELSE target
=============================================================================
