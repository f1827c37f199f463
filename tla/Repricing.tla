------------------------------ MODULE Repricing ------------------------------
(***************************************************************************)
(* The closed loop of Fast Dumping for one card: the agents of the owner's *)
(* shops read the market, the CRM decides with the rules of PriceRules,    *)
(* decides again on the same snapshot just before the write, and the price *)
(* that is written is part of the market both shops read next.             *)
(*                                                                         *)
(* A job keeps the market of its scan.  The shared cycle of two shops in   *)
(* automation lives in the state row of each shop and is merged by time,   *)
(* the saved start (anchor) of two shops under the ordinary rule is each   *)
(* shop's own.  Times are kept only by their order.                        *)
(***************************************************************************)
EXTENDS PriceRules, FiniteSets

CONSTANTS Shops,       \* the owner's shops; at most two
          First,       \* the shop that leads on even days
          Markets,     \* what the external sellers may show
          Costs,       \* the sources a product may have: [kind, unit]
          Stock,       \* the source the products begin with
          Starts,      \* the prices the shops may begin with
          AllowRaise,  \* allow_price_raise
          Changes      \* bound: outside changes

ASSUME LoopAssumption ==
  /\ First \in Shops /\ IsFiniteSet(Shops) /\ Cardinality(Shops) <= 2
  /\ Stock \in Costs /\ Costs \subseteq [kind : {"inventory", "supplier"}, unit : Nat]
  /\ Markets \subseteq [rivals : Seq([price : Nat \ {0}, later : Nat]), complete : BOOLEAN]
  /\ Starts \subseteq [Shops -> Nat \ {0}]
  /\ AllowRaise \in BOOLEAN /\ Changes \in Nat

VARIABLES market,  \* the external sellers: [rivals, complete]
          sellers, \* the shops that sell the card
          price,   \* the price of each shop on Kaspi
          cost,    \* the source of each shop's product
          mode,    \* pricing_mode
          job,     \* the active job: [stage, seen, kind, target, day, at]
          cycle,   \* automation_json.owned_cycle
          anchor,  \* owned_cycle_anchor_price_kzt
          day,     \* parity of the calendar day
          left     \* outside changes that may still happen

vars == <<market, sellers, price, cost, mode, job, cycle, anchor, day, left>>

Idle == [stage |-> "idle", seen |-> [own |-> 0, peer |-> 0, rivals |-> << >>, complete |-> FALSE],
         kind |-> "none", target |-> 0, day |-> 0, at |-> 0]

Init == /\ market \in Markets
        /\ sellers \in {S \in SUBSET Shops : First \in S}
        /\ price \in Starts
        /\ cost = [s \in Shops |-> Stock]
        /\ mode \in [Shops -> {"manual", "automation"}]
        /\ job = [s \in Shops |-> Idle]
        /\ cycle = [s \in Shops |-> NoCycle]
        /\ anchor = [s \in Shops |-> 0]
        /\ day = 0
        /\ left = Changes

Leads(s) == (s = First) = (day = 0)

\* Only the order of the times is kept.
Timed(j, c) ==
  LET T == {0} \cup {j[s].at : s \in Shops} \cup {c[s].at : s \in Shops}
      Rank(t) == Cardinality({u \in T : u < t})
  IN /\ job' = [s \in Shops |-> [j[s] EXCEPT !.at = Rank(@)]]
     /\ cycle' = [s \in Shops |-> [c[s] EXCEPT !.at = Rank(@)]]

Now == 1 + Max({0} \cup {job[s].at : s \in Shops} \cup {cycle[s].at : s \in Shops})

-----------------------------------------------------------------------------
(* What the shops do not decide. *)

Outside == left > 0 /\ left' = left - 1

MarketMoves ==
  /\ Outside
  /\ market' \in Markets \ {market}
  /\ UNCHANGED <<sellers, price, cost, mode, job, cycle, anchor, day>>

\* A batch ends or arrives, a supplier changes its price.
CostChanges(s) ==
  /\ Outside
  /\ \E c \in Costs \ {cost[s]} : cost' = [cost EXCEPT ![s] = c]
  /\ UNCHANGED <<market, sellers, price, mode, job, cycle, anchor, day>>

NewDay ==
  /\ Outside
  /\ day' = 1 - day
  /\ UNCHANGED <<market, sellers, price, cost, mode, job, cycle, anchor>>

\* The owner turns the automation on or off: refused while a write is out, and
\* a job of the other mode is cancelled.  Turning it on forgets the cycle.
Switch(s) ==
  /\ Outside
  /\ job[s].stage # "handed"
  /\ \/ mode[s] = "manual" /\ mode' = [mode EXCEPT ![s] = "automation"]
        /\ Timed([job EXCEPT ![s] = Idle], [cycle EXCEPT ![s] = NoCycle])
     \/ mode[s] = "automation" /\ mode' = [mode EXCEPT ![s] = "manual"]
        /\ Timed([job EXCEPT ![s] = Idle], cycle)
  /\ UNCHANGED <<market, sellers, price, cost, anchor, day>>

-----------------------------------------------------------------------------
(* One decision. *)

\* The cycle a decision begins with: the newest of the shop's own and of those
\* in automation; a supplier's price is decided with the own one alone.
SharedCycle(s) ==
  LET known == {cycle[q] : q \in {q \in sellers : q = s \/ mode[q] = "automation"}}
  IN IF cost[s].kind = "supplier" \/ \A c \in known : c.at <= cycle[s].at THEN cycle[s]
     ELSE CHOOSE c \in known : \A d \in known : d.at <= c.at

Decision(s, seen, start, old, t) ==
  LET c == SharedCycle(s)
      Keep(d) == [target |-> d.target, write |-> d.write, cycle |-> cycle[s]]
  IN IF mode[s] = "automation"
       THEN Automated(seen, cost[s].unit, c, Leads(s), old \/ (c # NoCycle /\ t < c.at), t)
     ELSE IF cost[s].kind = "supplier"
       THEN Keep(Want(Placed(seen, cost[s].unit, AllowRaise)))
     ELSE Keep(Manual(seen, cost[s].unit, start, AllowRaise))

-----------------------------------------------------------------------------
(* The agents. *)

\* What the cards of Kaspi show to the shop's agent now.
Fresh(s) == [own |-> price[s], rivals |-> market.rivals, complete |-> market.complete,
             peer |-> IF sellers = {s} THEN 0 ELSE price[CHOOSE q \in sellers : q # s]]

Read(s) ==
  /\ s \in sellers /\ job[s].stage = "idle"
  /\ job' = [job EXCEPT ![s] = [Idle EXCEPT !.stage = "read", !.seen = Fresh(s)]]
  /\ UNCHANGED <<market, sellers, price, cost, mode, cycle, anchor, day, left>>

\* The CRM takes the scan: it is dated now, whenever the market was read.
\* A price that differs is planned; a supplier's offer is written in any case.
Complete(s) ==
  /\ job[s].stage = "read"
  /\ LET seen  == job[s].seen
         start == Anchored(seen, anchor[s])
         d     == Decision(s, seen, start, FALSE, Now)
         kind  == cost[s].kind
         plan  == \/ kind = "inventory" /\ d.write /\ d.target # seen.own
                  \/ kind = "supplier" /\ (mode[s] = "manual" \/ seen.complete)
         row   == [job[s] EXCEPT !.stage = "planned", !.kind = kind, !.target = d.target,
                                 !.day = day, !.at = Now]
     IN /\ anchor' = [anchor EXCEPT ![s] = start]
        /\ Timed([job EXCEPT ![s] = IF plan THEN row ELSE Idle],
                 [cycle EXCEPT ![s] = d.cycle])
  /\ UNCHANGED <<market, sellers, price, cost, mode, day, left>>

\* The planned target stands: the source is of the same kind and the new decision
\* d says the same.  A supplier's offer under the ordinary rule is not compared.
\* Variant: the decision of the scan is good enough for stock.
StandsAsPlanned(s, d) ==
  /\ job[s].kind = cost[s].kind
  /\ job[s].kind = "supplier" /\ mode[s] = "automation"
       => d.target = job[s].target /\ job[s].target >= SafeFloor(cost[s].unit)
Stands(s, d) ==
  /\ job[s].kind = cost[s].kind
  /\ job[s].kind = "inventory" => d.write /\ d.target = job[s].target
  /\ job[s].kind = "supplier" /\ mode[s] = "automation"
       => d.target = job[s].target /\ job[s].target >= SafeFloor(cost[s].unit)

\* The agent asks for the write: the CRM decides again on the scan's market and
\* hands the target out only if it still stands.  Under automation it also refuses
\* a market read more than 300 seconds ago; here the agents are timely, so that the
\* model hands out no less than the code.
Prepare(s) ==
  /\ job[s].stage = "planned"
  /\ LET d   == Decision(s, job[s].seen, anchor[s], day # job[s].day, job[s].at)
         row == [job[s] EXCEPT !.stage = "handed"]
     IN Timed([job EXCEPT ![s] = IF Stands(s, d) THEN row ELSE Idle],
              [cycle EXCEPT ![s] = IF job[s].kind = cost[s].kind THEN d.cycle ELSE cycle[s]])
  /\ UNCHANGED <<market, sellers, price, cost, mode, anchor, day, left>>

\* Kaspi takes the price and the agent has seen it.
Apply(s) ==
  /\ job[s].stage = "handed"
  /\ price' = [price EXCEPT ![s] = job[s].target]
  /\ Timed([job EXCEPT ![s] = Idle], cycle)
  /\ UNCHANGED <<market, sellers, cost, mode, anchor, day, left>>

-----------------------------------------------------------------------------

Next == \/ MarketMoves \/ NewDay
        \/ \E s \in Shops : CostChanges(s) \/ Switch(s)
        \/ \E s \in Shops : Read(s) \/ Complete(s) \/ Prepare(s) \/ Apply(s)

Spec == Init /\ [][Next]_vars

\* The agents go on: no job stays in a stage for ever.  (Weak fairness of the four
\* steps, whose guards are the stages; written without ENABLED, which would make
\* TLC decide a price only to learn that it can.)
FairSpec == Spec /\ \A s \in Shops : \A g \in {"idle", "read", "planned", "handed"} :
                      []<>(s \notin sellers \/ job[s].stage # g)

-----------------------------------------------------------------------------
(* Properties. *)

TypeOK ==
  /\ market \in Markets /\ sellers \subseteq Shops /\ day \in {0, 1} /\ left \in 0 .. Changes
  /\ \A s \in Shops : /\ price[s] \in Nat \ {0} /\ cost[s] \in Costs
                      /\ mode[s] \in {"manual", "automation"}
                      /\ job[s].stage \in {"idle", "read", "planned", "handed"}
                      /\ \/ cycle[s] = NoCycle
                         \/ cycle[s].base \in Nat \ {0} /\ cycle[s].phase \in {"raise", "step"}

\* The floor earns the minimum and no lower price does, across the tariff's
\* borders too (calculate_safe_floor: "the lowest sale price that preserves the
\* requested net profit").
FloorIsLeast ==
  \A s \in Shops :
    LET c == cost[s].unit
        f == SafeFloor(c)
    IN /\ Profit(f, c) >= 100 * MinProfit
       /\ \A p \in {f - 1} \cup {b - 1 : b \in {b \in Breaks : b <= f}} :
            Profit(p, c) < 100 * MinProfit

Hands(s) == job[s].stage = "planned" /\ job'[s].stage = "handed"

\* In automation the owner's shops never start a race of their own: a price goes
\* down only when the sellers of the scan no longer leave it, or when the lower
\* price earns more.
LowersForSellers ==
  [][\A s \in Shops :
       (Hands(s) /\ mode[s] = "automation" /\ job[s].target < job[s].seen.own)
         => LET floor == SafeFloor(cost[s].unit)
            IN \/ job[s].seen.own > Reserved(Ceiling(job[s].seen), floor, Leads(s))
               \/ Profit(job[s].target, cost[s].unit) > Profit(job[s].seen.own, cost[s].unit)]_vars

\* Under either rule, whatever the scan showed and whatever has changed since, no
\* price goes out for stock below the floor of what that stock costs then.
StockAboveFloor ==
  [][\A s \in Shops : Hands(s) /\ cost[s].kind = "inventory"
                        => job[s].target >= SafeFloor(cost[s].unit)]_vars

ManualPair == Cardinality(sellers) = 2 /\ \E s \in sellers : mode[s] = "manual"

\* And it rests at the most profitable price the sellers leave, for two shops when
\* no tariff border lies between the floor and that price.
AtBest(s) ==
  LET c     == cost[s].unit
      floor == SafeFloor(c)
      top   == Ceiling(Fresh(s))
      pair  == Cardinality(sellers) = 2
      room  == IF pair THEN Reserved(top, floor, Leads(s)) ELSE top
  IN (/\ s \in sellers /\ mode[s] = "automation" /\ market.complete
      /\ market.rivals # << >> /\ top >= floor /\ MaxPrice >= floor
      /\ pair => Tariff(top) = Tariff(floor))
        => price[s] = Best(room, floor, c)

EndsAtBest == \A s \in Shops : <>[]AtBest(s) \/ []<>ManualPair
=============================================================================
