---------------------------- MODULE InventoryFifo ----------------------------
(***************************************************************************)
(* Warehouse stock: batches, their first-in-first-out allocation to the    *)
(* lines of marketplace orders, and the pools that several product cards   *)
(* share (inventory_service.py, inventory_api.py, product_inventory_group, *)
(* with the order import, the manual order stages and the relinking of     *)
(* order lines that drive them).  An operator on a database d is what one  *)
(* call does inside its caller's transaction; an action commits one.  The  *)
(* import of an unchanged order is the exception: it computes what a line  *)
(* needs before it locks the batches, so another transaction may commit in *)
(* between.                                                                *)
(***************************************************************************)
EXTENDS Naturals, FiniteSets, FiniteSetsExt

CONSTANTS
  Products,      \* product cards
  NoProduct,     \* "the line is not linked to a card"
  Batches,       \* batch ids, in the order in which equally old ones are used
  Orders,        \* marketplace orders
  Lines,         \* order lines, in the order (ordered_at, order id, line id)
  OrderOf,       \* the order a line belongs to
  Matches,       \* the card that carries the line's SKU, once it is registered
  Reports,       \* the statuses Kaspi may report of an order
  Demand,        \* the quantities Kaspi may report for a line
  Amounts,       \* the quantities a batch may be created with or edited to
  Times,         \* receipt dates an operator may enter
  Now,           \* the date of a receipt confirmed now
  Manual,        \* the manual stages operators use
  Importers,     \* imports that may be under way
  MaxEdits       \* how often an operator edits or deletes batches, changes
                 \* pools or relinks lines

ASSUME InventoryAssumption ==
  /\ Batches \subseteq Nat /\ Lines \subseteq Nat
  /\ IsFiniteSet(Products) /\ IsFiniteSet(Batches) /\ IsFiniteSet(Lines)
  /\ OrderOf \in [Lines -> Orders]
  /\ Matches \in [Lines -> Products]
  /\ NoProduct \notin Products
  /\ Reports \in [Orders -> SUBSET {"accepted", "shipping", "cancelling",
                                   "cancelled", "returned"}]
  /\ Demand \in [Lines -> SUBSET (Nat \ {0})]
  /\ Amounts \subseteq Nat \ {0}
  /\ Times \subseteq Nat /\ Now \in Nat
  /\ Manual \subseteq {"preorder", "assembly", "cancelled"}
  /\ MaxEdits \in Nat

VARIABLES
  db,      \* the tables, and what the feed was last told
  reads,   \* reads[i]: what import i has computed and not yet used
  cut,     \* batches an operator edited below the units they have to keep
  edits,   \* operator edits so far, bounded by MaxEdits
  late     \* history: an import has served a line of an order that was
           \* cancelled or returned after the import read the line

vars == <<db, reads, cut, edits, late>>

Incoming == {"accepted"}           \* new, accepted, assembly, preorder
Handed   == {"shipping"}           \* handover, shipping, delivered
Terminal == {"cancelling", "cancelled", "returned"}
Status   == {"absent"} \cup Incoming \cup Handed \cup Terminal

\* What Kaspi may report of an order next: the final states do not change.
Reported(o, s) ==
  IF s \in {"cancelled", "returned"} THEN {s} ELSE Reports[o]

Kinds == {"purchase", "production"}
NoBatch == [kind |-> "none"]
Batch == [kind : Kinds, owner : Products, at : Nat, got : Nat \ {0}, left : Nat,
          here : BOOLEAN]

NoRead == [needed |-> 0]

Exists(d, b)   == d.batch[b] # NoBatch
Owner(d, p)    == d.owner[p]
Group(d, p)    == {q \in Products : Owner(d, q) = Owner(d, p)}
LinesOf(o)     == {l \in Lines : OrderOf[l] = o}
Monus(a, b)    == IF a > b THEN a - b ELSE 0

\* A sum over a finite set counts the units f assigns to its elements.
Units(f) == UNION {{x} \X (1 .. f[x]) : x \in DOMAIN f}
Total(f) == Cardinality(Units(f))

OfLine(d, l)   == Total(d.alloc[l])
OfBatch(d, b)  == Total([l \in Lines |-> d.alloc[l][b]])
Purchased(d)   == {b \in Batches : d.batch[b].kind = "purchase"}

\* A batch is older by its receipt date, then by its id.
Older(d, b, c) ==
  \/ d.batch[b].at < d.batch[c].at
  \/ (d.batch[b].at = d.batch[c].at /\ b < c)

\* The received purchase batches of an owner, and the units left in them.
Shelf(d, p) == {b \in Purchased(d) : d.batch[b].owner = p /\ d.batch[b].here}
Stock(d, p) == Total([b \in Shelf(d, p) |-> d.batch[b].left])

Database ==
  [owner : [Products -> Products],
   batch : [Batches -> Batch \cup {NoBatch}],
   alloc : [Lines -> [Batches -> Nat]],
   order : [Orders -> [status : Status, manual : Manual \cup {"none"}]],
   line  : [Lines -> [product : Products \cup {NoProduct}, quantity : Nat]],
   shown : [Products -> Nat]]

TypeOK ==
  /\ db \in Database
  /\ \A l \in Lines : db.line[l].quantity \in {0} \cup Demand[l]
  /\ reads \in [Importers -> {NoRead} \cup [needed : Nat, line : Lines]]
  /\ cut \subseteq Batches
  /\ edits \in 0..MaxEdits
  /\ late \in BOOLEAN

\* Nothing is in stock; some cards may share a pool already.
Empty(owners) ==
  [owner |-> owners,
   batch |-> [b \in Batches |-> NoBatch],
   alloc |-> [l \in Lines |-> [b \in Batches |-> 0]],
   order |-> [o \in Orders |-> [status |-> "absent", manual |-> "none"]],
   line  |-> [l \in Lines |-> [product |-> NoProduct, quantity |-> 0]],
   shown |-> [p \in Products |-> 0]]

Init ==
  /\ \E owners \in [Products -> Products] :
       /\ \A p \in Products : owners[owners[p]] = owners[p]
       /\ db = Empty(owners)
  /\ reads = [i \in Importers |-> NoRead]
  /\ cut = {}
  /\ edits = 0
  /\ late = FALSE

----------------------------------------------------------------------------
(***************************************************************************)
(* The services.                                                           *)
(***************************************************************************)
\* Variant: only the status of the order blocks an allocation.
BlocksByStatus(d, o) == d.order[o].status \in Terminal

Blocks(d, o) ==
  \/ d.order[o].status \in Terminal
  \/ d.order[o].manual = "cancelled"

\* Every card of the owners' pools is told its stock.
Show(d, owners) ==
  [d EXCEPT !.shown = [p \in Products |->
     IF Owner(d, p) \in owners THEN Stock(d, Owner(d, p)) ELSE @[p]]]

Needed(d, l) == Monus(d.line[l].quantity, OfLine(d, l))

\* How much of the interval of n units from a on lies in that of m units from c.
Overlap(a, n, c, m) == Monus(Min({a + n, c + m}), Max({a, c}))

\* Variant: the newest batch first.
AheadNewest(d, b, S) ==
  Total([c \in {c \in S : Older(d, b, c)} |-> d.batch[c].left])

\* The units in the batches older than b, among S.
Ahead(d, b, S) ==
  Total([c \in {c \in S : Older(d, c, b)} |-> d.batch[c].left])

\* What a call takes from each batch for lines that need need[l] units: the
\* oldest batches of a line's owner are used up first, and a line comes after
\* the lines before it.
Before(d, need, l) ==
  Total([k \in {k \in Lines : /\ k < l /\ need[k] > 0
                              /\ Owner(d, d.line[k].product) = Owner(d, d.line[l].product)}
           |-> need[k]])

Given(d, need) ==
  [l \in Lines |->
     LET shelf == Shelf(d, Owner(d, d.line[l].product))
     IN [b \in Batches |->
           IF need[l] > 0 /\ b \in shelf
             THEN Overlap(Ahead(d, b, shelf), d.batch[b].left, Before(d, need, l), need[l])
             ELSE 0]]

WithLeft(row, n) == [row EXCEPT !.left = n]

Serve(d, need) ==
  LET given == Given(d, need) IN
  [d EXCEPT !.alloc = [l \in Lines |-> [b \in Batches |-> @[l][b] + given[l][b]]],
            !.batch = [b \in Batches |->
              LET n == Total([l \in Lines |-> given[l][b]])
              IN IF n = 0 THEN @[b] ELSE WithLeft(@[b], d.batch[b].left - n)]]

\* allocate_order_line_fifo for the lines of S, one after the other.
Needs(d, S) ==
  [l \in Lines |->
     IF l \in S /\ ~Blocks(d, OrderOf[l]) /\ d.line[l].product # NoProduct
       THEN Needed(d, l) ELSE 0]
Allocate(d, S) == Serve(d, Needs(d, S))

\* The lines that may take from an owner's pool.
Waiting(d, p) ==
  {l \in Lines : /\ d.order[OrderOf[l]].status # "absent"
                 /\ ~Blocks(d, OrderOf[l])
                 /\ d.line[l].product \in Group(d, p)}

\* A new batch serves the lines of its pool until it is used up.
Reconcile(d, b) ==
  LET queue == Waiting(d, d.batch[b].owner)
      before(l) == Total([k \in {k \in queue : k < l} |-> Needed(d, k)])
      last == Ahead(d, b, Shelf(d, d.batch[b].owner)) + d.batch[b].left
  IN Allocate(d, {l \in queue : before(l) < last})

IsCancelled(d, o) ==
  d.order[o].status = "cancelled" \/ d.order[o].manual = "cancelled"

\* Variant: returned orders give their units back.
KeptUnlessReturned(d, l, cards) ==
  /\ ~IsCancelled(d, OrderOf[l])
  /\ d.line[l].product \notin cards

\* What a rebuild leaves where it is: the units of lines that were relinked to
\* a card outside the pool, and those of returned orders.
Kept(d, l, cards) ==
  /\ ~IsCancelled(d, OrderOf[l])
  /\ \/ d.line[l].product \notin cards
     \/ d.order[OrderOf[l]].status = "returned"

\* Variant: relinked and returned units are counted as stock again.
LeftOnShelfInFull(d, b) == IF d.batch[b].here THEN d.batch[b].got ELSE 0

LeftOnShelf(d, b) ==
  IF d.batch[b].here THEN Monus(d.batch[b].got, OfBatch(d, b)) ELSE 0

PurchasedOf(d, own) == {b \in Purchased(d) : d.batch[b].owner = own}

\* The allocations of an owner's batches are withdrawn, except the kept ones,
\* and what is not allocated is back on the shelf.
Withdrawn(d, own, cards) ==
  [d EXCEPT !.alloc = [l \in Lines |-> [b \in Batches |->
     IF b \in PurchasedOf(d, own) /\ ~Kept(d, l, cards) THEN 0 ELSE @[l][b]]]]

Restocked(d, own) ==
  [d EXCEPT !.batch = [b \in Batches |->
     IF b \in PurchasedOf(d, own) THEN WithLeft(@[b], LeftOnShelf(d, b)) ELSE @[b]]]

\* An owner's allocations are made again.
Rebuild(d, p, detached) ==
  LET own == Owner(d, p)
      emptied == Restocked(Withdrawn(d, own, Group(d, own) \cup detached), own)
  IN Show(Allocate(emptied, Waiting(emptied, own)), {own})

\* The purchase units an order holds of a batch.
Held(d, o, b) ==
  IF b \in Purchased(d)
    THEN Total([l \in LinesOf(o) |-> d.alloc[l][b]]) ELSE 0

ReleaseFails(d, o) ==
  \E b \in Purchased(d) :
    Held(d, o, b) > 0 /\ d.batch[b].left + Held(d, o, b) > d.batch[b].got

\* Variant: the feed is not told.
ReleaseUnseen(d, o) ==
  [d EXCEPT !.alloc = [l \in Lines |-> [b \in Batches |->
              IF OrderOf[l] = o /\ b \in Purchased(d) THEN 0 ELSE @[l][b]]],
            !.batch = [b \in Batches |->
              IF Held(d, o, b) = 0 THEN @[b]
              ELSE WithLeft(@[b], d.batch[b].left + Held(d, o, b))]]

\* A cancelled order's units go back to the batches they came from.
Returned(d, o) ==
  [d EXCEPT
     !.alloc = [l \in Lines |-> [b \in Batches |->
                  IF OrderOf[l] = o /\ b \in Purchased(d) THEN 0 ELSE @[l][b]]],
     !.batch = [b \in Batches |->
                  IF Held(d, o, b) > 0
                    THEN WithLeft(@[b], d.batch[b].left + Held(d, o, b)) ELSE @[b]]]

Release(d, o) ==
  Show(Returned(d, o), {d.batch[b].owner : b \in {b \in Batches : Held(d, o, b) > 0}})

(***************************************************************************)
(* Units that are expected: the unreceived batches of a pool, oldest       *)
(* first, are laid along the open needs of its incoming lines, first order *)
(* first, and a batch is reserved for a line where the two overlap.        *)
(***************************************************************************)
Capacity(d, b) ==
  IF d.batch[b].kind = "production"
    THEN Monus(d.batch[b].got, OfBatch(d, b)) ELSE d.batch[b].got

Reserved(d, b, l) ==
  LET p == d.batch[b].owner
      expected == {c \in Batches :
                     Exists(d, c) /\ ~d.batch[c].here /\ d.batch[c].owner = p}
      queue == {k \in Waiting(d, p) : d.order[OrderOf[k]].status \in Incoming}
      from == Total([c \in {c \in expected : Older(d, c, b)} |-> Capacity(d, c)])
      after == Total([k \in {k \in queue : k < l} |-> Needed(d, k)])
  IN IF b \in expected /\ l \in queue
       THEN Overlap(from, Capacity(d, b), after, Needed(d, l))
       ELSE 0

----------------------------------------------------------------------------
(***************************************************************************)
(* The transactions.                                                       *)
(***************************************************************************)
Commit(d) == db' = d /\ UNCHANGED <<reads, cut, edits, late>>

Edit(d) ==
  /\ edits < MaxEdits
  /\ edits' = edits + 1
  /\ db' = d
  /\ UNCHANGED <<reads, late>>

\* The order as the import has written it: a manual stage ends when Kaspi's
\* status moves or has caught up with it.
Observed(row, s) ==
  [status |-> s,
   manual |-> IF row.status = "absent" \/ row.status # s \/ row.manual = s
                THEN "none" ELSE row.manual]

Seen(d, o, s, q) ==
  [d EXCEPT !.order[o] = Observed(@, s),
            !.line = [l \in Lines |->
               IF l \in LinesOf(o) THEN [@[l] EXCEPT !.quantity = q[l]] ELSE @[l]]]

\* Lines that are not linked yet get the card that carries their SKU.
Linked(d, found) ==
  [d EXCEPT !.line = [l \in Lines |->
     IF l \in found /\ @[l].product = NoProduct
       THEN [@[l] EXCEPT !.product = Matches[l]] ELSE @[l]]]

\* The pools the lines of an order have taken from.
Touched(d, served, o) ==
  {Owner(served, served.line[l].product) :
     l \in {k \in LinesOf(o) : served.alloc[k] # d.alloc[k]}}

\* marketplace_sync imports an order: status, quantities, the release of a
\* cancelled order, the card of unlinked lines, the allocation of every line.
Import(o) ==
  /\ \E s \in Reported(o, db.order[o].status),
        q \in {f \in [LinesOf(o) -> UNION {Demand[l] : l \in LinesOf(o)}] :
                 \A l \in LinesOf(o) : f[l] \in Demand[l]},
        found \in SUBSET {l \in LinesOf(o) : db.line[l].product = NoProduct} :
       LET seen == Seen(db, o, s, q)
           linked == Linked(IF s = "cancelled" THEN Release(seen, o) ELSE seen, found)
           served == Allocate(linked, LinesOf(o))
       IN /\ s = "cancelled" => ~ReleaseFails(seen, o)
          /\ Commit(Show(served, Touched(linked, served, o)))

\* The import of an order that has not changed, first half: what the line
\* still needs is read without a lock.
ReadLine(i) ==
  /\ reads[i] = NoRead
  /\ \E l \in Lines :
       /\ db.order[OrderOf[l]].status # "absent"
       /\ ~Blocks(db, OrderOf[l])
       /\ db.line[l].product # NoProduct
       /\ Needed(db, l) > 0
       /\ reads' = [reads EXCEPT ![i] = [needed |-> Needed(db, l), line |-> l]]
  /\ UNCHANGED <<db, cut, edits, late>>

\* Second half: the batches are locked and read as they are now.
TakeStock(i) ==
  /\ reads[i] # NoRead
  /\ db.line[reads[i].line].product # NoProduct
  /\ LET l == reads[i].line
     IN /\ db' = Show(Serve(db, [k \in Lines |-> IF k = l THEN reads[i].needed ELSE 0]),
                      {Owner(db, db.line[l].product)})
        /\ late' = (late \/ Blocks(db, OrderOf[l]))
  /\ reads' = [reads EXCEPT ![i] = NoRead]
  /\ UNCHANGED <<cut, edits>>

\* One owner's allocations after the other's.
RebuildAll(d, owners) == FoldSet(LAMBDA p, e : Rebuild(e, p, {}), d, owners)

\* POST /orders/{id}/stage-override.  "assembly" is rolled back when stock
\* does not cover the order.
RebuildOrder(d, o) ==
  RebuildAll(d,
          {Owner(d, d.line[l].product) :
             l \in {k \in LinesOf(o) : d.line[k].product # NoProduct}})

Override(o) ==
  /\ db.order[o].status # "absent"
  /\ \E stage \in Manual \cup {"none"} :
       LET set == [db EXCEPT !.order[o].manual = stage]
           done == IF stage = "cancelled" THEN Release(set, o)
                   ELSE RebuildOrder(set, o)
       IN /\ stage # "none" => db.order[o].status \in Incoming
          /\ stage = "cancelled" => ~ReleaseFails(set, o)
          /\ stage = "assembly" => \A l \in LinesOf(o) :
               done.line[l].product # NoProduct /\ Needed(done, l) = 0
          /\ Commit(done)

\* An operator links the lines of a listing to another card, or to none.
Relink(l) ==
  /\ db.order[OrderOf[l]].status # "absent"
  /\ \E p \in Products \cup {NoProduct} :
       Edit([db EXCEPT !.line[l].product = p])
  /\ UNCHANGED cut

\* A batch joins the pool of its card; what has arrived may at once serve the
\* orders that wait.
Created(p, b, kind, n, t, here) ==
  LET row == [kind |-> kind, owner |-> Owner(db, p), at |-> t, got |-> n,
              left |-> IF here THEN n ELSE 0, here |-> here]
      stored == [db EXCEPT !.batch[b] = row]
  IN {stored} \cup IF here THEN {Reconcile(stored, b)} ELSE {}

AddBatch(p) ==
  /\ \E b \in {c \in Batches : ~Exists(db, c)}, kind \in Kinds, n \in Amounts,
        t \in Times, here \in BOOLEAN :
       /\ here => kind = "purchase"
       /\ \E done \in Created(p, b, kind, n, t, here) : Commit(Show(done, {Owner(db, p)}))

\* An expected purchase has arrived.
Arrived(b) ==
  LET row == [db.batch[b] EXCEPT !.here = TRUE, !.at = Now, !.left = db.batch[b].got]
  IN Reconcile([db EXCEPT !.batch[b] = row], b)

ReceiveBatch(b) ==
  /\ b \in Purchased(db)
  /\ ~db.batch[b].here
  /\ Commit(Show(Arrived(b), {db.batch[b].owner}))

\* A production batch delivers what is reserved for a line.
Completed(b, l) == [db EXCEPT !.alloc[l][b] = @ + Reserved(db, b, l)]

Manufacture(b, l) ==
  /\ db.batch[b].kind = "production"
  /\ Reserved(db, b, l) > 0
  /\ Commit(Completed(b, l))

EditBatch(b) ==
  /\ Exists(db, b)
  /\ \E kind \in Kinds, n \in Amounts, t \in Times :
       LET here == db.batch[b].here /\ kind = "purchase"
           row == [db.batch[b] EXCEPT !.kind = kind, !.got = n, !.at = t,
                                      !.here = here,
                                      !.left = IF here THEN n ELSE 0]
           done == Rebuild([db EXCEPT !.batch[b] = row], row.owner, {})
       IN /\ OfBatch(db, b) > 0 =>
               db.batch[b].kind = "purchase" /\ kind = "purchase"
          /\ Edit(done)
          /\ cut' = IF OfBatch(done, b) > n THEN cut \cup {b} ELSE cut \ {b}

\* Deleting a batch withdraws every allocation of the pool, kept or not.
Removed(d, b) ==
  [d EXCEPT
     !.alloc = [l \in Lines |-> [c \in Batches |->
                  IF c \in PurchasedOf(d, d.batch[b].owner) THEN 0 ELSE @[l][c]]],
     !.batch[b] = NoBatch]

DeleteBatch(b) ==
  /\ Exists(db, b)
  /\ ~(db.batch[b].kind = "production" /\ OfBatch(db, b) > 0)
  /\ Edit(Rebuild(Removed(db, b), db.batch[b].owner, {}))
  /\ cut' = cut \ {b}

\* Variant: the batches stay with the card that joins the pool.
MergedWithoutBatches(p, q) ==
  [db EXCEPT !.owner = [r \in Products |->
     IF r \in Group(db, p) THEN Owner(db, q) ELSE @[r]]]

\* The pool of p joins the pool of q, with its batches.
Merged(p, q) ==
  [db EXCEPT !.owner = [r \in Products |->
                IF r \in Group(db, p) THEN Owner(db, q) ELSE @[r]],
             !.batch = [b \in Batches |->
                IF Exists(db, b) /\ db.batch[b].owner = Owner(db, p)
                  THEN [@[b] EXCEPT !.owner = Owner(db, q)] ELSE @[b]]]

Merge(p, q) ==
  /\ Owner(db, p) # Owner(db, q)
  /\ Edit(Rebuild(Merged(p, q), Owner(db, q), {}))
  /\ UNCHANGED cut

\* Cards that leave their pool own themselves.
Apart(d, leaving) ==
  [d EXCEPT !.owner = [r \in Products |-> IF r \in leaving THEN r ELSE @[r]]]

\* A member leaves its pool, or its owner dissolves it.  The batches stay.
Detach(p) ==
  /\ Group(db, p) # {p}
  /\ LET own == Owner(db, p)
         leaving == IF p = own THEN Group(db, p) \ {own} ELSE {p}
         pool == Rebuild(Apart(db, leaving), own, leaving)
     IN Edit(RebuildAll(pool, leaving))
  /\ UNCHANGED cut

Next ==
  \/ \E o \in Orders : Import(o) \/ Override(o)
  \/ \E i \in Importers : ReadLine(i) \/ TakeStock(i)
  \/ \E l \in Lines : Relink(l)
  \/ \E p \in Products : AddBatch(p) \/ Detach(p)
  \/ \E p, q \in Products : Merge(p, q)
  \/ \E b \in Batches : ReceiveBatch(b) \/ EditBatch(b) \/ DeleteBatch(b)
  \/ \E b \in Batches, l \in Lines : Manufacture(b, l)

Spec == Init /\ [][Next]_vars

----------------------------------------------------------------------------
(***************************************************************************)
(* Properties.                                                             *)
(***************************************************************************)

\* No unit is lost or invented: what a received purchase batch was received
\* with is on the shelf or allocated; an expected batch has given nothing, a
\* production batch no more than its size.  A batch that was edited below the
\* units it has to keep is out of balance and excepted.
StockConserved ==
  \A b \in Batches \ cut : Exists(db, b) =>
    LET row == db.batch[b] IN
    /\ row.here => row.left + OfBatch(db, b) = row.got
    /\ ~row.here => row.left = 0
    /\ ~row.here /\ row.kind = "purchase" => OfBatch(db, b) = 0
    /\ row.kind = "production" => OfBatch(db, b) <= row.got

\* A cancelled order, by Kaspi or by the owner, holds no purchased unit,
\* whatever commits between an import's read of a line and its lock on the
\* batches, until such an import serves a line whose order has been cancelled or
\* returned in between: nothing looks at the order again under the lock.
CancelledHoldsNothing ==
  ~late => \A l \in Lines : IsCancelled(db, OrderOf[l]) =>
             \A b \in Purchased(db) : db.alloc[l][b] = 0

\* Pools are one level deep, and every batch belongs to the owner of one:
\* otherwise no endpoint and no allocation finds it.
BatchesStayReachable ==
  /\ \A p \in Products : Owner(db, Owner(db, p)) = Owner(db, p)
  /\ \A b \in Batches : Exists(db, b) =>
       Owner(db, db.batch[b].owner) = db.batch[b].owner

\* Every transaction leaves each card's feed entry at the stock of its pool.
FeedShowsStock ==
  \A p \in Products : db.shown[p] = Stock(db, Owner(db, p))

\* FIFO: a unit leaves a batch only once the older batches of the pool are
\* used up, whatever operation allocates it.
OldestFirst ==
  \A l \in Lines, b \in Purchased(db') :
    db'.alloc[l][b] > db.alloc[l][b] =>
      \A c \in Shelf(db', db'.batch[b].owner) :
        Older(db', c, b) => db'.batch[c].left = 0
FifoTaken == [][OldestFirst]_vars

\* "FIFO allocations are idempotent per order line and batch": no step gives a
\* line more units than its order asks for.  It holds while no other step of the
\* same line falls between an import's read and its lock.
WithinOrder ==
  \A l \in Lines : OfLine(db', l) > OfLine(db, l) =>
    OfLine(db', l) <= db'.line[l].quantity
NeverBeyondOrder == [][WithinOrder]_vars

\* Returned goods "deliberately remain allocated until a physical return is
\* accepted by the warehouse": while no batch is deleted and no import has
\* served a line late (see above), no operation on stock, orders or pools moves
\* them.
ReturnsUntouched ==
  \A l \in Lines :
    /\ db.order[OrderOf[l]].status = "returned"
    /\ \A b \in Batches : Exists(db, b) => Exists(db', b)
    => db'.alloc[l] = db.alloc[l]
ReturnsStayAllocated == [][~late' => ReturnsUntouched]_vars
=============================================================================
