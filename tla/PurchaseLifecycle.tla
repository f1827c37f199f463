------------------------- MODULE PurchaseLifecycle -------------------------
(***************************************************************************)
(* Purchase requests raised from marketplace orders: the create and the    *)
(* transition commands of purchase_service.py, as purchase_api.py runs     *)
(* them, each in one transaction of its own.  A create is several          *)
(* READ COMMITTED statements without a lock, so other commands commit in   *)
(* between; a transition holds the row lock from its first statement.      *)
(* Clients may lose an answer and send the same command again.             *)
(***************************************************************************)
EXTENDS Naturals, Sequences

CONSTANTS
  Orders,        \* marketplace orders
  Products,      \* Kaspi product ids
  ProductOf,     \* the product an order's line is about
  Ids,           \* purchase request ids
  Keys,          \* idempotency keys
  Clients,       \* callers of the purchase API
  NoId,          \* "no purchase"
  Legacy,        \* ids that older releases left RECEIVED without quantities
  MaxSends       \* how many commands are sent in all, repeats included

ASSUME PurchaseAssumption ==
  /\ ProductOf \in [Orders -> Products]
  /\ Legacy \subseteq Ids
  /\ NoId \notin Ids
  /\ MaxSends \in Nat

VARIABLES
  rows,       \* purchase_requests with the completeness of their lines
  events,     \* events[p]: the append-only purchase_events of p
  outbox,     \* versions of p announced in outbox_events
  cards,      \* products that have a card
  client,     \* what each caller is doing
  sent        \* commands sent so far, bounded by MaxSends

vars == <<rows, events, outbox, cards, client, sent>>

Status == {"draft", "requested", "ordered", "partially_received",
           "received", "cancelled", "closed"}

Allowed(s) ==
  CASE s = "draft"              -> {"requested", "cancelled"}
    [] s = "requested"          -> {"ordered", "cancelled"}
    [] s = "ordered"            -> {"partially_received", "received", "cancelled"}
    [] s = "partially_received" -> {"received", "cancelled"}
    [] s = "received"           -> {"closed"}
    [] OTHER                    -> {}

(***************************************************************************)
(* A client is idle or has a command on its way: a creation walks through  *)
(* its reads, a move carries the status and version its client last read.  *)
(***************************************************************************)
NoCommand == [kind |-> "nothing"]
Create(o, k, at, needs) ==
  [kind |-> "create", order |-> o, key |-> k, at |-> at, needsCard |-> needs]
Move(p, to, seen, k) ==
  [kind |-> "move", key |-> k, id |-> p, to |-> to, seen |-> seen]
Seen == [status : Status, version : Nat \ {0}]
Commands ==
  {NoCommand}
    \cup [kind : {"create"}, order : Orders, key : Keys,
          at : {"key", "order", "insert"}, needsCard : BOOLEAN]
    \cup [kind : {"move"}, key : Keys, id : Ids, to : Status, seen : Seen]

\* A purchase request; complete says that its lines are received in full.
Row == [order : Orders, status : Status, version : Nat \ {0}, complete : BOOLEAN]
NoRow == [status |-> "absent"]

\* One purchase event; a creation has no previous status.
Event == [key : Keys \cup {"legacy"}, to : Status, from : Status \cup {"none"}]

Exists(p) == rows[p] # NoRow
Live(p)   == Exists(p) /\ rows[p].status # "cancelled"
KeysOf(p) == {events[p][i].key : i \in DOMAIN events[p]}

\* What the last command was told; "ok" answers a creation.
Outcomes == {"nothing", "ok", "applied", "replayed", "conflict", "not_allowed",
             "failed"}
Answer(said, p, o) == [order |-> o, id |-> p, said |-> said]
Silent == Answer("nothing", NoId, "none")

ClientState ==
  [command : Commands, applied : Nat,
   answer : [order : Orders \cup {"none"}, id : Ids \cup {NoId}, said : Outcomes]]

TypeOK ==
  /\ rows \in [Ids -> Row \cup {NoRow}]
  /\ events \in [Ids -> Seq(Event)]
  /\ outbox \in [Ids -> SUBSET Nat]
  /\ cards \subseteq Products
  /\ client \in [Clients -> ClientState]
  /\ sent \in 0..MaxSends

LegacyEvents ==
  << [key |-> "legacy", to |-> "draft", from |-> "none"],
     [key |-> "legacy", to |-> "requested", from |-> "draft"],
     [key |-> "legacy", to |-> "ordered", from |-> "requested"],
     [key |-> "legacy", to |-> "received", from |-> "ordered"] >>

Init ==
  /\ \E f \in [Legacy -> Orders] :
       /\ \A p, q \in Legacy : f[p] = f[q] => p = q
       /\ rows = [p \in Ids |->
                    IF p \in Legacy
                      THEN [order |-> f[p], status |-> "received",
                            version |-> Len(LegacyEvents), complete |-> FALSE]
                      ELSE NoRow]
  /\ events = [p \in Ids |-> IF p \in Legacy THEN LegacyEvents ELSE << >>]
  /\ outbox = [p \in Ids |->
                 IF p \in Legacy THEN 1..Len(LegacyEvents) ELSE {}]
  /\ cards = {ProductOf[rows[p].order] : p \in Legacy}
  /\ client = [c \in Clients |->
                 [command |-> NoCommand, applied |-> 0, answer |-> Silent]]
  /\ sent = 0

----------------------------------------------------------------------------
(***************************************************************************)
(* Answering.  The client is done, or the answer never reached it and it   *)
(* sends the same command once more.                                       *)
(***************************************************************************)
Restarted(cmd) ==
  IF cmd.kind = "create" THEN [cmd EXCEPT !.at = "key", !.needsCard = FALSE] ELSE cmd

Tell(c, said, p, o, changed) ==
  \E again \in {FALSE} \cup {sent < MaxSends} :
    /\ client' = [client EXCEPT ![c] =
         [command |-> IF again THEN Restarted(@.command) ELSE NoCommand,
          applied |-> @.applied + (IF changed THEN 1 ELSE 0),
          answer  |-> Answer(said, p, o)]]
    /\ sent' = IF again THEN sent + 1 ELSE sent

Send(c, cmd) ==
  /\ client[c].command = NoCommand
  /\ sent < MaxSends
  /\ sent' = sent + 1
  /\ client' = [client EXCEPT ![c] =
       [command |-> cmd, applied |-> 0, answer |-> Silent]]
  /\ UNCHANGED <<rows, events, outbox, cards>>

\* POST /from-marketplace-order
SendCreate(c) == \E o \in Orders, k \in Keys : Send(c, Create(o, k, "key", FALSE))

\* POST /{id}/transition, with the version the client last read.
SendMove(c) ==
  \E p \in Ids, to \in Status, k \in Keys :
    /\ Exists(p)
    /\ Send(c, Move(p, to, [status |-> rows[p].status,
                            version |-> rows[p].version], k))

----------------------------------------------------------------------------
(***************************************************************************)
(* Creating, statement by statement.                                       *)
(***************************************************************************)
Creating(c, step) ==
  client[c].command.kind = "create" /\ client[c].command.at = step

\* The idempotency key is looked up among the events of every purchase.
Holders(o, k) == {p \in Ids : k \in KeysOf(p)}

LookUpKey(c) ==
  /\ Creating(c, "key")
  /\ LET o == client[c].command.order
         found == Holders(o, client[c].command.key)
     IN IF found = {}
        THEN /\ client' = [client EXCEPT ![c].command.at = "order"]
             /\ UNCHANGED sent
        ELSE \E p \in found : Tell(c, "ok", p, o, FALSE)
  /\ UNCHANGED <<rows, events, outbox, cards>>

LiveOf(o) == {p \in Ids : Live(p) /\ rows[p].order = o}

\* The order's purchase that is not cancelled, if any, answers the command;
\* otherwise the lines are walked and a missing product card is noticed.
LookUpOrder(c) ==
  /\ Creating(c, "order")
  /\ LET o == client[c].command.order
     IN IF LiveOf(o) # {}
        THEN \E p \in LiveOf(o) : Tell(c, "ok", p, o, FALSE)
        ELSE /\ client' = [client EXCEPT ![c].command =
                  [@ EXCEPT !.at = "insert",
                            !.needsCard = ProductOf[o] \notin cards]]
             /\ UNCHANGED sent
  /\ UNCHANGED <<rows, events, outbox, cards>>

NewDraft(o) ==
  [order |-> o, status |-> "draft", version |-> 1, complete |-> FALSE]

\* The draft, its event and its announcement commit together.  Two commands
\* that both missed the card collide on the unique Kaspi product id.
InsertDraft(c) ==
  /\ Creating(c, "insert")
  /\ LET o == client[c].command.order
         k == client[c].command.key
     IN IF client[c].command.needsCard /\ ProductOf[o] \in cards
        THEN /\ Tell(c, "failed", NoId, o, FALSE)
             /\ UNCHANGED <<rows, events, outbox, cards>>
        ELSE \E p \in Ids :
               /\ ~Exists(p)
               /\ rows' = [rows EXCEPT ![p] = NewDraft(o)]
               /\ events' = [events EXCEPT ![p] =
                    << [key |-> k, to |-> "draft", from |-> "none"] >>]
               /\ outbox' = [outbox EXCEPT ![p] = {1}]
               /\ cards' = cards \cup {ProductOf[o]}
               /\ Tell(c, "ok", p, o, TRUE)

----------------------------------------------------------------------------
(***************************************************************************)
(* The transition, under the row lock.  A key this purchase has seen is    *)
(* answered before the version is looked at.                               *)
(***************************************************************************)
\* Variant: the version is compared before the key.
VerdictVersionFirst(p, cmd) ==
  IF cmd.seen.version # rows[p].version         THEN "conflict"
  ELSE IF cmd.key \in KeysOf(p)                 THEN "replayed"
  ELSE IF cmd.to \notin Allowed(rows[p].status) THEN "not_allowed"
  ELSE "applied"

\* Variant: nobody compares the version.
VerdictNoVersion(p, cmd) ==
  IF cmd.key \in KeysOf(p)                      THEN "replayed"
  ELSE IF cmd.to \notin Allowed(rows[p].status) THEN "not_allowed"
  ELSE "applied"

Verdict(p, cmd) ==
  IF cmd.key \in KeysOf(p)                      THEN "replayed"
  ELSE IF cmd.seen.version # rows[p].version    THEN "conflict"
  ELSE IF cmd.to \notin Allowed(rows[p].status) THEN "not_allowed"
  ELSE "applied"

\* Variant: closing does not repair legacy rows.
FilledOnReceipt(p, to) == rows[p].complete \/ to = "received"

\* RECEIVED fills the quantities; CLOSED repairs rows received without them.
Filled(p, to) ==
  rows[p].complete
    \/ to = "received"
    \/ (to = "closed" /\ rows[p].status = "received")

MovedTo(p, to) ==
  [order |-> rows[p].order, status |-> to, version |-> rows[p].version + 1,
   complete |-> Filled(p, to)]

\* Variant: the announcement carries the version before the change.
AnnouncedEarly(p) == outbox[p] \cup {rows[p].version}

Announced(p) == outbox[p] \cup {rows[p].version + 1}

Transition(c) ==
  /\ client[c].command.kind = "move"
  /\ LET cmd == client[c].command
         p == cmd.id
         v == Verdict(p, cmd)
     IN /\ Tell(c, v, p, rows[p].order, v = "applied")
        /\ IF v = "applied"
           THEN /\ rows' = [rows EXCEPT ![p] = MovedTo(p, cmd.to)]
                /\ events' = [events EXCEPT ![p] =
                     Append(@, [key |-> cmd.key, to |-> cmd.to,
                                from |-> rows[p].status])]
                /\ outbox' = [outbox EXCEPT ![p] = Announced(p)]
           ELSE UNCHANGED <<rows, events, outbox>>
  /\ UNCHANGED cards

Step(c) ==
  \/ SendCreate(c)
  \/ SendMove(c)
  \/ LookUpKey(c)
  \/ LookUpOrder(c)
  \/ InsertDraft(c)
  \/ Transition(c)

Next == \E c \in Clients : Step(c)

\* Every request the server has accepted is handled.
Fairness ==
  \A c \in Clients :
    WF_vars(LookUpKey(c) \/ LookUpOrder(c) \/ InsertDraft(c) \/ Transition(c))

Spec == Init /\ [][Next]_vars /\ Fairness

----------------------------------------------------------------------------
(***************************************************************************)
(* Properties.                                                             *)
(***************************************************************************)

\* The audit trail explains the row: it starts with the draft, each event
\* continues where the one before it ended, no key is used twice, the last
\* event names the status, and every version has been announced exactly once.
HistoryExplainsRow ==
  \A p \in Ids : Exists(p) =>
    LET h == events[p] IN
    /\ Len(h) = rows[p].version
    /\ outbox[p] = 1..rows[p].version
    /\ h[1].from = "none" /\ h[1].to = "draft"
    /\ \A i \in 2..Len(h) : h[i].from = h[i - 1].to
    /\ h[Len(h)].to = rows[p].status
    /\ \A i, j \in DOMAIN h : h[i].key = h[j].key /\ h[i].key # "legacy" => i = j

AppliesToWhatWasSeen ==
  \A c \in Clients :
    client'[c].applied > client[c].applied /\ client[c].command.kind = "move" =>
      LET cmd == client[c].command
      IN /\ rows[cmd.id].status = cmd.seen.status
         /\ rows'[cmd.id].status = cmd.to

\* Optimistic locking: a transition takes a purchase away from the status its
\* client had read, however many commands of others came in between.
AppliedOnSeenState == [][AppliesToWhatWasSeen]_vars

\* A command that took effect and whose answer was lost is acknowledged when
\* it is sent again: it is neither refused nor applied a second time.
RepeatIsAcknowledged ==
  \A c \in Clients : client[c].applied > 0 =>
    /\ client[c].applied = 1
    /\ client[c].answer.said \in {"ok", "applied", "replayed"}

\* What a client read stays true of the past: the version it holds is one the
\* purchase has had, and the trail still names the status of that version.
SeenIsHistorical ==
  \A c \in Clients : client[c].command.kind = "move" =>
    LET cmd == client[c].command
    IN /\ Exists(cmd.id)
       /\ cmd.seen.version <= rows[cmd.id].version
       /\ events[cmd.id][cmd.seen.version].to = cmd.seen.status

\* A purchase that is received or closed has arrived in full.  Only a row an
\* older release received may lack quantities, and closing it repairs them.
ArrivedInFull ==
  \A p \in Ids : Exists(p) =>
    /\ rows[p].status = "closed" => rows[p].complete
    /\ rows[p].status = "received" /\ p \notin Legacy => rows[p].complete

\* "1 MarketplaceOrder -> 1 PurchaseRequest": an order has at most one
\* purchase that is not cancelled.
OneLivePurchasePerOrder ==
  \A p, q \in Ids : Live(p) /\ Live(q) /\ rows[p].order = rows[q].order => p = q
=============================================================================
