---------------------- MODULE PurchaseLifecycleProofs ----------------------
(***************************************************************************)
(* Proofs about PurchaseLifecycle, for any number of orders, purchases,    *)
(* clients and idempotency keys: the audit trail explains every row, a     *)
(* transition applies to the status its client had seen, a repeated        *)
(* command is acknowledged, and what is closed has arrived.                *)
(***************************************************************************)
EXTENDS PurchaseLifecycle, TLAPS

USE PurchaseAssumption

\* A command that took effect and is on its way again will be recognised: its
\* key is in the trail of the purchase it moved, or of the one it created.
RepeatIsRecognised ==
  \A c \in Clients : client[c].applied > 0 =>
    LET cmd == client[c].command
    IN /\ cmd.kind = "move" => cmd.key \in KeysOf(cmd.id)
       /\ cmd.kind = "create" =>
            cmd.at = "key" /\ \E p \in Ids : cmd.key \in KeysOf(p)

\* Only an existing purchase has events.
NoTrailWithoutRow == \A p \in Ids : ~Exists(p) => events[p] = << >>

PurchaseInv ==
  /\ TypeOK
  /\ HistoryExplainsRow
  /\ NoTrailWithoutRow
  /\ SeenIsHistorical
  /\ RepeatIsRecognised
  /\ RepeatIsAcknowledged
  /\ ArrivedInFull

----------------------------------------------------------------------------
(***************************************************************************)
(* What a step does to the purchases: nothing, a new draft, or one move.   *)
(***************************************************************************)
Quiet == UNCHANGED <<rows, events, outbox>>

Drafted(p, o, k) ==
  /\ ~Exists(p)
  /\ rows' = [rows EXCEPT ![p] = NewDraft(o)]
  /\ events' = [events EXCEPT ![p] =
       << [key |-> k, to |-> "draft", from |-> "none"] >>]
  /\ outbox' = [outbox EXCEPT ![p] = {1}]

Moved(p, to, k) ==
  /\ Exists(p)
  /\ k \notin KeysOf(p)
  /\ to \in Allowed(rows[p].status)
  /\ rows' = [rows EXCEPT ![p] = MovedTo(p, to)]
  /\ events' = [events EXCEPT ![p] =
       Append(@, [key |-> k, to |-> to, from |-> rows[p].status])]
  /\ outbox' = [outbox EXCEPT ![p] = Announced(p)]

LEMMA RowFacts ==
  /\ \A r \in Row : r # NoRow
  /\ \A o \in Orders : NewDraft(o) \in Row
<1>1. \A r \in Row : r.status # "absent"
  BY DEF Row, Status
<1>2. NoRow.status = "absent"
  BY DEF NoRow
<1>3. QED
  BY <1>1, <1>2 DEF NewDraft, Row, Status

LEMMA ExistsTyped ==
  ASSUME TypeOK, NEW p \in Ids, Exists(p)
  PROVE  rows[p] \in Row
  BY DEF TypeOK, Exists

LEMMA AllowedIsStatus == \A s \in Status : Allowed(s) \subseteq Status
  BY DEF Allowed, Status

LEMMA CommandFacts ==
  ASSUME TypeOK, NEW c \in Clients
  PROVE  LET cmd == client[c].command IN
         /\ cmd \in Commands
         /\ cmd.kind = "move" =>
              cmd.id \in Ids /\ cmd.to \in Status /\ cmd.key \in Keys
                /\ cmd.seen.version \in Nat \ {0} /\ cmd.seen.status \in Status
         /\ cmd.kind = "create" => cmd.order \in Orders /\ cmd.key \in Keys
<1>1. client[c].command \in Commands
  BY DEF TypeOK, ClientState
<1>2. QED
  BY <1>1 DEF Commands, NoCommand, Seen

LEMMA StepCases ==
  ASSUME TypeOK, SeenIsHistorical, NEW c \in Clients, Step(c)
  PROVE  \/ Quiet
         \/ \E p \in Ids, o \in Orders, k \in Keys : Drafted(p, o, k)
         \/ \E p \in Ids, to \in Status, k \in Keys : Moved(p, to, k)
<1>1. CASE SendCreate(c) \/ SendMove(c) \/ LookUpKey(c) \/ LookUpOrder(c)
  BY <1>1 DEF SendCreate, SendMove, LookUpKey, LookUpOrder, Send, Quiet
<1>2. CASE InsertDraft(c)
  <2>1. client[c].command.order \in Orders /\ client[c].command.key \in Keys
    BY <1>2, CommandFacts DEF InsertDraft, Creating
  <2>2. QED
    BY <1>2, <2>1 DEF InsertDraft, Drafted, Quiet
<1>3. CASE Transition(c)
  <2> DEFINE cmd == client[c].command
  <2>1. cmd.id \in Ids /\ cmd.to \in Status /\ cmd.key \in Keys
    BY <1>3, CommandFacts DEF Transition
  <2>2. Exists(cmd.id)
    BY <1>3 DEF Transition, SeenIsHistorical
  <2>3. CASE Verdict(cmd.id, cmd) = "applied"
    <3>1. cmd.key \notin KeysOf(cmd.id) /\ cmd.to \in Allowed(rows[cmd.id].status)
      BY <2>3 DEF Verdict
    <3>2. Moved(cmd.id, cmd.to, cmd.key)
      BY <1>3, <2>2, <2>3, <3>1 DEF Transition, Moved
    <3>3. QED
      BY <2>1, <3>2
  <2>4. CASE Verdict(cmd.id, cmd) # "applied"
    BY <1>3, <2>4 DEF Transition, Quiet
  <2>5. QED
    BY <2>3, <2>4
<1>4. QED
  BY <1>1, <1>2, <1>3 DEF Step

----------------------------------------------------------------------------
(***************************************************************************)
(* The trail keeps explaining the row.                                     *)
(***************************************************************************)
Explained(p) ==
  LET h == events[p] IN
  /\ Len(h) = rows[p].version
  /\ outbox[p] = 1..rows[p].version
  /\ h[1].from = "none" /\ h[1].to = "draft"
  /\ \A i \in 2..Len(h) : h[i].from = h[i - 1].to
  /\ h[Len(h)].to = rows[p].status
  /\ \A i, j \in DOMAIN h : h[i].key = h[j].key /\ h[i].key # "legacy" => i = j

LEMMA HistoryIsExplained ==
  HistoryExplainsRow <=> \A p \in Ids : Exists(p) => Explained(p)
  BY DEF HistoryExplainsRow, Explained

\* Purchases other than the one a step touches stay as they are.
LEMMA OthersKept ==
  ASSUME TypeOK, NEW p \in Ids, NEW q \in Ids, q # p,
         \/ \E o \in Orders, k \in Keys : Drafted(p, o, k)
         \/ \E to \in Status, k \in Keys : Moved(p, to, k)
  PROVE  /\ rows'[q] = rows[q]
         /\ events'[q] = events[q]
         /\ outbox'[q] = outbox[q]
  BY DEF TypeOK, Drafted, Moved

LEMMA DraftedRow ==
  ASSUME TypeOK, NEW p \in Ids, NEW o \in Orders, NEW k \in Keys, Drafted(p, o, k)
  PROVE  /\ rows'[p] = NewDraft(o)
         /\ events'[p] = << [key |-> k, to |-> "draft", from |-> "none"] >>
         /\ outbox'[p] = {1}
         /\ rows'[p] \in Row
         /\ events'[p] \in Seq(Event)
<1>1. /\ rows'[p] = NewDraft(o)
      /\ events'[p] = << [key |-> k, to |-> "draft", from |-> "none"] >>
      /\ outbox'[p] = {1}
  BY DEF TypeOK, Drafted
<1>2. [key |-> k, to |-> "draft", from |-> "none"] \in Event
  BY DEF Event, Status
<1>3. QED
  BY <1>1, <1>2, RowFacts

LEMMA MovedRow ==
  ASSUME TypeOK, NEW p \in Ids, NEW to \in Status, NEW k \in Keys, Moved(p, to, k)
  PROVE  LET e == [key |-> k, to |-> to, from |-> rows[p].status] IN
         /\ rows[p] \in Row
         /\ rows'[p] \in Row
         /\ rows'[p].order = rows[p].order
         /\ rows'[p].status = to
         /\ rows'[p].version = rows[p].version + 1
         /\ rows'[p].complete = Filled(p, to)
         /\ e \in Event
         /\ events'[p] = Append(events[p], e)
         /\ events'[p] \in Seq(Event)
         /\ outbox'[p] = Announced(p)
<1> DEFINE e == [key |-> k, to |-> to, from |-> rows[p].status]
<1>1. rows[p] \in Row
  BY ExistsTyped DEF Moved
<1>2. rows'[p] = MovedTo(p, to)
  BY DEF TypeOK, Moved
<1>3. Filled(p, to) \in BOOLEAN
  BY <1>1 DEF Filled, Row
<1>4. rows'[p] \in Row /\ rows'[p].order = rows[p].order /\ rows'[p].status = to
        /\ rows'[p].version = rows[p].version + 1
        /\ rows'[p].complete = Filled(p, to)
  BY <1>1, <1>2, <1>3 DEF Row, MovedTo
<1>5. e \in Event
  BY <1>1 DEF Event, Row
<1>6. events'[p] = Append(events[p], e) /\ outbox'[p] = Announced(p)
  BY DEF TypeOK, Moved
<1>7. events'[p] \in Seq(Event)
  BY <1>5, <1>6 DEF TypeOK
<1>8. QED
  BY <1>1, <1>4, <1>5, <1>6, <1>7

LEMMA MovedIsExplained ==
  ASSUME TypeOK, NEW p \in Ids, NEW to \in Status, NEW k \in Keys,
         Moved(p, to, k), Explained(p)
  PROVE  Explained(p)'
<1> DEFINE e == [key |-> k, to |-> to, from |-> rows[p].status]
           h == events[p]
           g == events'[p]
           v == rows[p].version
<1>1. /\ h \in Seq(Event) /\ v \in Nat \ {0} /\ Len(h) = v
      /\ h[1].from = "none" /\ h[1].to = "draft" /\ h[v].to = rows[p].status
      /\ \A i \in 2..v : h[i].from = h[i - 1].to
      /\ \A i, j \in 1..v : h[i].key = h[j].key /\ h[i].key # "legacy" => i = j
  <2>1. h \in Seq(Event)
    BY DEF TypeOK
  <2>2. v \in Nat \ {0} /\ Len(h) = v
    BY MovedRow DEF Explained, Row
  <2>3. DOMAIN h = 1..v
    BY <2>1, <2>2
  <2>4. QED
    BY <2>1, <2>2, <2>3 DEF Explained
<1>2. g = Append(h, e) /\ rows'[p].version = v + 1
        /\ rows'[p].status = to /\ outbox'[p] = Announced(p)
  BY MovedRow
<1>3. Len(g) = v + 1 /\ g[v + 1] = e /\ \A i \in 1..v : g[i] = h[i]
  BY <1>1, <1>2
<1>4. outbox'[p] = 1..(v + 1)
  <2>1. outbox[p] = 1..v
    BY DEF Explained
  <2>2. (1..v) \cup {v + 1} = 1..(v + 1)
    BY <1>1
  <2>3. QED
    BY <1>2, <2>1, <2>2 DEF Announced
<1>5. \A n \in 1..v : h[n].key # k
  BY <1>1 DEF Moved, KeysOf
<1>6. e.key = k /\ e.to = to /\ e.from = rows[p].status
  OBVIOUS
<1>7. DOMAIN g = 1..(v + 1)
  BY <1>1, <1>2
<1>8. v \in Nat \ {0}
  BY <1>1
<1> HIDE DEF e, h, g, v
<1>9. g[1].from = "none" /\ g[1].to = "draft"
  BY <1>1, <1>3, <1>8
<1>10. ASSUME NEW i \in 2..(v + 1) PROVE g[i].from = g[i - 1].to
  <2>1. CASE i = v + 1
    BY <1>1, <1>3, <1>6, <1>8, <2>1
  <2>2. CASE i # v + 1
    <3>1. i \in 2..v /\ i \in 1..v /\ i - 1 \in 1..v
      BY <1>8, <2>2
    <3>2. QED
      BY <1>1, <1>3, <3>1
  <2>3. QED
    BY <2>1, <2>2
<1>11. ASSUME NEW i \in 1..(v + 1), NEW j \in 1..(v + 1),
              g[i].key = g[j].key, g[i].key # "legacy"
       PROVE  i = j
  <2>1. CASE i \in 1..v /\ j \in 1..v
    BY <1>1, <1>3, <1>11, <2>1
  <2>2. CASE i = v + 1 /\ j \in 1..v
    BY <1>3, <1>5, <1>6, <1>11, <2>2
  <2>3. CASE i \in 1..v /\ j = v + 1
    BY <1>3, <1>5, <1>6, <1>11, <2>3
  <2>4. CASE i = v + 1 /\ j = v + 1
    BY <2>4
  <2>5. QED
    BY <1>8, <2>1, <2>2, <2>3, <2>4
<1>12. QED
  BY <1>2, <1>3, <1>4, <1>6, <1>7, <1>9, <1>10, <1>11 DEF Explained, g

LEMMA HistoryKept ==
  ASSUME TypeOK, SeenIsHistorical, HistoryExplainsRow, NEW c \in Clients, Step(c)
  PROVE  HistoryExplainsRow'
<1> SUFFICES ASSUME NEW q \in Ids, Exists(q)' PROVE Explained(q)'
  BY DEF HistoryExplainsRow, Explained
<1>1. CASE Quiet
  BY <1>1, HistoryIsExplained DEF Quiet, Exists, Explained
<1>2. ASSUME NEW p \in Ids, NEW o \in Orders, NEW k \in Keys, Drafted(p, o, k)
      PROVE  Explained(q)'
  <2>1. CASE q = p
    <3>1. events'[p] = << [key |-> k, to |-> "draft", from |-> "none"] >>
            /\ rows'[p] = NewDraft(o) /\ outbox'[p] = {1}
      BY <1>2, DraftedRow
    <3>2. rows'[p].version = 1 /\ rows'[p].status = "draft"
      BY <3>1 DEF NewDraft
    <3>3. 1..1 = {1}
      OBVIOUS
    <3>4. QED
      BY <2>1, <3>1, <3>2, <3>3 DEF Explained
  <2>2. CASE q # p
    BY <1>2, <2>2, OthersKept, HistoryIsExplained DEF Exists, Explained
  <2>3. QED
    BY <2>1, <2>2
<1>3. ASSUME NEW p \in Ids, NEW to \in Status, NEW k \in Keys, Moved(p, to, k)
      PROVE  Explained(q)'
  <2>1. CASE q = p
    <3>1. Explained(p)
      BY <1>3, HistoryIsExplained DEF Moved
    <3>2. QED
      BY <1>3, <2>1, <3>1, MovedIsExplained
  <2>2. CASE q # p
    BY <1>3, <2>2, OthersKept, HistoryIsExplained DEF Exists, Explained
  <2>3. QED
    BY <2>1, <2>2
<1>4. QED
  BY <1>1, <1>2, <1>3, StepCases

----------------------------------------------------------------------------
(***************************************************************************)
(* Types.                                                                  *)
(***************************************************************************)
LEMMA RowsTyped ==
  ASSUME TypeOK, SeenIsHistorical, NEW c \in Clients, Step(c)
  PROVE  /\ rows' \in [Ids -> Row \cup {NoRow}]
         /\ events' \in [Ids -> Seq(Event)]
         /\ outbox' \in [Ids -> SUBSET Nat]
<1>1. CASE Quiet
  BY <1>1 DEF Quiet, TypeOK
<1>2. ASSUME NEW p \in Ids, NEW o \in Orders, NEW k \in Keys, Drafted(p, o, k)
      PROVE  /\ rows' \in [Ids -> Row \cup {NoRow}]
             /\ events' \in [Ids -> Seq(Event)]
             /\ outbox' \in [Ids -> SUBSET Nat]
  <2>1. rows'[p] \in Row /\ events'[p] \in Seq(Event) /\ outbox'[p] = {1}
    BY <1>2, DraftedRow
  <2>2. QED
    BY <1>2, <2>1 DEF Drafted, TypeOK
<1>3. ASSUME NEW p \in Ids, NEW to \in Status, NEW k \in Keys, Moved(p, to, k)
      PROVE  /\ rows' \in [Ids -> Row \cup {NoRow}]
             /\ events' \in [Ids -> Seq(Event)]
             /\ outbox' \in [Ids -> SUBSET Nat]
  <2>1. rows'[p] \in Row /\ events'[p] \in Seq(Event)
    BY <1>3, MovedRow
  <2>2. outbox'[p] \in SUBSET Nat
    <3>1. rows[p].version + 1 \in Nat
      <4>1. rows[p] \in Row
        BY <1>3, MovedRow
      <4>2. QED
        BY <4>1 DEF Row
    <3>4. outbox[p] \in SUBSET Nat
      BY DEF TypeOK
    <3>2. outbox'[p] = outbox[p] \cup {rows[p].version + 1}
      BY <1>3, MovedRow DEF Announced
    <3>3. QED
      BY <3>1, <3>2, <3>4
  <2>3. QED
    BY <1>3, <2>1, <2>2 DEF Moved, TypeOK
<1>4. QED
  BY <1>1, <1>2, <1>3, StepCases

\* Being told an answer: the command is gone, or starts again from the top.
LEMMA Told ==
  ASSUME TypeOK, NEW c \in Clients, NEW said, NEW p, NEW o,
         NEW changed \in BOOLEAN,
         said \in Outcomes, p \in Ids \cup {NoId}, o \in Orders,
         client[c].command.kind # "nothing",
         Tell(c, said, p, o, changed)
  PROVE  /\ client' \in [Clients -> ClientState]
         /\ sent' \in 0..MaxSends
         /\ \A d \in Clients : d # c => client'[d] = client[d]
         /\ client'[c].command \in {NoCommand, Restarted(client[c].command)}
         /\ client'[c].applied = client[c].applied + (IF changed THEN 1 ELSE 0)
         /\ client'[c].answer = Answer(said, p, o)
<1> DEFINE cmd == client[c].command
<1>1. client[c] \in ClientState /\ cmd \in Commands
  BY DEF TypeOK, ClientState
<1>2. NoCommand \in Commands
  BY DEF Commands
<1>3. Restarted(cmd) \in Commands
  BY <1>1 DEF Restarted, Commands, NoCommand
<1>4. Answer(said, p, o) \in [order : Orders \cup {"none"}, id : Ids \cup {NoId},
                              said : Outcomes]
  BY DEF Answer
<1>5. client[c].applied + (IF changed THEN 1 ELSE 0) \in Nat
  BY <1>1 DEF ClientState
<1>6. PICK again \in {FALSE} \cup {sent < MaxSends} :
        /\ client' = [client EXCEPT ![c] =
             [command |-> IF again THEN Restarted(client[c].command) ELSE NoCommand,
              applied |-> client[c].applied + (IF changed THEN 1 ELSE 0),
              answer  |-> Answer(said, p, o)]]
        /\ sent' = IF again THEN sent + 1 ELSE sent
  BY DEF Tell, TypeOK
<1>7. client'[c] = [command |-> IF again THEN Restarted(cmd) ELSE NoCommand,
                   applied |-> client[c].applied + (IF changed THEN 1 ELSE 0),
                   answer  |-> Answer(said, p, o)]
  BY <1>6 DEF TypeOK
<1>8. client'[c] \in ClientState
  BY <1>2, <1>3, <1>4, <1>5, <1>7 DEF ClientState
<1>9. client' \in [Clients -> ClientState]
  BY <1>6, <1>8 DEF TypeOK
<1>10. sent' \in 0..MaxSends
  <2>1. sent \in 0..MaxSends
    BY DEF TypeOK
  <2>2. CASE again
    <3>1. sent < MaxSends
      BY <2>2
    <3>2. QED
      BY <1>6, <2>1, <2>2, <3>1
  <2>3. CASE ~again
    BY <1>6, <2>1, <2>3
  <2>4. QED
    BY <2>2, <2>3
<1>11. QED
  BY <1>6, <1>7, <1>9, <1>10 DEF TypeOK

\* What a step does to the commands and answers of the clients.
LEMMA ClientCases ==
  ASSUME TypeOK, SeenIsHistorical, NEW c \in Clients, Step(c)
  PROVE  /\ client' \in [Clients -> ClientState]
         /\ sent' \in 0..MaxSends
         /\ cards' \subseteq Products
         /\ \A d \in Clients : d # c => client'[d] = client[d]
<1>1. client[c] \in ClientState /\ client[c].command \in Commands
  BY DEF TypeOK, ClientState
<1>2. ASSUME NEW cmd \in Commands, Send(c, cmd)
      PROVE  /\ client' \in [Clients -> ClientState]
             /\ sent' \in 0..MaxSends
             /\ cards' \subseteq Products
             /\ \A d \in Clients : d # c => client'[d] = client[d]
  <2>1. Silent \in [order : Orders \cup {"none"}, id : Ids \cup {NoId}, said : Outcomes]
    BY DEF Silent, Answer, Outcomes
  <2>2. [command |-> cmd, applied |-> 0, answer |-> Silent] \in ClientState
    BY <2>1 DEF ClientState
  <2>3. client' = [client EXCEPT ![c] = [command |-> cmd, applied |-> 0, answer |-> Silent]]
    BY <1>2 DEF Send
  <2>4. sent' \in 0..MaxSends
    BY <1>2 DEF Send, TypeOK
  <2>5. QED
    BY <1>2, <2>2, <2>3, <2>4 DEF Send, TypeOK
<1>3. CASE SendCreate(c)
  <2>1. PICK o \in Orders, k \in Keys : Send(c, Create(o, k, "key", FALSE))
    BY <1>3 DEF SendCreate
  <2>2. Create(o, k, "key", FALSE) \in Commands
    BY DEF Create, Commands
  <2>3. QED
    BY <1>2, <2>1, <2>2
<1>4. CASE SendMove(c)
  <2>1. PICK p \in Ids, to \in Status, k \in Keys :
          /\ Exists(p)
          /\ Send(c, Move(p, to, [status |-> rows[p].status,
                                  version |-> rows[p].version], k))
    BY <1>4 DEF SendMove
  <2>2. [status |-> rows[p].status, version |-> rows[p].version] \in Seen
    BY <2>1, ExistsTyped DEF Seen, Row
  <2>3. Move(p, to, [status |-> rows[p].status, version |-> rows[p].version], k)
          \in Commands
    BY <2>2 DEF Move, Commands
  <2>4. QED
    BY <1>2, <2>1, <2>3
<1>5. ASSUME NEW cmd \in Commands, client' = [client EXCEPT ![c].command = cmd],
             UNCHANGED sent, UNCHANGED cards
      PROVE  /\ client' \in [Clients -> ClientState]
             /\ sent' \in 0..MaxSends
             /\ cards' \subseteq Products
             /\ \A d \in Clients : d # c => client'[d] = client[d]
  <2>1. [client[c] EXCEPT !.command = cmd] \in ClientState
    BY <1>1 DEF ClientState
  <2>2. QED
    BY <1>5, <2>1 DEF TypeOK
<1>6. CASE LookUpKey(c)
  <2> DEFINE o == client[c].command.order
             found == Holders(o, client[c].command.key)
  <2>1. o \in Orders /\ client[c].command.kind = "create"
    BY <1>6, CommandFacts DEF LookUpKey, Creating
  <2>2. CASE found = {}
    <3>1. [client[c].command EXCEPT !.at = "order"] \in Commands
      BY <1>1, <2>1 DEF Commands, NoCommand
    <3>2. client' = [client EXCEPT ![c].command =
                       [client[c].command EXCEPT !.at = "order"]]
      BY <1>6, <2>2 DEF LookUpKey, TypeOK
    <3>3. UNCHANGED sent /\ UNCHANGED cards
      BY <1>6, <2>2 DEF LookUpKey
    <3>4. QED
      BY <1>5, <3>1, <3>2, <3>3
  <2>3. CASE found # {}
    <3>1. PICK p \in found : Tell(c, "ok", p, o, FALSE)
      BY <1>6, <2>3 DEF LookUpKey
    <3>2. p \in Ids
      BY DEF Holders
    <3>3. "ok" \in Outcomes
      BY DEF Outcomes
    <3>4. cards' \subseteq Products
      BY <1>6 DEF LookUpKey, TypeOK
    <3>5. QED
      BY <2>1, <3>1, <3>2, <3>3, <3>4, Told
  <2>4. QED
    BY <2>2, <2>3
<1>7. CASE LookUpOrder(c)
  <2> DEFINE o == client[c].command.order
             moved == [client[c].command EXCEPT
                         !.at = "insert", !.needsCard = ProductOf[o] \notin cards]
  <2>1. o \in Orders /\ client[c].command.kind = "create"
    BY <1>7, CommandFacts DEF LookUpOrder, Creating
  <2>2. CASE LiveOf(o) = {}
    <3>1. moved \in Commands
      BY <1>1, <2>1 DEF Commands, NoCommand
    <3>2. client' = [client EXCEPT ![c].command = moved]
      BY <1>7, <2>2 DEF LookUpOrder, TypeOK
    <3>3. UNCHANGED sent /\ UNCHANGED cards
      BY <1>7, <2>2 DEF LookUpOrder
    <3>4. QED
      BY <1>5, <3>1, <3>2, <3>3
  <2>3. CASE LiveOf(o) # {}
    <3>1. PICK p \in LiveOf(o) : Tell(c, "ok", p, o, FALSE)
      BY <1>7, <2>3 DEF LookUpOrder
    <3>2. p \in Ids
      BY DEF LiveOf
    <3>3. "ok" \in Outcomes
      BY DEF Outcomes
    <3>4. cards' \subseteq Products
      BY <1>7 DEF LookUpOrder, TypeOK
    <3>5. QED
      BY <2>1, <3>1, <3>2, <3>3, <3>4, Told
  <2>4. QED
    BY <2>2, <2>3
<1>8. CASE InsertDraft(c)
  <2> DEFINE o == client[c].command.order
  <2>1. o \in Orders /\ client[c].command.kind = "create"
    BY <1>8, CommandFacts DEF InsertDraft, Creating
  <2>2. cards' \subseteq Products
    <3>1. cards \subseteq Products /\ ProductOf[o] \in Products
      BY <2>1 DEF TypeOK
    <3>2. cards' = cards \/ cards' = cards \cup {ProductOf[o]}
      BY <1>8 DEF InsertDraft
    <3>3. QED
      BY <3>1, <3>2
  <2>3. "ok" \in Outcomes /\ "failed" \in Outcomes
    BY DEF Outcomes
  <2>4. Tell(c, "failed", NoId, o, FALSE) \/ \E p \in Ids : Tell(c, "ok", p, o, TRUE)
    BY <1>8 DEF InsertDraft
  <2>5. QED
    BY <2>1, <2>2, <2>3, <2>4, Told
<1>9. CASE Transition(c)
  <2> DEFINE cmd == client[c].command
             v == Verdict(cmd.id, cmd)
  <2>1. cmd.id \in Ids /\ cmd.kind = "move" /\ Exists(cmd.id)
    BY <1>9, CommandFacts DEF Transition, SeenIsHistorical
  <2>2. rows[cmd.id].order \in Orders
    BY <2>1, ExistsTyped DEF Row
  <2>3. v \in Outcomes
    BY DEF Verdict, Outcomes
  <2>4. Tell(c, v, cmd.id, rows[cmd.id].order, v = "applied")
    BY <1>9 DEF Transition
  <2>5. cards' \subseteq Products
    BY <1>9 DEF Transition, TypeOK
  <2>6. QED
    BY <2>1, <2>2, <2>3, <2>4, <2>5, Told
<1>10. QED
  BY <1>3, <1>4, <1>6, <1>7, <1>8, <1>9 DEF Step

----------------------------------------------------------------------------
(***************************************************************************)
(* The remaining parts of the invariant.                                   *)
(***************************************************************************)

\* A purchase that exists keeps existing, its version does not go down, and
\* its trail keeps what it said.
LEMMA TrailGrows ==
  ASSUME TypeOK, SeenIsHistorical, HistoryExplainsRow,
         NEW c \in Clients, Step(c), NEW p \in Ids, Exists(p)
  PROVE  /\ Exists(p)'
         /\ rows'[p].version >= rows[p].version
         /\ \A n \in 1..rows[p].version : events'[p][n] = events[p][n]
         /\ KeysOf(p) \subseteq KeysOf(p)'
<1>1. rows[p] \in Row /\ rows[p].version \in Nat \ {0}
  BY ExistsTyped DEF Row
<1>2. Len(events[p]) = rows[p].version /\ events[p] \in Seq(Event)
  BY DEF HistoryExplainsRow, TypeOK
<1>3. CASE Quiet
  BY <1>1, <1>3 DEF Quiet, Exists, KeysOf
<1>4. ASSUME NEW q \in Ids, NEW o \in Orders, NEW k \in Keys, Drafted(q, o, k)
      PROVE  rows'[p] = rows[p] /\ events'[p] = events[p]
  <2>1. q # p
    BY <1>4 DEF Drafted
  <2>2. QED
    BY <1>4, <2>1, OthersKept
<1>5. ASSUME NEW q \in Ids, NEW to \in Status, NEW k \in Keys, Moved(q, to, k), q # p
      PROVE  rows'[p] = rows[p] /\ events'[p] = events[p]
  BY <1>5, OthersKept
<1>6. ASSUME rows'[p] = rows[p], events'[p] = events[p]
      PROVE  /\ Exists(p)'
             /\ rows'[p].version >= rows[p].version
             /\ \A n \in 1..rows[p].version : events'[p][n] = events[p][n]
             /\ KeysOf(p) \subseteq KeysOf(p)'
  BY <1>1, <1>6 DEF Exists, KeysOf
<1>7. ASSUME NEW to \in Status, NEW k \in Keys, Moved(p, to, k)
      PROVE  /\ Exists(p)'
             /\ rows'[p].version >= rows[p].version
             /\ \A n \in 1..rows[p].version : events'[p][n] = events[p][n]
             /\ KeysOf(p) \subseteq KeysOf(p)'
  <2> DEFINE e == [key |-> k, to |-> to, from |-> rows[p].status]
  <2>1. rows'[p] \in Row /\ rows'[p].version = rows[p].version + 1
          /\ events'[p] = Append(events[p], e)
    BY <1>7, MovedRow
  <2>2. Exists(p)'
    BY <2>1, RowFacts DEF Exists
  <2>3. rows'[p].version >= rows[p].version
    BY <1>1, <2>1
  <2>4. \A n \in 1..rows[p].version : events'[p][n] = events[p][n]
    BY <1>2, <2>1
  <2>5. DOMAIN events[p] = 1..rows[p].version
          /\ DOMAIN events[p] \subseteq DOMAIN events'[p]
    BY <1>1, <1>2, <2>1
  <2>6. KeysOf(p) \subseteq KeysOf(p)'
    BY <2>4, <2>5 DEF KeysOf
  <2>7. QED
    BY <2>2, <2>3, <2>4, <2>6
<1>8. QED
  BY <1>3, <1>4, <1>5, <1>6, <1>7, StepCases

\* The status a row names is the one of its newest event.
LEMMA NewestEvent ==
  ASSUME TypeOK, HistoryExplainsRow, NEW p \in Ids, Exists(p)
  PROVE  events[p][rows[p].version].to = rows[p].status
  BY DEF HistoryExplainsRow

LEMMA CommandAfter ==
  ASSUME TypeOK, SeenIsHistorical, NEW c \in Clients, Step(c),
         client'[c].command.kind = "move"
  PROVE  \/ client'[c].command = client[c].command
         \/ /\ client'[c].applied = 0
            /\ \E p \in Ids : /\ Exists(p)
                             /\ UNCHANGED <<rows, events>>
                             /\ client'[c].command.id = p
                             /\ client'[c].command.seen.version = rows[p].version
                             /\ client'[c].command.seen.status = rows[p].status
<1>1. CASE SendCreate(c)
  <2>1. client'[c].command.kind = "create"
    BY <1>1 DEF SendCreate, Send, Create, TypeOK
  <2>2. QED
    BY <2>1
<1>2. CASE SendMove(c)
  <2>1. PICK p \in Ids, to \in Status, k \in Keys :
          /\ Exists(p)
          /\ Send(c, Move(p, to, [status |-> rows[p].status,
                                  version |-> rows[p].version], k))
    BY <1>2 DEF SendMove
  <2>2. client'[c] = [command |-> Move(p, to, [status |-> rows[p].status,
                                 version |-> rows[p].version], k),
                      applied |-> 0, answer |-> Silent]
    BY <2>1 DEF Send, TypeOK
  <2>3. QED
    BY <2>1, <2>2 DEF Send, Move
<1>3. CASE LookUpKey(c) \/ LookUpOrder(c) \/ InsertDraft(c)
  <2>1. client[c].command.kind = "create" /\ client[c].command.order \in Orders
          /\ client[c].command \in Commands
    BY <1>3, CommandFacts DEF LookUpKey, LookUpOrder, InsertDraft, Creating
  <2>2. "ok" \in Outcomes /\ "failed" \in Outcomes
    BY DEF Outcomes
  <2>3. ASSUME NEW said \in Outcomes, NEW p \in Ids \cup {NoId}, NEW b \in BOOLEAN,
               Tell(c, said, p, client[c].command.order, b)
        PROVE  FALSE
    <3>1. client'[c].command \in {NoCommand, Restarted(client[c].command)}
      BY <2>1, <2>3, Told
    <3>2. Restarted(client[c].command).kind = "create"
      BY <2>1 DEF Restarted, Commands, NoCommand
    <3>3. QED
      BY <3>1, <3>2 DEF NoCommand
  <2>4. CASE LookUpKey(c)
    <3>1. CASE client' = [client EXCEPT ![c].command.at = "order"]
      BY <2>1, <3>1 DEF TypeOK, ClientState
    <3>2. QED
      BY <2>2, <2>3, <2>4, <3>1 DEF LookUpKey, Holders
  <2>5. CASE LookUpOrder(c)
    <3>1. CASE client' = [client EXCEPT ![c].command =
                 [client[c].command EXCEPT !.at = "insert",
                   !.needsCard = ProductOf[client[c].command.order] \notin cards]]
      BY <2>1, <3>1 DEF TypeOK, ClientState
    <3>2. QED
      BY <2>2, <2>3, <2>5, <3>1 DEF LookUpOrder, LiveOf
  <2>6. CASE InsertDraft(c)
    BY <2>2, <2>3, <2>6 DEF InsertDraft
  <2>7. QED
    BY <1>3, <2>4, <2>5, <2>6
<1>4. CASE Transition(c)
  <2> DEFINE cmd == client[c].command
             v == Verdict(cmd.id, cmd)
  <2>1. cmd.id \in Ids /\ cmd.kind = "move" /\ Exists(cmd.id)
    BY <1>4, CommandFacts DEF Transition, SeenIsHistorical
  <2>2. rows[cmd.id].order \in Orders
    BY <2>1, ExistsTyped DEF Row
  <2>3. v \in Outcomes
    BY DEF Verdict, Outcomes
  <2>4. Tell(c, v, cmd.id, rows[cmd.id].order, v = "applied")
    BY <1>4 DEF Transition
  <2>5. client'[c].command \in {NoCommand, Restarted(cmd)}
    BY <2>1, <2>2, <2>3, <2>4, Told
  <2>6. Restarted(cmd) = cmd
    BY <2>1 DEF Restarted
  <2>7. QED
    BY <2>5, <2>6 DEF NoCommand
<1>5. QED
  BY <1>1, <1>2, <1>3, <1>4 DEF Step

\* The claim SeenIsHistorical makes of one purchase, version and status.
Historical(p, v, st) ==
  Exists(p) /\ v <= rows[p].version /\ events[p][v].to = st

LEMMA HistoricalKept ==
  ASSUME TypeOK, SeenIsHistorical, HistoryExplainsRow, NEW c \in Clients, Step(c),
         NEW p \in Ids, NEW v \in Nat \ {0}, NEW st, Historical(p, v, st)
  PROVE  Historical(p, v, st)'
<1>1. Exists(p) /\ v <= rows[p].version /\ events[p][v].to = st
  BY DEF Historical
<1>2. rows[p].version \in Nat
  BY <1>1, ExistsTyped DEF Row
<1>3. v \in 1..rows[p].version
  BY <1>1, <1>2
<1>4. Exists(p)' /\ rows'[p].version >= rows[p].version
        /\ events'[p][v] = events[p][v]
  BY <1>1, <1>3, TrailGrows
<1>5. rows'[p] \in Row
  BY <1>4, RowsTyped DEF Exists
<1>6. rows'[p].version \in Nat
  BY <1>5 DEF Row
<1>7. v <= rows'[p].version
  BY <1>1, <1>2, <1>4, <1>6
<1>8. QED
  BY <1>1, <1>4, <1>7 DEF Historical

LEMMA SeenKept ==
  ASSUME TypeOK, SeenIsHistorical, HistoryExplainsRow, NEW c \in Clients, Step(c)
  PROVE  SeenIsHistorical'
<1>1. SUFFICES ASSUME NEW d \in Clients, client'[d].command.kind = "move",
                      NEW p, p = client'[d].command.id,
                      NEW v, v = client'[d].command.seen.version,
                      NEW st, st = client'[d].command.seen.status
               PROVE  Historical(p, v, st)'
  BY DEF SeenIsHistorical, Historical, Exists
<1>2. CASE client'[d].command = client[d].command
  <2>1. p \in Ids /\ v \in Nat \ {0}
    BY <1>1, <1>2, CommandFacts
  <2>2. Historical(p, v, st)
    BY <1>1, <1>2 DEF SeenIsHistorical, Historical
  <2>3. QED
    BY <2>1, <2>2, HistoricalKept
<1>3. CASE client'[d].command # client[d].command
  <2>1. d = c
    BY <1>3, ClientCases
  <2>2. /\ p \in Ids /\ Exists(p)
        /\ UNCHANGED <<rows, events>>
        /\ v = rows[p].version
        /\ st = rows[p].status
    BY <1>1, <1>3, <2>1, CommandAfter
  <2>3. rows[p].version \in Nat
    BY <2>2, ExistsTyped DEF Row
  <2>4. events[p][v].to = st
    BY <2>2, NewestEvent
  <2>5. QED
    BY <2>2, <2>3, <2>4 DEF Historical, Exists
<1>4. QED
  BY <1>2, <1>3

LEMMA TrailKept ==
  ASSUME TypeOK, SeenIsHistorical, NoTrailWithoutRow, NEW c \in Clients, Step(c)
  PROVE  NoTrailWithoutRow'
<1> SUFFICES ASSUME NEW q \in Ids, ~Exists(q)' PROVE events'[q] = << >>
  BY DEF NoTrailWithoutRow
<1>1. CASE Quiet
  BY <1>1 DEF Quiet, Exists, NoTrailWithoutRow
<1>2. ASSUME NEW p \in Ids, rows'[p] \in Row,
             q # p => rows'[q] = rows[q] /\ events'[q] = events[q]
      PROVE  events'[q] = << >>
  <2>1. q # p
    BY <1>2, RowFacts DEF Exists
  <2>2. QED
    BY <1>2, <2>1 DEF Exists, NoTrailWithoutRow
<1>3. ASSUME NEW p \in Ids, NEW o \in Orders, NEW k \in Keys, Drafted(p, o, k)
      PROVE  events'[q] = << >>
  BY <1>2, <1>3, DraftedRow, OthersKept
<1>4. ASSUME NEW p \in Ids, NEW to \in Status, NEW k \in Keys, Moved(p, to, k)
      PROVE  events'[q] = << >>
  BY <1>2, <1>4, MovedRow, OthersKept
<1>5. QED
  BY <1>1, <1>3, <1>4, StepCases

\* Keys are never forgotten.
LEMMA KeysKept ==
  ASSUME TypeOK, SeenIsHistorical, HistoryExplainsRow, NoTrailWithoutRow,
         NEW c \in Clients, Step(c), NEW p \in Ids
  PROVE  KeysOf(p) \subseteq KeysOf(p)'
<1>1. CASE Exists(p)
  BY <1>1, TrailGrows
<1>2. CASE ~Exists(p)
  <2>1. KeysOf(p) = {}
    BY <1>2 DEF NoTrailWithoutRow, KeysOf
  <2>2. QED
    BY <2>1
<1>3. QED
  BY <1>1, <1>2

\* What RepeatIsRecognised and RepeatIsAcknowledged say of one client.
RepeatSafe(c) ==
  client[c].applied > 0 =>
    /\ client[c].command.kind = "move" =>
         client[c].command.key \in KeysOf(client[c].command.id)
    /\ client[c].command.kind = "create" =>
         /\ client[c].command.at = "key"
         /\ \E p \in Ids : client[c].command.key \in KeysOf(p)
    /\ client[c].applied = 1
    /\ client[c].answer.said \in {"ok", "applied", "replayed"}

LEMMA RepeatSafeMeaning ==
  RepeatIsRecognised /\ RepeatIsAcknowledged <=> \A c \in Clients : RepeatSafe(c)
  BY DEF RepeatSafe, RepeatIsRecognised, RepeatIsAcknowledged

\* A client that is told an answer stays safe if what is applied is in the trail.
LEMMA ToldSafe ==
  ASSUME TypeOK, NEW c \in Clients, NEW said, NEW p, NEW o, NEW b \in BOOLEAN,
         said \in Outcomes, p \in Ids \cup {NoId}, o \in Orders,
         client[c].command.kind # "nothing",
         Tell(c, said, p, o, b),
         client[c].applied + (IF b THEN 1 ELSE 0) > 0 =>
           /\ client[c].applied + (IF b THEN 1 ELSE 0) = 1
           /\ said \in {"ok", "applied", "replayed"}
           /\ client[c].command.kind = "move" =>
                /\ client[c].command.id \in Ids
                /\ \A q \in Ids : q = client[c].command.id =>
                      client[c].command.key \in KeysOf(q)'
           /\ client[c].command.kind = "create" =>
                \E q \in Ids : client[c].command.key \in KeysOf(q)'
  PROVE  RepeatSafe(c)'
<1> DEFINE cmd == client[c].command
<1>1. /\ client'[c].command \in {NoCommand, Restarted(cmd)}
      /\ client'[c].applied = client[c].applied + (IF b THEN 1 ELSE 0)
      /\ client'[c].answer = Answer(said, p, o)
  BY Told
<1>2. client'[c].answer.said = said
  BY <1>1 DEF Answer
<1>3. cmd \in Commands
  BY CommandFacts
<1>4. /\ Restarted(cmd).kind = cmd.kind
      /\ cmd.kind = "move" => Restarted(cmd) = cmd
      /\ cmd.kind = "create" => /\ Restarted(cmd).at = "key"
                               /\ Restarted(cmd).key = cmd.key
  BY <1>3 DEF Restarted, Commands, NoCommand
<1>5. NoCommand.kind = "nothing"
  BY DEF NoCommand
<1>6. ASSUME client'[c].applied > 0
      PROVE  /\ client'[c].applied = 1
             /\ client'[c].answer.said \in {"ok", "applied", "replayed"}
             /\ client'[c].command.kind = "move" =>
                  \A q \in Ids : q = client'[c].command.id =>
                     client'[c].command.key \in KeysOf(q)'
             /\ client'[c].command.kind = "move" => client'[c].command.id \in Ids
             /\ client'[c].command.kind = "create" =>
                  /\ client'[c].command.at = "key"
                  /\ \E q \in Ids : client'[c].command.key \in KeysOf(q)'
  BY <1>1, <1>2, <1>4, <1>5, <1>6
<1>7. QED
  BY <1>6 DEF RepeatSafe, KeysOf

LEMMA RepeatKept ==
  ASSUME TypeOK, SeenIsHistorical, HistoryExplainsRow, NoTrailWithoutRow,
         \A d \in Clients : RepeatSafe(d), NEW c \in Clients, Step(c),
         NEW d \in Clients
  PROVE  RepeatSafe(d)'
<1>1. CASE d # c
  <2>1. client'[d] = client[d]
    BY <1>1, ClientCases
  <2>2. \A p \in Ids : KeysOf(p) \subseteq KeysOf(p)'
    BY KeysKept
  <2>3. client[d].command.kind = "move" => client[d].command.id \in Ids
    BY CommandFacts
  <2>4. SUFFICES ASSUME client[d].applied > 0
                 PROVE  /\ client[d].command.kind = "move" =>
                             \E q \in Ids : /\ q = client[d].command.id
                                           /\ client[d].command.key \in KeysOf(q)'
                        /\ client[d].command.kind = "create" =>
                             /\ client[d].command.at = "key"
                             /\ \E q \in Ids : client[d].command.key \in KeysOf(q)'
                        /\ client[d].applied = 1
                        /\ client[d].answer.said \in {"ok", "applied", "replayed"}
    BY <2>1 DEF RepeatSafe, KeysOf
  <2>5. RepeatSafe(d)
    OBVIOUS
  <2>6. QED
    BY <2>2, <2>3, <2>4, <2>5 DEF RepeatSafe
<1>2. CASE d = c
  <2> DEFINE cmd == client[c].command
  <2>1. client[c] \in ClientState /\ cmd \in Commands /\ client[c].applied \in Nat
    BY DEF TypeOK, ClientState
  <2>2. RepeatSafe(c)
    OBVIOUS
  <2>3. CASE SendCreate(c) \/ SendMove(c)
    <3>1. client'[c].applied = 0
      <4>1. ASSUME NEW sending, Send(c, sending) PROVE client'[c].applied = 0
        BY <4>1 DEF Send, TypeOK
      <4>2. QED
        BY <2>3, <4>1 DEF SendCreate, SendMove
    <3>2. QED
      BY <1>2, <3>1 DEF RepeatSafe
  <2>4. CASE LookUpKey(c)
    <3> DEFINE o == cmd.order
               found == Holders(o, cmd.key)
    <3>1. o \in Orders /\ cmd.kind = "create" /\ cmd.key \in Keys
      BY <2>4, CommandFacts DEF LookUpKey, Creating
    <3>2. CASE found = {}
      <4>1. client[c].applied = 0
        BY <2>1, <2>2, <3>1, <3>2 DEF RepeatSafe, Holders
      <4>2. client'[c].applied = 0
        BY <2>1, <2>4, <3>2, <4>1 DEF LookUpKey, TypeOK, ClientState
      <4>3. QED
        BY <1>2, <4>2 DEF RepeatSafe
    <3>3. CASE found # {}
      <4>1. PICK p \in found : Tell(c, "ok", p, o, FALSE)
        BY <2>4, <3>3 DEF LookUpKey
      <4>2. p \in Ids /\ cmd.key \in KeysOf(p)
        BY DEF Holders
      <4>3. \E q \in Ids : cmd.key \in KeysOf(q)'
        BY <4>2, KeysKept
      <4>4. "ok" \in Outcomes
        BY DEF Outcomes
      <4>5. client[c].applied > 0 => client[c].applied = 1
        BY <2>2 DEF RepeatSafe
      <4>6. client[c].applied + (IF FALSE THEN 1 ELSE 0) = client[c].applied
        BY <2>1
      <4>7. QED
        BY <1>2, <3>1, <4>1, <4>2, <4>3, <4>4, <4>5, <4>6, ToldSafe
    <3>4. QED
      BY <3>2, <3>3
  <2>5. CASE LookUpOrder(c)
    <3> DEFINE o == cmd.order
    <3>1. o \in Orders /\ cmd.kind = "create" /\ cmd.at = "order"
      BY <2>5, CommandFacts DEF LookUpOrder, Creating
    <3>2. client[c].applied = 0
      BY <2>1, <2>2, <3>1 DEF RepeatSafe
    <3>3. CASE LiveOf(o) = {}
      <4>1. client'[c].applied = 0
        BY <2>1, <2>5, <3>2, <3>3 DEF LookUpOrder, TypeOK, ClientState
      <4>2. QED
        BY <1>2, <4>1 DEF RepeatSafe
    <3>4. CASE LiveOf(o) # {}
      <4>1. PICK p \in LiveOf(o) : Tell(c, "ok", p, o, FALSE)
        BY <2>5, <3>4 DEF LookUpOrder
      <4>2. p \in Ids /\ "ok" \in Outcomes
        BY DEF LiveOf, Outcomes
      <4>3. ~(client[c].applied + (IF FALSE THEN 1 ELSE 0) > 0)
        BY <3>2
      <4>4. QED
        BY <1>2, <3>1, <4>1, <4>2, <4>3, ToldSafe
    <3>5. QED
      BY <3>3, <3>4
  <2>6. CASE InsertDraft(c)
    <3> DEFINE o == cmd.order
    <3>1. o \in Orders /\ cmd.kind = "create" /\ cmd.at = "insert" /\ cmd.key \in Keys
      BY <2>6, CommandFacts DEF InsertDraft, Creating
    <3>2. client[c].applied = 0
      BY <2>1, <2>2, <3>1 DEF RepeatSafe
    <3>3. "ok" \in Outcomes /\ "failed" \in Outcomes
      BY DEF Outcomes
    <3>4. CASE cmd.needsCard /\ ProductOf[o] \in cards
      <4>1. Tell(c, "failed", NoId, o, FALSE)
        BY <2>6, <3>4 DEF InsertDraft
      <4>2. ~(client[c].applied + (IF FALSE THEN 1 ELSE 0) > 0)
        BY <3>2
      <4>3. QED
        <5>1. NoId \in Ids \cup {NoId} /\ FALSE \in BOOLEAN
          OBVIOUS
        <5>2. RepeatSafe(c)'
          BY <3>1, <3>3, <4>1, <4>2, <5>1, ToldSafe
        <5>3. QED
          BY <1>2, <5>2
    <3>5. CASE ~(cmd.needsCard /\ ProductOf[o] \in cards)
      <4>1. PICK p \in Ids : Drafted(p, o, cmd.key) /\ Tell(c, "ok", p, o, TRUE)
        BY <2>6, <3>5 DEF InsertDraft, Drafted
      <4>2. events'[p] = << [key |-> cmd.key, to |-> "draft", from |-> "none"] >>
        BY <3>1, <4>1, DraftedRow
      <4>3. 1 \in DOMAIN events'[p] /\ events'[p][1].key = cmd.key
        BY <4>2
      <4>4. cmd.key \in KeysOf(p)'
        BY <4>3 DEF KeysOf
      <4>5. client[c].applied + (IF TRUE THEN 1 ELSE 0) = 1
        BY <3>2
      <4>6. QED
        <5>1. p \in Ids \cup {NoId} /\ TRUE \in BOOLEAN
          OBVIOUS
        <5>2. RepeatSafe(c)'
          BY <3>1, <3>3, <4>1, <4>4, <4>5, <5>1, ToldSafe
        <5>3. QED
          BY <1>2, <5>2
    <3>6. QED
      BY <3>4, <3>5
  <2>7. CASE Transition(c)
    <3> DEFINE v == Verdict(cmd.id, cmd)
    <3>1. cmd.id \in Ids /\ cmd.kind = "move" /\ Exists(cmd.id) /\ cmd.key \in Keys
            /\ cmd.to \in Status
      BY <2>7, CommandFacts DEF Transition, SeenIsHistorical
    <3>2. rows[cmd.id].order \in Orders
      BY <3>1, ExistsTyped DEF Row
    <3>3. v \in Outcomes
      BY DEF Verdict, Outcomes
    <3>4. Tell(c, v, cmd.id, rows[cmd.id].order, v = "applied")
      BY <2>7 DEF Transition
    <3>5. PICK p \in Ids : p = cmd.id
      BY <3>1
    <3>6. CASE v = "applied"
      <4>1. Moved(p, cmd.to, cmd.key)
        BY <2>7, <3>1, <3>5, <3>6 DEF Transition, Moved, Verdict
      <4>2. client[c].applied = 0
        BY <2>1, <2>2, <3>1, <3>5, <4>1 DEF RepeatSafe, Moved
      <4> DEFINE e == [key |-> cmd.key, to |-> cmd.to, from |-> rows[p].status]
      <4>3. e.key = cmd.key /\ events'[p] = Append(events[p], e)
        BY <3>1, <4>1, MovedRow
      <4>4. events[p] \in Seq(Event)
        BY DEF TypeOK
      <4>5. Len(events[p]) + 1 \in DOMAIN events'[p]
              /\ events'[p][Len(events[p]) + 1].key = cmd.key
        BY <4>3, <4>4
      <4>6. cmd.key \in KeysOf(p)'
        BY <4>5 DEF KeysOf
      <4>7. client[c].applied + (IF v = "applied" THEN 1 ELSE 0) = 1
        BY <3>6, <4>2
      <4>8. QED
        BY <1>2, <3>1, <3>2, <3>3, <3>4, <3>5, <3>6, <4>6, <4>7, ToldSafe
    <3>7. CASE v # "applied"
      <4>1. client[c].applied + (IF v = "applied" THEN 1 ELSE 0) = client[c].applied
        BY <2>1, <3>7
      <4>2. ASSUME client[c].applied > 0
            PROVE  client[c].applied = 1 /\ cmd.key \in KeysOf(p) /\ v = "replayed"
        <5>1. client[c].applied = 1 /\ cmd.key \in KeysOf(p)
          BY <2>2, <3>1, <3>5, <4>2 DEF RepeatSafe
        <5>2. cmd.key \in KeysOf(cmd.id)
          BY <3>5, <5>1
        <5>4. v = "replayed"
          BY <5>2, Zenon DEF Verdict
        <5>3. QED
          BY <5>1, <5>4
      <4>3. cmd.key \in KeysOf(p) => cmd.key \in KeysOf(p)'
        BY KeysKept
      <4>4. QED
        BY <1>2, <3>1, <3>2, <3>3, <3>4, <3>5, <3>7, <4>1, <4>2, <4>3, ToldSafe
    <3>8. QED
      BY <3>6, <3>7
  <2>8. QED
    BY <2>3, <2>4, <2>5, <2>6, <2>7 DEF Step
<1>3. QED
  BY <1>1, <1>2

LEMMA ArrivedKept ==
  ASSUME TypeOK, SeenIsHistorical, ArrivedInFull, NEW c \in Clients, Step(c)
  PROVE  ArrivedInFull'
<1> DEFINE Arrived(p, r) == /\ r.status = "closed" => r.complete
                            /\ r.status = "received" /\ p \notin Legacy => r.complete
<1> SUFFICES ASSUME NEW q \in Ids, Exists(q)' PROVE Arrived(q, rows'[q])
  BY DEF ArrivedInFull
<1>1. Exists(q) => Arrived(q, rows[q])
  BY DEF ArrivedInFull
<1>2. ASSUME rows'[q] = rows[q] PROVE Arrived(q, rows'[q])
  BY <1>1, <1>2 DEF Exists
<1>3. CASE Quiet
  BY <1>2, <1>3 DEF Quiet
<1>4. ASSUME NEW p \in Ids, NEW o \in Orders, NEW k \in Keys, Drafted(p, o, k)
      PROVE  Arrived(q, rows'[q])
  <2>1. CASE q = p
    <3>1. rows'[q] = NewDraft(o)
      BY <1>4, <2>1, DraftedRow
    <3>2. rows'[q].status = "draft"
      BY <3>1 DEF NewDraft
    <3>3. QED
      BY <3>2
  <2>2. CASE q # p
    BY <1>2, <1>4, <2>2, OthersKept
  <2>3. QED
    BY <2>1, <2>2
<1>5. ASSUME NEW p \in Ids, NEW to \in Status, NEW k \in Keys, Moved(p, to, k)
      PROVE  Arrived(q, rows'[q])
  <2>1. CASE q = p
    <3>1. rows'[p].status = to /\ rows'[p].complete = Filled(p, to)
            /\ to \in Allowed(rows[p].status) /\ rows[p].status \in Status
      BY <1>5, MovedRow DEF Moved, Row
    <3>2. to = "closed" => rows[p].status = "received"
      BY <3>1 DEF Allowed, Status
    <3>3. to = "closed" \/ to = "received" => Filled(p, to)
      BY <3>2 DEF Filled
    <3>4. QED
      BY <2>1, <3>1, <3>3
  <2>2. CASE q # p
    BY <1>2, <1>5, <2>2, OthersKept
  <2>3. QED
    BY <2>1, <2>2
<1>6. QED
  BY <1>3, <1>4, <1>5, StepCases

LEMMA LegacyTrail ==
  /\ LegacyEvents \in Seq(Event) /\ Len(LegacyEvents) = 4
  /\ LegacyEvents[1].from = "none" /\ LegacyEvents[1].to = "draft"
  /\ \A i \in 2..4 : LegacyEvents[i].from = LegacyEvents[i - 1].to
  /\ LegacyEvents[4].to = "received"
  /\ \A i \in 1..4 : LegacyEvents[i].key = "legacy"
<1> DEFINE e(to, from) == [key |-> "legacy", to |-> to, from |-> from]
<1>1. e("draft", "none") \in Event /\ e("requested", "draft") \in Event
        /\ e("ordered", "requested") \in Event /\ e("received", "ordered") \in Event
  BY DEF Event, Status
<1>2. LegacyEvents = << e("draft", "none"), e("requested", "draft"),
                       e("ordered", "requested"), e("received", "ordered") >>
  BY DEF LegacyEvents
<1> HIDE DEF e
<1>3. LegacyEvents \in Seq(Event) /\ Len(LegacyEvents) = 4
        /\ LegacyEvents[1] = e("draft", "none") /\ LegacyEvents[2] = e("requested", "draft")
        /\ LegacyEvents[3] = e("ordered", "requested") /\ LegacyEvents[4] = e("received", "ordered")
  BY <1>1, <1>2
<1>4. \A i \in 1..4 : i = 1 \/ i = 2 \/ i = 3 \/ i = 4
  OBVIOUS
<1>5. \A i \in 2..4 : (i = 2 /\ i - 1 = 1) \/ (i = 3 /\ i - 1 = 2) \/ (i = 4 /\ i - 1 = 3)
  OBVIOUS
<1>6. \A i \in 2..4 : LegacyEvents[i].from = LegacyEvents[i - 1].to
  BY <1>3, <1>5 DEF e
<1>7. QED
  BY <1>3, <1>4, <1>6 DEF e

LEMMA InitInv == Init => PurchaseInv
<1> SUFFICES ASSUME Init PROVE PurchaseInv
  OBVIOUS
<1>1. PICK f \in [Legacy -> Orders] :
        rows = [p \in Ids |->
                  IF p \in Legacy
                    THEN [order |-> f[p], status |-> "received",
                          version |-> Len(LegacyEvents), complete |-> FALSE]
                    ELSE NoRow]
  BY DEF Init
<1>2. ASSUME NEW p \in Legacy
      PROVE  /\ p \in Ids
             /\ rows[p].status = "received" /\ rows[p].version = 4
             /\ rows[p] \in Row
             /\ events[p] = LegacyEvents
             /\ outbox[p] = 1..4
  <2>1. rows[p] = [order |-> f[p], status |-> "received", version |-> 4,
                   complete |-> FALSE]
    BY <1>1, LegacyTrail
  <2>2. rows[p] \in Row
    BY <2>1 DEF Row, Status
  <2>3. rows[p].status = "received" /\ rows[p].version = 4
    BY <2>1
  <2>4. events[p] = LegacyEvents /\ outbox[p] = 1..4
    BY LegacyTrail DEF Init
  <2>5. QED
    BY <2>2, <2>3, <2>4
<1>3. ASSUME NEW p \in Ids, p \notin Legacy
      PROVE  rows[p] = NoRow /\ events[p] = << >> /\ outbox[p] = {}
  BY <1>1, <1>3 DEF Init
<1>4. \A p \in Ids : Exists(p) => p \in Legacy
  BY <1>3 DEF Exists
<1>5. \A c \in Clients : client[c].command = NoCommand /\ client[c].applied = 0
                          /\ client[c].answer = Silent
  BY DEF Init
<1>6. TypeOK
  <2>1. rows \in [Ids -> Row \cup {NoRow}]
    BY <1>1, <1>2, <1>3
  <2>2. events \in [Ids -> Seq(Event)]
    BY LegacyTrail DEF Init
  <2>3. outbox \in [Ids -> SUBSET Nat]
    <3>1. 1..4 \in SUBSET Nat
      OBVIOUS
    <3>2. QED
      BY <1>2, <1>3, <3>1 DEF Init
  <2>4. cards \subseteq Products
    BY <1>2 DEF Init, Row
  <2>5. Silent \in [order : Orders \cup {"none"}, id : Ids \cup {NoId}, said : Outcomes]
    BY DEF Silent, Answer, Outcomes
  <2>6. client \in [Clients -> ClientState]
    BY <2>5 DEF Init, ClientState, Commands
  <2>7. sent \in 0..MaxSends
    BY DEF Init
  <2>8. QED
    BY <2>1, <2>2, <2>3, <2>4, <2>6, <2>7 DEF TypeOK
<1>7. HistoryExplainsRow
  <2> SUFFICES ASSUME NEW p \in Legacy PROVE Explained(p)
    BY <1>4, HistoryIsExplained
  <2>1. DOMAIN LegacyEvents = 1..4
    BY LegacyTrail
  <2>2. rows[p].version = 4 /\ rows[p].status = "received"
    BY <1>2
  <2>3. events[p] = LegacyEvents /\ outbox[p] = 1..4
    BY <1>2
  <2>4. QED
    BY <2>1, <2>2, <2>3, LegacyTrail DEF Explained
<1>8. NoTrailWithoutRow
  BY <1>2, <1>3, RowFacts DEF NoTrailWithoutRow, Exists
<1>9. SeenIsHistorical /\ RepeatIsRecognised /\ RepeatIsAcknowledged
  BY <1>5 DEF SeenIsHistorical, RepeatIsRecognised, RepeatIsAcknowledged, NoCommand
<1>10. ArrivedInFull
  <2>1. \A p \in Legacy : rows[p].status = "received"
    BY <1>2
  <2>2. QED
    BY <1>4, <2>1 DEF ArrivedInFull
<1>11. QED
  BY <1>6, <1>7, <1>8, <1>9, <1>10 DEF PurchaseInv

LEMMA InvKept == PurchaseInv /\ [Next]_vars => PurchaseInv'
<1> SUFFICES ASSUME PurchaseInv, [Next]_vars PROVE PurchaseInv'
  OBVIOUS
<1>1. CASE UNCHANGED vars
  <2>1. /\ PurchaseInv
        /\ rows' = rows /\ events' = events /\ outbox' = outbox /\ client' = client
    BY <1>1 DEF vars
  <2>2. TypeOK'
    BY <1>1 DEF vars, PurchaseInv, TypeOK
  <2>3. HistoryExplainsRow' /\ NoTrailWithoutRow'
    BY <2>1 DEF PurchaseInv, HistoryExplainsRow, NoTrailWithoutRow, Exists, KeysOf, Explained
  <2>4. SeenIsHistorical'
    BY <2>1 DEF PurchaseInv, SeenIsHistorical, Exists, KeysOf
  <2>5. RepeatIsRecognised' /\ RepeatIsAcknowledged'
    BY <2>1 DEF PurchaseInv, RepeatIsRecognised, RepeatIsAcknowledged, Exists, KeysOf
  <2>6. ArrivedInFull'
    BY <2>1 DEF PurchaseInv, ArrivedInFull, Exists, KeysOf
  <2>7. QED
    BY <2>2, <2>3, <2>4, <2>5, <2>6 DEF PurchaseInv
<1>2. ASSUME NEW c \in Clients, Step(c) PROVE PurchaseInv'
  <2>1. TypeOK /\ HistoryExplainsRow /\ NoTrailWithoutRow /\ SeenIsHistorical
          /\ ArrivedInFull /\ \A d \in Clients : RepeatSafe(d)
    BY RepeatSafeMeaning DEF PurchaseInv
  <2>2. TypeOK'
    BY <1>2, <2>1, RowsTyped, ClientCases DEF TypeOK
  <2>3. HistoryExplainsRow' /\ NoTrailWithoutRow' /\ SeenIsHistorical' /\ ArrivedInFull'
    BY <1>2, <2>1, HistoryKept, TrailKept, SeenKept, ArrivedKept
  <2>4. \A d \in Clients : RepeatSafe(d)'
    BY <1>2, <2>1, RepeatKept
  <2>5. RepeatIsRecognised' /\ RepeatIsAcknowledged'
    BY <2>4 DEF RepeatSafe, RepeatIsRecognised, RepeatIsAcknowledged
  <2>6. QED
    BY <2>2, <2>3, <2>5 DEF PurchaseInv
<1>3. QED
  BY <1>1, <1>2 DEF Next

LEMMA SpecInv == Spec => []PurchaseInv
  BY InitInv, InvKept, PTL DEF Spec

\* Every variable keeps its type under the create and transition commands of
\* purchase_service.py.
THEOREM TypeCorrect == Spec => []TypeOK
<1>1. PurchaseInv => TypeOK
  BY DEF PurchaseInv
<1>2. QED
  BY <1>1, SpecInv, PTL

\* The events and announcements transition_purchase writes explain every row.
THEOREM TrailCorrect == Spec => []HistoryExplainsRow
<1>1. PurchaseInv => HistoryExplainsRow
  BY DEF PurchaseInv
<1>2. QED
  BY <1>1, SpecInv, PTL

\* A repeated command is answered as done and never applied twice.
THEOREM RepeatsAcknowledged == Spec => []RepeatIsAcknowledged
<1>1. PurchaseInv => RepeatIsAcknowledged
  BY DEF PurchaseInv
<1>2. QED
  BY <1>1, SpecInv, PTL

\* What is received by this code, or closed, has arrived in full.
THEOREM ArrivalsComplete == Spec => []ArrivedInFull
<1>1. PurchaseInv => ArrivedInFull
  BY DEF PurchaseInv
<1>2. QED
  BY <1>1, SpecInv, PTL

\* A transition commits only on the status and version its client had read,
\* whatever other clients committed in between.
THEOREM TransitionsApplyOnSeenState == Spec => AppliedOnSeenState
<1>1. ASSUME PurchaseInv, NEW c \in Clients, Step(c), NEW d \in Clients,
             client'[d].applied > client[d].applied, client[d].command.kind = "move"
      PROVE  /\ rows[client[d].command.id].status = client[d].command.seen.status
             /\ rows'[client[d].command.id].status = client[d].command.to
  <2> DEFINE cmd == client[d].command
             v == Verdict(cmd.id, cmd)
  <2>1. TypeOK /\ SeenIsHistorical /\ HistoryExplainsRow
    BY <1>1 DEF PurchaseInv
  <2>2. client[d].applied \in Nat
    BY <2>1 DEF TypeOK, ClientState
  <2>3. d = c
    BY <1>1, <2>1, <2>2, ClientCases
  <2>4. cmd.id \in Ids /\ Exists(cmd.id) /\ cmd.seen.version \in Nat \ {0}
          /\ cmd.to \in Status /\ cmd.key \in Keys
          /\ events[cmd.id][cmd.seen.version].to = cmd.seen.status
    BY <1>1, <2>1, CommandFacts DEF SeenIsHistorical
  <2>5. Transition(c)
    <3>1. ASSUME NEW sending, Send(c, sending) PROVE FALSE
      BY <1>1, <2>3, <3>1 DEF Send, NoCommand
    <3>2. QED
      BY <1>1, <2>3, <3>1 DEF Step, SendCreate, SendMove, LookUpKey, LookUpOrder,
                              InsertDraft, Creating
  <2>6. v = "applied"
    <3>1. rows[cmd.id].order \in Orders
      BY <2>1, <2>4, ExistsTyped DEF Row
    <3>2. v \in Outcomes
      BY DEF Verdict, Outcomes
    <3>3. Tell(c, v, cmd.id, rows[cmd.id].order, v = "applied")
      BY <2>3, <2>5 DEF Transition
    <3>4. client'[c].applied = client[c].applied + (IF v = "applied" THEN 1 ELSE 0)
      BY <1>1, <2>1, <2>3, <2>4, <3>1, <3>2, <3>3, Told
    <3>5. QED
      BY <1>1, <2>2, <2>3, <3>4
  <2>7. cmd.seen.version = rows[cmd.id].version
    BY <2>6 DEF Verdict
  <2>8. rows[cmd.id].status = cmd.seen.status
    BY <2>1, <2>4, <2>7, NewestEvent
  <2>9. Moved(cmd.id, cmd.to, cmd.key)
    BY <2>3, <2>4, <2>5, <2>6 DEF Transition, Moved, Verdict
  <2>10. rows'[cmd.id].status = cmd.to
    BY <2>1, <2>4, <2>9, MovedRow
  <2>11. QED
    BY <2>8, <2>10
<1>2. PurchaseInv /\ [Next]_vars => [AppliesToWhatWasSeen]_vars
  BY <1>1 DEF Next, AppliesToWhatWasSeen
<1>3. QED
  BY <1>2, SpecInv, PTL DEF Spec, AppliedOnSeenState
=============================================================================
