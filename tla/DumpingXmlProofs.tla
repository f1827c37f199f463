-------------------------- MODULE DumpingXmlProofs --------------------------
(***************************************************************************)
(* Proofs about DumpingXml, for any tokens, history and limits: types; a   *)
(* product off sale is never offered; the scan of a product is a fenced    *)
(* lease (FencedLease).                                                    *)
(*                                                                         *)
(* QueueInv strengthens TypeOK. A row has a token exactly while a worker   *)
(* leases it (RowsFit); a product has one active scan (OneActive); a       *)
(* decision that is being applied has its row locked (DecisionHolds); a    *)
(* policy that is off without its owner's word has no active scan          *)
(* (LegacyIdle): the recovery dispatcher, which queues one for it, does    *)
(* not look.                                                               *)
(*                                                                         *)
(* Each action has one lemma, and says three things of the step: it keeps  *)
(* QueueInv, it does not offer what is off sale (Respects), and it moves   *)
(* the lease of the product as FencedLease allows (LeaseMove).             *)
(***************************************************************************)
EXTENDS DumpingXml, TLAPS

\* A row has a token exactly while it is leased, and only a leased row has a
\* live lease.
RowsFit ==
  \A i \in DOMAIN jobs :
    IF jobs[i].status = "leased_local" THEN jobs[i].token \in Tokens
    ELSE jobs[i].token = NoToken /\ ~jobs[i].live

\* A product has at most one scan that waits or runs.
OneActive == \A i, k \in ActiveJobs : i = k

\* The answer that is being applied is of an active scan: its row is locked.
DecisionHolds ==
  deciding # NoDecision =>
    deciding.token \in Tokens /\ \E i \in ActiveJobs : jobs[i].token = deciding.token

\* A policy that is off, but not by its owner's hand, has no active scan.
LegacyIdle == policy.enabled \/ audit = "policy_disabled_manual" \/ ActiveJobs = {}

\* The inductive invariant.
QueueInv ==
  /\ TypeOK
  /\ RowsFit
  /\ OneActive
  /\ DecisionHolds
  /\ LegacyIdle

\* What a step may do to a row that stays where it is.
Same(row, new) ==
  /\ new.status = row.status /\ new.token = row.token
  /\ new.live => row.live

\* A row that a step ends.
EndsAs(row, new) ==
  /\ new.status \in Ended /\ new.token = NoToken /\ ~new.live

\* A step that touches no row but in one of these two ways.
Rowwise ==
  /\ jobs' \in Seq(JobRow) /\ Len(jobs') = Len(jobs)
  /\ \A i \in DOMAIN jobs : Same(jobs[i], jobs'[i]) \/ EndsAs(jobs[i], jobs'[i])

LEMMA RowOf ==
  ASSUME TypeOK, NEW i \in DOMAIN jobs
  PROVE  jobs[i] \in JobRow /\ i \in 1 .. Len(jobs) /\ Len(jobs) \in Nat
  BY DEF TypeOK

LEMMA EndedRowType ==
  ASSUME NEW row \in JobRow, NEW status \in Ended
  PROVE  EndedRow(row, status) \in JobRow /\ EndsAs(row, EndedRow(row, status))
  BY DEF JobRow, EndedRow, EndsAs

LEMMA FailStep ==
  ASSUME TypeOK, NEW group \in SUBSET Active, Fail(group)
  PROVE  /\ Rowwise
         /\ \A i \in DOMAIN jobs : IF jobs[i].status \in group THEN EndsAs(jobs[i], jobs'[i])
                                   ELSE jobs'[i] = jobs[i]
<1> DEFINE new(i) == IF jobs[i].status \in group THEN EndedRow(jobs[i], "failed_local") ELSE jobs[i]
<1>1. jobs' = [i \in 1 .. Len(jobs) |-> new(i)] /\ Len(jobs) \in Nat /\ DOMAIN jobs = 1 .. Len(jobs)
  BY DEF Fail, TypeOK
<1>2. ASSUME NEW i \in DOMAIN jobs
      PROVE  /\ new(i) \in JobRow
             /\ IF jobs[i].status \in group THEN EndsAs(jobs[i], new(i)) ELSE new(i) = jobs[i]
  BY RowOf, EndedRowType DEF Ended
<1> HIDE DEF new
<1>3. jobs' \in Seq(JobRow) /\ Len(jobs') = Len(jobs)
  BY <1>1, <1>2
<1>4. \A i \in DOMAIN jobs : jobs'[i] = new(i)
  BY <1>1
<1>5. \A i \in DOMAIN jobs : jobs[i] \in JobRow
  BY RowOf
<1>6. \A i \in DOMAIN jobs : Same(jobs[i], jobs'[i]) \/ EndsAs(jobs[i], jobs'[i])
  BY <1>2, <1>4, <1>5 DEF Same
<1>7. QED
  BY <1>2, <1>3, <1>4, <1>6 DEF Rowwise

LEMMA OneRowStep ==
  ASSUME TypeOK, NEW i \in DOMAIN jobs, NEW new \in JobRow,
         Same(jobs[i], new) \/ EndsAs(jobs[i], new),
         jobs' = [jobs EXCEPT ![i] = new]
  PROVE  Rowwise /\ jobs'[i] = new /\ \A k \in DOMAIN jobs : k # i => jobs'[k] = jobs[k]
<1>1. Len(jobs) \in Nat /\ DOMAIN jobs = 1 .. Len(jobs) /\ jobs \in [1 .. Len(jobs) -> JobRow]
  BY DEF TypeOK
<1>2. jobs' \in [1 .. Len(jobs) -> JobRow]
  BY <1>1
<1>3. jobs' \in Seq(JobRow) /\ Len(jobs') = Len(jobs)
  BY <1>1, <1>2
<1>4. jobs'[i] = new /\ \A k \in DOMAIN jobs : k # i => jobs'[k] = jobs[k]
  BY <1>1
<1>5. \A k \in DOMAIN jobs : Same(jobs[k], jobs'[k]) \/ EndsAs(jobs[k], jobs'[k])
  BY <1>4, <1>1 DEF Same, JobRow
<1>6. QED
  BY <1>3, <1>4, <1>5 DEF Rowwise

\* Such a step keeps what the invariant says of the rows.
LEMMA RowwiseKeeps ==
  ASSUME QueueInv, Rowwise
  PROVE  /\ jobs' \in Seq(JobRow) /\ Len(jobs') <= History
         /\ DOMAIN jobs' = DOMAIN jobs
         /\ RowsFit' /\ OneActive'
         /\ ActiveJobs' \subseteq ActiveJobs
<1>1. DOMAIN jobs' = DOMAIN jobs /\ Len(jobs') <= History /\ jobs' \in Seq(JobRow)
  BY DEF QueueInv, TypeOK, Rowwise
<1>2. ActiveJobs' \subseteq ActiveJobs
  BY <1>1 DEF ActiveJobs, Rowwise, Same, EndsAs, Active, Ended
<1>3. RowsFit'
  BY <1>1 DEF RowsFit, Rowwise, Same, EndsAs, Ended, QueueInv
<1>4. OneActive'
  BY <1>2 DEF OneActive, QueueInv
<1>5. QED
  BY <1>1, <1>2, <1>3, <1>4

\* The row a decision is being applied to.
LEMMA LockedRow ==
  ASSUME QueueInv, deciding # NoDecision
  PROVE  \E i \in ActiveJobs : Locked(i) /\ jobs[i].status = "leased_local" /\ ActiveJobs = {i}
<1>1. PICK i \in ActiveJobs : jobs[i].token = deciding.token
  BY DEF QueueInv, DecisionHolds
<1>2. jobs[i].status = "leased_local"
  BY <1>1, DumpingConstants DEF QueueInv, DecisionHolds, RowsFit, ActiveJobs
<1>3. ActiveJobs = {i}
  BY DEF QueueInv, OneActive
<1>4. QED
  BY <1>1, <1>2, <1>3 DEF Locked

\* Pruning the history makes room and keeps rows as they are.
LEMMA PrunedRows ==
  ASSUME TypeOK, Room
  PROVE  /\ Pruned \in Seq(JobRow) /\ Len(Pruned) < History /\ Len(Pruned) \in Nat
         /\ \A i \in DOMAIN Pruned : \E k \in DOMAIN jobs : Pruned[i] = jobs[k]
<1> DEFINE gone == CHOOSE i \in {h \in DOMAIN jobs : jobs[h].status \in Ended} :
                     \A k \in {h \in DOMAIN jobs : jobs[h].status \in Ended} : i <= k
           rest == [i \in 1 .. History - 1 |-> IF i < gone THEN jobs[i] ELSE jobs[i + 1]]
<1>1. Len(jobs) \in Nat /\ DOMAIN jobs = 1 .. Len(jobs) /\ jobs \in Seq(JobRow) /\ Len(jobs) <= History
  BY DEF TypeOK
<1>2. CASE Len(jobs) < History
  BY <1>1, <1>2 DEF Pruned
<1>3. CASE Len(jobs) = History
  <2>1. Pruned = rest
    BY <1>3, DumpingConstants DEF Pruned
  <2> HIDE DEF gone
  <2>2. \A i \in 1 .. History - 1 : \E k \in DOMAIN jobs : rest[i] = jobs[k]
    BY <1>1, <1>3, DumpingConstants
  <2>3. \A i \in 1 .. History - 1 : rest[i] \in JobRow
    BY <1>1, <2>2
  <2>4. rest \in [1 .. History - 1 -> JobRow] /\ DOMAIN rest = 1 .. History - 1
    BY <2>3
  <2> HIDE DEF rest
  <2>5. rest \in Seq(JobRow) /\ Len(rest) = History - 1
    BY <2>4, DumpingConstants
  <2>6. QED
    BY <2>1, <2>2, <2>4, <2>5, DumpingConstants
<1>4. Len(jobs) < History \/ Len(jobs) = History
  <2> DEFINE n == Len(jobs)
  <2>1. n \in Nat /\ n <= History /\ History \in Nat
    BY <1>1, DumpingConstants
  <2> HIDE DEF n
  <2>2. n < History \/ n = History
    BY <2>1
  <2>3. QED
    BY <2>2 DEF n
<1>5. QED
  BY <1>2, <1>3, <1>4

\* A new scan, when none is active, is the one active row.
LEMMA QueueJobStep ==
  ASSUME QueueInv, ActiveJobs = {}, NEW reason \in {"scan", "recovery"},
         NEW attempt \in 0 .. MaxRetries, QueueJob(reason, attempt)
  PROVE  /\ jobs' \in Seq(JobRow) /\ Len(jobs') <= History
         /\ RowsFit' /\ OneActive'
         /\ \A i \in DOMAIN jobs' : jobs'[i].status # "leased_local" /\ ~jobs'[i].live
<1> DEFINE new == [status |-> "queued_local", reason |-> reason, attempt |-> attempt,
                   token |-> NoToken, live |-> FALSE]
<1>1. TypeOK /\ Room /\ jobs' = Append(Pruned, new)
  BY DEF QueueInv, QueueJob
<1>2. new \in JobRow
  BY DEF JobRow, Active
<1>3. /\ Pruned \in Seq(JobRow) /\ Len(Pruned) < History /\ Len(Pruned) \in Nat
      /\ \A i \in DOMAIN Pruned : \E k \in DOMAIN jobs : Pruned[i] = jobs[k]
  BY <1>1, PrunedRows
<1>4. \A k \in DOMAIN jobs : jobs[k].status \in Ended /\ jobs[k].token = NoToken /\ ~jobs[k].live
  <2>1. \A k \in DOMAIN jobs : jobs[k].status \in Ended
    BY <1>1, RowOf DEF ActiveJobs, JobRow
  <2>2. QED
    BY <2>1 DEF QueueInv, RowsFit, Ended
<1>5. \A i \in DOMAIN Pruned : Pruned[i].status \in Ended /\ Pruned[i].token = NoToken /\ ~Pruned[i].live
  BY <1>3, <1>4
<1>6. new.status = "queued_local" /\ new.token = NoToken /\ ~new.live
  OBVIOUS
<1> HIDE DEF new
<1>7. /\ jobs' \in Seq(JobRow) /\ Len(jobs') = Len(Pruned) + 1 /\ DOMAIN jobs' = 1 .. Len(Pruned) + 1
      /\ \A i \in 1 .. Len(Pruned) : jobs'[i] = Pruned[i]
      /\ jobs'[Len(Pruned) + 1] = new
  BY <1>1, <1>2, <1>3
<1>8. \A i \in DOMAIN jobs' : i \in DOMAIN Pruned \/ i = Len(Pruned) + 1
  BY <1>3, <1>7
<1>9. \A i \in DOMAIN jobs' : /\ jobs'[i].status # "leased_local" /\ ~jobs'[i].live /\ jobs'[i].token = NoToken
                              /\ jobs'[i].status \in Active => i = Len(Pruned) + 1
  BY <1>3, <1>5, <1>6, <1>7, <1>8 DEF Ended, Active
<1>10. RowsFit' /\ OneActive'
  BY <1>9 DEF RowsFit, OneActive, ActiveJobs
<1>11. QED
  BY <1>3, <1>7, <1>9, <1>10, DumpingConstants

-----------------------------------------------------------------------------
\* The lease of the product, as FencedLease sees it.
Leased == {i \in ActiveJobs : jobs[i].status = "leased_local"}
Held == HolderOf("product")
Live == \E i \in ActiveJobs : jobs[i].live

\* What a step may do to the lease of the product.
LeaseMove ==
  \/ Held' = Held /\ (Live' <=> Live) /\ published' = published
  \/ ~Live /\ Held' \in Tokens /\ Held' # Held /\ Live' /\ published' = published
  \/ Live /\ Held' = Held /\ ~Live' /\ published' = published
  \/ Held \in Tokens /\ Held' = NoToken /\ ~Live' /\ published' = Held
  \/ Held' = NoToken /\ ~Live' /\ published' = published

\* The holder is read off the one leased row, before and after a step.
LEMMA HolderIs ==
  /\ Leased = {} => Held = NoToken
  /\ \A i : Leased = {i} => Held = jobs[i].token
<1>1. Leased = {} => Held = NoToken
  BY DEF Leased, Held, HolderOf
<1>2. ASSUME NEW i, Leased = {i} PROVE Held = jobs[i].token
  BY <1>2 DEF Leased, Held, HolderOf
<1>3. QED
  BY <1>1, <1>2

LEMMA HolderBecomes ==
  /\ Leased' = {} => Held' = NoToken
  /\ \A i : Leased' = {i} => Held' = jobs'[i].token
<1>1. Leased' = {} => Held' = NoToken
  BY DEF Leased, Held, HolderOf
<1>2. ASSUME NEW i, Leased' = {i} PROVE Held' = jobs'[i].token
  BY <1>2 DEF Leased, Held, HolderOf
<1>3. QED
  BY <1>1, <1>2

\* Rows that end, or whose lease runs out, lend the product to nobody else.
LEMMA RowwiseLease ==
  ASSUME QueueInv, Rowwise, published' = published
  PROVE  LeaseMove
<1>1. ActiveJobs' \subseteq ActiveJobs /\ DOMAIN jobs' = DOMAIN jobs
  BY RowwiseKeeps
<1>2. CASE ActiveJobs' = {}
  BY <1>2, HolderBecomes DEF Leased, Live, LeaseMove
<1>3. CASE ActiveJobs' # {}
  <2>1. PICK i \in ActiveJobs : i \in ActiveJobs' /\ ActiveJobs = {i} /\ ActiveJobs' = {i}
    BY <1>1, <1>3 DEF QueueInv, OneActive
  <2>2. Same(jobs[i], jobs'[i])
    BY <2>1 DEF Rowwise, ActiveJobs, EndsAs, Active, Ended
  <2>3. Live' => Live
    BY <2>1, <2>2 DEF Live, Same
  <2>4. Held' = Held
    <3>1. CASE jobs[i].status = "leased_local"
      <4>1. Leased = {i} /\ Leased' = {i}
        BY <3>1, <2>1, <2>2 DEF Leased, Same
      <4>2. QED
        BY <4>1, <2>2, HolderIs, HolderBecomes DEF Same
    <3>2. CASE jobs[i].status # "leased_local"
      <4>1. Leased = {} /\ Leased' = {}
        BY <3>2, <2>1, <2>2 DEF Leased, Same
      <4>2. QED
        BY <4>1, HolderIs, HolderBecomes
    <3>3. QED
      BY <3>1, <3>2
  <2>5. QED
    BY <2>3, <2>4 DEF LeaseMove, Live
<1>4. QED
  BY <1>2, <1>3

LEMMA UntouchedLease ==
  ASSUME jobs' = jobs, published' = published
  PROVE  LeaseMove
<1>1. Held' = Held
  BY DEF Held, HolderOf, ActiveJobs
<1>2. Live' <=> Live
  BY DEF Live, ActiveJobs
<1>3. QED
  BY <1>1, <1>2 DEF LeaseMove

-----------------------------------------------------------------------------
\* The values of the offer in the price list and of the newest audit record.
Offers == {"absent", "closed", "stock", "forced", "preorder", "unsaid"}
Newest == Gates \union {"other", "suspended_no_source", "suspended_manual_out_of_stock"}

\* The part of TypeOK that is not about the queue of scans.
SupplyTypeOK ==
  /\ offer \in Offers
  /\ sale \in BOOLEAN /\ overridden \in BOOLEAN
  /\ policy \in [enabled : BOOLEAN, publishes : BOOLEAN]
  /\ audit \in {"none", "suspended_seller_removed", "policy_disabled_manual"}
  /\ stock \in 0 .. MaxStock /\ supplier \in BOOLEAN
  /\ refresh \in {"idle", "queued"}
  /\ waiting \subseteq Gates
  /\ latest \in Newest
  /\ callbacks \subseteq {"refresh", "enqueue"}
  /\ events \in 0 .. MaxEvents

QueueTypeOK ==
  /\ jobs \in Seq(JobRow) /\ Len(jobs) <= History
  /\ inHand \subseteq Tokens
  /\ deciding \in Decision \union {NoDecision}
  /\ published \in Tokens \union {NoToken}

LEMMA TypeParts ==
  /\ TypeOK <=> SupplyTypeOK /\ QueueTypeOK
  /\ TypeOK' <=> SupplyTypeOK' /\ QueueTypeOK'
  BY DEF TypeOK, SupplyTypeOK, QueueTypeOK, Offers, Newest

\* A step that leaves the policy and its audit alone.
KeepsPolicy == policy' = policy /\ audit' = audit

\* The feed is written by these operators only: what they write has its type,
\* and does not offer what is off sale.
LEMMA ReleaseType ==
  ASSUME TypeOK, NEW gates, ReleaseRuns(gates)
  PROVE  waiting' \subseteq Gates /\ latest' \in Newest
  BY DEF TypeOK, ReleaseRuns, Newest

LEMMA ProjectType ==
  ASSUME TypeOK, NEW listed \in Offers, NEW units, NEW onSale \in BOOLEAN, NEW forced,
         NEW rule, Project(listed, units, onSale, forced, rule)
  PROVE  /\ offer' \in Offers /\ waiting' \subseteq Gates /\ latest' \in Newest
         /\ refresh' \in {"idle", "queued"}
         /\ ~onSale => offer' \notin {"stock", "forced", "preorder"}
<1> DEFINE managed == Manages(onSale, rule) /\ listed # "absent"
<1>1. CASE managed /\ units = 0 /\ offer' = "closed" /\ Deplete
  <2>1. waiting' \subseteq Gates /\ latest' \in Newest
    BY <1>1 DEF Deplete, TypeOK, Newest
  <2>2. refresh' \in {"idle", "queued"}
    BY <1>1 DEF Deplete, QueueSupplierSnapshot, TypeOK
  <2>3. QED
    BY <1>1, <2>1, <2>2 DEF Offers
<1>2. CASE managed /\ offer' = "stock" /\ ReleaseRuns(Gates) /\ UNCHANGED refresh
  <2>1. waiting' \subseteq Gates /\ latest' \in Newest
    BY <1>2, ReleaseType
  <2>2. QED
    BY <1>2, <2>1 DEF Offers, TypeOK, Manages
<1>3. CASE /\ ~managed
           /\ offer' = IF ~onSale THEN Shown(listed, "closed")
                       ELSE IF ~Manages(onSale, rule) /\ forced THEN Shown(listed, "forced")
                       ELSE listed
           /\ UNCHANGED <<waiting, latest, refresh>>
  BY <1>3 DEF Offers, Shown, TypeOK, Newest
<1>4. QED
  BY <1>1, <1>2, <1>3 DEF Project

LEMMA SuspendType ==
  ASSUME TypeOK, NEW controls, Suspend(controls)
  PROVE  /\ offer' \in Offers /\ waiting' \subseteq Gates /\ latest' \in Newest
         /\ offer' = offer \/ offer' \in {"absent", "closed"}
  BY DEF TypeOK, Suspend, Show, Shown, Offers, Newest

\* A step that leaves the queue and its owner's policy alone.
LEMMA QueueUntouched ==
  ASSUME QueueInv, UNCHANGED queueVars, SupplyTypeOK',
         policy'.enabled \/ audit' = "policy_disabled_manual" \/ KeepsPolicy
  PROVE  QueueInv' /\ LeaseMove
<1>1. QueueTypeOK' /\ TypeOK'
  BY TypeParts DEF QueueInv, queueVars, QueueTypeOK
<1>2. RowsFit' /\ OneActive' /\ DecisionHolds'
  BY DEF QueueInv, queueVars, RowsFit, OneActive, DecisionHolds, ActiveJobs
<1>3. LegacyIdle'
  BY DEF QueueInv, queueVars, LegacyIdle, ActiveJobs, KeepsPolicy
<1>4. QED
  BY <1>1, <1>2, <1>3, UntouchedLease DEF QueueInv, queueVars

\* A step that only ends or quiets rows, none of them under a decision.
LEMMA QueueThinned ==
  ASSUME QueueInv, Rowwise, SupplyTypeOK', KeepsPolicy,
         inHand' \subseteq Tokens, published' = published,
         deciding' \in {deciding, NoDecision},
         deciding' = deciding => \A i \in ActiveJobs : Locked(i) => Same(jobs[i], jobs'[i])
  PROVE  QueueInv' /\ LeaseMove
<1>1. /\ jobs' \in Seq(JobRow) /\ Len(jobs') <= History /\ DOMAIN jobs' = DOMAIN jobs
      /\ RowsFit' /\ OneActive' /\ ActiveJobs' \subseteq ActiveJobs
  BY RowwiseKeeps
<1>2. TypeOK'
  <2>1. QueueTypeOK'
    BY <1>1 DEF QueueInv, TypeOK, QueueTypeOK
  <2>2. QED
    BY <2>1, TypeParts
<1>3. DecisionHolds'
  <2>1. SUFFICES ASSUME deciding' = deciding, deciding # NoDecision
                 PROVE  deciding.token \in Tokens /\ \E i \in ActiveJobs' : jobs'[i].token = deciding.token
    BY DEF DecisionHolds
  <2>2. PICK i \in ActiveJobs : Locked(i) /\ jobs[i].token = deciding.token
    BY <2>1, LockedRow DEF Locked
  <2>3. jobs'[i].status \in Active /\ jobs'[i].token = jobs[i].token
    BY <2>1, <2>2 DEF ActiveJobs, Same
  <2>4. QED
    BY <2>1, <2>2, <2>3, <1>1 DEF QueueInv, DecisionHolds, ActiveJobs
<1>4. LegacyIdle'
  BY <1>1 DEF QueueInv, LegacyIdle, KeepsPolicy
<1>5. QED
  BY <1>1, <1>2, <1>3, <1>4, RowwiseLease DEF QueueInv

\* A step that queues a scan where none is active.
LEMMA QueueGrown ==
  ASSUME QueueInv, ActiveJobs = {}, NEW reason \in {"scan", "recovery"},
         NEW attempt \in 0 .. MaxRetries, QueueJob(reason, attempt),
         SupplyTypeOK', policy'.enabled \/ audit' = "policy_disabled_manual",
         UNCHANGED <<inHand, deciding, published>>
  PROVE  QueueInv' /\ LeaseMove
<1>1. jobs' \in Seq(JobRow) /\ Len(jobs') <= History /\ RowsFit' /\ OneActive'
  BY QueueJobStep
<1>2. deciding = NoDecision
  BY LockedRow
<1>3. QueueTypeOK'
  BY <1>1 DEF QueueInv, TypeOK, QueueTypeOK
<1>4. Held' = NoToken /\ ~Live'
  <2>1. \A i \in DOMAIN jobs' : jobs'[i].status # "leased_local" /\ ~jobs'[i].live
    BY QueueJobStep
  <2>2. QED
    BY <2>1, HolderBecomes DEF Leased, Live, ActiveJobs
<1>5. QED
  BY <1>1, <1>2, <1>3, <1>4, TypeParts DEF QueueInv, DecisionHolds, LegacyIdle, LeaseMove

-----------------------------------------------------------------------------
\* A step never puts up for sale what is off sale after it.
Respects ==
  \/ sale' = sale /\ (offer' = offer \/ offer' \in {"absent", "closed"})
  \/ ~sale' => offer' \notin {"stock", "forced", "preorder"}

\* One lemma per action, or for a few alike.
LEMMA EventType ==
  ASSUME TypeOK, Happens
  PROVE  events' \in 0 .. MaxEvents
  BY DumpingConstants DEF TypeOK, Happens

LEMMA MarkType ==
  ASSUME TypeOK, Mark
  PROVE  callbacks' \subseteq {"refresh", "enqueue"}
  BY DEF TypeOK, Mark

LEMMA SellStep ==
  ASSUME QueueInv, SellUnit \/ Restock
  PROVE  QueueInv' /\ Respects /\ LeaseMove
<1>1. TypeOK /\ Happens /\ offer \in Offers /\ sale \in BOOLEAN
  BY DEF QueueInv, TypeOK, SellUnit, Restock, Offers
<1>2. PICK units : Sync(units, sale, overridden, policy)
  BY DEF SellUnit, Restock
<1>3. /\ offer' \in Offers /\ waiting' \subseteq Gates /\ latest' \in Newest
      /\ refresh' \in {"idle", "queued"}
      /\ ~sale => offer' \notin {"stock", "forced", "preorder"}
  BY <1>1, <1>2, ProjectType DEF Sync
<1>4. events' \in 0 .. MaxEvents
  BY <1>1, EventType
<1>5. stock' \in 0 .. MaxStock
  BY <1>1, DumpingConstants DEF SellUnit, Restock, TypeOK
<1>6. UNCHANGED <<sale, overridden, policy, audit, queueVars, supplier, callbacks>>
  BY DEF SellUnit, Restock
<1>7. SupplyTypeOK'
  BY <1>1, <1>3, <1>4, <1>5, <1>6 DEF SupplyTypeOK, TypeOK
<1>8. QED
  BY <1>3, <1>6, <1>7, QueueUntouched DEF KeepsPolicy, Respects

LEMMA StopStep ==
  ASSUME QueueInv, StopSale
  PROVE  QueueInv' /\ Respects /\ LeaseMove
<1>1. TypeOK /\ Happens /\ Fail(Active) /\ (\A i \in ActiveJobs : ~Locked(i))
  BY DEF QueueInv, StopSale
<1>2. Rowwise
  BY <1>1, FailStep
<1>3. events' \in 0 .. MaxEvents
  BY <1>1, EventType
<1>4. SupplyTypeOK' /\ offer' \in {"absent", "closed"}
  BY <1>1, <1>3 DEF SupplyTypeOK, TypeOK, StopSale, Show, Shown, Offers, Newest, supplyVars
<1>5. QueueInv' /\ LeaseMove
  <2>1. UNCHANGED <<policy, audit, inHand, deciding, published>>
    BY DEF StopSale
  <2>2. inHand' \subseteq Tokens
    BY <1>1, <2>1 DEF TypeOK
  <2>3. QED
    BY <1>1, <1>2, <1>4, <2>1, <2>2, QueueThinned DEF KeepsPolicy
<1>6. QED
  BY <1>4, <1>5 DEF Respects

LEMMA ResumeStep ==
  ASSUME QueueInv, ResumeSale
  PROVE  QueueInv' /\ Respects /\ LeaseMove
<1>1. TypeOK /\ Happens /\ offer \in Offers /\ Sync(stock, TRUE, TRUE, policy) /\ sale'
  BY DEF QueueInv, TypeOK, ResumeSale, Offers
<1>2. /\ offer' \in Offers /\ waiting' \subseteq Gates /\ latest' \in Newest
      /\ refresh' \in {"idle", "queued"}
  BY <1>1, ProjectType DEF Sync
<1>3. events' \in 0 .. MaxEvents
  BY <1>1, EventType
<1>4. SupplyTypeOK'
  BY <1>1, <1>2, <1>3 DEF SupplyTypeOK, TypeOK, ResumeSale
<1>5. QED
  BY <1>1, <1>4, QueueUntouched DEF ResumeSale, KeepsPolicy, Respects

LEMMA SavePolicyStep ==
  ASSUME QueueInv, SavePolicy
  PROVE  QueueInv' /\ Respects /\ LeaseMove
<1>1. /\ TypeOK /\ Happens /\ offer \in Offers /\ sale \in BOOLEAN
      /\ policy' \in [enabled : BOOLEAN, publishes : BOOLEAN]
      /\ UNCHANGED <<sale, overridden, queueVars, stock, supplier, callbacks>>
  BY DEF QueueInv, TypeOK, SavePolicy, Offers
<1>2. events' \in 0 .. MaxEvents
  BY <1>1, EventType
<1>3. CASE policy'.enabled
  <2>1. Sync(stock, sale, overridden, policy') /\ audit' = audit
    BY <1>3 DEF SavePolicy
  <2>2. /\ offer' \in Offers /\ waiting' \subseteq Gates /\ latest' \in Newest
        /\ refresh' \in {"idle", "queued"}
        /\ ~sale => offer' \notin {"stock", "forced", "preorder"}
    BY <1>1, <2>1, ProjectType DEF Sync
  <2>3. SupplyTypeOK'
    BY <1>1, <1>2, <2>1, <2>2 DEF SupplyTypeOK, TypeOK
  <2>4. QED
    BY <1>1, <1>3, <2>2, <2>3, QueueUntouched DEF Respects
<1>4. CASE ~policy'.enabled
  <2>1. /\ audit' = "policy_disabled_manual"
        /\ latest' = IF audit = audit' THEN latest ELSE "other"
        /\ UNCHANGED <<offer, waiting, refresh>>
    BY <1>4 DEF SavePolicy
  <2>2. SupplyTypeOK'
    BY <1>1, <1>2, <2>1 DEF SupplyTypeOK, TypeOK, Offers, Newest
  <2>3. QED
    BY <1>1, <2>1, <2>2, QueueUntouched DEF Respects
<1>5. QED
  BY <1>3, <1>4

LEMMA ImportStep ==
  ASSUME QueueInv, ImportCatalog
  PROVE  QueueInv' /\ Respects /\ LeaseMove
<1>1. /\ TypeOK /\ Happens
      /\ UNCHANGED <<overridden, policy, audit, queueVars, stock, supplier, callbacks>>
  BY DEF QueueInv, ImportCatalog
<1>2. PICK available \in Availability :
        /\ sale' = SaleInFile(available)
        /\ IF overridden \/ Controls
           THEN Project(Merged(available), stock, sale', overridden, policy)
           ELSE offer' = Merged(available) /\ UNCHANGED <<waiting, latest, refresh>>
  BY DEF ImportCatalog
<1>3. Merged(available) \in Offers /\ sale' \in BOOLEAN
  BY <1>1, <1>2 DEF Merged, Availability, SaleInFile, TypeOK, Offers
<1>4. /\ offer' \in Offers /\ waiting' \subseteq Gates /\ latest' \in Newest
      /\ refresh' \in {"idle", "queued"}
      /\ ~sale' => offer' \notin {"stock", "forced", "preorder"}
  <2>1. CASE overridden \/ Controls
    BY <1>1, <1>2, <1>3, <2>1, ProjectType
  <2>2. CASE ~(overridden \/ Controls)
    <3>1. offer' = Merged(available) /\ UNCHANGED <<waiting, latest, refresh>>
      BY <1>2, <2>2
    <3>2. ~sale' => available # "yes"
      BY <1>2, <2>2 DEF SaleInFile
    <3>3. QED
      BY <1>1, <1>3, <3>1, <3>2 DEF Merged, Availability, TypeOK, Newest
  <2>3. QED
    BY <2>1, <2>2
<1>5. events' \in 0 .. MaxEvents
  BY <1>1, EventType
<1>6. SupplyTypeOK'
  BY <1>1, <1>3, <1>4, <1>5 DEF SupplyTypeOK, TypeOK
<1>7. QED
  BY <1>1, <1>4, <1>6, QueueUntouched DEF KeepsPolicy, Respects

LEMMA SupplyStep ==
  ASSUME QueueInv, CloseUntracked \/ Observe \/ RefreshDone \/ LoseCallback
  PROVE  QueueInv' /\ Respects /\ LeaseMove
<1>1. TypeOK /\ UNCHANGED <<sale, overridden, policy, audit, queueVars>>
  BY DEF QueueInv, CloseUntracked, Observe, RefreshDone, LoseCallback, xmlVars
<1>2. events' \in 0 .. MaxEvents
  BY <1>1, EventType DEF CloseUntracked, Observe, RefreshDone, LoseCallback, TypeOK
<1>3. SupplyTypeOK' /\ (offer' = offer \/ offer' \in {"absent", "closed"})
  <2>1. CASE CloseUntracked
    BY <1>1, <1>2, <2>1 DEF SupplyTypeOK, TypeOK, CloseUntracked, Show, Shown, supplyVars, Offers, Newest
  <2>2. CASE Observe
    <3>1. callbacks' \subseteq {"refresh", "enqueue"} /\ supplier' \in BOOLEAN
      BY <1>1, <2>2, MarkType DEF Observe, TypeOK
    <3>2. QED
      BY <1>1, <1>2, <2>2, <3>1 DEF SupplyTypeOK, TypeOK, Observe, xmlVars, Offers, Newest
  <2>3. CASE RefreshDone
    <3>1. PICK result \in {"succeeded", "failed"} :
            /\ waiting' = {IF g = "queued" THEN result ELSE g : g \in waiting}
            /\ latest' = IF latest = "queued" THEN result ELSE latest
            /\ IF result = "succeeded"
               THEN supplier' \in BOOLEAN /\ Mark
               ELSE UNCHANGED <<supplier, callbacks>>
      BY <2>3 DEF RefreshDone
    <3>2. waiting' \subseteq Gates /\ latest' \in Newest
      BY <1>1, <3>1 DEF TypeOK, Gates, Newest
    <3>3. supplier' \in BOOLEAN /\ callbacks' \subseteq {"refresh", "enqueue"}
      BY <1>1, <3>1, MarkType DEF TypeOK
    <3>4. QED
      BY <1>1, <1>2, <2>3, <3>2, <3>3 DEF SupplyTypeOK, TypeOK, RefreshDone, Offers
  <2>4. CASE LoseCallback
    BY <1>1, <1>2, <2>4 DEF SupplyTypeOK, TypeOK, LoseCallback, xmlVars, Offers, Newest
  <2>5. QED
    BY <2>1, <2>2, <2>3, <2>4
<1>4. QED
  BY <1>1, <1>3, QueueUntouched DEF KeepsPolicy, Respects

-----------------------------------------------------------------------------
LEMMA RefreshStep ==
  ASSUME QueueInv, Refresh
  PROVE  QueueInv' /\ Respects /\ LeaseMove
<1>1. /\ TypeOK
      /\ UNCHANGED <<sale, overridden, policy, audit, inHand, deciding, published, stock, supplier,
                     refresh, events>>
      /\ callbacks' \subseteq {"refresh", "enqueue"}
  BY DEF QueueInv, TypeOK, Refresh
<1>2. CASE jobs' = jobs
  <2>1. /\ offer' \in Offers /\ waiting' \subseteq Gates /\ latest' \in Newest
        /\ (offer' = offer \/ offer' \in {"absent", "closed"})
    BY <1>1, ReleaseType, SuspendType DEF Refresh, TypeOK, Offers, Newest
  <2>2. SupplyTypeOK'
    BY <1>1, <2>1 DEF SupplyTypeOK, TypeOK
  <2>3. QED
    BY <1>1, <1>2, <2>1, <2>2, QueueUntouched DEF KeepsPolicy, queueVars, Respects
<1>3. CASE Suspend(TRUE) /\ Fail({"queued_local"})
  <2>1. /\ Rowwise
        /\ \A i \in DOMAIN jobs : IF jobs[i].status \in {"queued_local"} THEN EndsAs(jobs[i], jobs'[i])
                                  ELSE jobs'[i] = jobs[i]
    BY <1>1, <1>3, FailStep DEF Active
  <2>2. /\ offer' \in Offers /\ waiting' \subseteq Gates /\ latest' \in Newest
        /\ offer' = offer \/ offer' \in {"absent", "closed"}
    BY <1>1, <1>3, SuspendType
  <2>3. SupplyTypeOK'
    BY <1>1, <2>2 DEF SupplyTypeOK, TypeOK
  <2>4. ASSUME NEW i \in ActiveJobs, Locked(i), deciding # NoDecision PROVE Same(jobs[i], jobs'[i])
    <3>1. jobs[i].status = "leased_local" /\ i \in DOMAIN jobs
      BY <2>4, LockedRow DEF ActiveJobs
    <3>2. QED
      BY <3>1, <2>1, <1>1, RowOf DEF Same
  <2>5. \A i \in ActiveJobs : Locked(i) => Same(jobs[i], jobs'[i])
    BY <2>4 DEF Locked
  <2>6. inHand' \subseteq Tokens
    BY <1>1 DEF TypeOK
  <2>7. QueueInv' /\ LeaseMove
    BY <1>1, <2>1, <2>3, <2>5, <2>6, QueueThinned DEF KeepsPolicy
  <2>8. QED
    BY <1>1, <2>2, <2>7 DEF Respects
<1>4. QED
  BY <1>2, <1>3 DEF Refresh

\* A run the owner asks for takes over the scans that are already active.
Promoted == [i \in DOMAIN jobs |->
  IF i \in ActiveJobs THEN [jobs[i] EXCEPT !.reason = "scan"] ELSE jobs[i]]

LEMMA QuietStep ==
  ASSUME TypeOK, jobs' = Promoted
  PROVE  Rowwise /\ (\A i \in DOMAIN jobs : Same(jobs[i], jobs'[i]))
<1> DEFINE new(i) == IF i \in ActiveJobs THEN [jobs[i] EXCEPT !.reason = "scan"] ELSE jobs[i]
<1>1. jobs' = [i \in 1 .. Len(jobs) |-> new(i)] /\ Len(jobs) \in Nat /\ DOMAIN jobs = 1 .. Len(jobs)
  BY DEF TypeOK, Promoted
<1>2. ASSUME NEW i \in DOMAIN jobs
      PROVE  new(i) \in JobRow /\ Same(jobs[i], new(i))
  <2>1. jobs[i] \in JobRow
    BY RowOf
  <2>2. [jobs[i] EXCEPT !.reason = "scan"] \in JobRow /\ Same(jobs[i], [jobs[i] EXCEPT !.reason = "scan"])
    BY <2>1 DEF JobRow, Same
  <2>3. Same(jobs[i], jobs[i])
    BY <2>1 DEF Same
  <2>4. QED
    BY <2>1, <2>2, <2>3
<1> HIDE DEF new
<1>3. jobs' \in Seq(JobRow) /\ Len(jobs') = Len(jobs)
  BY <1>1, <1>2
<1>4. \A i \in DOMAIN jobs : jobs'[i] = new(i)
  BY <1>1
<1>5. QED
  BY <1>2, <1>3, <1>4 DEF Rowwise

LEMMA EnqueueStep ==
  ASSUME QueueInv, NEW manual \in BOOLEAN, Enqueue(manual),
         UNCHANGED <<offer, sale, overridden, policy, audit, inHand, deciding, published, stock, supplier, refresh>>,
         callbacks' \subseteq {"refresh", "enqueue"}, events' \in 0 .. MaxEvents
  PROVE  QueueInv' /\ Respects /\ LeaseMove
<1>1. TypeOK /\ inHand' \subseteq Tokens
  BY DEF QueueInv, TypeOK
<1>2. waiting' \subseteq Gates /\ latest' \in Newest
  BY <1>1 DEF Enqueue, TypeOK, Newest
<1>3. SupplyTypeOK'
  BY <1>1, <1>2 DEF SupplyTypeOK, TypeOK, Offers
<1>4. CASE jobs' = jobs
  BY <1>3, <1>4, QueueUntouched DEF KeepsPolicy, queueVars, Respects
<1>5. CASE jobs' = Promoted
  <2>1. Rowwise /\ \A i \in DOMAIN jobs : Same(jobs[i], jobs'[i])
    BY <1>1, <1>5, QuietStep
  <2>2. QED
    BY <1>1, <1>3, <2>1, QueueThinned DEF KeepsPolicy, ActiveJobs, Respects
<1>6. CASE ActiveJobs = {} /\ QueueJob("scan", 0) /\ policy.enabled
  BY <1>3, <1>6, QueueGrown, DumpingConstants DEF Respects
<1>7. \/ jobs' = jobs \/ jobs' = Promoted
      \/ ActiveJobs = {} /\ QueueJob("scan", 0) /\ policy.enabled
  <2>1. CASE manual
    BY <2>1 DEF Enqueue, Promoted
  <2>2. CASE ~manual /\ ActiveJobs # {} /\ sale /\ policy.enabled /\ Unresolved = {} /\ Source # "none"
    <3>1. jobs' = [i \in DOMAIN jobs |-> jobs[i]]
      BY <2>2 DEF Enqueue
    <3>2. QED
      BY <3>1, <1>1 DEF TypeOK
  <2>3. CASE ~manual /\ ~(ActiveJobs # {} /\ sale /\ policy.enabled /\ Unresolved = {} /\ Source # "none")
    BY <2>3 DEF Enqueue
  <2>4. QED
    BY <2>1, <2>2, <2>3
<1>8. QED
  BY <1>4, <1>5, <1>6, <1>7

LEMMA DispatchStep ==
  ASSUME QueueInv, DispatchRecovery \/ DispatchRetry \/ DispatchDue
  PROVE  QueueInv' /\ Respects /\ LeaseMove
<1>1. TypeOK /\ UNCHANGED <<offer, sale, overridden, audit, inHand, deciding, published, supplyVars, events>>
  BY DEF QueueInv, DispatchRecovery, DispatchRetry, DispatchDue
<1>2. SupplyTypeOK'
  <2>1. waiting' \subseteq Gates /\ latest' \in Newest
    BY <1>1, ReleaseType DEF DispatchRecovery, DispatchRetry, DispatchDue, TypeOK, Newest
  <2>2. policy' \in [enabled : BOOLEAN, publishes : BOOLEAN]
    BY <1>1 DEF DispatchRecovery, DispatchRetry, DispatchDue, TypeOK
  <2>3. QED
    BY <1>1, <2>1, <2>2 DEF SupplyTypeOK, TypeOK, supplyVars, Offers
<1>3. CASE DispatchRecovery
  <2>1. ActiveJobs = {} /\ QueueJob("recovery", 0)
    BY <1>3 DEF DispatchRecovery, Recoverable, QueueInv, LegacyIdle
  <2>2. policy'.enabled
    BY <1>1, <1>3 DEF DispatchRecovery, TypeOK
  <2>3. QED
    BY <1>1, <1>2, <2>1, <2>2, QueueGrown, DumpingConstants DEF Respects
<1>4. CASE DispatchRetry
  <2>1. PICK i \in Retriable : QueueJob("recovery", jobs[i].attempt + 1)
    BY <1>4 DEF DispatchRetry
  <2>2. i \in DOMAIN jobs /\ jobs[i].attempt < MaxRetries
    BY DEF Retriable
  <2>3. jobs[i].attempt \in 0 .. MaxRetries
    BY <1>1, <2>2, RowOf DEF JobRow
  <2>4. jobs[i].attempt + 1 \in 0 .. MaxRetries
    BY <2>2, <2>3, DumpingConstants
  <2>5. ActiveJobs = {} /\ policy' = policy /\ policy'.enabled
    BY <1>4 DEF DispatchRetry, CanRetry, Controls
  <2>6. QED
    BY <1>1, <1>2, <2>1, <2>4, <2>5, QueueGrown DEF Respects
<1>5. CASE DispatchDue
  <2>1. ActiveJobs = {} /\ policy' = policy /\ policy'.enabled
    BY <1>5 DEF DispatchDue, Controls
  <2>2. QueueJob("scan", 0) \/ jobs' = jobs
    BY <1>5 DEF DispatchDue
  <2>3. QED
    BY <1>1, <1>2, <2>1, <2>2, QueueGrown, QueueUntouched, DumpingConstants DEF KeepsPolicy, queueVars, Respects
<1>6. QED
  BY <1>3, <1>4, <1>5

-----------------------------------------------------------------------------
LEMMA ClaimStep ==
  ASSUME QueueInv, Claim, UNCHANGED <<xmlVars, deciding, published, supplyVars>>
  PROVE  QueueInv' /\ Respects /\ LeaseMove
<1>1. TypeOK /\ Respects
  BY DEF QueueInv, xmlVars, Respects
<1>2. PICK i \in Claimable :
        \/ /\ jobs' = [jobs EXCEPT ![i] = EndedRow(@, "failed_local")]
           /\ UNCHANGED <<inHand, events>>
        \/ \E t \in Unknown :
             /\ jobs' = [jobs EXCEPT ![i].status = "leased_local", ![i].token = t, ![i].live = TRUE]
             /\ \/ inHand' = inHand \union {t} /\ events' = events
                \/ inHand' = inHand /\ Happens
  BY DEF Claim
<1>3. i \in ActiveJobs /\ i \in DOMAIN jobs /\ (deciding # NoDecision => ~Locked(i))
  <2>1. i \in ActiveJobs /\ (jobs[i].status = "queued_local" \/ ~Locked(i))
    BY DEF Claimable, Lapsed, Queued
  <2>2. QED
    BY <2>1, LockedRow DEF ActiveJobs
<1>4. deciding = NoDecision /\ ActiveJobs = {i}
  BY <1>3, LockedRow DEF QueueInv, OneActive
<1>5. inHand' \subseteq Tokens /\ events' \in 0 .. MaxEvents
  BY <1>1, <1>2, EventType DEF Unknown, TypeOK
<1>6. SupplyTypeOK'
  BY <1>1, <1>5 DEF SupplyTypeOK, TypeOK, xmlVars, supplyVars, Offers, Newest
<1>7. jobs[i] \in JobRow
  BY <1>1, <1>3, RowOf
<1>8. CASE jobs' = [jobs EXCEPT ![i] = EndedRow(@, "failed_local")]
  <2> DEFINE new == EndedRow(jobs[i], "failed_local")
  <2>1. new \in JobRow /\ EndsAs(jobs[i], new)
    BY <1>7, EndedRowType DEF Ended
  <2>2. jobs' = [jobs EXCEPT ![i] = new]
    BY <1>8
  <2> HIDE DEF new
  <2>3. Rowwise
    BY <1>1, <1>3, <2>1, <2>2, OneRowStep
  <2>4. QED
    BY <1>1, <1>3, <1>4, <1>5, <1>6, <2>3, QueueThinned DEF KeepsPolicy, xmlVars, Locked
<1>9. CASE \E t \in Unknown :
             jobs' = [jobs EXCEPT ![i].status = "leased_local", ![i].token = t, ![i].live = TRUE]
  <2>1. PICK t \in Unknown :
          jobs' = [jobs EXCEPT ![i].status = "leased_local", ![i].token = t, ![i].live = TRUE]
    BY <1>9
  <2> DEFINE new == [jobs[i] EXCEPT !.status = "leased_local", !.token = t, !.live = TRUE]
  <2>2. jobs' = [jobs EXCEPT ![i] = new]
    BY <2>1
  <2>3. t \in Tokens
    BY DEF Unknown
  <2>4. new \in JobRow /\ new.status = "leased_local" /\ new.token = t /\ new.live
    BY <1>7, <2>3 DEF JobRow, Active
  <2> HIDE DEF new
  <2>5. Len(jobs) \in Nat /\ DOMAIN jobs = 1 .. Len(jobs) /\ jobs \in [1 .. Len(jobs) -> JobRow] /\ Len(jobs) <= History
    BY <1>1 DEF TypeOK
  <2>6. /\ jobs' \in Seq(JobRow) /\ Len(jobs') = Len(jobs) /\ DOMAIN jobs' = DOMAIN jobs
        /\ jobs'[i] = new /\ \A k \in DOMAIN jobs : k # i => jobs'[k] = jobs[k]
    BY <1>3, <2>2, <2>4, <2>5
  <2>7. ActiveJobs' = {i}
    BY <1>3, <1>4, <2>4, <2>6 DEF ActiveJobs, Active
  <2>8. RowsFit'
    BY <2>3, <2>4, <2>6 DEF QueueInv, RowsFit
  <2>9. QueueTypeOK' /\ TypeOK'
    BY <1>1, <1>5, <1>6, <2>5, <2>6, TypeParts DEF QueueTypeOK, TypeOK
  <2>10. OneActive' /\ DecisionHolds' /\ LegacyIdle'
    BY <1>4, <2>7 DEF OneActive, DecisionHolds, LegacyIdle, QueueInv, xmlVars
  <2>11. LeaseMove
    <3>1. Leased' = {i} /\ Held' = t /\ Live'
      BY <2>4, <2>6, <2>7, HolderBecomes DEF Leased, Live
    <3>2. ~Live
      BY <1>4 DEF Live, Claimable, Lapsed, Queued, QueueInv, RowsFit, ActiveJobs
    <3>3. Held # t
      <4>1. CASE jobs[i].status = "leased_local"
        <5>1. Leased = {i}
          BY <1>4, <4>1 DEF Leased
        <5>2. QED
          BY <5>1, <1>3, HolderIs DEF Unknown
      <4>2. CASE jobs[i].status # "leased_local"
        <5>1. Leased = {}
          BY <1>4, <4>2 DEF Leased
        <5>2. QED
          BY <5>1, <2>3, HolderIs, DumpingConstants
      <4>3. QED
        BY <4>1, <4>2
    <3>4. published' = published
      OBVIOUS
    <3>5. QED
      BY <2>3, <3>1, <3>2, <3>3, <3>4 DEF LeaseMove
  <2>12. QED
    BY <1>1, <2>8, <2>9, <2>10, <2>11 DEF QueueInv
<1>10. QED
  BY <1>2, <1>8, <1>9

LEMMA LeaseStep ==
  ASSUME QueueInv, Lease
  PROVE  QueueInv' /\ Respects /\ LeaseMove
<1>1. CASE Claim
  BY <1>1, ClaimStep DEF Lease
<1>2. CASE Resume
  <2>1. PICK i \in ActiveJobs : /\ jobs[i].status = "leased_local"
                                /\ inHand' = inHand \union {jobs[i].token} /\ UNCHANGED <<jobs, events>>
    BY <1>2 DEF Resume
  <2>2. inHand' \subseteq Tokens
    BY <2>1 DEF QueueInv, RowsFit, TypeOK, ActiveJobs
  <2>3. UNCHANGED <<xmlVars, deciding, published, supplyVars, jobs, events>>
    BY <2>1 DEF Lease
  <2>4. TypeOK'
    BY <2>2, <2>3 DEF QueueInv, TypeOK, xmlVars, supplyVars
  <2>5. LeaseMove
    BY <2>3, UntouchedLease
  <2>6. QED
    BY <2>3, <2>4, <2>5 DEF QueueInv, RowsFit, OneActive, DecisionHolds, LegacyIdle, ActiveJobs, xmlVars, Respects
<1>3. QED
  BY <1>1, <1>2 DEF Lease

LEMMA ExpireStep ==
  ASSUME QueueInv, Expire
  PROVE  QueueInv' /\ Respects /\ LeaseMove
<1>1. TypeOK /\ UNCHANGED <<xmlVars, inHand, deciding, published, supplyVars, events>>
  BY DEF QueueInv, Expire
<1>2. PICK i \in ActiveJobs : jobs' = [jobs EXCEPT ![i].live = FALSE]
  BY DEF Expire
<1> DEFINE new == [jobs[i] EXCEPT !.live = FALSE]
<1>3. i \in DOMAIN jobs /\ jobs[i] \in JobRow
  BY <1>1, RowOf DEF ActiveJobs
<1>4. new \in JobRow /\ Same(jobs[i], new)
  BY <1>3 DEF JobRow, Same
<1>5. jobs' = [jobs EXCEPT ![i] = new]
  BY <1>2
<1> HIDE DEF new
<1>6. Rowwise /\ jobs'[i] = new /\ \A k \in DOMAIN jobs : k # i => jobs'[k] = jobs[k]
  BY <1>1, <1>3, <1>4, <1>5, OneRowStep
<1>7. \A k \in ActiveJobs : Same(jobs[k], jobs'[k])
  BY <1>4, <1>6 DEF ActiveJobs, Same
<1>8. SupplyTypeOK' /\ inHand' \subseteq Tokens
  BY <1>1 DEF SupplyTypeOK, TypeOK, xmlVars, supplyVars, Offers, Newest
<1>9. QED
  BY <1>1, <1>6, <1>7, <1>8, QueueThinned DEF KeepsPolicy, xmlVars, Respects

\* An answer that ends its row, or every active one, without a decision.
LEMMA AnswerStep ==
  ASSUME QueueInv, NEW i \in Answerable,
         SupplyTypeOK', KeepsPolicy, UNCHANGED <<inHand, deciding, published>>,
         jobs' = [jobs EXCEPT ![i] = EndedRow(@, "failed_local")] \/ Fail(Active)
  PROVE  QueueInv' /\ LeaseMove
<1>1. TypeOK /\ i \in ActiveJobs /\ i \in DOMAIN jobs /\ (deciding # NoDecision => ~Locked(i))
  BY DEF QueueInv, Answerable, ActiveJobs
<1>2. deciding = NoDecision
  BY <1>1, LockedRow
<1>3. Rowwise
  <2>1. CASE Fail(Active)
    BY <1>1, <2>1, FailStep
  <2>2. CASE jobs' = [jobs EXCEPT ![i] = EndedRow(@, "failed_local")]
    <3> DEFINE new == EndedRow(jobs[i], "failed_local")
    <3>1. new \in JobRow /\ EndsAs(jobs[i], new)
      BY <1>1, RowOf, EndedRowType DEF Ended
    <3>2. jobs' = [jobs EXCEPT ![i] = new]
      BY <2>2
    <3> HIDE DEF new
    <3>3. QED
      BY <1>1, <3>1, <3>2, OneRowStep
  <2>3. QED
    BY <2>1, <2>2
<1>4. inHand' \subseteq Tokens
  BY <1>1 DEF TypeOK
<1>5. QED
  BY <1>2, <1>3, <1>4, QueueThinned DEF Locked

LEMMA FailureStep ==
  ASSUME QueueInv, ReportFailure
  PROVE  QueueInv' /\ Respects /\ LeaseMove
<1>1. TypeOK /\ Happens /\ UNCHANGED <<xmlVars, inHand, deciding, published, supplyVars>>
  BY DEF QueueInv, ReportFailure
<1>2. events' \in 0 .. MaxEvents
  BY <1>1, EventType
<1>3. SupplyTypeOK'
  BY <1>1, <1>2 DEF SupplyTypeOK, TypeOK, xmlVars, supplyVars, Offers, Newest
<1>4. QED
  BY <1>1, <1>3, AnswerStep DEF ReportFailure, KeepsPolicy, xmlVars, Respects

LEMMA DecideStep ==
  ASSUME QueueInv, Decide
  PROVE  QueueInv' /\ Respects /\ LeaseMove
<1>1. TypeOK /\ UNCHANGED <<sale, overridden, policy, audit, inHand, published, supplyVars, events>>
  BY DEF QueueInv, Decide
<1>2. PICK i \in Answerable :
       \/ /\ Source # "none"
          /\ deciding' = [token |-> jobs[i].token, kind |-> Source, controls |-> Controls]
          /\ UNCHANGED <<offer, waiting, latest, jobs>>
       \/ /\ jobs' = [jobs EXCEPT ![i] = EndedRow(@, "failed_local")]
          /\ UNCHANGED <<offer, waiting, latest, deciding>>
       \/ /\ Suspend(Controls)
          /\ Fail(Active)
          /\ UNCHANGED deciding
  BY DEF Decide
<1>3. /\ offer' \in Offers /\ waiting' \subseteq Gates /\ latest' \in Newest
      /\ offer' = offer \/ offer' \in {"absent", "closed"}
  BY <1>1, <1>2, SuspendType DEF TypeOK, Offers, Newest
<1>4. SupplyTypeOK' /\ Respects
  BY <1>1, <1>3 DEF SupplyTypeOK, TypeOK, supplyVars, Respects
<1>5. CASE /\ Source # "none"
           /\ deciding' = [token |-> jobs[i].token, kind |-> Source, controls |-> Controls]
           /\ UNCHANGED jobs
  <2>1. jobs[i].token \in Tokens /\ i \in ActiveJobs
    BY <1>1 DEF Answerable, TypeOK
  <2>2. Source \in {"stock", "preorder"} /\ Controls \in BOOLEAN
    BY <1>1, <1>5 DEF Source, Controls, TypeOK
  <2>3. deciding' \in Decision /\ deciding'.token = jobs[i].token
    BY <1>5, <2>1, <2>2 DEF Decision
  <2>4. QueueTypeOK' /\ TypeOK'
    BY <1>1, <1>4, <1>5, <2>3, TypeParts DEF QueueTypeOK, TypeOK
  <2>5. RowsFit' /\ OneActive' /\ LegacyIdle' /\ ActiveJobs' = ActiveJobs
    BY <1>1, <1>5 DEF QueueInv, RowsFit, OneActive, LegacyIdle, ActiveJobs
  <2>6. DecisionHolds'
    BY <1>5, <2>1, <2>3, <2>5 DEF DecisionHolds
  <2>7. LeaseMove
    BY <1>1, <1>5, UntouchedLease
  <2>8. QED
    BY <1>4, <2>4, <2>5, <2>6, <2>7 DEF QueueInv
<1>6. CASE UNCHANGED deciding /\ (Fail(Active) \/ jobs' = [jobs EXCEPT ![i] = EndedRow(@, "failed_local")])
  BY <1>1, <1>4, <1>6, AnswerStep DEF KeepsPolicy
<1>7. QED
  BY <1>2, <1>5, <1>6

LEMMA PublishStep ==
  ASSUME QueueInv, Publish
  PROVE  QueueInv' /\ Respects /\ LeaseMove
<1>1. /\ TypeOK /\ deciding # NoDecision
      /\ UNCHANGED <<sale, overridden, policy, audit, inHand, supplyVars, events>>
      /\ published' = deciding.token /\ deciding' = NoDecision
      /\ jobs' = [i \in DOMAIN jobs |->
           IF Locked(i) THEN EndedRow(jobs[i], "succeeded_local") ELSE jobs[i]]
  BY DEF QueueInv, Publish
<1>2. deciding \in Decision
  BY <1>1 DEF TypeOK
<1>3. PICK i \in ActiveJobs : Locked(i) /\ jobs[i].status = "leased_local" /\ ActiveJobs = {i}
  BY <1>1, LockedRow
<1>4. Rowwise /\ EndsAs(jobs[i], jobs'[i])
  <2> DEFINE new(k) == IF Locked(k) THEN EndedRow(jobs[k], "succeeded_local") ELSE jobs[k]
  <2>1. jobs' = [k \in 1 .. Len(jobs) |-> new(k)] /\ Len(jobs) \in Nat /\ DOMAIN jobs = 1 .. Len(jobs)
    BY <1>1 DEF TypeOK
  <2>2. ASSUME NEW k \in DOMAIN jobs
        PROVE  new(k) \in JobRow /\ (Same(jobs[k], new(k)) \/ EndsAs(jobs[k], new(k)))
    <3>1. jobs[k] \in JobRow
      BY <1>1, RowOf
    <3>2. QED
      BY <3>1, EndedRowType DEF Same, Ended
  <2>3. EndsAs(jobs[i], new(i))
    BY <1>1, <1>3, RowOf, EndedRowType DEF ActiveJobs, Ended
  <2> HIDE DEF new
  <2>4. jobs' \in Seq(JobRow) /\ Len(jobs') = Len(jobs)
    BY <2>1, <2>2
  <2>5. \A k \in DOMAIN jobs : jobs'[k] = new(k)
    BY <2>1
  <2>6. QED
    BY <1>3, <2>2, <2>3, <2>4, <2>5 DEF Rowwise, ActiveJobs
<1>5. /\ jobs' \in Seq(JobRow) /\ Len(jobs') <= History
      /\ DOMAIN jobs' = DOMAIN jobs /\ RowsFit' /\ OneActive'
      /\ ActiveJobs' \subseteq ActiveJobs
  BY <1>4, RowwiseKeeps
<1>6. ActiveJobs' = {}
  BY <1>3, <1>4, <1>5 DEF ActiveJobs, EndsAs, Active, Ended
<1>7. /\ offer' \in Offers /\ waiting' \subseteq Gates /\ latest' \in Newest
      /\ Respects
  BY <1>1, <1>2 DEF Publish, SaleAtPublication, Show, Shown, Write, Decision, Offers, Newest, Respects, TypeOK
<1>8. SupplyTypeOK'
  BY <1>1, <1>7 DEF SupplyTypeOK, TypeOK, supplyVars
<1>9. QueueTypeOK' /\ TypeOK'
  BY <1>1, <1>2, <1>5, <1>8, TypeParts DEF QueueTypeOK, TypeOK, Decision
<1>10. LeaseMove
  <2>1. Leased = {i} /\ Held = jobs[i].token
    BY <1>3, HolderIs DEF Leased
  <2>2. Held \in Tokens /\ published' = Held
    BY <1>1, <1>2, <1>3, <2>1 DEF Locked, Decision
  <2>3. Held' = NoToken /\ ~Live'
    BY <1>6, HolderBecomes DEF Leased, Live
  <2>4. QED
    BY <2>2, <2>3 DEF LeaseMove
<1>11. QED
  BY <1>1, <1>5, <1>6, <1>7, <1>9, <1>10 DEF QueueInv, DecisionHolds, LegacyIdle

LEMMA WorkerStep ==
  ASSUME QueueInv, AbortPublish \/ Forget
  PROVE  QueueInv' /\ Respects /\ LeaseMove
<1>1. /\ TypeOK /\ UNCHANGED <<xmlVars, jobs, published, supplyVars>>
      /\ deciding' \in {deciding, NoDecision} /\ inHand' \subseteq Tokens
  BY DEF QueueInv, TypeOK, AbortPublish, Forget
<1>2. events' \in 0 .. MaxEvents
  BY <1>1, EventType DEF AbortPublish, Forget, TypeOK
<1>3. TypeOK'
  BY <1>1, <1>2 DEF TypeOK, xmlVars, supplyVars
<1>4. RowsFit' /\ OneActive' /\ DecisionHolds' /\ LegacyIdle'
  BY <1>1 DEF QueueInv, RowsFit, OneActive, DecisionHolds, LegacyIdle, ActiveJobs, xmlVars
<1>5. QED
  BY <1>1, <1>3, <1>4, UntouchedLease DEF QueueInv, xmlVars, Respects

-----------------------------------------------------------------------------
LEMMA QueueInvInit == Init => QueueInv
<1> SUFFICES ASSUME Init PROVE QueueInv
  OBVIOUS
<1>1. jobs = <<>> /\ ActiveJobs = {} /\ DOMAIN jobs = {}
  BY DEF Init, ActiveJobs
<1>2. TypeOK
  <2>1. SupplyTypeOK
    <3>1. policy \in [enabled : BOOLEAN, publishes : BOOLEAN]
      <4>1. \/ policy = [enabled |-> FALSE, publishes |-> TRUE]
            \/ policy = [enabled |-> TRUE, publishes |-> TRUE]
        BY DEF Init
      <4>2. ASSUME NEW e \in BOOLEAN, NEW p \in BOOLEAN
            PROVE  [enabled |-> e, publishes |-> p] \in [enabled : BOOLEAN, publishes : BOOLEAN]
        OBVIOUS
      <4>3. TRUE \in BOOLEAN /\ FALSE \in BOOLEAN
        OBVIOUS
      <4>4. /\ [enabled |-> FALSE, publishes |-> TRUE] \in [enabled : BOOLEAN, publishes : BOOLEAN]
            /\ [enabled |-> TRUE, publishes |-> TRUE] \in [enabled : BOOLEAN, publishes : BOOLEAN]
        BY <4>2, <4>3, Zenon
      <4>5. QED
        BY <4>1, <4>4, Zenon
    <3>2. stock \in 0 .. MaxStock /\ events \in 0 .. MaxEvents
      BY DumpingConstants DEF Init
    <3>3. /\ offer \in Offers /\ sale \in BOOLEAN /\ overridden \in BOOLEAN /\ supplier \in BOOLEAN
          /\ audit \in {"none", "suspended_seller_removed", "policy_disabled_manual"}
          /\ refresh \in {"idle", "queued"} /\ latest \in Newest
      BY DEF Init, Offers, Newest
    <3>4. waiting \subseteq Gates /\ callbacks \subseteq {"refresh", "enqueue"}
      BY DEF Init
    <3>5. QED
      BY <3>1, <3>2, <3>3, <3>4 DEF SupplyTypeOK
  <2>2. QueueTypeOK
    <3>1. <<>> \in Seq(JobRow) /\ Len(<<>>) = 0
      OBVIOUS
    <3>2. QED
      BY <1>1, <3>1, DumpingConstants DEF Init, QueueTypeOK
  <2>3. QED
    BY <2>1, <2>2, TypeParts
<1>3. QED
  BY <1>1, <1>2 DEF Init, QueueInv, RowsFit, OneActive, DecisionHolds, LegacyIdle

\* Every step, and stuttering, keeps all three.
LEMMA StepKeeps ==
  ASSUME QueueInv, [Next]_vars
  PROVE  QueueInv' /\ Respects /\ LeaseMove
<1>1. CASE UNCHANGED vars
  <2>1. UNCHANGED <<xmlVars, queueVars, supplyVars, events>>
    BY <1>1 DEF vars
  <2>2. SupplyTypeOK'
    BY <2>1 DEF QueueInv, TypeOK, SupplyTypeOK, xmlVars, supplyVars, Offers, Newest
  <2>3. QED
    BY <2>1, <2>2, QueueUntouched DEF KeepsPolicy, xmlVars, Respects
<1>2. CASE SellUnit \/ Restock
  BY <1>2, SellStep
<1>3. CASE StopSale
  BY <1>3, StopStep
<1>4. CASE ResumeSale
  BY <1>4, ResumeStep
<1>5. CASE SavePolicy
  BY <1>5, SavePolicyStep
<1>6. CASE ImportCatalog
  BY <1>6, ImportStep
<1>7. CASE CloseUntracked \/ Observe \/ RefreshDone \/ LoseCallback
  BY <1>7, SupplyStep
<1>8. CASE Refresh
  BY <1>8, RefreshStep
<1>9. CASE EnqueueAfterRefresh \/ RunNow
  <2>1. TypeOK
    BY DEF QueueInv
  <2>2. PICK manual \in BOOLEAN : Enqueue(manual)
    BY <1>9 DEF EnqueueAfterRefresh, RunNow
  <2>3. /\ UNCHANGED <<offer, sale, overridden, policy, audit, inHand, deciding, published, stock,
                       supplier, refresh>>
        /\ callbacks' \subseteq {"refresh", "enqueue"}
    BY <1>9, <2>1 DEF EnqueueAfterRefresh, RunNow, supplyVars, TypeOK
  <2>4. events' \in 0 .. MaxEvents
    BY <1>9, <2>1, EventType DEF EnqueueAfterRefresh, RunNow, TypeOK
  <2>5. QED
    BY <2>2, <2>3, <2>4, EnqueueStep
<1>10. CASE DispatchRecovery \/ DispatchRetry \/ DispatchDue
  BY <1>10, DispatchStep
<1>11. CASE Lease
  BY <1>11, LeaseStep
<1>12. CASE Expire
  BY <1>12, ExpireStep
<1>13. CASE ReportFailure
  BY <1>13, FailureStep
<1>14. CASE Decide
  BY <1>14, DecideStep
<1>15. CASE Publish
  BY <1>15, PublishStep
<1>16. CASE AbortPublish \/ Forget
  BY <1>16, WorkerStep
<1>17. QED
  BY <1>1, <1>2, <1>3, <1>4, <1>5, <1>6, <1>7, <1>8, <1>9, <1>10, <1>11, <1>12, <1>13, <1>14, <1>15, <1>16
     DEF Next

\* The rows of the queue, the decision under way and the policy fit each other
\* in every reachable state: in particular a product never has two active
\* scans, whoever queues one: the dispatcher, a retry, a recovery, the owner.
THEOREM QueueInvariant == Spec => []QueueInv
<1>1. QueueInv /\ [Next]_vars => QueueInv'
  BY StepKeeps
<1>2. QED
  BY QueueInvInit, <1>1, PTL DEF Spec

\* Type correctness: what is offered, queued, leased and decided has its type
\* in every reachable state.
THEOREM XmlTypeOK == Spec => []TypeOK
<1>1. QueueInv => TypeOK
  BY DEF QueueInv
<1>2. QED
  BY <1>1, QueueInvariant, PTL

\* A product that its owner or the price list took off sale is offered by
\* nothing until it is put on sale again: not by a sale or a return, a new
\* policy, nor by a scan that was leased before and answers after; but a price
\* list may leave its availability unsaid.
THEOREM StoppedIsNotOffered == Spec => []StoppedStaysClosed
<1>1. Init => StoppedStaysClosed
  BY DEF Init, StoppedStaysClosed
<1>2. QueueInv /\ StoppedStaysClosed /\ [Next]_vars => StoppedStaysClosed'
  BY StepKeeps DEF StoppedStaysClosed, ExpectedActive, Respects
<1>3. QED
  BY <1>1, <1>2, QueueInvariant, PTL DEF Spec

\* The scan of a product implements a fenced lease: one worker at a time holds
\* it, a live lease is not pushed aside, and a decision is published only under
\* the token on record, however many leases ran out since its worker took the
\* scan. The refinement maps the holder to the token of the one leased row.
THEOREM ScansAreLeased == Spec => ScanIsFencedLease
<1>1. Init => ScanLease!LeaseInit
  BY DumpingConstants DEF Init, ScanLease!LeaseInit, HolderOf, ActiveJobs
<1>2. QueueInv /\ [Next]_vars => [ScanLease!LeaseNext]_(ScanLease!leaseVars)
  <2> SUFFICES ASSUME QueueInv, [Next]_vars PROVE ScanLease!LeaseNext
    OBVIOUS
  <2>1. LeaseMove
    BY StepKeeps
  <2>2. QED
    BY <2>1 DEF LeaseMove, Held, Live, ScanLease!LeaseNext, ScanLease!Keep, ScanLease!Grant,
                ScanLease!Expire, ScanLease!Deliver, ScanLease!Release
<1>3. QED
  BY <1>1, <1>2, QueueInvariant, PTL DEF Spec, ScanIsFencedLease, ScanLease!LeaseSpec
=============================================================================
