----------------------------- MODULE OrderIntake -----------------------------
(***************************************************************************)
(* How the orders of one Kaspi account reach CRM.  One process runs three  *)
(* loops and, on request, a rebuild; an asyncio lock lets one of them work *)
(* at a time (kaspi_order_polling.py, commerce/api.py):                    *)
(*   "fast"    lists the orders of the last twenty minutes                 *)
(*   "maint"   asks for the active orders of CRM one by one, a slice per   *)
(*             round, behind a durable cursor                              *)
(*   "enrich"  looks for the product of lines that lack it                 *)
(*   "rebuild" lists several days and enriches                             *)
(* The page sync and the enrichment endpoint work without the lock.        *)
(*                                                                         *)
(* A job is cancelled by its time limit, but a transaction in its thread   *)
(* is not.  Orders are numbered as created, in CRM and at Kaspi.           *)
(***************************************************************************)
EXTENDS Integers, Sequences, FiniteSets, SequencesExt

CONSTANTS
  Count,        \* number of orders
  Batch,        \* ORDER_PERSIST_BATCH_SIZE
  Slice,        \* MAINTENANCE_RECONCILIATION_BATCH_SIZE
  Half,         \* half of ENRICHMENT_ORDER_LIMIT
  Known,        \* the orders imported before, all still open
  Answers,      \* what a list may say of a line
  Registered,   \* orders whose product CRM knows, added after the known ones came
  Told,         \* whether Kaspi tells a product's title and SKU
  Workers,      \* orders one enrichment works on at a time
  MaxCalls,     \* bound: manual stages, page syncs, rebuilds, enrichments on request
  MaxMishaps    \* bound: time limits, lost answers, restarts

ASSUME IntakeConstants ==
  /\ Count \in Nat /\ \E n \in 0 .. Count : Known = 1 .. n
  /\ Batch \in Nat \ {0} /\ Slice \in Nat \ {0} /\ Half \in Nat \ {0}
  /\ Answers \subseteq [id : {"none", "fallback", "real"}, known : BOOLEAN]
  /\ Registered \subseteq 1 .. Count /\ Told \subseteq BOOLEAN /\ Workers \in Nat \ {0} /\ MaxCalls \in Nat /\ MaxMishaps \in Nat

Orders == 1 .. Count

VARIABLES
  kaspi,    \* what an order is at Kaspi
  fresh,    \* orders created in the last twenty minutes
  crm,      \* rows of the orders: status, manual stage, keys of events, line
  cursor,   \* the checkpoint of the reconciliation
  work,     \* the job that holds the lock
  threads,  \* transactions that save orders, running in worker threads
  tasks,    \* orders being enriched
  page,     \* what a page sync has fetched
  synced,   \* a page sync has been used
  calls, mishaps

counts == <<synced, calls, mishaps>>
vars == <<kaspi, fresh, crm, cursor, work, threads, tasks, page, synced, calls, mishaps>>

\* "closed" stands for delivered, cancelled and returned.
Statuses == {"open", "closed"}
\* A manual stage equal to the source's status, or another one.
Stages == {"open", "other"}
\* The line of an order: absent, with the id CRM made up, or with Kaspi's own;
\* its title and SKU are known or not.
Lines == [id : {"none", "fallback", "real"}, known : BOOLEAN]
NoLine == [id |-> "none", known |-> FALSE]
Bare == [id |-> "fallback", known |-> FALSE]
Row == [status : Statuses \union {"unknown"}, manual : Stages \union {"none"},
        keys : SUBSET Statuses, line : Lines]

Seen == [order : Orders, status : Statuses]
Idle == [kind |-> "none", stage |-> "none", ask |-> {}, window |-> {}, got |-> {}, missed |-> FALSE,
         todo |-> <<>>, saving |-> FALSE, cancelled |-> FALSE]
NoPage == {}
\* Whose enrichment it is: of the job under the lock, of a call (numbered from
\* one), or of a job that is gone.
Lock == 0
Gone == -1
\* "queued" until the registry has been asked, then "asked" at Kaspi.
Task == [by : Gone .. MaxCalls, order : Orders, step : {"queued", "asked"}]

TypeOK ==
  /\ kaspi \in [Orders -> Statuses \union {"unborn"}] /\ fresh \subseteq Orders
  /\ crm \in [Orders -> Row] /\ cursor \in 0 .. Count
  /\ \A o \in Orders : crm[o].status = "unknown" => crm[o].line = NoLine /\ crm[o].manual = "none"
  /\ work.kind \in {"none", "fast", "maint", "enrich", "rebuild"}
  /\ work.kind = "none" => work = Idle
  /\ work.ask \subseteq Statuses \union {"all"} /\ work.window \subseteq Orders
  /\ work.got \subseteq Seen /\ work.todo \in Seq(Orders)
  /\ work.saving => threads # {}
  /\ \A t \in threads : t.job \in {"fast", "maint", "rebuild"} /\ t.batch \subseteq Seen
  /\ tasks \subseteq Task
  /\ \A t \in tasks : t.by = Lock => work.stage = "enrich"
  /\ page \subseteq Seen
  /\ page # NoPage => synced
  /\ calls \in 0 .. MaxCalls /\ mishaps \in 0 .. MaxMishaps

Init ==
  /\ kaspi = [o \in Orders |-> IF o \in Known THEN "open" ELSE "unborn"]
  /\ fresh = {}
  /\ crm = [o \in Orders |->
              IF o \in Known THEN [status |-> "open", manual |-> "none", keys |-> {}, line |-> Bare]
              ELSE [status |-> "unknown", manual |-> "none", keys |-> {}, line |-> NoLine]]
  /\ cursor = 0 /\ work = Idle /\ threads = {} /\ tasks = {} /\ page = NoPage
  /\ synced = FALSE /\ calls = 0 /\ mishaps = 0

Call == calls < MaxCalls /\ calls' = calls + 1
Mishap == mishaps < MaxMishaps /\ mishaps' = mishaps + 1

--------------------------------------------------------------------------
(* Kaspi and the owner. *)

Create(o) ==
  /\ kaspi[o] = "unborn" /\ \A p \in 1 .. o - 1 : kaspi[p] # "unborn"
  /\ kaspi' = [kaspi EXCEPT ![o] = "open"]
  /\ fresh' = fresh \union {o}
  /\ UNCHANGED <<crm, cursor, work, threads, tasks, page, counts>>

Close(o) ==
  /\ kaspi[o] = "open"
  /\ kaspi' = [kaspi EXCEPT ![o] = "closed"]
  /\ UNCHANGED <<fresh, crm, cursor, work, threads, tasks, page, counts>>

\* FAST_LOOKBACK_MINUTES
TwentyMinutesPass(o) ==
  /\ o \in fresh /\ fresh' = fresh \ {o}
  /\ UNCHANGED <<kaspi, crm, cursor, work, threads, tasks, page, counts>>

\* override_order_stage: refused once Kaspi has the last word; the stage may
\* be the one the source already shows.
SetManual(o) ==
  /\ Call
  /\ crm[o].status = "open"
  /\ \E stage \in Stages \union {"none"} : crm' = [crm EXCEPT ![o].manual = stage]
  /\ UNCHANGED <<kaspi, fresh, cursor, work, threads, tasks, page, synced, mishaps>>

--------------------------------------------------------------------------
(* The transaction that imports a batch. *)

\* The source clears a manual stage when its status moves, or already is it.
Clears(o, status) ==
  /\ crm[o].manual # "none"
  /\ crm[o].status # status \/ crm[o].manual = status

\* The event of the clearing carries the source's revision and status as its
\* key, which is unique for an order: a second one aborts the transaction.
Aborts(seen) == \E s \in seen : Clears(s.order, s.status) /\ s.status \in crm[s.order].keys

\* Variant: the id of the list replaces the one learned from Kaspi.
MergedAlways(old, new) ==
  [id |-> IF new.id = "none" THEN old.id ELSE new.id, known |-> old.known \/ new.known]
\* _merge_line; an answer without entries keeps the line, and one without title
\* or SKU keeps those.
Merged(old, new) ==
  [id |-> IF new.id = "real" \/ old.id = "none" THEN new.id ELSE old.id,
   known |-> old.known \/ new.known]

\* ensure_marketplace_listing_for_order_line: the registry fills in the line.
Linked(o, line) == [line EXCEPT !.known = @ \/ (line.id # "none" /\ o \in Registered)]

Imported(seen, answer) ==
  [o \in Orders |->
     IF \E s \in seen : s.order = o
     THEN LET status == (CHOOSE s \in seen : s.order = o).status
              clears == Clears(o, status)
              line == Merged(crm[o].line, answer)
              changed == clears \/ status # crm[o].status \/ line # crm[o].line
          IN  [status |-> status, line |-> IF changed THEN Linked(o, line) ELSE line,
               manual |-> IF clears THEN "none" ELSE crm[o].manual,
               keys |-> IF clears THEN crm[o].keys \union {status} ELSE crm[o].keys]
     ELSE crm[o]]

--------------------------------------------------------------------------
(* Lists of orders: "fast" and "rebuild". *)

\* "all" is the additional completeness probe.
Silent(r) == r = "all"

List(kind, window, states) ==
  [Idle EXCEPT !.kind = kind, !.stage = "list", !.window = window, !.ask = {"all"} \union states]

StartFast ==
  /\ work = Idle /\ fresh # {}
  /\ work' = List("fast", fresh, {"open"})
  /\ UNCHANGED <<kaspi, fresh, crm, cursor, threads, tasks, page, counts>>

StartRebuild ==
  /\ work = Idle /\ Call
  /\ LET window == {o \in Orders : kaspi[o] # "unborn"}
     IN  window # {} /\ work' = List("rebuild", window, Statuses)
  /\ UNCHANGED <<kaspi, fresh, crm, cursor, threads, tasks, page, synced, mishaps>>

Listed(r) == {[order |-> o, status |-> kaspi[o]] : o \in {x \in work.window : r \in {"all", kaspi[x]}}}

\* With the last answer the orders are sorted: the newest are saved first.
Asked(w) == IF w.ask # {} THEN w
            ELSE [w EXCEPT !.stage = "save", !.todo = SetToSortSeq({s.order : s \in w.got}, >)]

\* One range of one state; what arrives later replaces what came before.  A
\* Kaspi that insists on a state refuses "all" every time.
Ask(r) ==
  /\ work.stage = "list" /\ r \in work.ask
  /\ \/ /\ work' = Asked([work EXCEPT !.ask = @ \ {r},
                       !.got = Listed(r) \union {s \in @ : \A n \in Listed(r) : n.order # s.order}])
        /\ UNCHANGED mishaps
     \/ /\ IF r = "all" THEN UNCHANGED mishaps ELSE Mishap
        /\ work' = Asked([work EXCEPT !.ask = @ \ {r}, !.missed = @ \/ ~Silent(r)])
  /\ UNCHANGED <<kaspi, fresh, crm, cursor, threads, tasks, page, synced, calls>>

Group == {work.todo[i] : i \in 1 .. (IF Len(work.todo) < Batch THEN Len(work.todo) ELSE Batch)}
Rest == SubSeq(work.todo, Batch + 1, Len(work.todo))

\* _persist_orders_in_batches starts a transaction in a thread.
BeginSave ==
  /\ work.stage = "save" /\ ~work.saving /\ work.todo # <<>>
  /\ threads' = threads \union {[job |-> work.kind, batch |-> {s \in work.got : s.order \in Group}]}
  /\ work' = [work EXCEPT !.saving = TRUE, !.got = {s \in @ : s.order \notin Group}]
  /\ UNCHANGED <<kaspi, fresh, crm, cursor, tasks, page, counts>>

--------------------------------------------------------------------------
(* The maintenance round. *)

Active == {o \in Orders : crm[o].status = "open"}

FirstOf(set, n) ==
  LET s == SetToSortSeq(set, <) IN SubSeq(s, 1, IF Len(s) < n THEN Len(s) ELSE n)

\* Variant: a slice that ends at the last order does not go round.
NextSliceOnce == FirstOf({o \in Active : o > cursor}, Slice)
\* _load_active_order_references
NextSlice ==
  LET ahead == FirstOf({o \in Active : o > cursor}, Slice)
  IN  ahead \o FirstOf({o \in Active : o <= cursor}, Slice - Len(ahead))

StartMaintenance ==
  /\ work = Idle /\ NextSlice # <<>>
  /\ work' = [Idle EXCEPT !.kind = "maint", !.stage = "fetch", !.todo = NextSlice]
  /\ UNCHANGED <<kaspi, fresh, crm, cursor, threads, tasks, page, counts>>

\* An order Kaspi does not answer for, or does not know, is passed over.
FetchGroup ==
  /\ work.stage = "fetch"
  /\ \E answered \in SUBSET Group :
       /\ IF answered = Group THEN UNCHANGED mishaps ELSE Mishap
       /\ threads' = threads \union
            {[job |-> "maint", batch |-> {[order |-> o, status |-> kaspi[o]] : o \in answered}]}
  /\ work' = [work EXCEPT !.stage = "save", !.saving = TRUE]
  /\ UNCHANGED <<kaspi, fresh, crm, cursor, tasks, page, synced, calls>>

\* The cursor follows in a transaction of its own; the round ends with its
\* slice or its time.
SaveCursor ==
  /\ work.stage = "cursor"
  /\ cursor' = CHOOSE o \in Group : \A i \in DOMAIN work.todo : work.todo[i] = o => i = Cardinality(Group)
  /\ \/ ~work.cancelled /\ Rest # <<>> /\ work' = [work EXCEPT !.stage = "fetch", !.todo = Rest]
     \/ work' = Idle
  /\ UNCHANGED <<kaspi, fresh, crm, threads, tasks, page, counts>>

--------------------------------------------------------------------------
(* Enrichment. *)

\* _load_unresolved_orders: the newest and the oldest.
Unresolved == {o \in Orders : crm[o].line.id # "none" /\ ~crm[o].line.known}
Chosen ==
  {o \in Unresolved : \/ Cardinality({p \in Unresolved : p > o}) < Half
                      \/ Cardinality({p \in Unresolved : p < o}) < Half}
\* The queue of a new enrichment.
Queued(by) == {[by |-> by, order |-> o, step |-> "queued"] : o \in Chosen}
Enriching(kind) == [Idle EXCEPT !.kind = kind, !.stage = "enrich"]

StartEnrichment ==
  /\ work = Idle /\ Chosen # {}
  /\ work' = Enriching("enrich") /\ tasks' = tasks \union Queued(Lock)
  /\ UNCHANGED <<kaspi, fresh, crm, cursor, threads, page, counts>>

\* POST /orders/enrich-products takes no lock.
EnrichUnlocked ==
  /\ Call /\ Chosen # {}
  /\ tasks' = tasks \union Queued(calls')
  /\ UNCHANGED <<kaspi, fresh, crm, cursor, work, threads, page, synced, mishaps>>

Ended(t) == tasks' = tasks \ {t}
Learned(o, line) == crm' = [crm EXCEPT ![o].line = line]

\* A worker takes the next order: the registry of products knows the line, or
\* Kaspi is asked, unless the job is gone.
ResolveFromRegistry(t) ==
  /\ t.step = "queued" /\ Cardinality({u \in tasks : u.by = t.by /\ u.step = "asked"}) < Workers
  /\ LET line == Linked(t.order, crm[t.order].line)
     IN  /\ Learned(t.order, line)
         /\ IF line.known \/ t.by = Gone THEN Ended(t)
            ELSE tasks' = (tasks \ {t}) \union {[t EXCEPT !.step = "asked"]}
  /\ UNCHANGED <<kaspi, fresh, cursor, work, threads, page, counts>>

\* Kaspi lists no entries.
NoEntries(t) ==
  /\ t.step = "asked" /\ t.by # Gone /\ Ended(t)
  /\ UNCHANGED <<kaspi, fresh, crm, cursor, work, threads, page, counts>>

\* normalize_entry: Kaspi's id for the made up one, and what two tries told.
Enriched(line) == {[id |-> "real", known |-> line.known \/ told] : told \in Told}

PersistEnriched(t) ==
  /\ t.step = "asked" /\ Ended(t)
  /\ \E line \in Enriched(crm[t.order].line) : Learned(t.order, Linked(t.order, line))
  /\ UNCHANGED <<kaspi, fresh, cursor, work, threads, page, counts>>

Enrich(t) == ResolveFromRegistry(t) \/ NoEntries(t) \/ PersistEnriched(t)

--------------------------------------------------------------------------
(* Transactions end, jobs end. *)

\* The job goes on after its transaction, unless it was cancelled meanwhile.
Continued ==
  IF work.kind = "maint" THEN [work EXCEPT !.stage = "cursor", !.saving = FALSE]
  ELSE IF work.cancelled THEN Idle
  ELSE [work EXCEPT !.saving = FALSE, !.todo = Rest]

Awaited(t) == work.saving /\ t.job = work.kind

\* _persist_orders: the batch is saved, or none of it and the job fails.
Commit(t) ==
  /\ t \in threads /\ threads' = threads \ {t}
  /\ \/ ~Aborts(t.batch) /\ \E line \in Answers : crm' = Imported(t.batch, line)
        /\ work' = IF Awaited(t) THEN Continued ELSE work
     \/ Aborts(t.batch) /\ UNCHANGED crm
        /\ work' = IF Awaited(t) THEN Idle ELSE work
  /\ UNCHANGED <<kaspi, fresh, cursor, tasks, page, counts>>

\* A rebuild that saved its orders enriches them under the same lock.
Finish ==
  /\ \/ /\ work.stage = "save" /\ ~work.saving /\ work.todo = <<>>
        /\ IF work.kind = "rebuild"
           THEN work' = Enriching("rebuild") /\ tasks' = tasks \union Queued(Lock)
           ELSE work' = Idle /\ UNCHANGED tasks
     \/ /\ work.stage = "enrich" /\ \A t \in tasks : t.by # Lock
        /\ work' = Idle /\ UNCHANGED tasks
  /\ UNCHANGED <<kaspi, fresh, crm, cursor, threads, page, counts>>

\* Variant: a time limit ends the job whatever its thread is doing.
DrainsNever == FALSE
\* asyncio.shield, and the wait for the thread before the lock is given back.
\* The enrichment has neither.
Drains == work.stage \in {"save", "cursor"} /\ (work.saving \/ work.stage = "cursor")

\* What a cancelled enrichment leaves behind: of its tasks one may be in a
\* transaction (database_write_semaphore), which goes on.
LeftBehind(t) == {[u EXCEPT !.by = Gone] : u \in {v \in {t} : v.by = Lock}}

\* The job's time limit: 90, 60 and 120 seconds; a rebuild has none.
Cancel ==
  /\ work.kind \in {"fast", "maint", "enrich"} /\ ~work.cancelled
  /\ Mishap
  /\ work' = IF Drains THEN [work EXCEPT !.cancelled = TRUE] ELSE Idle
  /\ \/ tasks' = {t \in tasks : t.by # Lock}
     \/ \E t \in tasks : tasks' = {u \in tasks : u.by # Lock} \union LeftBehind(t)
  /\ UNCHANGED <<kaspi, fresh, crm, cursor, threads, page, synced, calls>>

Restart ==
  /\ work # Idle \/ threads # {} \/ tasks # {} \/ page # NoPage
  /\ Mishap
  /\ work' = Idle /\ threads' = {} /\ tasks' = {} /\ page' = NoPage
  /\ UNCHANGED <<kaspi, fresh, crm, cursor, synced, calls>>

--------------------------------------------------------------------------
(* The page sync endpoint: a page is fetched with no lock, then saved. *)

FetchPage ==
  /\ page = NoPage /\ Call /\ synced' = TRUE
  /\ page' = {[order |-> o, status |-> kaspi[o]] : o \in {x \in Orders : kaspi[x] # "unborn"}}
  /\ UNCHANGED <<kaspi, fresh, crm, cursor, work, threads, tasks, mishaps>>

SavePage ==
  /\ page # NoPage /\ page' = NoPage
  /\ crm' = IF Aborts(page) THEN crm ELSE Imported(page, Bare)
  /\ UNCHANGED <<kaspi, fresh, cursor, work, threads, tasks, counts>>

--------------------------------------------------------------------------
Next ==
  \/ \E o \in Orders : Create(o) \/ Close(o) \/ TwentyMinutesPass(o) \/ SetManual(o)
  \/ StartFast \/ StartRebuild \/ BeginSave
  \/ \E r \in Statuses \union {"all"} : Ask(r)
  \/ StartMaintenance \/ FetchGroup \/ SaveCursor
  \/ StartEnrichment \/ EnrichUnlocked \/ \E t \in tasks : Enrich(t)
  \/ \E t \in threads : Commit(t)
  \/ Finish \/ Cancel \/ Restart \/ FetchPage \/ SavePage

Spec == Init /\ [][Next]_vars

\* What a job does next, and what its thread does.
Proceed ==
  \/ \E r \in Statuses \union {"all"} : Ask(r)
  \/ BeginSave \/ FetchGroup \/ SaveCursor \/ Finish
  \/ \E t \in threads : Commit(t)
  \/ \E t \in tasks : Enrich(t)

\* Jobs go on, and the lock is given to who waited longest, so the maintenance
\* loop gets its turn among the others.
Fairness == WF_vars(Proceed) /\ SF_vars(StartMaintenance)
FairSpec == Spec /\ Fairness

--------------------------------------------------------------------------
(* Properties. *)

\* Without the page sync no job writes what it read before another job's newer
\* answer: a closed order is not opened again, whatever was cancelled.
NoStaleStatus ==
  [][~synced => \A o \in Orders : crm[o].status = "closed" => crm'[o].status = "closed"]_vars

\* Lists and enrichment do not take turns in changing a line: neither Kaspi's id
\* nor the title and SKU are ever lost to what a list leaves out.
IdentityNeverLost ==
  [][\A o \in Orders : /\ crm[o].line.id = "real" => crm'[o].line.id = "real"
                       /\ crm[o].line.known => crm'[o].line.known]_vars

\* An order whose import Kaspi's present answer makes abort, every time: a second
\* manual stage repeats the key under which the first one was cleared.
Jammed == \E o \in Orders : crm[o].status # "unknown" /\ Aborts({[order |-> o, status |-> kaspi[o]]})

\* "A durable per-account cursor makes successive maintenance cycles cover the
\* complete active set": what closed at Kaspi closes in CRM.  The exception: a
\* slice with a jammed order fails as a whole and the cursor stays before it, so
\* that no order is reached any more.
ActiveSetCovered == \A o \in Orders :
  (kaspi[o] = "closed" /\ crm[o].status = "open") ~> (crm[o].status = "closed" \/ Jammed)
=============================================================================
