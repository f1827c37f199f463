----------------------------- MODULE FastDumping -----------------------------
(***************************************************************************)
(* Fast Dumping, the realtime repricing channel of one product:            *)
(* fast_dumping_service.py with the layers that backend/app/__init__.py    *)
(* installs over it (fast_dumping_offer_runtime.py,                        *)
(* fast_dumping_supplier_pricing.py, fast_dumping_inventory_sync.py,       *)
(* fast_dumping_xml_guard.py, fast_dumping_supplier_events.py), its supply *)
(* guard, its HTTP API and the agent API.                                  *)
(*                                                                         *)
(* A request of the agent or of the operator reads the job row without a   *)
(* lock, then waits for the row lock on the state and works on what it     *)
(* read: two steps, Read and a step named for the request, with any other  *)
(* transaction between the two.  The history variable raced says that a    *)
(* request has worked on a row that was no longer so.  Deadlines are not   *)
(* counted: a lease may be found expired, a delay over and the interval    *)
(* between writes ended at any time.                                       *)
(***************************************************************************)
EXTENDS Naturals, Integers, FiniteSets

CONSTANTS
  Jobs,              \* fast_dumping_jobs rows
  NoJob,             \* NULL active_job_id
  Requests,          \* HTTP requests that may be open at once
  Markets,           \* market snapshots a scan may return
  SupplierOffers,    \* offers of the bound supplier
  InventoryCost,     \* unit cost of the physical FIFO batch
  PreorderStock,     \* SUPPLIER_PREORDER_STOCK_COUNT
  MaxStock,          \* bound on the physical stock
  MaxScanAttempts,   \* MAX_SCAN_ATTEMPTS
  MaxVerifyAttempts, \* OFFER_VERIFY_MAX_ATTEMPTS
  MaxEvents          \* bound on stock, supplier and operator events

QueuedStatuses == {"queued_scan", "queued_apply", "queued_verify"}
LeasedStatuses == {"leased_scan", "leased_apply", "leased_verify"}
\* Variant: a status forgotten.
ActiveStatusesNoVerify == QueuedStatuses \cup {"leased_scan", "leased_apply"}

ActiveStatuses == QueuedStatuses \cup LeasedStatuses
SentStatuses == {"leased_apply", "queued_verify", "leased_verify"}
Operations == {"scan", "prepare", "apply", "verify", "save", "run"}
None == "none"
Unbound == [cost |-> 0, days |-> 0]      \* no supplier binding
Unavailable == [cost |-> 1, days |-> 0]  \* a binding without a usable offer
NoMarket == [ok |-> FALSE, own |-> 0, rival |-> 0]

\* calculate_safe_floor: above the unit cost.
Floor(cost) == cost + 1
\* decide_fast_price and decide_preorder_position, as far as the floor goes.
Priced(market, cost) ==
  IF market.rival > Floor(cost) THEN market.rival - 1 ELSE Floor(cost)

ASSUME FastDumpingConstants ==
  /\ NoJob \notin Jobs
  /\ Markets \subseteq [ok: BOOLEAN, own: Nat, rival: Nat]
  /\ SupplierOffers \subseteq [cost: Nat, days: Nat \ {0}]
  /\ InventoryCost \in Nat
  /\ {PreorderStock, MaxStock, MaxScanAttempts, MaxVerifyAttempts, MaxEvents} \subseteq Nat
  /\ MaxScanAttempts > 0

VARIABLES
  job,       \* the job rows
  state,     \* the FastDumpingState row
  enabled,   \* FastDumpingPolicy.enabled
  sale,      \* sale_enabled and sale_state_overridden of the product
  stock,     \* physical_stock_count
  supplier,  \* the binding and the monitored offer
  confirmed, \* decision of the newest applied job
  call,      \* the open requests
  sent,      \* jobs whose write was handed to the agent and is not settled
  events,
  raced      \* history: a request answered on a row that had changed meanwhile

vars == <<job, state, enabled, sale, stock, supplier, confirmed, call, sent, events, raced>>
world == <<enabled, sale, stock, supplier, events>>

NoPlan == [mode |-> None, sync |-> FALSE, first |-> FALSE, price |-> 0,
           stock |-> 0, days |-> 0, market |-> NoMarket]
NoRow == [status |-> "ended", urgent |-> FALSE, tries |-> 0,
          current |-> FALSE, plan |-> NoPlan]
NoCall == [op |-> None, job |-> NoJob, row |-> NoRow, paused |-> FALSE]

PlanRow == [mode: {None, "inventory", "preorder", "off"}, sync: BOOLEAN,
            first: BOOLEAN, price: Nat, stock: Nat, days: Nat,
            market: Markets \cup {NoMarket}]
\* urgent: the reason starts with "inventory_priority:".  tries: scan_attempts
\* of a scan, offer_verify_attempts of a verification.  current: state_version
\* of the job equals that of the state.
JobRow == [status: ActiveStatuses \cup {"ended", "cancelled"}, urgent: BOOLEAN,
           tries: 0..(MaxScanAttempts + MaxVerifyAttempts),
           current: BOOLEAN, plan: PlanRow]
\* wrote: last_applied_at; recent while the write interval runs.
\* parked: status_reason is the supply guard's.
\* desired: desired_stock_count, -1 for NULL.
StateRow == [active: Jobs \cup {NoJob}, paused: BOOLEAN,
             wrote: {"never", "recent", "old"},
             parked: BOOLEAN, onhand: 0..MaxStock,
             kind: {None, "inventory", "supplier"},
             desired: Nat \cup {-1},
             market: Markets \cup {NoMarket}]

Tables ==
  /\ job \in [Jobs -> JobRow]
  /\ state \in StateRow
  /\ enabled \in BOOLEAN
  /\ sale \in {"on", "on_manual", "off_manual"}
  /\ stock \in 0..MaxStock
  /\ supplier \in SupplierOffers \cup {Unbound, Unavailable}
  /\ confirmed \in PlanRow
  /\ call \in [Requests -> [op: Operations \cup {None}, job: Jobs \cup {NoJob},
                            row: JobRow, paused: BOOLEAN]]
  /\ sent \subseteq Jobs
  /\ events \in 0..MaxEvents
TypeOK == Tables /\ raced \in BOOLEAN

NewState == [active |-> NoJob, paused |-> FALSE, wrote |-> "never", parked |-> FALSE,
             onhand |-> 0, kind |-> None, desired |-> -1, market |-> NoMarket]

Init ==
  /\ job = [j \in Jobs |-> NoRow]
  /\ state = NewState
  /\ enabled = TRUE
  /\ sale = "on"
  /\ stock \in 0..MaxStock
  /\ supplier \in SupplierOffers \cup {Unbound, Unavailable}
  /\ confirmed = NoPlan
  /\ call = [r \in Requests |-> NoCall]
  /\ sent = {}
  /\ events = 0
  /\ raced = FALSE

-----------------------------------------------------------------------------
(***************************************************************************)
(* Rows and transactions                                                   *)
(***************************************************************************)
\* The job rows after a commit.  A row that has ended and that neither a
\* request nor an unsettled write refers to is forgotten; its id is used again.
Write(rows) ==
  job' = [j \in Jobs |->
            IF /\ rows[j].status \notin ActiveStatuses
               /\ j \notin sent'
               /\ \A r \in Requests : call'[r].job # j
            THEN NoRow
            ELSE rows[j]]

Fresh(j) == job[j] = NoRow /\ j \notin sent /\ \A r \in Requests : call[r].job # j

With(rows, j, status) == [rows EXCEPT ![j].status = status]
\* Variant: the product keeps its ended job.
ClearedNever(row, j) == row

Cleared(row, j) == IF row.active = j THEN [row EXCEPT !.active = NoJob] ELSE row
\* state_version += 1: no job decision is of the current version any more.
Bumped(rows) == [j \in Jobs |-> [rows[j] EXCEPT !.current = FALSE]]
BumpedCalls == [r \in Requests |-> [call[r] EXCEPT !.row.current = FALSE]]
Answered(r, calls) == call' = [calls EXCEPT ![r] = NoCall]

IsActive(rows, j) == j # NoJob /\ rows[j].status \in ActiveStatuses

NewScan(rows, row, urgent) ==
  \E n \in Jobs :
    /\ Fresh(n)
    /\ Write([rows EXCEPT ![n] = [NoRow EXCEPT !.status = "queued_scan",
                                              !.urgent = urgent]])
    /\ state' = [row EXCEPT !.active = n, !.parked = FALSE]

\* queue_scan on a state row that this transaction has locked.
QueueScan(rows, row, on, urgent) ==
  IF IsActive(rows, row.active) THEN Write(rows) /\ state' = row
  ELSE IF on /\ ~row.paused THEN NewScan(rows, row, urgent)
  ELSE Write(rows) /\ state' = [row EXCEPT !.active = NoJob]

\* resolve_cost_source(inventory_first=True).
Source ==
  IF stock > 0 THEN [kind |-> "inventory", cost |-> InventoryCost, days |-> 0]
  ELSE IF supplier \in SupplierOffers
  THEN [kind |-> "supplier", cost |-> supplier.cost, days |-> supplier.days]
  ELSE [kind |-> None, cost |-> 0, days |-> 0]

Sellable == enabled /\ sale # "off_manual"

\* _next_write_allowed_at: the interval since the last write still runs.
Cooling == state.wrote = "recent"

-----------------------------------------------------------------------------
(***************************************************************************)
(* The queue: maintain_workspace_queue and claim_job                       *)
(***************************************************************************)
\* schedule_due_scans for this product.
ScheduleDue ==
  /\ Sellable
  /\ state.active = NoJob
  /\ ~state.paused
  /\ UNCHANGED <<confirmed, call, sent, world>>
  /\ QueueScan(job, state, TRUE, FALSE)

\* _schedule_inventory_transitions: stock that a preorder offer still hides.
RecoverTransition ==
  /\ Sellable
  /\ ~state.paused
  /\ state.onhand > 0
  /\ confirmed.mode = "preorder"
  /\ IsActive(job, state.active) => job[state.active].status = "queued_scan"
  /\ UNCHANGED <<confirmed, call, sent, world>>
  /\ IF IsActive(job, state.active)
     THEN Write([job EXCEPT ![state.active].urgent = TRUE]) /\ UNCHANGED state
     ELSE QueueScan(job, state, TRUE, TRUE)

\* claim_job: the queue joins state.active_job_id = job.id.
Claim(j) ==
  /\ state.active = j
  /\ job[j].status \in QueuedStatuses
  /\ UNCHANGED <<confirmed, call, sent, world>>
  /\ LET row == job[j]
     IN Write([job EXCEPT ![j] =
          CASE row.status = "queued_scan" ->
                 [row EXCEPT !.status = "leased_scan", !.tries = @ + 1]
            [] row.status = "queued_apply" -> [row EXCEPT !.status = "leased_apply"]
            [] row.status = "queued_verify" -> [row EXCEPT !.status = "leased_verify"]])
  /\ state' = [state EXCEPT !.parked = FALSE]

\* Variant: a lost write goes back to the queue of writes.
AfterExpiryResends(j) ==
  IF state.active # j THEN "cancelled"
  ELSE IF job[j].status = "leased_apply" THEN "queued_apply"
  ELSE IF job[j].status = "leased_scan" /\ job[j].tries < MaxScanAttempts
    THEN "queued_scan"
  ELSE "ended"

\* What becomes of a job whose lease has expired.
AfterExpiry(j) ==
  IF state.active # j THEN "cancelled"
  ELSE IF job[j].status = "leased_apply" THEN "queued_verify"
  ELSE IF job[j].status = "leased_scan" /\ job[j].tries < MaxScanAttempts
    THEN "queued_scan"
  ELSE "ended"

\* recover_expired_leases for one expired lease.
Recover(j) ==
  LET status == job[j].status
      own == state.active = j
      next == AfterExpiry(j)
  IN /\ status \in LeasedStatuses
     /\ sent' = IF next = "ended" THEN sent \ {j} ELSE sent
     /\ UNCHANGED <<confirmed, call, world>>
     /\ Write(With(job, j, next))
     /\ state' = IF ~own THEN state
                 ELSE [state EXCEPT
                        !.parked = FALSE,
                        !.active = IF next = "ended" THEN NoJob ELSE @,
                        !.paused = IF status = "leased_verify" THEN FALSE ELSE @]

-----------------------------------------------------------------------------
(***************************************************************************)
(* Requests: the unlocked reads                                            *)
(***************************************************************************)
Open(r, op, j) ==
  /\ call[r] = NoCall
  /\ call' = [call EXCEPT ![r] =
                 [op |-> op, job |-> j, paused |-> state.paused,
                  row |-> IF j = NoJob THEN NoRow ELSE job[j]]]
  /\ UNCHANGED <<job, state, confirmed, sent, world>>

\* _validate_lease: the status the call expects under the lease it holds.
\* The agent repeats a call whose answer was lost, prepare-apply too, and
\* reports an apply after prepare-apply has handed it the write.
AgentReads(r, op, j) ==
  /\ job[j].status = CASE op = "scan" -> "leased_scan"
                       [] op = "verify" -> "leased_verify"
                       [] OTHER -> "leased_apply"
  /\ op = "apply" => j \in sent
  /\ Open(r, op, j)

\* upsert_fast_dumping_policy refuses while an apply or a check is leased.
SaveReads(r) ==
  /\ IsActive(job, state.active) =>
       job[state.active].status \notin {"leased_apply", "leased_verify"}
  /\ events < MaxEvents
  /\ Open(r, "save", state.active)

\* run_fast_dumping_now.
RunReads(r) ==
  /\ enabled /\ ~state.paused
  /\ events < MaxEvents
  /\ Open(r, "run", state.active)

-----------------------------------------------------------------------------
(***************************************************************************)
(* complete_scan, through the three layers                                 *)
(***************************************************************************)
End(r, j, row) ==
  /\ Answered(r, call)
  /\ UNCHANGED <<confirmed, sent, world>>
  /\ Write(With(job, j, "ended"))
  /\ state' = Cleared([row EXCEPT !.parked = FALSE], j)

\* The agent could not read the market.
ScanFails(r) ==
  /\ call[r].op = "scan"
  /\ End(r, call[r].job, state)

\* A finished scan without a write: _finish_without_write.
Finish(r, j, row) ==
  /\ Answered(r, BumpedCalls)
  /\ UNCHANGED <<confirmed, sent, world>>
  /\ Write(With(Bumped(job), j, "ended"))
  /\ state' = Cleared(row, j)

\* A decision for the product's write: queued_apply under the new version.
\* _reactivate_apply also takes the product for the job, the price decision
\* of complete_scan relies on its being the active one.
Decide(r, j, row, plan, urgent) ==
  /\ Answered(r, BumpedCalls)
  /\ UNCHANGED <<confirmed, sent, world>>
  /\ Write([Bumped(job) EXCEPT ![j] =
             [status |-> "queued_apply", urgent |-> urgent, tries |-> 0,
              current |-> TRUE, plan |-> plan]])
  /\ state' = row

Reactivate(r, j, row, plan, urgent) ==
  Decide(r, j, [row EXCEPT !.active = j], plan, urgent)

InventoryPlan(m, price) ==
  [NoPlan EXCEPT !.mode = "inventory", !.price = price, !.stock = stock, !.market = m]

\* inventory_sync: the confirmed offer is not the FIFO stock of this moment.
NeedsConfirmation ==
  \/ confirmed.mode \in {"preorder", "off"}
  \/ confirmed.mode = "inventory" /\ confirmed.stock # stock

\* disable_empty_products: the policy off, unsent work cancelled.
Disabled(rows, row) ==
  LET keep == IsActive(rows, row.active) /\ rows[row.active].status \in SentStatuses
      cancels == IsActive(rows, row.active) /\ ~keep
  IN /\ enabled' = FALSE
     /\ call' = IF cancels THEN BumpedCalls ELSE call
     /\ Write(IF cancels THEN With(Bumped(rows), row.active, "cancelled") ELSE rows)
     /\ state' = [row EXCEPT !.active = IF keep THEN @ ELSE NoJob,
                             !.parked = TRUE, !.onhand = 0, !.desired = 0]

\* What the scan leaves in the state row: the market, then stock and source.
Seen(m) == [state EXCEPT !.market = m, !.parked = FALSE]
Measured(m) ==
  [Seen(m) EXCEPT !.onhand = stock, !.desired = stock, !.kind = Source.kind]

\* A market that a decision may rest on, and a decision that asks for a write.
Usable(m) == ~state.paused /\ m.ok /\ m.own # 0
Moves(m) ==
  Usable(m) /\ m.rival # 0 /\ Priced(m, InventoryCost) # m.own /\ ~Cooling

\* The stock of the last scan or of the confirmed offer is not the present one.
Resync(j, m) ==
  /\ Usable(m)
  /\ state.active \in {j, NoJob}
  /\ state.desired # -1
  /\ state.desired # stock \/ NeedsConfirmation

ScanSucceeds(r, m) ==
  LET j == call[r].job
      seen == Seen(m)
      fresh == Measured(m)
      urgent == job[j].urgent
      moves == Moves(m)
      toFifo == Usable(m) /\ (call[r].row.urgent \/ confirmed.mode = "preorder")
      resync == Resync(j, m)
      syncPlan == [InventoryPlan(m, m.own) EXCEPT !.sync = TRUE]
  IN /\ call[r].op = "scan"
     /\ \/ ~Sellable /\ Finish(r, j, seen)
        \/ /\ Sellable /\ stock > 0 /\ toFifo
           /\ Reactivate(r, j, fresh, [syncPlan EXCEPT !.first = TRUE], TRUE)
        \/ /\ Sellable /\ stock > 0 /\ ~toFifo /\ moves
           /\ Decide(r, j, fresh, InventoryPlan(m, Priced(m, InventoryCost)), urgent)
        \/ /\ Sellable /\ stock > 0 /\ ~toFifo /\ ~moves /\ resync
           /\ Reactivate(r, j, fresh, syncPlan, urgent)
        \/ /\ Sellable /\ stock > 0 /\ ~toFifo /\ ~moves /\ ~resync
           /\ Finish(r, j, [fresh EXCEPT !.paused = @ \/ (m.ok /\ m.own = 0)])
        \/ /\ Sellable /\ Source.kind = "supplier"
           /\ Reactivate(r, j, [fresh EXCEPT !.desired = PreorderStock],
                [NoPlan EXCEPT !.mode = "preorder", !.price = Priced(m, Source.cost),
                               !.stock = PreorderStock, !.days = Source.days], urgent)
        \/ /\ Sellable /\ Source.kind = None /\ supplier = Unavailable
           /\ Reactivate(r, j, fresh, [NoPlan EXCEPT !.mode = "off", !.price = m.own],
                         urgent)
        \/ /\ Sellable /\ Source.kind = None /\ supplier = Unbound
           /\ enabled' = FALSE
           /\ Answered(r, BumpedCalls)
           /\ UNCHANGED <<confirmed, sent, sale, stock, supplier, events>>
           /\ LET rest == IF state.active \in {j, NoJob} THEN NoJob ELSE state.active
                  keep == rest # NoJob /\ job[rest].status \in SentStatuses
              IN /\ Write([k \in Jobs |->
                             IF k = j THEN [Bumped(job)[k] EXCEPT !.status = "ended"]
                             ELSE IF k = rest /\ ~keep
                             THEN [Bumped(job)[k] EXCEPT !.status = "cancelled"]
                             ELSE Bumped(job)[k]])
                 /\ state' = [fresh EXCEPT !.active = IF keep THEN rest ELSE NoJob,
                                           !.parked = TRUE]

-----------------------------------------------------------------------------
(***************************************************************************)
(* prepare_apply: the last look before the write                           *)
(***************************************************************************)
Superseded(j, row) ==
  \/ state.active # j \/ ~row.current
  \/ ~Sellable
  \/ state.paused

\* Variant: the stock is not looked at again.
OutdatedStockUnchecked(plan) ==
  \/ plan.mode = "inventory" /\ ~plan.sync /\
       (Priced(plan.market, InventoryCost) # plan.price)
  \/ plan.mode = "inventory" /\ plan.sync /\
       \/ ~state.market.ok \/ state.market.own # plan.price
       \/ plan.price < Floor(InventoryCost)
  \/ plan.mode = "preorder" /\ (Source.kind # "supplier" \/ Source.days # plan.days)
  \/ plan.mode = "off" /\ Source.kind # None

\* The recalculation of _prepare_apply_v2 and of the original it wraps.
Outdated(plan) ==
  \/ plan.mode = "inventory" /\ ~plan.sync /\
       (stock = 0 \/ stock # plan.stock \/ Priced(plan.market, InventoryCost) # plan.price)
  \/ plan.mode = "inventory" /\ plan.sync /\
       \/ stock = 0 \/ stock # plan.stock
       \/ ~state.market.ok \/ state.market.own # plan.price
       \/ plan.price < Floor(InventoryCost)
  \/ plan.mode = "preorder" /\ (Source.kind # "supplier" \/ Source.days # plan.days)
  \/ plan.mode = "off" /\ Source.kind # None

\* _stale_offer_job, and its counterpart for a price: a new scan is due at once.
Stale(r, j, plan) ==
  Finish(r, j, IF plan.mode = "inventory" /\ ~plan.sync
               THEN [state EXCEPT !.parked = FALSE, !.onhand = stock, !.desired = stock]
               ELSE [state EXCEPT !.parked = FALSE])

\* The write goes to the agent.
HandOut(r, j, plan) ==
  /\ Answered(r, call)
  /\ sent' = sent \cup {j}
  /\ UNCHANGED <<confirmed, world>>
  /\ Write(job)
  /\ state' = [state EXCEPT !.parked = FALSE, !.onhand = stock, !.desired = plan.stock,
                 !.kind = IF plan.sync THEN "inventory"
                          ELSE IF plan.mode = "preorder" THEN "supplier"
                          ELSE @]

PrepareApply(r) ==
  LET j == call[r].job
      row == call[r].row
      plan == row.plan
      waits == Cooling /\ plan.mode = "inventory" /\ ~plan.first
  IN /\ call[r].op = "prepare"
     /\ \/ /\ Superseded(j, row) \/ (Outdated(plan) /\ (plan.sync \/ ~waits))
           /\ Stale(r, j, plan)
        \/ /\ ~Superseded(j, row) /\ waits /\ ~plan.sync
           /\ End(r, j, state)
        \/ /\ ~Superseded(j, row) /\ ~Outdated(plan) /\ waits /\ plan.sync
           /\ Answered(r, call)
           /\ UNCHANGED <<confirmed, sent, world>>
           /\ Write(With(job, j, "queued_apply"))
           /\ state' = [state EXCEPT !.parked = FALSE]
        \/ /\ ~Superseded(j, row) /\ ~Outdated(plan) /\ ~waits
           /\ HandOut(r, j, plan)

-----------------------------------------------------------------------------
(***************************************************************************)
(* complete_apply and complete_verification                                *)
(***************************************************************************)
\* The operation of call r is over.  _resume_inventory_transition: stock that
\* arrived while another mode was being written is scanned at once.
Settle(r, row, applied, wrote) ==
  LET j == call[r].job
      read == call[r].row
      rows == With(job, j, "ended")
      rest == Cleared([row EXCEPT !.parked = FALSE, !.wrote = wrote], j)
  IN /\ Answered(r, call)
     /\ sent' = sent \ {j}
     /\ confirmed' = IF applied THEN read.plan ELSE confirmed
     /\ UNCHANGED world
     /\ IF /\ read.urgent /\ read.plan.mode # "inventory"
           /\ rest.active = NoJob /\ ~rest.paused
           /\ stock > 0 /\ enabled
        THEN NewScan(rows, rest, TRUE)
        ELSE Write(rows) /\ state' = rest

\* The offer already shows the plan, or Kaspi refused it.
ApplyEnds(r, verified) ==
  /\ call[r].op = "apply"
  /\ Settle(r, state, verified, IF verified THEN "recent" ELSE state.wrote)

\* Kaspi accepted the write: it is checked later, never sent again.
ApplyAccepted(r) ==
  LET j == call[r].job
  IN /\ call[r].op = "apply"
     /\ Answered(r, call)
     /\ UNCHANGED <<confirmed, sent, world>>
     /\ Write([job EXCEPT ![j].status = "queued_verify", ![j].tries = 0])
     /\ state' = [state EXCEPT !.wrote = "recent", !.parked = FALSE]

\* kaspi_operation_in_progress, within the limits of attempts and time.
VerifyInProgress(r) ==
  LET j == call[r].job
      tries == call[r].row.tries + 1
  IN /\ call[r].op = "verify"
     /\ tries <= MaxVerifyAttempts
     /\ Answered(r, call)
     /\ UNCHANGED <<confirmed, sent, world>>
     /\ Write([job EXCEPT ![j].status = "queued_verify", ![j].tries = tries])
     /\ state' = [state EXCEPT !.parked = FALSE]

\* Applied, missed or not readable: the job ends and the pause with it.
VerifyEnds(r, applied) ==
  /\ call[r].op = "verify"
  /\ Settle(r, [state EXCEPT !.paused = FALSE], applied,
            IF applied /\ state.wrote = "never" THEN "recent" ELSE state.wrote)

-----------------------------------------------------------------------------
(***************************************************************************)
(* The operator                                                            *)
(***************************************************************************)
Event == events < MaxEvents /\ events' = events + 1

\* upsert_fast_dumping_policy on the state and the job as it read them.
SavePolicy(r, on) ==
  LET j == call[r].job
      known == j # NoJob
      rows == IF ~known THEN job
              ELSE IF call[r].row.status \in ActiveStatuses
              THEN With(Bumped(job), j, "cancelled")
              ELSE Bumped(job)
      row == [state EXCEPT !.active = IF known THEN NoJob ELSE @, !.parked = FALSE]
  IN /\ call[r].op = "save"
     /\ Event
     /\ Answered(r, IF known THEN BumpedCalls ELSE call)
     /\ enabled' = on
     /\ UNCHANGED <<confirmed, sent, sale, stock, supplier>>
     /\ IF on /\ ~call[r].paused
        THEN NewScan(rows, row, FALSE)
        ELSE Write(rows) /\ state' = row

\* run_fast_dumping_now: queue_scan on the state and the job as it read them.
RunNow(r) ==
  LET j == call[r].job
      status == call[r].row.status
  IN /\ call[r].op = "run"
     /\ Event
     /\ Answered(r, call)
     /\ UNCHANGED <<confirmed, sent, enabled, sale, stock, supplier>>
     /\ IF status \notin ActiveStatuses THEN NewScan(job, state, FALSE)
        ELSE IF status = "queued_scan" /\ ~call[r].row.urgent
        THEN /\ Write([job EXCEPT ![j].urgent = FALSE])
             /\ state' = [state EXCEPT !.parked = FALSE]
        ELSE Write(job) /\ UNCHANGED state

\* remove_fast_dumping_product: policy, state and jobs are deleted, unless a
\* write or its check is leased.  An accepted write goes on at Kaspi unseen.
\* Not while another request is open.
RemoveProduct ==
  /\ \A r \in Requests : call[r] = NoCall
  /\ IsActive(job, state.active) =>
       job[state.active].status \notin {"leased_apply", "leased_verify"}
  /\ Event
  /\ enabled' = FALSE
  /\ job' = [j \in Jobs |-> NoRow]
  /\ state' = NewState
  /\ confirmed' = NoPlan
  /\ UNCHANGED <<sale, stock, supplier, call, sent>>

\* resume_fast_dumping_product.
Resume ==
  /\ enabled
  /\ state.active = NoJob
  /\ UNCHANGED <<confirmed, call, sent, world>>
  /\ NewScan(job, [state EXCEPT !.paused = FALSE], FALSE)

-----------------------------------------------------------------------------
(***************************************************************************)
(* Stock and supplier                                                      *)
(***************************************************************************)
\* resume_stock_products may undo the stop: the supply guard made it and nobody
\* has touched the product since.
Parked == ~enabled /\ ~state.paused /\ state.parked /\ sale = "on"

\* An inventory event under an enabled policy.
Replan(n) ==
  LET incoming == n > 0 /\ (state.onhand = 0 \/ state.kind = "supplier")
      busy == IsActive(job, state.active)
      drops == busy /\ job[state.active].status = "queued_apply"
      row == [state EXCEPT !.onhand = n, !.active = IF drops THEN NoJob ELSE @]
  IN /\ call' = IF drops THEN BumpedCalls ELSE call
     /\ IF drops
        THEN QueueScan(With(Bumped(job), state.active, "cancelled"), row, TRUE, incoming)
        ELSE IF busy
        THEN /\ Write([job EXCEPT ![state.active].urgent = @ \/ incoming])
             /\ state' = row
        ELSE QueueScan(job, row, TRUE, incoming)

\* sync_product_inventory_to_feed after the stock has become n.
Sync(n, s) ==
  /\ stock' = n
  /\ sale' = s
  /\ UNCHANGED <<confirmed, sent, supplier>>
  /\ IF enabled /\ supplier = Unbound /\ n = 0 THEN Disabled(job, state)
     ELSE IF enabled \/ (Parked /\ s = "on" /\ n > 0)
     THEN enabled' = TRUE /\ Replan(n)
     ELSE UNCHANGED <<enabled, job, state, call>>

StockChanges(n) ==
  /\ Event
  /\ n # stock
  /\ Sync(n, sale)

\* set_product_sale_enabled.  Switching a product with an XML policy on is an
\* inventory event.
SwitchSale(on) ==
  /\ Event
  /\ \/ on /\ Sync(stock, "on_manual")
     \/ /\ sale' = IF on THEN "on_manual" ELSE "off_manual"
        /\ UNCHANGED <<job, state, enabled, stock, supplier, confirmed, call, sent>>

\* _wake_fast_products_for_supplier.  A change of the binding wakes nothing.
SupplierChanges(s) ==
  /\ Event
  /\ s # supplier
  /\ supplier' = s
  /\ UNCHANGED <<enabled, sale, stock, confirmed, call, sent>>
  /\ IF Unbound \notin {supplier, s} /\ enabled /\ stock = 0
     THEN IF state.active = NoJob
          THEN QueueScan(job, [state EXCEPT !.parked = FALSE], TRUE, FALSE)
          ELSE Write(job) /\ state' = [state EXCEPT !.parked = FALSE]
     ELSE UNCHANGED <<job, state>>

\* disable_empty_products in the maintenance loop.  Its resume_stock_products
\* finds nothing that Sync has not resumed.
DisableEmpty ==
  /\ enabled /\ stock = 0 /\ supplier = Unbound
  /\ UNCHANGED <<confirmed, sent, sale, stock, supplier, events>>
  /\ Disabled(job, state)

\* The write interval is over.
CooldownEnds ==
  /\ Cooling
  /\ state' = [state EXCEPT !.wrote = "old"]
  /\ UNCHANGED <<job, confirmed, call, sent, world>>

\* Kaspi: a mutation whose job CRM has given up comes to its end.
MutationEnds(j) ==
  /\ j \in sent
  /\ job[j].status \notin ActiveStatuses
  /\ sent' = sent \ {j}
  /\ UNCHANGED <<state, confirmed, call, world>>
  /\ Write(job)

-----------------------------------------------------------------------------
\* The row that request r has read is not what it finds when it has the lock:
\* its job stands elsewhere, or the product has another one.
Overtaken(r) ==
  LET c == call[r]
  IN \/ c.job # NoJob /\ job[c.job].status # c.row.status
     \/ c.op \in {"save", "run"} /\ c.job # state.active

Reply(r) ==
  \/ ScanFails(r)
  \/ \E m \in Markets : ScanSucceeds(r, m)
  \/ PrepareApply(r)
  \/ \E verified \in BOOLEAN : ApplyEnds(r, verified)
  \/ ApplyAccepted(r)
  \/ VerifyInProgress(r)
  \/ \E applied \in BOOLEAN : VerifyEnds(r, applied)
  \/ \E on \in BOOLEAN : SavePolicy(r, on)
  \/ RunNow(r)

Answer(r) == Reply(r) /\ raced' = (raced \/ Overtaken(r))

Read(r) ==
  \/ \E op \in {"scan", "prepare", "apply", "verify"}, j \in Jobs : AgentReads(r, op, j)
  \/ SaveReads(r)
  \/ RunReads(r)

Maintain ==
  \/ ScheduleDue
  \/ RecoverTransition
  \/ \E j \in Jobs : Recover(j)
  \/ DisableEmpty

Environment ==
  \/ CooldownEnds
  \/ Resume
  \/ RemoveProduct
  \/ \E n \in 0..MaxStock : StockChanges(n)
  \/ \E on \in BOOLEAN : SwitchSale(on)
  \/ \E s \in SupplierOffers \cup {Unbound, Unavailable} : SupplierChanges(s)
  \/ \E j \in Jobs : MutationEnds(j)

Other(A) == A /\ UNCHANGED raced

Next ==
  \/ Other(Maintain)
  \/ \E j \in Jobs : Other(Claim(j))
  \/ \E r \in Requests : Other(Read(r)) \/ Answer(r)
  \/ Other(Environment)

Spec == Init /\ [][Next]_vars

\* The maintenance loop runs every ten seconds, an agent polls the queue, a
\* lease runs out and a request is answered.  Nothing makes the agent report.
Fairness ==
  /\ WF_vars(Other(ScheduleDue))
  /\ WF_vars(Other(CooldownEnds))
  /\ \A j \in Jobs : WF_vars(Other(Claim(j))) /\ WF_vars(Other(Recover(j)))
  /\ \A r \in Requests : WF_vars(Answer(r))

FairSpec == Spec /\ Fairness

-----------------------------------------------------------------------------
(***************************************************************************)
(* Properties                                                              *)
(***************************************************************************)
\* "One product has at most one active Fast Dumping job"
\* (FAST_DUMPING_CONTRACT.md), and it is the one the state names: only that
\* one is ever claimed, an orphan would keep its status for good.
OneActiveJob ==
  \A j \in Jobs : job[j].status \in ActiveStatuses => state.active = j

\* However claims, recoveries, schedules, supply events and requests
\* interleave, the contract holds until a request answers on a row that
\* another transaction has moved on since the request read it without a lock.
\* From then on it may fail: a report on a job cancelled meanwhile takes the
\* product back, a save or a run now of two operators queues two scans.
OneActiveUnlessRaced == ~raced => OneActiveJob

\* "A lost apply lease becomes a verification-only job; it is not written again"
\* (FAST_DUMPING_CONTRACT.md): once prepare-apply has handed a write out, the
\* job only goes on to its check, whatever the agent reports, repeats or leaves
\* open; it is never scanned or queued for writing again.  Not after a request
\* has answered on a row that had changed: a second report of the same scan
\* then decides again about the job.
SentIsNeverRewritten ==
  [][~raced' => \A j \in sent :
       job'[j].status \notin {"queued_scan", "leased_scan", "queued_apply"}]_vars

\* What prepare-apply hands out fits the warehouse and the supplier of that
\* moment: physical stock exactly as promised and a price that covers its cost,
\* a preorder only without stock and with the supplier's current delivery
\* time, the zero state only without any source.
HandedPlanIsCurrent ==
  [][\A j \in sent' \ sent :
       LET plan == job'[j].plan
       IN /\ Sellable /\ ~state.paused
          /\ CASE plan.mode = "inventory" ->
                    /\ stock > 0 /\ plan.stock = stock
                    /\ plan.price >= Floor(InventoryCost)
               [] plan.mode = "preorder" ->
                    /\ stock = 0
                    /\ supplier \in SupplierOffers /\ plan.days = supplier.days
               [] OTHER -> stock = 0 /\ supplier \notin SupplierOffers]_vars

\* A product that may be sold and is not paused is scanned again and again,
\* whatever scans, writes and checks are lost with their agents.  An orphan
\* that a request on a changed row has left (see above) is excepted.
ScansForEver ==
  []<>(\/ raced \/ ~Sellable \/ state.paused
       \/ \E j \in Jobs : job[j].status = "leased_scan")

\* FAST_DUMPING_CONTRACT.md, step 6: "Immediately before writing, CRM
\* recalculates the source, floor, target, and physical stock.  A changed value
\* makes the job stale".  No write is handed out below the floor of its source.
HandedAboveFloor ==
  [][\A j \in sent' \ sent :
       LET plan == job'[j].plan
       IN plan.mode # "off" => plan.price >= Floor(Source.cost)]_vars
=============================================================================
