-------------------------- MODULE MonitorScheduler --------------------------
(***************************************************************************)
(* The supplier-monitoring core: lease_engine.py, scheduler_engine.py,     *)
(* source_health_engine.py and observation_engine.py, with the binding API *)
(* that replaces or removes the source of a target under a running check.  *)
(*                                                                         *)
(* One row of monitor_targets is a target; a lease is its three lease_     *)
(* columns.  A claim is known by its fencing token, so a check in progress *)
(* (the coroutine process_claimed_target) is the task of its token.  Every *)
(* database transaction is one action; between two transactions of a task  *)
(* anything may happen.  Times are kept as what is left until them, so     *)
(* that the clock needs no bound: -1 is "past", 0 is "now".                *)
(***************************************************************************)
EXTENDS Naturals, Integers, FiniteSets, Sequences

CONSTANTS
  Targets,       \* monitor_targets rows
  Products,      \* supplier_products rows
  Suppliers,     \* suppliers rows
  Workers,       \* scheduler processes calling run_scheduler_tick
  Manual,        \* lease_owner "manual-api" of POST /run-now
  Tokens,        \* lease tokens; enough that a fresh one always exists
  NoToken,       \* NULL lease_token
  Fingerprints,  \* offer fingerprints an adapter may return
  SupplierOf,    \* [Products -> Suppliers]
  Registered,    \* suppliers with an adapter in the registry
  InitialSource, \* [Targets -> Products], the binding each target starts with
  Jitter,        \* [Targets -> Nat \ {0}], recovery_jitter_seconds
  HardSignals,   \* attempt outcomes of _HARD_SIGNAL_POLICY
  BlockFor,      \* [HardSignals -> Nat \ {0}], how long each one blocks
  SoftFailures,  \* the other failed outcomes
  LeaseSeconds, Interval, MaxBackoff, FailureCap, BatchSize, Concurrency,
  TaskMax,       \* hard timeout: no task outlives this many clock ticks
  MaxHistory,    \* bound on the observations recorded per product
  MaxDisruptions \* bound on crashes, lost commits and operator edits

Outcomes == HardSignals \cup SoftFailures
TargetStatus == {"active", "disabled"}
Nil == "none"

ASSUME MonitorConstants ==
  /\ NoToken \notin Tokens
  /\ Manual \notin Workers
  /\ Nil \notin Products \cup Targets \cup Fingerprints
  /\ SupplierOf \in [Products -> Suppliers]
  /\ InitialSource \in [Targets -> Products]
  /\ Registered \subseteq Suppliers
  /\ Jitter \in [Targets -> Nat \ {0}]
  /\ HardSignals \cap SoftFailures = {}
  /\ {"healthy", "degraded"} \cap Outcomes = {}
  /\ BlockFor \in [HardSignals -> Nat \ {0}]
  /\ LeaseSeconds \in Nat \ {0}
  /\ Interval \in Nat \ {0}
  /\ MaxBackoff \in Nat \ {0}
  /\ FailureCap \in 1..16
  /\ BatchSize \in Nat \ {0}
  /\ Concurrency \in Nat \ {0}
  /\ TaskMax \in Nat \ {0}
  /\ MaxHistory \in Nat \ {0}
  /\ MaxDisruptions \in Nat
  /\ \A n \in 0..16 : 2^n \in Nat \ {0}

VARIABLES
  target,   \* target[t]: status, bound source, due, failures
  lease,    \* lease[t]: the lease columns
  attempt,  \* attempt[t]: lease_token of the newest monitor_attempts row
  health,   \* health[s]: the source_health row of the supplier's strategy
  history,  \* history[p]: fingerprints of supplier_offer_observations, in order
  offer,    \* offer[p]: fingerprint of supplier_offer_states, or Nil
  task,     \* task[k]: the check running under token k
  disruptions     \* tasks abandoned so far

vars == <<target, lease, attempt, health, history, offer, task, disruptions>>

NoLease == [token |-> NoToken, left |-> -1]
Healthy == [status |-> "healthy", failures |-> 0, blocked |-> 0]
\* `outrun` is history only: since this claim, another claim's result was
\* accepted for the target, or the target was given another source.
IdleTask ==
  [pc |-> "idle", target |-> Nil, owner |-> Manual, product |-> Nil,
   age |-> 0, outrun |-> FALSE]

TargetRow == [status: TargetStatus, source: Products, due: Nat,
              failures: 0..FailureCap]
LeaseRow == [token: Tokens \cup {NoToken}, left: -1..LeaseSeconds]
HealthRow == [status: {"healthy", "degraded"} \cup HardSignals,
              failures: 0..3, blocked: Nat]
TaskRow == [pc: {"idle", "claimed", "fetching"}, target: Targets \cup {Nil},
            owner: Workers \cup {Manual}, product: Products \cup {Nil},
            age: 0..TaskMax, outrun: BOOLEAN]

TypeOK ==
  /\ target \in [Targets -> TargetRow]
  /\ lease \in [Targets -> LeaseRow]
  /\ attempt \in [Targets -> Tokens \cup {NoToken}]
  /\ health \in [Suppliers -> HealthRow]
  /\ history \in [Products -> Seq(Fingerprints)]
  /\ offer \in [Products -> Fingerprints \cup {Nil}]
  /\ task \in [Tokens -> TaskRow]
  /\ disruptions \in 0..MaxDisruptions

Init ==
  /\ target = [t \in Targets |-> [status |-> "active", source |-> InitialSource[t],
                                  due |-> 0, failures |-> 0]]
  /\ lease = [t \in Targets |-> NoLease]
  /\ attempt = [t \in Targets |-> NoToken]
  /\ health = [s \in Suppliers |-> Healthy]
  /\ history = [p \in Products |-> <<>>]
  /\ offer = [p \in Products |-> Nil]
  /\ task = [k \in Tokens |-> IdleTask]
  /\ disruptions = 0

-----------------------------------------------------------------------------
(***************************************************************************)
(* lease_engine.py                                                         *)
(***************************************************************************)
Leased(t) == lease[t].left >= 0              \* lease_until >= now
\* Variant: a claim that only takes rows whose lease columns are NULL.
ClaimableNeverExpires(t) == target[t].status = "active" /\ lease[t].token = NoToken
Claimable(t) == target[t].status = "active" /\ ~Leased(t)
Due(t) == target[t].due = 0                  \* next_check_at <= now
\* Variant: the row is looked up by the target alone.
HoldsByTarget(k) == task[k].pc # "idle"
Holds(k) == task[k].pc # "idle" /\ lease[task[k].target].token = k

\* secrets.token_urlsafe: a token on no lease and of no running task.
Fresh(k) == task[k].pc = "idle" /\ \A t \in Targets : lease[t].token # k

\* _apply_claim for a set of targets under distinct fresh tokens.
ApplyClaim(w, claim) ==
  /\ \A t \in DOMAIN claim : Fresh(claim[t])
  /\ \A t, u \in DOMAIN claim : claim[t] = claim[u] => t = u
  /\ lease' = [t \in Targets |->
                 IF t \in DOMAIN claim
                 THEN [token |-> claim[t], left |-> LeaseSeconds]
                 ELSE lease[t]]
  /\ task' = [k \in Tokens |->
                IF \E t \in DOMAIN claim : claim[t] = k
                THEN [IdleTask EXCEPT !.pc = "claimed", !.owner = w,
                        !.target = CHOOSE t \in DOMAIN claim : claim[t] = k]
                ELSE task[k]]
  /\ UNCHANGED <<target, attempt, health, history, offer, disruptions>>

\* claim_due_targets at the head of run_scheduler_tick: any batch of due rows
\* (SKIP LOCKED passes over rows that other transactions hold).  A tick ends
\* when its tasks have ended, so a worker claims only with none of its own.
ClaimDue(w, batch) ==
  /\ batch # {} /\ Cardinality(batch) <= BatchSize
  /\ \A t \in batch : Claimable(t) /\ Due(t)
  /\ \A k \in Tokens : task[k].pc # "idle" => task[k].owner # w
  /\ \E claim \in [batch -> Tokens] : ApplyClaim(w, claim)

\* claim_target(require_due=False) of POST /run-now.
ClaimNow(t) ==
  /\ Claimable(t)
  /\ \E claim \in [{t} -> Tokens] : ApplyClaim(Manual, claim)

\* _lock_current_target and leased_target_statement: the row is found only
\* under the caller's token; the lease may have expired meanwhile.
Reschedule(t, due, failures) ==
  /\ target' = [target EXCEPT ![t].due = due, ![t].failures = failures]
  /\ lease' = [lease EXCEPT ![t] = NoLease]

Backoff(n) ==
  LET seconds == Interval * 2^n
  IN IF seconds < MaxBackoff THEN seconds ELSE MaxBackoff

-----------------------------------------------------------------------------
(***************************************************************************)
(* source_health_engine.py                                                 *)
(***************************************************************************)
Blocked(s) == health[s].blocked > 0

SourceSuccess(s) == health' = [health EXCEPT ![s] = Healthy]

\* A hard signal opens the breaker; an ordinary third failure degrades the
\* source and clears blocked_until; fewer ordinary failures leave it alone.
SourceFailure(s, outcome) ==
  LET n == IF health[s].failures < 3 THEN health[s].failures + 1 ELSE 3
      row == IF outcome \in HardSignals
             THEN [status |-> outcome, failures |-> n, blocked |-> BlockFor[outcome]]
             ELSE IF n = 3
                  THEN [status |-> "degraded", failures |-> n, blocked |-> 0]
                  ELSE [health[s] EXCEPT !.failures = n]
  IN health' = [health EXCEPT ![s] = row]

-----------------------------------------------------------------------------
(***************************************************************************)
(* scheduler_engine.py: process_claimed_target                             *)
(***************************************************************************)

\* The semaphore of run_scheduler_tick bounds the checks of one worker that
\* run at once; a manual check has no semaphore.
SlotFree(w) ==
  \/ w = Manual
  \/ Cardinality({k \in Tokens : task[k].pc = "fetching" /\ task[k].owner = w})
       < Concurrency

Starting(k) == task[k].pc = "claimed" /\ SlotFree(task[k].owner)
SourceOf(k) == target[task[k].target].source
End(k) == task' = [task EXCEPT ![k] = IdleTask]

\* Other claims on t whose answer would now come after an accepted one.
Outrun(t, k) ==
  [j \in Tokens |-> IF j = k THEN IdleTask
                    ELSE IF task[j].target = t THEN [task[j] EXCEPT !.outrun = TRUE]
                    ELSE task[j]]

\* The breaker is closed: adapter.fetch leaves, without a look at the lease.
BeginFetch(k) ==
  /\ Starting(k)
  /\ SupplierOf[SourceOf(k)] \in Registered
  /\ ~Blocked(SupplierOf[SourceOf(k)])
  /\ task' = [task EXCEPT ![k].pc = "fetching", ![k].product = SourceOf(k)]
  /\ UNCHANGED <<target, lease, attempt, health, history, offer, disruptions>>

\* The breaker is open: _defer_blocked_target, under the token or not at all.
DeferBlocked(k) ==
  LET t == task[k].target
      s == SupplierOf[SourceOf(k)]
  IN /\ Starting(k)
     /\ s \in Registered
     /\ Blocked(s)
     /\ End(k)
     /\ IF Holds(k)
        THEN Reschedule(t, health[s].blocked + Jitter[t], target[t].failures)
        ELSE UNCHANGED <<target, lease>>
     /\ UNCHANGED <<attempt, health, history, offer, disruptions>>

\* Variant: the failure counter without its saturation.
FailTargetUncapped(t, k) ==
  LET n == target[t].failures + 1
  IN /\ Reschedule(t, Backoff(n), n)
     /\ attempt' = [attempt EXCEPT ![t] = k]
     /\ task' = Outrun(t, k)

\* apply_failure_reschedule with the failed attempt's row.
FailTarget(t, k) ==
  LET n == IF target[t].failures < FailureCap THEN target[t].failures + 1
                                              ELSE FailureCap
  IN /\ Reschedule(t, Backoff(n), n)
     /\ attempt' = [attempt EXCEPT ![t] = k]
     /\ task' = Outrun(t, k)

\* A result under a token that is no longer on the row: StaleLeaseError rolls
\* the whole transaction back.
DiscardStale(k) ==
  /\ ~Holds(k)
  /\ End(k)
  /\ UNCHANGED <<target, lease, attempt, health, history, offer, disruptions>>

\* No adapter for the supplier: the target fails, the supplier's health does
\* not change.
FailUnregistered(k) ==
  /\ Starting(k)
  /\ SupplierOf[SourceOf(k)] \notin Registered
  /\ \/ DiscardStale(k)
     \/ /\ Holds(k)
        /\ FailTarget(task[k].target, k)
        /\ UNCHANGED <<health, history, offer, disruptions>>

\* Variant: the failed attempt stored and the target rescheduled by target id.
FetchFailedUnfenced(k, outcome) ==
  /\ task[k].pc = "fetching"
  /\ FailTarget(task[k].target, k)
  /\ SourceFailure(SupplierOf[task[k].product], outcome)
  /\ UNCHANGED <<history, offer, disruptions>>

\* adapter.fetch raised: attempt, health and backoff in one transaction.
FetchFailed(k, outcome) ==
  /\ task[k].pc = "fetching"
  /\ \/ DiscardStale(k)
     \/ /\ Holds(k)
        /\ FailTarget(task[k].target, k)
        /\ SourceFailure(SupplierOf[task[k].product], outcome)
        /\ UNCHANGED <<history, offer, disruptions>>

\* adapter.fetch returned: persist_successful_observation (the history grows
\* only when the fingerprint changes), health, reschedule, one commit.
FetchSucceeded(k, f) ==
  LET t == task[k].target
      p == task[k].product
  IN /\ task[k].pc = "fetching"
     /\ \/ DiscardStale(k)
        \/ /\ Holds(k)
           /\ p = SourceOf(k)
           /\ \/ offer[p] = f /\ UNCHANGED history
              \/ /\ offer[p] # f
                 /\ Len(history[p]) < MaxHistory
                 /\ history' = [history EXCEPT ![p] = Append(@, f)]
           /\ offer' = [offer EXCEPT ![p] = f]
           /\ attempt' = [attempt EXCEPT ![t] = k]
           /\ SourceSuccess(SupplierOf[p])
           /\ Reschedule(t, Interval, 0)
           /\ task' = Outrun(t, k)
           /\ UNCHANGED disruptions

Disrupt ==
  /\ disruptions < MaxDisruptions
  /\ disruptions' = disruptions + 1

\* Context not loaded, commit lost, request cancelled or process gone: the
\* task ends and its lease stays on the row until it expires.
Abandon(k) ==
  /\ task[k].pc # "idle"
  /\ Disrupt
  /\ End(k)
  /\ UNCHANGED <<target, lease, attempt, health, history, offer>>

\* run_scheduler_tick cancelled or its process killed: all its tasks at once.
WorkerStop(w) ==
  /\ \E k \in Tokens : task[k].pc # "idle" /\ task[k].owner = w
  /\ Disrupt
  /\ task' = [k \in Tokens |->
                IF task[k].pc # "idle" /\ task[k].owner = w THEN IdleTask ELSE task[k]]
  /\ UNCHANGED <<target, lease, attempt, health, history, offer>>

-----------------------------------------------------------------------------
(***************************************************************************)
(* product_supplier_binding_api.py: the operator edits a target's source   *)
(***************************************************************************)
OutrunAll(t) ==
  [j \in Tokens |-> IF task[j].target = t THEN [task[j] EXCEPT !.outrun = TRUE]
                                          ELSE task[j]]

\* update_manual_supplier_binding with another product or URL: the lease is
\* cleared so that a check of the old source becomes stale.
ReplaceSource(t, p) ==
  /\ Disrupt
  /\ target' = [target EXCEPT ![t] = [status |-> "active", source |-> p,
                                      due |-> 0, failures |-> 0]]
  /\ lease' = [lease EXCEPT ![t] = NoLease]
  /\ task' = OutrunAll(t)
  /\ UNCHANGED <<attempt, health, history, offer>>

\* attach_manual_supplier_binding on an existing target, or an update that
\* names the same source: active and due at once, lease as it is.
RestoreSource(t) ==
  /\ Disrupt
  /\ target' = [target EXCEPT ![t].status = "active", ![t].due = 0]
  /\ UNCHANGED <<lease, attempt, health, history, offer, task>>

\* remove_supplier_binding, and disable_preorder's detaching of a source.
RemoveSource(t) ==
  /\ Disrupt
  /\ target' = [target EXCEPT ![t].status = "disabled"]
  /\ lease' = [lease EXCEPT ![t] = NoLease]
  /\ UNCHANGED <<attempt, health, history, offer, task>>

\* _disable_duplicate_bindings: disabled, but a running check keeps its lease.
DisableDuplicate(t) ==
  /\ Disrupt
  /\ target' = [target EXCEPT ![t].status = "disabled"]
  /\ UNCHANGED <<lease, attempt, health, history, offer, task>>

-----------------------------------------------------------------------------
(***************************************************************************)
(* Time.  One tick of the clock; no running task may reach its hard        *)
(* timeout before it has ended.                                            *)
(***************************************************************************)
CountDown(n, floor) == IF n > floor THEN n - 1 ELSE floor

ClockTick ==
  /\ \A k \in Tokens : task[k].pc # "idle" => task[k].age < TaskMax
  /\ target' = [t \in Targets |-> [target[t] EXCEPT !.due = CountDown(@, 0)]]
  /\ lease' = [t \in Targets |-> [lease[t] EXCEPT !.left = CountDown(@, -1)]]
  /\ health' = [s \in Suppliers |-> [health[s] EXCEPT !.blocked = CountDown(@, 0)]]
  /\ task' = [k \in Tokens |->
                IF task[k].pc = "idle" THEN task[k] ELSE [task[k] EXCEPT !.age = @ + 1]]
  /\ UNCHANGED <<attempt, history, offer, disruptions>>

TaskStep(k) ==
  \/ BeginFetch(k)
  \/ DeferBlocked(k)
  \/ FailUnregistered(k)
  \/ \E o \in Outcomes : FetchFailed(k, o)
  \/ \E f \in Fingerprints : FetchSucceeded(k, f)

Next ==
  \/ \E w \in Workers, batch \in SUBSET Targets : ClaimDue(w, batch)
  \/ \E t \in Targets : ClaimNow(t)
  \/ \E k \in Tokens : TaskStep(k)
  \/ \E k \in Tokens : Abandon(k)
  \/ \E w \in Workers : WorkerStop(w)
  \/ \E t \in Targets, p \in Products : ReplaceSource(t, p)
  \/ \E t \in Targets : RestoreSource(t)
  \/ \E t \in Targets : RemoveSource(t)
  \/ \E t \in Targets : DisableDuplicate(t)
  \/ ClockTick

Spec == Init /\ [][Next]_vars

(***************************************************************************)
(* Fairness: a scheduler keeps ticking, and since its rows come ordered by *)
(* next_check_at a target that is due again and again is not passed over   *)
(* for ever; a task on the event loop runs on; time passes.                *)
(***************************************************************************)
Fairness ==
  /\ \A t \in Targets :
       SF_vars(\E w \in Workers, batch \in SUBSET Targets :
                 t \in batch /\ ClaimDue(w, batch))
  /\ \A k \in Tokens : WF_vars(TaskStep(k))
  /\ WF_vars(ClockTick)

FairSpec == Spec /\ Fairness

-----------------------------------------------------------------------------
(***************************************************************************)
(* Properties                                                              *)
(***************************************************************************)

\* Completion needs the original claim token (lease_engine.py claim rules,
\* scheduler_engine.py StaleLeaseError): a check that a later claim's accepted
\* result or a change of source has outrun ends without a trace, whatever it
\* brings and however late: row, lease, attempts, health and offers stay.
NoStaleOverwrite ==
  [][\A k \in Tokens :
       task[k].outrun /\ task'[k].pc = "idle" =>
         UNCHANGED <<target, lease, attempt, health, history, offer>>]_vars

\* Why: an outrun check holds no lease any more, the one taken over after its
\* expiry as little as the one the operator cleared.
OutrunHoldsNothing ==
  \A k \in Tokens : task[k].outrun => ~Holds(k)

\* A check that can still deliver its result is fetching the source bound to
\* its target now (update_manual_supplier_binding clears the lease).
FetchesBoundSource ==
  \A k \in Tokens :
    task[k].pc = "fetching" /\ Holds(k) => task[k].product = SourceOf(k)

\* A token is on the lease of one target only, and of the target it was
\* claimed for (unique lease_token column, _apply_claim).
TokenNamesOneTarget ==
  \A k \in Tokens, t, u \in Targets :
    lease[t].token = k =>
      /\ lease[u].token = k => t = u
      /\ task[k].pc # "idle" => task[k].target = t

\* A live lease ends only with its own check or by an operator who takes the
\* source away: no claim steals it and no stale task releases it.
LiveLeaseKept ==
  [][\A t \in Targets :
       Leased(t) /\ lease'[t].token # lease[t].token =>
         \/ task[lease[t].token].pc # "idle" /\ task'[lease[t].token].pc = "idle"
         \/ disruptions' # disruptions]_vars

\* No active target starves: again and again it is rescheduled into the future
\* or disabled, after crashes too.  The exception: checks of it that outlast
\* their leases again and again, each taken over before it can answer.
OutlastsLease(t) ==
  \E k \in Tokens : task[k].target = t /\ task[k].age > LeaseSeconds

KeepsBeingChecked ==
  \A t \in Targets :
    \/ []<>(target[t].status # "active" \/ target[t].due > 0)
    \/ []<>OutlastsLease(t)

Leases == INSTANCE FencedLease WITH
  Resources <- Targets,
  holder <- [t \in Targets |-> lease[t].token],
  live <- {t \in Targets : Leased(t)},
  recorded <- attempt

\* The lease columns and the attempts table behave as one exclusive, fenced
\* lease per target (abstract specification FencedLease).
ImplementsFencedLease == Leases!LeaseSpec
=============================================================================
