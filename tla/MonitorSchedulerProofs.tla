----------------------- MODULE MonitorSchedulerProofs -----------------------
(***************************************************************************)
(* Proofs about MonitorScheduler, for any number of targets, workers,      *)
(* tokens and products: type correctness; the fencing of stale checks; no  *)
(* live lease is stolen; the leases implement FencedLease; a check that    *)
(* may deliver fetches the source bound now.                               *)
(***************************************************************************)
EXTENDS MonitorScheduler, TLAPS

USE MonitorConstants

\* A token runs no check, or one for a target, with a product once it fetches.
Shaped(r) ==
  \/ r = IdleTask
  \/ /\ r.pc # "idle" /\ r.target \in Targets
     /\ r.pc = "fetching" => r.product \in Products

Shape == \A k \in Tokens : Shaped(task[k])

TypeInv == TypeOK /\ Shape

LEMMA IdleTaskType == IdleTask \in TaskRow
  BY DEF IdleTask, TaskRow

LEMMA BackoffType == \A n \in 0..FailureCap : Backoff(n) \in Nat
<1> SUFFICES ASSUME NEW n \in 0..FailureCap PROVE Backoff(n) \in Nat
  OBVIOUS
<1>1. n \in 0..16
  OBVIOUS
<1>2. 2^n \in Nat
  BY <1>1
<1>3. \A m \in Nat : Interval * m \in Nat
  OBVIOUS
<1>4. Interval * 2^n \in Nat
  BY <1>2, <1>3
<1>5. QED
  BY <1>4, Zenon DEF Backoff

LEMMA InitTypeInv == Init => TypeInv
<1> SUFFICES ASSUME Init PROVE TypeInv
  OBVIOUS
<1>1. target \in [Targets -> TargetRow]
  BY DEF Init, TargetRow, TargetStatus
<1>2. lease \in [Targets -> LeaseRow]
  BY DEF Init, LeaseRow, NoLease
<1>3. health \in [Suppliers -> HealthRow]
  BY DEF Init, HealthRow, Healthy
<1>4. task \in [Tokens -> TaskRow] /\ Shape
  BY IdleTaskType DEF Init, Shape, Shaped
<1>5. QED
  BY <1>1, <1>2, <1>3, <1>4 DEF Init, TypeInv, TypeOK

LEMMA ReschedulePreservesTypes ==
  ASSUME TypeInv, NEW t \in Targets, NEW due \in Nat, NEW n \in 0..FailureCap,
         Reschedule(t, due, n)
  PROVE  target' \in [Targets -> TargetRow] /\ lease' \in [Targets -> LeaseRow]
<1>1. NoLease \in LeaseRow
  BY DEF NoLease, LeaseRow
<1>2. [target[t] EXCEPT !.due = due, !.failures = n] \in TargetRow
  <2>1. target[t] \in TargetRow
    BY DEF TypeInv, TypeOK
  <2>2. QED
    BY <2>1 DEF TargetRow
<1>3. target' = [target EXCEPT ![t] = [target[t] EXCEPT !.due = due, !.failures = n]]
  BY DEF Reschedule, TypeInv, TypeOK, TargetRow
<1>4. QED
  BY <1>1, <1>2, <1>3 DEF Reschedule, TypeInv, TypeOK

LEMMA OutrunPreservesTypes ==
  ASSUME TypeInv, NEW t \in Targets, NEW k \in Tokens, task' = Outrun(t, k)
  PROVE  task' \in [Tokens -> TaskRow] /\ Shape'
<1>1. ASSUME NEW j \in Tokens
      PROVE  task'[j] \in TaskRow /\ Shaped(task'[j])
  <2>1. task[j] \in TaskRow
    BY DEF TypeInv, TypeOK
  <2>2. [task[j] EXCEPT !.outrun = TRUE] \in TaskRow
    BY <2>1 DEF TaskRow
  <2>3. task[j] = IdleTask => task[j].target # t
    BY DEF IdleTask
  <2>4. QED
    BY <2>1, <2>2, <2>3, IdleTaskType DEF Outrun, TypeInv, Shape, Shaped, TaskRow
<1>2. QED
  BY <1>1 DEF Outrun, Shape, Shaped

LEMMA EndPreservesTypes ==
  ASSUME TypeInv, NEW k \in Tokens, End(k)
  PROVE  task' \in [Tokens -> TaskRow] /\ Shape'
  BY IdleTaskType DEF End, TypeInv, TypeOK, Shape, Shaped

LEMMA ClaimPreservesTypes ==
  ASSUME TypeInv, NEW w \in Workers \cup {Manual}, NEW batch \in SUBSET Targets,
         NEW claim \in [batch -> Tokens], ApplyClaim(w, claim)
  PROVE  TypeInv'
<1>1. lease' \in [Targets -> LeaseRow]
  <2>1. \A k \in Tokens : [token |-> k, left |-> LeaseSeconds] \in LeaseRow
    BY DEF LeaseRow
  <2>2. QED
    BY <2>1 DEF ApplyClaim, TypeInv, TypeOK
<1>2. ASSUME NEW k \in Tokens
      PROVE  task'[k] \in TaskRow /\ Shaped(task'[k])
  <2>1. CASE \E t \in DOMAIN claim : claim[t] = k
    <3> DEFINE u == CHOOSE t \in DOMAIN claim : claim[t] = k
    <3>1. u \in Targets
      BY <2>1
    <3>2. task'[k] = [IdleTask EXCEPT !.pc = "claimed", !.owner = w, !.target = u]
      BY <2>1 DEF ApplyClaim
    <3> HIDE DEF u
    <3>3. task'[k] = [pc |-> "claimed", target |-> u, owner |-> w,
                       product |-> Nil, age |-> 0, outrun |-> FALSE]
      BY <3>2 DEF IdleTask
    <3>4. task'[k] \in TaskRow
      BY <3>1, <3>3 DEF TaskRow
    <3>5. QED
      BY <3>1, <3>3, <3>4 DEF Shaped
  <2>2. CASE ~ \E t \in DOMAIN claim : claim[t] = k
    <3>1. task'[k] = task[k]
      BY <2>2 DEF ApplyClaim
    <3>2. QED
      BY <3>1 DEF TypeInv, TypeOK, Shape, Shaped
  <2>3. QED
    BY <2>1, <2>2
<1>3. task' \in [Tokens -> TaskRow] /\ Shape'
  BY <1>2 DEF ApplyClaim, Shape, Shaped
<1>4. QED
  BY <1>1, <1>3 DEF ApplyClaim, TypeInv, TypeOK

\* A task that runs has a target, a bound product and a supplier.
LEMMA RunningTask ==
  ASSUME TypeInv, NEW k \in Tokens, task[k].pc # "idle"
  PROVE  /\ task[k].target \in Targets
         /\ task[k] \in TaskRow
         /\ task[k].owner \in Workers \cup {Manual}
         /\ SourceOf(k) \in Products
         /\ SupplierOf[SourceOf(k)] \in Suppliers
         /\ task[k].pc = "fetching" => task[k].product \in Products
  <1>1. task[k].target \in Targets /\ task[k] \in TaskRow
        /\ (task[k].pc = "fetching" => task[k].product \in Products)
    BY DEF TypeInv, TypeOK, Shape, Shaped, IdleTask
  <1>2. target[task[k].target] \in TargetRow
    BY <1>1 DEF TypeInv, TypeOK
  <1>3. QED
    BY <1>1, <1>2 DEF SourceOf, TargetRow, TaskRow

LEMMA DiscardStaleTypes ==
  ASSUME TypeInv, NEW k \in Tokens, DiscardStale(k)
  PROVE  TypeInv'
  BY EndPreservesTypes DEF DiscardStale, TypeInv, TypeOK

LEMMA FailTargetTypes ==
  ASSUME TypeInv, NEW t \in Targets, NEW k \in Tokens, FailTarget(t, k)
  PROVE  /\ target' \in [Targets -> TargetRow]
         /\ lease' \in [Targets -> LeaseRow]
         /\ attempt' \in [Targets -> Tokens \cup {NoToken}]
         /\ task' \in [Tokens -> TaskRow]
         /\ Shape'
<1> DEFINE n == IF target[t].failures < FailureCap THEN target[t].failures + 1
                                                  ELSE FailureCap
<1>1. n \in 0..FailureCap
  <2>1. target[t] \in TargetRow
    BY DEF TypeInv, TypeOK
  <2>2. QED
    BY <2>1 DEF TargetRow
<1>2. Reschedule(t, Backoff(n), n) /\ task' = Outrun(t, k)
      /\ attempt' = [attempt EXCEPT ![t] = k]
  BY DEF FailTarget
<1> HIDE DEF n
<1>3. Backoff(n) \in Nat
  BY <1>1, BackoffType
<1>4. QED
  BY <1>1, <1>2, <1>3, ReschedulePreservesTypes, OutrunPreservesTypes
     DEF TypeInv, TypeOK

LEMMA SourceFailureTypes ==
  ASSUME TypeInv, NEW s \in Suppliers, NEW o \in Outcomes, SourceFailure(s, o)
  PROVE  health' \in [Suppliers -> HealthRow]
<1>1. health[s] \in HealthRow
  BY DEF TypeInv, TypeOK
<1> DEFINE n == IF health[s].failures < 3 THEN health[s].failures + 1 ELSE 3
           row == IF o \in HardSignals
                  THEN [status |-> o, failures |-> n, blocked |-> BlockFor[o]]
                  ELSE IF n = 3
                       THEN [status |-> "degraded", failures |-> n, blocked |-> 0]
                       ELSE [health[s] EXCEPT !.failures = n]
<1>2. n \in 0..3
  BY <1>1 DEF HealthRow
<1>3. row \in HealthRow
  <2> HIDE DEF n
  <2>1. CASE o \in HardSignals
    BY <1>2, <2>1 DEF HealthRow
  <2>2. CASE o \notin HardSignals /\ n = 3
    BY <1>2, <2>2 DEF HealthRow
  <2>3. CASE o \notin HardSignals /\ n # 3
    BY <1>1, <1>2, <2>3 DEF HealthRow
  <2>4. QED
    BY <2>1, <2>2, <2>3
<1>4. health' = [health EXCEPT ![s] = row]
  BY DEF SourceFailure
<1> HIDE DEF row
<1>5. QED
  BY <1>3, <1>4 DEF TypeInv, TypeOK

LEMMA FetchSucceededTypes ==
  ASSUME TypeInv, NEW k \in Tokens, NEW f \in Fingerprints, FetchSucceeded(k, f)
  PROVE  TypeInv'
<1> DEFINE t == task[k].target
           p == task[k].product
<1>1. CASE DiscardStale(k)
  BY <1>1, DiscardStaleTypes
<1>2. CASE ~DiscardStale(k)
  <2>1. t \in Targets /\ p \in Products /\ SupplierOf[p] \in Suppliers
    BY <1>2, RunningTask DEF FetchSucceeded
  <2>2. Reschedule(t, Interval, 0) /\ task' = Outrun(t, k)
        /\ attempt' = [attempt EXCEPT ![t] = k] /\ offer' = [offer EXCEPT ![p] = f]
        /\ SourceSuccess(SupplierOf[p]) /\ UNCHANGED disruptions
    BY <1>2 DEF FetchSucceeded
  <2>3. history' \in [Products -> Seq(Fingerprints)]
    <3>1. history[p] \in Seq(Fingerprints)
      BY <2>1 DEF TypeInv, TypeOK
    <3>2. Append(history[p], f) \in Seq(Fingerprints)
      BY <3>1
    <3>3. history' = history \/ history' = [history EXCEPT ![p] = Append(history[p], f)]
      BY <1>2 DEF FetchSucceeded
    <3>4. QED
      BY <3>2, <3>3 DEF TypeInv, TypeOK
  <2>4. health' \in [Suppliers -> HealthRow]
    <3>1. Healthy \in HealthRow
      BY DEF Healthy, HealthRow
    <3>2. QED
      BY <2>2, <3>1 DEF SourceSuccess, TypeInv, TypeOK
  <2> HIDE DEF t, p
  <2>5. target' \in [Targets -> TargetRow] /\ lease' \in [Targets -> LeaseRow]
    BY <2>1, <2>2, ReschedulePreservesTypes
  <2>6. task' \in [Tokens -> TaskRow] /\ Shape'
    BY <2>1, <2>2, OutrunPreservesTypes
  <2>7. QED
    BY <2>1, <2>2, <2>3, <2>4, <2>5, <2>6 DEF TypeInv, TypeOK
<1>3. QED
  BY <1>1, <1>2

LEMMA TaskStepTypes ==
  ASSUME TypeInv, NEW k \in Tokens, TaskStep(k)
  PROVE  TypeInv'
<1>1. CASE BeginFetch(k)
  <2>1. task[k].pc # "idle"
    BY <1>1 DEF BeginFetch, Starting
  <2>2. task[k] \in TaskRow /\ SourceOf(k) \in Products /\ task[k].target \in Targets
    BY <2>1, RunningTask
  <2>3. task' = [task EXCEPT ![k] = [task[k] EXCEPT !.pc = "fetching", !.product = SourceOf(k)]]
    BY <1>1, <2>2 DEF BeginFetch, TypeInv, TypeOK, TaskRow
  <2>4. [task[k] EXCEPT !.pc = "fetching", !.product = SourceOf(k)] \in TaskRow
    BY <2>2 DEF TaskRow
  <2>5. task' \in [Tokens -> TaskRow]
    BY <2>3, <2>4 DEF TypeInv, TypeOK
  <2>6. Shape'
    <3>1. /\ task'[k].pc = "fetching" /\ task'[k].target = task[k].target
          /\ task'[k].product = SourceOf(k)
      BY <2>2, <2>3 DEF TypeInv, TypeOK, TaskRow
    <3>2. \A j \in Tokens : j # k => task'[j] = task[j]
      BY <2>3 DEF TypeInv, TypeOK
    <3>3. QED
      BY <2>2, <3>1, <3>2 DEF TypeInv, Shape, Shaped
  <2>7. QED
    BY <1>1, <2>5, <2>6 DEF BeginFetch, TypeInv, TypeOK
<1>2. CASE DeferBlocked(k)
  <2> DEFINE t == task[k].target
             s == SupplierOf[SourceOf(k)]
  <2>1. t \in Targets /\ s \in Suppliers
    BY <1>2, RunningTask DEF DeferBlocked, Starting
  <2>2. health[s] \in HealthRow /\ target[t] \in TargetRow
    BY <2>1 DEF TypeInv, TypeOK
  <2>3. health[s].blocked + Jitter[t] \in Nat /\ target[t].failures \in 0..FailureCap
    BY <2>1, <2>2 DEF HealthRow, TargetRow
  <2>4. target' \in [Targets -> TargetRow] /\ lease' \in [Targets -> LeaseRow]
    <3>1. CASE Holds(k)
      BY <1>2, <2>1, <2>3, <3>1, ReschedulePreservesTypes DEF DeferBlocked
    <3>2. CASE ~Holds(k)
      BY <1>2, <3>2 DEF DeferBlocked, TypeInv, TypeOK
    <3>3. QED
      BY <3>1, <3>2
  <2>5. task' \in [Tokens -> TaskRow] /\ Shape'
    BY <1>2, EndPreservesTypes DEF DeferBlocked
  <2>6. QED
    BY <1>2, <2>4, <2>5 DEF DeferBlocked, TypeInv, TypeOK
<1>3. CASE FailUnregistered(k)
  <2>1. CASE DiscardStale(k)
    BY <2>1, DiscardStaleTypes
  <2>2. CASE ~DiscardStale(k)
    <3>1. task[k].target \in Targets
      BY <1>3, RunningTask DEF FailUnregistered, Starting
    <3>2. FailTarget(task[k].target, k) /\ UNCHANGED <<health, history, offer, disruptions>>
      BY <1>3, <2>2 DEF FailUnregistered
    <3>3. QED
      BY <3>1, <3>2, FailTargetTypes DEF TypeInv, TypeOK
  <2>3. QED
    BY <2>1, <2>2
<1>4. ASSUME NEW o \in Outcomes, FetchFailed(k, o)
      PROVE  TypeInv'
  <2>1. CASE DiscardStale(k)
    BY <2>1, DiscardStaleTypes
  <2>2. CASE ~DiscardStale(k)
    <3>1. task[k].target \in Targets /\ task[k].product \in Products
      BY <1>4, <2>2, RunningTask DEF FetchFailed
    <3>2. /\ FailTarget(task[k].target, k)
          /\ SourceFailure(SupplierOf[task[k].product], o)
          /\ UNCHANGED <<history, offer, disruptions>>
      BY <1>4, <2>2 DEF FetchFailed
    <3>3. SupplierOf[task[k].product] \in Suppliers
      BY <3>1
    <3>4. health' \in [Suppliers -> HealthRow]
      BY <3>2, <3>3, SourceFailureTypes
    <3>5. QED
      BY <3>1, <3>2, <3>4, FailTargetTypes DEF TypeInv, TypeOK
  <2>3. QED
    BY <2>1, <2>2
<1>5. ASSUME NEW f \in Fingerprints, FetchSucceeded(k, f)
      PROVE  TypeInv'
  BY <1>5, FetchSucceededTypes
<1>6. QED
  BY <1>1, <1>2, <1>3, <1>4, <1>5 DEF TaskStep

LEMMA OutrunAllTypes ==
  ASSUME TypeInv, NEW t \in Targets, task' = OutrunAll(t)
  PROVE  task' \in [Tokens -> TaskRow] /\ Shape'
<1>1. ASSUME NEW j \in Tokens
      PROVE  task'[j] \in TaskRow /\ Shaped(task'[j])
  <2>1. task[j] \in TaskRow
    BY DEF TypeInv, TypeOK
  <2>2. [task[j] EXCEPT !.outrun = TRUE] \in TaskRow
    BY <2>1 DEF TaskRow
  <2>3. task[j] = IdleTask => task[j].target # t
    BY DEF IdleTask
  <2>4. QED
    BY <2>1, <2>2, <2>3, IdleTaskType DEF OutrunAll, TypeInv, Shape, Shaped, TaskRow
<1>2. QED
  BY <1>1 DEF OutrunAll, Shape, Shaped

\* The operator's edits.
LEMMA EditTypes ==
  ASSUME TypeInv, NEW t \in Targets,
         \/ \E p \in Products : ReplaceSource(t, p)
         \/ RestoreSource(t) \/ RemoveSource(t) \/ DisableDuplicate(t)
  PROVE  TypeInv'
<1> USE DEF TypeInv, TypeOK
<1>1. disruptions' \in 0..MaxDisruptions
  BY DEF ReplaceSource, RestoreSource, RemoveSource, DisableDuplicate, Disrupt
<1>2. target[t] \in TargetRow /\ NoLease \in LeaseRow
  BY DEF NoLease, LeaseRow
<1>3. ASSUME NEW p \in Products, ReplaceSource(t, p)
      PROVE  TypeInv'
  <2>1. [status |-> "active", source |-> p, due |-> 0, failures |-> 0] \in TargetRow
    BY DEF TargetRow, TargetStatus
  <2>2. task' \in [Tokens -> TaskRow] /\ Shape'
    BY <1>3, OutrunAllTypes DEF ReplaceSource
  <2>3. QED
    BY <1>1, <1>2, <1>3, <2>1, <2>2 DEF ReplaceSource
<1>4. \A st \in TargetStatus :
        /\ [target[t] EXCEPT !.status = st] \in TargetRow
        /\ [target[t] EXCEPT !.status = st, !.due = 0] \in TargetRow
  BY <1>2 DEF TargetRow
<1>5. CASE RestoreSource(t)
  <2>1. target' = [target EXCEPT ![t] = [target[t] EXCEPT !.status = "active", !.due = 0]]
    BY <1>5, <1>2 DEF RestoreSource, TargetRow
  <2>2. QED
    BY <1>1, <1>4, <1>5, <2>1 DEF RestoreSource, TargetStatus, Shape
<1>6. CASE RemoveSource(t) \/ DisableDuplicate(t)
  <2>1. target' = [target EXCEPT ![t] = [target[t] EXCEPT !.status = "disabled"]]
    BY <1>6, <1>2 DEF RemoveSource, DisableDuplicate
  <2>2. target' \in [Targets -> TargetRow]
    BY <1>4, <2>1 DEF TargetStatus
  <2>3. lease' \in [Targets -> LeaseRow]
    BY <1>2, <1>6 DEF RemoveSource, DisableDuplicate
  <2>4. UNCHANGED <<attempt, health, history, offer, task>>
    BY <1>6 DEF RemoveSource, DisableDuplicate
  <2>5. QED
    BY <1>1, <2>2, <2>3, <2>4 DEF Shape
<1>7. QED
  BY <1>3, <1>5, <1>6

LEMMA ClockTickTypes ==
  ASSUME TypeInv, ClockTick
  PROVE  TypeInv'
<1> USE DEF TypeInv, TypeOK
<1>1. target' \in [Targets -> TargetRow]
  <2>1. ASSUME NEW r \in TargetRow
        PROVE  [r EXCEPT !.due = CountDown(r.due, 0)] \in TargetRow
    <3>1. CountDown(r.due, 0) \in Nat
      BY DEF CountDown, TargetRow
    <3>2. QED
      BY <3>1 DEF TargetRow
  <2>2. QED
    BY <2>1 DEF ClockTick
<1>2. lease' \in [Targets -> LeaseRow]
  <2>1. ASSUME NEW r \in LeaseRow
        PROVE  [r EXCEPT !.left = CountDown(r.left, -1)] \in LeaseRow
    <3>1. CountDown(r.left, -1) \in -1..LeaseSeconds
      BY DEF CountDown, LeaseRow
    <3>2. QED
      BY <3>1 DEF LeaseRow
  <2>2. QED
    BY <2>1 DEF ClockTick
<1>3. health' \in [Suppliers -> HealthRow]
  <2>1. ASSUME NEW r \in HealthRow
        PROVE  [r EXCEPT !.blocked = CountDown(r.blocked, 0)] \in HealthRow
    <3>1. CountDown(r.blocked, 0) \in Nat
      BY DEF CountDown, HealthRow
    <3>2. QED
      BY <3>1 DEF HealthRow
  <2>2. QED
    BY <2>1 DEF ClockTick
<1>4. task' \in [Tokens -> TaskRow] /\ Shape'
  <2>1. ASSUME NEW k \in Tokens PROVE task'[k] \in TaskRow /\ Shaped(task'[k])
    <3>1. task[k] \in TaskRow /\ Shaped(task[k])
      BY DEF Shape
    <3>2. CASE task[k].pc = "idle"
      BY <3>1, <3>2 DEF ClockTick
    <3>3. CASE task[k].pc # "idle"
      <4>1. task'[k] = [task[k] EXCEPT !.age = task[k].age + 1] /\ task[k].age < TaskMax
        BY <3>3 DEF ClockTick
      <4>2. task[k] # IdleTask
        BY <3>3 DEF IdleTask
      <4>3. task[k].age + 1 \in 0..TaskMax
        BY <3>1, <4>1 DEF TaskRow
      <4>4. task'[k] \in TaskRow
        BY <3>1, <4>1, <4>3 DEF TaskRow
      <4>5. /\ task'[k].pc = task[k].pc /\ task'[k].target = task[k].target
            /\ task'[k].product = task[k].product
        BY <3>1, <4>1 DEF TaskRow
      <4>6. QED
        BY <3>1, <3>3, <4>2, <4>4, <4>5 DEF Shaped
    <3>4. QED
      BY <3>2, <3>3
  <2>2. QED
    BY <2>1 DEF ClockTick, Shape
<1>5. QED
  BY <1>1, <1>2, <1>3, <1>4 DEF ClockTick

LEMMA StopTypes ==
  ASSUME TypeInv,
         (\E k \in Tokens : Abandon(k)) \/ (\E w \in Workers : WorkerStop(w))
  PROVE  TypeInv'
<1> USE DEF TypeInv, TypeOK
<1>1. CASE \E k \in Tokens : Abandon(k)
  BY <1>1, EndPreservesTypes DEF Abandon, Disrupt
<1>2. CASE \E w \in Workers : WorkerStop(w)
  BY <1>2, IdleTaskType DEF WorkerStop, Disrupt, Shape, Shaped
<1>3. QED
  BY <1>1, <1>2

LEMMA NextTypes == TypeInv /\ [Next]_vars => TypeInv'
<1> SUFFICES ASSUME TypeInv, [Next]_vars PROVE TypeInv'
  OBVIOUS
<1>1. ASSUME NEW w \in Workers, NEW batch \in SUBSET Targets, ClaimDue(w, batch)
      PROVE  TypeInv'
  BY <1>1, ClaimPreservesTypes DEF ClaimDue
<1>2. ASSUME NEW t \in Targets, ClaimNow(t)
      PROVE  TypeInv'
  <2>1. {t} \in SUBSET Targets /\ Manual \in Workers \cup {Manual}
    OBVIOUS
  <2>2. QED
    BY <1>2, <2>1, ClaimPreservesTypes DEF ClaimNow
<1>3. CASE UNCHANGED vars
  BY <1>3 DEF vars, TypeInv, TypeOK, Shape
<1>4. QED
  BY <1>1, <1>2, <1>3, TaskStepTypes, StopTypes, EditTypes, ClockTickTypes DEF Next

\* Every reachable state is well typed, for all values of the constants.
THEOREM TypeCorrect == Spec => []TypeOK
<1>1. TypeInv => TypeOK
  BY DEF TypeInv
<1>2. QED
  BY <1>1, InitTypeInv, NextTypes, PTL DEF Spec

-----------------------------------------------------------------------------
(***************************************************************************)
(* Fencing.  OutrunHoldsNothing is not inductive: that an outrun check     *)
(* holds no lease needs that a token stands on one lease only and that a   *)
(* running check's token stands on no lease but that of its own target.    *)
(***************************************************************************)
OneLeasePerToken ==
  \A k \in Tokens, t, u \in Targets :
    lease[t].token = k /\ lease[u].token = k => t = u

TokenOfItsTarget ==
  \A k \in Tokens, t \in Targets :
    lease[t].token = k /\ task[k].pc # "idle" => task[k].target = t

FenceInv == TypeInv /\ OneLeasePerToken /\ TokenOfItsTarget /\ OutrunHoldsNothing

\* An outrun check is a running one, so its target is a target.
LEMMA OutrunRuns ==
  ASSUME TypeInv, NEW k \in Tokens, task[k].outrun
  PROVE  task[k].pc # "idle" /\ task[k].target \in Targets
  BY RunningTask DEF TypeInv, Shape, Shaped, IdleTask

\* Leases shrink or stay, and no task starts or is outrun: the invariant stays.
LEMMA ShrinkPreservesFence ==
  ASSUME FenceInv, TypeInv',
         \A t \in Targets : \/ lease'[t].token = lease[t].token
                            \/ lease'[t].token = NoToken,
         \A k \in Tokens :
           \/ task'[k] = IdleTask
           \/ /\ task'[k].pc # "idle" => task[k].pc # "idle"
              /\ task'[k].target = task[k].target
              /\ \/ task'[k].outrun = task[k].outrun
                 \/ lease'[task[k].target].token # k
  PROVE  FenceInv'
<1>1. OneLeasePerToken'
  BY DEF FenceInv, OneLeasePerToken
<1>2. TokenOfItsTarget'
  BY DEF FenceInv, TokenOfItsTarget, IdleTask
<1>3. OutrunHoldsNothing'
  <2> SUFFICES ASSUME NEW k \in Tokens, task'[k].outrun
               PROVE  lease'[task'[k].target].token # k
    BY DEF OutrunHoldsNothing, Holds
  <2>1. task'[k] # IdleTask
    BY DEF IdleTask
  <2>2. task'[k].target = task[k].target
    BY <2>1
  <2>3. CASE lease'[task[k].target].token # k
    BY <2>2, <2>3
  <2>4. CASE task[k].outrun
    <3>1. task[k].pc # "idle" /\ task[k].target \in Targets
      BY <2>4, OutrunRuns DEF FenceInv
    <3>2. lease[task[k].target].token # k
      BY <2>4, <3>1 DEF FenceInv, OutrunHoldsNothing, Holds
    <3>3. QED
      BY <2>2, <3>1, <3>2
  <2>5. QED
    BY <2>1, <2>3, <2>4
<1>4. QED
  BY <1>1, <1>2, <1>3 DEF FenceInv

\* A result accepted for t: its lease is cleared, the other checks outrun.
LEMMA AcceptShrinks ==
  ASSUME TypeInv, NEW t \in Targets, NEW k \in Tokens,
         lease' = [lease EXCEPT ![t] = NoLease], task' = Outrun(t, k)
  PROVE  /\ \A u \in Targets : \/ lease'[u].token = lease[u].token
                               \/ lease'[u].token = NoToken
         /\ \A j \in Tokens :
              \/ task'[j] = IdleTask
              \/ /\ task'[j].pc # "idle" => task[j].pc # "idle"
                 /\ task'[j].target = task[j].target
                 /\ \/ task'[j].outrun = task[j].outrun
                    \/ lease'[task[j].target].token # j
<1>1. lease'[t].token = NoToken
  BY DEF TypeInv, TypeOK, NoLease
<1>2. \A u \in Targets : u # t => lease'[u] = lease[u]
  BY DEF TypeInv, TypeOK
<1>3. ASSUME NEW j \in Tokens, task'[j] # IdleTask
      PROVE  /\ task'[j].pc = task[j].pc /\ task'[j].target = task[j].target
             /\ task'[j].outrun = task[j].outrun \/ task[j].target = t
  <2>1. task[j] \in TaskRow
    BY DEF TypeInv, TypeOK
  <2>2. QED
    BY <1>3, <2>1 DEF Outrun, TaskRow
<1>4. QED
  BY <1>1, <1>2, <1>3

\* A task ends, alone or with others, and no lease is granted.
LEMMA EndShrinks ==
  ASSUME FenceInv, TypeInv',
         \A t \in Targets : \/ lease'[t].token = lease[t].token
                            \/ lease'[t].token = NoToken,
         \A k \in Tokens : task'[k] = IdleTask \/ task'[k] = task[k]
  PROVE  FenceInv'
  BY ShrinkPreservesFence

LEMMA DiscardFence ==
  ASSUME FenceInv, TypeInv', NEW k \in Tokens, DiscardStale(k)
  PROVE  FenceInv'
<1>1. \A j \in Tokens : task'[j] = IdleTask \/ task'[j] = task[j]
  BY DEF DiscardStale, End, FenceInv, TypeInv, TypeOK
<1>2. QED
  BY <1>1, EndShrinks DEF DiscardStale

LEMMA TaskStepFence ==
  ASSUME FenceInv, TypeInv', NEW k \in Tokens, TaskStep(k)
  PROVE  FenceInv'
<1> DEFINE t == task[k].target
<1> USE DEF FenceInv
<1>1. CASE BeginFetch(k)
  <2>1. task[k].pc # "idle" /\ task[k] \in TaskRow
    BY <1>1, RunningTask DEF BeginFetch, Starting
  <2>2. \A j \in Tokens : /\ task'[j].target = task[j].target
                          /\ task'[j].outrun = task[j].outrun
                          /\ task'[j].pc # "idle" => task[j].pc # "idle"
    BY <1>1, <2>1 DEF BeginFetch, TypeInv, TypeOK, TaskRow
  <2>3. lease' = lease
    BY <1>1 DEF BeginFetch
  <2>4. QED
    BY <2>2, <2>3, ShrinkPreservesFence
<1>2. CASE DeferBlocked(k)
  <2>1. t \in Targets
    BY <1>2, RunningTask DEF DeferBlocked, Starting
  <2>2. lease' = lease \/ lease' = [lease EXCEPT ![t] = NoLease]
    BY <1>2 DEF DeferBlocked, Reschedule
  <2>3. \A u \in Targets : \/ lease'[u].token = lease[u].token
                           \/ lease'[u].token = NoToken
    <3>1. NoLease.token = NoToken
      BY DEF NoLease
    <3>2. lease \in [Targets -> LeaseRow]
      BY DEF TypeInv, TypeOK
    <3> HIDE DEF t, FenceInv
    <3>3. QED
      BY <2>1, <2>2, <3>1, <3>2
  <2>4. \A j \in Tokens : task'[j] = IdleTask \/ task'[j] = task[j]
    BY <1>2 DEF DeferBlocked, End, TypeInv, TypeOK
  <2>5. QED
    BY <2>3, <2>4, EndShrinks
<1>3. ASSUME NEW due, NEW n, t \in Targets, Reschedule(t, due, n), task' = Outrun(t, k)
      PROVE  FenceInv'
  <2>1. lease' = [lease EXCEPT ![t] = NoLease]
    BY <1>3 DEF Reschedule
  <2> HIDE DEF t
  <2>2. QED
    BY <1>3, <2>1, AcceptShrinks, ShrinkPreservesFence
<1>4. ASSUME FailTarget(t, k), t \in Targets
      PROVE  FenceInv'
  BY <1>3, <1>4 DEF FailTarget
<1>5. CASE FailUnregistered(k)
  BY <1>4, <1>5, DiscardFence, RunningTask DEF FailUnregistered, Starting
<1>6. CASE \E o \in Outcomes : FetchFailed(k, o)
  BY <1>4, <1>6, DiscardFence, RunningTask DEF FetchFailed
<1>7. CASE \E f \in Fingerprints : FetchSucceeded(k, f)
  BY <1>3, <1>7, DiscardFence, RunningTask DEF FetchSucceeded
<1>8. QED
  BY <1>1, <1>2, <1>5, <1>6, <1>7 DEF TaskStep

LEMMA StopFence ==
  ASSUME FenceInv, TypeInv',
         (\E k \in Tokens : Abandon(k)) \/ (\E w \in Workers : WorkerStop(w))
  PROVE  FenceInv'
<1>1. \A k \in Tokens : task'[k] = IdleTask \/ task'[k] = task[k]
  BY DEF Abandon, WorkerStop, End, FenceInv, TypeInv, TypeOK
<1>2. lease' = lease
  BY DEF Abandon, WorkerStop
<1>3. QED
  BY <1>1, <1>2, EndShrinks

LEMMA EditFence ==
  ASSUME FenceInv, TypeInv', NEW t \in Targets,
         \/ \E p \in Products : ReplaceSource(t, p)
         \/ RestoreSource(t) \/ RemoveSource(t) \/ DisableDuplicate(t)
  PROVE  FenceInv'
<1>1. NoLease.token = NoToken
  BY DEF NoLease
<1>2. lease \in [Targets -> LeaseRow] /\ task \in [Tokens -> TaskRow]
  BY DEF FenceInv, TypeInv, TypeOK
<1>3. ASSUME NEW p \in Products, ReplaceSource(t, p)
      PROVE  FenceInv'
  <2>1. lease' = [lease EXCEPT ![t] = NoLease] /\ task' = OutrunAll(t)
    BY <1>3 DEF ReplaceSource
  <2>2. \A u \in Targets : \/ lease'[u].token = lease[u].token
                           \/ lease'[u].token = NoToken
    BY <1>1, <1>2, <2>1
  <2>3. lease'[t].token = NoToken
    BY <1>1, <1>2, <2>1
  <2>4. ASSUME NEW j \in Tokens
        PROVE  /\ task'[j].pc = task[j].pc /\ task'[j].target = task[j].target
               /\ task'[j].outrun = task[j].outrun \/ task[j].target = t
    <3>1. task[j] \in TaskRow
      BY <1>2
    <3>2. QED
      BY <2>1, <3>1 DEF OutrunAll, TaskRow
  <2>5. \A j \in Tokens : j # NoToken
    OBVIOUS
  <2>6. QED
    BY <2>2, <2>3, <2>4, <2>5, ShrinkPreservesFence
<1>4. CASE RestoreSource(t) \/ RemoveSource(t) \/ DisableDuplicate(t)
  <2>1. lease' = lease \/ lease' = [lease EXCEPT ![t] = NoLease]
    BY <1>4 DEF RestoreSource, RemoveSource, DisableDuplicate
  <2>2. \A u \in Targets : \/ lease'[u].token = lease[u].token
                           \/ lease'[u].token = NoToken
    BY <1>1, <1>2, <2>1
  <2>3. task' = task
    BY <1>4 DEF RestoreSource, RemoveSource, DisableDuplicate
  <2>4. QED
    BY <2>2, <2>3, EndShrinks
<1>5. QED
  BY <1>3, <1>4

LEMMA ClockTickFence ==
  ASSUME FenceInv, TypeInv', ClockTick
  PROVE  FenceInv'
<1>1. \A t \in Targets : lease'[t].token = lease[t].token
  BY DEF ClockTick, FenceInv, TypeInv, TypeOK, LeaseRow
<1>2. ASSUME NEW k \in Tokens
      PROVE  /\ task'[k].pc = task[k].pc /\ task'[k].target = task[k].target
             /\ task'[k].outrun = task[k].outrun
  <2>1. task[k] \in TaskRow
    BY DEF FenceInv, TypeInv, TypeOK
  <2>2. QED
    BY <2>1 DEF ClockTick, TaskRow
<1>3. QED
  BY <1>1, <1>2, ShrinkPreservesFence

LEMMA ClaimFence ==
  ASSUME FenceInv, TypeInv', NEW w \in Workers \cup {Manual},
         NEW batch \in SUBSET Targets, NEW claim \in [batch -> Tokens],
         ApplyClaim(w, claim)
  PROVE  FenceInv'
<1>1. /\ \A t \in batch : Fresh(claim[t])
      /\ \A t, u \in batch : claim[t] = claim[u] => t = u
  BY DEF ApplyClaim
<1>2. \A t \in Targets : lease'[t].token = IF t \in batch THEN claim[t] ELSE lease[t].token
  BY DEF ApplyClaim
<1>3. ASSUME NEW k \in Tokens
      PROVE  \/ /\ \A t \in batch : claim[t] # k
                /\ task'[k] = task[k]
             \/ \E t \in batch : /\ claim[t] = k
                                 /\ task'[k].target = t
                                 /\ task'[k].outrun = FALSE
  <2>1. CASE \E t \in batch : claim[t] = k
    <3> DEFINE u == CHOOSE t \in DOMAIN claim : claim[t] = k
    <3>1. u \in batch /\ claim[u] = k
      BY <2>1
    <3>2. task'[k] = [IdleTask EXCEPT !.pc = "claimed", !.owner = w, !.target = u]
      BY <2>1 DEF ApplyClaim
    <3> HIDE DEF u
    <3>3. task'[k] = [pc |-> "claimed", target |-> u, owner |-> w,
                       product |-> Nil, age |-> 0, outrun |-> FALSE]
      BY <3>2 DEF IdleTask
    <3>4. QED
      BY <3>1, <3>3
  <2>2. CASE \A t \in batch : claim[t] # k
    BY <2>2 DEF ApplyClaim
  <2>3. QED
    BY <2>1, <2>2
<1>4. OneLeasePerToken'
  BY <1>1, <1>2 DEF OneLeasePerToken, FenceInv, Fresh
<1>5. TokenOfItsTarget'
  <2> SUFFICES ASSUME NEW k \in Tokens, NEW t \in Targets,
                      lease'[t].token = k, task'[k].pc # "idle"
               PROVE  task'[k].target = t
    BY DEF TokenOfItsTarget
  <2>1. CASE t \in batch
    <3>1. claim[t] = k
      BY <1>2, <2>1
    <3>2. PICK u \in batch : claim[u] = k /\ task'[k].target = u
      BY <1>3, <2>1, <3>1
    <3>3. QED
      BY <1>1, <2>1, <3>1, <3>2
  <2>2. CASE t \notin batch
    <3>1. lease[t].token = k
      BY <1>2, <2>2
    <3>2. \A u \in batch : claim[u] # k
      BY <1>1, <3>1 DEF Fresh
    <3>3. task'[k] = task[k]
      BY <1>3, <3>2
    <3>4. QED
      BY <3>1, <3>3 DEF FenceInv, TokenOfItsTarget
  <2>3. QED
    BY <2>1, <2>2
<1>6. OutrunHoldsNothing'
  <2> SUFFICES ASSUME NEW k \in Tokens, task'[k].outrun, task'[k].pc # "idle",
                      lease'[task'[k].target].token = k
               PROVE  FALSE
    BY DEF OutrunHoldsNothing, Holds
  <2>1. task'[k] = task[k] /\ \A t \in batch : claim[t] # k
    BY <1>3
  <2>2. task[k].target \in Targets
    BY <2>1, OutrunRuns DEF FenceInv
  <2>3. lease[task[k].target].token # k
    BY <2>1 DEF FenceInv, OutrunHoldsNothing, Holds
  <2>4. QED
    BY <1>2, <2>1, <2>2, <2>3
<1>7. QED
  BY <1>4, <1>5, <1>6 DEF FenceInv

LEMMA NextFence == FenceInv /\ [Next]_vars => FenceInv'
<1> SUFFICES ASSUME FenceInv, [Next]_vars PROVE FenceInv'
  OBVIOUS
<1>1. TypeInv'
  BY NextTypes DEF FenceInv
<1>2. ASSUME NEW w \in Workers, NEW batch \in SUBSET Targets, ClaimDue(w, batch)
      PROVE  FenceInv'
  BY <1>1, <1>2, ClaimFence DEF ClaimDue
<1>3. ASSUME NEW t \in Targets, ClaimNow(t)
      PROVE  FenceInv'
  <2>1. {t} \in SUBSET Targets /\ Manual \in Workers \cup {Manual}
    OBVIOUS
  <2>2. QED
    BY <1>1, <1>3, <2>1, ClaimFence DEF ClaimNow
<1>4. CASE UNCHANGED vars
  <2>1. lease' = lease /\ task' = task
    BY <1>4 DEF vars
  <2>2. QED
    BY <1>1, <2>1, EndShrinks
<1>5. QED
  BY <1>1, <1>2, <1>3, <1>4, TaskStepFence, StopFence, EditFence, ClockTickFence DEF Next

LEMMA InitFence == Init => FenceInv
<1> SUFFICES ASSUME Init PROVE FenceInv
  OBVIOUS
<1>1. \A t \in Targets : lease[t].token = NoToken
  BY DEF Init, NoLease
<1>2. \A k \in Tokens : task[k].outrun = FALSE /\ k # NoToken
  BY DEF Init, IdleTask
<1>3. QED
  BY <1>1, <1>2, InitTypeInv
     DEF FenceInv, OneLeasePerToken, TokenOfItsTarget, OutrunHoldsNothing

TracelessStep ==
  \A k \in Tokens :
    task[k].outrun /\ task'[k].pc = "idle" =>
      UNCHANGED <<target, lease, attempt, health, history, offer>>

\* A check that an accepted answer outruns goes on running.
LEMMA OutrunGoesOn ==
  ASSUME TypeInv, NEW t, NEW j \in Tokens, NEW k \in Tokens, k # j,
         task' = Outrun(t, j)
  PROVE  task'[k].pc = task[k].pc
<1>1. task'[k] \in {task[k], [task[k] EXCEPT !.outrun = TRUE]}
  BY DEF Outrun
<1>2. task[k] \in TaskRow
  BY DEF TypeInv, TypeOK
<1>3. QED
  BY <1>1, <1>2 DEF TaskRow

\* A check without its lease can only be discarded.
LEMMA UnheldTaskStep ==
  ASSUME TypeInv, NEW j \in Tokens, TaskStep(j), ~Holds(j),
         task'[j].pc = "idle"
  PROVE  UNCHANGED <<target, lease, attempt, health, history, offer>>
<1>1. CASE BeginFetch(j)
  <2>1. task'[j].pc = "fetching"
    BY <1>1 DEF BeginFetch, TypeInv, TypeOK, TaskRow
  <2>2. QED
    BY <2>1
<1>2. CASE DeferBlocked(j)
  BY <1>2 DEF DeferBlocked
<1>3. CASE FailUnregistered(j)
  BY <1>3 DEF FailUnregistered, DiscardStale
<1>4. CASE \E o \in Outcomes : FetchFailed(j, o)
  BY <1>4 DEF FetchFailed, DiscardStale
<1>5. CASE \E f \in Fingerprints : FetchSucceeded(j, f)
  BY <1>5 DEF FetchSucceeded, DiscardStale
<1>6. QED
  BY <1>1, <1>2, <1>3, <1>4, <1>5 DEF TaskStep

\* One check's step ends no other check.
LEMMA OtherTaskRuns ==
  ASSUME TypeInv, NEW j \in Tokens, TaskStep(j), NEW k \in Tokens, k # j
  PROVE  task'[k].pc = task[k].pc
<1>1. ASSUME NEW t, task' = Outrun(t, j) PROVE task'[k].pc = task[k].pc
  BY <1>1, OutrunGoesOn
<1>2. ASSUME DiscardStale(j) PROVE task'[k].pc = task[k].pc
  BY <1>2 DEF DiscardStale, End, TypeInv, TypeOK
<1>3. CASE BeginFetch(j) \/ DeferBlocked(j)
  BY <1>3 DEF BeginFetch, DeferBlocked, End, TypeInv, TypeOK
<1>4. CASE FailUnregistered(j)
  BY <1>1, <1>2, <1>4 DEF FailUnregistered, FailTarget
<1>5. CASE \E o \in Outcomes : FetchFailed(j, o)
  BY <1>1, <1>2, <1>5 DEF FetchFailed, FailTarget
<1>6. CASE \E f \in Fingerprints : FetchSucceeded(j, f)
  BY <1>1, <1>2, <1>6 DEF FetchSucceeded
<1>7. QED
  BY <1>3, <1>4, <1>5, <1>6 DEF TaskStep

\* Neither a claim nor an edit nor the clock ends a check.
LEMMA OthersRunOn ==
  ASSUME TypeInv, NEW k \in Tokens, task[k].outrun,
         \/ \E w \in Workers, batch \in SUBSET Targets : ClaimDue(w, batch)
         \/ \E t \in Targets : ClaimNow(t)
         \/ \E t \in Targets, p \in Products : ReplaceSource(t, p)
         \/ \E t \in Targets :
              RestoreSource(t) \/ RemoveSource(t) \/ DisableDuplicate(t)
         \/ ClockTick
  PROVE  task'[k].pc = task[k].pc \/ task'[k].pc = "claimed"
<1>1. task[k] \in TaskRow
  BY DEF TypeInv, TypeOK
<1>2. ASSUME NEW w, NEW claim, ApplyClaim(w, claim)
      PROVE  task'[k].pc = task[k].pc \/ task'[k].pc = "claimed"
  BY <1>2 DEF ApplyClaim, IdleTask
<1>3. CASE \E w \in Workers, batch \in SUBSET Targets : ClaimDue(w, batch)
  BY <1>2, <1>3 DEF ClaimDue
<1>4. CASE \E t \in Targets : ClaimNow(t)
  BY <1>2, <1>4 DEF ClaimNow
<1>5. CASE \E t \in Targets, p \in Products : ReplaceSource(t, p)
  <2>1. task'[k] \in {task[k], [task[k] EXCEPT !.outrun = TRUE]}
    BY <1>5 DEF ReplaceSource, OutrunAll
  <2>2. QED
    BY <1>1, <2>1 DEF TaskRow
<1>6. CASE \E t \in Targets :
             RestoreSource(t) \/ RemoveSource(t) \/ DisableDuplicate(t)
  BY <1>6 DEF RestoreSource, RemoveSource, DisableDuplicate
<1>7. CASE ClockTick
  <2>1. task'[k] \in {task[k], [task[k] EXCEPT !.age = @ + 1]}
    BY <1>7 DEF ClockTick
  <2>2. QED
    BY <1>1, <2>1 DEF TaskRow
<1>8. QED
  BY <1>3, <1>4, <1>5, <1>6, <1>7

\* Fencing, for any number of schedulers, manual runs, targets and tokens, and
\* however long a check outlives its lease: one that a later accepted result
\* or a change of source has outrun ends without a trace (NoStaleOverwrite).
THEOREM StaleChecksAreFenced == Spec => NoStaleOverwrite
<1>1. FenceInv /\ [Next]_vars => [TracelessStep]_vars
  <2> SUFFICES ASSUME FenceInv, Next, NEW k \in Tokens,
                      task[k].outrun, task'[k].pc = "idle"
               PROVE  UNCHANGED <<target, lease, attempt, health, history, offer>>
    BY DEF TracelessStep
  <2>1. TypeInv /\ task[k].pc # "idle" /\ ~Holds(k)
    BY OutrunRuns DEF FenceInv, OutrunHoldsNothing
  <2>2. CASE \E j \in Tokens : TaskStep(j)
    BY <2>1, <2>2, OtherTaskRuns, UnheldTaskStep
  <2>3. CASE (\E j \in Tokens : Abandon(j)) \/ (\E w \in Workers : WorkerStop(w))
    BY <2>3 DEF Abandon, WorkerStop
  <2>4. QED
    BY <2>1, <2>2, <2>3, OthersRunOn DEF Next
<1>2. NoStaleOverwrite <=> [][TracelessStep]_vars
  BY DEF NoStaleOverwrite, TracelessStep
<1>3. QED
  BY <1>1, <1>2, InitFence, NextFence, PTL DEF Spec

\* A token stands on at most one lease, that of the target its check is for
\* (TokenNamesOneTarget): no answer can be booked on another target.
THEOREM TokensNameOneTarget == Spec => []TokenNamesOneTarget
<1>1. FenceInv => TokenNamesOneTarget
  BY DEF FenceInv, OneLeasePerToken, TokenOfItsTarget, TokenNamesOneTarget
<1>2. QED
  BY <1>1, InitFence, NextFence, PTL DEF Spec

-----------------------------------------------------------------------------
(***************************************************************************)
(* What one step does to the lease of one target.                          *)
(***************************************************************************)
Same(t) ==
  /\ lease'[t].token = lease[t].token
  /\ lease'[t].left = lease[t].left
  /\ attempt'[t] = attempt[t]

Aged(t) ==
  /\ lease'[t].token = lease[t].token
  /\ lease'[t].left = CountDown(lease[t].left, -1)
  /\ attempt'[t] = attempt[t]

Granted(t) ==
  /\ ~Leased(t)
  /\ lease'[t].token \in Tokens
  /\ \A u \in Targets : lease[u].token # lease'[t].token
  /\ lease'[t].left >= 0
  /\ attempt'[t] = attempt[t]

\* The check that holds the lease ends, with an accepted result or without.
Ended(t) ==
  /\ lease'[t].token = NoToken
  /\ lease'[t].left = -1
  /\ lease[t].token \in Tokens
  /\ task[lease[t].token].pc # "idle"
  /\ task'[lease[t].token] = IdleTask
  /\ attempt'[t] \in {attempt[t], lease[t].token}

\* An operator takes the source, and with it the lease, away.
Taken(t) ==
  /\ lease'[t].token = NoToken
  /\ lease'[t].left = -1
  /\ disruptions' # disruptions
  /\ attempt'[t] = attempt[t]

OneLeaseStep(t) == Same(t) \/ Aged(t) \/ Granted(t) \/ Ended(t) \/ Taken(t)

\* Lease and attempts are not written.
LEMMA LeasesUntouched ==
  ASSUME lease' = lease, attempt' = attempt, NEW t \in Targets
  PROVE  OneLeaseStep(t)
  BY DEF OneLeaseStep, Same

LEMMA ClearedLease ==
  ASSUME TypeInv, NEW t \in Targets, lease' = [lease EXCEPT ![t] = NoLease]
  PROVE  /\ lease'[t].token = NoToken /\ lease'[t].left = -1
         /\ \A u \in Targets : u # t => lease'[u] = lease[u]
  BY DEF TypeInv, TypeOK, NoLease

\* The check of token k clears the lease it holds.
LEMMA HolderEnds ==
  ASSUME TypeInv, NEW k \in Tokens, Holds(k),
         lease' = [lease EXCEPT ![task[k].target] = NoLease],
         task'[k] = IdleTask,
         \/ attempt' = attempt
         \/ attempt' = [attempt EXCEPT ![task[k].target] = k],
         NEW u \in Targets
  PROVE  OneLeaseStep(u)
<1> DEFINE t == task[k].target
<1>1. t \in Targets /\ lease[t].token = k /\ task[k].pc # "idle"
  BY RunningTask DEF Holds
<1>2. CASE u = t
  <2>1. lease'[t].token = NoToken /\ lease'[t].left = -1
    BY <1>1, ClearedLease
  <2>2. attempt'[t] \in {attempt[t], k}
    BY <1>1 DEF TypeInv, TypeOK
  <2> HIDE DEF t
  <2>3. Ended(t)
    BY <1>1, <2>1, <2>2 DEF Ended
  <2>4. QED
    BY <1>2, <2>3 DEF OneLeaseStep
<1>3. CASE u # t
  <2>1. lease'[u] = lease[u]
    BY <1>1, <1>3, ClearedLease
  <2>2. attempt'[u] = attempt[u]
    BY <1>3 DEF TypeInv, TypeOK
  <2>3. QED
    BY <2>1, <2>2 DEF OneLeaseStep, Same
<1>4. QED
  BY <1>2, <1>3

LEMMA TaskStepLease ==
  ASSUME TypeInv, NEW k \in Tokens, TaskStep(k), NEW u \in Targets
  PROVE  OneLeaseStep(u)
<1> DEFINE t == task[k].target
<1>1. CASE BeginFetch(k)
  BY <1>1, LeasesUntouched DEF BeginFetch
<1>2. ASSUME DiscardStale(k) PROVE OneLeaseStep(u)
  BY <1>2, LeasesUntouched DEF DiscardStale
<1>3. CASE DeferBlocked(k)
  <2>1. task'[k] = IdleTask /\ attempt' = attempt
    BY <1>3 DEF DeferBlocked, End, TypeInv, TypeOK
  <2>2. CASE Holds(k)
    BY <1>3, <2>1, <2>2, HolderEnds DEF DeferBlocked, Reschedule
  <2>3. CASE ~Holds(k)
    BY <1>3, <2>1, <2>3, LeasesUntouched DEF DeferBlocked
  <2>4. QED
    BY <2>2, <2>3
<1>4. ASSUME NEW due, NEW n, Holds(k), Reschedule(t, due, n), task' = Outrun(t, k),
             attempt' = [attempt EXCEPT ![t] = k]
      PROVE  OneLeaseStep(u)
  BY <1>4, HolderEnds DEF Reschedule, Outrun
<1>5. ASSUME Holds(k), FailTarget(t, k)
      PROVE  OneLeaseStep(u)
  BY <1>4, <1>5 DEF FailTarget
<1>6. CASE FailUnregistered(k)
  BY <1>2, <1>5, <1>6 DEF FailUnregistered
<1>7. CASE \E o \in Outcomes : FetchFailed(k, o)
  BY <1>2, <1>5, <1>7 DEF FetchFailed
<1>8. CASE \E f \in Fingerprints : FetchSucceeded(k, f)
  BY <1>2, <1>4, <1>8 DEF FetchSucceeded
<1>9. QED
  BY <1>1, <1>3, <1>6, <1>7, <1>8 DEF TaskStep

LEMMA EditLease ==
  ASSUME TypeInv, NEW t \in Targets, NEW u \in Targets,
         \/ \E p \in Products : ReplaceSource(t, p)
         \/ RestoreSource(t) \/ RemoveSource(t) \/ DisableDuplicate(t)
  PROVE  OneLeaseStep(u)
<1>1. CASE RestoreSource(t) \/ DisableDuplicate(t)
  BY <1>1, LeasesUntouched DEF RestoreSource, DisableDuplicate
<1>2. CASE (\E p \in Products : ReplaceSource(t, p)) \/ RemoveSource(t)
  <2>1. /\ lease' = [lease EXCEPT ![t] = NoLease] /\ attempt' = attempt
        /\ disruptions' # disruptions
    BY <1>2 DEF ReplaceSource, RemoveSource, Disrupt, TypeInv, TypeOK
  <2>2. QED
    BY <2>1, ClearedLease DEF OneLeaseStep, Taken, Same
<1>3. QED
  BY <1>1, <1>2

LEMMA ClockTickLease ==
  ASSUME TypeInv, ClockTick, NEW u \in Targets
  PROVE  OneLeaseStep(u)
<1>1. lease[u] \in LeaseRow
  BY DEF TypeInv, TypeOK
<1>2. lease'[u] = [lease[u] EXCEPT !.left = CountDown(lease[u].left, -1)]
  BY DEF ClockTick
<1>3. QED
  BY <1>1, <1>2 DEF ClockTick, OneLeaseStep, Aged, LeaseRow

LEMMA ClaimLease ==
  ASSUME TypeInv, NEW w, NEW batch \in SUBSET Targets,
         NEW claim \in [batch -> Tokens], ApplyClaim(w, claim),
         \A t \in batch : Claimable(t), NEW u \in Targets
  PROVE  OneLeaseStep(u)
<1>1. lease'[u] = IF u \in batch THEN [token |-> claim[u], left |-> LeaseSeconds]
                                  ELSE lease[u]
  BY DEF ApplyClaim
<1>2. attempt' = attempt
  BY DEF ApplyClaim
<1>3. CASE u \in batch
  <2>1. claim[u] \in Tokens /\ \A t \in Targets : lease[t].token # claim[u]
    BY <1>3 DEF ApplyClaim, Fresh
  <2>2. QED
    BY <1>1, <1>2, <1>3, <2>1 DEF OneLeaseStep, Granted, Claimable
<1>4. CASE u \notin batch
  BY <1>1, <1>2, <1>4 DEF OneLeaseStep, Same
<1>5. QED
  BY <1>3, <1>4

LEMMA LeaseSteps ==
  ASSUME TypeInv, [Next]_vars, NEW u \in Targets
  PROVE  OneLeaseStep(u)
<1>1. ASSUME NEW w \in Workers, NEW batch \in SUBSET Targets, ClaimDue(w, batch)
      PROVE  OneLeaseStep(u)
  BY <1>1, ClaimLease DEF ClaimDue
<1>2. ASSUME NEW t \in Targets, ClaimNow(t)
      PROVE  OneLeaseStep(u)
  <2>1. {t} \in SUBSET Targets /\ \A v \in {t} : Claimable(v)
    BY <1>2 DEF ClaimNow
  <2>2. QED
    BY <1>2, <2>1, ClaimLease DEF ClaimNow
<1>3. CASE (\E k \in Tokens : Abandon(k)) \/ (\E w \in Workers : WorkerStop(w))
  BY <1>3, LeasesUntouched DEF Abandon, WorkerStop
<1>4. CASE UNCHANGED vars
  BY <1>4, LeasesUntouched DEF vars
<1>5. QED
  BY <1>1, <1>2, <1>3, <1>4, TaskStepLease, EditLease, ClockTickLease DEF Next

\* No claim steals a live lease and no stale task releases it (LiveLeaseKept):
\* a live lease ends with its own check or by an operator.
LeaseKeptByStep ==
  \A t \in Targets :
    Leased(t) /\ lease'[t].token # lease[t].token =>
      \/ task[lease[t].token].pc # "idle" /\ task'[lease[t].token].pc = "idle"
      \/ disruptions' # disruptions

THEOREM LiveLeasesAreKept == Spec => LiveLeaseKept
<1>1. TypeInv /\ [Next]_vars => [LeaseKeptByStep]_vars
  <2> SUFFICES ASSUME TypeInv, [Next]_vars, NEW t \in Targets, Leased(t),
                      lease'[t].token # lease[t].token
               PROVE  \/ task[lease[t].token].pc # "idle"
                         /\ task'[lease[t].token].pc = "idle"
                      \/ disruptions' # disruptions
    BY DEF LeaseKeptByStep
  <2>1. OneLeaseStep(t)
    BY LeaseSteps
  <2>2. QED
    BY <2>1 DEF OneLeaseStep, Same, Aged, Granted, Ended, Taken, IdleTask
<1>2. LiveLeaseKept <=> [][LeaseKeptByStep]_vars
  BY DEF LiveLeaseKept, LeaseKeptByStep
<1>3. QED
  BY <1>1, <1>2, InitTypeInv, NextTypes, PTL DEF Spec

\* Every step of the lease columns and the attempts table is a step of the
\* abstract lease or leaves it alone (ImplementsFencedLease).
THEOREM LeasesImplementFencedLease == Spec => ImplementsFencedLease
<1>1. Init => Leases!LeaseInit
  BY DEF Init, NoLease, Leased, Leases!LeaseInit
<1>2. TypeInv /\ TypeInv' /\ [Next]_vars => [Leases!LeaseNext]_(Leases!leaseVars)
  <2> SUFFICES ASSUME TypeInv, TypeInv', [Next]_vars, NEW t \in Targets
               PROVE  \/ Leases!Keep(t) \/ Leases!Grant(t) \/ Leases!Expire(t)
                      \/ Leases!Deliver(t) \/ Leases!Release(t)
    BY DEF Leases!LeaseNext
  <2>1. OneLeaseStep(t)
    BY LeaseSteps
  <2>2. lease[t] \in LeaseRow /\ attempt[t] \in Tokens \cup {NoToken}
    BY DEF TypeInv, TypeOK
  <2>3. CASE Same(t)
    BY <2>3 DEF Same, Leased, Leases!Keep
  <2>4. CASE Aged(t)
    BY <2>2, <2>4 DEF Aged, Leased, CountDown, LeaseRow, Leases!Keep, Leases!Expire
  <2>5. CASE Granted(t)
    BY <2>5 DEF Granted, Leased, Leases!Grant
  <2>6. CASE Ended(t)
    BY <2>6 DEF Ended, Leased, Leases!Deliver, Leases!Release
  <2>7. CASE Taken(t)
    BY <2>7 DEF Taken, Leased, Leases!Release
  <2>8. QED
    BY <2>1, <2>3, <2>4, <2>5, <2>6, <2>7 DEF OneLeaseStep
<1>3. QED
  BY <1>1, <1>2, InitTypeInv, NextTypes, PTL
     DEF Spec, ImplementsFencedLease, Leases!LeaseSpec

-----------------------------------------------------------------------------
(***************************************************************************)
(* A check that may deliver fetches the source bound to its target now.    *)
(***************************************************************************)
SourceInv == TypeInv /\ FetchesBoundSource

\* Leases shrink or stay, no check starts, and a target that is given another
\* source loses its lease: the invariant stays.
LEMMA ShrinkPreservesSource ==
  ASSUME SourceInv, TypeInv',
         \A t \in Targets : \/ lease'[t].token = lease[t].token
                            \/ lease'[t].token = NoToken,
         \A t \in Targets : \/ target'[t].source = target[t].source
                            \/ lease'[t].token = NoToken,
         \A k \in Tokens : \/ task'[k] = IdleTask
                           \/ /\ task'[k].pc = task[k].pc
                              /\ task'[k].target = task[k].target
                              /\ task'[k].product = task[k].product
  PROVE  SourceInv'
<1> SUFFICES ASSUME NEW k \in Tokens, task'[k].pc = "fetching",
                    lease'[task'[k].target].token = k
             PROVE  task'[k].product = target'[task'[k].target].source
  BY DEF SourceInv, FetchesBoundSource, Holds, SourceOf
<1>1. task'[k] # IdleTask /\ k # NoToken
  BY DEF IdleTask
<1>2. /\ task[k].pc = "fetching" /\ task'[k].target = task[k].target
      /\ task'[k].product = task[k].product
  BY <1>1
<1>3. task[k].target \in Targets
  BY <1>2, RunningTask DEF SourceInv
<1>4. /\ lease[task[k].target].token = k
      /\ target'[task[k].target].source = target[task[k].target].source
  BY <1>1, <1>2, <1>3
<1>5. QED
  BY <1>2, <1>4 DEF SourceInv, FetchesBoundSource, Holds, SourceOf

\* A result accepted for t, or t deferred: sources and checks stay.
LEMMA AcceptSource ==
  ASSUME SourceInv, TypeInv', NEW t \in Targets, NEW k \in Tokens, NEW due, NEW n,
         Reschedule(t, due, n), task' = Outrun(t, k)
  PROVE  SourceInv'
<1>1. target \in [Targets -> TargetRow] /\ lease \in [Targets -> LeaseRow]
  BY DEF SourceInv, TypeInv, TypeOK
<1>2. \A u \in Targets : target'[u].source = target[u].source
  BY <1>1 DEF Reschedule, TargetRow
<1>3. \A u \in Targets : \/ lease'[u].token = lease[u].token
                         \/ lease'[u].token = NoToken
  BY <1>1 DEF Reschedule, NoLease
<1>4. ASSUME NEW j \in Tokens, task'[j] # IdleTask
      PROVE  /\ task'[j].pc = task[j].pc /\ task'[j].target = task[j].target
             /\ task'[j].product = task[j].product
  <2>1. task[j] \in TaskRow
    BY DEF SourceInv, TypeInv, TypeOK
  <2>2. QED
    BY <1>4, <2>1 DEF Outrun, TaskRow
<1>5. QED
  BY <1>2, <1>3, <1>4, ShrinkPreservesSource

LEMMA DiscardSource ==
  ASSUME SourceInv, TypeInv', NEW k \in Tokens, DiscardStale(k)
  PROVE  SourceInv'
<1>1. \A j \in Tokens : task'[j] = IdleTask \/ task'[j] = task[j]
  BY DEF DiscardStale, End, SourceInv, TypeInv, TypeOK
<1>2. QED
  BY <1>1, ShrinkPreservesSource DEF DiscardStale

LEMMA BeginFetchSource ==
  ASSUME SourceInv, TypeInv', NEW k \in Tokens, BeginFetch(k)
  PROVE  SourceInv'
<1>1. task \in [Tokens -> TaskRow] /\ lease' = lease /\ target' = target
  BY DEF BeginFetch, SourceInv, TypeInv, TypeOK
<1>2. \A j \in Tokens : j # k => task'[j] = task[j]
  BY <1>1 DEF BeginFetch
<1>3. task'[k].product = SourceOf(k) /\ task'[k].target = task[k].target
  BY <1>1 DEF BeginFetch, TaskRow
<1>4. QED
  BY <1>1, <1>2, <1>3 DEF SourceInv, FetchesBoundSource, Holds, SourceOf

LEMMA TaskStepSource ==
  ASSUME SourceInv, TypeInv', NEW k \in Tokens, TaskStep(k)
  PROVE  SourceInv'
<1> DEFINE t == task[k].target
<1>1. CASE DeferBlocked(k)
  <2>1. t \in Targets
    BY <1>1, RunningTask DEF DeferBlocked, Starting, SourceInv
  <2>2. \A j \in Tokens : task'[j] = IdleTask \/ task'[j] = task[j]
    BY <1>1 DEF DeferBlocked, End, SourceInv, TypeInv, TypeOK
  <2>3. CASE Holds(k)
    <3>1. PICK due, n : Reschedule(t, due, n)
      BY <1>1, <2>3 DEF DeferBlocked
    <3>2. target \in [Targets -> TargetRow] /\ lease \in [Targets -> LeaseRow]
      BY DEF SourceInv, TypeInv, TypeOK
    <3> HIDE DEF t
    <3>3. \A u \in Targets : target'[u].source = target[u].source
      BY <2>1, <3>1, <3>2 DEF Reschedule, TargetRow
    <3>4. \A u \in Targets : \/ lease'[u].token = lease[u].token
                             \/ lease'[u].token = NoToken
      BY <2>1, <3>1, <3>2 DEF Reschedule, NoLease
    <3>5. QED
      BY <2>2, <3>3, <3>4, ShrinkPreservesSource
  <2>4. CASE ~Holds(k)
    BY <1>1, <2>2, <2>4, ShrinkPreservesSource DEF DeferBlocked
  <2>5. QED
    BY <2>3, <2>4
<1>2. ASSUME FailTarget(t, k), t \in Targets
      PROVE  SourceInv'
  BY <1>2, AcceptSource DEF FailTarget
<1>3. CASE FailUnregistered(k)
  BY <1>2, <1>3, DiscardSource, RunningTask DEF FailUnregistered, Starting, SourceInv
<1>4. CASE \E o \in Outcomes : FetchFailed(k, o)
  BY <1>2, <1>4, DiscardSource, RunningTask DEF FetchFailed, SourceInv
<1>5. CASE \E f \in Fingerprints : FetchSucceeded(k, f)
  BY <1>5, AcceptSource, DiscardSource, RunningTask DEF FetchSucceeded, SourceInv
<1>6. QED
  BY <1>1, <1>3, <1>4, <1>5, BeginFetchSource DEF TaskStep

LEMMA EditSource ==
  ASSUME SourceInv, TypeInv', NEW t \in Targets,
         \/ \E p \in Products : ReplaceSource(t, p)
         \/ RestoreSource(t) \/ RemoveSource(t) \/ DisableDuplicate(t)
  PROVE  SourceInv'
<1>1. /\ target \in [Targets -> TargetRow] /\ lease \in [Targets -> LeaseRow]
      /\ NoLease.token = NoToken
  BY DEF SourceInv, TypeInv, TypeOK, NoLease
<1>2. CASE \E p \in Products : ReplaceSource(t, p)
  <2>1. /\ lease' = [lease EXCEPT ![t] = NoLease] /\ task' = OutrunAll(t)
        /\ \A u \in Targets : u # t => target'[u] = target[u]
    BY <1>1, <1>2 DEF ReplaceSource
  <2>2. \A u \in Targets : lease'[u].token = IF u = t THEN NoToken ELSE lease[u].token
    BY <1>1, <2>1
  <2>3. ASSUME NEW j \in Tokens
        PROVE  /\ task'[j].pc = task[j].pc /\ task'[j].target = task[j].target
               /\ task'[j].product = task[j].product
    <3>1. task[j] \in TaskRow
      BY DEF SourceInv, TypeInv, TypeOK
    <3>2. QED
      BY <2>1, <3>1 DEF OutrunAll, TaskRow
  <2>4. QED
    BY <2>1, <2>2, <2>3, ShrinkPreservesSource
<1>3. CASE RestoreSource(t) \/ RemoveSource(t) \/ DisableDuplicate(t)
  <2>1. \A u \in Targets : target'[u].source = target[u].source
    <3>1. CASE RestoreSource(t)
      <4>1. target' = [target EXCEPT ![t].status = "active", ![t].due = 0]
        BY <3>1 DEF RestoreSource
      <4>2. QED
        BY <1>1, <4>1 DEF TargetRow
    <3>2. CASE RemoveSource(t) \/ DisableDuplicate(t)
      <4>1. target' = [target EXCEPT ![t].status = "disabled"]
        BY <3>2 DEF RemoveSource, DisableDuplicate
      <4>2. QED
        BY <1>1, <4>1 DEF TargetRow
    <3>3. QED
      BY <1>3, <3>1, <3>2
  <2>2. lease' = lease \/ lease' = [lease EXCEPT ![t] = NoLease]
    BY <1>3 DEF RestoreSource, RemoveSource, DisableDuplicate
  <2>3. \A u \in Targets : \/ lease'[u].token = lease[u].token
                           \/ lease'[u].token = NoToken
    BY <1>1, <2>2
  <2>4. task' = task
    BY <1>3 DEF RestoreSource, RemoveSource, DisableDuplicate
  <2>5. QED
    BY <2>1, <2>3, <2>4, ShrinkPreservesSource
<1>4. QED
  BY <1>2, <1>3

LEMMA ClockTickSource ==
  ASSUME SourceInv, TypeInv', ClockTick
  PROVE  SourceInv'
<1>1. \A t \in Targets : lease'[t].token = lease[t].token
  BY DEF ClockTick, SourceInv, TypeInv, TypeOK, LeaseRow
<1>2. \A t \in Targets : target'[t].source = target[t].source
  BY DEF ClockTick, SourceInv, TypeInv, TypeOK, TargetRow
<1>3. ASSUME NEW k \in Tokens
      PROVE  /\ task'[k].pc = task[k].pc /\ task'[k].target = task[k].target
             /\ task'[k].product = task[k].product
  <2>1. task[k] \in TaskRow
    BY DEF SourceInv, TypeInv, TypeOK
  <2>2. QED
    BY <2>1 DEF ClockTick, TaskRow
<1>4. QED
  BY <1>1, <1>2, <1>3, ShrinkPreservesSource

\* A claimed check has not begun to fetch, and no fetching check's token is
\* fresh, so a claim touches no check that fetches.
LEMMA ClaimSource ==
  ASSUME SourceInv, TypeInv', NEW w, NEW batch \in SUBSET Targets,
         NEW claim \in [batch -> Tokens], ApplyClaim(w, claim)
  PROVE  SourceInv'
<1> SUFFICES ASSUME NEW k \in Tokens, task'[k].pc = "fetching",
                    lease'[task'[k].target].token = k
             PROVE  task'[k].product = target'[task'[k].target].source
  BY DEF SourceInv, FetchesBoundSource, Holds, SourceOf
<1>1. \A t \in batch : claim[t] # k
  <2> SUFFICES ASSUME \E t \in batch : claim[t] = k PROVE FALSE
    OBVIOUS
  <2> DEFINE u == CHOOSE t \in DOMAIN claim : claim[t] = k
  <2>1. task'[k] = [IdleTask EXCEPT !.pc = "claimed", !.owner = w, !.target = u]
    BY DEF ApplyClaim
  <2> HIDE DEF u
  <2>2. task'[k].pc = "claimed"
    BY <2>1 DEF IdleTask
  <2>3. QED
    BY <2>2
<1>2. task'[k] = task[k] /\ target' = target
  BY <1>1 DEF ApplyClaim
<1>3. task[k].target \in Targets
  BY <1>2, RunningTask DEF SourceInv
<1>4. lease[task[k].target].token = k
  <2>1. lease'[task[k].target].token =
          IF task[k].target \in batch THEN claim[task[k].target]
                                      ELSE lease[task[k].target].token
    BY <1>3 DEF ApplyClaim
  <2>2. QED
    BY <1>1, <1>2, <2>1
<1>5. QED
  BY <1>2, <1>4 DEF SourceInv, FetchesBoundSource, Holds, SourceOf

LEMMA NextSource == SourceInv /\ [Next]_vars => SourceInv'
<1> SUFFICES ASSUME SourceInv, [Next]_vars PROVE SourceInv'
  OBVIOUS
<1>1. TypeInv'
  BY NextTypes DEF SourceInv
<1>2. ASSUME NEW w \in Workers, NEW batch \in SUBSET Targets, ClaimDue(w, batch)
      PROVE  SourceInv'
  BY <1>1, <1>2, ClaimSource DEF ClaimDue
<1>3. ASSUME NEW t \in Targets, ClaimNow(t)
      PROVE  SourceInv'
  <2>1. {t} \in SUBSET Targets
    OBVIOUS
  <2>2. QED
    BY <1>1, <1>3, <2>1, ClaimSource DEF ClaimNow
<1>4. CASE (\E k \in Tokens : Abandon(k)) \/ (\E w \in Workers : WorkerStop(w))
  <2>1. \A k \in Tokens : task'[k] = IdleTask \/ task'[k] = task[k]
    BY <1>4 DEF Abandon, WorkerStop, End, SourceInv, TypeInv, TypeOK
  <2>2. lease' = lease /\ target' = target
    BY <1>4 DEF Abandon, WorkerStop
  <2>3. QED
    BY <1>1, <2>1, <2>2, ShrinkPreservesSource
<1>5. CASE UNCHANGED vars
  <2>1. lease' = lease /\ task' = task /\ target' = target
    BY <1>5 DEF vars
  <2>2. QED
    BY <1>1, <2>1, ShrinkPreservesSource
<1>6. QED
  BY <1>1, <1>2, <1>3, <1>4, <1>5, TaskStepSource, EditSource, ClockTickSource
     DEF Next

\* A check that can still deliver fetches the source bound to its target now,
\* whatever was replaced or claimed while it ran (FetchesBoundSource): that
\* update_manual_supplier_binding clears the lease is enough.
THEOREM ChecksFetchTheBoundSource == Spec => []FetchesBoundSource
<1>1. Init => SourceInv
  BY InitTypeInv DEF Init, IdleTask, SourceInv, FetchesBoundSource
<1>2. SourceInv => FetchesBoundSource
  BY DEF SourceInv
<1>3. QED
  BY <1>1, <1>2, NextSource, PTL DEF Spec
=============================================================================
