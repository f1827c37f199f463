---------------------------- MODULE BrowserQueue ----------------------------
(***************************************************************************)
(* Supplier checks made by the local HTTP agent: the monitor targets that  *)
(* become due, the dispatcher that puts them into browser_agent_jobs, the  *)
(* claims and results of the agent's workers, the agent's pause to renew   *)
(* its Ozon session, and the operator who adds, replaces and removes the   *)
(* sources of a product while all this is going on.                        *)
(*                                                                         *)
(* A terminal row of the job table is never looked at again, so jobs keeps *)
(* the queued and the leased rows only, in the order of their ids.  What a *)
(* result does to the offer and to the health of its source is the subject *)
(* of MonitorScheduler.                                                    *)
(***************************************************************************)
EXTENDS Naturals, Sequences, FiniteSets, SequencesExt

CONSTANTS
  Targets,       \* monitor_targets rows, the sources of one product
  Sources,       \* supplier products, each with its own identity
  NoSource,
  Ozon,          \* the sources of the supplier the dispatcher serves
  InitialSource, \* [Targets -> Sources \union {NoSource}]
  NoTarget,      \* NULL monitor_target_id
  Direct,        \* the sources POST /browser-agent/jobs is called with
  Workers,       \* tasks of the agent process
  Tokens,        \* lease tokens, numbered; enough that a fresh one always exists
  NoToken,
  MaxAsks,       \* bound: requests of the operator
  MaxMishaps     \* bound: lost answers, crashes, overrun leases

ASSUME BrowserConstants ==
  /\ Ozon \subseteq Sources /\ Direct \subseteq Sources
  /\ NoSource \notin Sources /\ NoTarget \notin Targets /\ NoToken \notin Tokens
  /\ Tokens \subseteq Nat
  /\ InitialSource \in [Targets -> Sources \union {NoSource}]
  /\ IsFiniteSet(Targets) /\ MaxAsks \in Nat /\ MaxMishaps \in Nat

VARIABLES
  target,        \* the target rows with the source their binding names
  jobs,          \* unfinished browser_agent_jobs, oldest first
  snap,          \* what the statement of a running dispatch has seen
  work,          \* what each worker is doing
  agent,         \* the agent process
  asks, mishaps

vars == <<target, jobs, snap, work, agent, asks, mishaps>>

\* result: the source that was looked at last; failed: consecutive_failures > 0.
Row == [status : {"none", "active", "disabled"}, src : Sources \union {NoSource},
        due : BOOLEAN, result : Sources \union {NoSource}, failed : BOOLEAN]

\* `late` is history only: queued by POST /jobs for a target already disabled.
Job == [target : Targets \union {NoTarget}, src : Sources, token : Tokens \union {NoToken},
        live : BOOLEAN, late : BOOLEAN]
Queued(j) == j.token = NoToken

Seen == [target : Targets, src : Sources]

Idle == [step |-> "idle", token |-> NoToken, src |-> NoSource]
Work == [step : {"idle", "asking", "holding", "returned"}, token : Tokens \union {NoToken},
         src : Sources \union {NoSource}]

TypeOK ==
  /\ target \in [Targets -> Row]
  /\ jobs \in Seq(Job)
  /\ \A i \in DOMAIN jobs : jobs[i].live => ~Queued(jobs[i])
  /\ snap.open \in BOOLEAN /\ snap.rows \subseteq Seen
  /\ work \in [Workers -> Work]
  /\ \A w, v \in Workers : w # v /\ work[w].token = work[v].token => work[w].token = NoToken
  /\ agent \in {"up", "stopping", "renewing", "down"}
  /\ asks \in 0 .. MaxAsks /\ mishaps \in 0 .. MaxMishaps

Bound(t) == IF InitialSource[t] = NoSource THEN "none" ELSE "active"
Closed == [open |-> FALSE, rows |-> {}]
Init ==
  /\ target = [t \in Targets |-> [status |-> Bound(t), src |-> InitialSource[t],
                                  due |-> Bound(t) = "active", result |-> NoSource,
                                  failed |-> FALSE]]
  /\ jobs = <<>> /\ snap = Closed
  /\ work = [w \in Workers |-> Idle] /\ agent = "up"
  /\ asks = 0 /\ mishaps = 0

--------------------------------------------------------------------------
(* The queue. *)

HasJob(t) == \E i \in DOMAIN jobs : jobs[i].target = t
NewJob(t, s) == [target |-> t, src |-> s, token |-> NoToken, live |-> FALSE, late |-> FALSE]

Wanted(t) == target[t].status = "active" /\ target[t].due

\* queue_browser_target_now on the queue q, for a target that is active on
\* source s: an unfinished job of the target is used again.
QueuedNow(q, t, s) ==
  IF \E i \in DOMAIN q : q[i].target = t THEN q ELSE Append(q, NewJob(t, s))

\* next_check_at has come.
ComesDue(t) ==
  /\ target[t].status = "active" /\ ~target[t].due
  /\ target' = [target EXCEPT ![t].due = TRUE]
  /\ UNCHANGED <<jobs, snap, work, agent, asks, mishaps>>

\* POST /dispatch-due: the statement joins targets, bindings and jobs as they
\* are when it starts ...
StartDispatch ==
  /\ agent = "up" /\ ~snap.open
  /\ LET rows == {t \in Targets : Wanted(t) /\ target[t].src \in Ozon /\ ~HasJob(t)}
     IN  rows # {} /\ snap' = [open |-> TRUE, rows |-> {[target |-> t, src |-> target[t].src] : t \in rows}]
  /\ UNCHANGED <<target, jobs, work, agent, asks, mishaps>>

\* ... and locks the target rows one by one.  Only a target row that has
\* changed meanwhile is looked at again; the joined source and the absence of
\* a job stay as they were seen.  A row whose source was replaced meanwhile
\* has a later next_check_at, which the dispatcher's own time may not reach.
StillWanted == {e \in snap.rows : Wanted(e.target)}
EndDispatch ==
  /\ snap.open
  /\ \E chosen \in SUBSET StillWanted :
       /\ {e \in StillWanted : e.src = target[e.target].src} \subseteq chosen
       /\ \E order \in SetToSeqs(chosen) :
            jobs' = jobs \o [i \in DOMAIN order |-> NewJob(order[i].target, order[i].src)]
  /\ snap' = Closed
  /\ UNCHANGED <<target, work, agent, asks, mishaps>>

\* POST /monitor-targets/{id}/queue-browser-agent
QueueNow(t) ==
  /\ asks < MaxAsks /\ target[t].status = "active" /\ target[t].src \in Ozon /\ ~HasJob(t)
  /\ jobs' = QueuedNow(jobs, t, target[t].src)
  /\ asks' = asks + 1
  /\ UNCHANGED <<target, snap, work, agent, mishaps>>

\* POST /browser-agent/jobs takes any supplier product for a target, or none;
\* of the target it asks only that it exists.
CreateJob ==
  /\ asks < MaxAsks
  /\ \E s \in Direct, t \in {u \in Targets : target[u].status # "none"} \union {NoTarget} :
       jobs' = Append(jobs, [NewJob(t, s) EXCEPT
                               !.late = t # NoTarget /\ target[t].status = "disabled"])
  /\ asks' = asks + 1
  /\ UNCHANGED <<target, snap, work, agent, mishaps>>

--------------------------------------------------------------------------
(* The workers of the agent. *)

\* secrets.token_hex: a token nobody has.  Which one makes no difference, so
\* the least is taken.
Unused == Tokens \ ({jobs[i].token : i \in DOMAIN jobs} \union {work[w].token : w \in Workers})
Free == {k \in Unused : \A h \in Unused : k <= h}

\* A worker's loop starts a turn unless a session refresh is called for.
Ask(w) ==
  /\ agent = "up" /\ work[w].step = "idle"
  /\ work' = [work EXCEPT ![w].step = "asking"]
  /\ UNCHANGED <<target, jobs, snap, agent, asks, mishaps>>

Expired(j) == ~Queued(j) /\ ~j.live
Waiting == {i \in DOMAIN jobs : Queued(jobs[i])}
Oldest(rows) == {i \in rows : \A k \in rows : i <= k}
\* Variant: only queued jobs are handed out.
ClaimableQueued == Oldest(Waiting)
Claimable == IF Waiting # {} THEN Oldest(Waiting)
             ELSE Oldest({i \in DOMAIN jobs : Expired(jobs[i])})

\* POST /claim; the answer may be lost on its way back.
Claim(w) ==
  /\ work[w].step = "asking"
  /\ \E i \in Claimable, k \in Free, lost \in BOOLEAN :
       /\ jobs' = [jobs EXCEPT ![i].token = k, ![i].live = TRUE]
       /\ work' = [work EXCEPT ![w] = IF lost THEN Idle
                                      ELSE [step |-> "holding", token |-> k, src |-> jobs[i].src]]
       /\ lost => mishaps < MaxMishaps
       /\ mishaps' = IF lost THEN mishaps + 1 ELSE mishaps
  /\ UNCHANGED <<target, snap, agent, asks>>

\* An empty queue, another claim in progress, or a failed request.
NothingToDo(w) ==
  /\ work[w].step = "asking" /\ (Claimable = {} \/ agent # "up")
  /\ work' = [work EXCEPT ![w] = Idle]
  /\ UNCHANGED <<target, jobs, snap, agent, asks, mishaps>>

\* The 180 seconds of a lease pass.  A worker that holds it gives up after 45
\* seconds of fetching: it overruns only when its computer or network stalls.
Lapse(i) ==
  /\ i \in DOMAIN jobs /\ jobs[i].live
  /\ IF \E w \in Workers : work[w].token = jobs[i].token
     THEN mishaps < MaxMishaps /\ mishaps' = mishaps + 1
     ELSE UNCHANGED mishaps
  /\ jobs' = [jobs EXCEPT ![i].live = FALSE]
  /\ UNCHANGED <<target, snap, work, agent, asks>>

\* complete_browser_agent_job: the lease on record must be this one, and live.
LeaseHolds(k) == {i \in DOMAIN jobs : jobs[i].token = k /\ jobs[i].live}
\* Variant: the target is looked up by its id alone.
MatchesAny(j) == TRUE
\* persist_browser_agent_success: the job's source must be the target's.
Matches(j) == j.target = NoTarget \/ target[j.target].src = j.src

Recorded(t, s) ==
  target' = IF t = NoTarget THEN target
            ELSE [target EXCEPT ![t].due = FALSE, ![t].result = s, ![t].failed = FALSE]

\* The page was read (out of stock counts as read).  A refused result, 409 or
\* 422, is only logged by the worker.
Succeed(w) ==
  /\ work[w].step = "holding" /\ work[w].src \in Ozon
  /\ LET is == {i \in LeaseHolds(work[w].token) : Matches(jobs[i])}
     IN  IF is = {} THEN UNCHANGED <<target, jobs>>
         ELSE \E i \in is : Recorded(jobs[i].target, jobs[i].src) /\ jobs' = RemoveAt(jobs, i)
  /\ work' = [work EXCEPT ![w] = Idle]
  /\ UNCHANGED <<snap, agent, asks, mishaps>>

\* Any failure, also of a host without an adapter, is recorded on the target,
\* which is tried again later; persist_browser_agent_failure asks for no match,
\* so the source looked at may be one the target does not have.  The code of
\* a dead Ozon session makes the process stop once CRM has taken the report.
Fail(w) ==
  /\ work[w].step = "holding"
  /\ LET is == LeaseHolds(work[w].token)
     IN  \/ is = {} /\ UNCHANGED <<target, jobs, agent>>
         \/ \E i \in is, session \in BOOLEAN :
              /\ target' = IF jobs[i].target = NoTarget THEN target
                           ELSE [target EXCEPT ![jobs[i].target].due = FALSE,
                                               ![jobs[i].target].result = jobs[i].src,
                                               ![jobs[i].target].failed = TRUE]
              /\ jobs' = RemoveAt(jobs, i)
              /\ session => work[w].src \in Ozon
              /\ agent' = IF session THEN "stopping" ELSE agent
  /\ work' = [work EXCEPT ![w] = Idle]
  /\ UNCHANGED <<snap, asks, mishaps>>

\* The report does not reach CRM.
LoseReport(w) ==
  /\ work[w].step = "holding" /\ mishaps < MaxMishaps
  /\ work' = [work EXCEPT ![w] = Idle]
  /\ mishaps' = mishaps + 1
  /\ UNCHANGED <<target, jobs, snap, agent, asks>>

\* A refresh is called for: each worker ends its turn, then the operator is
\* asked for a new session and the loops start again.
Return(w) ==
  /\ agent = "stopping" /\ work[w].step = "idle"
  /\ work' = [work EXCEPT ![w].step = "returned"]
  /\ UNCHANGED <<target, jobs, snap, agent, asks, mishaps>>

Drained == \A w \in Workers : work[w].step = "returned"

BeginRenewal ==
  /\ agent = "stopping" /\ Drained
  /\ agent' = "renewing" /\ work' = [w \in Workers |-> Idle]
  /\ UNCHANGED <<target, jobs, snap, asks, mishaps>>

Renew ==
  /\ agent = "renewing"
  /\ agent' = "up"
  /\ UNCHANGED <<target, jobs, snap, work, asks, mishaps>>

Crash ==
  /\ agent # "down" /\ mishaps < MaxMishaps
  /\ agent' = "down" /\ work' = [w \in Workers |-> Idle]
  /\ mishaps' = mishaps + 1
  /\ UNCHANGED <<target, jobs, snap, asks>>

Relaunch ==
  /\ agent = "down"
  /\ agent' = "up"
  /\ UNCHANGED <<target, jobs, snap, work, asks, mishaps>>

--------------------------------------------------------------------------
(* The operator edits the sources of the product. *)

Taken(t, s) == \E u \in Targets \ {t} : target[u].src = s

\* attach_manual_supplier_binding: a new source, or one that was removed.
AttachSource(t, s, check) ==
  /\ asks < MaxAsks /\ ~Taken(t, s) /\ target[t].src \in {s, NoSource}
  /\ target' = [target EXCEPT ![t].status = "active", ![t].src = s, ![t].due = TRUE]
  /\ jobs' = IF check THEN QueuedNow(jobs, t, s) ELSE jobs
  /\ asks' = asks + 1
  /\ UNCHANGED <<snap, work, agent, mishaps>>

\* The elements of q at the positions kept, in their order.
Kept(q, kept) ==
  [k \in 1 .. Cardinality(kept) |-> q[CHOOSE i \in kept : Cardinality({h \in kept : h <= i}) = k]]

\* _cancel_stale_browser_jobs
\* Variant: only what no worker has claimed is cancelled.
StaleUnclaimed(j, t, s) == j.target = t /\ j.src # s /\ Queued(j)
Stale(j, t, s) == j.target = t /\ j.src # s
WithoutStale(t, s) == Kept(jobs, {i \in DOMAIN jobs : ~Stale(jobs[i], t, s)})

\* update_manual_supplier_binding
ReplaceSource(t, s, check) ==
  /\ asks < MaxAsks /\ target[t].src # NoSource /\ ~Taken(t, s)
  /\ target' = [target EXCEPT ![t].status = "active", ![t].src = s, ![t].due = TRUE,
                              ![t].result = IF target[t].src = s THEN @ ELSE NoSource,
                              ![t].failed = target[t].src = s /\ @]
  /\ jobs' = IF check THEN QueuedNow(WithoutStale(t, s), t, s) ELSE WithoutStale(t, s)
  /\ asks' = asks + 1
  /\ UNCHANGED <<snap, work, agent, mishaps>>

\* remove_supplier_binding
RemoveSource(t) ==
  /\ asks < MaxAsks /\ target[t].src # NoSource
  /\ target' = [target EXCEPT ![t].status = "disabled"]
  /\ jobs' = WithoutStale(t, NoSource)
  /\ asks' = asks + 1
  /\ UNCHANGED <<snap, work, agent, mishaps>>

--------------------------------------------------------------------------
Next ==
  \/ \E t \in Targets : ComesDue(t) \/ QueueNow(t) \/ RemoveSource(t)
  \/ \E t \in Targets, s \in Sources, check \in BOOLEAN : AttachSource(t, s, check) \/ ReplaceSource(t, s, check)
  \/ StartDispatch \/ EndDispatch \/ CreateJob
  \/ \E w \in Workers : Ask(w) \/ Claim(w) \/ NothingToDo(w) \/ Succeed(w) \/ Fail(w) \/ LoseReport(w) \/ Return(w)
  \/ \E i \in DOMAIN jobs : Lapse(i)
  \/ BeginRenewal \/ Renew \/ Crash \/ Relaunch

Spec == Init /\ [][Next]_vars

\* The loops of the agent run, the user renews its session and starts it after
\* a crash, and leases run out.  The polls every few seconds find the queue
\* empty again and again, a target being due once in five minutes, and then
\* reach every expired lease.  An operator's request adds at most one job, a
\* dispatch one for a target that had none.
AskEmptyQueue == \E w \in Workers : Ask(w) /\ Waiting = {}
OrphanLapses(i) == UNCHANGED mishaps /\ Lapse(i)
ClaimOf(i) == \E w \in Workers : Claim(w) /\ i \in DOMAIN jobs /\ jobs'[i].token # jobs[i].token
MaxJobs == MaxAsks + Cardinality(Targets)
Fairness ==
  /\ WF_vars(StartDispatch \/ EndDispatch)
  /\ \A w \in Workers : WF_vars(Ask(w) \/ NothingToDo(w) \/ Succeed(w) \/ Fail(w) \/ Return(w))
  /\ \A i \in 1 .. MaxJobs : WF_vars(OrphanLapses(i)) /\ SF_vars(ClaimOf(i))
  /\ SF_vars(AskEmptyQueue)
  /\ WF_vars(BeginRenewal \/ Renew \/ Relaunch)
FairSpec == Spec /\ Fairness

--------------------------------------------------------------------------
(* Properties. *)

\* A source that was removed from the product is left alone: no job for it
\* waits or runs, whatever a dispatch that began earlier had seen, but one that
\* POST /jobs has named it for since.
RemovedIsLeftAlone ==
  \A t \in Targets : target[t].status = "disabled" =>
    \A i \in DOMAIN jobs : jobs[i].target = t => jobs[i].late

\* A check that succeeded is one of the source the target has now: an offer of a
\* replaced source, however late it comes, is never recorded as the target's
\* check.  A failure is, whatever source it is of.
CheckedOnItsSource ==
  \A t \in Targets : target[t].failed \/ target[t].result \in {NoSource, target[t].src}

\* A due target of the dispatched supplier is checked, or paused, unless a job
\* that CRM refuses answers for stands in its way.
NeedsCheck(t) == Wanted(t) /\ target[t].src \in Ozon
KeepsBeingChecked ==
  \A t \in Targets :
    NeedsCheck(t) ~> (~NeedsCheck(t) \/ \E i \in DOMAIN jobs : ~Matches(jobs[i]))

\* "Technical failures must never make a supplier card disappear from regular
\* monitoring" (browser_agent_failure.py:49-50).
NeverDisappears == \A t \in Targets : NeedsCheck(t) ~> ~NeedsCheck(t)
=============================================================================
