------------------------- MODULE FastDumpingProofs -------------------------
(***************************************************************************)
(* Proofs about FastDumping, for any jobs, requests, markets, supplier     *)
(* offers and limits.                                                      *)
(*                                                                         *)
(* First, for every behaviour: types, and that a write handed to the agent *)
(* fits the warehouse and the supplier of its moment. FastInv strengthens  *)
(* TypeOK: a queued scan has a try left, a row that waits for its write or *)
(* its check carries a plan, and what an open request has read of its job  *)
(* still fits that job where the second half of the request relies on it.  *)
(*                                                                         *)
(* Then, until a request answers on a row that has changed since it was    *)
(* read (~raced): one active job, and a write that was sent is only ever   *)
(* checked. Neither is inductive. Orderly adds that a write handed out is  *)
(* not one that the interval between writes would hold back, so that a     *)
(* repeated prepare-apply does not queue it again, and CallsStand that an  *)
(* open request has read its job where its operation belongs.              *)
(***************************************************************************)
EXTENDS FastDumping, TLAPS

\* The statuses of a job whose scan has decided what to write.
Decided == {"queued_apply", "leased_apply", "queued_verify", "leased_verify"}

\* A row that the queue may work on: claim_agent_job counts a try of a queued
\* scan, prepare-apply and the checks read the plan.
Proper(row) ==
  /\ row.status = "queued_scan" => row.tries < MaxScanAttempts
  /\ row.status \in Decided => row.plan.mode # None
ProperRow == {row \in JobRow : Proper(row)}
Rows == [Jobs -> ProperRow]

\* An open request, with the row and the pause it has read.
CallRow == [op: Operations \cup {None}, job: Jobs \cup {NoJob}, row: ProperRow, paused: BOOLEAN]
Calls == [Requests -> CallRow]

\* What request r has read fits its job, wherever the step that ends it uses
\* both. A row read as current keeps its plan until a supply event bumps it,
\* and then the request's copy is bumped too.
CallFits(r) ==
  /\ call[r].op \notin {"save", "run", None} => call[r].job \in Jobs
  /\ call[r].op \in {"prepare", "apply", "verify"} =>
       /\ call[r].row.plan.mode # None
       /\ job[call[r].job].plan.mode # None
  /\ call[r].op = "prepare" /\ call[r].row.current =>
       job[call[r].job].plan = call[r].row.plan

\* The inductive invariant of types, rows and open requests.
FastInv ==
  /\ Tables
  /\ job \in Rows
  /\ call \in Calls
  /\ \A r \in Requests : CallFits(r)

LEMMA NoRowType == NoPlan \in PlanRow /\ NoRow \in ProperRow /\ NoCall \in CallRow
<1>1. NoPlan \in PlanRow
  BY DEF NoPlan, PlanRow
<1>2. NoRow \in ProperRow
  BY <1>1, FastDumpingConstants DEF NoRow, ProperRow, Proper, Decided, JobRow, ActiveStatuses
<1>3. QED
  BY <1>1, <1>2 DEF NoCall, CallRow

\* Writing rows keeps them, except that rows nobody refers to any more are
\* recycled.
LEMMA WriteType ==
  ASSUME NEW rows \in Rows, Write(rows)
  PROVE  /\ job' \in Rows
         /\ \A j \in Jobs : \/ job'[j] = rows[j]
                            \/ job'[j] = NoRow /\ rows[j].status \notin ActiveStatuses
         /\ \A j \in Jobs : (\E r \in Requests : call'[r].job = j) \/ j \in sent' => job'[j] = rows[j]
  BY NoRowType DEF Write, Rows

LEMMA WithType ==
  ASSUME NEW rows \in Rows, NEW j \in Jobs,
         NEW status \in ActiveStatuses \cup {"ended", "cancelled"},
         status # "queued_scan" \/ rows[j].tries < MaxScanAttempts,
         status \notin Decided \/ rows[j].plan.mode # None
  PROVE  With(rows, j, status) \in Rows
<1>1. [rows[j] EXCEPT !.status = status] \in ProperRow
  BY DEF Rows, JobRow, ProperRow, Proper
<1>2. QED
  BY <1>1 DEF With, Rows

LEMMA BumpedType ==
  ASSUME NEW rows \in Rows
  PROVE  Bumped(rows) \in Rows
<1>1. ASSUME NEW j \in Jobs PROVE [rows[j] EXCEPT !.current = FALSE] \in ProperRow
  BY DEF Rows, JobRow, ProperRow, Proper
<1>2. QED
  BY <1>1 DEF Bumped, Rows

\* Rows that carry the plans of the jobs they replace.
SamePlans(rows) == \A j \in Jobs : rows[j].plan = job[j].plan \/ Fresh(j)

\* What a step may do to the open requests: leave, end or bump them.
CallStep ==
  /\ call' = [r \in Requests |-> call'[r]]
  /\ \A r \in Requests : call'[r] \in {call[r], NoCall, BumpedCalls[r]}

\* What a step may do to the rows while requests are open.
JobStep == \E rows \in Rows : Write(rows) /\ SamePlans(rows)

LEMMA BumpedCallType ==
  ASSUME FastInv, NEW r \in Requests
  PROVE  /\ BumpedCalls[r] \in CallRow
         /\ BumpedCalls[r].op = call[r].op /\ BumpedCalls[r].job = call[r].job
         /\ BumpedCalls[r].paused = call[r].paused
         /\ BumpedCalls[r].row = [call[r].row EXCEPT !.current = FALSE]
         /\ BumpedCalls[r].row.plan = call[r].row.plan
         /\ BumpedCalls[r].row.current = FALSE
<1>1. [call[r].row EXCEPT !.current = FALSE] \in ProperRow
  BY ZenonT(60) DEF FastInv, Calls, CallRow, JobRow, ProperRow, Proper
<1>2. call[r] \in CallRow /\ call[r].row \in JobRow
  BY DEF FastInv, Calls, CallRow, ProperRow
<1>3. BumpedCalls[r] = [call[r] EXCEPT !.row = [call[r].row EXCEPT !.current = FALSE]]
  BY DEF BumpedCalls
<1>4. QED
  BY <1>1, <1>2, <1>3, ZenonT(60) DEF CallRow, JobRow

\* A step of that shape keeps the rows, the requests and what they have read.
LEMMA StepKeeps ==
  ASSUME FastInv, JobStep, CallStep
  PROVE  job' \in Rows /\ call' \in Calls /\ \A r \in Requests : CallFits(r)'
<1>1. PICK rows \in Rows : Write(rows) /\ SamePlans(rows)
  BY DEF JobStep
<1>2. job' \in Rows
  BY <1>1, WriteType
<1>3. call' \in Calls
  BY NoRowType, BumpedCallType DEF CallStep, Calls, FastInv
<1>4. ASSUME NEW r \in Requests PROVE CallFits(r)'
  <2>1. CASE call'[r] = NoCall
    BY <2>1 DEF CallFits, NoCall, None
  <2>2. CASE call'[r] # NoCall
    <3>1. /\ call'[r].op = call[r].op /\ call'[r].job = call[r].job
          /\ call'[r].row.plan = call[r].row.plan
          /\ call'[r].row.current => call[r].row.current
      BY <2>2, BumpedCallType DEF CallStep
    <3>2. ASSUME call[r].job \in Jobs PROVE job'[call[r].job].plan = job[call[r].job].plan
      BY <1>1, <3>1, <3>2, WriteType DEF SamePlans, Fresh
    <3>3. CallFits(r)
      BY DEF FastInv
    <3>4. QED
      BY <3>1, <3>2, <3>3 DEF CallFits, None
  <2>3. QED
    BY <2>1, <2>2
<1>5. QED
  BY <1>2, <1>3, <1>4

\* What the operators on the queue, shared by many actions, keep.
LEMMA NewScanTypes ==
  ASSUME FastInv, NEW rows \in Rows, NEW row \in StateRow, NEW urgent \in BOOLEAN,
         SamePlans(rows), NewScan(rows, row, urgent)
  PROVE  JobStep /\ state' \in StateRow
<1>1. PICK n \in Jobs :
        /\ Fresh(n)
        /\ Write([rows EXCEPT ![n] = [NoRow EXCEPT !.status = "queued_scan", !.urgent = urgent]])
        /\ state' = [row EXCEPT !.active = n, !.parked = FALSE]
  BY DEF NewScan
<1>2. [NoRow EXCEPT !.status = "queued_scan", !.urgent = urgent] \in ProperRow
  BY NoRowType, FastDumpingConstants
     DEF NoRow, ProperRow, Proper, Decided, JobRow, ActiveStatuses, QueuedStatuses
<1>3. state' \in StateRow
  BY <1>1 DEF StateRow
<1>4. QED
  BY <1>1, <1>2, <1>3, ZenonT(60) DEF JobStep, Rows, SamePlans

LEMMA QueueScanTypes ==
  ASSUME FastInv, NEW rows \in Rows, NEW row \in StateRow, NEW on \in BOOLEAN, NEW urgent \in BOOLEAN,
         SamePlans(rows), QueueScan(rows, row, on, urgent)
  PROVE  JobStep /\ state' \in StateRow
<1>1. CASE NewScan(rows, row, urgent)
  BY <1>1, NewScanTypes
<1>2. CASE Write(rows) /\ state' \in {row, [row EXCEPT !.active = NoJob]}
  BY <1>2 DEF JobStep, StateRow
<1>3. QED
  BY <1>1, <1>2 DEF QueueScan

LEMMA AnsweredStep ==
  ASSUME FastInv, NEW r \in Requests
  PROVE  /\ Answered(r, call) => CallStep
         /\ Answered(r, BumpedCalls) => CallStep
  BY DEF Answered, CallStep, FastInv, Calls, BumpedCalls

LEMMA QuietCallStep ==
  ASSUME FastInv, call' = call \/ call' = BumpedCalls
  PROVE  CallStep
  BY DEF CallStep, FastInv, Calls, BumpedCalls

\* The part of Tables outside Fast Dumping's own tables.
World ==
  /\ enabled \in BOOLEAN
  /\ sale \in {"on", "on_manual", "off_manual"}
  /\ stock \in 0..MaxStock
  /\ supplier \in SupplierOffers \cup {Unbound, Unavailable}
  /\ events \in 0..MaxEvents

\* A step is sound when each of its parts is.
LEMMA Assembled ==
  ASSUME FastInv, JobStep, CallStep, state' \in StateRow, World',
         confirmed' \in PlanRow, sent' \subseteq Jobs
  PROVE  FastInv'
<1>1. job' \in Rows /\ call' \in Calls /\ \A r \in Requests : CallFits(r)'
  BY StepKeeps
<1>2. job' \in [Jobs -> JobRow]
  BY <1>1 DEF Rows, ProperRow
<1>3. call' \in [Requests -> [op: Operations \cup {None}, job: Jobs \cup {NoJob},
                              row: JobRow, paused: BOOLEAN]]
  BY <1>1 DEF Calls, CallRow, ProperRow
<1>4. QED
  BY <1>1, <1>2, <1>3 DEF FastInv, Tables, World

LEMMA SameWorld ==
  ASSUME FastInv
  PROVE  /\ UNCHANGED world => World'
         /\ UNCHANGED confirmed => confirmed' \in PlanRow
         /\ UNCHANGED sent => sent' \subseteq Jobs
  BY DEF FastInv, Tables, World, world

LEMMA Limits ==
  /\ MaxScanAttempts \in Nat \ {0} /\ MaxVerifyAttempts \in Nat
  /\ MaxStock \in Nat /\ PreorderStock \in Nat /\ InventoryCost \in Nat
  BY FastDumpingConstants

LEMMA SameJobs == FastInv => job \in Rows /\ SamePlans(job) /\ state \in StateRow
  BY DEF FastInv, SamePlans, Tables

LEMMA SamePlansWith ==
  ASSUME FastInv, NEW rows \in Rows, SamePlans(rows), NEW j \in Jobs, NEW status
  PROVE  SamePlans(With(rows, j, status)) /\ SamePlans(Bumped(rows))
<1>1. ASSUME NEW k \in Jobs
      PROVE  With(rows, j, status)[k].plan = rows[k].plan /\ Bumped(rows)[k].plan = rows[k].plan
  BY DEF With, Bumped, Rows, ProperRow, JobRow
<1>2. QED
  BY <1>1 DEF SamePlans

LEMMA ClearedType ==
  ASSUME NEW row \in StateRow, NEW j \in Jobs
  PROVE  Cleared(row, j) \in StateRow /\ [row EXCEPT !.parked = FALSE] \in StateRow
  BY DEF Cleared, StateRow

\* One lemma per action, and per operator that several actions end with.
LEMMA ScheduleDueTypes == FastInv /\ ScheduleDue => FastInv'
<1> SUFFICES ASSUME FastInv, ScheduleDue PROVE FastInv'
  OBVIOUS
<1>1. JobStep /\ state' \in StateRow
  BY SameJobs, QueueScanTypes DEF ScheduleDue
<1>2. QED
  BY <1>1, Assembled, QuietCallStep, SameWorld DEF ScheduleDue

LEMMA RecoverTransitionTypes == FastInv /\ RecoverTransition => FastInv'
<1> SUFFICES ASSUME FastInv, RecoverTransition PROVE FastInv'
  OBVIOUS
<1>1. JobStep /\ state' \in StateRow
  <2>1. CASE IsActive(job, state.active)
    <3>1. state.active \in Jobs
      BY <2>1 DEF IsActive, FastInv, Tables, StateRow
    <3>2. [job[state.active] EXCEPT !.urgent = TRUE] \in ProperRow
      <4>1. job[state.active] \in ProperRow
        BY <3>1, SameJobs DEF Rows
      <4>2. QED
        BY <4>1 DEF ProperRow, Proper, JobRow
    <3>3. [job EXCEPT ![state.active].urgent = TRUE] \in Rows
      BY <3>1, <3>2, SameJobs DEF Rows
    <3>4. SamePlans([job EXCEPT ![state.active].urgent = TRUE])
      BY <3>1, SameJobs DEF SamePlans, Rows, ProperRow, JobRow
    <3>5. QED
      BY <2>1, <3>3, <3>4, SameJobs DEF RecoverTransition, JobStep
  <2>2. QED
    BY <2>1, SameJobs, QueueScanTypes DEF RecoverTransition
<1>2. QED
  BY <1>1, Assembled, QuietCallStep, SameWorld DEF RecoverTransition

LEMMA ClaimTypes == ASSUME FastInv, NEW j \in Jobs, Claim(j) PROVE FastInv'
<1> DEFINE row == job[j]
           next == CASE row.status = "queued_scan" ->
                          [row EXCEPT !.status = "leased_scan", !.tries = @ + 1]
                     [] row.status = "queued_apply" -> [row EXCEPT !.status = "leased_apply"]
                     [] row.status = "queued_verify" -> [row EXCEPT !.status = "leased_verify"]
           rows == [job EXCEPT ![j] = next]
<1>1. row \in ProperRow /\ row.status \in QueuedStatuses
  BY SameJobs DEF Claim, Rows
<1>2. next \in ProperRow /\ next.plan = row.plan
  <2>1. CASE row.status = "queued_scan"
    <3>1. row \in JobRow /\ row.tries + 1 \in 0..(MaxScanAttempts + MaxVerifyAttempts)
      BY <1>1, <2>1, Limits DEF ProperRow, Proper, JobRow
    <3>2. next \in JobRow /\ next.plan = row.plan /\ next.status = "leased_scan"
      BY <3>1, <2>1 DEF JobRow, ActiveStatuses, LeasedStatuses
    <3>3. QED
      BY <3>2 DEF ProperRow, Proper, Decided
  <2>2. CASE row.status = "queued_apply"
    BY <1>1, <2>2 DEF ProperRow, Proper, Decided, JobRow, ActiveStatuses, QueuedStatuses, LeasedStatuses
  <2>3. CASE row.status = "queued_verify"
    BY <1>1, <2>3 DEF ProperRow, Proper, Decided, JobRow, ActiveStatuses, QueuedStatuses, LeasedStatuses
  <2>4. QED
    BY <1>1, <2>1, <2>2, <2>3 DEF QueuedStatuses
<1>3. rows \in Rows /\ SamePlans(rows)
  BY <1>2, SameJobs DEF Rows, SamePlans
<1>4. JobStep
  BY <1>3 DEF JobStep, Claim
<1>5. state' \in StateRow
  BY SameJobs DEF Claim, StateRow
<1>6. QED
  BY <1>4, <1>5, Assembled, QuietCallStep, SameWorld DEF Claim

LEMMA RecoverTypes == ASSUME FastInv, NEW j \in Jobs, Recover(j) PROVE FastInv'
<1>1. job[j] \in ProperRow /\ job[j].status \in LeasedStatuses
  BY SameJobs DEF Recover, Rows
<1>2. With(job, j, AfterExpiry(j)) \in Rows
  BY <1>1, SameJobs, WithType
     DEF AfterExpiry, ProperRow, Proper, Decided, ActiveStatuses, QueuedStatuses, LeasedStatuses
<1>3. JobStep
  BY <1>2, SameJobs, SamePlansWith DEF JobStep, Recover
<1>4. state' \in StateRow
  BY SameJobs DEF Recover, StateRow
<1>5. sent' \subseteq Jobs
  BY DEF Recover, FastInv, Tables
<1>6. QED
  BY <1>3, <1>4, <1>5, Assembled, QuietCallStep, SameWorld DEF Recover

LEMMA OpenTypes ==
  ASSUME FastInv, NEW r \in Requests, NEW op \in Operations, NEW j \in Jobs \cup {NoJob},
         op \notin {"save", "run"} => j \in Jobs,
         op \in {"prepare", "apply", "verify"} => job[j].status \in Decided,
         Open(r, op, j)
  PROVE  FastInv'
<1> DEFINE new == [op |-> op, job |-> j, paused |-> state.paused,
                   row |-> IF j = NoJob THEN NoRow ELSE job[j]]
<1>1. new \in CallRow
  BY SameJobs, NoRowType DEF CallRow, Rows, StateRow
<1>2. call' \in Calls /\ \A q \in Requests : call'[q] = IF q = r THEN new ELSE call[q]
  BY <1>1 DEF Open, FastInv, Calls
<1>3. ASSUME NEW q \in Requests PROVE CallFits(q)'
  <2>1. CASE q = r
    BY <1>2, <2>1, SameJobs, FastDumpingConstants DEF CallFits, Open, Rows, ProperRow, Proper, None
  <2>2. CASE q # r
    BY <1>2, <2>2 DEF CallFits, Open, FastInv
  <2>3. QED
    BY <2>1, <2>2
<1>4. call' \in [Requests -> [op: Operations \cup {None}, job: Jobs \cup {NoJob},
                              row: JobRow, paused: BOOLEAN]]
  BY <1>2 DEF Calls, CallRow, ProperRow
<1>5. QED
  BY <1>2, <1>3, <1>4 DEF Open, FastInv, Tables, world

LEMMA ReadTypes == ASSUME FastInv, NEW r \in Requests, Read(r) PROVE FastInv'
<1>1. ASSUME NEW op \in {"scan", "prepare", "apply", "verify"}, NEW j \in Jobs, AgentReads(r, op, j)
      PROVE  FastInv'
  <2>1. op \in {"prepare", "apply", "verify"} => job[j].status \in Decided
    BY <1>1 DEF AgentReads, Decided
  <2>2. QED
    BY <1>1, <2>1, OpenTypes DEF AgentReads, Operations
<1>2. state.active \in Jobs \cup {NoJob}
  BY SameJobs DEF StateRow
<1>3. CASE SaveReads(r)
  BY <1>2, <1>3, OpenTypes DEF SaveReads, Operations
<1>4. CASE RunReads(r)
  BY <1>2, <1>4, OpenTypes DEF RunReads, Operations
<1>5. QED
  BY <1>1, <1>3, <1>4 DEF Read

LEMMA AgentJob ==
  ASSUME FastInv, NEW r \in Requests
  PROVE  /\ call[r].op \in {"scan", "prepare", "apply", "verify"} => call[r].job \in Jobs
         /\ call[r].row \in ProperRow /\ call[r].job \in Jobs \cup {NoJob}
         /\ call[r].row.plan \in PlanRow
  BY DEF FastInv, CallFits, Calls, CallRow, None, ProperRow, JobRow

LEMMA EndTypes ==
  ASSUME FastInv, NEW r \in Requests, NEW j \in Jobs, NEW row \in StateRow, End(r, j, row)
  PROVE  FastInv'
<1>1. With(job, j, "ended") \in Rows /\ SamePlans(With(job, j, "ended"))
  BY SameJobs, WithType, SamePlansWith DEF Decided
<1>2. JobStep
  BY <1>1 DEF JobStep, End
<1>3. state' \in StateRow
  BY ClearedType DEF End
<1>4. QED
  BY <1>2, <1>3, AnsweredStep, Assembled, SameWorld DEF End

LEMMA FinishTypes ==
  ASSUME FastInv, NEW r \in Requests, NEW j \in Jobs, NEW row \in StateRow, Finish(r, j, row)
  PROVE  FastInv'
<1>1. Bumped(job) \in Rows /\ SamePlans(Bumped(job))
  BY SameJobs, BumpedType, SamePlansWith
<1>2. With(Bumped(job), j, "ended") \in Rows /\ SamePlans(With(Bumped(job), j, "ended"))
  BY <1>1, WithType, SamePlansWith DEF Decided
<1>3. JobStep
  BY <1>2 DEF JobStep, Finish
<1>4. state' \in StateRow
  BY ClearedType DEF Finish
<1>5. QED
  BY <1>3, <1>4, AnsweredStep, Assembled, SameWorld DEF Finish

LEMMA DecideTypes ==
  ASSUME FastInv, NEW r \in Requests, NEW j \in Jobs, NEW row \in StateRow,
         NEW plan \in PlanRow, plan.mode # None, NEW urgent \in BOOLEAN,
         Decide(r, j, row, plan, urgent)
  PROVE  FastInv'
<1> DEFINE new == [status |-> "queued_apply", urgent |-> urgent, tries |-> 0,
                   current |-> TRUE, plan |-> plan]
           rows == [Bumped(job) EXCEPT ![j] = new]
<1>1. new \in ProperRow
  BY Limits DEF ProperRow, Proper, JobRow, ActiveStatuses, QueuedStatuses
<1>2. rows \in Rows /\ \A k \in Jobs : rows[k].plan = IF k = j THEN plan ELSE job[k].plan
  <2>1. Bumped(job) \in Rows
    BY SameJobs, BumpedType
  <2>2. \A k \in Jobs : Bumped(job)[k].plan = job[k].plan
    BY SameJobs DEF Bumped, Rows, ProperRow, JobRow
  <2>3. QED
    BY <1>1, <2>1, <2>2 DEF Rows
<1>3. Write(rows)
  BY DEF Decide
<1>4. job' \in Rows
  BY <1>2, <1>3, WriteType
<1>5. CallStep /\ \A q \in Requests : call'[q] = NoCall \/ call'[q] = BumpedCalls[q]
  BY AnsweredStep DEF Decide, Answered, FastInv, Calls, BumpedCalls
<1>6. call' \in Calls
  BY <1>5, NoRowType, BumpedCallType DEF CallStep, Calls
<1>7. ASSUME NEW q \in Requests PROVE CallFits(q)'
  <2>1. CASE call'[q] = NoCall
    BY <2>1 DEF CallFits, NoCall, None
  <2>2. CASE call'[q] # NoCall
    <3>1. /\ call'[q].op = call[q].op /\ call'[q].job = call[q].job
          /\ call'[q].row.plan = call[q].row.plan /\ ~call'[q].row.current
      BY <1>5, <2>2, BumpedCallType
    <3>2. ASSUME call[q].job \in Jobs
          PROVE  job'[call[q].job].plan \in {plan, job[call[q].job].plan}
      BY <1>2, <1>3, <3>1, <3>2, WriteType
    <3>3. CallFits(q)
      BY DEF FastInv
    <3>4. QED
      BY <3>1, <3>2, <3>3 DEF CallFits, None
  <2>3. QED
    BY <2>1, <2>2
<1>8. job' \in [Jobs -> JobRow] /\ call' \in [Requests -> [op: Operations \cup {None},
                              job: Jobs \cup {NoJob}, row: JobRow, paused: BOOLEAN]]
  BY <1>4, <1>6 DEF Rows, Calls, CallRow, ProperRow
<1>9. QED
  BY <1>4, <1>6, <1>7, <1>8, SameWorld DEF FastInv, Tables, World, Decide

\* No decision is below the floor of the cost it was made for.
LEMMA PricedAboveFloor ==
  ASSUME NEW m \in Markets \cup {NoMarket}, NEW cost \in Nat
  PROVE  Priced(m, cost) \in Nat /\ Priced(m, cost) >= Floor(cost)
<1>1. m.rival \in Nat
  BY FastDumpingConstants DEF NoMarket
<1>2. QED
  BY <1>1 DEF Priced, Floor

LEMMA SourceType ==
  ASSUME FastInv
  PROVE  /\ stock \in Nat /\ stock \in 0..MaxStock
         /\ Source.kind \in {None, "inventory", "supplier"}
         /\ Source.cost \in Nat /\ Source.days \in Nat
         /\ stock > 0 <=> Source.kind = "inventory"
         /\ Source.kind = "supplier" =>
              stock = 0 /\ supplier \in SupplierOffers /\ Source.days = supplier.days
         /\ Source.kind = None => stock = 0 /\ supplier \notin SupplierOffers
<1>1. stock \in 0..MaxStock /\ stock \in Nat
  BY Limits DEF FastInv, Tables
<1>2. supplier \in SupplierOffers => supplier.cost \in Nat /\ supplier.days \in Nat
  BY FastDumpingConstants
<1>3. QED
  BY <1>1, <1>2, Limits DEF Source, None

LEMMA ScanRows ==
  ASSUME FastInv, NEW m \in Markets
  PROVE  /\ Seen(m) \in StateRow /\ Measured(m) \in StateRow
         /\ m.own \in Nat /\ m.ok \in BOOLEAN
<1>1. Seen(m) \in StateRow
  BY SameJobs DEF Seen, StateRow
<1>2. Measured(m) \in StateRow
  BY <1>1, SourceType DEF Measured, StateRow
<1>3. QED
  BY <1>1, <1>2, FastDumpingConstants

LEMMA PlanTypes ==
  ASSUME FastInv, NEW m \in Markets, NEW price \in Nat
  PROVE  /\ InventoryPlan(m, price) \in PlanRow /\ InventoryPlan(m, price).mode = "inventory"
         /\ [NoPlan EXCEPT !.mode = "preorder", !.price = price,
                           !.stock = PreorderStock, !.days = Source.days] \in PlanRow
         /\ [NoPlan EXCEPT !.mode = "off", !.price = price] \in PlanRow
  BY SourceType, Limits DEF InventoryPlan, NoPlan, PlanRow

LEMMA ReactivateTypes ==
  ASSUME FastInv, NEW r \in Requests, NEW j \in Jobs, NEW row \in StateRow,
         NEW plan \in PlanRow, plan.mode # None, NEW urgent \in BOOLEAN,
         Reactivate(r, j, row, plan, urgent)
  PROVE  FastInv'
<1>1. [row EXCEPT !.active = j] \in StateRow
  BY DEF StateRow
<1>2. QED
  BY <1>1, DecideTypes DEF Reactivate

LEMMA FlagTypes ==
  ASSUME NEW plan \in PlanRow
  PROVE  /\ [plan EXCEPT !.sync = TRUE] \in PlanRow
         /\ [plan EXCEPT !.sync = TRUE].mode = plan.mode
         /\ [plan EXCEPT !.first = TRUE] \in PlanRow
         /\ [plan EXCEPT !.first = TRUE].mode = plan.mode
  BY DEF PlanRow

LEMMA ScanSucceedsTypes ==
  ASSUME FastInv, NEW r \in Requests, NEW m \in Markets, ScanSucceeds(r, m)
  PROVE  FastInv'
<1> DEFINE j == call[r].job
           seen == Seen(m)
           fresh == Measured(m)
           urgent == job[j].urgent
           syncPlan == [InventoryPlan(m, m.own) EXCEPT !.sync = TRUE]
           offPlan == [NoPlan EXCEPT !.mode = "off", !.price = m.own]
           preorderPlan == [NoPlan EXCEPT !.mode = "preorder", !.price = Priced(m, Source.cost),
                               !.stock = PreorderStock, !.days = Source.days]
<1>1. j \in Jobs /\ job[j] \in ProperRow /\ urgent \in BOOLEAN
  BY AgentJob, SameJobs DEF ScanSucceeds, Rows, ProperRow, JobRow
<1>2. seen \in StateRow /\ fresh \in StateRow /\ m.own \in Nat /\ m.ok \in BOOLEAN
  BY ScanRows
<1>3. /\ [fresh EXCEPT !.desired = PreorderStock] \in StateRow
      /\ \A b \in BOOLEAN : [fresh EXCEPT !.paused = @ \/ b] \in StateRow
  BY <1>1, <1>2, Limits DEF StateRow
<1>4. /\ syncPlan \in PlanRow /\ syncPlan.mode = "inventory"
      /\ [syncPlan EXCEPT !.first = TRUE] \in PlanRow
      /\ [syncPlan EXCEPT !.first = TRUE].mode = "inventory"
  <2>1. syncPlan \in PlanRow /\ syncPlan.mode = "inventory"
    BY <1>2, PlanTypes, FlagTypes
  <2> HIDE DEF syncPlan
  <2>2. QED
    BY <2>1, FlagTypes
<1>5. /\ preorderPlan \in PlanRow /\ preorderPlan.mode = "preorder"
      /\ offPlan \in PlanRow /\ offPlan.mode = "off"
  BY <1>2, PlanTypes, PricedAboveFloor, SourceType DEF NoPlan
<1>6. CASE Finish(r, j, seen)
  BY <1>1, <1>2, <1>6, FinishTypes
<1> HIDE DEF syncPlan, offPlan, preorderPlan, fresh, seen
<1>7. CASE Reactivate(r, j, fresh, [syncPlan EXCEPT !.first = TRUE], TRUE)
  BY <1>1, <1>2, <1>3, <1>4, <1>7, ReactivateTypes DEF None
<1>8. CASE Decide(r, j, fresh, InventoryPlan(m, Priced(m, InventoryCost)), urgent)
  BY <1>1, <1>2, <1>8, Limits, DecideTypes, PlanTypes, PricedAboveFloor DEF None
<1>9. CASE Reactivate(r, j, fresh, syncPlan, urgent)
  BY <1>1, <1>2, <1>3, <1>4, <1>9, ReactivateTypes DEF None
<1>10. CASE Finish(r, j, [fresh EXCEPT !.paused = @ \/ (m.ok /\ m.own = 0)])
  BY <1>1, <1>2, <1>3, <1>10, FinishTypes
<1>11. CASE Reactivate(r, j, [fresh EXCEPT !.desired = PreorderStock], preorderPlan, urgent)
  BY <1>1, <1>2, <1>3, <1>5, <1>11, ReactivateTypes DEF None
<1>12. CASE Reactivate(r, j, fresh, offPlan, urgent)
  BY <1>1, <1>2, <1>3, <1>5, <1>12, ReactivateTypes DEF None
<1>13. CASE /\ enabled' = FALSE
            /\ Answered(r, BumpedCalls)
            /\ UNCHANGED <<confirmed, sent, sale, stock, supplier, events>>
            /\ LET rest == IF state.active \in {j, NoJob} THEN NoJob ELSE state.active
                   keep == rest # NoJob /\ job[rest].status \in SentStatuses
               IN /\ Write([k \in Jobs |->
                             IF k = j THEN [Bumped(job)[k] EXCEPT !.status = "ended"]
                             ELSE IF k = rest /\ ~keep
                             THEN [Bumped(job)[k] EXCEPT !.status = "cancelled"]
                             ELSE Bumped(job)[k]])
                  /\ state' = [fresh EXCEPT !.active = IF keep THEN rest ELSE NoJob,
                                            !.parked = TRUE]
  <2> DEFINE rest == IF state.active \in {j, NoJob} THEN NoJob ELSE state.active
             keep == rest # NoJob /\ job[rest].status \in SentStatuses
             rows == [k \in Jobs |->
                             IF k = j THEN [Bumped(job)[k] EXCEPT !.status = "ended"]
                             ELSE IF k = rest /\ ~keep
                             THEN [Bumped(job)[k] EXCEPT !.status = "cancelled"]
                             ELSE Bumped(job)[k]]
  <2>1. ASSUME NEW k \in Jobs
        PROVE  rows[k] \in ProperRow /\ rows[k].plan = job[k].plan
    <3>1. Bumped(job)[k] \in ProperRow /\ Bumped(job)[k].plan = job[k].plan
      <4>1. Bumped(job) \in Rows /\ job[k] \in ProperRow
        BY SameJobs, BumpedType DEF Rows
      <4>2. QED
        BY <4>1 DEF Bumped, Rows, ProperRow, JobRow
    <3>2. ASSUME NEW st \in {"ended", "cancelled"}
          PROVE  /\ [Bumped(job)[k] EXCEPT !.status = st] \in ProperRow
                 /\ [Bumped(job)[k] EXCEPT !.status = st].plan = job[k].plan
      BY <3>1 DEF ProperRow, Proper, Decided, JobRow
    <3>3. QED
      BY <3>1, <3>2
  <2>2. rows \in Rows /\ SamePlans(rows)
    BY <2>1 DEF Rows, SamePlans
  <2>3. JobStep
    BY <1>13, <2>2 DEF JobStep
  <2>4. state' \in StateRow
    BY <1>2, <1>13, SameJobs, ZenonT(60) DEF StateRow
  <2>5. World' /\ confirmed' \in PlanRow /\ sent' \subseteq Jobs
    BY <1>13 DEF FastInv, Tables, World
  <2>6. CallStep
    BY <1>13, AnsweredStep
  <2>7. QED
    BY <2>3, <2>4, <2>5, <2>6, Assembled
<1> USE DEF syncPlan, offPlan, preorderPlan, fresh, seen
<1>14. QED
  BY <1>6, <1>7, <1>8, <1>9, <1>10, <1>11, <1>12, <1>13 DEF ScanSucceeds

LEMMA PrepareApplyTypes ==
  ASSUME FastInv, NEW r \in Requests, PrepareApply(r)
  PROVE  FastInv'
<1> DEFINE j == call[r].job
           plan == call[r].row.plan
<1>1. j \in Jobs /\ plan \in PlanRow /\ plan.mode # None /\ job[j].plan.mode # None
  BY AgentJob DEF PrepareApply, FastInv, CallFits
<1>2. CASE Stale(r, j, plan)
  <2>1. /\ [state EXCEPT !.parked = FALSE, !.onhand = stock, !.desired = stock] \in StateRow
        /\ [state EXCEPT !.parked = FALSE] \in StateRow
    BY SameJobs, SourceType DEF StateRow
  <2>2. QED
    BY <1>1, <1>2, <2>1, FinishTypes DEF Stale
<1>3. CASE End(r, j, state)
  BY <1>1, <1>3, SameJobs, EndTypes
<1>4. CASE /\ Answered(r, call)
           /\ UNCHANGED <<confirmed, sent, world>>
           /\ Write(With(job, j, "queued_apply"))
           /\ state' = [state EXCEPT !.parked = FALSE]
  <2>1. With(job, j, "queued_apply") \in Rows /\ SamePlans(With(job, j, "queued_apply"))
    BY <1>1, SameJobs, WithType, SamePlansWith DEF ActiveStatuses, QueuedStatuses
  <2>2. JobStep /\ state' \in StateRow
    BY <1>1, <1>4, <2>1, SameJobs, ClearedType DEF JobStep
  <2>3. QED
    BY <1>4, <2>2, AnsweredStep, Assembled, SameWorld
<1>5. CASE HandOut(r, j, plan)
  <2>1. JobStep /\ sent' \subseteq Jobs
    BY <1>1, <1>5, SameJobs DEF JobStep, HandOut, FastInv, Tables
  <2>2. plan.stock \in Nat
    BY <1>1 DEF PlanRow
  <2>3. state' \in StateRow
    BY <1>5, <2>2, SameJobs, SourceType, ZenonT(60) DEF HandOut, StateRow
  <2>4. QED
    BY <1>5, <2>1, <2>3, AnsweredStep, Assembled, SameWorld DEF HandOut
<1>6. QED
  BY <1>2, <1>3, <1>4, <1>5 DEF PrepareApply

LEMMA SettleTypes ==
  ASSUME FastInv, NEW r \in Requests, call[r].job \in Jobs, NEW row \in StateRow,
         NEW applied, NEW wrote \in {"never", "recent", "old"}, Settle(r, row, applied, wrote)
  PROVE  FastInv'
<1> DEFINE j == call[r].job
           rows == With(job, j, "ended")
           rest == Cleared([row EXCEPT !.parked = FALSE, !.wrote = wrote], j)
<1>1. rows \in Rows /\ SamePlans(rows)
  BY SameJobs, WithType, SamePlansWith DEF Decided
<1>2. rest \in StateRow
  <2>1. [row EXCEPT !.parked = FALSE, !.wrote = wrote] \in StateRow
    BY DEF StateRow
  <2>2. QED
    BY <2>1, ClearedType
<1>3. JobStep /\ state' \in StateRow
  <2>1. CASE NewScan(rows, rest, TRUE)
    BY <1>1, <1>2, <2>1, NewScanTypes
  <2>2. CASE Write(rows) /\ state' = rest
    BY <1>1, <1>2, <2>2 DEF JobStep
  <2>3. QED
    BY <2>1, <2>2 DEF Settle
<1>4. confirmed' \in PlanRow /\ sent' \subseteq Jobs
  BY AgentJob DEF Settle, FastInv, Tables
<1>5. QED
  BY <1>3, <1>4, AnsweredStep, Assembled, SameWorld DEF Settle

LEMMA ReportTypes ==
  ASSUME FastInv, NEW r \in Requests, NEW outcome \in BOOLEAN
  PROVE  /\ ApplyEnds(r, outcome) => FastInv'
         /\ VerifyEnds(r, outcome) => FastInv'
<1>1. /\ state.wrote \in {"never", "recent", "old"} /\ state \in StateRow
      /\ [state EXCEPT !.paused = FALSE] \in StateRow
  BY SameJobs DEF StateRow
<1>2. CASE ApplyEnds(r, outcome)
  BY <1>1, <1>2, AgentJob, SettleTypes DEF ApplyEnds
<1>3. CASE VerifyEnds(r, outcome)
  BY <1>1, <1>3, AgentJob, SettleTypes DEF VerifyEnds
<1>4. QED
  BY <1>2, <1>3

LEMMA CheckedLaterTypes ==
  ASSUME FastInv, NEW r \in Requests, call[r].op \in {"apply", "verify"},
         NEW tries \in 0..MaxVerifyAttempts, NEW wrote \in {"never", "recent", "old"},
         Answered(r, call),
         UNCHANGED <<confirmed, sent, world>>,
         Write([job EXCEPT ![call[r].job].status = "queued_verify", ![call[r].job].tries = tries]),
         state' = [state EXCEPT !.wrote = wrote, !.parked = FALSE]
  PROVE  FastInv'
<1> DEFINE j == call[r].job
           new == [job[j] EXCEPT !.status = "queued_verify", !.tries = tries]
           rows == [job EXCEPT ![j].status = "queued_verify", ![j].tries = tries]
<1>1. j \in Jobs /\ job[j] \in ProperRow /\ job[j].plan.mode # None
  BY AgentJob, SameJobs DEF FastInv, CallFits, Rows
<1>2. tries \in 0..(MaxScanAttempts + MaxVerifyAttempts)
  BY Limits
<1>3. new \in ProperRow /\ new.plan = job[j].plan
  BY <1>1, <1>2 DEF ProperRow, Proper, JobRow, ActiveStatuses, QueuedStatuses
<1>4. rows = [job EXCEPT ![j] = new]
  BY <1>1, SameJobs DEF Rows, ProperRow, JobRow
<1>5. rows \in Rows /\ SamePlans(rows)
  BY <1>1, <1>3, <1>4, SameJobs DEF Rows, SamePlans
<1>6. JobStep /\ state' \in StateRow
  BY <1>5, SameJobs DEF JobStep, StateRow
<1>7. QED
  BY <1>6, AnsweredStep, Assembled, SameWorld

LEMMA ApplyAcceptedTypes == ASSUME FastInv, NEW r \in Requests, ApplyAccepted(r) PROVE FastInv'
<1>1. 0 \in 0..MaxVerifyAttempts
  BY Limits
<1>2. QED
  BY <1>1, CheckedLaterTypes DEF ApplyAccepted

LEMMA VerifyInProgressTypes == ASSUME FastInv, NEW r \in Requests, VerifyInProgress(r) PROVE FastInv'
<1> DEFINE tries == call[r].row.tries + 1
<1>1. tries \in 0..MaxVerifyAttempts
  BY AgentJob, Limits DEF VerifyInProgress, ProperRow, JobRow
<1>2. /\ state.wrote \in {"never", "recent", "old"}
      /\ state' = [state EXCEPT !.wrote = state.wrote, !.parked = FALSE]
  BY SameJobs DEF VerifyInProgress, StateRow
<1>3. QED
  BY <1>1, <1>2, CheckedLaterTypes DEF VerifyInProgress

LEMMA EventType == FastInv /\ Event => events' \in 0..MaxEvents
  BY FastDumpingConstants DEF FastInv, Tables, Event

LEMMA SavePolicyTypes ==
  ASSUME FastInv, NEW r \in Requests, NEW on \in BOOLEAN, SavePolicy(r, on) PROVE FastInv'
<1> DEFINE j == call[r].job
           known == j # NoJob
           rows == IF ~known THEN job
                   ELSE IF call[r].row.status \in ActiveStatuses
                   THEN With(Bumped(job), j, "cancelled")
                   ELSE Bumped(job)
           row == [state EXCEPT !.active = IF known THEN NoJob ELSE @, !.parked = FALSE]
<1>1. known => j \in Jobs
  BY AgentJob
<1>2. Bumped(job) \in Rows /\ SamePlans(Bumped(job))
  <2>1. CASE known
    BY <1>1, <2>1, SameJobs, BumpedType, SamePlansWith
  <2>2. CASE Jobs = {}
    BY <2>2, SameJobs, BumpedType DEF SamePlans
  <2>3. CASE Jobs # {}
    BY <2>3, SameJobs, BumpedType, SamePlansWith
  <2>4. QED
    BY <2>2, <2>3
<1>3. rows \in Rows /\ SamePlans(rows)
  BY <1>1, <1>2, SameJobs, WithType, SamePlansWith DEF Decided, ActiveStatuses, QueuedStatuses, LeasedStatuses
<1>4. row \in StateRow
  BY SameJobs DEF StateRow
<1>5. JobStep /\ state' \in StateRow
  BY <1>3, <1>4, NewScanTypes DEF SavePolicy, JobStep
<1>6. CallStep
  BY AnsweredStep DEF SavePolicy
<1>7. World' /\ confirmed' \in PlanRow /\ sent' \subseteq Jobs
  BY EventType DEF SavePolicy, FastInv, Tables, World
<1>8. QED
  BY <1>5, <1>6, <1>7, Assembled

LEMMA UrgentType ==
  ASSUME FastInv, NEW j \in Jobs, NEW urgent \in BOOLEAN
  PROVE  /\ [job EXCEPT ![j].urgent = urgent] \in Rows
         /\ SamePlans([job EXCEPT ![j].urgent = urgent])
<1>1. job[j] \in ProperRow
  BY SameJobs DEF Rows
<1>2. [job[j] EXCEPT !.urgent = urgent] \in ProperRow /\ [job[j] EXCEPT !.urgent = urgent].plan = job[j].plan
  BY <1>1 DEF ProperRow, Proper, JobRow
<1>3. QED
  BY <1>2, SameJobs DEF Rows, SamePlans

LEMMA RunNowTypes == ASSUME FastInv, NEW r \in Requests, RunNow(r) PROVE FastInv'
<1> DEFINE j == call[r].job
           rows == [job EXCEPT ![j].urgent = FALSE]
<1>1. JobStep /\ state' \in StateRow
  <2>1. CASE NewScan(job, state, FALSE)
    BY <2>1, SameJobs, NewScanTypes
  <2>2. CASE Write(rows) /\ state' = [state EXCEPT !.parked = FALSE]
    <3>1. CASE j \in Jobs
      BY <2>2, <3>1, UrgentType, SameJobs DEF JobStep, StateRow
    <3>2. CASE j \notin Jobs
      <4>1. rows = job
        BY <3>2, SameJobs DEF Rows
      <4>2. QED
        BY <2>2, <4>1, SameJobs DEF JobStep, StateRow
    <3>3. QED
      BY <3>1, <3>2
  <2>3. CASE Write(job) /\ UNCHANGED state
    BY <2>3, SameJobs DEF JobStep
  <2>4. QED
    BY <2>1, <2>2, <2>3 DEF RunNow
<1>2. World' /\ confirmed' \in PlanRow /\ sent' \subseteq Jobs
  BY EventType DEF RunNow, FastInv, Tables, World
<1>3. QED
  BY <1>1, <1>2, AnsweredStep, Assembled DEF RunNow

LEMMA NewStateType == NewState \in StateRow
  BY Limits DEF NewState, StateRow, None

LEMMA RemoveProductTypes == FastInv /\ RemoveProduct => FastInv'
<1> SUFFICES ASSUME FastInv, RemoveProduct PROVE FastInv'
  OBVIOUS
<1>1. job' \in Rows /\ call' \in Calls
  BY NoRowType DEF RemoveProduct, Rows, FastInv
<1>2. \A r \in Requests : CallFits(r)'
  BY DEF RemoveProduct, CallFits, NoCall, None
<1>3. job' \in [Jobs -> JobRow]
  BY <1>1 DEF Rows, ProperRow
<1>4. World'
  BY EventType DEF RemoveProduct, FastInv, Tables, World
<1>5. QED
  BY <1>1, <1>2, <1>3, <1>4, NewStateType, NoRowType DEF RemoveProduct, FastInv, Tables, World

LEMMA ResumeTypes == FastInv /\ Resume => FastInv'
<1> SUFFICES ASSUME FastInv, Resume PROVE FastInv'
  OBVIOUS
<1>1. [state EXCEPT !.paused = FALSE] \in StateRow
  BY SameJobs DEF StateRow
<1>2. JobStep /\ state' \in StateRow
  BY <1>1, SameJobs, NewScanTypes DEF Resume
<1>3. QED
  BY <1>2, Assembled, QuietCallStep, SameWorld DEF Resume

LEMMA CancelledType ==
  ASSUME FastInv, NEW j \in Jobs
  PROVE  /\ With(Bumped(job), j, "cancelled") \in Rows
         /\ SamePlans(With(Bumped(job), j, "cancelled"))
<1>1. Bumped(job) \in Rows /\ SamePlans(Bumped(job))
  BY SameJobs, BumpedType, SamePlansWith
<1>2. QED
  BY <1>1, WithType, SamePlansWith DEF Decided

LEMMA DisabledTypes ==
  ASSUME FastInv, Disabled(job, state)
  PROVE  JobStep /\ CallStep /\ state' \in StateRow /\ enabled' \in BOOLEAN
<1>1. IsActive(job, state.active) => state.active \in Jobs
  BY SameJobs DEF IsActive, StateRow
<1>2. JobStep
  BY <1>1, SameJobs, CancelledType DEF Disabled, JobStep
<1>3. CallStep
  BY QuietCallStep DEF Disabled
<1>4. state' \in StateRow
  <2>1. \A a \in {state.active, NoJob} :
          [state EXCEPT !.active = a, !.parked = TRUE, !.onhand = 0, !.desired = 0] \in StateRow
    <3>1. 0 \in 0..MaxStock /\ 0 \in Nat \cup {-1}
      BY Limits
    <3>2. state \in StateRow /\ state.active \in Jobs \cup {NoJob}
      BY SameJobs DEF StateRow
    <3>3. QED
      BY <3>1, <3>2 DEF StateRow
  <2>2. \E a \in {state.active, NoJob} :
          state' = [state EXCEPT !.active = a, !.parked = TRUE, !.onhand = 0, !.desired = 0]
    BY DEF Disabled
  <2>3. QED
    BY <2>1, <2>2
<1>5. QED
  BY <1>2, <1>3, <1>4 DEF Disabled

LEMMA ReplanTypes ==
  ASSUME FastInv, NEW n \in 0..MaxStock, Replan(n)
  PROVE  JobStep /\ CallStep /\ state' \in StateRow
<1> DEFINE incoming == n > 0 /\ (state.onhand = 0 \/ state.kind = "supplier")
           busy == IsActive(job, state.active)
           drops == busy /\ job[state.active].status = "queued_apply"
           row == [state EXCEPT !.onhand = n, !.active = IF drops THEN NoJob ELSE @]
<1>1. busy => state.active \in Jobs
  BY SameJobs DEF IsActive, StateRow
<1>2. row \in StateRow
  BY SameJobs DEF StateRow
<1>3. CallStep
  BY QuietCallStep DEF Replan
<1>4. CASE drops
  BY <1>1, <1>2, <1>3, <1>4, CancelledType, QueueScanTypes DEF Replan
<1>5. CASE ~drops /\ busy
  <2>1. (job[state.active].urgent \/ incoming) \in BOOLEAN
    BY <1>1, <1>5, SameJobs DEF Rows, ProperRow, JobRow
  <2>2. [job EXCEPT ![state.active].urgent = @ \/ incoming]
          = [job EXCEPT ![state.active].urgent = job[state.active].urgent \/ incoming]
    BY <1>1, <1>5, SameJobs DEF Rows
  <2>3. Write([job EXCEPT ![state.active].urgent = @ \/ incoming]) /\ state' = row
    BY <1>5 DEF Replan
  <2>4. QED
    BY <1>1, <1>2, <1>3, <1>5, <2>1, <2>2, <2>3, UrgentType DEF JobStep
<1>6. CASE ~drops /\ ~busy
  BY <1>2, <1>3, <1>6, SameJobs, QueueScanTypes DEF Replan
<1>7. QED
  BY <1>4, <1>5, <1>6

LEMMA StillTypes ==
  ASSUME FastInv, UNCHANGED <<job, call>>, state' \in StateRow, World',
         confirmed' \in PlanRow, sent' \subseteq Jobs
  PROVE  FastInv'
<1>1. \A r \in Requests : CallFits(r)'
  BY DEF FastInv, CallFits
<1>2. QED
  BY <1>1 DEF FastInv, Tables, World

LEMMA SyncTypes ==
  ASSUME FastInv, NEW n \in 0..MaxStock, NEW s \in {"on", "on_manual"} \cup {sale},
         Sync(n, s), events' \in 0..MaxEvents
  PROVE  FastInv'
<1>1. /\ stock' \in 0..MaxStock /\ sale' \in {"on", "on_manual", "off_manual"}
      /\ supplier' \in SupplierOffers \cup {Unbound, Unavailable}
      /\ confirmed' \in PlanRow /\ sent' \subseteq Jobs
  BY DEF Sync, FastInv, Tables
<1>2. CASE Disabled(job, state)
  BY <1>1, <1>2, DisabledTypes, Assembled DEF World
<1>3. CASE enabled' = TRUE /\ Replan(n)
  BY <1>1, <1>3, ReplanTypes, Assembled DEF World
<1>4. CASE UNCHANGED <<enabled, job, state, call>>
  BY <1>1, <1>4, StillTypes DEF World, FastInv, Tables
<1>5. QED
  BY <1>2, <1>3, <1>4 DEF Sync

LEMMA EnvironmentTypes == FastInv /\ Environment => FastInv'
<1> SUFFICES ASSUME FastInv, Environment PROVE FastInv'
  OBVIOUS
<1>1. CASE CooldownEnds
  <2>1. state' \in StateRow
    BY <1>1, SameJobs DEF CooldownEnds, StateRow
  <2>2. QED
    BY <1>1, <2>1, SameWorld, StillTypes DEF CooldownEnds
<1>2. CASE Resume
  BY <1>2, ResumeTypes
<1>3. CASE RemoveProduct
  BY <1>3, RemoveProductTypes
<1>4. ASSUME NEW n \in 0..MaxStock, StockChanges(n) PROVE FastInv'
  BY <1>4, SyncTypes, EventType DEF StockChanges
<1>5. ASSUME NEW on \in BOOLEAN, SwitchSale(on) PROVE FastInv'
  <2>1. CASE Sync(stock, "on_manual")
    BY <1>5, <2>1, SyncTypes, EventType, SourceType DEF SwitchSale
  <2>2. CASE /\ sale' = IF on THEN "on_manual" ELSE "off_manual"
             /\ UNCHANGED <<job, state, enabled, stock, supplier, confirmed, call, sent>>
    <3>1. World' /\ confirmed' \in PlanRow /\ sent' \subseteq Jobs /\ state' \in StateRow
      BY <1>5, <2>2, EventType DEF SwitchSale, FastInv, Tables, World
    <3>2. QED
      BY <2>2, <3>1, StillTypes
  <2>3. QED
    BY <1>5, <2>1, <2>2 DEF SwitchSale
<1>6. ASSUME NEW s \in SupplierOffers \cup {Unbound, Unavailable}, SupplierChanges(s) PROVE FastInv'
  <2>1. World' /\ confirmed' \in PlanRow /\ sent' \subseteq Jobs
    BY <1>6, EventType DEF SupplierChanges, FastInv, Tables, World
  <2>2. [state EXCEPT !.parked = FALSE] \in StateRow
    BY SameJobs DEF StateRow
  <2>3. CASE QueueScan(job, [state EXCEPT !.parked = FALSE], TRUE, FALSE)
    BY <1>6, <2>1, <2>2, <2>3, SameJobs, QueueScanTypes, QuietCallStep, Assembled DEF SupplierChanges
  <2>4. CASE Write(job) /\ state' = [state EXCEPT !.parked = FALSE]
    BY <1>6, <2>1, <2>2, <2>4, SameJobs, QuietCallStep, Assembled DEF SupplierChanges, JobStep
  <2>5. CASE UNCHANGED <<job, state>>
    BY <1>6, <2>1, <2>5, SameJobs, StillTypes DEF SupplierChanges
  <2>6. QED
    BY <1>6, <2>3, <2>4, <2>5 DEF SupplierChanges
<1>7. ASSUME NEW j \in Jobs, MutationEnds(j) PROVE FastInv'
  <2>1. JobStep /\ sent' \subseteq Jobs
    BY <1>7, SameJobs DEF MutationEnds, JobStep, FastInv, Tables
  <2>2. QED
    BY <1>7, <2>1, SameJobs, SameWorld, QuietCallStep, Assembled DEF MutationEnds
<1>8. QED
  BY <1>1, <1>2, <1>3, <1>4, <1>5, <1>6, <1>7 DEF Environment

LEMMA DisableEmptyTypes == FastInv /\ DisableEmpty => FastInv'
<1> SUFFICES ASSUME FastInv, DisableEmpty PROVE FastInv'
  OBVIOUS
<1>1. World' /\ confirmed' \in PlanRow /\ sent' \subseteq Jobs
  BY DisabledTypes DEF DisableEmpty, FastInv, Tables, World
<1>2. QED
  BY <1>1, DisabledTypes, Assembled DEF DisableEmpty

LEMMA NextTypes == FastInv /\ [Next]_vars => FastInv'
<1> SUFFICES ASSUME FastInv, [Next]_vars PROVE FastInv'
  OBVIOUS
<1>1. CASE Maintain
  BY <1>1, ScheduleDueTypes, RecoverTransitionTypes, RecoverTypes, DisableEmptyTypes DEF Maintain
<1>2. ASSUME NEW j \in Jobs, Claim(j) PROVE FastInv'
  BY <1>2, ClaimTypes
<1>3. ASSUME NEW r \in Requests, Answer(r) PROVE FastInv'
  <2>1. CASE ScanFails(r)
    BY <2>1, AgentJob, SameJobs, EndTypes DEF ScanFails
  <2>2. QED
    BY <1>3, <2>1, ScanSucceedsTypes, PrepareApplyTypes, ReportTypes, ApplyAcceptedTypes,
       VerifyInProgressTypes, SavePolicyTypes, RunNowTypes DEF Answer, Reply
<1>4. CASE Environment
  BY <1>4, EnvironmentTypes
<1>5. CASE UNCHANGED vars
  BY <1>5, SameJobs, SameWorld, StillTypes DEF vars, world, World, FastInv, Tables
<1>6. QED
  BY <1>1, <1>2, <1>3, <1>4, <1>5, ReadTypes DEF Next, Other

LEMMA InitTypes == Init => FastInv
<1> SUFFICES ASSUME Init PROVE FastInv
  OBVIOUS
<1>1. job \in Rows /\ call \in Calls
  BY NoRowType DEF Init, Rows, Calls
<1>2. job \in [Jobs -> JobRow]
  BY <1>1 DEF Rows, ProperRow
<1>3. call \in [Requests -> [op: Operations \cup {None}, job: Jobs \cup {NoJob},
                              row: JobRow, paused: BOOLEAN]]
  BY <1>1 DEF Calls, CallRow, ProperRow
<1>4. \A r \in Requests : CallFits(r)
  BY DEF Init, CallFits, NoCall, None
<1>5. 0 \in 0..MaxEvents
  BY FastDumpingConstants
<1>6. QED
  BY <1>1, <1>2, <1>3, <1>4, <1>5, NoRowType, NewStateType DEF Init, FastInv, Tables

\* Every row, plan and state has its type in every reachable state: no lease
\* counts a try beyond its limit (claim_agent_job, recover_expired_jobs), and
\* no event takes stock or a price out of range.
THEOREM FastTypeOK == Spec => []TypeOK
<1> DEFINE Inv == FastInv /\ raced \in BOOLEAN
<1>1. Init => Inv
  BY InitTypes DEF Init
<1>2. Inv /\ [Next]_vars => Inv'
  <2> SUFFICES ASSUME Inv, [Next]_vars PROVE raced' \in BOOLEAN
    BY NextTypes
  <2>1. \A r \in Requests : Overtaken(r) \in BOOLEAN
    BY DEF Overtaken
  <2>2. QED
    BY <2>1 DEF Next, Other, Answer, vars
<1>3. Inv => TypeOK
  BY DEF FastInv, TypeOK
<1> HIDE DEF Inv
<1>4. QED
  BY <1>1, <1>2, <1>3, PTL DEF Spec

\* Only prepare-apply hands a write out.
LEMMA HandsOut ==
  ASSUME FastInv, [Next]_vars, NEW j \in sent' \ sent
  PROVE  \E r \in Requests : PrepareApply(r) /\ HandOut(r, j, call[r].row.plan) /\ call[r].job = j
<1>1. CASE Maintain
  BY <1>1 DEF Maintain, ScheduleDue, RecoverTransition, Recover, DisableEmpty
<1>2. ASSUME NEW k \in Jobs, Claim(k) PROVE FALSE
  BY <1>2 DEF Claim
<1>3. ASSUME NEW r \in Requests, Read(r) PROVE FALSE
  BY <1>3 DEF Read, AgentReads, SaveReads, RunReads, Open
<1>4. ASSUME NEW r \in Requests, Answer(r)
      PROVE  PrepareApply(r) /\ HandOut(r, j, call[r].row.plan) /\ call[r].job = j
  <2>1. ASSUME NEW m \in Markets, ScanSucceeds(r, m) PROVE FALSE
    BY <2>1 DEF ScanSucceeds, Reactivate, Decide, Finish
  <2>2. CASE PrepareApply(r)
    BY <2>2 DEF PrepareApply, Stale, Finish, End, HandOut
  <2>3. CASE ScanFails(r) \/ ApplyAccepted(r) \/ VerifyInProgress(r) \/ RunNow(r)
    BY <2>3 DEF ScanFails, End, ApplyAccepted, VerifyInProgress, RunNow
  <2>4. ASSUME NEW b \in BOOLEAN, ApplyEnds(r, b) \/ VerifyEnds(r, b) \/ SavePolicy(r, b) PROVE FALSE
    BY <2>4 DEF ApplyEnds, VerifyEnds, Settle, SavePolicy
  <2>5. QED
    BY <1>4, <2>1, <2>2, <2>3, <2>4 DEF Answer, Reply
<1>5. CASE Environment
  BY <1>5 DEF Environment, CooldownEnds, Resume, RemoveProduct, StockChanges, SwitchSale, Sync,
              SupplierChanges, MutationEnds
<1>6. CASE UNCHANGED vars
  BY <1>6 DEF vars
<1>7. QED
  BY <1>1, <1>2, <1>3, <1>4, <1>5, <1>6 DEF Next, Other

\* A write that prepare-apply hands to the agent fits the warehouse and the
\* supplier of that very step, and the product may be sold and is not paused,
\* although the plan was made by an earlier scan and read before the lock was
\* taken: supply events in between either changed the job's revision or made
\* the plan outdated, and both are refused under the lock.
THEOREM HandedIsCurrent == Spec => HandedPlanIsCurrent
<1> DEFINE Current(j) ==
       LET plan == job'[j].plan
       IN /\ Sellable /\ ~state.paused
          /\ CASE plan.mode = "inventory" ->
                    /\ stock > 0 /\ plan.stock = stock
                    /\ plan.price >= Floor(InventoryCost)
               [] plan.mode = "preorder" ->
                    /\ stock = 0
                    /\ supplier \in SupplierOffers /\ plan.days = supplier.days
               [] OTHER -> stock = 0 /\ supplier \notin SupplierOffers
<1>1. ASSUME FastInv, [Next]_vars, NEW j \in sent' \ sent PROVE Current(j)
  <2>1. PICK r \in Requests : PrepareApply(r) /\ HandOut(r, j, call[r].row.plan) /\ call[r].job = j
    BY <1>1, HandsOut
  <2> DEFINE plan == call[r].row.plan
  <2>2. /\ call[r].op = "prepare" /\ ~Superseded(j, call[r].row) /\ ~Outdated(plan)
    <3>1. j \in sent' /\ j \notin sent
      OBVIOUS
    <3>2. QED
      BY <2>1, <3>1 DEF PrepareApply, Stale, Finish, End
  <2>3. j \in Jobs /\ plan \in PlanRow /\ plan.mode # None /\ job[j].plan = plan
    BY <1>1, <2>1, <2>2, AgentJob DEF FastInv, CallFits, Superseded
  <2>4. job'[j].plan = plan
    BY <1>1, <2>1, <2>3, SameJobs, WriteType DEF HandOut
  <2>5. Sellable /\ ~state.paused
    BY <2>2 DEF Superseded
  <2>6. plan.price \in Nat /\ plan.mode \in {"inventory", "preorder", "off"}
        /\ plan.sync \in BOOLEAN /\ plan.market \in Markets \cup {NoMarket}
    BY <2>3 DEF PlanRow
  <2>7. CASE plan.mode = "inventory"
    <3>1. stock # 0 /\ stock = plan.stock
      BY <2>2, <2>6, <2>7 DEF Outdated
    <3>2. plan.price >= Floor(InventoryCost)
      <4>1. CASE plan.sync
        BY <2>2, <2>6, <2>7, <4>1, Limits DEF Outdated, Floor
      <4>2. CASE ~plan.sync
        BY <2>2, <2>6, <2>7, <4>2, Limits, PricedAboveFloor DEF Outdated
      <4>3. QED
        BY <4>1, <4>2
    <3>3. QED
      BY <1>1, <2>4, <2>5, <2>7, <3>1, <3>2, SourceType
  <2>8. CASE plan.mode = "preorder"
    BY <1>1, <2>2, <2>4, <2>5, <2>8, SourceType DEF Outdated
  <2>9. CASE plan.mode = "off"
    BY <1>1, <2>2, <2>4, <2>5, <2>9, SourceType DEF Outdated
  <2>10. QED
    BY <2>6, <2>7, <2>8, <2>9
<1>2. FastInv /\ [Next]_vars => [\A j \in sent' \ sent : Current(j)]_vars
  BY <1>1
<1>3. QED
  BY <1>2, InitTypes, NextTypes, PTL DEF Spec, HandedPlanIsCurrent

-----------------------------------------------------------------------------
\* The statuses of a job that is still to be scanned or written.
Rewritten == {"queued_scan", "leased_scan", "queued_apply"}

\* What request r has read of its job: it stood where the operation belongs.
CallStands(r) ==
  LET c == call[r]
  IN /\ c.op = "scan" => c.row.status = "leased_scan"
     /\ c.op \in {"prepare", "apply"} => c.row.status = "leased_apply"
     /\ c.op = "verify" => c.row.status = "leased_verify"
     /\ c.job = NoJob => c.row.status = "ended"
CallsStand == \A r \in Requests : CallStands(r)

\* A plan whose write does not wait for the interval since the last one.
Prompt(plan) == plan.mode # "inventory" \/ plan.first

\* A job whose write was sent is past being scanned or written, and a repeated
\* prepare-apply finds nothing to wait for.
SentSettled == \A j \in sent : job[j].status \notin Rewritten
SentPrompt == \A j \in sent : job[j].status = "leased_apply" /\ Cooling => Prompt(job[j].plan)

Orderly == OneActiveJob /\ SentSettled /\ SentPrompt

\* The inductive invariant, for every interleaving.
RaceInv == FastInv /\ CallsStand /\ (~raced => Orderly)

LEMMA StatusFacts ==
  /\ "ended" \notin ActiveStatuses /\ "cancelled" \notin ActiveStatuses /\ NoRow.status = "ended"
  /\ Rewritten \subseteq ActiveStatuses /\ SentStatuses \subseteq ActiveStatuses
  /\ "leased_apply" \in ActiveStatuses
  BY DEF ActiveStatuses, QueuedStatuses, LeasedStatuses, NoRow, Rewritten, SentStatuses

\* What an open request has read is only forgotten or made older.
LEMMA CallsKept ==
  ASSUME FastInv, CallsStand, CallStep
  PROVE  CallsStand'
<1> SUFFICES ASSUME NEW r \in Requests PROVE CallStands(r)'
  BY DEF CallsStand
<1>1. CASE call'[r] = NoCall
  BY <1>1 DEF CallStands, NoCall, NoRow, None
<1>2. CASE call'[r] # NoCall
  <2>1. call'[r].op = call[r].op /\ call'[r].job = call[r].job
    BY <1>2, BumpedCallType DEF CallStep
  <2>2. call'[r].row.status = call[r].row.status
    <3>1. [call[r].row EXCEPT !.current = FALSE].status = call[r].row.status
      BY AgentJob DEF ProperRow, JobRow
    <3>2. QED
      BY <1>2, <3>1, BumpedCallType DEF CallStep
  <2>3. QED
    BY <2>1, <2>2 DEF CallsStand, CallStands
<1>3. QED
  BY <1>1, <1>2

LEMMA OpenStands ==
  ASSUME FastInv, CallsStand, NEW r \in Requests, NEW op \in Operations,
         NEW j \in Jobs \cup {NoJob}, Open(r, op, j),
         op \notin {"save", "run"} => j \in Jobs,
         op = "scan" => job[j].status = "leased_scan",
         op \in {"prepare", "apply"} => job[j].status = "leased_apply",
         op = "verify" => job[j].status = "leased_verify"
  PROVE  CallsStand'
<1> DEFINE new == [op |-> op, job |-> j, paused |-> state.paused,
                   row |-> IF j = NoJob THEN NoRow ELSE job[j]]
<1>1. \A q \in Requests : call'[q] = IF q = r THEN new ELSE call[q]
  BY DEF Open, FastInv, Calls
<1>2. CallStands(r)'
  BY <1>1, StatusFacts, FastDumpingConstants DEF CallStands
<1>3. ASSUME NEW q \in Requests \ {r} PROVE CallStands(q)'
  BY <1>1 DEF CallsStand, CallStands
<1>4. QED
  BY <1>2, <1>3 DEF CallsStand

LEMMA ReadStands ==
  ASSUME FastInv, CallsStand, NEW r \in Requests, Read(r) PROVE CallsStand'
<1>1. ASSUME NEW op \in {"scan", "prepare", "apply", "verify"}, NEW j \in Jobs, AgentReads(r, op, j)
      PROVE  CallsStand'
  <2>1. /\ op = "scan" => job[j].status = "leased_scan"
        /\ op \in {"prepare", "apply"} => job[j].status = "leased_apply"
        /\ op = "verify" => job[j].status = "leased_verify"
        /\ Open(r, op, j)
    BY <1>1 DEF AgentReads
  <2>2. QED
    BY <1>1, <2>1, OpenStands DEF Operations
<1>2. state.active \in Jobs \cup {NoJob}
  BY SameJobs DEF StateRow
<1>3. CASE SaveReads(r)
  BY <1>2, <1>3, OpenStands DEF SaveReads, Operations
<1>4. CASE RunReads(r)
  BY <1>2, <1>4, OpenStands DEF RunReads, Operations
<1>5. QED
  BY <1>1, <1>3, <1>4 DEF Read

\* Every step but a read leaves, ends or bumps the open requests.
LEMMA NextStands == FastInv /\ CallsStand /\ [Next]_vars => CallsStand'
<1> SUFFICES ASSUME FastInv, CallsStand, [Next]_vars PROVE CallsStand'
  OBVIOUS
<1>1. CASE call' = call \/ call' = BumpedCalls
  BY <1>1, QuietCallStep, CallsKept
<1>2. CASE Maintain
  BY <1>1, <1>2 DEF Maintain, ScheduleDue, RecoverTransition, Recover, DisableEmpty, Disabled
<1>3. ASSUME NEW j \in Jobs, Claim(j) PROVE CallsStand'
  BY <1>1, <1>3 DEF Claim
<1>4. ASSUME NEW r \in Requests, Read(r) PROVE CallsStand'
  BY <1>4, ReadStands
<1>5. ASSUME NEW r \in Requests, Reply(r) PROVE CallsStand'
  <2>1. CASE Answered(r, call) \/ Answered(r, BumpedCalls)
    BY <2>1, AnsweredStep, CallsKept
  <2>2. ASSUME NEW m \in Markets, ScanSucceeds(r, m) PROVE CallsStand'
    BY <2>1, <2>2 DEF ScanSucceeds, Reactivate, Decide, Finish
  <2>3. CASE PrepareApply(r)
    BY <2>1, <2>3 DEF PrepareApply, Stale, Finish, End, HandOut
  <2>4. CASE ScanFails(r) \/ ApplyAccepted(r) \/ VerifyInProgress(r) \/ RunNow(r)
    BY <2>1, <2>4 DEF ScanFails, End, ApplyAccepted, VerifyInProgress, RunNow
  <2>5. ASSUME NEW b \in BOOLEAN, ApplyEnds(r, b) \/ VerifyEnds(r, b) \/ SavePolicy(r, b)
        PROVE  CallsStand'
    BY <2>1, <2>5 DEF ApplyEnds, VerifyEnds, Settle, SavePolicy
  <2>6. QED
    BY <1>5, <2>2, <2>3, <2>4, <2>5 DEF Reply
<1>6. CASE Environment
  <2>1. ASSUME NEW n, NEW s, Sync(n, s) PROVE CallsStand'
    BY <1>1, <2>1 DEF Sync, Disabled, Replan
  <2>2. QED
    BY <1>1, <1>6, <2>1 DEF Environment, CooldownEnds, Resume, RemoveProduct, StockChanges, SwitchSale,
                            SupplierChanges, MutationEnds
<1>7. CASE UNCHANGED vars
  BY <1>1, <1>7 DEF vars
<1>8. QED
  BY <1>2, <1>3, <1>4, <1>5, <1>6, <1>7 DEF Next, Other, Answer

LEMMA Statuses ==
  ASSUME NEW rows \in Rows, NEW j \in Jobs, NEW status, NEW k \in Jobs
  PROVE  /\ With(rows, j, status)[k].status = IF k = j THEN status ELSE rows[k].status
         /\ Bumped(rows)[k].status = rows[k].status
         /\ With(rows, j, status)[k].plan = rows[k].plan /\ Bumped(rows)[k].plan = rows[k].plan
  BY DEF With, Bumped, Rows, ProperRow, JobRow

LEMMA OrderlyJobs ==
  ASSUME FastInv, Orderly
  PROVE  /\ job \in Rows /\ state \in StateRow /\ sent \subseteq Jobs
         /\ Bumped(job) \in Rows
         /\ \A j \in Jobs : job[j].status \in ActiveStatuses => state.active = j
         /\ \A j \in sent : job[j].status \notin Rewritten
  BY SameJobs, BumpedType DEF Orderly, OneActiveJob, SentSettled, FastInv, Tables

(* Whoever writes the rows keeps the order when the state names the one active
   row, no sent row is queued to be written again and none waits. *)
LEMMA Written ==
  ASSUME FastInv', NEW rows \in Rows, Write(rows),
         \A j \in Jobs : rows[j].status \in ActiveStatuses => state'.active = j,
         \A j \in sent' : rows[j].status \notin Rewritten,
         \A j \in sent' : rows[j].status = "leased_apply" /\ state'.wrote = "recent" => Prompt(rows[j].plan)
  PROVE  Orderly'
<1>1. \A j \in Jobs : job'[j] = rows[j] \/ job'[j] = NoRow
  BY WriteType
<1>2. NoRow.status # "leased_apply"
  BY StatusFacts
<1>3. OneActiveJob' /\ SentSettled'
  BY <1>1, StatusFacts DEF OneActiveJob, SentSettled, FastInv, Tables
<1>4. SentPrompt'
  BY <1>1, <1>2 DEF SentPrompt, Cooling, FastInv, Tables
<1>5. QED
  BY <1>3, <1>4 DEF Orderly

\* No row goes on.
LEMMA WrittenIdle ==
  ASSUME FastInv', NEW rows \in Rows, Write(rows), \A j \in Jobs : rows[j].status \notin ActiveStatuses
  PROVE  Orderly'
<1>1. sent' \subseteq Jobs
  BY DEF FastInv, Tables
<1>2. QED
  BY <1>1, StatusFacts, Written

\* The rows stand as before, whatever else is written to them.
SameStand(rows) ==
  \A j \in Jobs : rows[j].status = job[j].status /\ rows[j].plan = job[j].plan

LEMMA WrittenAlike ==
  ASSUME FastInv, Orderly, FastInv', NEW rows \in Rows, Write(rows), SameStand(rows),
         state'.active = state.active, state'.wrote = state.wrote, sent' \subseteq sent
  PROVE  Orderly'
<1>1. \A j \in sent' : rows[j].status = job[j].status /\ rows[j].plan = job[j].plan
  BY OrderlyJobs DEF SameStand
<1>2. \A j \in sent' : rows[j].status = "leased_apply" /\ state'.wrote = "recent" => Prompt(rows[j].plan)
  BY <1>1 DEF Orderly, SentPrompt, Cooling
<1>3. QED
  BY <1>1, <1>2, OrderlyJobs, Written DEF SameStand

\* Only the active job moves on, and not back or into its hand-out.
LEMMA WrittenOne ==
  ASSUME FastInv, Orderly, FastInv', NEW j \in Jobs, job[j].status \in ActiveStatuses,
         NEW rows \in Rows, \A k \in Jobs \ {j} : rows[k].status = job[k].status,
         rows[j].status \notin Rewritten \/ j \notin sent,
         rows[j].status # "leased_apply" \/ j \notin sent,
         Write(rows), rows[j].status \in ActiveStatuses => state'.active = j, sent' \subseteq sent
  PROVE  Orderly'
<1>1. \A k \in Jobs \ {j} : rows[k].status \notin ActiveStatuses
  BY OrderlyJobs
<1>2. \A k \in sent' : rows[k].status \notin Rewritten /\ rows[k].status # "leased_apply"
  BY <1>1, OrderlyJobs, StatusFacts
<1>3. QED
  BY <1>1, <1>2, Written

LEMMA NewScanOrderly ==
  ASSUME FastInv, FastInv', NEW rows \in Rows, NEW row \in StateRow, NEW urgent \in BOOLEAN,
         NewScan(rows, row, urgent), \A j \in Jobs : rows[j].status \notin ActiveStatuses, sent' \subseteq sent
  PROVE  Orderly'
<1>1. PICK n \in Jobs :
        /\ Fresh(n)
        /\ Write([rows EXCEPT ![n] = [NoRow EXCEPT !.status = "queued_scan", !.urgent = urgent]])
        /\ state' = [row EXCEPT !.active = n, !.parked = FALSE]
  BY DEF NewScan
<1> DEFINE new == [NoRow EXCEPT !.status = "queued_scan", !.urgent = urgent]
           written == [rows EXCEPT ![n] = new]
<1>2. new \in ProperRow
  BY NoRowType, FastDumpingConstants
     DEF NoRow, ProperRow, Proper, Decided, JobRow, ActiveStatuses, QueuedStatuses
<1>3. written \in Rows /\ \A j \in Jobs : j # n => written[j] = rows[j]
  BY <1>2 DEF Rows
<1>4. state'.active = n
  BY <1>1 DEF StateRow
<1>5. \A j \in sent' : written[j].status \notin ActiveStatuses
  BY <1>1, <1>3 DEF Fresh, FastInv, Tables
<1>6. QED
  BY <1>1, <1>3, <1>4, <1>5, StatusFacts, Written

LEMMA QueueScanOrderly ==
  ASSUME FastInv, Orderly, FastInv', NEW rows \in Rows, NEW row \in StateRow,
         NEW on \in BOOLEAN, NEW urgent \in BOOLEAN, QueueScan(rows, row, on, urgent),
         SameStand(rows) \/ \A j \in Jobs : rows[j].status \notin ActiveStatuses,
         row.active = state.active \/ \A j \in Jobs : rows[j].status \notin ActiveStatuses,
         row.wrote = state.wrote, sent' \subseteq sent
  PROVE  Orderly'
<1>1. CASE \A j \in Jobs : rows[j].status \notin ActiveStatuses
  <2>1. CASE NewScan(rows, row, urgent)
    BY <1>1, <2>1, NewScanOrderly
  <2>2. CASE Write(rows)
    BY <1>1, <2>2, WrittenIdle
  <2>3. QED
    BY <2>1, <2>2 DEF QueueScan
<1>2. CASE SameStand(rows) /\ IsActive(rows, row.active) /\ row.active = state.active
  <2>1. Write(rows) /\ state' = row
    BY <1>2 DEF QueueScan
  <2>2. QED
    BY <1>2, <2>1, WrittenAlike
<1>3. CASE SameStand(rows) /\ ~IsActive(rows, row.active) /\ row.active = state.active
  <2>1. \A j \in Jobs : rows[j].status \notin ActiveStatuses
    BY <1>3, OrderlyJobs, FastDumpingConstants DEF IsActive, SameStand
  <2>2. QED
    BY <1>1, <2>1
<1>4. QED
  BY <1>1, <1>2, <1>3

\* One lemma per action, as above.
LEMMA ScheduleDueOrderly ==
  ASSUME FastInv, Orderly, FastInv', ScheduleDue PROVE Orderly'
<1>1. SameStand(job)
  BY DEF SameStand
<1>2. QED
  BY <1>1, OrderlyJobs, QueueScanOrderly DEF ScheduleDue

LEMMA RecoverTransitionOrderly ==
  ASSUME FastInv, Orderly, FastInv', RecoverTransition PROVE Orderly'
<1>1. CASE IsActive(job, state.active)
  <2> DEFINE rows == [job EXCEPT ![state.active].urgent = TRUE]
  <2>1. state.active \in Jobs
    BY <1>1, OrderlyJobs DEF IsActive, StateRow
  <2>2. rows \in Rows /\ SameStand(rows)
    <3>1. rows \in Rows /\ job[state.active] \in JobRow
      BY <2>1, UrgentType, OrderlyJobs DEF Rows, ProperRow
    <3>2. /\ [job[state.active] EXCEPT !.urgent = TRUE].status = job[state.active].status
          /\ [job[state.active] EXCEPT !.urgent = TRUE].plan = job[state.active].plan
      BY <3>1 DEF JobRow
    <3>3. QED
      BY <2>1, <3>1, <3>2, OrderlyJobs DEF Rows, SameStand
  <2>3. Write(rows) /\ UNCHANGED <<state, sent>>
    BY <1>1 DEF RecoverTransition
  <2>4. QED
    BY <2>2, <2>3, WrittenAlike
<1>2. CASE ~IsActive(job, state.active)
  <2>1. SameStand(job)
    BY DEF SameStand
  <2>2. QED
    BY <1>2, <2>1, OrderlyJobs, QueueScanOrderly DEF RecoverTransition
<1>3. QED
  BY <1>1, <1>2

LEMMA ClaimOrderly ==
  ASSUME FastInv, Orderly, FastInv', NEW j \in Jobs, Claim(j) PROVE Orderly'
<1> DEFINE row == job[j]
           next == CASE row.status = "queued_scan" ->
                          [row EXCEPT !.status = "leased_scan", !.tries = @ + 1]
                     [] row.status = "queued_apply" -> [row EXCEPT !.status = "leased_apply"]
                     [] row.status = "queued_verify" -> [row EXCEPT !.status = "leased_verify"]
           rows == [job EXCEPT ![j] = next]
<1>1. row \in ProperRow /\ row.status \in QueuedStatuses
  BY OrderlyJobs DEF Claim, Rows
<1>2. next \in ProperRow
  <2>1. CASE row.status = "queued_scan"
    <3>1. row \in JobRow /\ row.tries + 1 \in 0..(MaxScanAttempts + MaxVerifyAttempts)
      BY <1>1, <2>1, Limits DEF ProperRow, Proper, JobRow
    <3>2. next \in JobRow /\ next.status = "leased_scan"
      BY <3>1, <2>1 DEF JobRow, ActiveStatuses, LeasedStatuses
    <3>3. QED
      BY <3>2 DEF ProperRow, Proper, Decided
  <2>2. CASE row.status \in {"queued_apply", "queued_verify"}
    BY <1>1, <2>2 DEF ProperRow, Proper, Decided, JobRow, ActiveStatuses, QueuedStatuses, LeasedStatuses
  <2>3. QED
    BY <1>1, <2>1, <2>2 DEF QueuedStatuses
<1>3. next.status = CASE row.status = "queued_scan" -> "leased_scan"
                      [] row.status = "queued_apply" -> "leased_apply"
                      [] row.status = "queued_verify" -> "leased_verify"
  BY <1>1 DEF ProperRow, JobRow, QueuedStatuses
<1>4. rows \in Rows /\ rows[j] = next /\ \A k \in Jobs \ {j} : rows[k] = job[k]
  BY <1>2, OrderlyJobs DEF Rows
<1>5. row.status \in Rewritten => j \notin sent
  BY OrderlyJobs
<1>6. /\ next.status \notin Rewritten \/ j \notin sent
      /\ next.status # "leased_apply" \/ j \notin sent
  BY <1>1, <1>3, <1>5 DEF Rewritten, QueuedStatuses
<1>7. state'.active = j /\ sent' = sent /\ Write(rows)
  BY OrderlyJobs DEF Claim, StateRow
<1>8. row.status \in ActiveStatuses
  BY <1>1 DEF ActiveStatuses
<1> HIDE DEF next, rows, row
<1>9. QED
  BY <1>4, <1>6, <1>7, <1>8, WrittenOne DEF row

LEMMA RecoverOrderly ==
  ASSUME FastInv, Orderly, FastInv', NEW j \in Jobs, Recover(j) PROVE Orderly'
<1> DEFINE next == AfterExpiry(j)
           rows == With(job, j, next)
<1>1. state.active = j /\ job[j].status \in LeasedStatuses /\ job[j].status \in ActiveStatuses
  BY OrderlyJobs DEF Recover, ActiveStatuses
<1>2. rows \in Rows
  BY <1>1, OrderlyJobs, WithType
     DEF AfterExpiry, Rows, ProperRow, Proper, Decided, ActiveStatuses, QueuedStatuses, LeasedStatuses
<1>3. next \in {"queued_verify", "queued_scan", "ended"}
      /\ (next = "queued_scan" => job[j].status = "leased_scan")
  BY <1>1 DEF AfterExpiry
<1>4. \A k \in Jobs : rows[k].status = IF k = j THEN next ELSE job[k].status
  BY OrderlyJobs, Statuses
<1>5. Write(rows) /\ sent' \subseteq sent
  BY DEF Recover
<1>6. next # "ended" => state'.active = j
  BY <1>1, OrderlyJobs DEF Recover, StateRow
<1>7. rows[j].status \in ActiveStatuses => state'.active = j
  BY <1>4, <1>6, StatusFacts
<1>8. rows[j].status # "leased_apply" /\ (rows[j].status \notin Rewritten \/ j \notin sent)
  BY <1>3, <1>4, OrderlyJobs DEF Rewritten
<1>9. QED
  BY <1>1, <1>2, <1>4, <1>5, <1>7, <1>8, WrittenOne

\* A request that answers in time finds its job where its operation belongs.
LEMMA OnTime ==
  ASSUME FastInv, CallsStand, NEW r \in Requests, ~Overtaken(r)
  PROVE  /\ call[r].op = "scan" => job[call[r].job].status = "leased_scan"
         /\ call[r].op \in {"prepare", "apply"} => job[call[r].job].status = "leased_apply"
         /\ call[r].op = "verify" => job[call[r].job].status = "leased_verify"
         /\ call[r].op \in {"save", "run"} => call[r].job = state.active
         /\ call[r].job # NoJob => job[call[r].job].status = call[r].row.status
         /\ call[r].job = NoJob => call[r].row.status = "ended"
<1>1. CallStands(r)
  BY DEF CallsStand
<1>2. call[r].op \in {"scan", "prepare", "apply", "verify"} => call[r].job \in Jobs
  BY AgentJob
<1>3. QED
  BY <1>1, <1>2, FastDumpingConstants DEF CallStands, Overtaken

\* The active job ends: nothing goes on.
LEMMA EndedOrderly ==
  ASSUME FastInv, Orderly, FastInv', NEW j \in Jobs, job[j].status \in ActiveStatuses,
         NEW rows \in {job, Bumped(job)}, Write(With(rows, j, "ended"))
  PROVE  Orderly'
<1>1. rows \in Rows /\ \A k \in Jobs : rows[k].status = job[k].status
  BY OrderlyJobs, Statuses
<1>2. With(rows, j, "ended") \in Rows
  BY <1>1, WithType DEF Decided
<1>3. \A k \in Jobs : With(rows, j, "ended")[k].status = IF k = j THEN "ended" ELSE job[k].status
  BY <1>1, Statuses
<1>4. QED
  BY <1>2, <1>3, OrderlyJobs, StatusFacts, WrittenIdle

LEMMA FinishOrderly ==
  ASSUME FastInv, Orderly, FastInv', NEW r \in Requests, NEW j \in Jobs,
         job[j].status \in ActiveStatuses, NEW row, End(r, j, row) \/ Finish(r, j, row)
  PROVE  Orderly'
  BY EndedOrderly DEF End, Finish

LEMMA DecideOrderly ==
  ASSUME FastInv, Orderly, FastInv', NEW r \in Requests, NEW j \in Jobs,
         job[j].status = "leased_scan", NEW row \in StateRow, row.active = j,
         NEW plan \in PlanRow, plan.mode # None, NEW urgent \in BOOLEAN,
         Decide(r, j, row, plan, urgent)
  PROVE  Orderly'
<1> DEFINE new == [status |-> "queued_apply", urgent |-> urgent, tries |-> 0,
                   current |-> TRUE, plan |-> plan]
           rows == [Bumped(job) EXCEPT ![j] = new]
<1>1. new \in ProperRow
  BY Limits DEF ProperRow, Proper, JobRow, ActiveStatuses, QueuedStatuses
<1>2. rows \in Rows /\ rows[j].status = "queued_apply" /\ \A k \in Jobs \ {j} : rows[k].status = job[k].status
  <2>1. rows \in Rows /\ rows[j] = new /\ \A k \in Jobs \ {j} : rows[k] = Bumped(job)[k]
    BY <1>1, OrderlyJobs DEF Rows
  <2>2. \A k \in Jobs : Bumped(job)[k].status = job[k].status
    BY OrderlyJobs, Statuses
  <2>3. QED
    BY <2>1, <2>2
<1>3. Write(rows) /\ state' = row /\ sent' \subseteq sent
  BY DEF Decide
<1>4. job[j].status \in ActiveStatuses /\ j \notin sent
  BY OrderlyJobs DEF ActiveStatuses, LeasedStatuses, Rewritten
<1> HIDE DEF rows
<1>5. QED
  BY <1>2, <1>3, <1>4, WrittenOne

LEMMA ScanSucceedsOrderly ==
  ASSUME FastInv, CallsStand, Orderly, FastInv', NEW r \in Requests, ~Overtaken(r),
         NEW m \in Markets, ScanSucceeds(r, m)
  PROVE  Orderly'
<1> DEFINE j == call[r].job
           seen == Seen(m)
           fresh == Measured(m)
           urgent == job[j].urgent
           syncPlan == [InventoryPlan(m, m.own) EXCEPT !.sync = TRUE]
           offPlan == [NoPlan EXCEPT !.mode = "off", !.price = m.own]
           preorderPlan == [NoPlan EXCEPT !.mode = "preorder", !.price = Priced(m, Source.cost),
                               !.stock = PreorderStock, !.days = Source.days]
<1>1. j \in Jobs /\ job[j] \in ProperRow /\ urgent \in BOOLEAN
  BY AgentJob, SameJobs DEF ScanSucceeds, Rows, ProperRow, JobRow
<1>2. job[j].status = "leased_scan" /\ job[j].status \in ActiveStatuses /\ state.active = j
  BY <1>1, OnTime, OrderlyJobs DEF ScanSucceeds, ActiveStatuses, LeasedStatuses
<1>3. fresh \in StateRow /\ m.own \in Nat /\ m.ok \in BOOLEAN /\ fresh.active = j
  <2>1. Seen(m) \in StateRow /\ Seen(m).active = state.active
    BY ScanRows, SameJobs DEF Seen, StateRow
  <2>2. fresh.active = state.active
    BY <2>1 DEF Measured, StateRow
  <2>3. QED
    BY <1>2, <2>2, ScanRows
<1>4. /\ syncPlan \in PlanRow /\ syncPlan.mode = "inventory"
      /\ [syncPlan EXCEPT !.first = TRUE] \in PlanRow
      /\ [syncPlan EXCEPT !.first = TRUE].mode = "inventory"
  <2>1. syncPlan \in PlanRow /\ syncPlan.mode = "inventory"
    BY <1>3, PlanTypes, FlagTypes
  <2> HIDE DEF syncPlan
  <2>2. QED
    BY <2>1, FlagTypes
<1>5. /\ preorderPlan \in PlanRow /\ preorderPlan.mode = "preorder"
      /\ offPlan \in PlanRow /\ offPlan.mode = "off"
  BY <1>3, PlanTypes, PricedAboveFloor, SourceType DEF NoPlan
<1>6. ASSUME NEW row \in StateRow, NEW plan \in PlanRow, plan.mode # None, NEW u \in BOOLEAN,
             Reactivate(r, j, row, plan, u)
      PROVE  Orderly'
  <2>1. [row EXCEPT !.active = j] \in StateRow /\ [row EXCEPT !.active = j].active = j
    BY <1>1 DEF StateRow
  <2>2. QED
    BY <1>1, <1>2, <1>6, <2>1, DecideOrderly DEF Reactivate
<1> HIDE DEF syncPlan, offPlan, preorderPlan, fresh, seen, urgent
<1>7. ASSUME NEW row, Finish(r, j, row) PROVE Orderly'
  BY <1>1, <1>2, <1>7, FinishOrderly
<1>8. CASE Reactivate(r, j, fresh, [syncPlan EXCEPT !.first = TRUE], TRUE)
  BY <1>3, <1>4, <1>6, <1>8 DEF None
<1>9. CASE Decide(r, j, fresh, InventoryPlan(m, Priced(m, InventoryCost)), urgent)
  BY <1>1, <1>2, <1>3, <1>9, Limits, DecideOrderly, PlanTypes, PricedAboveFloor DEF None
<1>10. CASE Reactivate(r, j, fresh, syncPlan, urgent)
  BY <1>1, <1>3, <1>4, <1>6, <1>10 DEF None
<1>11. CASE Reactivate(r, j, [fresh EXCEPT !.desired = PreorderStock], preorderPlan, urgent)
  <2>1. [fresh EXCEPT !.desired = PreorderStock] \in StateRow
    BY <1>3, Limits DEF StateRow
  <2>2. QED
    BY <1>1, <1>5, <1>6, <1>11, <2>1 DEF None
<1>12. CASE Reactivate(r, j, fresh, offPlan, urgent)
  BY <1>1, <1>3, <1>5, <1>6, <1>12 DEF None
<1>13. CASE LET rest == IF state.active \in {j, NoJob} THEN NoJob ELSE state.active
                keep == rest # NoJob /\ job[rest].status \in SentStatuses
            IN Write([k \in Jobs |->
                        IF k = j THEN [Bumped(job)[k] EXCEPT !.status = "ended"]
                        ELSE IF k = rest /\ ~keep
                        THEN [Bumped(job)[k] EXCEPT !.status = "cancelled"]
                        ELSE Bumped(job)[k]])
  <2>1. Write([k \in Jobs |-> IF k = j THEN [Bumped(job)[k] EXCEPT !.status = "ended"]
                              ELSE Bumped(job)[k]])
    BY <1>1, <1>2, <1>13, FastDumpingConstants
  <2>2. With(Bumped(job), j, "ended")
          = [k \in Jobs |-> IF k = j THEN [Bumped(job)[k] EXCEPT !.status = "ended"]
                            ELSE Bumped(job)[k]]
    BY <1>1, OrderlyJobs DEF With, Rows
  <2>3. QED
    BY <1>1, <1>2, <2>1, <2>2, EndedOrderly
<1> USE DEF syncPlan, offPlan, preorderPlan, fresh, seen, urgent
<1>14. QED
  BY <1>7, <1>8, <1>9, <1>10, <1>11, <1>12, <1>13 DEF ScanSucceeds

LEMMA HandOutOrderly ==
  ASSUME FastInv, Orderly, FastInv', NEW r \in Requests, NEW j \in Jobs, job[j].status = "leased_apply",
         HandOut(r, j, job[j].plan), ~Cooling \/ Prompt(job[j].plan)
  PROVE  Orderly'
<1>1. state'.active = state.active /\ state'.wrote = state.wrote
  BY OrderlyJobs DEF HandOut, StateRow
<1>2. sent' = sent \cup {j} /\ Write(job)
  BY DEF HandOut
<1>3. \A k \in sent' : job[k].status \notin Rewritten
  BY <1>2, OrderlyJobs DEF Rewritten
<1>4. \A k \in sent' : job[k].status = "leased_apply" /\ state'.wrote = "recent" => Prompt(job[k].plan)
  BY <1>1, <1>2 DEF Orderly, SentPrompt, Cooling
<1>5. QED
  BY <1>1, <1>2, <1>3, <1>4, OrderlyJobs, Written

LEMMA PrepareApplyOrderly ==
  ASSUME FastInv, CallsStand, Orderly, FastInv', NEW r \in Requests, ~Overtaken(r), PrepareApply(r)
  PROVE  Orderly'
<1> DEFINE j == call[r].job
           row == call[r].row
           plan == row.plan
           waits == Cooling /\ plan.mode = "inventory" /\ ~plan.first
<1>1. j \in Jobs /\ call[r].op = "prepare"
  BY AgentJob DEF PrepareApply
<1>2. job[j].status = "leased_apply"
  BY <1>1, OnTime
<1>3. ~Superseded(j, row) => job[j].plan = plan
  BY <1>1 DEF FastInv, CallFits, Superseded
<1>4. CASE Stale(r, j, plan) \/ End(r, j, state)
  BY <1>1, <1>2, <1>4, StatusFacts, FinishOrderly DEF Stale
<1>5. CASE /\ ~Superseded(j, row) /\ waits
           /\ UNCHANGED <<confirmed, sent, world>>
           /\ Write(With(job, j, "queued_apply"))
           /\ state' = [state EXCEPT !.parked = FALSE]
  <2> DEFINE rows == With(job, j, "queued_apply")
  <2>1. job[j].plan.mode # None
    BY <1>1 DEF FastInv, CallFits
  <2>2. rows \in Rows
    BY <1>1, <2>1, OrderlyJobs, WithType DEF ActiveStatuses, QueuedStatuses
  <2>3. rows[j].status = "queued_apply" /\ \A k \in Jobs \ {j} : rows[k].status = job[k].status
    BY <1>1, OrderlyJobs, Statuses
  <2>4. state'.active = j
    BY <1>1, <1>2, <1>5, OrderlyJobs, StatusFacts DEF StateRow
  <2>5. j \notin sent
    BY <1>2, <1>3, <1>5 DEF Orderly, SentPrompt, Prompt
  <2> HIDE DEF rows
  <2>6. QED
    BY <1>1, <1>2, <1>5, <2>2, <2>3, <2>4, <2>5, StatusFacts, WrittenOne DEF rows
<1>6. CASE ~Superseded(j, row) /\ ~waits /\ HandOut(r, j, plan)
  BY <1>1, <1>2, <1>3, <1>6, HandOutOrderly DEF Prompt
<1>7. QED
  BY <1>4, <1>5, <1>6 DEF PrepareApply

LEMMA SettleOrderly ==
  ASSUME FastInv, CallsStand, Orderly, FastInv', NEW r \in Requests, ~Overtaken(r),
         call[r].op \in {"apply", "verify"}, NEW row \in StateRow,
         NEW applied, NEW wrote \in {"never", "recent", "old"}, Settle(r, row, applied, wrote)
  PROVE  Orderly'
<1> DEFINE j == call[r].job
           rows == With(job, j, "ended")
           cleared == [row EXCEPT !.parked = FALSE, !.wrote = wrote]
           rest == Cleared(cleared, j)
<1>1. j \in Jobs
  BY AgentJob
<1>2. job[j].status \in ActiveStatuses
  BY OnTime DEF ActiveStatuses, LeasedStatuses
<1>3. rows \in Rows /\ \A k \in Jobs : rows[k].status = IF k = j THEN "ended" ELSE job[k].status
  BY <1>1, OrderlyJobs, WithType, Statuses DEF Decided
<1>4. \A k \in Jobs : rows[k].status \notin ActiveStatuses
  BY <1>1, <1>2, <1>3, OrderlyJobs, StatusFacts
<1>5. rest \in StateRow
  <2>1. cleared \in StateRow
    BY DEF StateRow
  <2>2. QED
    BY <1>1, <2>1, ClearedType
<1>6. sent' \subseteq sent
  BY DEF Settle
<1>7. CASE NewScan(rows, rest, TRUE)
  BY <1>3, <1>4, <1>5, <1>6, <1>7, NewScanOrderly
<1>8. CASE Write(rows)
  BY <1>3, <1>4, <1>8, WrittenIdle
<1>9. QED
  BY <1>7, <1>8 DEF Settle

LEMMA ReportOrderly ==
  ASSUME FastInv, CallsStand, Orderly, FastInv', NEW r \in Requests, ~Overtaken(r),
         NEW outcome \in BOOLEAN, ApplyEnds(r, outcome) \/ VerifyEnds(r, outcome)
  PROVE  Orderly'
<1>1. /\ state.wrote \in {"never", "recent", "old"} /\ state \in StateRow
      /\ [state EXCEPT !.paused = FALSE] \in StateRow
  BY OrderlyJobs DEF StateRow
<1>2. CASE ApplyEnds(r, outcome)
  BY <1>1, <1>2, SettleOrderly DEF ApplyEnds
<1>3. CASE VerifyEnds(r, outcome)
  BY <1>1, <1>3, SettleOrderly DEF VerifyEnds
<1>4. QED
  BY <1>2, <1>3

LEMMA CheckedLaterOrderly ==
  ASSUME FastInv, CallsStand, Orderly, FastInv', NEW r \in Requests, ~Overtaken(r),
         call[r].op \in {"apply", "verify"}, NEW tries \in 0..MaxVerifyAttempts, sent' = sent,
         Write([job EXCEPT ![call[r].job].status = "queued_verify", ![call[r].job].tries = tries]),
         state'.active = state.active
  PROVE  Orderly'
<1> DEFINE j == call[r].job
           new == [job[j] EXCEPT !.status = "queued_verify", !.tries = tries]
           rows == [job EXCEPT ![j].status = "queued_verify", ![j].tries = tries]
<1>1. j \in Jobs /\ job[j] \in ProperRow /\ job[j].plan.mode # None
  BY AgentJob, SameJobs DEF FastInv, CallFits, Rows
<1>2. tries \in 0..(MaxScanAttempts + MaxVerifyAttempts)
  BY Limits
<1>3. new \in ProperRow /\ new.status = "queued_verify"
  BY <1>1, <1>2 DEF ProperRow, Proper, JobRow, ActiveStatuses, QueuedStatuses
<1>4. rows = [job EXCEPT ![j] = new]
  BY <1>1, OrderlyJobs DEF Rows, ProperRow, JobRow
<1>5. /\ rows \in Rows /\ \A k \in Jobs \ {j} : rows[k].status = job[k].status
      /\ rows[j].status = "queued_verify"
  <2> HIDE DEF new
  <2>1. [job EXCEPT ![j] = new] \in Rows
    BY <1>1, <1>3, OrderlyJobs DEF Rows
  <2> HIDE DEF rows
  <2>2. QED
    BY <1>1, <1>3, <1>4, <2>1, OrderlyJobs DEF Rows
<1>6. job[j].status \in ActiveStatuses
  BY OnTime DEF ActiveStatuses, LeasedStatuses
<1>7. state'.active = j
  BY <1>1, <1>6, OrderlyJobs
<1> HIDE DEF rows
<1>8. QED
  BY <1>1, <1>5, <1>6, <1>7, WrittenOne DEF rows, Rewritten

LEMMA LaterOrderly ==
  ASSUME FastInv, CallsStand, Orderly, FastInv', NEW r \in Requests, ~Overtaken(r),
         ApplyAccepted(r) \/ VerifyInProgress(r)
  PROVE  Orderly'
<1>1. CASE ApplyAccepted(r)
  <2>1. 0 \in 0..MaxVerifyAttempts
    BY Limits
  <2>2. state'.active = state.active
    BY <1>1, OrderlyJobs DEF ApplyAccepted, StateRow
  <2>3. QED
    BY <1>1, <2>1, <2>2, CheckedLaterOrderly DEF ApplyAccepted
<1>2. CASE VerifyInProgress(r)
  <2> DEFINE tries == call[r].row.tries + 1
  <2>1. tries \in 0..MaxVerifyAttempts
    BY <1>2, AgentJob, Limits DEF VerifyInProgress, ProperRow, JobRow
  <2>2. state'.active = state.active
    BY <1>2, OrderlyJobs DEF VerifyInProgress, StateRow
  <2>3. QED
    BY <1>2, <2>1, <2>2, CheckedLaterOrderly DEF VerifyInProgress
<1>3. QED
  BY <1>1, <1>2

LEMMA CancelledStatuses ==
  ASSUME FastInv, Orderly, NEW j \in Jobs, state.active = j
  PROVE  \A k \in Jobs : With(Bumped(job), j, "cancelled")[k].status \notin ActiveStatuses
<1>1. \A k \in Jobs : Bumped(job)[k].status = job[k].status
  BY OrderlyJobs, Statuses
<1>2. \A k \in Jobs : With(Bumped(job), j, "cancelled")[k].status = IF k = j THEN "cancelled" ELSE job[k].status
  BY <1>1, OrderlyJobs, Statuses
<1>3. QED
  BY <1>2, OrderlyJobs, StatusFacts

LEMMA SavePolicyOrderly ==
  ASSUME FastInv, CallsStand, Orderly, FastInv', NEW r \in Requests, ~Overtaken(r),
         NEW on \in BOOLEAN, SavePolicy(r, on)
  PROVE  Orderly'
<1> DEFINE j == call[r].job
           known == j # NoJob
           rows == IF ~known THEN job
                   ELSE IF call[r].row.status \in ActiveStatuses
                   THEN With(Bumped(job), j, "cancelled")
                   ELSE Bumped(job)
           row == [state EXCEPT !.active = IF known THEN NoJob ELSE @, !.parked = FALSE]
<1>1. /\ known => j \in Jobs
      /\ j = state.active
      /\ known => job[j].status = call[r].row.status
  BY AgentJob, OnTime DEF SavePolicy
<1>2. rows \in Rows
  BY <1>1, OrderlyJobs, CancelledType
<1>3. \A k \in Jobs : rows[k].status \notin ActiveStatuses
  <2>1. CASE ~known
    BY <1>1, <2>1, OrderlyJobs, FastDumpingConstants
  <2>2. CASE known /\ call[r].row.status \in ActiveStatuses
    BY <1>1, <2>2, CancelledStatuses
  <2>3. CASE known /\ call[r].row.status \notin ActiveStatuses
    <3>1. \A k \in Jobs : rows[k].status = job[k].status
      BY <2>3, OrderlyJobs, Statuses
    <3>2. QED
      BY <1>1, <2>3, <3>1, OrderlyJobs
  <2>4. QED
    BY <2>1, <2>2, <2>3
<1>4. row \in StateRow /\ sent' \subseteq sent
  BY OrderlyJobs DEF StateRow, SavePolicy
<1>5. CASE NewScan(rows, row, FALSE)
  BY <1>2, <1>3, <1>4, <1>5, NewScanOrderly
<1>6. CASE Write(rows)
  BY <1>2, <1>3, <1>6, WrittenIdle
<1>7. QED
  BY <1>5, <1>6 DEF SavePolicy

\* Another mark of urgency on a row.
LEMMA UrgentStand ==
  ASSUME FastInv, Orderly, NEW j \in Jobs, NEW urgent \in BOOLEAN
  PROVE  /\ [job EXCEPT ![j].urgent = urgent] \in Rows
         /\ SameStand([job EXCEPT ![j].urgent = urgent])
<1>1. job[j] \in JobRow
  BY OrderlyJobs DEF Rows, ProperRow
<1>2. /\ [job[j] EXCEPT !.urgent = urgent].status = job[j].status
      /\ [job[j] EXCEPT !.urgent = urgent].plan = job[j].plan
  BY <1>1 DEF JobRow
<1>3. QED
  BY <1>2, UrgentType, OrderlyJobs DEF Rows, SameStand

LEMMA RunNowOrderly ==
  ASSUME FastInv, CallsStand, Orderly, FastInv', NEW r \in Requests, ~Overtaken(r), RunNow(r)
  PROVE  Orderly'
<1> DEFINE j == call[r].job
           status == call[r].row.status
<1>1. /\ j = state.active /\ j \in Jobs \cup {NoJob}
      /\ j = NoJob => status = "ended"
      /\ j # NoJob => job[j].status = status
  BY AgentJob, OnTime DEF RunNow
<1>2. sent' = sent
  BY DEF RunNow
<1>3. CASE status \notin ActiveStatuses
  <2>1. \A k \in Jobs : job[k].status \notin ActiveStatuses
    BY <1>1, <1>3, OrderlyJobs, FastDumpingConstants
  <2>2. NewScan(job, state, FALSE)
    BY <1>3 DEF RunNow
  <2>3. QED
    BY <1>2, <2>1, <2>2, OrderlyJobs, NewScanOrderly
<1>4. CASE status \in ActiveStatuses
  <2>1. j \in Jobs
    BY <1>1, <1>4, StatusFacts
  <2>2. [state EXCEPT !.parked = FALSE].active = state.active /\ [state EXCEPT !.parked = FALSE].wrote = state.wrote
    BY OrderlyJobs DEF StateRow
  <2>3. CASE Write([job EXCEPT ![j].urgent = FALSE]) /\ state' = [state EXCEPT !.parked = FALSE]
    BY <1>2, <2>1, <2>2, <2>3, UrgentStand, WrittenAlike
  <2>4. CASE Write(job) /\ UNCHANGED state
    BY <1>2, <2>4, OrderlyJobs, WrittenAlike DEF SameStand
  <2>5. QED
    BY <1>4, <2>3, <2>4 DEF RunNow
<1>5. QED
  BY <1>3, <1>4

LEMMA RemoveProductOrderly == ASSUME FastInv, Orderly, FastInv', RemoveProduct PROVE Orderly'
<1>1. (\A j \in Jobs : job'[j] = NoRow) /\ sent' \subseteq Jobs
  BY DEF RemoveProduct, FastInv, Tables
<1>2. NoRow.status # "leased_apply"
  BY StatusFacts
<1>3. OneActiveJob' /\ SentSettled' /\ SentPrompt'
  BY <1>1, <1>2, StatusFacts DEF OneActiveJob, SentSettled, SentPrompt
<1>4. QED
  BY <1>3 DEF Orderly

LEMMA ResumeOrderly == ASSUME FastInv, Orderly, FastInv', Resume PROVE Orderly'
<1>1. [state EXCEPT !.paused = FALSE] \in StateRow
  BY OrderlyJobs DEF StateRow
<1>2. \A k \in Jobs : job[k].status \notin ActiveStatuses
  BY OrderlyJobs, FastDumpingConstants DEF Resume
<1>3. QED
  BY <1>1, <1>2, OrderlyJobs, NewScanOrderly DEF Resume

LEMMA DisabledOrderly ==
  ASSUME FastInv, Orderly, FastInv', Disabled(job, state), sent' = sent
  PROVE  Orderly'
<1> DEFINE keep == IsActive(job, state.active) /\ job[state.active].status \in SentStatuses
           cancels == IsActive(job, state.active) /\ ~keep
<1>1. CASE cancels
  <2>1. state.active \in Jobs
    BY <1>1, OrderlyJobs DEF IsActive, StateRow
  <2>2. Write(With(Bumped(job), state.active, "cancelled"))
    BY <1>1 DEF Disabled
  <2>3. QED
    BY <2>1, <2>2, CancelledType, CancelledStatuses, WrittenIdle
<1>2. CASE keep
  <2>1. Write(job) /\ state'.active = state.active /\ state'.wrote = state.wrote
    BY <1>2, OrderlyJobs DEF Disabled, StateRow
  <2>2. QED
    BY <2>1, OrderlyJobs, WrittenAlike DEF SameStand
<1>3. CASE ~IsActive(job, state.active)
  <2>1. Write(job) /\ \A k \in Jobs : job[k].status \notin ActiveStatuses
    BY <1>3, OrderlyJobs, FastDumpingConstants DEF Disabled, IsActive
  <2>2. QED
    BY <2>1, OrderlyJobs, WrittenIdle
<1>4. QED
  BY <1>1, <1>2, <1>3

LEMMA ReplanOrderly ==
  ASSUME FastInv, Orderly, FastInv', NEW n \in 0..MaxStock, Replan(n), sent' = sent
  PROVE  Orderly'
<1> DEFINE incoming == n > 0 /\ (state.onhand = 0 \/ state.kind = "supplier")
           busy == IsActive(job, state.active)
           drops == busy /\ job[state.active].status = "queued_apply"
           row == [state EXCEPT !.onhand = n, !.active = IF drops THEN NoJob ELSE @]
<1>1. busy => state.active \in Jobs
  BY OrderlyJobs DEF IsActive, StateRow
<1>2. row \in StateRow /\ (~drops => row.active = state.active) /\ row.wrote = state.wrote
  BY OrderlyJobs DEF StateRow
<1>3. CASE drops
  <2> DEFINE rows == With(Bumped(job), state.active, "cancelled")
  <2>1. rows \in Rows /\ \A k \in Jobs : rows[k].status \notin ActiveStatuses
    BY <1>1, <1>3, CancelledStatuses, CancelledType
  <2>2. QueueScan(rows, row, TRUE, incoming)
    BY <1>3 DEF Replan
  <2> HIDE DEF rows, row, incoming
  <2>3. incoming \in BOOLEAN
    BY DEF incoming
  <2>4. QED
    BY <1>2, <2>1, <2>2, <2>3, QueueScanOrderly
<1>4. CASE ~drops /\ busy
  <2> DEFINE urgent == job[state.active].urgent \/ incoming
             rows == [job EXCEPT ![state.active].urgent = urgent]
  <2>1. urgent \in BOOLEAN
    BY <1>1, <1>4, OrderlyJobs DEF Rows, ProperRow, JobRow
  <2>2. [job EXCEPT ![state.active].urgent = @ \/ incoming] = rows
    BY <1>1, <1>4, OrderlyJobs DEF Rows
  <2>3. Write([job EXCEPT ![state.active].urgent = @ \/ incoming]) /\ state' = row
    BY <1>4 DEF Replan
  <2> HIDE DEF urgent
  <2>4. rows \in Rows /\ SameStand(rows)
    BY <1>1, <1>4, <2>1, UrgentStand
  <2>5. QED
    BY <1>2, <1>4, <2>2, <2>3, <2>4, WrittenAlike
<1>5. CASE ~drops /\ ~busy
  <2>1. QueueScan(job, row, TRUE, incoming)
    BY <1>5 DEF Replan
  <2>2. SameStand(job)
    BY DEF SameStand
  <2> HIDE DEF row, incoming
  <2>3. incoming \in BOOLEAN
    BY DEF incoming
  <2>4. QED
    BY <1>2, <1>5, <2>1, <2>2, <2>3, OrderlyJobs, QueueScanOrderly
<1>6. QED
  BY <1>3, <1>4, <1>5

\* The rows stay, and a write that was sent waits no longer than before.
LEMMA StillOrderly ==
  ASSUME FastInv, Orderly, UNCHANGED <<job, sent>>, state'.active = state.active,
         state'.wrote \in {state.wrote, "old"}
  PROVE  Orderly'
  BY DEF Orderly, OneActiveJob, SentSettled, SentPrompt, Cooling

LEMMA SyncOrderly ==
  ASSUME FastInv, Orderly, FastInv', NEW n \in 0..MaxStock, NEW s, Sync(n, s)
  PROVE  Orderly'
  BY DisabledOrderly, ReplanOrderly, StillOrderly DEF Sync

LEMMA EnvironmentOrderly ==
  ASSUME FastInv, Orderly, FastInv', Environment PROVE Orderly'
<1>1. CASE CooldownEnds
  <2>1. state'.active = state.active /\ state'.wrote = "old"
    BY <1>1, OrderlyJobs DEF CooldownEnds, StateRow
  <2>2. QED
    BY <1>1, <2>1, StillOrderly DEF CooldownEnds
<1>2. ASSUME NEW n \in 0..MaxStock, StockChanges(n) PROVE Orderly'
  BY <1>2, SyncOrderly DEF StockChanges
<1>3. ASSUME NEW on \in BOOLEAN, SwitchSale(on) PROVE Orderly'
  <2>1. stock \in 0..MaxStock
    BY SourceType
  <2>2. QED
    BY <1>3, <2>1, SyncOrderly, StillOrderly DEF SwitchSale
<1>4. ASSUME NEW s \in SupplierOffers \cup {Unbound, Unavailable}, SupplierChanges(s) PROVE Orderly'
  <2> DEFINE row == [state EXCEPT !.parked = FALSE]
  <2>1. row \in StateRow /\ row.active = state.active /\ row.wrote = state.wrote
    BY OrderlyJobs DEF StateRow
  <2>2. SameStand(job) /\ sent' = sent
    BY <1>4 DEF SameStand, SupplierChanges
  <2>3. CASE QueueScan(job, row, TRUE, FALSE)
    BY <2>1, <2>2, <2>3, OrderlyJobs, QueueScanOrderly
  <2>4. CASE Write(job) /\ state' = row
    BY <2>1, <2>2, <2>4, OrderlyJobs, WrittenAlike
  <2>5. CASE UNCHANGED <<job, state>>
    BY <2>2, <2>5, StillOrderly
  <2>6. QED
    BY <1>4, <2>3, <2>4, <2>5 DEF SupplierChanges
<1>5. ASSUME NEW j \in Jobs, MutationEnds(j) PROVE Orderly'
  <2>1. SameStand(job)
    BY DEF SameStand
  <2>2. QED
    BY <1>5, <2>1, OrderlyJobs, WrittenAlike DEF MutationEnds
<1>6. QED
  BY <1>1, <1>2, <1>3, <1>4, <1>5, ResumeOrderly, RemoveProductOrderly DEF Environment

LEMMA ReplyOrderly ==
  ASSUME FastInv, CallsStand, Orderly, FastInv', NEW r \in Requests, ~Overtaken(r), Reply(r)
  PROVE  Orderly'
<1>1. CASE ScanFails(r)
  <2>1. call[r].job \in Jobs /\ job[call[r].job].status = "leased_scan"
    BY <1>1, AgentJob, OnTime DEF ScanFails
  <2>2. job[call[r].job].status \in ActiveStatuses
    BY <2>1 DEF ActiveStatuses, LeasedStatuses
  <2>3. QED
    BY <1>1, <2>1, <2>2, FinishOrderly DEF ScanFails
<1>2. QED
  BY <1>1, ScanSucceedsOrderly, PrepareApplyOrderly, ReportOrderly, LaterOrderly, SavePolicyOrderly,
     RunNowOrderly DEF Reply

LEMMA NextRace == RaceInv /\ [Next]_vars => RaceInv'
<1> SUFFICES ASSUME RaceInv, [Next]_vars PROVE RaceInv'
  OBVIOUS
<1>1. FastInv /\ FastInv' /\ CallsStand /\ CallsStand'
  BY NextTypes, NextStands DEF RaceInv
<1> SUFFICES ASSUME ~raced' PROVE Orderly'
  BY <1>1 DEF RaceInv
<1>2. CASE Other(Maintain)
  <2>1. Orderly
    BY <1>2 DEF Other, RaceInv
  <2>2. CASE DisableEmpty
    BY <1>1, <2>1, <2>2, DisabledOrderly DEF DisableEmpty
  <2>3. QED
    BY <1>1, <1>2, <2>1, <2>2, ScheduleDueOrderly, RecoverTransitionOrderly, RecoverOrderly
       DEF Other, Maintain
<1>3. ASSUME NEW j \in Jobs, Other(Claim(j)) PROVE Orderly'
  BY <1>1, <1>3, ClaimOrderly DEF Other, RaceInv
<1>4. ASSUME NEW r \in Requests, Other(Read(r)) PROVE Orderly'
  <2>1. Orderly
    BY <1>4 DEF Other, RaceInv
  <2>2. UNCHANGED <<job, state, sent>>
    BY <1>4 DEF Other, Read, AgentReads, SaveReads, RunReads, Open
  <2>3. QED
    BY <1>1, <2>1, <2>2, StillOrderly
<1>5. ASSUME NEW r \in Requests, Answer(r) PROVE Orderly'
  <2>1. ~raced /\ ~Overtaken(r) /\ Reply(r)
    BY <1>5 DEF Answer
  <2>2. QED
    BY <1>1, <2>1, ReplyOrderly DEF RaceInv
<1>6. CASE Other(Environment)
  BY <1>1, <1>6, EnvironmentOrderly DEF Other, RaceInv
<1>7. CASE UNCHANGED vars
  BY <1>1, <1>7, StillOrderly DEF vars, RaceInv
<1>8. QED
  BY <1>2, <1>3, <1>4, <1>5, <1>6, <1>7 DEF Next

LEMMA InitRace == Init => RaceInv
<1>1. Init => OneActiveJob
  BY StatusFacts DEF Init, OneActiveJob
<1>2. Init => SentSettled /\ SentPrompt
  BY DEF Init, SentSettled, SentPrompt
<1>3. Init => CallsStand
  BY DEF Init, CallsStand, CallStands, NoCall, NoRow, None
<1>4. QED
  BY <1>1, <1>2, <1>3, InitTypes DEF RaceInv, Orderly

\* Until a request answers on a row that has changed since it was read, a
\* product has at most one active job, and the state names it: no scan is
\* queued beside a job that is leased, sent or waits for its check, however
\* many requests are open and whichever of the agent, the maintenance loop, the
\* operator and the supply events comes first.
THEOREM OneActive == Spec => []OneActiveUnlessRaced
<1>1. RaceInv => OneActiveUnlessRaced
  BY DEF RaceInv, Orderly, OneActiveUnlessRaced
<1>2. QED
  BY <1>1, InitRace, NextRace, PTL DEF Spec

\* A job leaves the set of sent writes only by ending.
LEMMA LeavesSent ==
  ASSUME FastInv, [Next]_vars, NEW j \in sent \ sent'
  PROVE  job'[j].status \notin ActiveStatuses
<1>0. job \in Rows /\ j \in Jobs
  BY SameJobs DEF FastInv, Tables
<1>1. CASE Maintain
  <2>1. ASSUME NEW k \in Jobs, Recover(k) PROVE job'[j].status \notin ActiveStatuses
    <3>1. j = k /\ AfterExpiry(k) = "ended"
      BY <2>1 DEF Recover
    <3>2. With(job, k, "ended") \in Rows /\ With(job, k, "ended")[k].status = "ended"
      BY <1>0, WithType, Statuses DEF Decided
    <3>3. Write(With(job, k, "ended"))
      BY <2>1, <3>1 DEF Recover
    <3>4. QED
      BY <3>1, <3>2, <3>3, WriteType, StatusFacts
  <2>2. QED
    BY <1>1, <2>1 DEF Maintain, ScheduleDue, RecoverTransition, DisableEmpty
<1>2. ASSUME NEW k \in Jobs, Claim(k) PROVE FALSE
  BY <1>2 DEF Claim
<1>3. ASSUME NEW r \in Requests, Read(r) PROVE FALSE
  BY <1>3 DEF Read, AgentReads, SaveReads, RunReads, Open
<1>4. ASSUME NEW r \in Requests, Reply(r) PROVE job'[j].status \notin ActiveStatuses
  <2>1. ASSUME NEW m \in Markets, ScanSucceeds(r, m) PROVE FALSE
    BY <2>1 DEF ScanSucceeds, Reactivate, Decide, Finish
  <2>2. CASE PrepareApply(r)
    BY <2>2 DEF PrepareApply, Stale, Finish, End, HandOut
  <2>3. CASE ScanFails(r) \/ ApplyAccepted(r) \/ VerifyInProgress(r) \/ RunNow(r)
    BY <2>3 DEF ScanFails, End, ApplyAccepted, VerifyInProgress, RunNow
  <2>4. ASSUME NEW b \in BOOLEAN, SavePolicy(r, b) PROVE FALSE
    BY <2>4 DEF SavePolicy
  <2>5. ASSUME NEW b \in BOOLEAN, ApplyEnds(r, b) \/ VerifyEnds(r, b)
        PROVE  job'[j].status \notin ActiveStatuses
    <3> DEFINE rows == With(job, j, "ended")
    <3>1. PICK row, wrote : Settle(r, row, b, wrote)
      BY <2>5 DEF ApplyEnds, VerifyEnds
    <3>2. j = call[r].job
      BY <3>1 DEF Settle
    <3>3. rows \in Rows /\ rows[j].status = "ended"
      BY <1>0, WithType, Statuses DEF Decided
    <3>4. CASE Write(rows)
      BY <1>0, <3>3, <3>4, WriteType, StatusFacts
    <3>5. ASSUME NEW rest, NewScan(rows, rest, TRUE)
          PROVE  job'[j].status \notin ActiveStatuses
      <4>1. PICK n \in Jobs :
              /\ Fresh(n)
              /\ Write([rows EXCEPT ![n] = [NoRow EXCEPT !.status = "queued_scan", !.urgent = TRUE]])
        BY <3>5 DEF NewScan
      <4>2. n # j
        BY <4>1 DEF Fresh
      <4>3. job'[j] = NoRow \/ job'[j] = rows[j]
        BY <1>0, <3>3, <4>1, <4>2 DEF Write, Rows
      <4>4. QED
        BY <3>3, <4>3, StatusFacts
    <3>6. QED
      BY <3>1, <3>2, <3>4, <3>5 DEF Settle
  <2>6. QED
    BY <1>4, <2>1, <2>2, <2>3, <2>4, <2>5 DEF Reply
<1>5. CASE Environment
  <2>1. ASSUME NEW k \in Jobs, MutationEnds(k) PROVE job'[j].status \notin ActiveStatuses
    BY <1>0, <2>1, WriteType, StatusFacts DEF MutationEnds
  <2>2. QED
    BY <1>5, <2>1 DEF Environment, CooldownEnds, Resume, RemoveProduct, StockChanges, SwitchSale, Sync,
                      SupplierChanges
<1>6. CASE UNCHANGED vars
  BY <1>6 DEF vars
<1>7. QED
  BY <1>1, <1>2, <1>3, <1>4, <1>5, <1>6 DEF Next, Other, Answer

\* Until a request answers on a row that has changed since it was read, a write
\* that was handed out is never queued or scanned again under the same job: a
\* lost lease, a failed report, a repeated prepare-apply and a check that is
\* not conclusive lead to another check, or end the job.
THEOREM SentStays == Spec => SentIsNeverRewritten
<1>1. ASSUME RaceInv, RaceInv', [Next]_vars, ~raced', NEW j \in sent
      PROVE  job'[j].status \notin {"queued_scan", "leased_scan", "queued_apply"}
  <2>1. CASE j \in sent'
    BY <1>1, <2>1 DEF RaceInv, Orderly, SentSettled, Rewritten
  <2>2. CASE j \notin sent'
    BY <1>1, <2>2, LeavesSent, StatusFacts DEF RaceInv, Rewritten
  <2>3. QED
    BY <2>1, <2>2
<1>2. RaceInv /\ RaceInv' /\ [Next]_vars
        => [~raced' => \A j \in sent :
              job'[j].status \notin {"queued_scan", "leased_scan", "queued_apply"}]_vars
  BY <1>1
<1>3. QED
  BY <1>2, InitRace, NextRace, PTL DEF Spec, SentIsNeverRewritten
=============================================================================
