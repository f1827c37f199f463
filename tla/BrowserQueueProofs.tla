------------------------- MODULE BrowserQueueProofs -------------------------
(***************************************************************************)
(* Proofs about BrowserQueue, for any targets, sources, workers and        *)
(* tokens: types; a source that was removed is left alone; the check of a  *)
(* target is one of its current source.                                    *)
(*                                                                         *)
(* QueueInv adds to the two properties that a worker that holds a job's    *)
(* token has been given the source the job was queued for (TokensFit): CRM *)
(* records a report under the source of the job, and this makes it the     *)
(* source whose page was read.                                             *)
(*                                                                         *)
(* A job is a row of a sequence, in the order it was queued. A step leaves *)
(* every row it keeps the same job (JobsFrom); what the removal of a set   *)
(* of rows leaves of the sequence is said by Kept, and read off it by      *)
(* counting the kept rows up to a place (Rank).                            *)
(***************************************************************************)
EXTENDS BrowserQueue, TLAPS, FiniteSetTheorems, WellFoundedInduction, SequenceTheorems

\* Counting the rows that are kept.
LEMMA LeastOf ==
  ASSUME NEW T \in SUBSET Nat, T # {}
  PROVE  \E n \in T : \A m \in T : n <= m
<1>1. PICK n \in T : \A m \in T : ~(<<m, n>> \in OpToRel(<, Nat))
  BY NatLessThanWellFounded, WFMin
<1>2. \A m \in T : ~(m < n)
  BY <1>1 DEF OpToRel
<1>3. QED
  BY <1>2

LEMMA PartFinite ==
  ASSUME NEW n \in Nat, NEW S \in SUBSET (1 .. n)
  PROVE  IsFiniteSet(S) /\ Cardinality(S) \in Nat
<1>1. IsFiniteSet(1 .. n)
  <2>1. 1 \in Int /\ n \in Int
    OBVIOUS
  <2>2. QED
    BY <2>1, FS_Interval
<1>2. IsFiniteSet(S)
  BY <1>1, FS_Subset
<1>3. QED
  BY <1>2, FS_CardinalityType

\* The members of S up to i, and their number.
UpTo(S, i) == {h \in S : h <= i}
Rank(S, i) == Cardinality(UpTo(S, i))

LEMMA RankStep ==
  ASSUME NEW n \in Nat, NEW S \in SUBSET (1 .. n), NEW i \in 1 .. n
  PROVE  /\ Rank(S, i) \in Nat /\ Rank(S, i - 1) \in Nat
         /\ Rank(S, i) = Rank(S, i - 1) + (IF i \in S THEN 1 ELSE 0)
<1>1. \A k : IsFiniteSet(UpTo(S, k)) /\ Cardinality(UpTo(S, k)) \in Nat
  BY PartFinite DEF UpTo
<1>0. \A h \in S : h \in Nat /\ (h <= i <=> h <= i - 1 \/ h = i)
  OBVIOUS
<1>2. CASE i \in S
  <2>1. UpTo(S, i) = UpTo(S, i - 1) \cup {i}
    <3>1. \A h : h \in UpTo(S, i) <=> h \in UpTo(S, i - 1) \cup {i}
      BY <1>0, <1>2 DEF UpTo
    <3>2. QED
      BY <3>1, Zenon
  <2>2. i \notin UpTo(S, i - 1)
    BY DEF UpTo
  <2>3. Cardinality(UpTo(S, i)) = Cardinality(UpTo(S, i - 1)) + 1
    BY <1>1, <2>1, <2>2, FS_AddElement
  <2>4. QED
    BY <1>1, <1>2, <2>3 DEF Rank
<1>3. CASE i \notin S
  <2>1. UpTo(S, i) = UpTo(S, i - 1)
    <3>1. \A h : h \in UpTo(S, i) <=> h \in UpTo(S, i - 1)
      BY <1>0, <1>3 DEF UpTo
    <3>2. QED
      BY <3>1, Zenon
  <2>2. QED
    BY <1>1, <1>3, <2>1 DEF Rank
<1>4. QED
  BY <1>2, <1>3

LEMMA RankEnds ==
  ASSUME NEW n \in Nat, NEW S \in SUBSET (1 .. n)
  PROVE  Rank(S, 0) = 0 /\ Rank(S, n) = Cardinality(S)
<1>0. \A h \in S : ~(h <= 0) /\ h <= n
  OBVIOUS
<1>1. UpTo(S, 0) = {} /\ UpTo(S, n) = S
  BY <1>0, Zenon DEF UpTo
<1>2. QED
  BY <1>1, FS_EmptySet DEF Rank

\* Every number up to the size of S is the rank of one of its members.
LEMMA RankReached ==
  ASSUME NEW n \in Nat, NEW S \in SUBSET (1 .. n), NEW k \in 1 .. Cardinality(S)
  PROVE  \E i \in S : Rank(S, i) = k
<1> DEFINE T == {i \in 0 .. n : Rank(S, i) >= k}
<1>0. Cardinality(S) \in Nat /\ k \in Nat /\ k >= 1
  BY PartFinite
<1>1. n \in T
  BY <1>0, RankEnds
<1>2. PICK i \in T : \A m \in T : i <= m
  <2>1. T \subseteq Nat /\ T # {}
    BY <1>1
  <2> HIDE DEF T
  <2>2. QED
    BY <2>1, LeastOf
<1>3. i # 0
  BY <1>0, <1>2, RankEnds
<1>4. i \in 1 .. n /\ i - 1 \in 0 .. n
  BY <1>2, <1>3
<1>5. i - 1 \notin T
  <2>1. ~(i <= i - 1)
    BY <1>4
  <2> HIDE DEF T
  <2>2. QED
    BY <1>2, <2>1
<1>6. ~(Rank(S, i - 1) >= k) /\ Rank(S, i) >= k
  BY <1>2, <1>4, <1>5
<1>7. QED
  BY <1>0, <1>4, <1>6, RankStep

\* Each row of what is kept is a row that was there.
LEMMA KeptRows ==
  ASSUME NEW q \in Seq(Job), NEW kept \in SUBSET DOMAIN q
  PROVE  /\ Kept(q, kept) \in Seq(Job)
         /\ \A k \in DOMAIN Kept(q, kept) : \E i \in kept : Kept(q, kept)[k] = q[i]
<1>1. Len(q) \in Nat /\ DOMAIN q = 1 .. Len(q) /\ \A i \in 1 .. Len(q) : q[i] \in Job
  OBVIOUS
<1>2. IsFiniteSet(kept) /\ Cardinality(kept) \in Nat
  BY <1>1, PartFinite
<1> DEFINE n == Cardinality(kept)
           pick(k) == CHOOSE i \in kept : Cardinality({h \in kept : h <= i}) = k
<1>3. \A k \in 1 .. n : pick(k) \in kept
  <2>1. \A k \in 1 .. n : \E i \in kept : Cardinality({h \in kept : h <= i}) = k
    BY <1>1, RankReached, ZenonT(60) DEF Rank, UpTo
  <2>2. QED
    BY <2>1
<1>4. Kept(q, kept) = [k \in 1 .. n |-> q[pick(k)]]
  BY DEF Kept
<1> HIDE DEF pick
<1>5. Kept(q, kept) \in [1 .. n -> Job]
  BY <1>1, <1>3, <1>4
<1>6. DOMAIN Kept(q, kept) = 1 .. n
  BY <1>4
<1>7. QED
  BY <1>2, <1>3, <1>4, <1>5, <1>6

-----------------------------------------------------------------------------
\* A worker that holds the token of a job reads the source that job is for.
TokensFit ==
  \A w \in Workers, i \in DOMAIN jobs :
    jobs[i].token = work[w].token /\ work[w].token # NoToken => jobs[i].src = work[w].src

\* The inductive invariant.
QueueInv ==
  /\ TypeOK
  /\ IsFiniteSet(snap.rows)
  /\ RemovedIsLeftAlone
  /\ CheckedOnItsSource
  /\ TokensFit

\* Row j is the job o was: the token and the source it was leased with, and no
\* lease revived.
RowOf(j, o) ==
  /\ j.target = o.target /\ j.src = o.src /\ j.token = o.token /\ j.late = o.late
  /\ j.live => o.live

\* A job that a step adds: unleased, and for a source that has not been removed,
\* unless POST /jobs named it.
Added(j) ==
  /\ j.token = NoToken /\ ~j.live
  /\ j.target \in Targets =>
       j.late \/ target'[j.target].status # "disabled"

\* What a step may do to the queue, to the workers and to the targets.
JobsFrom ==
  \A k \in DOMAIN jobs' : Added(jobs'[k]) \/ \E i \in DOMAIN jobs : RowOf(jobs'[k], jobs[i])
WorkFrom ==
  /\ work' \in [Workers -> Work]
  /\ \A w \in Workers : \/ work'[w].token = NoToken
                        \/ work'[w].token = work[w].token /\ work'[w].src = work[w].src
DisabledFrom ==
  \A t \in Targets : target'[t].status = "disabled" =>
    target[t].status = "disabled" \/ \A k \in DOMAIN jobs' : jobs'[k].target # t

\* The part of TypeOK about the dispatcher, the agent and the bounds.
Rest ==
  /\ snap.open \in BOOLEAN /\ snap.rows \subseteq Seen /\ IsFiniteSet(snap.rows)
  /\ agent \in {"up", "stopping", "renewing", "down"}
  /\ asks \in 0 .. MaxAsks /\ mishaps \in 0 .. MaxMishaps

\* What the invariant says of the parts of the state.
LEMMA Facts ==
  ASSUME QueueInv
  PROVE  /\ target \in [Targets -> Row] /\ jobs \in Seq(Job) /\ work \in [Workers -> Work]
         /\ Rest /\ CheckedOnItsSource
         /\ \A i \in DOMAIN jobs : jobs[i] \in Job
         /\ Len(jobs) \in Nat /\ DOMAIN jobs = 1 .. Len(jobs)
  BY DEF QueueInv, TypeOK, Rest

\* A step is sound when each of its parts is.
LEMMA Assembled ==
  ASSUME QueueInv, target' \in [Targets -> Row], jobs' \in Seq(Job), Rest', CheckedOnItsSource',
         JobsFrom, WorkFrom, DisabledFrom
  PROVE  QueueInv'
<1>1. \A i \in DOMAIN jobs' : jobs'[i].live => ~Queued(jobs'[i])
  BY DEF QueueInv, TypeOK, JobsFrom, Added, RowOf, Queued
<1>2. \A w, v \in Workers :
         w # v /\ work'[w].token = work'[v].token => work'[w].token = NoToken
  BY DEF QueueInv, TypeOK, WorkFrom
<1>3. TokensFit'
  BY DEF QueueInv, TokensFit, JobsFrom, WorkFrom, Added, RowOf
<1>4. RemovedIsLeftAlone'
  BY Facts DEF QueueInv, RemovedIsLeftAlone, DisabledFrom, JobsFrom, Added, RowOf, Job
<1>5. QED
  BY <1>1, <1>2, <1>3, <1>4 DEF QueueInv, TypeOK, Rest, WorkFrom

\* A part that a step leaves alone, or changes in the usual way.
LEMMA SameRest ==
  ASSUME QueueInv
  PROVE  /\ UNCHANGED <<snap, agent, asks, mishaps>> => Rest'
         /\ UNCHANGED <<snap, agent, mishaps>> /\ asks < MaxAsks /\ asks' = asks + 1 => Rest'
         /\ UNCHANGED <<snap, agent, asks>> /\ mishaps < MaxMishaps /\ mishaps' = mishaps + 1 => Rest'
         /\ UNCHANGED <<snap, asks, mishaps>> /\ agent' \in {"up", "stopping", "renewing", "down"} => Rest'
  BY Facts, BrowserConstants DEF Rest

LEMMA SameJobs ==
  ASSUME QueueInv, UNCHANGED jobs
  PROVE  jobs' \in Seq(Job) /\ JobsFrom
  BY Facts DEF JobsFrom, RowOf

LEMMA SameWork ==
  ASSUME QueueInv, UNCHANGED work
  PROVE  WorkFrom
  BY Facts DEF WorkFrom

LEMMA SameTarget ==
  ASSUME QueueInv, UNCHANGED target
  PROVE  target' \in [Targets -> Row] /\ CheckedOnItsSource' /\ DisabledFrom
  BY Facts DEF CheckedOnItsSource, DisabledFrom

LEMMA IdleWorker ==
  ASSUME QueueInv, NEW w \in Workers, work' = [work EXCEPT ![w] = Idle]
  PROVE  WorkFrom
<1>1. Idle \in Work
  BY BrowserConstants DEF Idle, Work
<1>2. QED
  BY <1>1, Facts DEF WorkFrom, Idle

LEMMA NewJobType ==
  ASSUME NEW t \in Targets \cup {NoTarget}, NEW s \in Sources
  PROVE  NewJob(t, s) \in Job
  BY BrowserConstants DEF NewJob, Job

\* A queue of rows that are all there already.
PartOf(q) == q \in Seq(Job) /\ \A k \in DOMAIN q : \E i \in DOMAIN jobs : RowOf(q[k], jobs[i])

\* Queueing a job, with or without the stale ones before it.
LEMMA QueuedNowFrom ==
  ASSUME QueueInv, NEW q, PartOf(q), NEW t \in Targets, NEW s \in Sources,
         target'[t].status = "active", jobs' \in {q, QueuedNow(q, t, s), Append(q, NewJob(t, s))}
  PROVE  jobs' \in Seq(Job) /\ JobsFrom
<1>1. NewJob(t, s) \in Job /\ Added(NewJob(t, s))
  BY NewJobType DEF NewJob, Added
<1>2. jobs' = q \/ jobs' = Append(q, NewJob(t, s))
  BY DEF QueuedNow
<1>3. q \in Seq(Job)
  BY DEF PartOf
<1>4. jobs' \in Seq(Job)
  BY <1>1, <1>2, <1>3
<1>5. \A k \in DOMAIN jobs' : jobs'[k] = NewJob(t, s) \/ (k \in DOMAIN q /\ jobs'[k] = q[k])
  BY <1>1, <1>2, <1>3
<1>6. QED
  BY <1>1, <1>4, <1>5 DEF JobsFrom, PartOf

\* _cancel_stale_browser_jobs leaves no job for another source.
LEMMA WithoutStaleRows ==
  ASSUME QueueInv, NEW t, NEW s
  PROVE  /\ PartOf(WithoutStale(t, s))
         /\ \A k \in DOMAIN WithoutStale(t, s) : ~Stale(WithoutStale(t, s)[k], t, s)
<1> DEFINE kept == {i \in DOMAIN jobs : ~Stale(jobs[i], t, s)}
<1>1. /\ Kept(jobs, kept) \in Seq(Job)
      /\ \A k \in DOMAIN Kept(jobs, kept) : \E i \in kept : Kept(jobs, kept)[k] = jobs[i]
  <2>1. kept \in SUBSET DOMAIN jobs /\ jobs \in Seq(Job)
    BY Facts
  <2> HIDE DEF kept
  <2>2. QED
    BY <2>1, KeptRows
<1>2. QED
  BY <1>1 DEF WithoutStale, PartOf, RowOf

LEMMA JoinedRows ==
  ASSUME NEW a \in Seq(Job), NEW b \in Seq(Job)
  PROVE  /\ a \o b \in Seq(Job)
         /\ \A k \in DOMAIN (a \o b) : \/ \E h \in DOMAIN a : (a \o b)[k] = a[h]
                                      \/ \E h \in DOMAIN b : (a \o b)[k] = b[h]
<1> DEFINE c == a \o b
<1>1. /\ c \in Seq(Job) /\ DOMAIN c = 1 .. (Len(a) + Len(b))
      /\ Len(a) \in Nat /\ Len(b) \in Nat
      /\ DOMAIN a = 1 .. Len(a) /\ DOMAIN b = 1 .. Len(b)
      /\ \A k \in 1 .. (Len(a) + Len(b)) : c[k] = IF k <= Len(a) THEN a[k] ELSE b[k - Len(a)]
  OBVIOUS
<1> HIDE DEF c
<1>2. ASSUME NEW k \in DOMAIN c
      PROVE  (\E h \in DOMAIN a : c[k] = a[h]) \/ (\E h \in DOMAIN b : c[k] = b[h])
  <2>1. CASE k <= Len(a)
    BY <1>1, <2>1
  <2>2. CASE ~(k <= Len(a))
    <3>1. k - Len(a) \in 1 .. Len(b)
      BY <1>1, <2>2
    <3>2. QED
      BY <1>1, <2>2, <3>1
  <2>3. QED
    BY <2>1, <2>2
<1>3. QED
  BY <1>1, <1>2 DEF c

LEMMA RemovedRow ==
  ASSUME QueueInv, NEW i \in DOMAIN jobs
  PROVE  PartOf(RemoveAt(jobs, i))
<1> DEFINE front == SubSeq(jobs, 1, i - 1)
           back == SubSeq(jobs, i + 1, Len(jobs))
<1>1. i \in 1 .. Len(jobs) /\ Len(jobs) \in Nat /\ \A k \in 1 .. Len(jobs) : jobs[k] \in Job
  BY Facts
<1>2. front \in Seq(Job) /\ \A k \in DOMAIN front : \E h \in DOMAIN jobs : front[k] = jobs[h]
  <2>1. /\ front \in Seq(Job) /\ DOMAIN front = 1 .. i - 1
        /\ \A k \in 1 .. i - 1 : front[k] = jobs[k]
    BY <1>1, Facts
  <2> HIDE DEF front
  <2>2. QED
    BY <1>1, <2>1, Facts
<1>3. back \in Seq(Job) /\ \A k \in DOMAIN back : \E h \in DOMAIN jobs : back[k] = jobs[h]
  <2>1. /\ back \in Seq(Job) /\ DOMAIN back = 1 .. Len(jobs) - i
        /\ \A k \in 1 .. Len(jobs) - i : back[k] = jobs[k + i]
    BY <1>1, Facts
  <2>2. \A k \in 1 .. Len(jobs) - i : k + i \in DOMAIN jobs
    BY <1>1, Facts
  <2> HIDE DEF back
  <2>3. QED
    BY <2>1, <2>2
<1>4. RemoveAt(jobs, i) = front \o back
  BY DEF RemoveAt
<1> HIDE DEF front, back
<1>5. /\ front \o back \in Seq(Job)
      /\ \A k \in DOMAIN (front \o back) : \/ \E h \in DOMAIN front : (front \o back)[k] = front[h]
                                           \/ \E h \in DOMAIN back : (front \o back)[k] = back[h]
  BY <1>2, <1>3, JoinedRows
<1> DEFINE c == front \o back
<1>6. \A k \in DOMAIN c : \E h \in DOMAIN jobs : c[k] = jobs[h]
  <2> HIDE DEF c
  <2>1. \A k \in DOMAIN c : \/ \E h \in DOMAIN front : c[k] = front[h]
                            \/ \E h \in DOMAIN back : c[k] = back[h]
    BY <1>5 DEF c
  <2>2. QED
    BY <1>2, <1>3, <2>1
<1>7. c = RemoveAt(jobs, i) /\ c \in Seq(Job)
  BY <1>4, <1>5
<1> HIDE DEF c
<1>8. QED
  BY <1>6, <1>7 DEF PartOf, RowOf

LEMMA PartFrom ==
  ASSUME QueueInv, PartOf(jobs')
  PROVE  jobs' \in Seq(Job) /\ JobsFrom
  BY DEF PartOf, JobsFrom

\* One lemma per action.
LEMMA ComesDueKeeps == ASSUME QueueInv, NEW t \in Targets, ComesDue(t) PROVE QueueInv'
<1>1. target' \in [Targets -> Row] /\ CheckedOnItsSource' /\ DisabledFrom
  BY Facts DEF ComesDue, Row, CheckedOnItsSource, DisabledFrom
<1>2. QED
  BY <1>1, SameJobs, SameWork, SameRest, Assembled DEF ComesDue

LEMMA SeenFinite ==
  ASSUME NEW rows \in SUBSET Targets
  PROVE  IsFiniteSet({[target |-> t, src |-> target[t].src] : t \in rows})
<1> DEFINE seen == {[target |-> t, src |-> target[t].src] : t \in rows}
           f == [e \in seen |-> e.target]
<1>1. f \in Injection(seen, Targets)
  BY DEF Injection, IsInjective
<1>2. QED
  BY <1>1, FS_Injection, BrowserConstants

LEMMA StartDispatchKeeps == ASSUME QueueInv, StartDispatch PROVE QueueInv'
<1> DEFINE rows == {t \in Targets : Wanted(t) /\ target[t].src \in Ozon /\ ~HasJob(t)}
           seen == {[target |-> t, src |-> target[t].src] : t \in rows}
<1>1. snap' = [open |-> TRUE, rows |-> seen]
  BY DEF StartDispatch
<1>2. seen \subseteq Seen
  BY BrowserConstants DEF Seen
<1>3. IsFiniteSet(seen)
  <2>1. rows \in SUBSET Targets
    OBVIOUS
  <2> HIDE DEF rows
  <2>2. QED
    BY <2>1, SeenFinite
<1>4. UNCHANGED <<agent, asks, mishaps>>
  BY DEF StartDispatch
<1>5. Rest'
  BY <1>1, <1>2, <1>3, <1>4, Facts DEF Rest
<1>6. QED
  BY <1>5, SameJobs, SameWork, SameTarget, Assembled DEF StartDispatch

LEMMA EndDispatchKeeps == ASSUME QueueInv, EndDispatch PROVE QueueInv'
<1>1. PICK chosen \in SUBSET StillWanted :
        \E order \in SetToSeqs(chosen) :
          jobs' = jobs \o [i \in DOMAIN order |-> NewJob(order[i].target, order[i].src)]
  BY DEF EndDispatch
<1>2. PICK order \in SetToSeqs(chosen) :
        jobs' = jobs \o [i \in DOMAIN order |-> NewJob(order[i].target, order[i].src)]
  BY <1>1
<1> DEFINE n == Cardinality(chosen)
           new == [i \in DOMAIN order |-> NewJob(order[i].target, order[i].src)]
<1>3. chosen \subseteq snap.rows /\ \A e \in chosen : e \in Seen /\ target[e.target].status = "active"
  BY Facts DEF StillWanted, Wanted, Rest
<1>4. n \in Nat
  <2>1. IsFiniteSet(snap.rows) /\ chosen \in SUBSET snap.rows
    BY <1>3, Facts DEF Rest
  <2>2. QED
    BY <2>1, FS_Subset, FS_CardinalityType
<1>5. order \in [1 .. n -> chosen]
  BY <1>2 DEF SetToSeqs
<1>6. \A i \in 1 .. n : /\ NewJob(order[i].target, order[i].src) \in Job
                        /\ target[NewJob(order[i].target, order[i].src).target].status = "active"
  BY <1>3, <1>5, NewJobType DEF Seen, NewJob
<1>7. new = [i \in 1 .. n |-> NewJob(order[i].target, order[i].src)]
  BY <1>5
<1>8. new \in Seq(Job) /\ Len(new) = n
  BY <1>4, <1>6, <1>7
<1>9. \A i \in 1 .. n : new[i] = NewJob(order[i].target, order[i].src)
  BY <1>7
<1> HIDE DEF n, new
<1>10. UNCHANGED <<target, work, agent, asks, mishaps>> /\ snap' = Closed
  BY DEF EndDispatch
<1>11. jobs' = jobs \o new
  BY <1>2 DEF new
<1>12. jobs' \in Seq(Job) /\ DOMAIN new = 1 .. n
  BY <1>8, <1>11, Facts
<1>13. ASSUME NEW k \in DOMAIN jobs'
       PROVE  Added(jobs'[k]) \/ \E i \in DOMAIN jobs : RowOf(jobs'[k], jobs[i])
  <2>1. CASE \E i \in DOMAIN jobs : jobs'[k] = jobs[i]
    BY <2>1 DEF RowOf
  <2>2. ASSUME NEW i \in 1 .. n, jobs'[k] = new[i] PROVE Added(jobs'[k])
    <3>1. jobs'[k] = NewJob(order[i].target, order[i].src)
      BY <1>9, <2>2
    <3>2. QED
      BY <1>6, <1>10, <3>1 DEF Added, NewJob
  <2>3. QED
    BY <1>8, <1>11, <1>12, <2>1, <2>2, Facts, JoinedRows
<1>14. JobsFrom
  BY <1>13 DEF JobsFrom
<1>15. Rest'
  BY <1>10, Facts, FS_EmptySet DEF Rest, Closed
<1>16. QED
  BY <1>10, <1>12, <1>14, <1>15, SameWork, SameTarget, Assembled

LEMMA QueueNowKeeps == ASSUME QueueInv, NEW t \in Targets, QueueNow(t) PROVE QueueInv'
<1>1. PartOf(jobs)
  BY Facts DEF PartOf, RowOf
<1>2. jobs' \in Seq(Job) /\ JobsFrom
  BY <1>1, QueuedNowFrom, BrowserConstants DEF QueueNow
<1>3. QED
  BY <1>2, SameWork, SameTarget, SameRest, Assembled DEF QueueNow

LEMMA CreateJobKeeps == ASSUME QueueInv, CreateJob PROVE QueueInv'
<1>1. PICK s \in Direct, t \in {u \in Targets : target[u].status # "none"} \cup {NoTarget} :
        jobs' = Append(jobs, [NewJob(t, s) EXCEPT
                                !.late = t # NoTarget /\ target[t].status = "disabled"])
  BY DEF CreateJob
<1>2. UNCHANGED <<target, snap, work, agent, mishaps>> /\ asks < MaxAsks /\ asks' = asks + 1
  BY DEF CreateJob
<1> DEFINE late == t # NoTarget /\ target[t].status = "disabled"
           new == [NewJob(t, s) EXCEPT !.late = late]
<1>3. new \in Job /\ Added(new)
  <2>1. late \in BOOLEAN
    OBVIOUS
  <2>2. /\ new.target = t /\ new.src = s /\ new.token = NoToken /\ ~new.live
        /\ new.late = late
        /\ NewJob(t, s) \in Job => new \in Job
    <3> HIDE DEF late
    <3>1. QED
      BY <2>1 DEF NewJob, Job
  <2>3. t \in Targets => late \/ target'[t].status # "disabled"
    BY <1>2, BrowserConstants
  <2> HIDE DEF late, new
  <2>4. new \in Job
    <3>1. t \in Targets \cup {NoTarget} /\ s \in Sources
      BY BrowserConstants
    <3>2. QED
      BY <2>2, <3>1, NewJobType
  <2>5. QED
    BY <2>2, <2>3, <2>4 DEF Added
<1> HIDE DEF new
<1>4. jobs' \in Seq(Job)
      /\ \A k \in DOMAIN jobs' : jobs'[k] = new \/ (k \in DOMAIN jobs /\ jobs'[k] = jobs[k])
  BY <1>1, <1>3, Facts DEF new
<1>5. JobsFrom
  BY <1>3, <1>4 DEF JobsFrom, RowOf
<1>6. QED
  BY <1>2, <1>4, <1>5, SameWork, SameTarget, SameRest, Assembled

LEMMA LapseKeeps == ASSUME QueueInv, NEW i \in DOMAIN jobs, Lapse(i) PROVE QueueInv'
<1> DEFINE row == [jobs[i] EXCEPT !.live = FALSE]
<1>1. row \in Job /\ RowOf(row, jobs[i])
  BY Facts DEF Job, RowOf
<1>2. jobs' = [jobs EXCEPT ![i] = row]
  BY DEF Lapse
<1> HIDE DEF row
<1>3. jobs' \in Seq(Job) /\ DOMAIN jobs' = DOMAIN jobs
      /\ \A k \in DOMAIN jobs : jobs'[k] = IF k = i THEN row ELSE jobs[k]
  BY <1>1, <1>2, Facts
<1>4. JobsFrom
  BY <1>1, <1>3 DEF JobsFrom, RowOf
<1>5. Rest'
  BY SameRest DEF Lapse
<1>6. QED
  BY <1>3, <1>4, <1>5, SameWork, SameTarget, Assembled DEF Lapse

LEMMA ClaimKeeps == ASSUME QueueInv, NEW w \in Workers, Claim(w) PROVE QueueInv'
<1>1. PICK i \in Claimable, k \in Free, lost \in BOOLEAN :
        /\ jobs' = [jobs EXCEPT ![i].token = k, ![i].live = TRUE]
        /\ work' = [work EXCEPT ![w] = IF lost THEN Idle
                                       ELSE [step |-> "holding", token |-> k, src |-> jobs[i].src]]
        /\ lost => mishaps < MaxMishaps
        /\ mishaps' = IF lost THEN mishaps + 1 ELSE mishaps
  BY DEF Claim
<1> DEFINE row == [jobs[i] EXCEPT !.token = k, !.live = TRUE]
           new == IF lost THEN Idle ELSE [step |-> "holding", token |-> k, src |-> jobs[i].src]
<1>2. i \in DOMAIN jobs
  BY DEF Claimable, Oldest, Waiting
<1>3. /\ k \in Tokens /\ k # NoToken
      /\ \A h \in DOMAIN jobs : jobs[h].token # k
      /\ \A v \in Workers : work[v].token # k
  BY BrowserConstants DEF Free, Unused
<1>4. /\ row \in Job /\ row.token = k /\ row.live /\ row.target = jobs[i].target /\ row.src = jobs[i].src
      /\ row.late = jobs[i].late /\ jobs[i].src \in Sources
  BY <1>2, <1>3, Facts DEF Job
<1>5. new \in Work /\ (new.token = NoToken \/ (new.token = k /\ new.src = jobs[i].src))
  BY <1>3, <1>4, BrowserConstants DEF Idle, Work
<1>6. jobs' = [jobs EXCEPT ![i] = row]
  BY <1>1, <1>2, Facts DEF Job
<1> HIDE DEF row, new
<1>7. jobs' \in Seq(Job) /\ DOMAIN jobs' = DOMAIN jobs
      /\ \A h \in DOMAIN jobs : jobs'[h] = IF h = i THEN row ELSE jobs[h]
  BY <1>2, <1>4, <1>6, Facts
<1>8. work' \in [Workers -> Work] /\ \A v \in Workers : work'[v] = IF v = w THEN new ELSE work[v]
  BY <1>1, <1>5, Facts DEF new
<1>9. \A h \in DOMAIN jobs' : jobs'[h].live => ~Queued(jobs'[h])
  BY <1>3, <1>4, <1>7 DEF QueueInv, TypeOK, Queued
<1>10. \A v, u \in Workers :
         v # u /\ work'[v].token = work'[u].token => work'[v].token = NoToken
  BY <1>3, <1>5, <1>8 DEF QueueInv, TypeOK
<1>11. TokensFit'
  BY <1>3, <1>4, <1>5, <1>7, <1>8 DEF QueueInv, TokensFit
<1>12. UNCHANGED <<target, snap, agent, asks>>
  BY DEF Claim
<1>13. RemovedIsLeftAlone' /\ CheckedOnItsSource'
  BY <1>2, <1>4, <1>7, <1>12 DEF QueueInv, RemovedIsLeftAlone, CheckedOnItsSource
<1>14. Rest'
  <2>1. CASE lost
    BY <1>1, <1>12, <2>1, SameRest
  <2>2. CASE ~lost
    BY <1>1, <1>12, <2>2, SameRest
  <2>3. QED
    BY <2>1, <2>2
<1>15. QED
  BY <1>7, <1>8, <1>9, <1>10, <1>11, <1>12, <1>13, <1>14, Facts DEF QueueInv, TypeOK, Rest

LEMMA StepWorker ==
  ASSUME QueueInv, NEW w \in Workers, NEW step \in {"idle", "asking", "holding", "returned"},
         work' = [work EXCEPT ![w].step = step]
  PROVE  WorkFrom
<1>1. [work[w] EXCEPT !.step = step] \in Work /\ [work[w] EXCEPT !.step = step].token = work[w].token
      /\ [work[w] EXCEPT !.step = step].src = work[w].src
  BY Facts DEF Work
<1>2. QED
  BY <1>1, Facts DEF WorkFrom

LEMMA SucceedKeeps == ASSUME QueueInv, NEW w \in Workers, Succeed(w) PROVE QueueInv'
<1>1. WorkFrom /\ Rest'
  BY IdleWorker, SameRest DEF Succeed
<1>2. CASE UNCHANGED <<target, jobs>>
  BY <1>1, <1>2, SameJobs, SameTarget, Assembled
<1>3. ASSUME NEW i \in LeaseHolds(work[w].token), Matches(jobs[i]),
             Recorded(jobs[i].target, jobs[i].src), jobs' = RemoveAt(jobs, i)
      PROVE  QueueInv'
  <2>1. i \in DOMAIN jobs /\ jobs[i] \in Job
    BY Facts DEF LeaseHolds
  <2>2. jobs' \in Seq(Job) /\ JobsFrom
    BY <1>3, <2>1, RemovedRow, PartFrom
  <2>3. target' \in [Targets -> Row] /\ CheckedOnItsSource' /\ DisabledFrom
    <3>1. CASE jobs[i].target = NoTarget
      BY <1>3, <3>1, SameTarget DEF Recorded
    <3>2. CASE jobs[i].target # NoTarget
      <4> DEFINE t == jobs[i].target
                 row == [target[t] EXCEPT !.due = FALSE, !.result = jobs[i].src, !.failed = FALSE]
      <4>1. t \in Targets /\ jobs[i].src \in Sources /\ target[t].src = jobs[i].src
        BY <1>3, <2>1, <3>2 DEF Job, Matches
      <4>2. row \in Row /\ row.result = row.src /\ row.status = target[t].status
        BY <4>1, Facts, ZenonT(60) DEF Row
      <4>3. target' = [target EXCEPT ![t] = row]
        BY <1>3, <3>2, <4>1, Facts DEF Recorded, Row
      <4> HIDE DEF row
      <4>4. QED
        BY <4>1, <4>2, <4>3, Facts DEF CheckedOnItsSource, DisabledFrom
    <3>3. QED
      BY <3>1, <3>2
  <2>4. QED
    BY <1>1, <2>2, <2>3, Assembled
<1>4. QED
  BY <1>2, <1>3 DEF Succeed

LEMMA FailKeeps == ASSUME QueueInv, NEW w \in Workers, Fail(w) PROVE QueueInv'
<1>1. WorkFrom /\ UNCHANGED <<snap, asks, mishaps>>
  BY IdleWorker DEF Fail
<1>2. CASE UNCHANGED <<target, jobs, agent>>
  BY <1>1, <1>2, SameJobs, SameTarget, SameRest, Assembled
<1>3. ASSUME NEW i \in LeaseHolds(work[w].token),
             target' = IF jobs[i].target = NoTarget THEN target
                       ELSE [target EXCEPT ![jobs[i].target].due = FALSE,
                                           ![jobs[i].target].result = jobs[i].src,
                                           ![jobs[i].target].failed = TRUE],
             jobs' = RemoveAt(jobs, i), agent' \in {agent, "stopping"}
      PROVE  QueueInv'
  <2>1. i \in DOMAIN jobs /\ jobs[i] \in Job
    BY Facts DEF LeaseHolds
  <2>2. jobs' \in Seq(Job) /\ JobsFrom
    BY <1>3, <2>1, RemovedRow, PartFrom
  <2>3. target' \in [Targets -> Row] /\ CheckedOnItsSource' /\ DisabledFrom
    <3>1. CASE jobs[i].target = NoTarget
      BY <1>3, <3>1, SameTarget
    <3>2. CASE jobs[i].target # NoTarget
      <4> DEFINE t == jobs[i].target
                 row == [target[t] EXCEPT !.due = FALSE, !.result = jobs[i].src,
                                          !.failed = TRUE]
      <4>1. t \in Targets /\ jobs[i].src \in Sources
        BY <2>1, <3>2 DEF Job
      <4>2. row \in Row /\ row.failed /\ row.status = target[t].status
        BY <4>1, Facts, ZenonT(60) DEF Row
      <4>3. target' = [target EXCEPT ![t] = row]
        BY <1>3, <3>2, <4>1, Facts DEF Row
      <4> HIDE DEF row
      <4>4. QED
        BY <4>1, <4>2, <4>3, Facts DEF CheckedOnItsSource, DisabledFrom
    <3>3. QED
      BY <3>1, <3>2
  <2>4. Rest'
    BY <1>1, <1>3, Facts DEF Rest
  <2>5. QED
    BY <1>1, <2>2, <2>3, <2>4, Assembled
<1>4. QED
  BY <1>2, <1>3 DEF Fail

LEMMA WorkersKeep ==
  ASSUME QueueInv, NEW w \in Workers,
         Ask(w) \/ NothingToDo(w) \/ LoseReport(w) \/ Return(w)
  PROVE  QueueInv'
<1>1. WorkFrom
  BY IdleWorker, StepWorker DEF Ask, NothingToDo, LoseReport, Return
<1>2. Rest'
  BY SameRest DEF Ask, NothingToDo, LoseReport, Return
<1>3. UNCHANGED <<jobs, target>>
  BY DEF Ask, NothingToDo, LoseReport, Return
<1>4. QED
  BY <1>1, <1>2, <1>3, SameJobs, SameTarget, Assembled

LEMMA AgentKeeps ==
  ASSUME QueueInv, BeginRenewal \/ Renew \/ Crash \/ Relaunch
  PROVE  QueueInv'
<1>1. UNCHANGED <<jobs, target, snap, asks>> /\ agent' \in {"up", "stopping", "renewing", "down"}
  BY DEF BeginRenewal, Renew, Crash, Relaunch
<1>2. UNCHANGED mishaps \/ (mishaps < MaxMishaps /\ mishaps' = mishaps + 1)
  BY DEF BeginRenewal, Renew, Crash, Relaunch
<1>3. Rest'
  BY <1>1, <1>2, Facts, BrowserConstants DEF Rest
<1>4. work' = work \/ work' = [v \in Workers |-> Idle]
  BY DEF BeginRenewal, Renew, Crash, Relaunch
<1>5. WorkFrom
  <2>1. Idle \in Work
    BY BrowserConstants DEF Idle, Work
  <2>2. QED
    BY <1>4, <2>1, SameWork DEF WorkFrom, Idle
<1>6. QED
  BY <1>1, <1>3, <1>5, SameJobs, SameTarget, Assembled

\* A source is bound to a target anew: no check yet, one of this source, or a
\* failed one.
LEMMA SourceRow ==
  ASSUME QueueInv, NEW t \in Targets, NEW row \in Row,
         row.failed \/ row.result \in {NoSource, row.src},
         row.status # "disabled", target' = [target EXCEPT ![t] = row]
  PROVE  /\ target' \in [Targets -> Row] /\ CheckedOnItsSource' /\ DisabledFrom
         /\ target'[t] = row
  BY Facts DEF CheckedOnItsSource, DisabledFrom

LEMMA AttachSourceKeeps ==
  ASSUME QueueInv, NEW t \in Targets, NEW s \in Sources, NEW check \in BOOLEAN, AttachSource(t, s, check)
  PROVE  QueueInv'
<1> DEFINE row == [target[t] EXCEPT !.status = "active", !.src = s, !.due = TRUE]
<1>1. row \in Row /\ row.status = "active" /\ row.src = s /\ row.result = target[t].result
      /\ row.failed = target[t].failed
  BY Facts DEF Row
<1>2. row.failed \/ row.result \in {NoSource, row.src}
  BY <1>1, Facts DEF CheckedOnItsSource, AttachSource
<1>3. target' = [target EXCEPT ![t] = row]
  BY Facts DEF AttachSource, Row
<1> HIDE DEF row
<1>4. target' \in [Targets -> Row] /\ CheckedOnItsSource' /\ DisabledFrom /\ target'[t] = row
  BY <1>1, <1>2, <1>3, SourceRow
<1>5. PartOf(jobs)
  BY Facts DEF PartOf, RowOf
<1>6. jobs' \in Seq(Job) /\ JobsFrom
  BY <1>1, <1>4, <1>5, QueuedNowFrom DEF AttachSource
<1>7. QED
  BY <1>4, <1>6, SameWork, SameRest, Assembled DEF AttachSource

LEMMA ReplaceSourceKeeps ==
  ASSUME QueueInv, NEW t \in Targets, NEW s \in Sources, NEW check \in BOOLEAN, ReplaceSource(t, s, check)
  PROVE  QueueInv'
<1> DEFINE result == IF target[t].src = s THEN target[t].result ELSE NoSource
           failed == target[t].src = s /\ target[t].failed
           row == [target[t] EXCEPT !.status = "active", !.src = s, !.due = TRUE,
                                    !.result = result, !.failed = failed]
<1>1. /\ result \in Sources \cup {NoSource} /\ failed \in BOOLEAN
      /\ failed \/ result \in {NoSource, s}
  BY Facts DEF Row, CheckedOnItsSource
<1>3. target' = [target EXCEPT ![t] = row]
  BY Facts DEF ReplaceSource, Row
<1>2. /\ row \in Row /\ row.status = "active" /\ row.src = s
      /\ row.failed \/ row.result \in {NoSource, row.src}
  <2> HIDE DEF failed, result
  <2>1. target[t] \in Row
    BY Facts
  <2>2. row \in Row
    BY <1>1, <2>1 DEF Row
  <2>3. row.status = "active" /\ row.src = s /\ row.result = result /\ row.failed = failed
    BY <2>1 DEF Row
  <2>4. QED
    BY <1>1, <2>2, <2>3
<1> HIDE DEF row, result, failed
<1>4. target' \in [Targets -> Row] /\ CheckedOnItsSource' /\ DisabledFrom /\ target'[t] = row
  BY <1>1, <1>2, <1>3, SourceRow
<1>5. jobs' \in Seq(Job) /\ JobsFrom
  BY <1>2, <1>4, WithoutStaleRows, QueuedNowFrom DEF ReplaceSource
<1>6. QED
  BY <1>4, <1>5, SameWork, SameRest, Assembled DEF ReplaceSource

LEMMA RemoveSourceKeeps == ASSUME QueueInv, NEW t \in Targets, RemoveSource(t) PROVE QueueInv'
<1>1. jobs' = WithoutStale(t, NoSource)
  BY DEF RemoveSource
<1>2. jobs' \in Seq(Job) /\ JobsFrom
  BY <1>1, WithoutStaleRows, PartFrom
<1>3. \A k \in DOMAIN jobs' : jobs'[k].target # t
  <2>1. \A k \in DOMAIN jobs' : ~Stale(jobs'[k], t, NoSource)
    BY <1>1, WithoutStaleRows
  <2>2. \A k \in DOMAIN jobs' : jobs'[k] \in Job
    BY <1>2
  <2>3. QED
    BY <2>1, <2>2, BrowserConstants DEF Stale, Job
<1>4. target' \in [Targets -> Row] /\ CheckedOnItsSource' /\ DisabledFrom
  BY <1>3, Facts DEF RemoveSource, Row, CheckedOnItsSource, DisabledFrom
<1>5. QED
  BY <1>2, <1>4, SameWork, SameRest, Assembled DEF RemoveSource

LEMMA InitInv == Init => QueueInv
<1> SUFFICES ASSUME Init PROVE QueueInv
  OBVIOUS
<1>1. target \in [Targets -> Row] /\ CheckedOnItsSource
  BY BrowserConstants DEF Init, Bound, Row, CheckedOnItsSource
<1>2. work \in [Workers -> Work]
  BY BrowserConstants DEF Init, Idle, Work
<1>3. 0 \in 0 .. MaxAsks /\ 0 \in 0 .. MaxMishaps
  BY BrowserConstants
<1>4. jobs \in Seq(Job) /\ DOMAIN jobs = {}
  BY DEF Init
<1>5. RemovedIsLeftAlone /\ TokensFit
  BY <1>4 DEF RemovedIsLeftAlone, TokensFit
<1>6. IsFiniteSet(snap.rows) /\ snap.rows \subseteq Seen /\ snap.open \in BOOLEAN
  BY FS_EmptySet DEF Init, Closed
<1>7. QED
  BY <1>1, <1>2, <1>3, <1>4, <1>5, <1>6 DEF Init, QueueInv, TypeOK, Idle

LEMMA NextKeeps == QueueInv /\ [Next]_vars => QueueInv'
<1> SUFFICES ASSUME QueueInv, [Next]_vars PROVE QueueInv'
  OBVIOUS
<1>1. CASE UNCHANGED vars
  BY <1>1, SameJobs, SameWork, SameTarget, SameRest, Assembled DEF vars
<1>2. QED
  BY <1>1, ComesDueKeeps, QueueNowKeeps, RemoveSourceKeeps, AttachSourceKeeps, ReplaceSourceKeeps,
     StartDispatchKeeps, EndDispatchKeeps, CreateJobKeeps, ClaimKeeps, SucceedKeeps, FailKeeps,
     WorkersKeep, LapseKeeps, AgentKeeps DEF Next

\* Type correctness: in every reachable state each job, target and worker has
\* its type, however often jobs are queued, thinned and reported.
THEOREM QueueTypeOK == Spec => []TypeOK
<1>1. QueueInv => TypeOK
  BY DEF QueueInv
<1>2. QED
  BY <1>1, InitInv, NextKeeps, PTL DEF Spec

\* No job waits or runs for a source that was removed from its product but
\* one POST /jobs has named it for since, although a dispatch may work on a list
\* of targets it read before the removal: it locks each target and looks at its
\* status again, and the removal cancels the jobs that were queued before.
THEOREM RemovedStaysAlone == Spec => []RemovedIsLeftAlone
<1>1. QueueInv => RemovedIsLeftAlone
  BY DEF QueueInv
<1>2. QED
  BY <1>1, InitInv, NextKeeps, PTL DEF Spec

\* A target whose last check succeeded shows one of its present source, although
\* a worker may return an offer of a replaced one at any later time: its job was
\* cancelled, or is found to be for another source under the lock.
THEOREM ChecksAreOfTheSource == Spec => []CheckedOnItsSource
<1>1. QueueInv => CheckedOnItsSource
  BY DEF QueueInv
<1>2. QED
  BY <1>1, InitInv, NextKeeps, PTL DEF Spec

\* Whoever reports under the token of a job has been given the source that job
\* was queued for, whatever happened to the target, to other jobs and to the
\* lease since: a report is never filed under another source than the one whose
\* page was read.
THEOREM ReportsFitTheirJob == Spec => []TokensFit
<1>1. QueueInv => TokensFit
  BY DEF QueueInv
<1>2. QED
  BY <1>1, InitInv, NextKeeps, PTL DEF Spec
=============================================================================
