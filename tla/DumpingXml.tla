----------------------------- MODULE DumpingXml -----------------------------
(***************************************************************************)
(* Classic dumping of one product: the offer in the generated Kaspi XML,   *)
(* the switches that own it, the history of dumping runs with its queue of *)
(* competitor scans, and the local agent that answers them.                *)
(*                                                                         *)
(* A scan's answer is applied in two steps. The decision (switches, policy *)
(* and cost source) is taken before the feed row is locked, the offer is   *)
(* written after it; sales, switches and callbacks run in between. The     *)
(* other writers are one step. A stock event is one although it reads the  *)
(* stock and the policy before it locks the feed and only the product      *)
(* again after it (dumping_service.py:720-747): what commits in that gap,  *)
(* a policy that is switched say, is missed by the code and not modelled.  *)
(***************************************************************************)
EXTENDS Naturals, Sequences, FiniteSets

CONSTANTS
  Tokens,      \* lease tokens, reused once nobody knows them any more
  NoToken,
  History,     \* job rows kept (DUMPING_RUN_HISTORY_PER_PRODUCT, 100)
  MaxRetries,  \* RECOVERY_RETRY_LIMIT
  MaxStock,    \* bound: units on the shelf
  MaxEvents    \* bound: sales, switches, observations, lost calls

ASSUME DumpingConstants ==
  /\ NoToken \notin Tokens
  /\ History \in Nat \ {0} /\ MaxRetries \in Nat
  /\ MaxStock \in Nat /\ MaxEvents \in Nat

VARIABLES
  offer,       \* the product's offer in KaspiXmlFeed.generated_xml: not listed, not for
               \* sale, for sale from stock, as a preorder or by decree of its owner or of
               \* the uploaded file, or listed with nothing said about its availability
  sale,        \* Product.sale_enabled
  overridden,  \* Product.sale_state_overridden
  policy,      \* DumpingPolicy: enabled, auto_publish_xml
  audit,       \* the newest policy-state run
  stock,       \* received units left in the product's pool
  supplier,    \* the supplier snapshot CRM holds can be bought from
  refresh,     \* the browser job that looks the supplier up again
  waiting,     \* the awaiting_supplier_refresh runs, by their job's state
  latest,      \* the newest run: a waiting one, or what kind it is
  jobs,        \* the rows of the scan queue, oldest first
  inHand,      \* tokens an agent worker may still answer under
  deciding,    \* the answer between its decision and the feed lock
  callbacks,   \* after-commit refreshes submitted to the executor
  published,   \* the token whose answer was applied last
  events

xmlVars == <<offer, sale, overridden, policy, audit, waiting, latest>>
queueVars == <<jobs, inHand, deciding, published>>
supplyVars == <<stock, supplier, refresh, callbacks>>
vars == <<xmlVars, queueVars, supplyVars, events>>

\* A run waits for a supplier job that is still active, that ended one way or
\* the other, or that could not be queued at all.
Gates == {"queued", "succeeded", "failed", "unqueued"}
Active == {"queued_local", "leased_local"}
Ended == {"succeeded_local", "failed_local"}

\* Why a scan was queued matters where a recovery is told from the rest; the
\* others only order the queue among products. A row keeps its token while it
\* is leased: afterwards it only answers repeats, which change nothing.
JobRow == [status : Active \union Ended, reason : {"scan", "recovery"}, attempt : 0 .. MaxRetries,
           token : Tokens \union {NoToken}, live : BOOLEAN]
Decision == [token : Tokens, kind : {"stock", "preorder"}, controls : BOOLEAN]
NoDecision == [token |-> NoToken, kind |-> "stock", controls |-> FALSE]

TypeOK ==
  /\ offer \in {"absent", "closed", "stock", "forced", "preorder", "unsaid"}
  /\ sale \in BOOLEAN /\ overridden \in BOOLEAN
  /\ policy \in [enabled : BOOLEAN, publishes : BOOLEAN]
  /\ audit \in {"none", "suspended_seller_removed", "policy_disabled_manual"}
  /\ stock \in 0 .. MaxStock /\ supplier \in BOOLEAN
  /\ refresh \in {"idle", "queued"}
  /\ waiting \subseteq Gates
  /\ latest \in Gates \union {"other", "suspended_no_source", "suspended_manual_out_of_stock"}
  /\ jobs \in Seq(JobRow) /\ Len(jobs) <= History
  /\ inHand \subseteq Tokens
  /\ deciding \in Decision \union {NoDecision}
  /\ callbacks \subseteq {"refresh", "enqueue"}
  /\ published \in Tokens \union {NoToken}
  /\ events \in 0 .. MaxEvents

Controls == policy.enabled /\ policy.publishes

\* What a decision rests on: received units, before any supplier whatever
\* inventory_first says, then a supplier whose snapshot can be bought from.
OnShelf == stock > 0
AtSupplier == supplier
Source == IF OnShelf THEN "stock" ELSE IF AtSupplier THEN "preorder" ELSE "none"

\* An offer the feed does not list can only be created by a publication or an
\* upload.
Shown(listed, state) == IF listed = "absent" THEN "absent" ELSE state
Show(state) == offer' = Shown(offer, state)

\* The runs that wait for the supplier get another status.
ReleaseRuns(gates) ==
  /\ waiting' = waiting \ gates
  /\ latest' = IF latest \in waiting \intersect gates THEN "other" ELSE latest

ActiveJobs == {i \in DOMAIN jobs : jobs[i].status \in Active}
\* complete_job holds its row locked until it commits.
Locked(i) == deciding # NoDecision /\ jobs[i].token = deciding.token

\* The oldest ended row makes room for a new one.
Pruned ==
  LET old == {i \in DOMAIN jobs : jobs[i].status \in Ended}
      gone == CHOOSE i \in old : \A k \in old : i <= k
  IN IF Len(jobs) < History THEN jobs
     ELSE [i \in 1 .. History - 1 |-> IF i < gone THEN jobs[i] ELSE jobs[i + 1]]

Room == Len(jobs) < History \/ \E i \in DOMAIN jobs : jobs[i].status \in Ended

QueueJob(reason, attempt) ==
  /\ Room
  /\ jobs' = Append(Pruned, [status |-> "queued_local", reason |-> reason, attempt |-> attempt,
                             token |-> NoToken, live |-> FALSE])

EndedRow(row, status) == [row EXCEPT !.status = status, !.token = NoToken, !.live = FALSE]

Fail(group) ==
  jobs' = [i \in DOMAIN jobs |->
    IF jobs[i].status \in group THEN EndedRow(jobs[i], "failed_local")
    ELSE jobs[i]]

Happens == events < MaxEvents /\ events' = events + 1

-----------------------------------------------------------------------------
(***************************************************************************)
(* The feed and its writers                                                *)
(***************************************************************************)

\* queue_browser_target_now finds the active job of a target, queues one, or
\* finds no target that an agent can check.
QueueSupplierSnapshot(gate) ==
  /\ gate \in {"queued", "unqueued"}
  /\ refresh = "queued" => gate = "queued"
  /\ refresh' = IF gate = "queued" THEN "queued" ELSE refresh

\* The stock figure `units` is projected into the offer. A depleted offer is
\* closed, a fresh look at the supplier is queued, and a run waits for it
\* unless the newest run already does.
Deplete ==
  \E gate \in Gates :
    /\ QueueSupplierSnapshot(gate)
    /\ IF latest \in waiting THEN UNCHANGED <<waiting, latest>>
       ELSE waiting' = waiting \union {gate} /\ latest' = gate

\* Whether CRM owns what the feed says of the offer.
Manages(onSale, rule) == onSale /\ rule.enabled /\ rule.publishes
Project(listed, units, onSale, forced, rule) ==
  LET managed == Manages(onSale, rule) /\ listed # "absent" IN
  \/ /\ managed /\ units = 0
     /\ offer' = "closed"
     /\ Deplete
  \/ /\ managed /\ units > 0
     /\ offer' = "stock"
     /\ ReleaseRuns(Gates)
     /\ UNCHANGED refresh
  \/ /\ ~managed
     /\ offer' = IF ~onSale THEN Shown(listed, "closed")
                 ELSE IF ~Manages(onSale, rule) /\ forced THEN Shown(listed, "forced")
                 ELSE listed
     /\ UNCHANGED <<waiting, latest, refresh>>

Sync(units, onSale, forced, rule) == Project(offer, units, onSale, forced, rule)

\* An order takes a unit, or one comes back, in the transaction that syncs.
SellUnit ==
  /\ Happens /\ stock > 0
  /\ stock' = stock - 1
  /\ Sync(stock - 1, sale, overridden, policy)
  /\ UNCHANGED <<sale, overridden, policy, audit, queueVars, supplier, callbacks>>

Restock ==
  /\ Happens /\ stock < MaxStock
  /\ stock' = stock + 1
  /\ Sync(stock + 1, sale, overridden, policy)
  /\ UNCHANGED <<sale, overridden, policy, audit, queueVars, supplier, callbacks>>

\* set_product_sale_enabled(False): the offer is closed and every active scan
\* cancelled, under the lock of its row.
StopSale ==
  /\ Happens
  /\ \A i \in ActiveJobs : ~Locked(i)
  /\ sale' = FALSE /\ overridden' = TRUE
  /\ Show("closed")
  /\ Fail(Active)
  /\ latest' = "suspended_manual_out_of_stock"
  /\ UNCHANGED <<policy, audit, waiting, inHand, deciding, published, supplyVars>>

ResumeSale ==
  /\ Happens
  /\ sale' = TRUE /\ overridden' = TRUE
  /\ Sync(stock, TRUE, TRUE, policy)
  /\ UNCHANGED <<policy, audit, queueVars, stock, supplier, callbacks>>

\* upsert_dumping_policy: switching on projects the stock, switching off
\* leaves the owner's choice in the audit.
SavePolicy ==
  /\ Happens
  /\ policy' \in [enabled : BOOLEAN, publishes : BOOLEAN]
  /\ IF policy'.enabled
     THEN Sync(stock, sale, overridden, policy') /\ audit' = audit
     ELSE /\ audit' = "policy_disabled_manual"
          /\ latest' = IF audit = audit' THEN latest ELSE "other"
          /\ UNCHANGED <<offer, waiting, refresh>>
  /\ UNCHANGED <<sale, overridden, queueVars, stock, supplier, callbacks>>

\* What a price list says of the product's availability, and the offer it puts
\* in the place of the one in the feed.
Availability == {"yes", "no", "unsaid"}
Merged(available) ==
  CASE available = "yes" -> "forced" [] available = "no" -> "closed" [] OTHER -> "unsaid"

\* Only a switch that neither the owner nor a managing policy holds follows
\* the file.
SaleInFile(available) ==
  IF available = "unsaid" \/ overridden \/ Controls THEN sale ELSE available = "yes"

\* _commit_xml_import of a price list that names the product. The new offer is
\* projected again where CRM or the owner decides what it says.
ImportCatalog ==
  /\ Happens
  /\ \E available \in Availability :
       /\ sale' = SaleInFile(available)
       /\ IF overridden \/ Controls
          THEN Project(Merged(available), stock, sale', overridden, policy)
          ELSE offer' = Merged(available) /\ UNCHANGED <<waiting, latest, refresh>>
  /\ UNCHANGED <<overridden, policy, audit, queueVars, stock, supplier, callbacks>>

\* An order line that matches no card, but a managed SKU.
CloseUntracked ==
  /\ Happens /\ Controls
  /\ Show("closed")
  /\ UNCHANGED <<sale, overridden, policy, audit, waiting, latest, queueVars, supplyVars>>

-----------------------------------------------------------------------------
(***************************************************************************)
(* Supplier snapshots and the callback they leave behind                   *)
(***************************************************************************)

\* A snapshot marks the product when it changed, cannot be bought from, or
\* is waited for.
Mark ==
  callbacks' = IF supplier' # supplier \/ ~supplier' \/ waiting # {}
               THEN callbacks \union {"refresh"} ELSE callbacks

\* An agent looks at the supplier when its target is due.
Observe ==
  /\ \/ supplier' = supplier /\ events' = events
     \/ supplier' = ~supplier /\ Happens
  /\ Mark
  /\ UNCHANGED <<xmlVars, queueVars, stock, refresh>>

\* The browser job the runs wait for ends.
RefreshDone ==
  /\ refresh = "queued" /\ refresh' = "idle"
  /\ \E result \in {"succeeded", "failed"} :
       /\ waiting' = {IF g = "queued" THEN result ELSE g : g \in waiting}
       /\ latest' = IF latest = "queued" THEN result ELSE latest
       /\ IF result = "succeeded"
          THEN supplier' \in BOOLEAN /\ Mark
          ELSE UNCHANGED <<supplier, callbacks>>
  /\ UNCHANGED <<offer, sale, overridden, policy, audit, queueVars, stock, events>>

\* suspend_product_without_cost_source; queued scans go, a leased one stays.
Suspend(controls) ==
  /\ IF controls THEN Show("closed") ELSE offer' = offer
  /\ waiting' = {}
  /\ latest' = "suspended_no_source"

\* Variant: only the runs whose job succeeded.
RefreshedSucceeded == {"succeeded"}

\* A usable source lets every waiting run go, whatever became of its own job.
Refreshed == Gates

\* First transaction of refresh_dumping_for_supplier_product.
Refresh ==
  /\ "refresh" \in callbacks
  /\ IF ~(sale /\ Controls)
     THEN /\ callbacks' = callbacks \ {"refresh"}
          /\ UNCHANGED <<offer, waiting, latest, jobs>>
     ELSE IF Source = "none"
     THEN /\ callbacks' = callbacks \ {"refresh"}
          /\ Suspend(TRUE)
          /\ Fail({"queued_local"})
     ELSE /\ callbacks' = (callbacks \ {"refresh"}) \union {"enqueue"}
          /\ ReleaseRuns(Refreshed)
          /\ UNCHANGED <<offer, jobs>>
  /\ UNCHANGED <<sale, overridden, policy, audit, inHand, deciding, published, stock, supplier,
                 refresh, events>>

\* The process stops, or the database picks the callback as a deadlock's victim.
LoseCallback ==
  /\ Happens
  /\ \E c \in callbacks : callbacks' = callbacks \ {c}
  /\ UNCHANGED <<xmlVars, queueVars, stock, supplier, refresh>>

-----------------------------------------------------------------------------
(***************************************************************************)
(* The queue of scans                                                      *)
(***************************************************************************)

\* release_completed_supplier_refreshes: the runs whose job succeeded are let
\* go, the others hold the product back.
Unresolved == waiting \ {"succeeded"}

\* queue_competitor_job. A refusal rolls the release of the runs back.
Enqueue(manual) ==
  IF sale /\ policy.enabled /\ Unresolved = {} /\ Source # "none"
  THEN /\ waiting' = {}
       /\ IF ActiveJobs # {}
          THEN /\ jobs' = [i \in DOMAIN jobs |->
                    IF i \in ActiveJobs /\ manual THEN [jobs[i] EXCEPT !.reason = "scan"] ELSE jobs[i]]
               /\ latest' = IF latest \in waiting THEN "other" ELSE latest
          ELSE QueueJob("scan", 0) /\ latest' = "other"
  ELSE UNCHANGED <<waiting, latest, jobs>>

RunNow ==
  /\ Happens /\ policy.enabled
  /\ \A i \in ActiveJobs : ~Locked(i)
  /\ Enqueue(TRUE)
  /\ UNCHANGED <<offer, sale, overridden, policy, audit, inHand, deciding, published, supplyVars>>

\* Second transaction of the callback.
EnqueueAfterRefresh ==
  /\ "enqueue" \in callbacks
  /\ callbacks' = callbacks \ {"enqueue"}
  /\ Enqueue(FALSE)
  /\ UNCHANGED <<offer, sale, overridden, policy, audit, inHand, deciding, published, stock, supplier,
                 refresh, events>>

\* The retired heuristic switched the policy off, or left no trace at all.
Recoverable ==
  /\ ~policy.enabled /\ policy.publishes
  /\ audit \in {"none", "suspended_seller_removed"}
  /\ Source # "none"

\* The newest recovery job, when it failed and may be tried again.
Retriable ==
  LET recoveries == {i \in DOMAIN jobs : jobs[i].reason = "recovery"}
  IN {i \in recoveries : /\ jobs[i].status = "failed_local"
                         /\ \A k \in recoveries : k <= i
                         /\ jobs[i].attempt < MaxRetries}

CanRetry == sale /\ Controls /\ ActiveJobs = {} /\ Source # "none"

\* One round of the dispatcher: recovered policies, retries, due refreshes.
DispatchRecovery ==
  /\ Recoverable
  /\ policy' = [policy EXCEPT !.enabled = TRUE]
  /\ QueueJob("recovery", 0)
  /\ latest' = "other"
  /\ UNCHANGED <<offer, sale, overridden, audit, waiting, inHand, deciding, published, supplyVars, events>>

DispatchRetry ==
  /\ ~Recoverable /\ CanRetry
  /\ \E i \in Retriable : QueueJob("recovery", jobs[i].attempt + 1)
  /\ latest' = "other"
  /\ UNCHANGED <<offer, sale, overridden, policy, audit, waiting, inHand, deciding, published,
                 supplyVars, events>>

DispatchDue ==
  /\ ~Recoverable /\ ~(CanRetry /\ Retriable # {})
  /\ sale /\ Controls /\ ActiveJobs = {}
  /\ IF Unresolved = {} /\ Source # "none"
     THEN QueueJob("scan", 0) /\ waiting' = {} /\ latest' = "other"
     ELSE ReleaseRuns({"succeeded"}) /\ jobs' = jobs
  /\ UNCHANGED <<offer, sale, overridden, policy, audit, inHand, deciding, published, supplyVars, events>>

-----------------------------------------------------------------------------
(***************************************************************************)
(* The agent                                                               *)
(***************************************************************************)

\* Variant: a live lease may be taken over.
LapsedOrLive == {i \in ActiveJobs : jobs[i].status = "leased_local" /\ ~Locked(i)}

\* Lapsed leases come first, oldest first; then the queue. A row another
\* transaction has locked is skipped.
Lapsed == {i \in ActiveJobs : jobs[i].status = "leased_local" /\ ~jobs[i].live /\ ~Locked(i)}
Queued == {i \in ActiveJobs : jobs[i].status = "queued_local"}
Claimable ==
  IF Lapsed # {} THEN {i \in Lapsed : \A k \in Lapsed : i <= k}
  ELSE {i \in Queued : \A k \in Queued : i <= k}

Unknown == Tokens \ (inHand \union {jobs[i].token : i \in DOMAIN jobs})

\* The lease is granted; its answer may be lost on the way to the agent.
Claim ==
  \E i \in Claimable :
    \/ /\ ~sale
       /\ jobs' = [jobs EXCEPT ![i] = EndedRow(@, "failed_local")]
       /\ UNCHANGED <<inHand, events>>
    \/ /\ sale
       /\ \E t \in Unknown :
            /\ jobs' = [jobs EXCEPT ![i].status = "leased_local", ![i].token = t, ![i].live = TRUE]
            /\ \/ inHand' = inHand \union {t} /\ events' = events
               \/ inHand' = inHand /\ Happens

\* The same agent asks again before its lease ends and gets the same token.
Resume ==
  \E i \in ActiveJobs :
    /\ sale /\ jobs[i].status = "leased_local" /\ jobs[i].live
    /\ inHand' = inHand \union {jobs[i].token}
    /\ UNCHANGED <<jobs, events>>

Lease ==
  /\ Claim \/ Resume
  /\ UNCHANGED <<xmlVars, deciding, published, supplyVars>>

Expire ==
  /\ \E i \in ActiveJobs : jobs[i].live /\ jobs' = [jobs EXCEPT ![i].live = FALSE]
  /\ UNCHANGED <<xmlVars, inHand, deciding, published, supplyVars, events>>

\* complete_job accepts the token on record of a leased row, lapsed or not;
\* a repeated answer to an ended row changes nothing.
Answerable == {i \in ActiveJobs : jobs[i].status = "leased_local" /\ jobs[i].token \in inHand /\ ~Locked(i)}

ReportFailure ==
  /\ Happens
  /\ \E i \in Answerable : jobs' = [jobs EXCEPT ![i] = EndedRow(@, "failed_local")]
  /\ UNCHANGED <<xmlVars, inHand, deciding, published, supplyVars>>

\* apply_competitor_snapshot up to the feed lock. A refused decision fails the
\* job; without a source it also takes the product off sale in the feed.
Decide ==
  /\ \E i \in Answerable :
       \/ /\ sale /\ policy.enabled
          /\ Source # "none"
          /\ deciding' = [token |-> jobs[i].token, kind |-> Source, controls |-> Controls]
          /\ UNCHANGED <<offer, waiting, latest, jobs>>
       \/ /\ ~(sale /\ policy.enabled)
          /\ jobs' = [jobs EXCEPT ![i] = EndedRow(@, "failed_local")]
          /\ UNCHANGED <<offer, waiting, latest, deciding>>
       \/ /\ sale /\ policy.enabled /\ Source = "none"
          /\ Suspend(Controls)
          /\ Fail(Active)
          /\ UNCHANGED deciding
  /\ UNCHANGED <<sale, overridden, policy, audit, inHand, published, supplyVars, events>>

\* Variant: the switch as the decision saw it.
SaleAtDecision == TRUE

\* The switch of the product once more, now under the feed lock. StopSale
\* cancels the job under its row lock, which this transaction holds: one of the
\* two is rolled back instead. A price list moves the switch all the same.
SaleAtPublication == sale

\* update_feed_xml, which creates an offer the feed does not list.
Write(kind) == offer' = kind

\* publish_decision from the feed lock on, and the end of the job.
Publish ==
  /\ deciding # NoDecision
  /\ \/ /\ ~SaleAtPublication
        /\ IF deciding.controls THEN Show("closed") ELSE offer' = offer
        /\ latest' = "suspended_manual_out_of_stock"
        /\ waiting' = waiting
     \/ /\ SaleAtPublication
        /\ IF deciding.controls THEN Write(deciding.kind) /\ waiting' = {}
           ELSE UNCHANGED <<offer, waiting>>
        /\ latest' = "other"
  /\ jobs' = [i \in DOMAIN jobs |->
       IF Locked(i) THEN EndedRow(jobs[i], "succeeded_local") ELSE jobs[i]]
  /\ published' = deciding.token
  /\ deciding' = NoDecision
  /\ UNCHANGED <<sale, overridden, policy, audit, inHand, supplyVars, events>>

\* The transaction is rolled back: a deadlock's victim, or a restart.
AbortPublish ==
  /\ Happens
  /\ deciding # NoDecision /\ deciding' = NoDecision
  /\ UNCHANGED <<xmlVars, jobs, inHand, published, supplyVars>>

\* A worker has its reply, gives up, or dies with the job in its hands.
Forget ==
  /\ \E t \in inHand :
       /\ inHand' = inHand \ {t}
       /\ IF \E i \in Answerable : jobs[i].token = t THEN Happens ELSE events' = events
  /\ UNCHANGED <<xmlVars, jobs, deciding, published, supplyVars>>

-----------------------------------------------------------------------------
Init ==
  /\ offer \in {"absent", "closed", "preorder"}
  /\ sale = TRUE /\ overridden = FALSE
  \* A policy left disabled by an older release, or one in use.
  /\ \/ policy = [enabled |-> FALSE, publishes |-> TRUE]
        /\ audit \in {"none", "suspended_seller_removed"}
     \/ policy = [enabled |-> TRUE, publishes |-> TRUE] /\ audit = "none"
  /\ stock = 0 /\ supplier \in BOOLEAN
  /\ refresh = "idle" /\ waiting = {} /\ latest = "other"
  /\ jobs = <<>> /\ inHand = {} /\ deciding = NoDecision
  /\ callbacks = {} /\ published = NoToken /\ events = 0

Next ==
  \/ SellUnit \/ Restock \/ StopSale \/ ResumeSale \/ SavePolicy \/ ImportCatalog \/ CloseUntracked
  \/ Observe \/ RefreshDone \/ Refresh \/ EnqueueAfterRefresh \/ LoseCallback
  \/ RunNow \/ DispatchRecovery \/ DispatchRetry \/ DispatchDue
  \/ Lease \/ Expire \/ ReportFailure \/ Decide \/ Publish \/ AbortPublish \/ Forget

Spec == Init /\ [][Next]_vars

(***************************************************************************)
(* The dispatcher and the executor run, agents keep asking, answering and  *)
(* meeting the end of leases, the supplier keeps being looked at.          *)
(***************************************************************************)
DispatchFairness ==
  WF_vars(DispatchRecovery) /\ WF_vars(DispatchRetry) /\ WF_vars(DispatchDue)

Fairness ==
  /\ WF_vars(Observe) /\ WF_vars(RefreshDone)
  /\ WF_vars(Refresh) /\ WF_vars(EnqueueAfterRefresh)
  /\ DispatchFairness
  /\ WF_vars(Lease) /\ WF_vars(Expire)
  /\ SF_vars(Decide) /\ WF_vars(Publish) /\ WF_vars(Forget)

FairSpec == Spec /\ Fairness

-----------------------------------------------------------------------------
(***************************************************************************)
(* Properties                                                              *)
(***************************************************************************)

\* feed_offer_is_expected_active: what Kaspi shows of the feed.  An offer that
\* says nothing of its availability counts as for sale.
ExpectedActive == offer \in {"stock", "forced", "preorder", "unsaid"}

\* While the product is off sale, by its owner or by the price list, nothing
\* offers it: no sale, no return, no policy change and no scan that was already
\* on its way.  The exception: a price list that leaves the availability out
\* puts such an offer in place, and where no policy manages the feed and the
\* owner has not switched, it stays so although an earlier list took the
\* product off sale.
StoppedStaysClosed == ~sale /\ ExpectedActive => offer = "unsaid"

\* The product is what the lease of its scan lends: one worker at a time, a
\* live lease is not pushed aside, and only the token on record is applied.
HolderOf(p) ==
  LET leased == {i \in ActiveJobs : jobs[i].status = "leased_local"}
  IN IF leased = {} THEN NoToken ELSE jobs[CHOOSE i \in leased : TRUE].token
ScanLease ==
  INSTANCE FencedLease WITH
    Resources <- {"product"},
    holder <- [p \in {"product"} |-> HolderOf(p)],
    live <- {p \in {"product"} : \E i \in ActiveJobs : jobs[i].live},
    recorded <- [p \in {"product"} |-> published]
ScanIsFencedLease == ScanLease!LeaseSpec

\* A product that stays on sale under a policy that owns the feed and has
\* something to sell is offered again, whatever callback or answer was lost.
OfferReopens ==
  <>[](sale /\ Controls /\ Source # "none") => []<>(offer \in {"stock", "preorder"})

\* "Stale supplier facts can never reopen a preorder": a closed offer comes
\* back as a preorder only when no run still waits for the supplier.
OnlyFreshReopens ==
  [][offer = "closed" /\ offer' = "preorder" => Unresolved = {}]_vars
=============================================================================
