# Verification of leo-crm

leo-crm is the CRM of a Kaspi marketplace merchant: it watches suppliers' offers,
imports marketplace orders, keeps warehouse stock, raises purchases and reprices
the merchant's own offers through local agents. This directory holds TLA+ models
of its core, the TLC configurations that check them on small instances and proofs
that TLAPS checks for every value of the constants. `PROJECT.json` maps each
definition to the lines it models; paths below are relative to `backend/app/`
unless they say otherwise.

## 1. The system

FastAPI handlers, background asyncio loops and remote agents (Python processes on
a merchant's PC) share one PostgreSQL database. There is no other shared memory to
speak of: components meet in rows, under `SELECT ... FOR UPDATE` (often
`SKIP LOCKED`) at READ COMMITTED, with leases and fencing tokens for work that
leaves the process. That is why most models are about what may commit between two
transactions of one operation, or between two requests of one agent.

| component (files) | state | operations | hard part | what makes it correct |
|---|---|---|---|---|
| monitoring core (`lease_engine`, `scheduler_engine`, `source_health_engine`, `observation_engine`) | monitor targets with a lease, attempts, offers and their history, a breaker per source | claim due / run now, fetch, accept or discard the answer, back off, replace or remove the source | a fetch outlives its lease; two workers; crash with the lease held | stale answers never written, live leases never stolen, targets never forgotten |
| browser agent queue (`browser_agent_*`, `tools/browser_agent*.py`) and manual sources (`product_supplier_binding_api`) | queued and leased jobs, agents | dispatch due, queue now, claim, complete, renew the Ozon session; add, replace, remove a source | the dispatch's snapshot is old when it inserts; refused answers | answers only for the source a target has now, nothing for a removed one, every due target is checked |
| alerts (`price_drop_alerts`, `market_recovery`, `telegram_price_alerts`) | offers' recent prices, cards with a baseline and a band, outbox events | raise, confirm, suppress, send, mark | sent before it is marked; newest first; edited settings | nothing marked that was not told, each rise once, every event leaves |
| order polling (`kaspi_order_polling`, `kaspi_active_order_reconciliation`, `kaspi_raw_receiver_jobs`, `kaspi_product_enrichment_jobs`) and import (`marketplace_import`, `marketplace_sync`) | one lock per process, a cursor per account, orders with manual stage and lines | three loops, a rebuild, a page sync, two enrichments | a cancelled job's thread goes on; lists omit what enrichment learned | newer answers are not overwritten, identities are kept, every active order comes round |
| warehouse (`inventory_service`, `inventory_api`, `product_inventory_group`) | batches, allocations, pools of product cards | receive, allocate FIFO, release, rebuild, reserve expected units, merge and detach pools | withdrawn and remade allocations, returned and relinked units | no unit lost, FIFO, every card's feed shows its stock |
| purchases (`purchase_service`, `purchase_api`) | purchase rows with versions, an event trail, an outbox | create from order, transition | unlocked look-ups, lost answers and repeats | the trail explains the row, optimistic locking, idempotent repeats |
| Fast Dumping (`fast_dumping_*`) | one state row, a policy and jobs per product | schedule, claim, scan result, prepare, apply, check, lease recovery, policy edits, stock and supplier events | the agent vanishes with a price write that may or may not have happened | one active job, a sent write is only checked, what is handed out is current, products come back to the queue |
| Fast Dumping agent (`tools/kaspi_fast_dumping_*.py`, `tools/kaspi_fast_offer_runtime.py`) | what a worker has in hand | ask, scan page by page, look-write-look, check, photo, report | requests lost, repeated and late; sellers move between pages | what is recorded was shown, prices come to rest |
| price rules (`fast_dumping_pricing`, `fast_dumping_preorder_position`, `full_automation_*`) | the phase of two own stores' cycle | pure functions | tariff steps, delivery filter, own neighbours | least floor with the profit, no race of one's own, rest at the best price |
| Dumping XML (`dumping_service`, `dumping_runner`, `dumping_api`, `dumping_events`, `product_xml_import_api`) and competitor jobs (`kaspi_competitor_agent_api`, `dumping_competitor_worker`) | the offer in the XML feed, policies, runs as leased jobs | decide and publish, suspend, recover, switch a sale, upload a price list, queue, claim, complete, retry | several writers of one offer; callbacks after commit | a stopped product stays closed, one answer per lease, what can be sold is offered again |
| product tests, new cards, preorders (`product_test_api`, `preorder_api`, `tools/product_test_agent.py`, `tools/product_discovery`, `tools/product_test_new_card`) | a row per card, jobs with leases and heartbeats | search, prepare, import, confirm, enrol | moderation outlives every lease; several job kinds move one row | no second import, enrolment on shown terms, CRM stops waiting |
| retention, accounting, revenue, timeline, registry, workspace filter, UI, adapters, migrations | rows they read or own | see `PROJECT.json` | little | not modelled: reads, forms, sums, network, schema |

Interactions: an observation of a supplier wakes Fast Dumping and Dumping XML and
may put an alert in the outbox; an imported order takes stock, and every stock
change tells the feed of each card of the pool and replans Fast Dumping jobs; a
manual source edit takes a monitor target's lease away and cancels its browser
jobs; enrolment of a tested card creates a source and a Fast Dumping policy; a
purchase is raised from an imported order and is otherwise on its own.

## 2. Modules

| module | what it is |
|---|---|
| `FencedLease` | abstract: a resource is lent to one claim at a time, a live claim is not pushed aside, only the claim on record delivers |
| `MonitorScheduler` | the monitoring core; implements `FencedLease` |
| `BrowserQueue` | the local supplier checks and the operator's edits of sources |
| `AlertOutbox` | two producers of messages and their publisher |
| `OrderIntake` | the jobs that bring one account's orders in |
| `InventoryFifo` | batches, allocations, pools, and the orders that use them |
| `PurchaseLifecycle` | purchases and their callers |
| `FastDumping` | one product of Fast Dumping, the CRM's side |
| `FastAgent` | the agent between the CRM and Kaspi |
| `PriceRules`, `Repricing` | the price decisions as operators; the loop of scans, decisions and writes of one or two shops |
| `DumpingXml` | one product's offer in the feed and its competitor scans; the scans implement `FencedLease` |
| `ProductTest` | one row of the test list from search to enrolment |
| `MonitorSchedulerProofs`, `BrowserQueueProofs`, `AlertOutboxProofs`, `InventoryFifoProofs`, `PurchaseLifecycleProofs`, `FastDumpingProofs`, `DumpingXmlProofs`, `RepricingProofs` | theorems about the module of that name, and their proofs |
| `MC...` | small instances for TLC |

Variables are tables (a function from row ids to records, or a sequence in the
order of ids), an action is one database transaction or one step of an agent, and
an operator is what a function does inside its caller's transaction. Definitions
beginning with the comment `Variant:` are plausible wrong versions of the
definition that follows; they are used only to make sure that each property
notices such a bug.

**MonitorScheduler.** `target`, `lease`, `attempt`, `health`, `history` and `offer`
are the tables; `task[k]` is the coroutine `process_claimed_target` running under
token `k`. `ClaimDue` takes any subset of due rows because other sessions may hold
some of them (`SKIP LOCKED`). A task goes `claimed` -> `fetching` -> answer, and
between the steps anything may commit; `DiscardStale` is `StaleLeaseError`. Reading
the breaker and deferring are one action, the code does both before it awaits.
Times are kept as what is left until them, so the clock has no bound. `outrun` is
history: since the claim another check's answer was accepted for the target, or the
target was given another source.

**BrowserQueue.** `target` and `jobs` are the rows; `snap` is what the dispatch's
`INSERT ... SELECT` saw at its start, `StartDispatch` and `EndDispatch` its two
ends, so that an edit of the source may commit in between. A worker first asks
(`Ask`, the look-up without a lock), then claims (`Claim`). `CreateJob` takes any target
that exists, a removed one too, as `POST /jobs` does; `late` marks the job it then makes.
`Fail` and `Succeed` follow `complete_browser_agent_job`, with the rollback of an answer
that `BrowserAgentResultError` refuses (`Matches`). A failure is recorded on the target
whatever source the job was of (`failed`), a success only after the sources were
compared. Tokens are numbered and the least unused one is taken. What is left of the table when rows
end is `Kept`, said by the place of each row that stays. Before it renews its session the
agent drains its workers (`BeginRenewal`, `Renew`).

**AlertOutbox.** `offers` is the observation history an alert's median is taken
from (`price_drop_alerts`), `card` and `market` are the rows of `market_recovery`.
The newest rows and the median are said by counting (`NewestFirst`, `Lowest`).
The publisher is `ReadBatch` -> `Send` -> `Record` per event, and dies anywhere
between; `SendFails` covers a timeout after Telegram took the message. `told` is
the ghost of what Telegram has.

**OrderIntake.** `work` is the job that holds the asyncio lock, `threads` the
transactions handed to `asyncio.to_thread`, `tasks` the enrichments in flight.
`Cancel` is the time limit: the job stops waiting, its thread does not, and
`Drains` says that the lock is kept until it ended (`asyncio.shield`). What a list
leaves out of a line is `Answers`; `Merged` is `_merge_line`. The page sync
(`FetchPage`, `SavePage`) and `EnrichUnlocked` take no lock, as in the code.
`Aborts` is the unique key of the event that a cleared manual stage leaves.

**InventoryFifo.** `db` is the database record, so that a chain of service calls in
one transaction is a composition of operators: `Import`, `Override`, `Detach` and
others chain `Release`, `Allocate`, `Rebuild`, `Show`. The loop over batches and
lines is written in closed form: lay a pool's batches, oldest first, and its
lines' needs, first order first, along one axis; a batch serves a line where the
two intervals overlap (`Overlap`). The same form gives the reservation of expected
units. A sum is the number of units of a table (`Total`, `Units`), which is what the
code's running totals come to. `ReadLine`/`TakeStock` split the import of an unchanged order at the point
where `allocate_order_line_fifo` computes the need before it locks the batches.
`cut` remembers batches an operator edited below what they have to keep. `late` is a
history variable: an import has served a line whose order was cancelled or returned after
the line was read, because nothing looks at the order again under the lock. Manual
stages other than cancelled and assembly act on stock as no stage does.

**PurchaseLifecycle.** A client holds a command; a creation is its three statements
(`LookUpKey`, `LookUpOrder`, `InsertDraft`), a transition is one step because its
first statement locks the row. A lost answer is the client sending its command
again. `PurchaseReceipt` rows are never written by any code path and are left out,
and so is the "order not found" answer.

**FastDumping.** `job`, `state`, `enabled`, `sale`, `stock`, `supplier` are rows;
`call[r]` is an open request which has read its job (and, for operators, the state)
without a lock. Any other transaction may commit between that read and the request's
answer, which works on the stale row, as SQLAlchemy's identity map makes it. `raced` is a
history variable: a request has answered although another transaction had moved its job
on, or given the product another active job (`Overtaken`). The agent may repeat
`prepare-apply`. The `complete_scan`,
`prepare_apply`, `complete_apply` and `complete_verification` actions contain every
layer that `__init__.py` installs over them. `sent` is the ghost of writes an agent
was handed. Prices are two cost levels; `decide_fast_price` is reduced to the
floor and one rival. Deadlines are not counted: a lease may be found expired, a
cooldown ended, at any time.

**FastAgent.** A worker (`agent[w]`) asks for a job, opens the card, reads a page
per step (`ReadPage`) while rivals move, or looks, writes and looks again
(`ReadLive`, `WriteOffer`, `ReadAfter`), and posts its report (`PostAnswered`,
`PostFails`). A repeated POST may leave the first copy behind (`straggler`), a write
whose connection broke may still reach Kaspi (`stray`). The CRM is reduced to what
the agent sees of it. `shown` collects the offers Kaspi has shown since the write
was decided.

**PriceRules and Repricing.** The rules have no state: `SafeFloor`, `Manual` for
the ordinary rule with tariff jump, gap guard, band and anchor of two shops, `Automated` for the
profit-first automation with its shared cycle, `Placed` for the position of a preorder. Amounts are
whole tenge, profits hundredths of a tenge, so 85 % stays an integer. `Repricing`
closes the loop: `Read`, `Complete`, `Prepare`, `Apply` per shop; what one shop writes
is part of the market that both read next. `Prepare` decides again on the scan's market
and today's cost, and `Stands` says when the planned price may still go out.

**DumpingXml.** `offer` is the product's offer in `generated_xml`, `jobs` the runs
that are scans, `waiting` the runs that wait for a supplier refresh. A scan's answer
takes two steps (`Decide`, `Publish`) because switches, policy and cost source are read
before the feed row is locked. The projection of stock (`Sync`) also reads the stock
(`dumping_service.py:720`) and the policy (`:721-724`) before it locks the feed (`:736`)
and looks only at the product again (`:743`); it is modelled as one step. The other
writers read under the lock. `callbacks`
are the after-commit refreshes, which a restart loses (`LoseCallback`). `ImportCatalog` is
an upload that names the product: the file's offer replaces the one in the feed
(`Merged`), the sale switch follows it unless the owner or a managing policy holds it
(`SaleInFile`), and what CRM decides is projected onto the new offer (`Project`).

**ProductTest.** `item` is the row with its hand-over to Kaspi, `jobs[k]` the newest
job per kind, `works` what agents have in hand, `cabinet` what Kaspi has. The agent
works step by step (`Look`, `Link`, `Poll`, `Import`; one step for jobs that only
read) and may be outrun by its lease at each (`Lapse`). `Postponed` is the row a
confirmation leaves for the next check; `Overdue` is the week that moderation may take.

## 3. What is checked

Each run finishes within three and a half minutes on two cores. Counts are distinct states.

| run | instance | properties |
|---|---|---|
| `monitor` (382,846) | 1 target, 2 possible sources, 3 tokens, 2 schedulers and manual runs; a check may take 3 ticks and its lease lasts 2, so leases of running checks lapse and are taken over; 1 crash, lost commit or edit | `NoStaleOverwrite`: a check outrun by another's accepted result or a new source leaves every table as it is when it ends; `ImplementsFencedLease`; `KeepsBeingChecked`, unless checks outlast their leases again and again |
| `browser` (130,667) | 2 targets of a product, 3 sources of 2 suppliers, 2 workers, 4 tokens, 2 requests or one with one mishap | `RemovedIsLeftAlone`: no job waits or runs for a removed source, whatever the dispatch had seen, but one `POST /jobs` named it for since; `CheckedOnItsSource`: a recorded success is of the source the target has now; `KeepsBeingChecked` |
| `alerts` (464,610) | 1 supplier product, 1 card, 2 settings of the rise, batch of 1, 3 starts, 3 checks, 1 edit, 1 mishap | `SentMeansTold`; `BandOnlyRises`: a rise is announced once, a message is raised exactly when the band rises; `EventLeaves` |
| `orders` (336,459) | 2 orders, one imported before; batches, slices and enrichment halves of one; 1 call of a person and 1 mishap, or a second call once a manual stage was cleared | `NoStaleStatus`; `IdentityNeverLost`; `ActiveSetCovered`, unless an order has become one that no import gets past (`Jammed`) |
| `inventory` (303,200) | 2 cards that share, merge and detach, 2 batches of 1 or 2 units, an order of two units that Kaspi or the owner cancels and one that is handed over and returns; 1 importer between whose read and lock anything commits; 1 edit | `StockConserved`, `FifoTaken`, `BatchesStayReachable`, `FeedShowsStock`; `CancelledHoldsNothing` and `ReturnsStayAllocated` until an import has served a line late |
| `purchase_safety` (112,040) | 2 orders, 2 clients, 3 purchases of which one legacy, 4 keys, 4 commands | `HistoryExplainsRow`, `RepeatIsAcknowledged`, `ArrivedInFull`, `AppliedOnSeenState` |
| `fast_dumping` (638,083) | 3 jobs, 2 markets, 2 supplier offers, none or unavailable, 1 request of an agent or operator with any transactions inside it, 1 outside event, 2 scan attempts, 1 check | `OneActiveUnlessRaced` and `SentIsNeverRewritten`, until a request has answered on a row that had changed; `HandedPlanIsCurrent`; `ScansForEver` |
| `fast_agent` (187,543) | 1 worker for all stages, an outside seller and another own shop, pages of two offers, 3 prices, 1 fault, 1 event | `ScanTellsTheMarket`; `AppliedWasShown`; `QueuedIsTaken`; `Converges` |
| `repricing` (270,394) | 1 or 2 shops under either rule, 4 markets, 3 costs (two batches, a supplier), 1 outside change, the code's default amounts | `FloorIsLeast`; `LowersForSellers`; `StockAboveFloor`: no price for stock below the floor of its cost at the hand-out; `EndsAtBest` |
| `dumping` (253,056) | 2 tokens, 2 rows of history, 1 retry, 1 unit, 2 events | `StoppedStaysClosed`, but for an offer a price list left without an availability; `ScanIsFencedLease`; `OfferReopens` |
| `product_test` (391,712) | 1 row, 1 agent process, 2 tokens, 2 terms, 3 requests, 1 mishap | `ImportedOnce`; `EnrolledAsShown`; `SubmissionEnds` |

Why the bounds are enough. A stale check needs two claims of one target and a
third to be outrun in turn: three tokens. A race of jobs needs a first, a second
and a replacement: three jobs. A lost answer and a repeat by one client while
another transitions: four commands. FIFO order, partial service and a remainder
need two batches, a line of two units and a competing line of one. A source edited
under a dispatch needs the target that is edited and one that is not. A cursor
that wraps needs one order behind it and one before. A seller lost between pages
needs three offers on pages of two. Two tokens tell a lapsed lease from the lease
on record where no third answer is asked about. The event, edit and mishap bounds
limit how many outside events a behaviour has, not when they come. A takeover of a
running check needs a check longer than its lease: three ticks and two.

Four configurations prune with a `CONSTRAINT`. `FewTroubles` (`browser`, `orders`) bounds
requests and mishaps together; nothing fair is pruned, they have no fairness. `BeforeLate`
(`inventory`, safety only) stops after the first late service and `BeforeRace`
(`fast_dumping`) after the first answer on a changed row, where the properties that
except it promise nothing. An overtaken request has to be answered, so a pruned behaviour
is one that `ScansForEver` excepts. `HandedPlanIsCurrent`, `StockConserved`, `FifoTaken`,
`BatchesStayReachable` and `FeedShowsStock` have no such exception and are checked here up to
that point; their theorems hold beyond it.
`CHECK_DEADLOCK FALSE` stands where the system really rests: a switched-off product
once the outside events are used up, callers once their commands are.

A type invariant `TypeOK` is part of every module with state. It is proved for the
eight modules of section 4; elsewhere it was checked with the instance of the module's
run. Runs do not list it, so that they report what could be wrong with the program.

**Fairness.** *Monitor*: a scheduler keeps ticking and its due rows are ordered by
`next_check_at`, so a target that is due again and again is claimed (strong fairness
per target); coroutines and the clock go on. A worker may die with a lease: nothing
is assumed of abandoned tasks but that the lease runs out. Nothing bounds how often a check may
outlast its lease, which `KeepsBeingChecked` excepts. *Browser*: the agent's
loops run, expired leases are met by the poll that finds nothing queued (strong, as
a target is due once in five minutes and polls come every few seconds), the user
renews the session. *Alerts*: the publisher's loop and time. *Orders*: jobs go on;
asyncio's lock is first come, first served, so the maintenance loop gets its turn
(strong). *Fast Dumping*: the ten-second maintenance loop, polling agents, expiring
leases and answered requests are weakly fair; nothing makes an agent report.
*Agent*: workers go on, waits and leases end, Kaspi carries out what it accepted.
*Repricing*: no job stays in a stage for ever. *Dumping*: dispatcher, executor,
agents; an answer that is not lost every time is decided (strong). *Product tests*: the
queue is served in the order of its rows (strong per kind), timeouts end an
agent's step, the week of moderation passes; no fairness of agents' success.

### Violation

`purchase_race`: two creations for one order both find no purchase and both insert
(`purchase_service.py:146`). `docs/PURCHASE_LIFECYCLE_CONTRACT.md:24` promises one.

## 4. What is proved

TLAPS checks these for all values of the constants under one named assumption per
module (`MonitorConstants`, `BrowserConstants`, `AlertConstants`, `InventoryAssumption`,
`PurchaseAssumption`, `FastDumpingConstants`, `DumpingConstants`, and `RulesAssumption` with
`LoopAssumption` for the prices), which TLC evaluates in the runs: that "no row" and "no
token" are none of the rows and tokens, that amounts and bounds are natural numbers, that
tables which are summed are finite, in `AlertConstants` that a claim finds a token which
is not in use and that settings are within the limits the API accepts, and in
`LoopAssumption` that prices of sellers are positive and one owner has at most two shops.

| module | theorem | what it states |
|---|---|---|
| `MonitorScheduler` | `StaleChecksAreFenced` | `NoStaleOverwrite` |
| | `LiveLeasesAreKept`, `LeasesImplementFencedLease` | `LiveLeaseKept`, `ImplementsFencedLease` |
| | `TokensNameOneTarget`, `ChecksFetchTheBoundSource` | `TokenNamesOneTarget`, `FetchesBoundSource` |
| `BrowserQueue` | `RemovedStaysAlone` | `RemovedIsLeftAlone` |
| | `ChecksAreOfTheSource`, `ReportsFitTheirJob` | `CheckedOnItsSource`, `TokensFit` |
| `AlertOutbox` | `NothingIsMarkedUntold` | `SentMeansTold` |
| | `RisesAreAnnouncedOnce` | `BandOnlyRises` |
| `InventoryFifo` | `StockIsConserved`, `OldestFirstOut` | `StockConserved`, `FifoTaken` |
| | `BatchesReachable`, `FeedIsTold` | `BatchesStayReachable`, `FeedShowsStock` |
| | `CancelledGivesBack`, `ReturnsRest` | `CancelledHoldsNothing`, `ReturnsStayAllocated`: under any interleaving, until an import serves a line late |
| `PurchaseLifecycle` | `TrailCorrect`, `TransitionsApplyOnSeenState` | `HistoryExplainsRow`, `AppliedOnSeenState` |
| | `RepeatsAcknowledged`, `ArrivalsComplete` | `RepeatIsAcknowledged`, `ArrivedInFull` |
| `FastDumping` | `HandedIsCurrent` | `HandedPlanIsCurrent` |
| | `OneActive`, `SentStays` | `OneActiveUnlessRaced`, `SentIsNeverRewritten`: for any number of requests, until one answers on a changed row |
| `DumpingXml` | `StoppedIsNotOffered` | `StoppedStaysClosed` |
| | `ScansAreLeased` | `ScanIsFencedLease` |
| `PriceRules` | `FloorOfCost` | `SafeFloor` earns the minimum profit, no lower integer price does |
| | `BestOfAll` | `Best` earns at least what any price between floor and ceiling does |
| | `AutomatedDecision` | what `Automated` may answer: above the floor, a sound cycle, lower only for a reason |
| `Repricing` | `FloorCorrect` | `FloorIsLeast` |
| | `NoRace`, `FloorKept` | `LowersForSellers`, `StockAboveFloor` |
| all eight | `TypeCorrect` (of three), `QueueTypeOK`, `AlertTypeOK`, `InventoryTypeOK`, `FastTypeOK`, `XmlTypeOK` | `TypeOK` |

No theorem assumes how requests are scheduled: transactions commit between the unlocked
read and the locked write of others wherever the code lets them. Four properties say in
their formulas where that ends what they promise: `late` of the warehouse and `raced` of
Fast Dumping become true in the very step in which a transaction has worked on what was no
longer so, and stay true. Those exceptions cannot be dropped (section 5).

*Monitoring.* An outrun check ends without a trace because it holds no lease
(`OutrunHoldsNothing`). That alone is not inductive: from a state in which a token stands on
two leases, or on the lease of a target other than its task's, one step breaks it. The
invariant

    FenceInv == TypeInv /\ OneLeasePerToken /\ TokenOfItsTarget /\ OutrunHoldsNothing

adds that a token is on one lease at most and that a running task's token stands
only on its own target's lease; `NoStaleOverwrite` then follows step by step; `TypeInv` strengthens `TypeOK` by the shape of
idle tasks. Most actions only shrink leases or end tasks: one lemma
(`ShrinkPreservesFence`) covers them, the claims and the accepted answers have one each.

For the leases `LeaseSteps` says what a step does to one target's lease: it stays,
ages, is granted under a token no lease carries, ends with its own check, or is
taken by an operator. `LiveLeasesAreKept` and the step mapping to `FencedLease`
follow case by case. `ChecksFetchTheBoundSource` is inductive over `TypeInv`: only
`ReplaceSource` changes a source and it clears the lease in the same step, and no
fetching check's token is fresh for a claim.

*Purchases.* The invariant `PurchaseInv`
adds to the checked invariants that a purchase without a row has no events and
that a command which has taken effect will be recognised by its key
(`RepeatIsRecognised`); without the latter a repeat could be applied again.
Each step does one of three things to the tables (nothing, a new draft, one move:
`StepCases`), so each conjunct is proved once per case. Optimistic locking then
follows from `SeenIsHistorical`: a version the client has read and that is still
current names the status it read.

*Browser queue.* `RemovedIsLeftAlone` and `CheckedOnItsSource` become inductive
together with `TokensFit`: whoever works under a job's token was given the source that
job was queued for. Both hold with a job that `POST /jobs` queues for a removed target and
with a failure recorded after the source was replaced: the first is marked `late` when it
is made, the second is marked `failed`. CRM records a report under its job's source without asking what
the agent looked at; `TokensFit` makes the two the same. A step leaves each row it keeps
the same job (`JobsFrom`), and a removed row's place is found by counting the rows kept
before it (`RankReached`).

*Alerts.* `AlertInv` adds to the two properties that the batch names rows of the outbox,
that it says "sent" only of an event Telegram has, and that a card without a percentage
has no band. Without the second the mark that follows could be put on an event nobody
was told of; without the third the first rise announced while there is no percentage
could lower the band. Steps of the producers leave told and marked rows as they are and
add unmarked ones (`RowsStay`); the publisher's change one row each (`OneChanged`).
That a median, a fall in tenths of a percent and a band are natural numbers rests on
counting lemmas (`FromReached`, `LowestIs`).

*Warehouse.* The invariant is `Sound(db, cut)`, said of the tables as a value so that it
is carried through the services one transaction calls one after the other: each service
has a lemma about any tables, and an action's proof chains them. It joins the pool
invariant, the counts of each batch and what the feed shows, and adds what an
allocation relies on: a batch that has not arrived has nothing to give, one edited below
its obligations still owes no more than it had, no order asks for more than its line.
The FIFO order follows from tiling: the units that the lines of one call need, laid end
to end, cover the units of the pool, oldest batch first, without a gap (`Spread`,
`NoGap`), so what a younger batch gives lies behind all of an older one, which is used
up (`AheadGrows`, `ServeOldest`). Sums are cardinalities of sets of units, so the facts
of `FiniteSetTheorems` replace an induction over the batches. `LateInv` adds that as long
as no import has served a line late no cancelled order holds a unit, and that a status and
its manual stage fit; an import that takes for a line whose order has been cancelled or
returned since is the one step that breaks it, and that step is what `late` records.

*Fast Dumping.* `FastInv` strengthens `TypeOK`: a queued scan has a try left, a row that
waits for its write or its check carries a plan, and what an open request has read of
its job still fits that job where the second half of the request relies on it. This
holds whatever commits inside a request, and `HandedPlanIsCurrent` follows: a supply
event bumps the plan of the row and of the open request's copy alike. The other two are
about requests that act on a row they have read:

    RaceInv == FastInv /\ CallsStand /\ (~raced => Orderly)

`CallsStand` says that what a request has read of its job stood where its operation
belongs; `Orderly` that there is one active job, that a sent one is past being scanned or
written, and that a repeated `prepare-apply` finds nothing to wait for. An answer whose job still has
the status it read finds it where `CallsStand` says, so `Orderly` stays; any other answer
sets `raced`. Steps without a request are `Orderly` whatever has been read.

*Dumping XML.* `QueueInv` adds to `TypeOK` that a row has a token exactly while it is
leased (`RowsFit`), that a product has one active scan (`OneActive`), that the answer
being applied has its row locked (`DecisionHolds`), and that a policy which is off
without its owner's word has no active scan (`LegacyIdle`): the recovery dispatcher
queues one for it without looking. One lemma per action says three things: it keeps
`QueueInv`, does not offer what is off sale, and moves the product's lease as
`FencedLease` allows; the refinement is the conjunction of the last over all actions.

*Prices.* The rules are functions, so their theorems speak of every market, cost, cycle
and limit at once. `FloorOfCost` looks at the five tariff bands: within one the profit
rises with the price, a band's candidate (`InBand`) counts only if it lies in its band,
and of those that do the least is taken. `BestOfAll` uses the same rise to show that
only the ceiling and the prices just below a border need a look. What a rule may answer
is said by `Safe` (a price to write is the own one or not below the floor) and, for the
automation, by `Fair` (a lower price only if the sellers leave no higher one or it earns
more). `Safe` is proved of the ordinary rule, the pair's band, the position of a
preorder and the shared cycle, `Fair` of each price the cycle may answer. `LoopInv`
carries them through the loop. It adds to the types that a cycle in a state row is none
or a complete one, since the phase of an incomplete one would not be defined, and that a
row planned for stock carries a price other than the one its scan saw: the ordinary rule
may answer with the own price, which may lie below the floor; such an answer is never
planned, so a second decision that repeats a planned price puts it at the floor of
today's cost or above. `FloorKept` and `NoRace` follow because `Prepare` hands out only
what it decides itself: neither depends on how old the scan is.

Proofs follow one layout: lemmas about operators, one lemma per action or group of
actions, and theorems that combine them by temporal logic. Three definitions are written
so that they can be reasoned about: rows that stay in a sequence are said by their place
(`Kept`) and not by `SelectSeq`, sorted rows by counting and not by `SetToSortSeq`, sums
as cardinalities and not as folds. What a recursive definition returns would need an
induction over data, which the installed provers cannot do.

Only model-checked: liveness, everywhere, `EndsAtBest` of `Repricing` included; all
properties of `OrderIntake`, `FastAgent` and `ProductTest`. `MaxJobs`, up to which the fairness of
`BrowserQueue` speaks of jobs, is argued in a comment. The statements of section 5 are
refuted by TLC where named.

## 5. Where documents and code differ otherwise

Stated in a module, not in a run; to see the steps, add the statement to the
configuration named.

| statement | with | what happens |
|---|---|---|
| `OneActiveJob` | `FastDumping.cfg` without `CONSTRAINT` | The maintenance loop queues a scan between an operator request's unlocked read (`fast_dumping_api.py:284`, `:468`) and its locked write; `queue_scan` (`fast_dumping_service.py:508`) creates a second job, the first is never claimed again. `docs/FAST_DUMPING_CONTRACT.md:44` promises one active job. |
| `SentIsNeverRewritten` without `~raced'` | `FastDumping.cfg` without `CONSTRAINT`, two requests | A scan's report is posted twice. The second copy has read the job as `leased_scan` (`fast_dumping_service.py:1025`) when it comes to wait for the state row (`:1032`); the first is answered and the write it leads to is claimed and handed out; then the second queues the job for writing again. `docs/FAST_DUMPING_CONTRACT.md:45`: "it is not written again". |
| `HandedAboveFloor` | `FastDumping.cfg` | A supplier's cost rises between scan and `prepare-apply`; of a preorder only delivery days are compared (`fast_dumping_offer_runtime.py:423`) and its price is handed out below the new floor. `FAST_DUMPING_CONTRACT.md:31` promises the recalculation. |
| `NeverBeyondOrder` | `Inventory.cfg`, two importers | A line is served between an import's reading of its need (`inventory_service.py:396`) and its lock on the batches, and served again. `product_identity_service.py:136-137` calls repeating an import safe. |
| `OnlyFreshReopens` | `Dumping.cfg` | A recovery scan is queued, the sale is switched off and on, which closes the offer until the supplier has been looked at; the scan is then claimed (`kaspi_competitor_agent_api.py:457`) and its answer reopens the preorder. Lines 202-203 of that file and `dumping_service.py:714-715` say only a fresh observation may. |
| `PreorderKept` | `ProductTest.cfg` | A search queued earlier reports a card that has become a preorder: only cards handed to Kaspi are skipped (`product_test_api.py:1191`), mode and terms are overwritten while it is being connected (`preorder_api.py:430-431`). |
| `NeverDisappears` | `BrowserQueue.cfg` | `POST /jobs` names a target with another source than it has (`browser_agent_api.py:395`). Every answer of the job is refused and rolled back (`:549`); it lapses and is claimed again, for ever, and its target is not dispatched. `browser_agent_failure.py:49-50` says technical failures must never do that. |
| `ActiveSetCovered` without `Jammed` | `OrderIntake.cfg` | A second manual stage on an order whose revision and status Kaspi repeats gives the unique event key of the first (`marketplace_import.py:448`); the slice's import aborts, its cursor is not saved, and the next round fails on the same slice (`kaspi_active_order_reconciliation.py:48-50` promises the complete active set). |

Met while modelling:

- *Browser agent.* `POST /jobs` asks only that a target exists
  (`browser_agent_api.py:391-394`) and so queues a job for one that was removed; its answer
  is recorded like any other (`RemovedIsLeftAlone` excepts it). A failed check is stored
  on its target without comparing sources (`browser_agent_failure.py:81-102`): one of a replaced source
  counts as the new source's failure and delays its first check.
- *Fast Dumping.* `FAST_DUMPING_CONTRACT.md:40` allows realtime writes only with FIFO
  stock, the code also queues preorder and zero-stock writes
  (`fast_dumping_offer_runtime.py:247`); `:46` latches a pause after an accepted but
  unverified operation, `complete_apply` (`fast_dumping_service.py:1528`) does not.
  `fast_dumping_xml_guard.py:61-64` keeps queued checks single-flight; saving the
  policy (`fast_dumping_api.py:291`) or removing the product (`:358`) refuses only
  leased writes and checks and drops a queued check while Kaspi still processes the
  write. An automatic stop is recognised by its reason text
  (`fast_dumping_supply_guard.py:24`), which the end of a kept check overwrites.
- *Prices.* In the cycle of two shops a raise whose base lies above a tariff border may
  lower the profit (2999 to 3018), although `full_automation_owned_cycle.py:110` and
  `docs/full-automation.md:21` exclude it; a tariff jump of the ordinary rule
  (`fast_dumping_pricing.py:92-121`) is undone by the next scan when raising is allowed;
  two shops of which one is under the ordinary rule circle for ever by design, so
  `EndsAtBest` excepts them.
- *Agent.* A read that fails after an accepted write is reported as not accepted; a
  list is called complete though a seller slid to a page already read
  (`ScanTellsTheMarket` says exactly when); a lost `photo-claim` answer counts as an
  attempt, so a photo may be given up without an error.
- *Product tests.* An import whose week runs out is marked failed though Kaspi took the
  card, and may then be sent again: a known accepted import never is (`ImportedOnce`).
- *Alerts.* A band counts as announced also when its message is suppressed, and an alert
  suppressed because the seller changed at the same low price is not raised again.
- *Orders.* `kaspi_order_polling.py:512` promises enrichment without overlap; its
  threads are not shielded from a time limit and the enrichment endpoint takes no lock.
- *Price lists.* `product_xml_import_api.py:564-567` says a reimport is no inventory
  event; for a managed product without stock it closes the preorder and has it wait for
  a fresh look at the supplier (`ImportCatalog`), as the sale of the last unit does.
- *Feed.* An offer without an availability counts as for sale
  (`dumping_service.py:593-594`): a list that says "no" and a later one that says nothing
  list an unmanaged product as active while its sale is switched off
  (`StoppedStaysClosed` excepts it).
- *Purchases.* `PURCHASE_LIFECYCLE_CONTRACT.md:77` scopes idempotency keys to a purchase,
  creation looks a key up over all purchases (`purchase_service.py:136`); `:62` and `:64`
  allow repeated partial receipt and closing a cancelled purchase,
  `purchase_service.py:47` refuses both.
- *Warehouse.* `inventory_service.py:145-147` says returned units "deliberately remain
  allocated"; deleting any batch of the pool withdraws them too
  (`ReturnsStayAllocated` excepts deletions). An import that serves an order cancelled or
  returned since it read the line allocates to it again, and nothing takes the units back
  until the next import (`late`). A batch edited below the units that
  returned lines keep is clamped to zero (`inventory_api.py:600`), and a later release of
  one of them counts it as stock or is refused.
- *Locks.* `dumping_service.py:803-805` orders feed before policy;
  `dumping_runner.py:215`, `dumping_api.py:506` and `kaspi_competitor_agent_api.py:563`
  take them the other way round. The same holds for jobs and states in
  `fast_dumping_service.py:575` and for the two products of a merge
  (`inventory_api.py:290`). Deadlocks of the database are below the models' grain.

## 6. Not modelled

Everything is one workspace: the row filter is not modelled. Inside modelled
components: creation of monitor targets and `release_target` (unused by production
code); in Fast Dumping recovery of an imported sale state, `effective_stock_count`,
history pruning and the claim's priority order; stock, supplier and sale events are
one step, and a product is not removed while a request is open; in the warehouse unit costs and audit events;
in the browser queue the registry of agents; in the order intake requests and payload
formats, the "full" mode no loop uses, and a second account; in Dumping XML the
renaming of a SKU by an upload, an upload's other products, and the order of the queue
among products; in the price
rules the premium plan for agents that report no own row, and in their loop the refusal of
a market older than 300 seconds (`fast_dumping_service.py:1699`,
`fast_dumping_offer_runtime.py:442`): the model hands out more than the code does, and
`EndsAtBest` is about agents that come in time; in the agent signing in,
heartbeats and the pacing of requests, which delay or refuse a request as the
modelled failures do; in the product tests the exclusion list, the merge of two rows
that turn out to be one card, and what pages contain.

`suspend_product_removed_from_seller` has no caller. The other components are reads,
forms, sums, network or schema; `PROJECT.json` gives the reason for each.

## 7. Plan

What is left is proof, in this order:

1. `ProductTest`: `ImportedOnce` from the invariant that ties `item.sub` to its jobs,
   then `EnrolledAsShown`.
2. `FastAgent`: `ScanTellsTheMarket`; `OrderIntake`: `IdentityNeverLost`.

Runs are kept few, one for each question; properties are replaced by deeper ones
when one is found.
