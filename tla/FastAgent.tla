------------------------------ MODULE FastAgent ------------------------------
(***************************************************************************)
(* The local agent of Fast Dumping (tools/kaspi_fast_dumping_agent.py with *)
(* the layer of _v2.py, kaspi_fast_offer_runtime.py, the scanner and the   *)
(* merchant session) between two servers that keep no transaction with it: *)
(* the CRM behind fast_dumping_agent_api.py, and Kaspi.                    *)
(*                                                                         *)
(* A worker asks the CRM for a job of its lane, reads the public offers    *)
(* page by page or reads, writes and reads again the shop's own offer, and *)
(* reports.  Every request may fail: refused, handled with its answer      *)
(* lost, or handled later, after the sender has repeated it.  Meanwhile    *)
(* rivals move, units are sold, leases run out and the agent is restarted. *)
(*                                                                         *)
(* One product whose stock is held in the warehouse.  The CRM's side of a  *)
(* request is reduced to what the agent sees of it (FastDumping models it  *)
(* in full, PriceRules its prices).  No deadline is counted: a wait or a   *)
(* lease may end at any time.  MaxFaults and MaxEvents bound what goes     *)
(* wrong and what the world does.                                          *)
(***************************************************************************)
EXTENDS Naturals, FiniteSets, SequencesExt

CONSTANTS
  Lanes,         \* the workers' lanes: {"scan", "offer"}, or {"all"} for one worker
  Rivals,        \* other sellers of the card
  Peers,         \* those that are the owner's other shops
  Promised,      \* what an offer says of its delivery: values, each the delivery itself or a detail
  Advantage,     \* delivery_advantage_days
  Premium,       \* delivery_price_premium_kzt
  Prices,        \* prices on the card
  Floor,         \* the safe floor of the CRM
  Starts,        \* how it may begin: prices, units, and whether the card is a preorder
  MaxStock,      \* bound on the stock
  PageSize,      \* rows of one page of offers
  MaxPages,      \* max_pages of a scan
  RequestTries,  \* CRM_RETRY_ATTEMPTS
  MaxChecks,     \* OFFER_VERIFY_MAX_ATTEMPTS
  PhotoTries,    \* _PHOTO_MAX_ATTEMPTS
  MaxFaults,     \* bound on failures and restarts
  MaxEvents      \* bound on sales, deliveries and moves of rivals

Own == "own"
Sellers == {Own} \cup Rivals

ASSUME FastAgentConstants ==
  /\ Lanes \in {{"all"}, {"scan", "offer"}}
  /\ Own \notin Rivals
  /\ Peers \subseteq Rivals
  /\ \A s \in Sellers : Promised[s] \subseteq [plain: BOOLEAN, days: Nat]
  /\ Prices \subseteq Nat \ {0} /\ Floor \in Prices
  /\ \A start \in Starts :
       /\ start \in [prices: [Sellers -> Prices \cup {0}], units: 1..MaxStock, days: {0, 1}]
       /\ start.prices[Own] # 0
  /\ {Advantage, Premium, MaxStock, MaxChecks, PhotoTries, MaxFaults, MaxEvents} \subseteq Nat
  /\ {PageSize, MaxPages, RequestTries} \subseteq Nat \ {0}

VARIABLES
  job,        \* the product's job in the CRM
  confirmed,  \* the offer of the newest applied job
  units,      \* FIFO stock of the CRM
  sold,       \* units sold on Kaspi that the CRM has not imported
  photo,      \* the card at the head of the photo queue
  agent,      \* the workers
  straggler,  \* a request to the CRM its sender has given up, on its way
  offer,      \* the shop's offer on Kaspi
  operation,  \* an accepted write Kaspi has not carried out
  stray,      \* a write request whose answer was lost, on its way
  market,     \* prices of the rivals, 0 for none
  shown,      \* offers Kaspi has shown since the CRM decided on a write
  faults, events

crm == <<job, confirmed, units, sold, photo>>
kaspi == <<offer, operation, stray, market>>
vars == <<crm, agent, straggler, kaspi, shown, faults, events>>

Offer == [price: Prices, stock: 0..MaxStock, days: {0, 1}]
Nothing == [price |-> 0, stock |-> 0, days |-> 0]
Row == [who: Sellers, price: Prices]
NoScan == [head |-> 0, page |-> 0, rows |-> {}, ended |-> FALSE, complete |-> FALSE,
           stood |-> {}, slid |-> FALSE]
NoMarket == [ok |-> FALSE, own |-> 0, rival |-> 0, complete |-> FALSE]
Refused == [accepted |-> FALSE, verified |-> FALSE, stock |-> 0]
NoRequest == [op |-> "none", lane |-> "none", held |-> "no", market |-> NoMarket,
              result |-> Refused, check |-> "none"]

\* There is always another card without a photo.
FirstPhoto == [held |-> FALSE, tries |-> 0]

Busy == {"card", "pages", "live", "write", "after", "check", "photo"}
\* at: where worker_loop is.  held: whether its lease token is still the
\* row's.  due: price_claim_not_before has passed.  calm: the price queue was
\* confirmed empty for the wait that runs.
AtLoop == [at |-> "loop", held |-> "no", due |-> TRUE, calm |-> FALSE, tries |-> 0,
           plan |-> Nothing, live |-> Nothing, scan |-> NoScan, req |-> NoRequest]

Requests ==
  [op: {"none", "claim", "scan", "prepare", "apply", "verify", "photo-claim", "photo"},
   lane: Lanes \cup {"none"}, held: {"no", "job", "photo"},
   market: [ok: BOOLEAN, own: Prices \cup {0}, rival: Prices \cup {0}, complete: BOOLEAN],
   result: [accepted: BOOLEAN, verified: BOOLEAN, stock: 0..MaxStock],
   check: {"none", "applied", "pending", "missed", "saved", "failed"}]

TypeOK ==
  /\ job \in [stage: {"none", "scan", "apply", "verify", "paused"}, leased: BOOLEAN,
              plan: Offer \cup {Nothing}, checks: 0..MaxChecks]
  /\ confirmed \in Offer \cup {Nothing}
  /\ units \in 0..MaxStock /\ sold \in 0..MaxStock
  /\ photo \in [held: BOOLEAN, tries: 0..PhotoTries]
  /\ \A w \in Lanes :
       /\ agent[w].at \in Busy \cup {"loop", "post"}
       /\ agent[w].held \in {"no", "job", "photo"}
       /\ agent[w].due \in BOOLEAN /\ agent[w].calm \in BOOLEAN
       /\ agent[w].tries \in 0..RequestTries
       /\ {agent[w].plan, agent[w].live} \subseteq Offer \cup {Nothing}
       /\ agent[w].scan.rows \subseteq Row /\ agent[w].scan.stood \subseteq Sellers
       /\ agent[w].scan.slid \in BOOLEAN
       /\ agent[w].req \in Requests
  /\ straggler \in Requests
  /\ offer \in Offer
  /\ {operation, stray} \subseteq Offer \cup {Nothing}
  /\ market \in [Rivals -> Prices \cup {0}]
  /\ shown \subseteq Offer
  /\ faults \in 0..MaxFaults /\ events \in 0..MaxEvents

Init ==
  /\ \E start \in Starts :
       /\ market = [s \in Rivals |-> start.prices[s]]
       /\ units = start.units
       /\ offer = [price |-> start.prices[Own], days |-> start.days,
                   stock |-> IF start.days = 0 THEN units ELSE MaxStock]
       /\ confirmed = IF start.days = 0 THEN Nothing ELSE offer
  /\ job = [stage |-> "scan", leased |-> FALSE, plan |-> Nothing, checks |-> 0]
  /\ sold = 0
  /\ photo = FirstPhoto
  /\ agent = [w \in Lanes |-> AtLoop]
  /\ straggler = NoRequest
  /\ operation = Nothing /\ stray = Nothing
  /\ shown = {}
  /\ faults = 0 /\ events = 0

Fault == faults < MaxFaults /\ faults' = faults + 1
\* An outage may last for several attempts.
Outage(w) == IF agent[w].tries = 0 THEN Fault ELSE UNCHANGED faults
Event == events < MaxEvents /\ events' = events + 1

-----------------------------------------------------------------------------
(***************************************************************************)
(* The CRM: what a request does to the rows                                *)
(***************************************************************************)
Served(lane) == CASE lane = "all" -> {"scan", "apply", "verify"}
                  [] lane = "scan" -> {"scan"}
                  [] lane = "offer" -> {"apply", "verify"}

\* A photo that failed is due again later, until its attempts are used up.
Deferred(p) == IF p.tries < PhotoTries THEN [p EXCEPT !.held = FALSE] ELSE FirstPhoto

\* claim: a job of the lane, or an empty queue.
Available(lane) == ~job.leased /\ job.stage \in Served(lane)

\* _decide_fast_price_core for a market with a rival.
Target(m) == IF m.rival > Floor THEN m.rival - 1 ELSE Floor

Planned(p) == [job EXCEPT !.stage = "apply", !.leased = FALSE, !.checks = 0, !.plan = p]
Ended == [stage |-> "none", leased |-> FALSE, plan |-> Nothing, checks |-> 0]

\* complete_scan.
AfterScan(m) ==
  IF ~m.ok \/ units = 0 THEN Ended
  ELSE IF m.own = 0 THEN [Ended EXCEPT !.stage = "paused"]
  ELSE IF confirmed.days > 0
    THEN Planned([price |-> m.own, stock |-> units, days |-> 0])
  ELSE IF m.rival # 0 /\ Target(m) # m.own
    THEN Planned([price |-> Target(m), stock |-> units, days |-> 0])
  ELSE IF confirmed # Nothing /\ confirmed.stock # units
    THEN Planned([price |-> m.own, stock |-> units, days |-> 0])
  ELSE Ended

\* prepare_apply: the stock is looked at again.
Ready == units > 0 /\ job.plan.stock = units

Effective(result) ==
  IF result.accepted /\ result.stock > 0 THEN [job.plan EXCEPT !.stock = result.stock]
  ELSE job.plan

\* complete_apply.
AfterApply(result) ==
  IF result.accepted /\ ~result.verified
  THEN [job EXCEPT !.stage = "verify", !.leased = FALSE, !.plan = Effective(result)]
  ELSE Ended

\* complete_verification.
AfterCheck(check) ==
  IF check = "pending" /\ job.checks < MaxChecks
  THEN [job EXCEPT !.leased = FALSE, !.checks = @ + 1]
  ELSE Ended

Owns(r, stage) == r.held = "job" /\ job.stage = stage
Applied(r) ==
  \/ r.op = "apply" /\ Owns(r, "apply") /\ r.result.verified
  \/ r.op = "verify" /\ Owns(r, "verify") /\ r.check = "applied"

\* The endpoints.  A token that is no longer the row's changes nothing (409).
Claim(r) == IF Available(r.lane) THEN [job EXCEPT !.leased = TRUE] ELSE job
ScanComplete(r) == IF Owns(r, "scan") THEN AfterScan(r.market) ELSE job
PrepareApply(r) == IF Owns(r, "apply") /\ ~Ready THEN Ended ELSE job
ApplyComplete(r) == IF Owns(r, "apply") THEN AfterApply(r.result) ELSE job
VerifyComplete(r) == IF Owns(r, "verify") THEN AfterCheck(r.check) ELSE job
ClaimPhoto == IF photo.held THEN photo ELSE [held |-> TRUE, tries |-> photo.tries + 1]
CompletePhoto(r) ==
  IF r.held # "photo" THEN photo
  ELSE IF r.check = "saved" THEN FirstPhoto ELSE Deferred(photo)

Handle(r) ==
  /\ UNCHANGED <<units, sold>>
  /\ job' = CASE r.op = "claim"   -> Claim(r)
              [] r.op = "scan"    -> ScanComplete(r)
              [] r.op = "prepare" -> PrepareApply(r)
              [] r.op = "apply"   -> ApplyComplete(r)
              [] r.op = "verify"  -> VerifyComplete(r)
              [] OTHER -> job
  /\ confirmed' = IF ~Applied(r) THEN confirmed
                  ELSE IF r.op = "apply" THEN Effective(r.result) ELSE job.plan
  /\ photo' = CASE r.op = "photo-claim" -> ClaimPhoto
                [] r.op = "photo" -> CompletePhoto(r)
                [] OTHER -> photo
  /\ shown' = IF job'.stage = job.stage THEN shown
              ELSE IF job'.stage = "apply" THEN {offer}
              ELSE IF job'.stage = "verify" THEN shown ELSE {}

\* A lease that has ended voids the token of a job; the token of a photo stays
\* until the row is answered or claimed again.
Fenced(x) ==
  IF \/ x.held = "job" /\ job.leased /\ ~job'.leased
     \/ x.held = "photo" /\ photo' # photo
  THEN [x EXCEPT !.held = "no"] ELSE x
FencedWorker(a) == [Fenced(a) EXCEPT !.req = Fenced(a.req)]
Others(w, next) == [v \in Lanes |-> IF v = w THEN next ELSE FencedWorker(agent[v])]

-----------------------------------------------------------------------------
(***************************************************************************)
(* The agent: requests to the CRM                                          *)
(***************************************************************************)
\* An exception in worker_loop: logged, and the loop goes on.
Dropped(a) == [AtLoop EXCEPT !.due = a.due, !.calm = a.calm]

Post(a, request) ==
  [a EXCEPT !.at = "post", !.tries = 0, !.plan = Nothing, !.live = Nothing, !.scan = NoScan,
            !.req = request]
Asking(w, op) == [NoRequest EXCEPT !.op = op, !.lane = w]
Telling(w, op) == [NoRequest EXCEPT !.op = op, !.lane = w, !.held = agent[w].held]
Goes(w, next) == agent' = [agent EXCEPT ![w] = next]

\* The top of worker_loop: the price queue first.  A job of its lane, or a
\* wait; the wait of an empty queue, not that of a throttled claim, is calm.
Take(w) ==
  LET mine == [AtLoop EXCEPT !.held = "job"]
  IN CASE job.stage = "scan"   -> [mine EXCEPT !.at = "card"]
       [] job.stage = "apply"  -> Post(mine, [Asking(w, "prepare") EXCEPT !.held = "job"])
       [] job.stage = "verify" -> [mine EXCEPT !.at = "check", !.plan = job.plan]

AskForJob(w) ==
  /\ agent[w].at = "loop" /\ agent[w].due
  /\ Handle(Asking(w, "claim"))
  /\ Goes(w, IF Available(w) THEN Take(w)
             ELSE [AtLoop EXCEPT !.due = FALSE, !.calm = w # "offer"])
  /\ UNCHANGED <<straggler, kaspi, faults, events>>

\* _reserve_claim_slot: too soon after another claim.
Throttled(w) ==
  /\ agent[w].at = "loop" /\ agent[w].due
  /\ Fault
  /\ Goes(w, [AtLoop EXCEPT !.due = FALSE])
  /\ UNCHANGED <<crm, straggler, kaspi, shown, events>>

PhotoTaken(w) ==
  /\ ~photo.held
  /\ Handle(Asking(w, "photo-claim"))
  /\ agent' = Others(w, [agent[w] EXCEPT !.at = "photo", !.held = "photo"])
  /\ straggler' = Fenced(straggler)
  /\ UNCHANGED <<kaspi, faults, events>>

NoPhotoDue(w) ==
  /\ Goes(w, [agent[w] EXCEPT !.calm = FALSE])
  /\ UNCHANGED <<crm, straggler, kaspi, shown, faults, events>>

\* Variant: photos for as long as there are any.
AskForPhotoFirst(w) ==
  /\ agent[w].at = "loop"
  /\ PhotoTaken(w) \/ NoPhotoDue(w)

\* The first worker takes a photo only within the wait after a queue that was
\* confirmed empty.
AskForPhoto(w) ==
  /\ agent[w].at = "loop" /\ ~agent[w].due /\ agent[w].calm
  /\ PhotoTaken(w) \/ NoPhotoDue(w)

\* What the worker does with the answer to a report: the job is over for it.
\* A refusal (409) is an exception, and ends the job as well.
Answered(w) ==
  LET a == agent[w]
  IN IF a.req.op = "prepare" /\ Owns(a.req, "apply") /\ Ready
     THEN [AtLoop EXCEPT !.at = "live", !.held = "job", !.plan = job.plan]
     ELSE Dropped(a)

\* _post_json_with_retry: answered.
PostAnswered(w) ==
  /\ agent[w].at = "post"
  /\ Handle(agent[w].req)
  /\ agent' = Others(w, Answered(w))
  /\ straggler' = Fenced(straggler)
  /\ UNCHANGED <<kaspi, faults, events>>

\* The request the worker is sending.
Sending(w) ==
  LET a == agent[w]
  IN IF a.at = "post" THEN a.req
     ELSE IF a.at # "loop" THEN NoRequest
     ELSE IF a.due THEN Asking(w, "claim")
     ELSE IF a.calm THEN Asking(w, "photo-claim")
     ELSE NoRequest
Lost(w) == straggler' = Sending(w) /\ straggler = NoRequest

\* No usable answer: the same body is posted again, up to RequestTries times.
PostFails(w) ==
  /\ Sending(w) # NoRequest
  /\ Outage(w)
  /\ UNCHANGED straggler \/ Lost(w)
  /\ Goes(w, IF agent[w].tries + 1 < RequestTries
             THEN [agent[w] EXCEPT !.tries = @ + 1]
             ELSE Dropped(agent[w]))
  /\ UNCHANGED <<crm, kaspi, shown, events>>

\* The abandoned request reaches the CRM after all, or never.
StragglerArrives ==
  /\ straggler # NoRequest
  /\ Handle(straggler)
  /\ agent' = [v \in Lanes |-> FencedWorker(agent[v])]
  /\ straggler' = NoRequest
  /\ UNCHANGED <<kaspi, faults, events>>

StragglerVanishes ==
  /\ straggler # NoRequest
  /\ straggler' = NoRequest
  /\ UNCHANGED <<crm, agent, kaspi, shown, faults, events>>

-----------------------------------------------------------------------------
(***************************************************************************)
(* The agent: a scan                                                       *)
(***************************************************************************)
PriceOf(s) == IF s # Own THEN market[s] ELSE IF offer.stock > 0 THEN offer.price ELSE 0
Visible == {s \in Sellers : PriceOf(s) # 0}
Rank == CHOOSE f \in [Sellers -> 1..Cardinality(Sellers)] : IsInjective(f)
Cheaper(a, b) == a.price < b.price \/ (a.price = b.price /\ Rank[a.who] < Rank[b.who])
\* The offers Kaspi lists, by price.
Listed == SetToSortSeq({[who |-> s, price |-> PriceOf(s)] : s \in Visible}, Cheaper)
Page(n) ==
  LET list == Listed
  IN {list[i] : i \in {k \in DOMAIN list : n * PageSize < k /\ k <= (n + 1) * PageSize}}
Lowest(prices) == CHOOSE p \in prices : \A q \in prices : p <= q
Headline == IF Visible = {} THEN 0 ELSE Lowest({PriceOf(s) : s \in Visible})

\* The product page, with the price it shows to a buyer.
OpenCard(w) ==
  /\ agent[w].at = "card"
  /\ \/ agent' = [agent EXCEPT ![w].at = "pages",
                               ![w].scan = [NoScan EXCEPT !.head = Headline, !.stood = Sellers]]
        /\ UNCHANGED faults
     \/ agent' = [agent EXCEPT ![w].at = "pages", ![w].scan = [NoScan EXCEPT !.stood = Sellers]]
        /\ Fault
  /\ UNCHANGED <<crm, straggler, kaspi, shown, events>>

Unseen(scan) == {row \in Page(scan.page) : \A old \in scan.rows : old.who # row.who}

\* Variant: a full page is taken for the last one.
ReadPageOnce(w) ==
  LET scan == agent[w].scan
      short == Cardinality(Page(scan.page)) <= PageSize
  IN /\ agent[w].at = "pages" /\ ~scan.ended
     /\ Goes(w, [agent[w] EXCEPT
               !.scan = [scan EXCEPT !.rows = @ \cup Unseen(scan), !.page = @ + 1,
                           !.complete = short,
                           !.ended = short \/ Unseen(scan) = {} \/ scan.page + 1 = MaxPages]])
     /\ UNCHANGED <<crm, straggler, kaspi, shown, faults, events>>

\* One page of offers.  A short page ends the list, a page without a new
\* seller ends the scan.
ReadPage(w) ==
  LET scan == agent[w].scan
      short == Cardinality(Page(scan.page)) < PageSize
  IN /\ agent[w].at = "pages" /\ ~scan.ended
     /\ Goes(w, [agent[w] EXCEPT
               !.scan = [scan EXCEPT !.rows = @ \cup Unseen(scan), !.page = @ + 1,
                           !.complete = short,
                           !.ended = short \/ Unseen(scan) = {} \/ scan.page + 1 = MaxPages]])
     /\ UNCHANGED <<crm, straggler, kaspi, shown, faults, events>>

OwnRows(rows) == {r \in rows : r.who = Own}
PriceIn(rows) == IF rows = {} THEN 0 ELSE Lowest({r.price : r \in rows})

Longest == 60
Untold == Longest + 1

\* _delivery_days: the earliest day that is promised, and details only where
\* the delivery itself cannot be read.
DeliveryDays(s) ==
  LET readable == {v \in Promised[s] : v.days <= Longest}
      plain    == {v \in readable : v.plain}
      used     == IF plain # {} THEN plain ELSE readable
  IN IF used = {} THEN Untold ELSE Lowest({v.days : v \in used})

\* _assess_delivery_advantage: a near price of a slower seller.
Ignored(own, row) ==
  LET ours == DeliveryDays(Own)
      theirs == DeliveryDays(row.who)
  IN /\ own # 0
     /\ row.price <= own + Premium /\ own <= row.price + Premium
     /\ ours # Untold /\ theirs # Untold
     /\ theirs >= ours + (IF Advantage > 1 THEN Advantage ELSE 1)

\* _select_delivery_aware_competitor: an ignored offer still caps the price
\* of a later one.
Selected(own, rows) ==
  {r \in rows :
     /\ ~Ignored(own, r)
     /\ \A q \in rows : q.price < r.price /\ Ignored(own, q) => r.price <= q.price + Premium}

\* Variant: the owner's other shops are rivals as well.
SnapshotOfAll(scan) ==
  LET external == {r \in scan.rows : r.who # Own }
      trusted  == {r \in external : r.price >= scan.head}
      own      == PriceIn(OwnRows(scan.rows))
  IN [ok |-> scan.head # 0 /\ \E r \in scan.rows : r.price = scan.head,
      own |-> own, rival |-> PriceIn(Selected(own, trusted)), complete |-> scan.complete]

\* The rows against the headline: an offer below it belongs to another
\* context, and some row must explain it.
Snapshot(scan) ==
  LET external == {r \in scan.rows : r.who # Own /\ r.who \notin Peers}
      trusted  == {r \in external : r.price >= scan.head}
      own      == PriceIn(OwnRows(scan.rows))
  IN [ok |-> scan.head # 0 /\ \E r \in scan.rows : r.price = scan.head,
      own |-> own, rival |-> PriceIn(Selected(own, trusted)), complete |-> scan.complete]

\* _process_scan: a scan that raised anywhere is reported as failed.
TellScan(w) ==
  /\ \/ agent[w].at = "pages" /\ agent[w].scan.ended
        /\ Goes(w, Post(agent[w], [Telling(w, "scan") EXCEPT !.market = Snapshot(agent[w].scan)]))
        /\ UNCHANGED faults
     \/ agent[w].at \in {"card", "pages"}
        /\ Goes(w, Post(agent[w], Telling(w, "scan")))
        /\ Fault
  /\ UNCHANGED <<crm, straggler, kaspi, shown, events>>

-----------------------------------------------------------------------------
(***************************************************************************)
(* The agent: the write and its check                                      *)
(***************************************************************************)
Matches(o, plan) == o = plan

\* Never above the units Kaspi itself still shows.
Written(plan, live) ==
  IF live.days = 0 /\ live.stock < plan.stock THEN [plan EXCEPT !.stock = live.stock] ELSE plan

TellApply(w, result) ==
  Goes(w, Post(agent[w], [Telling(w, "apply") EXCEPT !.result = result]))

\* The look before the write: blocked, already as wanted, still busy with an
\* earlier operation, or to be written.
ReadLive(w) ==
  LET wanted == Written(agent[w].plan, offer)
      kept(v) == [accepted |-> TRUE, verified |-> v, stock |-> wanted.stock]
  IN /\ agent[w].at = "live"
     /\ \/ /\ wanted.stock = 0
           /\ TellApply(w, Refused)
        \/ /\ wanted.stock > 0 /\ Matches(offer, wanted)
           /\ TellApply(w, kept(TRUE))
        \/ /\ wanted.stock > 0 /\ ~Matches(offer, wanted) /\ operation # Nothing
           /\ TellApply(w, kept(FALSE))
        \/ /\ wanted.stock > 0 /\ ~Matches(offer, wanted) /\ operation = Nothing
           /\ Goes(w, [agent[w] EXCEPT !.at = "write", !.live = wanted])
     /\ UNCHANGED <<crm, straggler, kaspi, shown, faults, events>>

\* Kaspi accepts the write: it is carried out later.
WriteOffer(w) ==
  /\ agent[w].at = "write"
  /\ operation' = agent[w].live
  /\ Goes(w, [agent[w] EXCEPT !.at = "after", !.tries = 0])
  /\ UNCHANGED <<crm, straggler, offer, stray, market, shown, faults, events>>

\* write_offer_state: an expired session or a lost answer repeats the write
\* once, another refusal is final.
WriteFails(w) ==
  /\ agent[w].at = "write"
  /\ Outage(w)
  /\ UNCHANGED stray \/ (stray = Nothing /\ stray' = agent[w].live)
  /\ \/ agent[w].tries = 0 /\ Goes(w, [agent[w] EXCEPT !.tries = 1])
     \/ TellApply(w, Refused)
  /\ UNCHANGED <<crm, straggler, offer, operation, market, shown, events>>

\* Variant: an accepted write is taken for applied.
ReadAfterTrusting(w) ==
  LET a == agent[w]
  IN /\ a.at = "after"
     /\ TellApply(w, [accepted |-> TRUE, verified |-> TRUE, stock |-> a.live.stock])
     /\ UNCHANGED <<crm, straggler, kaspi, shown, faults, events>>

\* The look after the write.
ReadAfter(w) ==
  LET a == agent[w]
  IN /\ a.at = "after"
     /\ TellApply(w, [accepted |-> TRUE, verified |-> Matches(offer, a.live),
                      stock |-> a.live.stock])
     /\ UNCHANGED <<crm, straggler, kaspi, shown, faults, events>>

\* process_verify.
Check(w) ==
  /\ agent[w].at = "check"
  /\ Goes(w, Post(agent[w], [Telling(w, "verify") EXCEPT !.check =
       IF Matches(offer, agent[w].plan) THEN "applied"
       ELSE IF operation # Nothing THEN "pending" ELSE "missed"]))
  /\ UNCHANGED <<crm, straggler, kaspi, shown, faults, events>>

\* No session, or an unreadable offer: reported as not accepted, even when
\* the write before it was.
ReadFails(w) ==
  /\ Fault
  /\ \/ agent[w].at \in {"live", "after"} /\ TellApply(w, Refused)
     \/ agent[w].at = "check"
        /\ Goes(w, Post(agent[w], [Telling(w, "verify") EXCEPT !.check = "missed"]))
  /\ UNCHANGED <<crm, straggler, kaspi, shown, events>>

\* _process_photo: found, or failed with a wait.
FetchPhoto(w) ==
  /\ agent[w].at = "photo"
  /\ \E check \in {"saved", "failed"} :
       Goes(w, Post(agent[w], [Telling(w, "photo") EXCEPT !.check = check]))
  /\ UNCHANGED <<crm, straggler, kaspi, shown, faults, events>>

\* The process is stopped and started again: all it knew is gone.
Restart ==
  /\ Fault
  /\ agent' = [w \in Lanes |-> AtLoop]
  /\ UNCHANGED <<crm, straggler, kaspi, shown, events>>

-----------------------------------------------------------------------------
(***************************************************************************)
(* Time, Kaspi and the world                                               *)
(***************************************************************************)
WaitEnds(w) ==
  /\ ~agent[w].due
  /\ agent' = [agent EXCEPT ![w].due = TRUE]
  /\ UNCHANGED <<crm, straggler, kaspi, shown, faults, events>>

\* recover_expired_leases: a lost write is checked, never sent again.
LeaseExpires ==
  /\ job.leased
  /\ IF \E w \in Lanes : agent[w].held = "job" THEN Fault ELSE UNCHANGED faults
  /\ job' = CASE job.stage = "scan" -> [job EXCEPT !.leased = FALSE]
              [] job.stage = "apply" -> [job EXCEPT !.leased = FALSE, !.stage = "verify"]
              [] job.stage = "verify" -> Ended
  /\ shown' = IF job'.stage = "none" THEN {} ELSE shown
  /\ UNCHANGED <<confirmed, units, sold, photo, kaspi, events>>
  /\ agent' = [v \in Lanes |-> FencedWorker(agent[v])]
  /\ straggler' = Fenced(straggler)

\* _PHOTO_LEASE_SECONDS have passed.
PhotoLeaseExpires ==
  /\ photo.held
  /\ IF \E w \in Lanes : agent[w].held = "photo" THEN Fault ELSE UNCHANGED faults
  /\ photo' = Deferred(photo)
  /\ UNCHANGED <<job, confirmed, units, sold, kaspi, shown, events>>
  /\ IF photo.tries < PhotoTries THEN UNCHANGED <<agent, straggler>>
     ELSE /\ agent' = [v \in Lanes |-> FencedWorker(agent[v])]
          /\ straggler' = Fenced(straggler)

Queued ==
  /\ job' = [Ended EXCEPT !.stage = "scan"]
  /\ UNCHANGED <<confirmed, units, sold, photo, agent, straggler, kaspi, shown, faults>>

\* The interval of the policy is over.
Schedule == job.stage = "none" /\ units > 0 /\ Queued /\ UNCHANGED events

\* An operator starts a paused product again.
Resume == job.stage = "paused" /\ Queued /\ Event

\* What a running scan is told by nobody: who moved after the card was
\* opened, and whether somebody left a place for those behind to slide into.
Moved(s, before, after) ==
  LET left == before # 0 /\ (after = 0 \/ after > before)
  IN agent' = [w \in Lanes |-> IF agent[w].at # "pages" THEN agent[w]
                 ELSE [agent[w] EXCEPT !.scan.stood = @ \ {s}, !.scan.slid = @ \/ left]]
Shows(new) ==
  /\ offer' = new
  /\ shown' = IF job.stage \in {"apply", "verify"} THEN shown \cup {new} ELSE shown
  /\ Moved(Own, PriceOf(Own), IF new.stock > 0 THEN new.price ELSE 0)

KaspiApplies ==
  /\ operation # Nothing
  /\ Shows(operation)
  /\ operation' = Nothing
  /\ UNCHANGED <<crm, straggler, stray, market, faults, events>>

KaspiDrops ==
  /\ operation # Nothing
  /\ Fault
  /\ operation' = Nothing
  /\ UNCHANGED <<crm, agent, straggler, offer, stray, market, shown, events>>

StrayEnds ==
  /\ stray # Nothing
  /\ stray' = Nothing
  /\ operation' = stray \/ UNCHANGED operation
  /\ UNCHANGED <<crm, agent, straggler, offer, market, shown, faults, events>>

Sale ==
  /\ offer.stock > 0 /\ Event
  /\ Shows([offer EXCEPT !.stock = @ - 1])
  /\ sold' = IF offer.days = 0 THEN sold + 1 ELSE sold
  /\ sold' <= MaxStock
  /\ UNCHANGED <<job, confirmed, units, photo, straggler, operation, stray, market, faults>>

\* The CRM imports an order, or receives goods.
StockMoves ==
  /\ \/ /\ sold > 0 /\ sold' = sold - 1
        /\ units' = (IF units > 0 THEN units - 1 ELSE 0)
        /\ UNCHANGED events
     \/ units < MaxStock /\ Event /\ units' = units + 1 /\ UNCHANGED sold
  /\ UNCHANGED <<job, confirmed, photo, agent, straggler, kaspi, shown, faults>>

RivalMoves(s) ==
  /\ Event
  /\ \E p \in Prices \cup {0} : /\ p # market[s]
                               /\ market' = [market EXCEPT ![s] = p]
                               /\ Moved(s, market[s], p)
  /\ UNCHANGED <<crm, straggler, offer, operation, stray, shown, faults>>

Works(w) ==
  \/ AskForJob(w) \/ AskForPhoto(w) \/ PostAnswered(w)
  \/ OpenCard(w) \/ ReadPage(w) \/ TellScan(w)
  \/ ReadLive(w) \/ WriteOffer(w) \/ ReadAfter(w) \/ Check(w) \/ FetchPhoto(w)

Next ==
  \/ \E w \in Lanes : \/ Works(w) \/ Throttled(w) \/ PostFails(w) \/ WriteFails(w) \/ ReadFails(w)
                      \/ WaitEnds(w)
  \/ StragglerArrives \/ StragglerVanishes \/ Restart
  \/ LeaseExpires \/ PhotoLeaseExpires \/ Schedule \/ Resume
  \/ KaspiApplies \/ KaspiDrops \/ StrayEnds \/ Sale \/ StockMoves
  \/ \E s \in Rivals : RivalMoves(s)

Spec == Init /\ [][Next]_vars

\* Workers go on, waits and leases end, Kaspi carries out what it accepted.
Fairness ==
  /\ \A w \in Lanes : WF_vars(Works(w)) /\ WF_vars(WaitEnds(w))
  /\ WF_vars(StragglerArrives \/ StragglerVanishes)
  /\ WF_vars(LeaseExpires) /\ WF_vars(Schedule)
  /\ WF_vars(KaspiApplies) /\ WF_vars(StrayEnds)
FairSpec == Spec /\ Fairness

-----------------------------------------------------------------------------
(***************************************************************************)
(* Properties                                                              *)
(***************************************************************************)
\* Pages are read one after the other while sellers come and go.  A report
\* that is called complete has every seller that stood still since the card
\* was opened, unless somebody left a place ahead of it; and when nobody moved
\* at all it is the market a single look would show, with the same rival.
\* (scan_kaspi_competitors: the pages, duplicates and the end of the list.)
ScanTellsTheMarket ==
  \A w \in Lanes :
    LET scan == agent[w].scan
        all  == [scan EXCEPT !.rows = Range(Listed)]
    IN scan.ended /\ scan.complete =>
         /\ ~scan.slid => scan.stood \cap Visible \subseteq {r.who : r \in scan.rows}
         /\ scan.stood = Sellers => Snapshot(scan) = Snapshot(all)

\* The CRM records an offer as applied only if Kaspi has shown exactly that
\* offer since the write was decided, whatever was repeated, lost, restarted
\* or answered late in between.  (process_apply, process_verify and the
\* completions of fast_dumping_agent_api.py.)
AppliedWasShown == [][confirmed' # confirmed => confirmed' \in shown]_vars

\* A job in the queue is handed out in the end, though photos never run out
\* and answers get lost.  (worker_loop: photos only within a confirmed wait.)
QueuedIsTaken ==
  \A stage \in {"scan", "apply", "verify"} :
    job.stage = stage /\ ~job.leased ~> job.stage # stage \/ job.leased

\* Once the world stands still, the price on Kaspi comes to rest, and a product
\* that is on sale and not waiting for an operator rests at the price the CRM
\* wants for this market: lost answers, repeated writes, late copies and
\* restarts leave nothing behind that a later round does not put right.
\* (the whole loop of the agent.)
Still == [ok |-> TRUE, own |-> offer.price, complete |-> TRUE,
          rival |-> PriceIn(Selected(offer.price,
                     {r \in Range(Listed) : r.who # Own /\ r.who \notin Peers}))]
AtRest == Still.rival # 0 => offer.price = Target(Still)
Converges == <>[](offer.stock > 0 /\ units > 0 /\ job.stage # "paused" => AtRest)
==============================================================================
