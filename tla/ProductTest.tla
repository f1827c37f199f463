---------------------------- MODULE ProductTest ----------------------------
(***************************************************************************)
(* Product tests, new cards and manual preorders: one row of the test list *)
(* (ProductTestItem), the queue of jobs around it, the local agents that   *)
(* work on the queue, the Kaspi cabinet they write to, and what enrolment  *)
(* leaves in CRM.                                                          *)
(*                                                                         *)
(* A job kind has at most one unfinished row here: _queue_job refuses a    *)
(* second one of the same type and reference. An ended row only answers    *)
(* repeats, which change nothing, so its token is free again here.         *)
(***************************************************************************)
EXTENDS Naturals, FiniteSets

CONSTANTS
  Tokens, NoToken,
  Urls, NoUrl,   \* supplier pages
  Agents,        \* bound: agent processes (one per computer)
  MaxAsks,       \* bound: operator requests
  MaxMishaps     \* bound: crashes, lost heartbeats, lost answers

ASSUME AgentsAssumption == Agents \in Nat \ {0}

VARIABLES
  item,          \* the row of the test list
  jobs,          \* jobs[k]: the newest job of kind k
  works,         \* what the agent processes have in hand
  cabinet,       \* the merchant cabinet of Kaspi
  crm,           \* the product card, its source and its Fast Dumping
  overdue,       \* seven days of moderation have passed
  asks, mishaps

vars == <<item, jobs, works, cabinet, crm, overdue, asks, mishaps>>

\* Kinds without an item of their own; "connect" is the inspection that a
\* manual preorder starts with.
Searches == {"inspect", "discover", "popular", "prepare"}
Submits == {"offer", "import", "confirm"}
Kinds == Searches \union Submits \union {"validate", "map", "connect"}

\* Price, preorder days and stock count of an offer stand or fall together.
Terms == 1 .. 2
NoTerms == 0

Options == [url : Urls \union {NoUrl}, terms : Terms \union {NoTerms}, manual : BOOLEAN]
NoOptions == [url |-> NoUrl, terms |-> NoTerms, manual |-> FALSE]

Row == [status : {"none", "queued", "leased", "succeeded", "failed"}, token : Tokens \union {NoToken},
        live : BOOLEAN, due : BOOLEAN, opt : Options]
NoRow == [status |-> "none", token |-> NoToken, live |-> FALSE, due |-> FALSE, opt |-> NoOptions]

\* kaspi_submission: what CRM knows of the hand-over to Kaspi.
NoSubmission == [stage |-> "none", status |-> "none"]
Submission == [stage : {"offer", "product_import", "moderation", "moderation_timeout"},
               status : {"waiting", "failed", "succeeded"}] \union {NoSubmission}

NoSupplier == [url |-> NoUrl, validated |-> FALSE]
\* No row yet: for a card that Kaspi lists, or for one it does not have.
Item == [mode : {"no_row", "no_card", "found", "new_card", "preorder"},
         status : {"none", "candidate", "ready_to_add", "needs_supplier_link", "needs_supplier_validation",
                   "validating_supplier", "adding_to_kaspi", "enrolled_fast_dumping", "error",
                   "new_card_ready", "new_card_draft", "new_card_mapping", "new_card_importing",
                   "new_card_moderation", "new_card_error", "preorder_inspecting", "preorder_connected"},
         active : BOOLEAN, placeholder : BOOLEAN, complete : BOOLEAN,
         url : Urls \union {NoUrl}, sup : [url : Urls \union {NoUrl}, validated : BOOLEAN],
         terms : Terms, priced : BOOLEAN, sub : Submission, dump : BOOLEAN]
NoItem == [mode |-> "no_row", status |-> "none", active |-> FALSE, placeholder |-> FALSE,
           complete |-> FALSE, url |-> NoUrl, sup |-> NoSupplier, terms |-> 1, priced |-> FALSE,
           sub |-> NoSubmission, dump |-> FALSE]

\* "bare" is a card without a supplier, "none" a search that did not find the
\* card; "unconfirmed" lacks a photo, a confirmed pair or an obligatory field.
Results == {"failed", "ok", "unconfirmed", "bare", "none", "pending"}
Work == [kind : Kinds, token : Tokens, opt : Options,
         step : {"run", "link", "written"} \union Results]

TypeOK ==
  /\ item \in Item
  /\ jobs \in [Kinds -> Row]
  /\ works \subseteq Work /\ Cardinality(works) <= Agents
  /\ cabinet \in [offer : {"none", "hidden", "shown"}, terms : Terms \union {NoTerms}, card : {"none", "imported"}]
  /\ crm \in [product : BOOLEAN, source : Urls \union {NoUrl}, cost : Urls \union {NoUrl}, dumping : BOOLEAN]
  /\ overdue \in BOOLEAN
  /\ asks \in 0 .. MaxAsks /\ mishaps \in 0 .. MaxMishaps

Init ==
  /\ \E mode \in {"no_row", "no_card"} : item = [NoItem EXCEPT !.mode = mode]
  /\ jobs = [k \in Kinds |-> NoRow]
  /\ works = {}
  /\ cabinet = [offer |-> "none", terms |-> NoTerms, card |-> "none"]
  /\ crm = [product |-> FALSE, source |-> NoUrl, cost |-> NoUrl, dumping |-> FALSE]
  /\ overdue = FALSE
  /\ asks = 0 /\ mishaps = 0

Active(k) == jobs[k].status \in {"queued", "leased"}
IsNewCard == item.mode = "new_card"
Submitted == item.sub # NoSubmission

\* _check_existing: whether the card has stock, a Kaspi write in flight or
\* another owner is for other components to decide.
CheckExisting == {"free", "conflict"}

-----------------------------------------------------------------------------
(***************************************************************************)
(* The queue                                                               *)
(***************************************************************************)

Queued(k, opt, due) ==
  [jobs EXCEPT ![k] = [status |-> "queued", token |-> NoToken, live |-> FALSE, due |-> due, opt |-> opt]]

\* _queue_job: refused with 409 while a job of the kind is unfinished.
QueueJob(k, opt, due) == ~Active(k) /\ jobs' = Queued(k, opt, due)

Finished(k, status) ==
  [jobs EXCEPT ![k].status = status, ![k].token = NoToken, ![k].live = FALSE]

\* Variant: a lapsed lease is not taken back.
ReclaimedNever == jobs

\* What is left of a job whose lease ran out once anybody claims.
Reclaimed ==
  [k \in Kinds |->
    IF jobs[k].status = "leased" /\ ~jobs[k].live
    THEN [jobs[k] EXCEPT !.status = "queued", !.token = NoToken, !.due = TRUE] ELSE jobs[k]]

FreshToken(t) == \A k \in Kinds : Reclaimed[k].token # t /\ \A w \in works : w.token # t

\* An agent works on one job at a time.
FreeAgent == Cardinality(works) < Agents

\* A manual offer is checked once more against stock and writes in flight
\* before it is given out; a conflict ends the job and marks the row.
Claim(k) ==
  /\ FreeAgent
  /\ Reclaimed[k].status = "queued" /\ Reclaimed[k].due
  /\ \/ \E t \in Tokens :
          /\ FreshToken(t)
          /\ jobs' = [Reclaimed EXCEPT ![k].status = "leased", ![k].token = t, ![k].live = TRUE]
          /\ works' = works \union {[kind |-> k, token |-> t, opt |-> jobs[k].opt, step |-> "run"]}
          /\ UNCHANGED item
     \/ /\ k = "offer" /\ jobs[k].opt.manual /\ "conflict" \in CheckExisting
        /\ jobs' = [Reclaimed EXCEPT ![k].status = "failed"]
        /\ item' = [item EXCEPT !.status = "error"]
        /\ UNCHANGED works
  /\ UNCHANGED <<cabinet, crm, overdue, asks, mishaps>>

Mishap == mishaps < MaxMishaps /\ mishaps' = mishaps + 1

\* The answer to a claim is lost, or the process ends with the job in hand.
Drop(w) ==
  /\ Mishap
  /\ works' = works \ {w}
  /\ UNCHANGED <<item, jobs, cabinet, crm, overdue, asks>>

Holds(w) == jobs[w.kind].status = "leased" /\ jobs[w.kind].token = w.token

\* A lease is renewed every minute by whoever works on the job, so it runs
\* out when nobody does, or when the renewals are lost.
Lapse(k) ==
  /\ jobs[k].status = "leased" /\ jobs[k].live
  /\ IF \E w \in works : w.kind = k /\ Holds(w) THEN Mishap ELSE UNCHANGED mishaps
  /\ jobs' = [jobs EXCEPT ![k].live = FALSE]
  /\ UNCHANGED <<item, works, cabinet, crm, overdue, asks>>

\* Only the exact lease is renewed, a lapsed one too while it is not reclaimed.
Heartbeat(w) ==
  /\ Holds(w) /\ ~jobs[w.kind].live
  /\ jobs' = [jobs EXCEPT ![w.kind].live = TRUE]
  /\ UNCHANGED <<item, works, cabinet, crm, overdue, asks, mishaps>>

Step(w, step) == works' = (works \ {w}) \union {[w EXCEPT !.step = step]}

\* not_before of a postponed confirmation has come.
ComesDue(k) ==
  /\ jobs[k].status = "queued" /\ ~jobs[k].due
  /\ jobs' = [jobs EXCEPT ![k].due = TRUE]
  /\ UNCHANGED <<item, works, cabinet, crm, overdue, asks, mishaps>>

-----------------------------------------------------------------------------
(***************************************************************************)
(* The agent at work in the cabinet                                        *)
(***************************************************************************)

Shown == cabinet.offer = "shown"
Confirmed(opt) == Shown /\ cabinet.terms = opt.terms

\* read_offer before anything is written. An offer that is listed is brought
\* to the terms of the job; a card that the cabinet does not list yet keeps a
\* confirmation pending, and is linked by the creation of an offer.
Look(w) ==
  /\ w.kind \in {"offer", "confirm"} /\ w.step = "run"
  /\ IF Confirmed(w.opt) THEN Step(w, "ok") /\ UNCHANGED cabinet
     ELSE IF Shown THEN Step(w, "written") /\ cabinet' = [cabinet EXCEPT !.terms = w.opt.terms]
     ELSE Step(w, IF w.kind = "confirm" THEN "pending" ELSE "link") /\ UNCHANGED cabinet
  /\ UNCHANGED <<item, jobs, crm, overdue, asks, mishaps>>

\* link-to-master and the first process: the offer exists, not listed yet.
Link(w) ==
  /\ w.kind = "offer" /\ w.step = "link"
  /\ cabinet' = [cabinet EXCEPT !.offer = IF Shown THEN "shown" ELSE "hidden", !.terms = w.opt.terms]
  /\ Step(w, "written")
  /\ UNCHANGED <<item, jobs, crm, overdue, asks, mishaps>>

\* The offer is read until it shows the terms that were sent.
Poll(w) ==
  /\ w.step = "written"
  /\ Confirmed(w.opt)
  /\ Step(w, "ok")
  /\ UNCHANGED <<item, jobs, cabinet, crm, overdue, asks, mishaps>>

\* _detailed_outcome: an error or a rejected row anywhere in Kaspi's report.
DetailedOutcome(taken) == IF taken THEN "ok" ELSE "failed"

\* create_new_card submits the draft and waits for the detailed result. Kaspi
\* may take the card after the agent has stopped waiting.
Import(w) ==
  /\ w.kind = "import" /\ w.step = "run"
  /\ \E taken, finished \in BOOLEAN :
       /\ cabinet' = IF taken THEN [cabinet EXCEPT !.card = "imported"] ELSE cabinet
       /\ Step(w, IF finished THEN DetailedOutcome(taken) ELSE "failed")
  /\ UNCHANGED <<item, jobs, crm, overdue, asks, mishaps>>

Gathers(w, kinds, results) ==
  /\ w.kind \in kinds /\ w.step = "run"
  /\ \E result \in results : Step(w, result)
  /\ UNCHANGED <<item, jobs, cabinet, crm, overdue, asks, mishaps>>

\* inspect_kaspi_product, or the row the cabinet has for a preorder: a card,
\* with its photo or without.
ReadCard(w) == Gathers(w, {"inspect", "connect"}, {"ok", "unconfirmed"})

\* Both searches pass over a card that the cabinet lists already.
NewHere(results) == IF Shown THEN {"none"} ELSE results \union {"none"}

\* discover_products: a confirmed pair, a pair to be looked at, or no pair.
FindPairs(w) == Gathers(w, {"discover"}, NewHere({"ok", "unconfirmed", "bare"}))

\* discover_popular_products looks for no supplier.
FindPopular(w) == Gathers(w, {"popular"}, NewHere({"bare"}))

\* validate_supplier_url: the delivery is read from the page or from another
\* place that shows the same card, and otherwise from a seller in its list; the
\* price of the page never goes with the delivery of a seller with another price.
SupplierRead ==
  LET Outcome(price, delivery, seller, other) ==
        IF delivery \/ seller THEN (IF price THEN "ok" ELSE "failed")
        ELSE IF other THEN "ok" ELSE "failed"
  IN {Outcome(price, delivery, price /\ seller, other) : price, delivery, seller, other \in BOOLEAN}

ReadSupplier(w) == Gathers(w, {"validate"}, SupplierRead)

\* prepare_new_card: a draft, complete or not, unless the cabinet has its SKU.
Draft(w) == Gathers(w, {"prepare"}, IF Shown THEN {"failed"} ELSE {"ok", "unconfirmed"})

\* map_new_card_category: the attributes of another category.
MapAttributes(w) == Gathers(w, {"map"}, {"ok", "unconfirmed"})

\* Any exception or timeout on the way.
GiveUp(w) ==
  /\ w.step \in {"run", "link", "written"}
  /\ Step(w, "failed")
  /\ UNCHANGED <<item, jobs, cabinet, crm, overdue, asks, mishaps>>

\* Kaspi lists an offer some time after it was created, and a card once its
\* moderation has given it a master SKU.
Appear ==
  /\ ~Shown
  /\ cabinet.offer = "hidden" \/ cabinet.card = "imported"
  /\ cabinet' = [cabinet EXCEPT !.offer = "shown"]
  /\ UNCHANGED <<item, jobs, works, crm, overdue, asks, mishaps>>

-----------------------------------------------------------------------------
(***************************************************************************)
(* What CRM does with an answer                                            *)
(***************************************************************************)

\* The reply to an accepted answer may be lost: the agent repeats the answer.
Leaves(w) == (works' = works \ {w} /\ UNCHANGED mishaps) \/ (Mishap /\ UNCHANGED works)

\* A repeat of an accepted answer is acknowledged, any other answer without
\* the lease is refused; the agent goes on to its next job.
Repeat(w) ==
  /\ w.step \in Results /\ ~Holds(w)
  /\ works' = works \ {w}
  /\ UNCHANGED <<item, jobs, cabinet, crm, overdue, asks, mishaps>>

\* An exception nobody handles rolls the answer back: the job stays leased
\* until the lease runs out and is then done again.
Stall(w) == works' = works \ {w} /\ UNCHANGED <<item, jobs, crm, overdue, mishaps>>

\* _reschedule_new_card_confirmation keeps one row for a week of moderation.
Postponed(opt) == Queued("confirm", opt, FALSE)

Reschedule ==
  /\ item.priced
  /\ jobs' = Postponed([NoOptions EXCEPT !.terms = item.terms])
  /\ item' = [item EXCEPT !.status = "new_card_moderation", !.sub = [stage |-> "moderation", status |-> "waiting"]]

FailedSubmission(k) ==
  CASE k = "offer" -> [stage |-> "offer", status |-> "failed"]
    [] k = "import" /\ IsNewCard -> [stage |-> "product_import", status |-> "failed"]
    [] k = "confirm" /\ IsNewCard -> [stage |-> "moderation", status |-> "failed"]
    [] OTHER -> item.sub

MarkFailed(k) ==
  /\ jobs' = Finished(k, "failed")
  /\ item' = IF k \in Searches THEN item
             ELSE [item EXCEPT !.status = IF IsNewCard THEN "new_card_error" ELSE "error",
                               !.sub = FailedSubmission(k)]

\* A failed job and an answer CRM cannot accept end alike: the confirmation
\* of a card in moderation is tried again until its week is over.
Reject(w) ==
  IF w.kind = "confirm" /\ IsNewCard /\ ~overdue
  THEN (Reschedule /\ Leaves(w)) \/ (~item.priced /\ works' = works \ {w} /\ UNCHANGED <<item, jobs, mishaps>>)
  ELSE MarkFailed(w.kind) /\ Leaves(w)

\* _refresh_upload_plan: a validated supplier gives an item its price and its
\* preorder days, without one it has no price.
Replanned(row) ==
  IF row.sup.validated THEN {[row EXCEPT !.terms = t, !.priced = TRUE] : t \in Terms}
  ELSE {[row EXCEPT !.priced = FALSE]}

\* The row found by the card's merchant SKU is filled anew, offers included.
PersistInspection ==
  item' = IF item.mode = "no_row"
          THEN [NoItem EXCEPT !.mode = "found", !.status = "candidate", !.active = TRUE, !.priced = TRUE]
          ELSE IF item.placeholder THEN item
          ELSE [item EXCEPT !.active = TRUE, !.sup = NoSupplier, !.sub = NoSubmission, !.dump = FALSE]

\* A card that CRM sells or that was handed to Kaspi is left alone.
PersistDiscovery(result) ==
  IF crm.product \/ Submitted \/ result = "none" THEN UNCHANGED item
  ELSE \E u \in IF result = "bare" THEN {NoUrl} ELSE Urls :
    item' \in Replanned([item EXCEPT
      !.mode = "found", !.active = TRUE, !.dump = FALSE, !.url = u,
      !.sup = [url |-> u, validated |-> result = "ok"],
      !.status = IF result = "ok" THEN "ready_to_add" ELSE "needs_supplier_link"])

PersistSupplierValidation(w, validated) ==
  item' \in Replanned([item EXCEPT
    !.url = w.opt.url, !.sup = [url |-> w.opt.url, validated |-> validated],
    !.status = IF validated THEN "ready_to_add" ELSE "needs_supplier_link"])

DraftStatus(complete) == IF complete THEN "new_card_ready" ELSE "new_card_draft"

PersistNewCardPrepare(w, complete) ==
  item' \in Replanned([NoItem EXCEPT
    !.mode = "new_card", !.active = TRUE, !.complete = complete, !.status = DraftStatus(complete),
    !.url = w.opt.url, !.sup = [url |-> w.opt.url, validated |-> TRUE]])

PersistNewCardMapping(complete) ==
  item' = [item EXCEPT !.complete = complete, !.status = DraftStatus(complete)]

\* Answers that only fill the row.
AcceptData(w) ==
  /\ Holds(w) /\ w.kind \in Searches \union {"validate", "map"}
  /\ w.step \in {"ok", "unconfirmed", "bare", "none"}
  /\ IF w.kind = "prepare" /\ (crm.product \/ Submitted) THEN Reject(w)
     ELSE /\ \/ w.kind = "inspect" /\ PersistInspection
             \/ w.kind \in {"discover", "popular"} /\ PersistDiscovery(w.step)
             \/ w.kind = "validate" /\ PersistSupplierValidation(w, w.step = "ok")
             \/ w.kind = "prepare" /\ PersistNewCardPrepare(w, w.step = "ok")
             \/ w.kind = "map" /\ PersistNewCardMapping(w.step = "ok")
          /\ jobs' = Finished(w.kind, "succeeded")
          /\ Leaves(w)
  /\ UNCHANGED <<cabinet, crm, overdue, asks>>

\* The import was accepted: its moderation is watched for seven days.
AcceptImport(w) ==
  /\ Holds(w) /\ w.kind = "import" /\ w.step = "ok"
  /\ \/ Active("confirm") /\ Stall(w)
     \/ ~item.priced /\ Reject(w) /\ UNCHANGED overdue
     \/ /\ ~Active("confirm") /\ item.priced
        /\ item' = [item EXCEPT !.status = "new_card_moderation", !.sub = [stage |-> "moderation", status |-> "waiting"]]
        /\ jobs' = [Finished("import", "succeeded") EXCEPT
                      !["confirm"] = Queued("confirm", [NoOptions EXCEPT !.terms = item.terms], FALSE)["confirm"]]
        /\ overdue' = FALSE
        /\ Leaves(w)
  /\ UNCHANGED <<cabinet, crm, asks>>

AcceptPending(w) ==
  /\ Holds(w) /\ w.kind = "confirm" /\ w.step = "pending"
  /\ IF overdue
     THEN /\ jobs' = Finished("confirm", "succeeded")
          /\ item' = [item EXCEPT !.status = "new_card_error", !.sub = [stage |-> "moderation_timeout", status |-> "failed"]]
          /\ Leaves(w)
     ELSE Reject(w)
  /\ UNCHANGED <<cabinet, crm, overdue, asks>>

\* Variant: the offer is enrolled on whatever days Kaspi shows.
ShowsRowTermsUnchecked(w) == TRUE

\* The confirmed preorder days are those the row asks for by now.
ShowsRowTerms(w) == w.opt.terms = item.terms

SupplierLost == item.sup.url = NoUrl \/ item.url = NoUrl

\* The supplier product with its observation, the binding, the monitor target
\* and the enabled policy with its first scan.
Dumped == [product |-> TRUE, source |-> item.url, cost |-> item.sup.url, dumping |-> TRUE]

\* _enroll_created_product. The card, its source and its policy are written
\* in order; a supplier that got lost on the way is noticed after the product
\* was switched on, and the error handler commits what was written.
Enroll(w) ==
  /\ Holds(w) /\ w.kind \in {"offer", "confirm"} /\ w.step = "ok" /\ ~w.opt.manual
  /\ IF ~ShowsRowTerms(w) THEN Reject(w) /\ UNCHANGED crm
     ELSE IF SupplierLost THEN Reject(w) /\ crm' = [crm EXCEPT !.product = TRUE]
     ELSE /\ crm' = Dumped
          /\ item' = [item EXCEPT !.status = "enrolled_fast_dumping", !.active = FALSE,
                        !.sub = [stage |-> IF IsNewCard THEN "moderation" ELSE "offer", status |-> "succeeded"]]
          /\ jobs' = Finished(w.kind, "succeeded")
          /\ Leaves(w)
  /\ UNCHANGED <<cabinet, overdue, asks>>

\* pause_pricing: the fixed price of a preorder has no dumping, and without
\* monitoring no supplier either.
Paused(dump) ==
  IF crm.product THEN [crm EXCEPT !.dumping = FALSE, !.source = IF dump THEN @ ELSE NoUrl, !.cost = IF dump THEN @ ELSE NoUrl]
  ELSE crm

\* persist_preorder_inspection: the creation of the offer follows, on the
\* terms of the row. Stock or a write in flight refuse it.
AcceptConnection(w) ==
  /\ Holds(w) /\ w.kind = "connect" /\ w.step \in {"ok", "unconfirmed"}
  /\ \/ "conflict" \in CheckExisting /\ Reject(w) /\ UNCHANGED crm
     \/ (Active("offer") \/ ~item.priced) /\ Stall(w)
     \/ /\ w.step = "ok" /\ ~Active("offer") /\ item.priced
        /\ item' = [item EXCEPT !.mode = "preorder", !.active = FALSE, !.status = "adding_to_kaspi"]
        /\ jobs' = [Finished("connect", "succeeded") EXCEPT
                      !["offer"] = Queued("offer", [NoOptions EXCEPT !.terms = item.terms, !.manual = TRUE], TRUE)["offer"]]
        /\ crm' = Paused(item.dump)
        /\ Leaves(w)
  /\ UNCHANGED <<cabinet, overdue, asks>>

\* activate_preorder_pricing: monitored dumping from the page the operator
\* gave, or the fixed price with dumping off.
Activated ==
  IF item.dump THEN {[product |-> TRUE, source |-> u, cost |-> NoUrl, dumping |-> TRUE] : u \in Urls}
  ELSE {[product |-> TRUE, source |-> NoUrl, cost |-> NoUrl, dumping |-> FALSE]}

\* enroll_preorder: everything is checked before the first write, but the
\* supplier binding of a monitored preorder may still refuse.
EnrollPreorder(w) ==
  /\ Holds(w) /\ w.kind = "offer" /\ w.step = "ok" /\ w.opt.manual
  /\ \/ Reject(w) /\ UNCHANGED crm
     \/ w.opt.terms = item.terms /\ item.dump /\ Stall(w)
     \/ /\ w.opt.terms = item.terms
        /\ crm' \in Activated
        /\ item' = [item EXCEPT !.status = "preorder_connected", !.placeholder = FALSE]
        /\ jobs' = Finished("offer", "succeeded")
        /\ Leaves(w)
  /\ UNCHANGED <<cabinet, overdue, asks>>

AcceptFailure(w) ==
  /\ Holds(w) /\ w.step = "failed"
  /\ Reject(w)
  /\ UNCHANGED <<cabinet, crm, overdue, asks>>

Overdue ==
  /\ Active("confirm") /\ ~overdue
  /\ overdue' = TRUE
  /\ UNCHANGED <<item, jobs, works, cabinet, crm, asks, mishaps>>

-----------------------------------------------------------------------------
(***************************************************************************)
(* The operator                                                            *)
(***************************************************************************)

Ask ==
  /\ asks < MaxAsks /\ asks' = asks + 1
  /\ UNCHANGED <<works, cabinet, overdue, mishaps>>

\* The page lists active rows and rows handed to Kaspi.
Listed == item.active \/ Submitted
Found == item.mode \in {"no_row", "found", "preorder"}

InspectProduct == Ask /\ Found /\ QueueJob("inspect", NoOptions, TRUE) /\ UNCHANGED <<item, crm>>

\* A new search replaces the batch: its candidates leave the list at once.
Discover ==
  /\ Ask /\ Found
  /\ \E k \in {"discover", "popular"} : QueueJob(k, NoOptions, TRUE)
  /\ item' = IF ~Submitted THEN [item EXCEPT !.active = FALSE] ELSE item
  /\ UNCHANGED crm

PrepareNewCard ==
  /\ Ask /\ item.mode \in {"no_card", "new_card"}
  /\ \E u \in Urls : QueueJob("prepare", [NoOptions EXCEPT !.url = u], TRUE)
  /\ UNCHANGED <<item, crm>>

HandedOver == item.status \in {"new_card_importing", "new_card_moderation", "enrolled_fast_dumping"}

UpdateNewCard ==
  /\ Ask /\ IsNewCard /\ ~HandedOver /\ ~Active("map")
  /\ \E complete \in BOOLEAN : item' = [item EXCEPT !.complete = complete, !.status = DraftStatus(complete)]
  /\ UNCHANGED <<jobs, crm>>

MapCategory ==
  /\ Ask /\ IsNewCard /\ ~HandedOver
  /\ QueueJob("map", NoOptions, TRUE)
  /\ item' = [item EXCEPT !.status = "new_card_mapping"]
  /\ UNCHANGED crm

\* Variant: the stage of the earlier hand-over is not looked at.
MayImportAgain == TRUE

\* Only an import that Kaspi refused is sent again.
MayImport == Submitted => item.sub.stage = "product_import"

CreateNewCard ==
  /\ Ask /\ IsNewCard /\ ~HandedOver /\ ~Active("map")
  /\ MayImport /\ item.complete /\ item.sup.validated
  /\ item' \in Replanned([item EXCEPT !.status = "new_card_importing",
                                     !.sub = [stage |-> "product_import", status |-> "waiting"]])
  /\ QueueJob("import", NoOptions, TRUE)
  /\ UNCHANGED crm

UpdateSettings ==
  /\ Ask /\ item.active /\ ~Submitted
  /\ item' \in Replanned(item)
  /\ UNCHANGED <<jobs, crm>>

\* Any field of the row but a preorder's; a new link loses its confirmation.
UpdateItem ==
  /\ Ask /\ Listed /\ item.mode \in {"found", "new_card"}
  /\ \/ \E u \in Urls \union {NoUrl} : item' = [item EXCEPT !.url = u, !.status = "needs_supplier_validation"]
     \/ \E t \in Terms : item' = [item EXCEPT !.terms = t, !.priced = TRUE]
     \/ \E a \in BOOLEAN : item' = [item EXCEPT !.active = a]
  /\ UNCHANGED <<jobs, crm>>

ValidateSupplier ==
  /\ Ask /\ Listed
  /\ \E u \in Urls :
       /\ QueueJob("validate", [NoOptions EXCEPT !.url = u], TRUE)
       /\ item' = [item EXCEPT !.url = u, !.status = "validating_supplier"]
  /\ UNCHANGED crm

AddToKaspi ==
  /\ Ask /\ item.mode \notin {"no_row", "no_card"}
  /\ item.status = "ready_to_add" \/ (item.status = "error" /\ item.sub.status = "failed")
  /\ item.url # NoUrl /\ item.url = item.sup.url /\ item.sup.validated
  /\ item' \in Replanned([item EXCEPT !.status = "adding_to_kaspi",
                                     !.sub = [stage |-> "offer", status |-> "waiting"]])
  /\ QueueJob("offer", [NoOptions EXCEPT !.terms = item'.terms], TRUE)
  /\ UNCHANGED crm

\* connect_preorder and its edit: a row of the list becomes a preorder, or a
\* preorder gets other terms, unless one of its own jobs is unfinished.
ConnectPreorder ==
  /\ Ask /\ Found
  /\ \A k \in Kinds \ Searches : ~Active(k)
  /\ \E t \in Terms, dump \in BOOLEAN :
       /\ item' = [item EXCEPT !.mode = "preorder", !.status = "preorder_inspecting", !.active = FALSE, !.terms = t,
                               !.priced = TRUE, !.dump = dump,
                               !.placeholder = IF item.mode = "no_row" THEN TRUE ELSE @]
       /\ crm' = Paused(dump)
  /\ QueueJob("connect", NoOptions, TRUE)

-----------------------------------------------------------------------------
Operator ==
  \/ InspectProduct \/ Discover \/ PrepareNewCard \/ UpdateNewCard \/ MapCategory \/ CreateNewCard
  \/ UpdateSettings \/ UpdateItem \/ ValidateSupplier \/ AddToKaspi \/ ConnectPreorder

AgentStep(w) ==
  \/ Look(w) \/ Link(w) \/ Poll(w) \/ Import(w) \/ GiveUp(w)
  \/ ReadCard(w) \/ FindPairs(w) \/ FindPopular(w) \/ ReadSupplier(w) \/ Draft(w) \/ MapAttributes(w)

Answer(w) ==
  \/ AcceptData(w) \/ AcceptImport(w) \/ AcceptPending(w) \/ Enroll(w)
  \/ AcceptConnection(w) \/ EnrollPreorder(w) \/ AcceptFailure(w) \/ Repeat(w)

Next ==
  \/ Operator
  \/ \E k \in Kinds : Claim(k) \/ Lapse(k) \/ ComesDue(k)
  \/ \E w \in works : AgentStep(w) \/ Answer(w) \/ Heartbeat(w) \/ Drop(w)
  \/ Appear \/ Overdue

Spec == Init /\ [][Next]_vars

\* The queue is served in the order of its rows, a lease nobody renews runs
\* out, an agent's step ends by its timeouts, and a week passes.
Fairness ==
  /\ \A k \in Submits :
       SF_vars(Claim(k)) /\ WF_vars(ComesDue(k)) /\ WF_vars(Lapse(k) /\ ~\E w \in works : w.kind = k /\ Holds(w))
  /\ WF_vars(\E w \in works : AgentStep(w) \/ Answer(w))
  /\ WF_vars(Overdue)

FairSpec == Spec /\ Fairness

-----------------------------------------------------------------------------
(***************************************************************************)
(* Properties                                                              *)
(***************************************************************************)

\* A card whose import is known to be accepted is never imported a second time: not
\* while its moderation lasts, nor after its week, nor when it is enrolled.
ImportedOnce ==
  [][IsNewCard /\ item.sub.stage \in {"moderation", "moderation_timeout"}
       => jobs'["import"].status \notin {"queued", "leased"}]_vars

\* Fast Dumping of a tested product starts on the terms Kaspi shows for the
\* offer at that moment, also when an agent whose lease ran out still writes.
EnrolledAsShown ==
  [][crm'.dumping /\ ~crm.dumping /\ item'.mode # "preorder" => cabinet.terms = item.terms]_vars

\* Whatever happens to agents and answers, CRM stops waiting for Kaspi.
SubmissionEnds == item.sub.status = "waiting" ~> item.sub.status # "waiting"

\* While a preorder is being connected it stays the operator's preorder, on
\* the operator's terms (docs/preorder.md: published at the given price).
PreorderKept ==
  [][Active("connect") /\ jobs'["connect"].status \in {"queued", "leased"}
       => item'.mode = "preorder" /\ item'.terms = item.terms /\ item'.dump = item.dump]_vars
=============================================================================
