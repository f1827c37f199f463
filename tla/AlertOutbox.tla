----------------------------- MODULE AlertOutbox -----------------------------
(***************************************************************************)
(* Two sources of Telegram messages and the publisher they share.          *)
(* price_drop_alerts.py turns an observation of a supplier's price into an *)
(* outbox event when it falls far below the recent median;                 *)
(* market_recovery.py watches a Kaspi card and announces empty markets and *)
(* rises above the lowest price seen; telegram_price_alerts.py takes the   *)
(* newest unpublished events, drops the ones that are out of date, sends   *)
(* the others and only then marks them.                                    *)
(*                                                                         *)
(* One supplier product with one binding, one card, one publisher.  An     *)
(* event's text keeps what later conditions compare it with.               *)
(***************************************************************************)
EXTENDS Integers, Sequences, FiniteSets, SequencesExt

CONSTANTS
  Prices,        \* supplier prices
  Sellers,       \* sellers of the supplier's offer
  Thresholds,    \* price alert thresholds the owner chooses from
  Window,        \* PRICE_BASELINE_WINDOW
  CardPrices,    \* lowest prices of the card
  Rises,         \* rise_percent the owner chooses from
  Tokens, NoToken,
  Limit,         \* PUBLISH_BATCH_SIZE
  Starts,        \* bound: settings, last offer, checks and edits used up to begin with
  MaxChecks,     \* bound: changed observations and good checks of the card
  MaxEdits,      \* bound: changes of settings and sources
  MaxMishaps     \* bound: crashes, lost answers, refusals of Telegram

VARIABLES
  offers,        \* supplier_offer_observations, oldest first; the last is the state
  recent,        \* the last check of the supplier is at most ten minutes old
  alert,         \* price alert of the product, and whether its source is monitored
  card, market,  \* the card's row and market_recovery_settings
  held,          \* the lease of the check the agent has in hand
  events,        \* outbox events by age
  batch,         \* what the publisher has read: the next to send or to mark
  checks, edits, mishaps

vars == <<offers, recent, alert, card, market, held, events, batch, edits, mishaps, checks>>

\* "sold": in stock with a price in the usual currency.  "doubtful": stock of
\* zero or unknown availability, which counts as history but raises no alert.
NoPrice == 0
NoSeller == 0
Offer == [price : Prices, form : {"sold"}, seller : Sellers]
         \union [price : Prices, form : {"doubtful"}, seller : {NoSeller}]
         \union {[price |-> NoPrice, form |-> "absent", seller |-> NoSeller]}

\* Every claim draws a token that is not in use.
ASSUME AlertConstants ==
  /\ Prices \subseteq Nat \ {0} /\ Sellers \subseteq Nat /\ CardPrices \subseteq Nat \ {0}
  /\ Thresholds \subseteq {10, 20, 50} /\ Rises \subseteq 0 .. 1000
  /\ Window \in Nat \ {0} /\ Limit \in Nat \ {0}
  /\ NoToken \notin Tokens /\ Tokens # {} /\ \A k, l \in Tokens : Tokens \ {k, l} # {}
  /\ Starts \subseteq [linked : BOOLEAN, enabled : BOOLEAN, threshold : Thresholds, rise : Rises,
                      offer : Offer, used : 0 .. MaxChecks, edited : 0 .. MaxEdits]
  /\ {MaxChecks, MaxEdits, MaxMishaps} \subseteq Nat

Unknown == -1    \* seller_count of a card not yet checked
Counts == 0 .. 1 \* no sellers, some sellers
Card == [base : CardPrices \union {NoPrice}, price : CardPrices \union {NoPrice}, count : Counts \union {Unknown},
         band : Nat, due : BOOLEAN, fresh : BOOLEAN, failed : BOOLEAN,
         token : Tokens \union {NoToken}, live : BOOLEAN, done : Tokens \union {NoToken}]
Found == [price : CardPrices, count : {1}] \union {[price |-> NoPrice, count |-> 0]}
Failed == [price |-> NoPrice, count |-> Unknown]

\* drop in tenths of a percent; again: the independent check found it still so.
Drop == [kind : {"drop"}, price : Prices, mark : Sellers, tenths : Nat,
         young : BOOLEAN, checked : BOOLEAN, reseen : BOOLEAN, out : {"no", "sent", "suppressed"}, told : BOOLEAN]
Rise == [kind : {"market"}, price : CardPrices \union {NoPrice}, mark : Counts,
         out : {"no", "sent", "suppressed"}, told : BOOLEAN]

TypeOK ==
  /\ offers \in Seq(Offer) /\ offers # <<>>
  /\ recent \in BOOLEAN
  /\ alert \in [on : BOOLEAN, threshold : Thresholds, linked : BOOLEAN]
  /\ card \in Card /\ market \in [enabled : BOOLEAN, rise : Rises]
  /\ card.base = NoPrice => card.price = NoPrice /\ card.band = 0
  /\ held \in Tokens \union {NoToken}
  /\ events \in Seq(Drop \union Rise)
  /\ batch \in [ids : Seq(DOMAIN events), sent : BOOLEAN]
  /\ checks \in 0 .. MaxChecks /\ edits \in 0 .. MaxEdits /\ mishaps \in 0 .. MaxMishaps

NewCard == [base |-> NoPrice, price |-> NoPrice, count |-> Unknown, band |-> 0, due |-> TRUE,
            fresh |-> FALSE, failed |-> FALSE, token |-> NoToken, live |-> FALSE, done |-> NoToken]
NoBatch == [ids |-> <<>>, sent |-> FALSE]

Init ==
  /\ recent = TRUE
  /\ \E start \in Starts :
       /\ offers = <<start.offer>>
       /\ alert = [on |-> TRUE, threshold |-> start.threshold, linked |-> start.linked]
       /\ market = [enabled |-> start.enabled, rise |-> start.rise]
       /\ checks = start.used /\ edits = start.edited
  /\ card = NewCard
  /\ held = NoToken /\ events = <<>> /\ batch = NoBatch
  /\ mishaps = 0

--------------------------------------------------------------------------
(* A supplier's price falls. *)

\* Some rows, newest first: k of them are at least as new as the k-th.
NewestFirst(rows) ==
  [k \in 1 .. Cardinality(rows) |-> CHOOSE i \in rows : Cardinality({j \in rows : j >= i}) = k]

\* _historical_prices, newest first
History(seen) ==
  LET valid == NewestFirst({i \in DOMAIN seen : seen[i].form # "absent"})
  IN  [i \in 1 .. (IF Len(valid) < Window THEN Len(valid) ELSE Window) |-> seen[valid[i]].price]

\* The k-th lowest price, and twice the median, which keeps the half of two
\* middle prices.
Lowest(prices, k) ==
  CHOOSE p \in {prices[i] : i \in DOMAIN prices} :
    /\ Cardinality({i \in DOMAIN prices : prices[i] < p}) < k
    /\ Cardinality({i \in DOMAIN prices : prices[i] <= p}) >= k
Median2(prices) ==
  Lowest(prices, (Len(prices) + 1) \div 2) + Lowest(prices, Len(prices) \div 2 + 1)

InAlertZone(price, median2, threshold) == 200 * price <= median2 * (100 - threshold)
Tenths(price, median2) == (2000 * (median2 - 2 * price) + median2) \div (2 * median2)

\* enqueue_price_drop_alert: the price is in the zone and the one before was not.
FallsFrom(seen, o) ==
  LET prices == History(seen)
      median2 == Median2(prices)
  IN  /\ alert.on /\ o.form = "sold" /\ prices # <<>>
      /\ InAlertZone(o.price, median2, alert.threshold)
      /\ ~InAlertZone(prices[1], median2, alert.threshold)

DropOf(seen, o) ==
  [kind |-> "drop", price |-> o.price, mark |-> o.seller, tenths |-> Tenths(o.price, Median2(History(seen))),
   young |-> TRUE, checked |-> FALSE, reseen |-> FALSE, out |-> "no", told |-> FALSE]

SameOffer(e, o) == o.form = "sold" /\ o.price = e.price /\ o.seller = e.mark

\* A check of the supplier is stored; an unchanged offer only moves the time.
Observe(o) ==
  /\ alert.linked
  /\ o # Last(offers) => checks < MaxChecks
  /\ checks' = IF o = Last(offers) THEN checks ELSE checks + 1
  /\ LET older == [i \in DOMAIN events |->
                     IF events[i].kind # "drop" THEN events[i]
                     ELSE [events[i] EXCEPT !.checked = TRUE, !.reseen = @ \/ SameOffer(events[i], o)]]
     IN  IF o = Last(offers) THEN offers' = offers /\ events' = older
         ELSE /\ offers' = Append(offers, o)
              /\ events' = IF FallsFrom(offers, o) THEN Append(older, DropOf(offers, o)) ELSE older
  /\ recent' = TRUE
  /\ UNCHANGED <<alert, card, market, held, batch, edits, mishaps>>

TenMinutesPass ==
  /\ recent /\ recent' = FALSE
  /\ UNCHANGED <<offers, alert, card, market, held, events, batch, edits, mishaps, checks>>

\* MAX_PRICE_ALERT_AGE
HalfAnHourPasses(i) ==
  /\ i \in DOMAIN events /\ events[i].kind = "drop" /\ events[i].young
  /\ events' = [events EXCEPT ![i].young = FALSE]
  /\ UNCHANGED <<offers, recent, alert, card, market, held, batch, edits, mishaps, checks>>

Edit == edits < MaxEdits /\ edits' = edits + 1

\* The owner switches the alert or chooses its threshold; the source is
\* removed, replaced or restored.
EditAlert ==
  /\ Edit
  /\ \/ \E t \in Thresholds : alert' = [alert EXCEPT !.on = ~@] \/ alert' = [alert EXCEPT !.threshold = t]
     \/ alert' = [alert EXCEPT !.linked = ~@]
  /\ UNCHANGED <<offers, recent, card, market, held, events, batch, mishaps, checks>>

--------------------------------------------------------------------------
(* A card recovers. *)

Band(price, base, rise) == IF rise = 0 THEN 0 ELSE ((price - base) * 100) \div (base * rise)
Highest(a, b) == IF a > b THEN a ELSE b

\* update_settings: the band is counted anew under another percentage.
EditMarket ==
  /\ Edit
  /\ \E on \in BOOLEAN, r \in Rises :
       /\ market' = [enabled |-> on, rise |-> r] /\ market' # market
       /\ card' = IF r = market.rise THEN card
                  ELSE [card EXCEPT !.band = IF card.price = NoPrice THEN 0
                                             ELSE Band(Highest(card.price, card.base), card.base, r)]
  /\ UNCHANGED <<offers, recent, alert, held, events, batch, mishaps, checks>>

\* A day after a good check, an hour after a bad one.
CardComesDue ==
  /\ ~card.due /\ card' = [card EXCEPT !.due = TRUE]
  /\ UNCHANGED <<offers, recent, alert, market, held, events, batch, edits, mishaps, checks>>

\* 48 hours without a check.
CardGoesStale ==
  /\ card.fresh /\ card' = [card EXCEPT !.fresh = FALSE]
  /\ UNCHANGED <<offers, recent, alert, market, held, events, batch, edits, mishaps, checks>>

Claimable == market.enabled /\ card.due /\ ~card.live

\* claim_card, and the agent's look at the card; the answer may be lost.
ClaimCard ==
  /\ held = NoToken /\ Claimable
  /\ LET k == CHOOSE fresh \in Tokens : fresh \notin {card.token, card.done}
     IN  /\ card' = [card EXCEPT !.token = k, !.live = TRUE]
         /\ \/ held' = k /\ UNCHANGED mishaps
            \/ mishaps < MaxMishaps /\ mishaps' = mishaps + 1 /\ UNCHANGED held
  /\ UNCHANGED <<offers, recent, alert, market, events, batch, edits, checks>>

\* Ten minutes; the agent allows itself three, unless it or CRM stalls.
CardLapses ==
  /\ card.live /\ card' = [card EXCEPT !.live = FALSE]
  /\ \/ held # card.token /\ UNCHANGED mishaps
     \/ mishaps < MaxMishaps /\ mishaps' = mishaps + 1
  /\ UNCHANGED <<offers, recent, alert, market, held, events, batch, edits, checks>>

Lowered(f) == IF f.count = 1 /\ (card.base = NoPrice \/ f.price < card.base)
              THEN [card EXCEPT !.base = f.price, !.band = 0] ELSE card
\* Variant: a rise back to the band announced last is announced again.
AnnouncesAgain(f) ==
  IF f.count = 0 THEN card.count # 0
  ELSE LET c == Lowered(f)
           band == Band(f.price, c.base, market.rise)
       IN  /\ card.base # NoPrice
           /\ f.price > (IF card.price = NoPrice THEN c.base ELSE card.price)
           /\ market.rise = 0 \/ (band >= c.band /\ band > 0)
Announces(f) ==
  IF f.count = 0 THEN card.count # 0
  ELSE LET c == Lowered(f)
           band == Band(f.price, c.base, market.rise)
       IN  /\ card.base # NoPrice
           /\ f.price > (IF card.price = NoPrice THEN c.base ELSE card.price)
           /\ market.rise = 0 \/ band > c.band
NewBand(f) == IF f.count = 1 /\ Announces(f) THEN Band(f.price, Lowered(f).base, market.rise) ELSE Lowered(f).band

Observed(f) == [Lowered(f) EXCEPT !.band = NewBand(f), !.price = f.price, !.count = f.count,
                                  !.fresh = TRUE, !.failed = FALSE]
Completed(c) == [c EXCEPT !.due = FALSE, !.done = c.token, !.token = NoToken, !.live = FALSE]

\* complete_card: the lease on record takes the result, a repeat of the last
\* one is accepted without effect, any other is refused.  The agent repeats
\* the call when the answer is lost.
CompleteCard ==
  /\ held # NoToken
  /\ \E f \in Found \union {Failed} :
       LET useful == market.enabled /\ f # Failed
       IN  IF held = card.token /\ card.live
           THEN /\ useful => checks < MaxChecks
                /\ checks' = IF useful THEN checks + 1 ELSE checks
                /\ card' = Completed(IF useful THEN Observed(f) ELSE [card EXCEPT !.failed = TRUE])
                /\ events' = IF useful /\ Announces(f)
                             THEN Append(events, [kind |-> "market", price |-> f.price, mark |-> f.count,
                                                  out |-> "no", told |-> FALSE])
                             ELSE events
           ELSE UNCHANGED <<card, events, checks>>
  /\ \/ held' = NoToken /\ UNCHANGED mishaps
     \/ mishaps < MaxMishaps /\ mishaps' = mishaps + 1 /\ UNCHANGED held
  /\ UNCHANGED <<offers, recent, alert, market, batch, edits>>

--------------------------------------------------------------------------
(* The publisher. *)

\* Variant: an event waits for its confirmation however old it is.
OutOfDateNever(e) ==
  \/ ~alert.on \/ e.tenths < 10 * alert.threshold
  \/ ~alert.linked \/ ~SameOffer(e, Last(offers))
\* _confirmed_offer, after the product's own switch and threshold.
OutOfDate(e) ==
  \/ ~alert.on \/ e.tenths < 10 * alert.threshold
  \/ ~e.young \/ ~alert.linked \/ ~SameOffer(e, Last(offers))
Confirmed(e) == e.checked /\ recent

\* market_event_current
Current(e) ==
  /\ market.enabled /\ card.fresh /\ ~card.failed
  /\ card.count = e.mark /\ card.price = e.price

Ready(e) == IF e.kind = "drop" THEN ~OutOfDate(e) /\ Confirmed(e) ELSE Current(e)
Suppressed(e) == IF e.kind = "drop" THEN OutOfDate(e) ELSE ~Current(e)

\* _pending_events: the newest unpublished events, newest first.
Newest ==
  LET open == {i \in DOMAIN events : events[i].out = "no"}
  IN  {i \in open : Cardinality({j \in open : j > i}) < Limit}

ReadBatch ==
  /\ batch = NoBatch /\ Newest # {}
  /\ batch' = [ids |-> NewestFirst({i \in Newest : Ready(events[i])}), sent |-> FALSE]
  /\ events' = [i \in DOMAIN events |->
                  IF i \in Newest /\ Suppressed(events[i]) THEN [events[i] EXCEPT !.out = "suppressed"] ELSE events[i]]
  /\ UNCHANGED <<offers, recent, alert, card, market, held, edits, mishaps, checks>>

Passed == [ids |-> Tail(batch.ids), sent |-> FALSE]

\* Telegram takes the message.
Send ==
  /\ batch.ids # <<>> /\ ~batch.sent
  /\ events' = [events EXCEPT ![Head(batch.ids)].told = TRUE]
  /\ batch' = [batch EXCEPT !.sent = TRUE]
  /\ UNCHANGED <<offers, recent, alert, card, market, held, edits, mishaps, checks>>

\* Telegram refuses it or answers too late: the error is noted, the event stays.
SendFails ==
  /\ batch.ids # <<>> /\ ~batch.sent /\ mishaps < MaxMishaps
  /\ \E taken \in BOOLEAN : events' = [events EXCEPT ![Head(batch.ids)].told = @ \/ taken]
  /\ batch' = Passed
  /\ mishaps' = mishaps + 1
  /\ UNCHANGED <<offers, recent, alert, card, market, held, edits, checks>>

\* Variant: an event is marked when its turn comes, before it is sent.
RecordableFirst == batch.ids # <<>>
Recordable == batch.ids # <<>> /\ batch.sent

\* _record_publish_result without an error
Record ==
  /\ Recordable
  /\ events' = [events EXCEPT ![Head(batch.ids)].out = "sent"]
  /\ batch' = Passed
  /\ UNCHANGED <<offers, recent, alert, card, market, held, edits, mishaps, checks>>

PublisherCrashes ==
  /\ batch # NoBatch /\ mishaps < MaxMishaps
  /\ batch' = NoBatch
  /\ mishaps' = mishaps + 1
  /\ UNCHANGED <<offers, recent, alert, card, market, held, events, edits, checks>>

--------------------------------------------------------------------------
Next ==
  \/ \E o \in Offer : Observe(o)
  \/ TenMinutesPass \/ \E i \in DOMAIN events : HalfAnHourPasses(i)
  \/ EditAlert \/ EditMarket
  \/ CardComesDue \/ CardGoesStale \/ ClaimCard \/ CardLapses \/ CompleteCard
  \/ ReadBatch \/ Send \/ SendFails \/ Record \/ PublisherCrashes

Spec == Init /\ [][Next]_vars

\* The publisher runs its cycle every few seconds, time passes, and the agent
\* delivers what it has in hand.
Fairness ==
  /\ WF_vars(ReadBatch) /\ WF_vars(Send) /\ WF_vars(Record)
  /\ \A i \in 1 .. MaxChecks : WF_vars(HalfAnHourPasses(i))
FairSpec == Spec /\ Fairness

--------------------------------------------------------------------------
(* Properties. *)

\* An event counts as sent only if Telegram has its message, whatever the
\* publisher was doing when it died.
SentMeansTold == \A i \in DOMAIN events : events[i].out = "sent" => events[i].told

RiseAnnounced ==
  /\ Len(events') > Len(events)
  /\ Last(events').kind = "market" /\ Last(events').mark = 1

\* A rise is announced once: under one percentage, until there is a new lowest
\* price, the announced band never falls, and a message is raised exactly when
\* it rises, so none repeats a band.  Without a percentage it is raised only
\* when the price is above the last one.
BandOnlyRises ==
  [][/\ card'.band < card.band => card'.base # card.base \/ market'.rise # market.rise
     /\ market'.rise = market.rise =>
          /\ RiseAnnounced =>
               card'.price > (IF card.price = NoPrice THEN card.base ELSE card.price)
          /\ market.rise # 0 => (RiseAnnounced <=> card'.band > card.band)]_vars

\* Every event leaves the outbox: it is sent or found out of date, although
\* only the newest ones are looked at.
EventLeaves == \A i \in 1 .. MaxChecks :
  (i \in DOMAIN events /\ events[i].out = "no") ~> (i \in DOMAIN events /\ events[i].out # "no")
=============================================================================
