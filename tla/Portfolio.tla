------------------------------ MODULE Portfolio ------------------------------
(***************************************************************************)
(* The portfolio page: DashboardService.portfolio and _to_krw of           *)
(* backend/app/services/dashboard.py with FxService.get_rate of            *)
(* backend/app/services/fx_service.py, over the price snapshots of Quotes. *)
(*                                                                         *)
(* A reader is a request in a thread of its own.  It loads the holdings,   *)
(* values one after the other and converts what it cost and what it is     *)
(* worth.  A rate that is not in the cache is fetched with the transaction *)
(* rolled back, which expires the objects of the session: an attribute     *)
(* read later is the row's as it is then, and the row may be gone.         *)
(*                                                                         *)
(* A holding is represented by its version, a rate, like a price, by the   *)
(* moment at which the provider answered it.                               *)
(***************************************************************************)
EXTENDS Quotes

CONSTANTS Reader,       \* requests for the portfolio
          Holding,
          HoldingsOf,   \* HoldingsOf[c]: those of the household c reads
          SymbolOf,     \* SymbolOf[h]: its market symbol
          Foreign,      \* Foreign[h]: which of "cost" and "worth" are not in KRW
          FxTime,       \* fx_cache_seconds
          MaxVersion    \* bound on the edits of a holding

ASSUME PortfolioAssumption ==
    /\ HoldingsOf \in [Reader -> SUBSET Holding]
    /\ SymbolOf \in [Holding -> Key]
    /\ Foreign \in [Holding -> SUBSET {"cost", "worth"}]
    /\ FxTime \in Nat /\ MaxVersion \in Nat

VARIABLES
    book,    \* book[h]: the version of h's row, or Gone
    fx,      \* the fx_rates row of the one foreign currency
    view     \* view[c]: the progress of reader c

portfolioVars == <<book, fx, view>>

Gone == -1
Expired == -2
NoQuote == [price |-> NoPrice, mark |-> "unavailable"]
NoItem == [cost |-> Gone, worth |-> Gone, listed |-> Gone]
NoView == [step |-> "idle", of |-> Gone, todo |-> {}, session |-> [h \in Holding |-> Expired],
           item |-> [h \in Holding |-> NoItem], since |-> [h \in Holding |-> Gone],
           quote |-> NoQuote, cached |-> NoRow, asked |-> 0, rate |-> NoPrice, failed |-> FALSE]

PortfolioInit ==
    /\ book = [h \in Holding |-> 0]
    /\ fx \in {NoRow, [price |-> 0, at |-> 0]}
    /\ view = [c \in Reader |-> NoView]

---------------------------------------------------------------------------
(* The session                                                             *)

\* What an attribute of h reads: the loaded row, or the present one.
Loaded(c, h) == IF view[c].session[h] = Expired THEN book[h] ELSE view[c].session[h]

ExpireAll == [h \in Holding |-> Expired]

\* An expired object whose row was deleted raises, and the request fails.
Fail(c) == view' = [view EXCEPT ![c] = [NoView EXCEPT !.step = "failed"]]

---------------------------------------------------------------------------
(* DashboardService.portfolio                                              *)

\* quote_holding without a refresh: the snapshot, marked when it is old.
QuoteHolding(h) ==
    LET row == snap[SymbolOf[h]]
    IN  IF row = NoRow THEN NoQuote
        ELSE [price |-> row.price, mark |-> IF Fresh(row, now) THEN "cached" ELSE "stale"]

Present(c) == [h \in Holding |-> IF h \in HoldingsOf[c] THEN book[h] ELSE Gone]

Open(c) ==
    LET there == {h \in HoldingsOf[c] : book[h] # Gone}
    IN  /\ view[c].step = "idle"
        /\ view' = [view EXCEPT ![c].step = IF there = {} THEN "answered" ELSE "look", ![c].todo = there,
                                ![c].session = Present(c), ![c].since = Present(c)]
        /\ UNCHANGED <<book, fx>>

\* The next holding: quantity, cost and currency are read at once, before any
\* conversion.  Without a quote the holding counts as what it cost.
Look(c) ==
    /\ view[c].step = "look"
    /\ \E h \in view[c].todo :
         IF Loaded(c, h) = Gone THEN Fail(c)
         ELSE view' = [view EXCEPT ![c] =
                [view[c] EXCEPT !.step = "cost", !.of = h, !.quote = QuoteHolding(h),
                          !.session = [view[c].session EXCEPT ![h] = Loaded(c, h)],
                          !.item = [view[c].item EXCEPT ![h] =
                             [view[c].item[h] EXCEPT !.cost = Loaded(c, h), !.worth = Loaded(c, h)]]]]
    /\ UNCHANGED <<book, fx>>

\* Whether the amount at hand needs a rate: what the holding is worth is in the
\* currency of its quote, if it has one.
NeedsRate(c) ==
    LET h == view[c].of
    IN  IF view[c].step = "worth" /\ view[c].quote = NoQuote
        THEN "cost" \in Foreign[h] ELSE view[c].step \in Foreign[h]

After(step) == IF step = "cost" THEN "worth" ELSE "list"

\* _to_krw: an amount in KRW, or get_rate with a rate that is fresh enough.
FreshRate == fx # NoRow /\ fx.at >= now - FxTime

Convert(c) ==
    /\ view[c].step \in {"cost", "worth"}
    /\ NeedsRate(c) => FreshRate
    /\ view' = [view EXCEPT ![c].step = After(@), ![c].asked = now, ![c].failed = FALSE,
                            ![c].rate = IF NeedsRate(c) THEN fx.price ELSE now]
    /\ UNCHANGED <<book, fx>>

\* get_rate: the rate is missing or old.  The transaction is rolled back and the
\* provider asked; the amounts are values by now, not attributes.
AskRate(c) ==
    /\ view[c].step \in {"cost", "worth"}
    /\ NeedsRate(c) /\ ~ FreshRate
    /\ view' = [view EXCEPT ![c].step = IF @ = "cost" THEN "ask cost" ELSE "ask worth",
                            ![c].asked = now, ![c].cached = fx, ![c].session = ExpireAll]
    /\ UNCHANGED <<book, fx>>

Asks(c) == view[c].step \in {"ask cost", "ask worth"}
Asked(step) == IF step = "ask cost" THEN "worth" ELSE "list"

\* _fetch_rate: the present rate, or an exception (a bad status, a missing or
\* zero rate, a timeout).
FetchRate == {now, NoPrice}

UpsertRate(rate) == [price |-> rate, at |-> now]

\* The rate is stored and committed.
RateAnswered(c) ==
    /\ Asks(c)
    /\ \E rate \in FetchRate \ {NoPrice} :
         /\ fx' = UpsertRate(rate)
         /\ view' = [view EXCEPT ![c].step = Asked(@), ![c].rate = rate, ![c].failed = FALSE, ![c].session = ExpireAll]
    /\ UNCHANGED book

\* Mutant: a rate from before is good enough for anybody who meets it.
MutantUnanswered(c) ==
    /\ Asks(c)
    /\ IF view[c].cached = NoRow THEN Fail(c) /\ UNCHANGED fx
       ELSE /\ fx' = [view[c].cached EXCEPT !.at = now]
            /\ view' = [view EXCEPT ![c].step = Asked(@), ![c].rate = view[c].cached.price, ![c].failed = TRUE]
    /\ UNCHANGED book

\* The provider failed: the old rate is used, or the request answers 503.
RateUnanswered(c) ==
    /\ Asks(c)
    /\ IF view[c].cached = NoRow THEN Fail(c)
       ELSE view' = [view EXCEPT ![c].step = Asked(@), ![c].rate = view[c].cached.price, ![c].failed = TRUE]
    /\ UNCHANGED <<book, fx>>

\* The item is appended; its category, quantity and names are read only now.
\* After the last one the answer is complete.
List(c) ==
    LET v == view[c]
        h == v.of
        items == [v.item EXCEPT ![h].listed = Loaded(c, h)]
    IN  /\ v.step = "list"
        /\ IF Loaded(c, h) = Gone THEN Fail(c)
           ELSE view' = [view EXCEPT ![c] =
                  IF v.todo = {h} THEN [NoView EXCEPT !.step = "answered", !.item = items, !.since = v.since]
                  ELSE [NoView EXCEPT !.step = "look", !.todo = v.todo \ {h}, !.session = [v.session EXCEPT ![h] = Loaded(c, h)],
                                      !.item = items, !.since = v.since]]
        /\ UNCHANGED <<book, fx>>

\* Editors change and delete holdings meanwhile.
Edit(h) ==
    /\ book[h] # Gone
    /\ \/ book[h] < MaxVersion /\ book' = [book EXCEPT ![h] = @ + 1]
       \/ book' = [book EXCEPT ![h] = Gone]
    /\ UNCHANGED <<fx, view>>

---------------------------------------------------------------------------
PortfolioNext ==
    \/ \E c \in Reader : Open(c) \/ Look(c) \/ Convert(c) \/ AskRate(c)
                         \/ RateAnswered(c) \/ RateUnanswered(c) \/ List(c)
    \/ \E h \in Holding : Edit(h)

\* Portfolios are read while refreshes fetch quotes and write snapshots.
PricesNext ==
    \/ QuotesNext /\ UNCHANGED portfolioVars
    \/ PortfolioNext /\ UNCHANGED quoteVars

PricesSpec == QuotesInit /\ PortfolioInit /\ [][PricesNext]_<<quoteVars, portfolioVars>>

---------------------------------------------------------------------------
(* Properties                                                              *)

\* Both amounts of an item, and with them its gain, come from one version of the
\* holding, one it has had since the portfolio was opened, although the session
\* is expired between them and the item may show the quantity of a later one.
\* And an amount is converted with a rate no older than the cache time when it
\* was asked for, unless the provider did not answer.
AmountsAgree ==
    \A c \in Reader :
        /\ \A h \in Holding : view[c].item[h] # NoItem =>
             /\ view[c].item[h].cost = view[c].item[h].worth
             /\ view[c].item[h].cost >= view[c].since[h]
             /\ view[c].item[h].listed # Gone => view[c].item[h].listed >= view[c].item[h].cost
        /\ (view[c].step \in {"worth", "list"} /\ ~ view[c].failed) => view[c].rate >= view[c].asked - FxTime
===========================================================================
