------------------------------- MODULE Quotes -------------------------------
(***************************************************************************)
(* What a price refresh fetches: backend/app/services/price_service.py,    *)
(* refresh_household and the single flight of quotes below it.             *)
(*                                                                         *)
(* The refreshes of several households run in the event loop of one        *)
(* worker; PriceRefresh models how one household gets its refresh.  Each   *)
(* starts a network task per market symbol (a Key) that no fresh snapshot  *)
(* answers.  Tasks of different refreshes that want the same symbol share  *)
(* one future of _quote_flights: the first owns it and asks the providers, *)
(* the others await it.                                                    *)
(*                                                                         *)
(* A price is represented by the moment at which a provider answered it,   *)
(* so the market moves with every tick.  A future that gets a result or an *)
(* exception ends its waiters in the same step: they run next on the loop. *)
(* Assets without a market are left out: their price is their own cost.    *)
(***************************************************************************)
EXTENDS Integers, FiniteSets

CONSTANTS Refresh,     \* refreshes: runs of refresh_household
          Key,         \* market symbols
          Wants,       \* Wants[r]: the symbols of r's holdings
          Crypto, Krx, \* the symbols that are coins, and the Korean stocks
          Slots,       \* price_refresh_concurrency
          CacheTime,   \* price_cache_seconds
          MaxTime      \* bound on the clock

ASSUME QuotesAssumption ==
    /\ Wants \in [Refresh -> SUBSET Key]
    /\ Crypto \subseteq Key /\ Krx \subseteq Key
    /\ Slots \in Nat \ {0} /\ CacheTime \in Nat /\ MaxTime \in Nat

VARIABLES
    now,      \* the clock
    snap,     \* snap[k]: the price_snapshots row of k
    flight,   \* flight[k]: the future of k in _quote_flights
    net,      \* net[r][k]: the network task of r for k
    live,     \* live[r][k]: the price that task returned
    run       \* run[r]: the progress of refresh_household

quoteVars == <<now, snap, flight, net, live, run>>

NoPrice == -1
NoRow == [price |-> NoPrice, at |-> -1]
Idle == [phase |-> "idle", began |-> 0, cached |-> [k \in Key |-> NoRow]]

QuotesInit ==
    /\ now = 0
    /\ snap \in [Key -> {NoRow, [price |-> 0, at |-> 0]}]
    /\ flight = [k \in Key |-> "none"]
    /\ net = [r \in Refresh |-> [k \in Key |-> "none"]]
    /\ live = [r \in Refresh |-> [k \in Key |-> NoPrice]]
    /\ run = [r \in Refresh |-> Idle]

\* The row was fetched within the cache time.
Fresh(row, t) == row # NoRow /\ row.at >= t - CacheTime

---------------------------------------------------------------------------
(* The providers                                                           *)

\* An answer is the present price or nothing usable: a bad status, an unreadable
\* body and a timeout are caught where they occur.
Answers == {NoPrice, now}

Naver == Answers        \* nothing usable: no data, or "-" for a price
Yahoo == Answers        \* the last close if there is no price; no currency, no price
Stooq == Answers        \* fewer than seven columns, or "N/D"
Coingecko == Answers    \* the price in KRW, or else in USD

FetchStock(k, naver, yahoo, stooq) ==
    IF k \in Krx /\ naver # NoPrice THEN naver
    ELSE IF yahoo # NoPrice THEN yahoo ELSE stooq

\* Stooq is asked for the symbol as it is and with the suffix of its market;
\* the first candidate that parses is taken.
FetchStooq(plain, suffixed) == IF plain # NoPrice THEN plain ELSE suffixed

\* The prices _fetch_live_quote may return for k.
LiveQuotes(k) ==
    IF k \in Crypto THEN Coingecko
    ELSE {FetchStock(k, naver, yahoo, FetchStooq(plain, suffixed)) :
             naver \in Naver, yahoo \in Yahoo, plain \in Stooq, suffixed \in Stooq}

---------------------------------------------------------------------------
(* refresh_household: the start                                            *)

\* _snapshot_map: the rows of the symbols r wants.
SnapshotMap(r) == [k \in Key |-> IF k \in Wants[r] THEN snap[k] ELSE NoRow]

\* The holdings and snapshots are read in one transaction; a fresh snapshot is
\* the quote, every other symbol gets a network task.  A lease that is lost
\* here ends the refresh before any task has run.
Begin(r) ==
    /\ run[r].phase = "idle"
    /\ run' = [run EXCEPT ![r] = [phase |-> "gather", began |-> now, cached |-> SnapshotMap(r)]]
    /\ net' = [net EXCEPT ![r] = [k \in Key |->
                 IF k \in Wants[r] /\ ~ Fresh(snap[k], now) THEN "queued" ELSE "none"]]
    /\ UNCHANGED <<now, snap, flight, live>>

---------------------------------------------------------------------------
(* _fetch_live_result_task and _fetch_live_quote_singleflight              *)

\* async with semaphore: the slots of one refresh.
SlotFree(r) == Cardinality({k \in Key : net[r][k] \in {"owner", "waiter", "aborting"}}) < Slots

Waiters(k) == {s \in Refresh : net[s][k] = "waiter"}

\* Nobody is asking for k: the task puts its future into the map.
Own(r, k) ==
    /\ net[r][k] = "queued" /\ SlotFree(r)
    /\ flight[k] = "none"
    /\ flight' = [flight EXCEPT ![k] = "pending"]
    /\ net' = [net EXCEPT ![r][k] = "owner"]
    /\ UNCHANGED <<now, snap, live, run>>

\* Somebody is: the task awaits that future.  If the future is cancelled
\* already, so is the task.
Join(r, k) ==
    /\ net[r][k] = "queued" /\ SlotFree(r)
    /\ flight[k] # "none"
    /\ net' = [net EXCEPT ![r][k] = IF flight[k] = "pending" THEN "waiter" ELSE "cancelled"]
    /\ UNCHANGED <<now, snap, flight, live, run>>

\* Mutant: when no provider answers, the owner passes on the last known price.
MutantAnswer(r, k) ==
    /\ net[r][k] = "owner"
    /\ \E p \in LiveQuotes(k) :
         LET price == IF flight[k] = "cancelled" THEN NoPrice ELSE IF p = NoPrice THEN run[r].cached[k].price ELSE p
             hear == Waiters(k) \cup {r}
         IN  /\ net' = [s \in Refresh |-> IF s \in hear THEN [net[s] EXCEPT ![k] = "done"] ELSE net[s]]
             /\ live' = [s \in Refresh |-> IF s \in hear THEN [live[s] EXCEPT ![k] = price] ELSE live[s]]
    /\ flight' = [flight EXCEPT ![k] = "none"]
    /\ UNCHANGED <<now, snap, run>>

\* The providers have answered the owner, for itself and for the waiters.  If
\* a waiter has cancelled the future, set_result raises and the owner reports
\* the quote as unavailable.  The future leaves the map in either case.
Answer(r, k) ==
    /\ net[r][k] = "owner"
    /\ \E p \in LiveQuotes(k) :
         LET price == IF flight[k] = "cancelled" THEN NoPrice ELSE p
             hear == Waiters(k) \cup {r}
         IN  /\ net' = [s \in Refresh |-> IF s \in hear THEN [net[s] EXCEPT ![k] = "done"] ELSE net[s]]
             /\ live' = [s \in Refresh |-> IF s \in hear THEN [live[s] EXCEPT ![k] = price] ELSE live[s]]
    /\ flight' = [flight EXCEPT ![k] = "none"]
    /\ UNCHANGED <<now, snap, run>>

\* Mutant: only an Exception is passed on to the future, and a cancellation
\* is not one.
MutantAbort(r, k) ==
    /\ net[r][k] = "aborting"
    /\ net' = [net EXCEPT ![r][k] = "cancelled"]
    /\ flight' = [flight EXCEPT ![k] = "none"]
    /\ UNCHANGED <<now, snap, live, run>>

\* The cancellation reaches the owner in its request: it becomes the exception
\* of the future, and so the cancellation of every waiter.
Abort(r, k) ==
    /\ net[r][k] = "aborting"
    /\ net' = [s \in Refresh |-> IF s \in Waiters(k) \cup {r} THEN [net[s] EXCEPT ![k] = "cancelled"] ELSE net[s]]
    /\ flight' = [flight EXCEPT ![k] = "none"]
    /\ UNCHANGED <<now, snap, live, run>>

---------------------------------------------------------------------------
(* refresh_household: the end                                              *)

\* The network tasks of r that are not done are cancelled.  One that awaits a
\* shared future cancels the future, and with it everybody who awaits it; one
\* that owns a future is told in its next step.
CancelTasks(r) ==
    LET shared == {k \in Key : net[r][k] = "waiter"}
    IN  /\ flight' = [k \in Key |-> IF k \in shared THEN "cancelled" ELSE flight[k]]
        /\ net' = [s \in Refresh |-> [k \in Key |->
                     IF k \in shared /\ net[s][k] = "waiter" THEN "cancelled"
                     ELSE IF s = r /\ net[s][k] = "queued" THEN "cancelled"
                     ELSE IF s = r /\ net[s][k] = "owner" THEN "aborting"
                     ELSE net[s][k]]]
        /\ run' = [run EXCEPT ![r].phase = "cancel"]
        /\ UNCHANGED <<now, snap, live>>

\* as_completed: a result is taken and progress reported.
Collect(r, k) ==
    /\ run[r].phase = "gather" /\ net[r][k] = "done"
    /\ net' = [net EXCEPT ![r][k] = "taken"]
    /\ UNCHANGED <<now, snap, flight, live, run>>

\* Reporting progress finds the lease lost.
LeaseLost(r) ==
    /\ run[r].phase = "gather"
    /\ \E k \in Key : net[r][k] = "done"
    /\ CancelTasks(r)

\* The refresh is cancelled while it waits: by a request that restarts it.
Restarted(r) ==
    /\ run[r].phase = "gather"
    /\ CancelTasks(r)

\* A network task was cancelled through its future, by a refresh of another
\* household: awaiting it raises CancelledError here.
CaughtCancellation(r) ==
    /\ run[r].phase = "gather"
    /\ \E k \in Key : net[r][k] = "cancelled"
    /\ CancelTasks(r)

End(r) ==
    /\ run' = [run EXCEPT ![r] = [Idle EXCEPT !.phase = "ended"]]
    /\ net' = [net EXCEPT ![r] = [k \in Key |-> "none"]]
    /\ live' = [live EXCEPT ![r] = [k \in Key |-> NoPrice]]

\* The cancelled tasks have been gathered, and the error is raised: nothing is
\* written.  After a CancelledError _run_refresh_job leaves the lease behind.
Cancelled(r) ==
    /\ run[r].phase = "cancel"
    /\ \A k \in Key : net[r][k] # "aborting"
    /\ End(r)
    /\ UNCHANGED <<now, snap, flight>>

\* The quote of symbol k: live, from a fresh snapshot, or the marked old one.
QuoteOf(r, k) ==
    LET old == run[r].cached[k]
    IN  IF net[r][k] = "none" THEN [price |-> old.price, mark |-> "cached"]
        ELSE IF live[r][k] # NoPrice THEN [price |-> live[r][k], mark |-> "live"]
        ELSE IF old # NoRow THEN [price |-> old.price, mark |-> "stale"]
        ELSE [price |-> NoPrice, mark |-> "unavailable"]

\* _upsert_snapshot: whatever the table holds is replaced, and stamped with the
\* end of the refresh rather than with the moment of the answer.
UpsertSnapshot(r) ==
    [k \in Key |-> IF k \in Wants[r] /\ QuoteOf(r, k).mark = "live"
                   THEN [price |-> live[r][k], at |-> now] ELSE snap[k]]

\* All results are in: the snapshots are written and committed.
Complete(r) ==
    /\ run[r].phase = "gather"
    /\ \A k \in Key : net[r][k] \in {"none", "taken"}
    /\ snap' = UpsertSnapshot(r)
    /\ End(r)
    /\ UNCHANGED <<now, flight>>

\* Time passes, by up to MaxTime.
Tick ==
    /\ now < MaxTime
    /\ now' = now + 1
    /\ UNCHANGED <<snap, flight, net, live, run>>

---------------------------------------------------------------------------
NetworkStep(r, k) == Own(r, k) \/ Join(r, k) \/ Answer(r, k) \/ Abort(r, k) \/ Collect(r, k)

LoopStep(r) == CaughtCancellation(r) \/ Cancelled(r) \/ Complete(r)

QuotesNext ==
    \/ \E r \in Refresh : Begin(r) \/ LeaseLost(r) \/ Restarted(r) \/ LoopStep(r)
    \/ \E r \in Refresh, k \in Key : NetworkStep(r, k)
    \/ Tick

---------------------------------------------------------------------------
(* Properties                                                              *)

\* A quote that a refresh reports as live was answered by a provider after that
\* refresh began, whoever asked for it, so a user who asks for a refresh is never
\* shown an older price as a new one; and no row of the table claims a time before
\* its price.
FreshIsFresh ==
    \A r \in Refresh, k \in Key :
        /\ (net[r][k] = "taken" /\ QuoteOf(r, k).mark = "live") => live[r][k] \in run[r].began .. now
        /\ snap[k].price <= snap[k].at

\* Every refresh ends, with its quotes or without: nobody waits for ever on a
\* future whose owner failed, was cancelled or was cancelled by a third one.
QuotesEnd == \A r \in Refresh : run[r].phase # "idle" ~> run[r].phase = "ended"
===========================================================================
