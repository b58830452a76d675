--------------------------- MODULE PriceRefresh ---------------------------
(***************************************************************************)
(* The background price refresh of ONE household:                          *)
(* backend/app/services/price_service.py, request_refresh to               *)
(* refresh_household.                                                      *)
(*                                                                         *)
(* Worker processes share a row of price_refresh_status.  Its started_at   *)
(* is the identity of a lease (here a member of Lease), its updated_at the *)
(* heartbeat, of which only the comparisons with the take-over grace and   *)
(* the stale window are kept: "fresh", "old", "stale".  Each worker has an *)
(* event loop with at most one task per household in its map.              *)
(*                                                                         *)
(* A request prepares in a thread, atomically under the row lock, and      *)
(* starts its task later on the event loop; the end of a task runs on the  *)
(* event loop without an await.  What a task fetches meanwhile is the      *)
(* subject of Quotes.                                                      *)
(***************************************************************************)
EXTENDS Integers, FiniteSets

CONSTANTS Worker,     \* processes
          Request,    \* requests between their preparation and their task
          Lease,      \* values of started_at
          Local,      \* local_single_worker_mode
          MaxCrash    \* bound on crashes and lost tasks

ASSUME ConfigAssumption ==
    /\ Local \in BOOLEAN
    /\ MaxCrash \in Nat
    /\ IsFiniteSet(Worker) /\ IsFiniteSet(Request) /\ IsFiniteSet(Lease)
    /\ Cardinality(Lease) > Cardinality(Worker) + Cardinality(Request) + 1

VARIABLES
    row,       \* the price_refresh_status row
    task,      \* task[w]: w's entry of _refresh_tasks, done tasks left out
    req,       \* req[r]: what _prepare_refresh_request told request r
    crashes    \* number of them so far

vars == <<row, task, req, crashes>>

NoTask == [phase |-> "none"]
NoReq == [worker |-> "none"]

Init ==
    /\ row = [in_progress |-> FALSE, queued |-> FALSE, lease |-> CHOOSE l \in Lease : TRUE, age |-> "fresh"]
    /\ task = [w \in Worker |-> NoTask]
    /\ req = [r \in Request |-> NoReq]
    /\ crashes = 0

\* A new started_at differs from all that are still around; which value it is
\* does not matter.
Unused(l) ==
    /\ row.lease # l
    /\ \A w \in Worker : task[w] # NoTask => task[w].lease # l
    /\ \A r \in Request : req[r] # NoReq => req[r].lease # l

NewLease == CHOOSE l \in Lease : Unused(l)

Leased(l) == [in_progress |-> TRUE, queued |-> FALSE, lease |-> l, age |-> "fresh"]

\* _is_refresh_stale and _has_running_refresh_task.
Stale == row.in_progress /\ row.age = "stale"
TaskRunning(w) == task[w] # NoTask

---------------------------------------------------------------------------
(* request_refresh                                                         *)

\* Mutant: whatever is in progress is believed to be alive.
MutantAlwaysAlive(w) == row.in_progress

\* The refresh in progress is alive, as far as worker w can tell.
Alive(w) ==
    /\ row.in_progress /\ ~ Stale
    /\ TaskRunning(w) \/ (~ Local /\ row.age = "fresh")

\* The refresh is queued behind the one in progress.  Only the request that
\* sets the flag writes the row (and with it updated_at).
QueueRefresh(w) ==
    /\ Alive(w)
    /\ row' = IF row.queued THEN row ELSE [row EXCEPT !.queued = TRUE, !.age = "fresh"]
    /\ UNCHANGED <<task, req, crashes>>

\* Mutant: the lease of an orphaned refresh is continued, not replaced.
MutantKeepLease(r, w) ==
    /\ req[r] = NoReq
    /\ ~ Alive(w)
    /\ LET l == IF row.in_progress THEN row.lease ELSE NewLease IN
         /\ row' = Leased(l)
         /\ req' = [req EXCEPT ![r] = [worker |-> w, lease |-> l, force |-> Stale /\ TaskRunning(w)]]
    /\ UNCHANGED <<task, crashes>>

\* The row is idle or its refresh orphaned: a new lease.
TakeLease(r, w) ==
    /\ req[r] = NoReq
    /\ ~ Alive(w)
    /\ row' = Leased(NewLease)
    /\ req' = [req EXCEPT ![r] = [worker |-> w, lease |-> NewLease, force |-> Stale /\ TaskRunning(w)]]
    /\ UNCHANGED <<task, crashes>>

\* _ensure_refresh_task: a running task is replaced only if forced; otherwise
\* the lease just taken is left without a task.
EnsureTask(r) ==
    LET w == req[r].worker
    IN  /\ req[r] # NoReq
        /\ task' = IF TaskRunning(w) /\ ~ req[r].force THEN task
                   ELSE [task EXCEPT ![w] = [phase |-> "run", lease |-> req[r].lease]]
        /\ req' = [req EXCEPT ![r] = NoReq]
        /\ UNCHANGED <<row, crashes>>

---------------------------------------------------------------------------
(* _run_refresh_job                                                        *)

Runs(w) == task[w].phase = "run"

LeaseMatches(w) == row.in_progress /\ row.lease = task[w].lease

\* _update_refresh_progress: writing the counts renews updated_at.
UpdateProgress == [row EXCEPT !.age = "fresh"]

\* refresh_household reports after every symbol, and keeps the lease.
Progress(w) ==
    /\ Runs(w) /\ LeaseMatches(w)
    /\ row' = UpdateProgress
    /\ UNCHANGED <<task, req, crashes>>

\* PRICE_REFRESH_LEASE_LOST: the task still awaits its cancelled network tasks.
LoseLease(w) ==
    /\ Runs(w) /\ ~ LeaseMatches(w)
    /\ task' = [task EXCEPT ![w].phase = "lost"]
    /\ UNCHANGED <<row, req, crashes>>

LostTaskEnds(w) ==
    /\ task[w].phase = "lost"
    /\ task' = [task EXCEPT ![w] = NoTask]
    /\ UNCHANGED <<row, req, crashes>>

\* Mutant: the queue flag is cleared and forgotten.
MutantFinishUnqueued(w) ==
    /\ Runs(w)
    /\ row' = IF LeaseMatches(w) THEN [row EXCEPT !.in_progress = FALSE, !.queued = FALSE] ELSE row
    /\ task' = [task EXCEPT ![w] = NoTask]
    /\ UNCHANGED <<req, crashes>>

\* The refresh has succeeded or failed: the lease is given up, or the queued
\* refresh chained under a new one.
Finish(w) ==
    /\ Runs(w)
    /\ \/ /\ ~ LeaseMatches(w)
          /\ task' = [task EXCEPT ![w] = NoTask]
          /\ UNCHANGED row
       \/ /\ LeaseMatches(w) /\ ~ row.queued
          /\ row' = [row EXCEPT !.in_progress = FALSE, !.age = "fresh"]
          /\ task' = [task EXCEPT ![w] = NoTask]
       \/ /\ LeaseMatches(w) /\ row.queued
          /\ row' = Leased(NewLease)
          /\ task' = [task EXCEPT ![w] = [phase |-> "run", lease |-> NewLease]]
    /\ UNCHANGED <<req, crashes>>

---------------------------------------------------------------------------
(* Time and failures                                                       *)

Ageing ==
    /\ row.in_progress /\ row.age # "stale"
    /\ row' = [row EXCEPT !.age = IF @ = "fresh" THEN "old" ELSE "stale"]
    /\ UNCHANGED <<task, req, crashes>>

\* A worker process dies with its task and its requests.
Crash(w) ==
    /\ crashes < MaxCrash
    /\ task' = [task EXCEPT ![w] = NoTask]
    /\ req' = [r \in Request |-> IF req[r].worker = w THEN NoReq ELSE req[r]]
    /\ crashes' = crashes + 1
    /\ UNCHANGED row

\* The task ends with the CancelledError of a quote that another household's
\* refresh cancelled (Quotes): nothing catches it, and the lease stays behind.
DiesWithQuote(w) ==
    /\ Runs(w)
    /\ crashes < MaxCrash
    /\ task' = [task EXCEPT ![w] = NoTask]
    /\ crashes' = crashes + 1
    /\ UNCHANGED <<row, req>>

---------------------------------------------------------------------------
Serve(w) == LoseLease(w) \/ LostTaskEnds(w) \/ Finish(w)

Next ==
    \/ \E w \in Worker : QueueRefresh(w) \/ Progress(w) \/ Serve(w) \/ Crash(w) \/ DiesWithQuote(w)
    \/ \E r \in Request, w \in Worker : TakeLease(r, w)
    \/ \E r \in Request : EnsureTask(r)
    \/ Ageing

Spec == Init /\ [][Next]_vars

\* The task of a request is started, on an event loop that is not stalled,
\* before the lease the request took has outlived the take-over grace.
Prompt == Ageing => \A r \in Request : req[r] = NoReq

---------------------------------------------------------------------------
(* Properties                                                              *)

\* No lease has two runners, now or once the requests in flight have started
\* theirs: a task that was taken for dead and comes back does not share the
\* lease with its successor, so at most one task reports progress.
SingleRunner ==
    /\ \A v, w \in Worker : (Runs(v) /\ Runs(w) /\ task[v].lease = task[w].lease) => v = w
    /\ \A r \in Request, w \in Worker : (req[r] # NoReq /\ Runs(w)) => req[r].lease # task[w].lease
    /\ \A r, s \in Request : (req[r] # NoReq /\ req[s] # NoReq /\ req[r].lease = req[s].lease) => r = s

\* A queued refresh is dropped only for a lease taken after it was queued, so
\* whoever queued it gets prices fetched after asking; and nothing stays queued
\* behind an idle row.
QueuedIsAnswered ==
    [][/\ row.queued => row.in_progress
       /\ (row.queued /\ ~ row'.queued) => row'.in_progress /\ row'.lease # row.lease]_vars

HasRunner == \E w \in Worker : Runs(w) /\ task[w].lease = row.lease

\* A refresh that is in progress has a task that runs it, or a request that is
\* about to start one (nothing crashes in the run that checks this).
LeaseHasRunner ==
    row.in_progress => HasRunner \/ \E r \in Request : req[r] # NoReq /\ req[r].lease = row.lease

\* A refresh that lost its task, by a crash or because the task was never
\* started, is taken over: in the end the row is idle or somebody runs it.
OrphansAreRecovered == row.in_progress ~> (~ row.in_progress \/ HasRunner)
===========================================================================
