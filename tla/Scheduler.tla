------------------------------ MODULE Scheduler ------------------------------
(***************************************************************************)
(* One run of the end-to-end test scheduler (scripts/e2e_scheduler):       *)
(* EligibleJobQueue hands jobs to worker threads, AdaptiveCapacityController*)
(* raises and lowers the number of jobs that may run, AdaptiveWorkerPool   *)
(* starts reserve capsules before it lets their workers in, and            *)
(* run_dynamic starts and closes the capsules and decides the verdict.     *)
(*                                                                         *)
(* A worker reads the capacity before it takes the queue's lock, so it may *)
(* assign itself a job with a capacity that has been lowered meanwhile.    *)
(* Workers wait on a condition: with a controller the wait has a timeout,  *)
(* without one only complete, abort and stop wake them.                    *)
(***************************************************************************)
EXTENDS Integers, Sequences, FiniteSets, SequencesExt

CONSTANTS Warm,           \* workers whose capsules are started first, a sequence
          Reserve,        \* cold workers of an adaptive run, a sequence
          Job,
          Project, Locks, \* of every job
          Seconds,        \* of every job, its estimated duration
          Projects,       \* the projects of the run
          Chromium,       \* those on the default engine
          Minimum,        \* bound: the least capacity (at least 4 in the code)
          HealthyRuns,    \* healthy samples in a row before an expansion (3)
          PressureRuns,   \* pressed samples in a row before a reduction (2)
          Nobody

Worker == Range(Warm) \cup Range(Reserve)

ASSUME SchedulerAssumption ==
    /\ Minimum \in 1 .. Len(Warm) /\ HealthyRuns \in Nat \ {0} /\ PressureRuns \in Nat \ {0}
    /\ Nobody \notin Worker \cup Job /\ IsFiniteSet(Job)
    /\ Chromium \subseteq Projects /\ \A j \in Job : Project[j] \in Projects

VARIABLES queue,       \* pending, assigned, terminal, accepting
          control,     \* of the capacity controller
          pool,        \* active workers; halted: stop_waiters was called
          started,     \* capsules with running services
          worker,      \* of every thread: where it is, its job and its capacity
          results,     \* the ledger
          run          \* of the coordinator

schedulerVars == <<queue, control, pool, started, worker, results, run>>

---------------------------------------------------------------------------
(* Affinity                                                                *)

Cross == Projects \ Chromium

\* plan_worker_projects, plan_adaptive_worker_projects: the last warm worker
\* keeps the other engines, everyone else has the default one.
Primary(w) ==
    IF Cross = {} \/ Chromium = {} THEN Projects
    ELSE IF w \in Range(Reserve) THEN Chromium
    ELSE IF Len(Warm) < 2 THEN Projects
    ELSE IF w = Last(Warm) THEN Cross
    ELSE Chromium

ChromiumWorkers == SelectSeq(Warm, LAMBDA w : Primary(w) \cap Chromium # {} /\ Primary(w) \cap Cross = {})

MutantFallback(w) == IF ChromiumWorkers # <<>> /\ w = Last(ChromiumWorkers) THEN Cross ELSE {}

\* plan_worker_fallback_projects: the lane of the other engines helps with the
\* default one, and the last default worker helps with the others.
Fallback(w) ==
    IF Chromium # {} /\ Primary(w) \cap Cross # {} /\ Primary(w) \cap Chromium = {} THEN Chromium
    ELSE IF ChromiumWorkers # <<>> /\ w = Last(ChromiumWorkers) THEN Cross
    ELSE {}

\* adaptive_capacity_worker_order
CapacityOrder == <<Last(Warm)>> \o Front(Warm) \o Reserve

WorkerCanRun(w, j) ==
    \/ Project[j] \in Primary(w)
    \/ /\ Project[j] \in Fallback(w)
       /\ {k \in Job : Project[k] \in Primary(w)} \subseteq queue.terminal

---------------------------------------------------------------------------
(* Initial state                                                           *)

Running == {j \in Job : queue.assigned[j] # Nobody}
Finished == queue.terminal = Job
Resting == [at |-> "top", job |-> Nobody, cap |-> 0, code |-> 0]

\* A fixed run has no reserve, no controller and no pool.
SchedulerInit ==
    /\ \E adaptive \in BOOLEAN :
          /\ run = [at |-> "start", adaptive |-> adaptive, crash |-> FALSE, interrupted |-> FALSE, sampled |-> FALSE, cleaned |-> FALSE]
          /\ worker = [w \in Worker |-> IF adaptive THEN [Resting EXCEPT !.at = "cold"]
                                        ELSE IF w \in Range(Warm) THEN Resting
                                        ELSE [Resting EXCEPT !.at = "gone"]]
    /\ queue = [assigned |-> [j \in Job |-> Nobody], terminal |-> {}, accepting |-> TRUE]
    /\ control = [capacity |-> Len(Warm), blocked |-> FALSE, recent |-> FALSE, pressure |-> 0, healthy |-> 0]
    /\ pool = [active |-> Range(Warm), halted |-> FALSE]
    /\ started = {}
    /\ results = {}

---------------------------------------------------------------------------
(* The capacity controller                                                 *)

Sample == {"overload", "pressure", "healthy", "neutral"}

AtMost(n, bound) == IF n < bound THEN n ELSE bound
AtLeast(n, bound) == IF n > bound THEN n ELSE bound

\* next_capacity, by one at most; healthy counts this sample too.
NextCapacity(c, sample, pressure, healthy, cooled) ==
    IF sample = "overload" \/ (sample = "pressure" /\ pressure >= PressureRuns) THEN AtLeast(c.capacity - 1, Minimum)
    ELSE IF ~ c.blocked /\ sample = "healthy" /\ healthy >= HealthyRuns /\ cooled THEN AtMost(c.capacity + 1, Cardinality(Worker))
    ELSE c.capacity

\* AdaptiveCapacityController.assignment_capacity: a failure or crash since the
\* last sample makes it an overload and ends expansion for good.
Sampled(c, given, cooled) ==
    LET sample == IF c.recent THEN "overload" ELSE given
        pressure == IF sample = "pressure" THEN AtMost(c.pressure + 1, PressureRuns) ELSE 0
        healthy == IF sample = "healthy" THEN AtMost(c.healthy + 1, HealthyRuns) ELSE 0
        next == NextCapacity(c, sample, pressure, healthy, cooled)
    IN  [c EXCEPT !.capacity = next, !.recent = FALSE,
                  !.pressure = IF next = c.capacity THEN pressure ELSE 0,
                  !.healthy = IF next = c.capacity THEN healthy ELSE 0]

\* A failing sampler; the counters of failures are kept.
SampleFails(c) == [c EXCEPT !.pressure = 0, !.healthy = 0]

---------------------------------------------------------------------------
(* Worker threads                                                          *)

\* notify_all on the queue's condition.
Notified(ws) == [w \in Worker |-> IF ws[w].at = "waiting" THEN [ws[w] EXCEPT !.at = "top"] ELSE ws[w]]

InPool(w, at) == run.at = "pool" /\ worker[w].at = at
Goes(w, at) == worker' = [worker EXCEPT ![w].at = at, ![w].cap = 0]

\* wait_until_active
BecomeActive(w) ==
    /\ InPool(w, "cold")
    /\ w \in pool.active \/ pool.halted
    /\ Goes(w, IF w \in pool.active THEN "top" ELSE "gone")
    /\ UNCHANGED <<queue, control, pool, started, results, run>>

\* acquire_assignment returns None: the worker leaves and lets the reserve go.
Leave(w) ==
    /\ Goes(w, "gone")
    /\ pool' = [pool EXCEPT !.halted = TRUE]
    /\ UNCHANGED <<queue, control, started, results, run>>

AcquireNone(w) ==
    /\ InPool(w, "top")
    /\ ~ queue.accepting \/ Finished
    /\ Leave(w)

Cold == SelectSeq(CapacityOrder, LAMBDA v : v \notin pool.active)

\* The reserve workers that a capacity needs.
Wanted(cap) == Range(SubSeq(Cold, 1, AtMost(cap - Cardinality(pool.active), Len(Cold))))

\* What the controller may answer: its last value, or one after a sample.
Readings == {control, SampleFails(control)} \cup {Sampled(control, sample, cooled) : sample \in Sample, cooled \in BOOLEAN}

\* acquire_assignment reads the capacity without the queue's lock;
\* AdaptiveWorkerPool.assignment_capacity starts reserve capsules until there
\* are enough.
AskCapacity(w) ==
    /\ InPool(w, "top")
    /\ queue.accepting /\ ~ Finished
    /\ IF run.adaptive
       THEN \E c \in Readings :
               LET active == pool.active \cup Wanted(c.capacity)
               IN  /\ control' = c
                   /\ pool' = [pool EXCEPT !.active = active]
                   /\ started' = started \cup Wanted(c.capacity)
                   /\ worker' = [worker EXCEPT ![w].at = "try", ![w].cap = AtMost(c.capacity, Cardinality(active))]
       ELSE /\ worker' = [worker EXCEPT ![w].at = "try", ![w].cap = Cardinality(Job)]
            /\ UNCHANGED <<control, pool, started>>
    /\ UNCHANGED <<queue, results, run>>

\* A start that fails ends the worker that asked.
ReserveFails(w) ==
    /\ InPool(w, "top")
    /\ queue.accepting /\ ~ Finished /\ run.adaptive
    /\ \E c \in Readings : Wanted(c.capacity) # {} /\ control' = c
    /\ Goes(w, "raise")
    /\ UNCHANGED <<queue, pool, started, results, run>>

\* worker_is_enabled; without a pool everyone is.
Enabled(w, cap) == run.adaptive => w \in pool.active /\ w \in Range(SubSeq(CapacityOrder, 1, cap))

MutantLocksCompatible(j) == \A k \in Running : k # j

LocksCompatible(j) == \A k \in Running : Locks[k] \cap Locks[j] = {}

Eligible(w) == {j \in Job \ (queue.terminal \cup Running) : LocksCompatible(j) /\ WorkerCanRun(w, j)}

\* The longest eligible job.
MayAssign(w) == queue.accepting /\ Cardinality(Running) < worker[w].cap /\ Enabled(w, worker[w].cap)

TryAssign(w) ==
    /\ InPool(w, "try")
    /\ MayAssign(w)
    /\ \E j \in Eligible(w) :
          /\ \A k \in Eligible(w) : Seconds[k] <= Seconds[j]
          /\ queue' = [queue EXCEPT !.assigned[j] = w]
          /\ worker' = [worker EXCEPT ![w].at = "run", ![w].job = j, ![w].cap = 0]
    /\ UNCHANGED <<control, pool, started, results, run>>

\* No job: leave, or wait for a change.
TryWait(w) ==
    /\ InPool(w, "try")
    /\ ~ MayAssign(w) \/ Eligible(w) = {}
    /\ IF ~ queue.accepting \/ Finished
       THEN Leave(w)
       ELSE Goes(w, "waiting") /\ UNCHANGED <<queue, control, pool, started, results, run>>

\* The timeout of the wait.
WaitTimesOut(w) ==
    /\ InPool(w, "waiting") /\ run.adaptive
    /\ Goes(w, "top")
    /\ UNCHANGED <<queue, control, pool, started, results, run>>

\* record_unexpected_failure and record_worker_crash, when there is a controller.
Remembered(c) == IF run.adaptive THEN [c EXCEPT !.recent = TRUE, !.blocked = TRUE] ELSE c

\* execute_job: the tests pass, fail or the capsule raises.
ExecuteJob(w) ==
    /\ InPool(w, "run")
    /\ \/ worker' = [worker EXCEPT ![w].at = "finish", ![w].code = 0] /\ UNCHANGED control
       \/ worker' = [worker EXCEPT ![w].at = "finish", ![w].code = 1] /\ control' = Remembered(control)
       \/ Goes(w, "raise") /\ UNCHANGED control
    /\ UNCHANGED <<queue, pool, started, results, run>>

\* _finish: the job is terminal, its locks are free and everyone wakes up.
Finish(w, next) ==
    /\ queue' = [queue EXCEPT !.assigned[worker[w].job] = Nobody, !.terminal = @ \cup {worker[w].job}]
    /\ worker' = Notified([worker EXCEPT ![w].at = next])

Complete(w) ==
    /\ InPool(w, "finish")
    /\ Finish(w, "record")
    /\ UNCHANGED <<control, pool, started, results, run>>

RecordResult(w) ==
    /\ InPool(w, "record")
    /\ results' = results \cup {[job |-> worker[w].job, by |-> w, code |-> worker[w].code]}
    /\ worker' = [worker EXCEPT ![w].at = "top", ![w].job = Nobody, ![w].code = 0]
    /\ UNCHANGED <<queue, control, pool, started, run>>

\* The except clauses of _worker_loop: stop the queue and the reserve, ...
WorkerRaises(w) ==
    /\ InPool(w, "raise")
    /\ control' = Remembered(control)
    /\ queue' = [queue EXCEPT !.accepting = FALSE]
    /\ pool' = [pool EXCEPT !.halted = TRUE]
    /\ worker' = Notified([worker EXCEPT ![w].at = IF worker[w].job = Nobody THEN "gone" ELSE "abort"])
    /\ run' = [run EXCEPT !.crash = TRUE]
    /\ UNCHANGED <<started, results>>

\* ... and give the job back as aborted.
Abort(w) ==
    /\ InPool(w, "abort")
    /\ Finish(w, "gone")
    /\ UNCHANGED <<control, pool, started, results, run>>

---------------------------------------------------------------------------
(* The coordinator                                                         *)

\* start_capsules: one failure, and the run goes on to cleanup.
StartCapsules ==
    /\ run.at = "start"
    /\ \E s \in SUBSET Range(Warm) :
          /\ started' = s
          /\ run' = [run EXCEPT !.at = IF s = Range(Warm) THEN "pool" ELSE "closing", !.crash = s # Range(Warm)]
    /\ UNCHANGED <<queue, control, pool, worker, results>>

\* Ctrl-C while the workers run.
Interrupt ==
    /\ run.at = "pool" /\ ~ run.interrupted
    /\ run' = [run EXCEPT !.interrupted = TRUE]
    /\ queue' = [queue EXCEPT !.accepting = FALSE]
    /\ pool' = [pool EXCEPT !.halted = TRUE]
    /\ worker' = Notified(worker)
    /\ UNCHANGED <<control, started, results>>

\* All threads have ended; the last sample may fail.
PoolEnds ==
    /\ run.at = "pool" /\ \A w \in Worker : worker[w].at = "gone"
    /\ \E sampled \in BOOLEAN : run' = [run EXCEPT !.at = "closing", !.sampled = sampled /\ ~ run.crash /\ ~ run.interrupted]
    /\ UNCHANGED <<queue, control, pool, started, worker, results>>

CloseCapsules ==
    /\ run.at = "closing"
    /\ \E cleaned \in BOOLEAN : run' = [run EXCEPT !.at = "completing", !.cleaned = cleaned]
    /\ started' = {}
    /\ UNCHANGED <<queue, control, pool, worker, results>>

IsPartial == run.crash \/ ~ run.sampled \/ ~ run.cleaned \/ Cardinality(results) # Cardinality(Job)

\* complete_run, with the check of prepare_aggregation that no job failed.
CompleteRun ==
    /\ run.at = "completing"
    /\ \/ run' = [run EXCEPT !.at = "failed"]
       \/ /\ ~ run.interrupted /\ ~ IsPartial /\ \A r \in results : r.code = 0
          /\ run' = [run EXCEPT !.at = "published"]
    /\ UNCHANGED <<queue, control, pool, started, worker, results>>

WorkerStep(w) ==
    \/ BecomeActive(w) \/ AcquireNone(w) \/ AskCapacity(w) \/ ReserveFails(w) \/ TryAssign(w) \/ TryWait(w)
    \/ WaitTimesOut(w) \/ ExecuteJob(w) \/ Complete(w) \/ RecordResult(w) \/ WorkerRaises(w) \/ Abort(w)

Coordinate == StartCapsules \/ PoolEnds \/ CloseCapsules \/ CompleteRun

SchedulerNext == Coordinate \/ Interrupt \/ \E w \in Worker : WorkerStep(w)

\* Threads are scheduled, tests end (Playwright has timeouts) and the run's
\* main thread goes on; nobody has to interrupt it.
SchedulerFairness == WF_schedulerVars(Coordinate) /\ \A w \in Worker : WF_schedulerVars(WorkerStep(w))

SchedulerSpec == SchedulerInit /\ [][SchedulerNext]_schedulerVars /\ SchedulerFairness

---------------------------------------------------------------------------
(* Properties                                                              *)

Board == INSTANCE JobBoard WITH
    state <- [j \in Job |-> IF j \in queue.terminal THEN "ended" ELSE IF j \in Running THEN "running" ELSE "pending"],
    passed <- {r.job : r \in {s \in results : s.code = 0}},
    verdict <- IF run.at \in {"published", "failed"} THEN run.at ELSE "open"

\* Threads, stale capacities, crashes and interrupts never make a job run
\* twice or beside one with its lock, and nothing is published while a job is
\* missing or failed: the scheduler implements JobBoard.
ImplementsBoard == Board!BoardSpec

\* Every run reaches a verdict: nobody waits for a job that no enabled worker
\* can take, however far the capacity was lowered, and no wake-up is lost.
RunEnds == <>(run.at \in {"published", "failed"})
===========================================================================
