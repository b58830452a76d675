--------------------------- MODULE SchedulerProofs --------------------------
(***************************************************************************)
(* Scheduler implements JobBoard, for any set of jobs, locks, workers and  *)
(* projects and whatever the capacity controller answers.                  *)
(***************************************************************************)
EXTENDS Scheduler, FiniteSetTheorems, TLAPS

Place == {"cold", "top", "try", "waiting", "run", "finish", "raise", "abort", "record", "gone"}
Queue == [assigned : [Job -> Worker \cup {Nobody}], terminal : SUBSET Job, accepting : BOOLEAN]
RunState == [at : {"start", "pool", "closing", "completing", "failed", "published"}, adaptive : BOOLEAN,
             crash : BOOLEAN, interrupted : BOOLEAN, sampled : BOOLEAN, cleaned : BOOLEAN]

\* A thread's record; the capacity it read may be any value.
Thread(cap) == [at : Place, job : Job \cup {Nobody}, cap : {cap}, code : {0, 1}]

SchedulerShape ==
    /\ queue \in Queue
    /\ run \in RunState
    /\ worker = [w \in Worker |-> worker[w]]
    /\ \A w \in Worker : worker[w] \in Thread(worker[w].cap)
    /\ results \subseteq [job : Job, by : Worker, code : {0, 1}]

\* Worker w has a job in its hands.
Holds(w) == worker[w].at \in {"run", "finish", "raise", "abort"} /\ worker[w].job # Nobody

Recorded == {r.job : r \in results}

\* The queue and the threads agree on who runs what, a job that ended is never
\* assigned again, and outside the pool phase nobody has a job.
AssignedInv ==
    /\ \A j \in Job : queue.assigned[j] # Nobody =>
          Holds(queue.assigned[j]) /\ worker[queue.assigned[j]].job = j /\ j \notin queue.terminal
    /\ \A w \in Worker : Holds(w) => queue.assigned[worker[w].job] = w
    /\ \A w \in Worker : worker[w].at \in {"cold", "top", "try", "waiting"} => worker[w].job = Nobody
    /\ \A w \in Worker : worker[w].at \in {"run", "finish", "abort", "record"} => worker[w].job # Nobody
    /\ run.at # "pool" => \A w \in Worker : worker[w].at \in {"cold", "top", "gone"}

\* Only ended jobs have results, a job that is about to be recorded has none
\* yet and is in one worker's hands, so the ledger has one entry per job.
RecordedInv ==
    /\ Recorded \subseteq queue.terminal
    /\ IsFiniteSet(results) /\ Cardinality(results) = Cardinality(Recorded)
    /\ \A w \in Worker : worker[w].at = "record" => worker[w].job \in queue.terminal \ Recorded
    /\ \A v, w \in Worker : worker[v].at = "record" /\ worker[w].at = "record" /\ worker[v].job = worker[w].job => v = w

\* The inductive invariant.
SchedulerIInv == SchedulerShape /\ AssignedInv /\ RecordedInv
Idle == {"cold", "top", "try", "waiting"}
Open == {"start", "pool", "closing", "completing"}

---------------------------------------------------------------------------
(* Threads                                                                 *)

\* One thread gets a new record x; waiting threads may be notified as well.
LEMMA ThreadChanges ==
    ASSUME SchedulerShape, NEW w \in Worker, NEW cap, NEW x \in Thread(cap),
           \/ worker' = [worker EXCEPT ![w] = x]
           \/ x.at # "waiting" /\ worker' = Notified([worker EXCEPT ![w] = x])
    PROVE  /\ worker' = [v \in Worker |-> worker'[v]]
           /\ \A v \in Worker : worker'[v] \in Thread(worker'[v].cap)
           /\ worker'[w] = x
           /\ \A v \in Worker \ {w} : /\ worker'[v].job = worker[v].job
                                      /\ worker'[v].at = worker[v].at \/ (worker[v].at = "waiting" /\ worker'[v].at = "top")
  <1>t. worker = [v \in Worker |-> worker[v]] /\ \A v \in Worker : worker[v] \in Thread(worker[v].cap)
    BY DEF SchedulerShape
  <1>x. x \in Thread(x.cap)
    BY DEF Thread
  <1> DEFINE ws == [worker EXCEPT ![w] = x]
  <1>1. /\ ws = [v \in Worker |-> ws[v]] /\ ws[w] = x /\ (\A v \in Worker \ {w} : ws[v] = worker[v])
        /\ \A v \in Worker : ws[v] \in Thread(ws[v].cap)
    BY <1>t, <1>x
  <1> HIDE DEF ws
  <1>2. ASSUME NEW v \in Worker
        PROVE  LET y == [ws[v] EXCEPT !.at = "top"] IN y \in Thread(y.cap) /\ y.job = ws[v].job /\ y.at = "top"
    BY <1>1 DEF Thread, Place
  <1>3. CASE worker' = ws
    BY <1>1, <1>3
  <1>4. CASE worker' = Notified(ws)
    <2>1. worker' = [v \in Worker |-> IF ws[v].at = "waiting" THEN [ws[v] EXCEPT !.at = "top"] ELSE ws[v]]
      BY <1>4 DEF Notified
    <2>2. \A v \in Worker : worker'[v] = IF ws[v].at = "waiting" THEN [ws[v] EXCEPT !.at = "top"] ELSE ws[v]
      BY <2>1
    <2>3. worker' = [v \in Worker |-> worker'[v]]
      BY <2>1
    <2> QED
      BY <1>1, <1>2, <2>2, <2>3
  <1> QED
    BY <1>3, <1>4 DEF ws

\* A step that assigns, ends and records nothing.
LEMMA QuietStep ==
    ASSUME SchedulerIInv, SchedulerShape', run.at \in Open, run'.at \in Open,
           queue'.assigned = queue.assigned, queue'.terminal = queue.terminal, results' = results,
           \A v \in Worker : /\ worker'[v].job = worker[v].job
                             /\ Holds(v)' <=> Holds(v)
                             /\ worker'[v].at \in Idle => worker[v].job = Nobody
                             /\ worker'[v].at \in {"run", "finish", "abort", "record"} => worker[v].job # Nobody
                             /\ worker'[v].at = "record" => worker[v].at = "record",
           run'.at # "pool" => \A v \in Worker : worker'[v].at \in {"cold", "top", "gone"}
    PROVE  SchedulerIInv' /\ UNCHANGED Board!boardVars
  <1>t. queue \in Queue /\ AssignedInv /\ RecordedInv
    BY DEF SchedulerIInv, SchedulerShape
  <1>q. \A j \in Job : queue.assigned[j] \in Worker \cup {Nobody}
    BY <1>t DEF Queue
  <1>1. AssignedInv'
    <2>1. \A j \in Job : queue.assigned[j] # Nobody =>
             Holds(queue.assigned[j])' /\ worker'[queue.assigned[j]].job = j /\ j \notin queue.terminal
      BY <1>t, <1>q DEF AssignedInv
    <2>2. \A v \in Worker : Holds(v)' => queue.assigned[worker'[v].job] = v
      BY <1>t DEF AssignedInv
    <2> QED
      BY <2>1, <2>2 DEF AssignedInv, Idle
  <1>2. RecordedInv'
    BY <1>t DEF RecordedInv, Recorded
  <1>3. UNCHANGED Board!boardVars
    <2>1. Running' = Running
      BY DEF Running
    <2> QED
      BY <2>1 DEF Board!boardVars, Open
  <1> QED
    BY <1>1, <1>2, <1>3 DEF SchedulerIInv
\* A thread goes on with the job it has, or without one.
LEMMA QuietThread ==
    ASSUME SchedulerIInv, NEW w \in Worker, NEW cap, NEW x \in Thread(cap),
           \/ worker' = [worker EXCEPT ![w] = x]
           \/ x.at # "waiting" /\ worker' = Notified([worker EXCEPT ![w] = x]),
           run.at = "pool", run' \in RunState, run'.at = "pool", queue' \in Queue,
           queue'.assigned = queue.assigned, queue'.terminal = queue.terminal, results' = results,
           x.job = worker[w].job, x.at # "record",
           x.at \in Idle => x.job = Nobody,
           x.at \in {"run", "finish", "abort"} => x.job # Nobody,
           (x.at \in {"run", "finish", "raise", "abort"} /\ x.job # Nobody) <=> Holds(w)
    PROVE  SchedulerIInv' /\ UNCHANGED Board!boardVars
  <1>t. SchedulerShape /\ AssignedInv /\ results \subseteq [job : Job, by : Worker, code : {0, 1}]
    BY DEF SchedulerIInv, SchedulerShape
  <1>1. /\ worker' = [v \in Worker |-> worker'[v]]
        /\ \A v \in Worker : worker'[v] \in Thread(worker'[v].cap)
        /\ worker'[w] = x
        /\ \A v \in Worker \ {w} : /\ worker'[v].job = worker[v].job
                                   /\ worker'[v].at = worker[v].at \/ (worker[v].at = "waiting" /\ worker'[v].at = "top")
    BY <1>t, ThreadChanges
  <1>2. SchedulerShape'
    BY <1>1, <1>t DEF SchedulerShape
  <1>3. ASSUME NEW v \in Worker
        PROVE  /\ worker'[v].job = worker[v].job
               /\ Holds(v)' <=> Holds(v)
               /\ worker'[v].at \in Idle => worker[v].job = Nobody
               /\ worker'[v].at \in {"run", "finish", "abort", "record"} => worker[v].job # Nobody
               /\ worker'[v].at = "record" => worker[v].at = "record"
    <2>1. CASE v = w
      BY <1>1, <2>1 DEF Holds
    <2>2. CASE v # w
      BY <1>1, <1>t, <2>2 DEF Holds, Idle, AssignedInv
    <2> QED
      BY <2>1, <2>2
  <1> QED
    BY <1>2, <1>3, QuietStep DEF Open

\* The steps of a thread that assign, end and record nothing.
LEMMA QuietThreadSteps ==
    ASSUME SchedulerIInv, NEW w \in Worker,
           \/ BecomeActive(w) \/ AcquireNone(w) \/ AskCapacity(w) \/ ReserveFails(w) \/ TryWait(w)
           \/ WaitTimesOut(w) \/ ExecuteJob(w) \/ WorkerRaises(w)
    PROVE  SchedulerIInv' /\ UNCHANGED Board!boardVars
  <1>t. /\ queue \in Queue /\ run \in RunState /\ AssignedInv
        /\ worker = [v \in Worker |-> worker[v]] /\ worker[w] \in Thread(worker[w].cap)
    BY DEF SchedulerIInv, SchedulerShape
  <1>j. /\ worker[w].at \in Idle => worker[w].job = Nobody
        /\ worker[w].at = "run" => worker[w].job # Nobody
    BY <1>t DEF AssignedInv, Idle
  <1>u. run.at = "pool" /\ results' = results
    BY DEF BecomeActive, AcquireNone, AskCapacity, ReserveFails, TryWait, WaitTimesOut, ExecuteJob, WorkerRaises, InPool, Leave
  \* The thread moves to another place and may read a capacity.
  <1>1. ASSUME NEW at \in Place, NEW cap, queue' = queue, run' = run,
               worker' = [worker EXCEPT ![w].at = at, ![w].cap = cap],
               \/ worker[w].at \in Idle /\ at \in Idle \cup {"gone", "raise"}
               \/ worker[w].at = "run" /\ at = "raise"
        PROVE  SchedulerIInv' /\ UNCHANGED Board!boardVars
    <2> DEFINE x == [worker[w] EXCEPT !.at = at, !.cap = cap]
    <2>1. worker' = [worker EXCEPT ![w] = x]
      BY <1>1, <1>t
    <2>2. x \in Thread(cap) /\ x.at = at /\ x.job = worker[w].job
      BY <1>1, <1>t DEF Thread
    <2> HIDE DEF x
    <2>3. (x.at \in {"run", "finish", "raise", "abort"} /\ x.job # Nobody) <=> Holds(w)
      BY <1>1, <1>j, <2>2 DEF Holds, Idle
    <2>4. x.at # "record" /\ (x.at \in Idle => x.job = Nobody) /\ (x.at \in {"run", "finish", "abort"} => x.job # Nobody)
      BY <1>1, <1>j, <2>2 DEF Idle
    <2> QED
      BY <1>1, <1>t, <1>u, <2>1, <2>2, <2>3, <2>4, QuietThread
  <1>2. CASE BecomeActive(w) \/ AcquireNone(w) \/ ReserveFails(w) \/ TryWait(w) \/ WaitTimesOut(w)
    <2>1. PICK at \in {"top", "gone", "raise", "waiting"} : Goes(w, at)
      BY <1>2 DEF BecomeActive, AcquireNone, ReserveFails, TryWait, WaitTimesOut, Leave
    <2>2. worker[w].at \in Idle /\ queue' = queue /\ run' = run
      BY <1>2 DEF BecomeActive, AcquireNone, ReserveFails, TryWait, WaitTimesOut, Leave, InPool, Idle
    <2>3. at \in Place /\ at \in Idle \cup {"gone", "raise"}
      BY <2>1 DEF Place, Idle
    <2> QED
      BY <1>1, <2>1, <2>2, <2>3 DEF Goes
  <1>3. CASE AskCapacity(w)
    <2>1. worker[w].at \in Idle /\ queue' = queue /\ run' = run
      BY <1>3 DEF AskCapacity, InPool, Idle
    <2>2. "try" \in Place /\ "try" \in Idle
      BY DEF Place, Idle
    <2>3. PICK cap : worker' = [worker EXCEPT ![w].at = "try", ![w].cap = cap]
      BY <1>3 DEF AskCapacity
    <2> QED
      BY <1>1, <2>1, <2>2, <2>3
  <1>4. CASE ExecuteJob(w)
    <2>1. worker[w].at = "run" /\ queue' = queue /\ run' = run
      BY <1>4 DEF ExecuteJob, InPool
    <2>2. CASE Goes(w, "raise")
      <3>1. "raise" \in Place
        BY DEF Place
      <3> QED
        BY <1>1, <2>1, <2>2, <3>1 DEF Goes
    <2>3. ASSUME NEW code \in {0, 1}, worker' = [worker EXCEPT ![w].at = "finish", ![w].code = code]
          PROVE  SchedulerIInv' /\ UNCHANGED Board!boardVars
      <3> DEFINE x == [worker[w] EXCEPT !.at = "finish", !.code = code]
      <3>1. worker' = [worker EXCEPT ![w] = x]
        BY <1>t, <2>3
      <3>2. x \in Thread(worker[w].cap) /\ x.at = "finish" /\ x.job = worker[w].job
        BY <1>t DEF Thread, Place
      <3> HIDE DEF x
      <3>3. x.job # Nobody /\ Holds(w)
        BY <1>j, <2>1, <3>2 DEF Holds
      <3>4. x.at \notin Idle
        BY <3>2 DEF Idle
      <3> QED
        BY <1>t, <1>u, <2>1, <3>1, <3>2, <3>3, <3>4, QuietThread
    <2> QED
      BY <1>4, <2>2, <2>3 DEF ExecuteJob
  <1>5. CASE WorkerRaises(w)
    <2> DEFINE at == IF worker[w].job = Nobody THEN "gone" ELSE "abort"
               x == [worker[w] EXCEPT !.at = at]
    <2>1. worker[w].at = "raise" /\ worker' = Notified([worker EXCEPT ![w] = x])
      BY <1>5, <1>t DEF WorkerRaises, InPool
    <2>2. at \in Place
      BY DEF Place
    <2>3. x \in Thread(worker[w].cap) /\ x.at = at /\ x.job = worker[w].job
      BY <1>t, <2>2 DEF Thread
    <2>4. (x.at = "gone" /\ x.job = Nobody /\ ~ Holds(w)) \/ (x.at = "abort" /\ x.job # Nobody /\ Holds(w))
      BY <2>1, <2>3 DEF Holds
    <2> HIDE DEF x
    <2>5. queue' \in Queue /\ queue'.assigned = queue.assigned /\ queue'.terminal = queue.terminal
      BY <1>5, <1>t DEF WorkerRaises, Queue
    <2>6. run' \in RunState /\ run'.at = "pool"
      BY <1>5, <1>t, <1>u DEF WorkerRaises, RunState
    <2>7. x.at \notin Idle
      BY <2>4 DEF Idle
    <2> QED
      BY <1>u, <2>1, <2>3, <2>4, <2>5, <2>6, <2>7, QuietThread
  <1> QED
    BY <1>2, <1>3, <1>4, <1>5
---------------------------------------------------------------------------
(* Steps of the board                                                      *)

\* A worker assigns itself a job: Take.
LEMMA AssignStep ==
    ASSUME SchedulerIInv, NEW w \in Worker, TryAssign(w)
    PROVE  SchedulerIInv' /\ Board!BoardNext
  <1>t. /\ queue \in Queue /\ run \in RunState /\ SchedulerShape /\ AssignedInv /\ RecordedInv
        /\ worker = [v \in Worker |-> worker[v]] /\ worker[w] \in Thread(worker[w].cap)
        /\ results \subseteq [job : Job, by : Worker, code : {0, 1}]
    BY DEF SchedulerIInv, SchedulerShape
  <1>n. Nobody \notin Worker /\ Nobody \notin Job
    BY SchedulerAssumption
  <1>1. PICK j \in Eligible(w) :
           /\ queue' = [queue EXCEPT !.assigned[j] = w]
           /\ worker' = [worker EXCEPT ![w].at = "run", ![w].job = j, ![w].cap = 0]
    BY DEF TryAssign
  <1>u. run.at = "pool" /\ worker[w].at = "try" /\ results' = results /\ run' = run
    BY DEF TryAssign, InPool
  <1>2. /\ j \in Job /\ j \notin queue.terminal /\ queue.assigned[j] = Nobody
        /\ \A k \in Running : Locks[k] \cap Locks[j] = {}
    BY DEF Eligible, Running, LocksCompatible
  <1> DEFINE x == [worker[w] EXCEPT !.at = "run", !.job = j, !.cap = 0]
  <1>3. worker' = [worker EXCEPT ![w] = x]
    BY <1>1, <1>t
  <1>4. x \in Thread(0) /\ x.at = "run" /\ x.job = j
    BY <1>2, <1>t DEF Thread, Place
  <1> HIDE DEF x
  <1>5. /\ queue' \in Queue /\ queue'.terminal = queue.terminal
        /\ queue'.assigned[j] = w /\ \A k \in Job \ {j} : queue'.assigned[k] = queue.assigned[k]
    BY <1>1, <1>2, <1>t DEF Queue
  <1>6. /\ worker' = [v \in Worker |-> worker'[v]]
        /\ \A v \in Worker : worker'[v] \in Thread(worker'[v].cap)
        /\ worker'[w] = x /\ \A v \in Worker \ {w} : worker'[v] = worker[v]
    BY <1>3, <1>4, <1>t, ThreadChanges
  <1>7. SchedulerShape'
    BY <1>5, <1>6, <1>t, <1>u DEF SchedulerShape
  <1>8. AssignedInv'
    <2>1. ASSUME NEW k \in Job, queue'.assigned[k] # Nobody
          PROVE  Holds(queue.assigned[k])' /\ worker'[queue'.assigned[k]].job = k /\ k \notin queue'.terminal
      <3>1. CASE k = j
        BY <1>2, <1>4, <1>5, <1>6, <1>n, <3>1 DEF Holds
      <3>2. CASE k # j
        <4>1. queue'.assigned[k] = queue.assigned[k] /\ queue.assigned[k] \in Worker
          BY <1>5, <1>t, <2>1, <3>2 DEF Queue
        <4>2. Holds(queue.assigned[k]) /\ worker[queue.assigned[k]].job = k /\ k \notin queue.terminal
          BY <1>t, <2>1, <4>1 DEF AssignedInv
        <4>3. queue.assigned[k] # w
          BY <1>u, <4>2 DEF Holds
        <4> QED
          BY <1>5, <1>6, <4>1, <4>2, <4>3 DEF Holds
      <3> QED
        BY <3>1, <3>2
    <2>2. ASSUME NEW v \in Worker, Holds(v)' PROVE queue'.assigned[worker'[v].job] = v
      <3>1. CASE v = w
        BY <1>4, <1>5, <1>6, <3>1
      <3>2. CASE v # w
        <4>1. Holds(v) /\ worker'[v] = worker[v] /\ worker[v].job \in Job
          BY <1>6, <2>2, <3>2, <1>t DEF Holds, SchedulerShape, Thread
        <4>2. queue.assigned[worker[v].job] = v
          BY <1>t, <4>1 DEF AssignedInv
        <4> QED
          BY <1>2, <1>5, <1>n, <4>1, <4>2
      <3> QED
        BY <3>1, <3>2
    <2>3. ASSUME NEW v \in Worker
          PROVE  /\ worker'[v].at \in {"cold", "top", "try", "waiting"} => worker'[v].job = Nobody
                 /\ worker'[v].at \in {"run", "finish", "abort", "record"} => worker'[v].job # Nobody
      BY <1>2, <1>4, <1>6, <1>n, <1>t DEF AssignedInv
    <2> QED
      BY <1>u, <2>1, <2>2, <2>3 DEF AssignedInv
  <1>9. RecordedInv'
    <2>1. \A v \in Worker : worker'[v].at = "record" => worker'[v] = worker[v]
      BY <1>4, <1>6
    <2> QED
      BY <1>5, <1>t, <1>u, <2>1 DEF RecordedInv, Recorded
  <1>10. Board!Take(j)
    <2>1. Running' = Running \cup {j} /\ j \notin Running
      BY <1>2, <1>5, <1>n DEF Running
    <2> QED
      BY <1>2, <1>5, <1>u, <2>1 DEF Board!Take
  <1> QED
    BY <1>2, <1>7, <1>8, <1>9, <1>10 DEF Board!BoardNext, SchedulerIInv

\* A job completes or is aborted: End.
LEMMA FinishStep ==
    ASSUME SchedulerIInv, NEW w \in Worker, Complete(w) \/ Abort(w)
    PROVE  SchedulerIInv' /\ Board!BoardNext
  <1>t. /\ queue \in Queue /\ run \in RunState /\ SchedulerShape /\ AssignedInv /\ RecordedInv
        /\ worker = [v \in Worker |-> worker[v]] /\ worker[w] \in Thread(worker[w].cap)
        /\ results \subseteq [job : Job, by : Worker, code : {0, 1}]
    BY DEF SchedulerIInv, SchedulerShape
  <1>n. Nobody \notin Worker /\ Nobody \notin Job
    BY SchedulerAssumption
  <1>u. /\ run.at = "pool" /\ worker[w].at \in {"finish", "abort"} /\ results' = results /\ run' = run
    BY DEF Complete, Abort, InPool
  <1>1. PICK next \in {"record", "gone"} : Finish(w, next)
    BY DEF Complete, Abort
  <1>j. PICK j : j = worker[w].job
    OBVIOUS
  <1> DEFINE x == [worker[w] EXCEPT !.at = next]
  <1>2. j \in Job /\ Holds(w) /\ queue.assigned[j] = w /\ j \notin queue.terminal
    <2>1. j \in Job /\ Holds(w)
      BY <1>j, <1>t, <1>u DEF AssignedInv, Holds, Thread
    <2>2. queue.assigned[j] = w
      BY <1>j, <1>t, <2>1 DEF AssignedInv
    <2> QED
      BY <1>n, <1>t, <2>1, <2>2 DEF AssignedInv
  <1>3. worker' = Notified([worker EXCEPT ![w] = x])
    BY <1>1, <1>t DEF Finish
  <1>4. x \in Thread(worker[w].cap) /\ x.at = next /\ x.job = j
    BY <1>j, <1>t DEF Thread, Place
  <1> HIDE DEF x
  <1>5. /\ queue' \in Queue /\ queue'.terminal = queue.terminal \cup {j}
        /\ queue'.assigned[j] = Nobody /\ \A k \in Job \ {j} : queue'.assigned[k] = queue.assigned[k]
    BY <1>1, <1>2, <1>j, <1>t DEF Queue, Finish
  <1>6. /\ worker' = [v \in Worker |-> worker'[v]]
        /\ \A v \in Worker : worker'[v] \in Thread(worker'[v].cap)
        /\ worker'[w] = x
        /\ \A v \in Worker \ {w} : /\ worker'[v].job = worker[v].job
                                   /\ worker'[v].at = worker[v].at \/ (worker[v].at = "waiting" /\ worker'[v].at = "top")
    BY <1>3, <1>4, <1>t, ThreadChanges
  <1>7. SchedulerShape'
    BY <1>5, <1>6, <1>t, <1>u DEF SchedulerShape
  <1>h. ~ Holds(w)' /\ \A v \in Worker \ {w} : Holds(v)' <=> Holds(v)
    BY <1>4, <1>6 DEF Holds
  <1>8. AssignedInv'
    <2>1. ASSUME NEW k \in Job, queue'.assigned[k] # Nobody
          PROVE  Holds(queue.assigned[k])' /\ worker'[queue'.assigned[k]].job = k /\ k \notin queue'.terminal
      <3>1. k # j /\ queue'.assigned[k] = queue.assigned[k] /\ queue.assigned[k] \in Worker
        BY <1>5, <1>t, <2>1 DEF Queue
      <3>2. Holds(queue.assigned[k]) /\ worker[queue.assigned[k]].job = k /\ k \notin queue.terminal
        BY <1>t, <2>1, <3>1 DEF AssignedInv
      <3>3. queue.assigned[k] # w
        BY <1>j, <3>1, <3>2
      <3> QED
        BY <1>5, <1>6, <3>1, <3>2, <3>3 DEF Holds
    <2>2. ASSUME NEW v \in Worker, Holds(v)' PROVE queue'.assigned[worker'[v].job] = v
      <3>1. v # w /\ Holds(v) /\ worker'[v].job = worker[v].job
        BY <1>6, <1>h, <2>2
      <3>2. queue.assigned[worker[v].job] = v /\ worker[v].job \in Job
        BY <1>t, <3>1 DEF AssignedInv, Holds, SchedulerShape, Thread
      <3> QED
        BY <1>2, <1>5, <3>1, <3>2
    <2>3. ASSUME NEW v \in Worker
          PROVE  /\ worker'[v].at \in {"cold", "top", "try", "waiting"} => worker'[v].job = Nobody
                 /\ worker'[v].at \in {"run", "finish", "abort", "record"} => worker'[v].job # Nobody
      BY <1>2, <1>4, <1>6, <1>n, <1>t DEF AssignedInv
    <2> QED
      BY <1>u, <2>1, <2>2, <2>3 DEF AssignedInv
  <1>9. RecordedInv'
    <2>1. Recorded' = Recorded /\ j \notin Recorded
      BY <1>2, <1>t, <1>u DEF RecordedInv, Recorded
    <2>2. \A v \in Worker : worker'[v].at = "record" =>
             \/ v = w /\ worker'[v].job = j
             \/ v # w /\ worker[v].at = "record" /\ worker'[v].job = worker[v].job
      BY <1>4, <1>6
    <2>3. \A v \in Worker : worker[v].at = "record" => worker[v].job # j
      BY <1>2, <1>t DEF RecordedInv
    <2> QED
      BY <1>5, <1>t, <1>u, <2>1, <2>2, <2>3 DEF RecordedInv
  <1>10. Board!End(j)
    <2>1. Running' = Running \ {j} /\ j \in Running
      BY <1>2, <1>5, <1>n DEF Running
    <2> QED
      BY <1>2, <1>5, <1>u, <2>1 DEF Board!End
  <1> QED
    BY <1>2, <1>7, <1>8, <1>9, <1>10 DEF Board!BoardNext, SchedulerIInv

\* A result is recorded: Report, or nothing when the job failed.
LEMMA RecordStep ==
    ASSUME SchedulerIInv, NEW w \in Worker, RecordResult(w)
    PROVE  SchedulerIInv' /\ [Board!BoardNext]_Board!boardVars
  <1>t. /\ queue \in Queue /\ run \in RunState /\ SchedulerShape /\ AssignedInv /\ RecordedInv
        /\ worker = [v \in Worker |-> worker[v]] /\ worker[w] \in Thread(worker[w].cap)
        /\ results \subseteq [job : Job, by : Worker, code : {0, 1}]
    BY DEF SchedulerIInv, SchedulerShape
  <1>j. PICK j : j = worker[w].job
    OBVIOUS
  <1> DEFINE r == [job |-> j, by |-> w, code |-> worker[w].code]
             x == [worker[w] EXCEPT !.at = "top", !.job = Nobody, !.code = 0]
  <1>1. /\ run.at = "pool" /\ worker[w].at = "record" /\ results' = results \cup {r} /\ queue' = queue /\ run' = run
        /\ worker' = [worker EXCEPT ![w] = x]
    BY <1>j, <1>t DEF RecordResult, InPool
  <1>2. x \in Thread(worker[w].cap) /\ x.at = "top" /\ x.job = Nobody
    BY <1>t DEF Thread, Place
  <1>3. j \in Job /\ j \in queue.terminal /\ j \notin Recorded
    BY <1>1, <1>j, <1>t DEF RecordedInv, Queue
  <1>4. r \in [job : Job, by : Worker, code : {0, 1}] /\ r.job = j /\ r.code = worker[w].code
    BY <1>3, <1>t DEF Thread
  <1> HIDE DEF x, r
  <1>5. /\ worker' = [v \in Worker |-> worker'[v]]
        /\ \A v \in Worker : worker'[v] \in Thread(worker'[v].cap)
        /\ worker'[w] = x /\ \A v \in Worker \ {w} : worker'[v] = worker[v]
    BY <1>1, <1>2, <1>t, ThreadChanges
  <1>6. SchedulerShape'
    BY <1>1, <1>4, <1>5, <1>t DEF SchedulerShape
  <1>h. \A v \in Worker : (Holds(v)' <=> Holds(v)) /\ (Holds(v) => worker'[v] = worker[v])
    BY <1>1, <1>2, <1>5 DEF Holds
  <1>7. AssignedInv'
    <2>1. \A k \in Job : queue.assigned[k] # Nobody => queue.assigned[k] \in Worker
      BY <1>t DEF Queue
    <2>2. \A k \in Job : queue'.assigned[k] # Nobody =>
             Holds(queue.assigned[k])' /\ worker'[queue'.assigned[k]].job = k /\ k \notin queue'.terminal
      BY <1>1, <1>h, <1>t, <2>1 DEF AssignedInv, Holds
    <2>3. \A v \in Worker : Holds(v)' => queue'.assigned[worker'[v].job] = v
      BY <1>1, <1>h, <1>t DEF AssignedInv
    <2> QED
      BY <1>1, <1>2, <1>5, <1>t, <2>2, <2>3 DEF AssignedInv
  <1>8. RecordedInv'
    <2>1. Recorded' = Recorded \cup {j} /\ r \notin results
      BY <1>1, <1>3, <1>4 DEF Recorded
    <2>2. IsFiniteSet(results') /\ Cardinality(results') = Cardinality(results) + 1
      BY <1>1, <1>t, <2>1, FS_AddElement DEF RecordedInv
    <2>3. IsFiniteSet(Recorded)
      <3>1. Recorded \subseteq Job
        BY <1>t DEF RecordedInv, Queue
      <3> QED
        BY <3>1, SchedulerAssumption, FS_Subset
    <2>4. Cardinality(Recorded') = Cardinality(Recorded) + 1
      BY <1>3, <2>1, <2>3, FS_AddElement
    <2>5. \A v \in Worker : worker'[v].at = "record" => v # w /\ worker'[v] = worker[v]
      BY <1>2, <1>5
    <2>6. \A v \in Worker : worker'[v].at = "record" => worker[v].job # j
      BY <1>1, <1>j, <1>t, <2>5 DEF RecordedInv
    <2> QED
      BY <1>1, <1>3, <1>t, <2>1, <2>2, <2>4, <2>5, <2>6 DEF RecordedInv
  <1> DEFINE Passed == {s.job : s \in {q \in results : q.code = 0}}
  <1>9. CASE worker[w].code = 0
    <2>1. Passed' = Passed \cup {j} /\ j \notin Passed
      BY <1>1, <1>3, <1>4, <1>9 DEF Recorded
    <2>2. Board!Report(j)
      BY <1>1, <1>3, <2>1 DEF Board!Report, Running
    <2> QED
      BY <1>3, <1>6, <1>7, <1>8, <2>2 DEF Board!BoardNext, SchedulerIInv
  <1>10. CASE worker[w].code # 0
    <2>1. Passed' = Passed
      BY <1>1, <1>4, <1>10
    <2>2. UNCHANGED Board!boardVars
      BY <1>1, <2>1 DEF Board!boardVars, Running
    <2> QED
      BY <1>6, <1>7, <1>8, <2>2 DEF SchedulerIInv
  <1> QED
    BY <1>9, <1>10
---------------------------------------------------------------------------
(* The coordinator                                                         *)

\* Ctrl-C and the phases before the verdict leave the board alone.
LEMMA PhaseSteps ==
    ASSUME SchedulerIInv, StartCapsules \/ PoolEnds \/ CloseCapsules \/ Interrupt
    PROVE  SchedulerIInv' /\ UNCHANGED Board!boardVars
  <1>t. /\ queue \in Queue /\ run \in RunState /\ SchedulerShape /\ AssignedInv
        /\ worker = [v \in Worker |-> worker[v]] /\ (\A v \in Worker : worker[v] \in Thread(worker[v].cap))
        /\ results \subseteq [job : Job, by : Worker, code : {0, 1}]
    BY DEF SchedulerIInv, SchedulerShape
  <1>u. results' = results
    BY DEF StartCapsules, PoolEnds, CloseCapsules, Interrupt
  <1>1. /\ queue' \in Queue /\ queue'.assigned = queue.assigned /\ queue'.terminal = queue.terminal
    BY <1>t DEF StartCapsules, PoolEnds, CloseCapsules, Interrupt, Queue
  <1>2. run' \in RunState /\ run.at \in Open /\ run'.at \in Open
    BY <1>t DEF StartCapsules, PoolEnds, CloseCapsules, Interrupt, RunState, Open
  <1>3. /\ worker' = [v \in Worker |-> worker'[v]]
        /\ \A v \in Worker : /\ worker'[v] \in Thread(worker'[v].cap)
                             /\ worker'[v].job = worker[v].job
                             /\ \/ worker'[v].at = worker[v].at
                                \/ worker[v].at = "waiting" /\ worker'[v].at = "top"
    <2>1. CASE worker' = worker
      BY <1>t, <2>1
    <2>2. CASE worker' = Notified(worker)
      <3>1. worker' = [v \in Worker |-> IF worker[v].at = "waiting" THEN [worker[v] EXCEPT !.at = "top"] ELSE worker[v]]
        BY <2>2 DEF Notified
      <3>2. worker' = [v \in Worker |-> worker'[v]]
        BY <3>1
      <3>3. ASSUME NEW v \in Worker
            PROVE  LET y == [worker[v] EXCEPT !.at = "top"] IN y \in Thread(y.cap) /\ y.job = worker[v].job /\ y.at = "top"
        BY <1>t DEF Thread, Place
      <3> QED
        BY <1>t, <3>1, <3>2, <3>3
    <2> QED
      BY <2>1, <2>2 DEF StartCapsules, PoolEnds, CloseCapsules, Interrupt
  <1>4. SchedulerShape'
    BY <1>1, <1>2, <1>3, <1>t, <1>u DEF SchedulerShape
  <1>5. ASSUME NEW v \in Worker
        PROVE  /\ worker'[v].job = worker[v].job
               /\ Holds(v)' <=> Holds(v)
               /\ worker'[v].at \in Idle => worker[v].job = Nobody
               /\ worker'[v].at \in {"run", "finish", "abort", "record"} => worker[v].job # Nobody
               /\ worker'[v].at = "record" => worker[v].at = "record"
    BY <1>3, <1>t DEF Holds, Idle, AssignedInv
  <1>6. run'.at # "pool" => \A v \in Worker : worker'[v].at \in {"cold", "top", "gone"}
    <2>1. CASE Interrupt
      BY <1>t, <2>1 DEF Interrupt, RunState
    <2>2. CASE StartCapsules \/ CloseCapsules
      BY <1>t, <2>2 DEF StartCapsules, CloseCapsules, AssignedInv
    <2>3. CASE PoolEnds
      BY <2>3 DEF PoolEnds
    <2> QED
      BY <2>1, <2>2, <2>3
  <1> QED
    BY <1>1, <1>2, <1>4, <1>5, <1>6, <1>u, QuietStep

\* The verdict: Publish with a success for every job, or GiveUp.
LEMMA VerdictStep ==
    ASSUME SchedulerIInv, CompleteRun
    PROVE  SchedulerIInv' /\ Board!BoardNext
  <1>t. queue \in Queue /\ run \in RunState /\ AssignedInv /\ RecordedInv
    BY DEF SchedulerIInv, SchedulerShape
  <1>u. run.at = "completing" /\ UNCHANGED <<queue, control, pool, started, worker, results>>
    BY DEF CompleteRun
  <1>1. run' \in RunState /\ run'.at \in {"failed", "published"}
    BY <1>t DEF CompleteRun, RunState
  <1>2. SchedulerIInv'
    <2>1. SchedulerShape'
      BY <1>1, <1>u DEF SchedulerIInv, SchedulerShape
    <2>2. AssignedInv'
      BY <1>t, <1>u DEF AssignedInv, Holds
    <2>3. RecordedInv'
      BY <1>t, <1>u DEF RecordedInv, Recorded
    <2> QED
      BY <2>1, <2>2, <2>3 DEF SchedulerIInv
  <1>s. Running = {} /\ Running' = Running
    <2>1. \A v \in Worker : ~ Holds(v)
      BY <1>t, <1>u DEF AssignedInv, Holds
    <2>2. \A j \in Job : queue.assigned[j] \in Worker \cup {Nobody}
      BY <1>t DEF Queue
    <2> QED
      BY <1>t, <1>u, <2>1, <2>2 DEF AssignedInv, Running
  <1>3. CASE run'.at = "failed"
    <2>1. Board!GiveUp
      BY <1>3, <1>s, <1>u DEF Board!GiveUp
    <2> QED
      BY <1>2, <2>1 DEF Board!BoardNext
  <1>4. CASE run'.at = "published"
    <2>1. Cardinality(results) = Cardinality(Job) /\ \A r \in results : r.code = 0
      BY <1>4, <1>t DEF CompleteRun, IsPartial, RunState
    <2>2. Recorded \subseteq Job /\ Cardinality(Recorded) = Cardinality(Job)
      BY <1>t, <2>1 DEF RecordedInv, Queue
    <2>3. Recorded = Job
      BY <2>2, SchedulerAssumption, FS_Subset
    <2>4. {r.job : r \in {s \in results : s.code = 0}} = Job
      BY <2>1, <2>3 DEF Recorded
    <2>5. Board!Publish
      BY <1>4, <1>s, <1>u, <2>4 DEF Board!Publish
    <2> QED
      BY <1>2, <2>5 DEF Board!BoardNext
  <1> QED
    BY <1>1, <1>3, <1>4

---------------------------------------------------------------------------
(* The theorems                                                            *)

LEMMA InitSchedulerIInv == SchedulerInit => SchedulerIInv /\ Board!BoardInit
  <1> SUFFICES ASSUME SchedulerInit PROVE SchedulerIInv /\ Board!BoardInit
    OBVIOUS
  <1>1. /\ queue = [assigned |-> [j \in Job |-> Nobody], terminal |-> {}, accepting |-> TRUE] /\ results = {}
        /\ run \in RunState /\ run.at = "start"
    BY DEF SchedulerInit, RunState
  <1>2. queue \in Queue /\ queue.terminal = {} /\ \A j \in Job : queue.assigned[j] = Nobody
    BY <1>1 DEF Queue
  <1>3. /\ Resting \in Thread(0) /\ Resting.at = "top" /\ Resting.job = Nobody /\ Resting.cap = 0
        /\ \A at \in {"cold", "gone"} : LET y == [Resting EXCEPT !.at = at]
                                        IN  y \in Thread(0) /\ y.at = at /\ y.job = Nobody /\ y.cap = 0
    BY DEF Resting, Thread, Place
  <1>4. /\ worker = [w \in Worker |-> worker[w]]
        /\ \A w \in Worker : /\ worker[w] \in Thread(worker[w].cap)
                             /\ worker[w].job = Nobody /\ worker[w].at \in {"cold", "top", "gone"}
    <2>1. PICK adaptive \in BOOLEAN :
             worker = [w \in Worker |-> IF adaptive THEN [Resting EXCEPT !.at = "cold"]
                                        ELSE IF w \in Range(Warm) THEN Resting
                                        ELSE [Resting EXCEPT !.at = "gone"]]
      BY DEF SchedulerInit
    <2>2. worker = [w \in Worker |-> worker[w]]
      BY <2>1
    <2>3. \A w \in Worker : worker[w] \in {Resting, [Resting EXCEPT !.at = "cold"], [Resting EXCEPT !.at = "gone"]}
      BY <2>1
    <2> QED
      BY <1>3, <2>2, <2>3
  <1>5. SchedulerShape
    BY <1>1, <1>2, <1>4 DEF SchedulerShape
  <1>6. AssignedInv
    BY <1>2, <1>4 DEF AssignedInv, Holds
  <1>7. RecordedInv
    <2>1. Recorded = {} /\ IsFiniteSet(results) /\ Recorded = results
      BY <1>1, FS_EmptySet DEF Recorded
    <2> QED
      BY <1>4, <2>1 DEF RecordedInv
  <1>8. Board!BoardInit
    <2>1. Running = {}
      BY <1>2 DEF Running
    <2> QED
      BY <1>1, <1>2, <2>1 DEF Board!BoardInit
  <1> QED
    BY <1>5, <1>6, <1>7, <1>8 DEF SchedulerIInv

LEMMA NextSchedulerIInv ==
    SchedulerIInv /\ [SchedulerNext]_schedulerVars => SchedulerIInv' /\ [Board!BoardNext]_Board!boardVars
  <1> SUFFICES ASSUME SchedulerIInv, [SchedulerNext]_schedulerVars
               PROVE  SchedulerIInv' /\ [Board!BoardNext]_Board!boardVars
    OBVIOUS
  <1>1. ASSUME NEW w \in Worker, WorkerStep(w) PROVE SchedulerIInv' /\ [Board!BoardNext]_Board!boardVars
    <2>1. CASE \/ BecomeActive(w) \/ AcquireNone(w) \/ AskCapacity(w) \/ ReserveFails(w) \/ TryWait(w)
               \/ WaitTimesOut(w) \/ ExecuteJob(w) \/ WorkerRaises(w)
      BY <2>1, QuietThreadSteps
    <2>2. CASE TryAssign(w)
      BY <2>2, AssignStep
    <2>3. CASE Complete(w) \/ Abort(w)
      BY <2>3, FinishStep
    <2>4. CASE RecordResult(w)
      BY <2>4, RecordStep
    <2> QED
      BY <1>1, <2>1, <2>2, <2>3, <2>4 DEF WorkerStep
  <1>2. CASE StartCapsules \/ PoolEnds \/ CloseCapsules \/ Interrupt
    BY <1>2, PhaseSteps
  <1>3. CASE CompleteRun
    BY <1>3, VerdictStep
  <1>4. CASE UNCHANGED schedulerVars
    <2>1. SchedulerIInv'
      BY <1>4 DEF schedulerVars, SchedulerIInv, SchedulerShape, AssignedInv, RecordedInv, Recorded, Holds
    <2>2. UNCHANGED Board!boardVars
      BY <1>4 DEF schedulerVars, Board!boardVars, Running
    <2> QED
      BY <2>1, <2>2
  <1> QED
    BY <1>1, <1>2, <1>3, <1>4 DEF SchedulerNext, Coordinate

\* The inductive invariant holds in every run of the scheduler: the queue and
\* the threads agree on who has which job, and the ledger has at most one entry
\* per job, of a job that ended.
THEOREM SchedulerInductive == SchedulerSpec => []SchedulerIInv
  BY InitSchedulerIInv, NextSchedulerIInv, PTL DEF SchedulerSpec

\* The scheduler implements JobBoard: whatever the number of workers and jobs
\* and whatever the controller answers, EligibleJobQueue hands a job out once
\* and never beside one with its lock, and complete_run publishes only a run
\* in which every job reported success.
THEOREM SchedulerImplementsBoard == SchedulerSpec => ImplementsBoard
  <1>1. SchedulerInit => Board!BoardInit
    BY InitSchedulerIInv
  <1>2. SchedulerIInv /\ [SchedulerNext]_schedulerVars => [Board!BoardNext]_Board!boardVars
    BY NextSchedulerIInv
  <1> QED
    BY SchedulerInductive, <1>1, <1>2, PTL DEF SchedulerSpec, ImplementsBoard, Board!BoardSpec
===========================================================================
