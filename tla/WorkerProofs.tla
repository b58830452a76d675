--------------------------- MODULE WorkerProofs ---------------------------
(***************************************************************************)
(* What several worker processes share: the lease of ImportLock serialises *)
(* imports for every set of workers and all time spans that respect        *)
(* TimingAssumption, and a ticket of WsAccess opens one connection for any *)
(* number of tickets, connection attempts and workers.                     *)
(***************************************************************************)
EXTENDS ImportLock, WsAccess, TLAPS

Inserting == [pc : {"insert"}, mode : Mode]
TakingOver == [pc : {"takeover"}, mode : Mode, seen : Stamps]
Active == [pc : {"run", "stopped", "checked", "release"},
           mode : Mode, mine : Stamps, failed : BOOLEAN]
Job == {NoJob} \cup Inserting \cup TakingOver \cup Active

\* An applying import whose heartbeat has not failed and that can still commit.
Intact(w) ==
    /\ job[w].pc \in {"run", "stopped", "checked"}
    /\ job[w].mode = "apply" /\ ~ job[w].failed

\* The age its lease may reach.
Allowance(w) == IF job[w].pc = "run" THEN Interval ELSE Deadline

\* What holds of a worker's import.  The last conjunct is the heart of the
\* argument: an intact import has the lease, and its lease is not stale.
JobInv(w) ==
    /\ job[w].pc = "takeover" => Stale(job[w].seen)
    /\ Running(w) => job[w].mine.by = w
    /\ job[w].pc \in {"stopped", "checked"} => job[w].mode = "apply"
    /\ job[w].pc = "checked" => ~ job[w].failed
    /\ Intact(w) => /\ lease = job[w].mine
                    /\ w \notin overtaken
                    /\ now - job[w].mine.at =< Allowance(w)

\* The inductive invariant.
IInv == TypeOK /\ \A w \in Worker : JobInv(w)

---------------------------------------------------------------------------
\* TypeOK with its sets named.
LEMMA TypeNamed ==
    TypeOK <=> /\ now \in 0 .. MaxTime
               /\ lease \in Stamps \cup {NoLease}
               /\ job \in [Worker -> Job]
               /\ overtaken \subseteq Worker
  BY DEF TypeOK, Job, Inserting, TakingOver, Active

\* The pc of a job tells which record it is.
LEMMA JobShapes ==
    ASSUME TypeOK, NEW w \in Worker
    PROVE  /\ job[w] \in Job
           /\ NoJob.pc = "idle"
           /\ job[w].pc = "insert" => job[w] \in Inserting
           /\ job[w].pc = "takeover" => job[w] \in TakingOver
           /\ Running(w) => job[w] \in Active
           /\ job[w].pc \in {"run", "stopped", "checked", "release"} => Running(w)
  <1>1. job[w] \in Job
    BY TypeNamed
  <1>2. NoJob.pc = "idle"
    BY DEF NoJob
  <1> QED
    BY <1>1, <1>2 DEF Job, Inserting, TakingOver, Active, Running

\* Stamps are not the missing row, and a worker's stamp is one.
LEMMA StampFacts ==
    ASSUME TypeOK, NEW w \in Worker
    PROVE  /\ Stamp(w) \in Stamps /\ Stamp(w).at = now /\ Stamp(w).by = w
           /\ \A s \in Stamps : s # NoLease /\ s.at \in Int /\ s.by \in Worker
           /\ now \in Int
  <1>1. now \in 0 .. MaxTime
    BY TypeNamed
  <1>2. \A s \in Stamps : s.at >= 0 /\ s.at \in Int /\ s.by \in Worker
    BY TimingAssumption DEF Stamps
  <1>3. NoLease.at = -1
    BY DEF NoLease
  <1>4. \A s \in Stamps : s # NoLease
    BY <1>2, <1>3
  <1>5. Stamp(w) \in Stamps /\ Stamp(w).at = now /\ Stamp(w).by = w
    BY <1>1 DEF Stamp, Stamps
  <1> QED
    BY <1>1, <1>2, <1>4, <1>5

\* An intact import's lease is not stale.
LEMMA IntactIsFresh ==
    ASSUME IInv, NEW w \in Worker, Intact(w)
    PROVE  ~ Stale(lease) /\ lease = job[w].mine /\ lease.by = w /\ lease \in Stamps
  <1>1. job[w] \in Active /\ Running(w)
    BY JobShapes DEF IInv, Intact
  <1>2. lease = job[w].mine /\ lease.by = w /\ now - lease.at =< Allowance(w)
    BY <1>1 DEF IInv, JobInv
  <1>3. lease \in Stamps
    BY <1>1, <1>2 DEF Active
  <1>4. lease.at \in Int /\ now \in Int
    BY <1>3, StampFacts DEF IInv
  <1>5. Allowance(w) =< Timeout /\ Allowance(w) \in Int
    BY TimingAssumption DEF Allowance
  <1> QED
    BY <1>2, <1>3, <1>4, <1>5, TimingAssumption DEF Stale

\* The initial state satisfies the inductive invariant.
LEMMA InitIInv == Init => IInv
  <1> SUFFICES ASSUME Init PROVE IInv
    OBVIOUS
  <1>1. TypeOK
    BY TimingAssumption, TypeNamed DEF Init, Job
  <1>2. ASSUME NEW w \in Worker PROVE JobInv(w)
    BY DEF Init, NoJob, JobInv, Running, Intact
  <1> QED
    BY <1>1, <1>2 DEF IInv

\* A step of worker w leaves the other imports alone when it changes the lease
\* only if the lease is missing, stale or w's own, and marks as overtaken
\* nobody who is intact.
LEMMA OthersKeep ==
    ASSUME IInv, NEW w \in Worker, NEW v \in Worker, v # w,
           job' = [job EXCEPT ![w] = job'[w]], now' = now,
           lease' # lease => lease = NoLease \/ Stale(lease) \/ lease.by = w,
           Intact(v) => v \notin overtaken'
    PROVE  JobInv(v)'
  <1>1. job'[v] = job[v] /\ JobInv(v)
    BY TypeNamed DEF IInv
  <1>2. Intact(v) => lease' = lease
    BY IntactIsFresh, StampFacts DEF IInv
  <1> QED
    BY <1>1, <1>2 DEF JobInv, Running, Intact, Allowance, Stale

\* Every step preserves the inductive invariant.
LEMMA NextIInv == IInv /\ [Next]_vars => IInv'
  <1> SUFFICES ASSUME IInv, [Next]_vars PROVE IInv'
    OBVIOUS
  <1> USE DEF IInv
  <1>t. /\ now \in 0 .. MaxTime /\ lease \in Stamps \cup {NoLease}
        /\ job \in [Worker -> Job] /\ overtaken \subseteq Worker
    BY TypeNamed
  <1>o. ASSUME NEW w \in Worker, now' = now, job' = [job EXCEPT ![w] = job'[w]],
               job'[w] \in Job, lease' \in Stamps \cup {NoLease}, overtaken' \subseteq Worker,
               lease' # lease => lease = NoLease \/ Stale(lease) \/ lease.by = w,
               \A v \in Worker \ {w} : Intact(v) => v \notin overtaken',
               JobInv(w)'
        PROVE  IInv'
    <2>1. job' \in [Worker -> Job]
      BY <1>t, <1>o
    <2>2. TypeOK'
      BY <1>t, <1>o, <2>1 DEF TypeOK, Job, Inserting, TakingOver, Active
    <2>3. ASSUME NEW v \in Worker PROVE JobInv(v)'
      BY <1>o, <2>3, OthersKeep
    <2> QED
      BY <2>2, <2>3
  <1>n. ASSUME NEW w \in Worker PROVE \A v \in Worker : Intact(v) => v \notin overtaken
    BY DEF JobInv
  <1>idle. ASSUME NEW w \in Worker, job' = [job EXCEPT ![w] = NoJob]
           PROVE  job' = [job EXCEPT ![w] = job'[w]] /\ job'[w] \in Job /\ JobInv(w)'
    BY <1>t, <1>idle DEF JobInv, NoJob, Running, Intact, Job
  <1>1. ASSUME NEW w \in Worker, NEW m \in Mode, LookUp(w, m) PROVE IInv'
    <2>1. CASE job' = [job EXCEPT ![w] = [pc |-> "insert", mode |-> m]]
      <3>1. job'[w] = [pc |-> "insert", mode |-> m]
        BY <2>1, <1>t
      <3>2. job'[w] \in Job
        BY <3>1 DEF Job, Inserting
      <3>3. JobInv(w)'
        BY <3>1 DEF JobInv, Running, Intact
      <3> QED
        BY <1>1, <1>n, <1>o, <1>t, <2>1, <3>1, <3>2, <3>3 DEF LookUp
    <2>2. CASE /\ lease # NoLease /\ Stale(lease)
               /\ job' = [job EXCEPT ![w] = [pc |-> "takeover", mode |-> m, seen |-> lease]]
      <3>1. job'[w] = [pc |-> "takeover", mode |-> m, seen |-> lease] /\ lease \in Stamps
        BY <2>2, <1>t
      <3>2. job'[w] \in Job
        BY <3>1 DEF Job, TakingOver
      <3>3. JobInv(w)'
        BY <1>1, <2>2, <3>1 DEF JobInv, Running, Intact, LookUp, Stale
      <3> QED
        BY <1>1, <1>n, <1>o, <1>t, <2>2, <3>1, <3>2, <3>3 DEF LookUp
    <2> QED
      BY <1>1, <2>1, <2>2 DEF LookUp, Goto
  <1>2. ASSUME NEW w \in Worker, TakeOver(w) PROVE IInv'
    <2>1. job[w] \in TakingOver /\ Stale(job[w].seen)
      BY <1>2, JobShapes DEF TakeOver, JobInv
    <2>2. CASE lease = job[w].seen
      <3>1. /\ job' = [job EXCEPT ![w] = [pc |-> "insert", mode |-> job[w].mode]]
            /\ lease' = NoLease /\ UNCHANGED <<now, overtaken>>
        BY <1>2, <2>2 DEF TakeOver, Goto
      <3>2. job'[w] = [pc |-> "insert", mode |-> job[w].mode] /\ job[w].mode \in Mode
        BY <3>1, <2>1, <1>t DEF TakingOver
      <3>3. job'[w] \in Job
        BY <3>2 DEF Job, Inserting
      <3>4. JobInv(w)'
        BY <3>2 DEF JobInv, Running, Intact
      <3> QED
        BY <1>n, <1>o, <1>t, <2>1, <2>2, <3>1, <3>2, <3>3, <3>4
    <2>3. CASE lease # job[w].seen
      BY <1>2, <1>idle, <1>n, <1>o, <1>t, <2>3 DEF TakeOver, Goto
    <2> QED
      BY <2>2, <2>3
  <1>3. ASSUME NEW w \in Worker, Insert(w) PROVE IInv'
    <2>1. job[w] \in Inserting
      BY <1>3, JobShapes DEF Insert
    <2>2. CASE lease = NoLease
      <3> DEFINE j == [pc |-> "run", mode |-> job[w].mode, mine |-> Stamp(w), failed |-> FALSE]
      <3>1. /\ job' = [job EXCEPT ![w] = j] /\ lease' = Stamp(w) /\ now' = now
            /\ overtaken' = {v \in Worker : Running(v)} \ {w}
        BY <1>3, <2>2 DEF Insert, Goto
      <3>2. job'[w] = j /\ job[w].mode \in Mode
        BY <3>1, <2>1, <1>t DEF Inserting
      <3>3. job'[w] \in Job /\ lease' \in Stamps
        <4>1. Stamp(w) \in Stamps
          BY StampFacts
        <4>2. j \in Active
          BY <3>2, <4>1 DEF Active
        <4> QED
          BY <3>1, <3>2, <4>1, <4>2 DEF Job
      <3>4. JobInv(w)'
        <4>1. now' - job'[w].mine.at =< Allowance(w)'
          BY <3>1, <3>2, StampFacts, TimingAssumption DEF Allowance
        <4> QED
          BY <3>1, <3>2, <4>1, StampFacts DEF JobInv, Running, Intact
      <3>5. ASSUME NEW v \in Worker PROVE ~ Intact(v)
        BY <2>2, <3>5, IntactIsFresh, StampFacts
      <3>6. overtaken' \subseteq Worker /\ \A v \in Worker \ {w} : Intact(v) => v \notin overtaken'
        BY <3>1, <3>5
      <3>7. job' = [job EXCEPT ![w] = job'[w]]
        BY <3>1, <3>2
      <3> HIDE DEF j
      <3> QED
        BY <1>o, <2>2, <3>1, <3>3, <3>4, <3>6, <3>7
    <2>3. CASE lease # NoLease
      BY <1>3, <1>idle, <1>n, <1>o, <1>t, <2>3 DEF Insert, Goto
    <2> QED
      BY <2>2, <2>3
  <1>4. ASSUME NEW w \in Worker, Renew(w) \/ RenewError(w) PROVE IInv'
    <2>1. job[w] \in Active /\ Beating(w) /\ UNCHANGED <<now, overtaken>>
      BY <1>4, JobShapes DEF Renew, RenewError, Beating
    <2>2. Intact(w) /\ JobInv(w) /\ Running(w)
      BY <2>1, JobShapes DEF Beating, Intact
    <2>3. lease = job[w].mine /\ lease.by = w /\ w \notin overtaken
      BY <2>2 DEF JobInv
    <2>4. CASE Renew(w)
      <3>1. job' = [job EXCEPT ![w] = [job[w] EXCEPT !.mine = Stamp(w)]] /\ lease' = Stamp(w)
        BY <2>3, <2>4 DEF Renew, Goto
      <3>2. job'[w] = [job[w] EXCEPT !.mine = Stamp(w)]
        BY <3>1, <1>t
      <3>3. job'[w] \in Active /\ lease' \in Stamps
        BY <2>1, <3>1, <3>2, StampFacts DEF Active
      <3>4. job'[w].pc = job[w].pc /\ job'[w].mine = Stamp(w) /\ job[w].pc = "run"
        BY <2>1, <3>2 DEF Active, Beating
      <3>5. now' - job'[w].mine.at =< Allowance(w)'
        BY <2>1, <3>4, StampFacts, TimingAssumption DEF Allowance
      <3>6. JobInv(w)'
        BY <2>1, <2>3, <3>1, <3>4, <3>5, StampFacts DEF JobInv, Running, Intact
      <3> QED
        BY <1>n, <1>o, <1>t, <2>1, <2>3, <3>1, <3>2, <3>3, <3>6 DEF Job
    <2>5. CASE RenewError(w)
      <3>1. job' = [job EXCEPT ![w] = [job[w] EXCEPT !.failed = TRUE]] /\ lease' \in {lease, Stamp(w)}
        BY <2>5 DEF RenewError, Goto
      <3>2. job'[w] = [job[w] EXCEPT !.failed = TRUE]
        BY <3>1, <1>t
      <3>3. job'[w] \in Active /\ lease' \in Stamps \cup {NoLease}
        BY <1>t, <2>1, <3>1, <3>2, StampFacts DEF Active
      <3>4. /\ job'[w].pc = "run" /\ job'[w].mine = job[w].mine /\ job'[w].failed
        BY <2>1, <3>2 DEF Active, Beating
      <3>5. JobInv(w)'
        BY <2>2, <3>4 DEF JobInv, Running, Intact
      <3> QED
        BY <1>n, <1>o, <1>t, <2>1, <2>3, <3>1, <3>2, <3>3, <3>5 DEF Job
    <2> QED
      BY <1>4, <2>4, <2>5
  <1>5. ASSUME NEW w \in Worker, Finish(w) \/ Fail(w) \/ Check(w) \/ Commit(w) PROVE IInv'
    <2>1. /\ UNCHANGED <<now, lease, overtaken>>
          /\ \E pc \in {"stopped", "checked", "release"} : job' = [job EXCEPT ![w] = [job[w] EXCEPT !.pc = pc]]
      BY <1>5 DEF Finish, Fail, Check, Commit, Goto
    <2>2. PICK pc \in {"stopped", "checked", "release"} : job' = [job EXCEPT ![w] = [job[w] EXCEPT !.pc = pc]]
      BY <2>1
    <2>3. job[w] \in Active /\ Running(w) /\ JobInv(w)
      BY <1>5, JobShapes DEF Finish, Fail, Check, Commit
    <2>4. job'[w] = [job[w] EXCEPT !.pc = pc]
      BY <2>2, <1>t
    <2>5. /\ job'[w] \in Active /\ job'[w].pc = pc /\ job'[w].mine = job[w].mine
          /\ job'[w].mode = job[w].mode /\ job'[w].failed = job[w].failed
      BY <2>3, <2>4 DEF Active
    <2>6. /\ pc = "stopped" => job[w].pc = "run" /\ job[w].mode = "apply"
          /\ pc = "checked" => /\ job[w].pc = "stopped" /\ ~ job[w].failed
      <3>1. CASE Finish(w)
        BY <2>3, <2>5, <3>1, <1>t DEF Finish, Goto, Active
      <3>2. CASE Fail(w)
        BY <2>3, <2>5, <3>2, <1>t DEF Fail, Goto, Active
      <3>3. CASE Check(w)
        BY <2>3, <2>5, <3>3, <1>t DEF Check, Goto, Active
      <3>4. CASE Commit(w)
        BY <2>3, <2>5, <3>4, <1>t DEF Commit, Goto, Active
      <3> QED
        BY <1>5, <3>1, <3>2, <3>3, <3>4
    <2>7. Intact(w)' => Intact(w)
      BY <2>3, <2>5, <2>6 DEF Intact
    <2>8. job[w].mine.at \in Int /\ now \in Int
      BY <2>3, StampFacts DEF Active
    <2>9. Intact(w)' => /\ lease' = job'[w].mine /\ w \notin overtaken'
                        /\ now' - job'[w].mine.at =< Allowance(w)'
      <3>1. Intact(w)' => Allowance(w) =< Allowance(w)'
        BY <2>5, <2>6, <2>3, TimingAssumption DEF Intact, Allowance
      <3>2. Allowance(w) \in Int /\ Allowance(w)' \in Int
        BY TimingAssumption DEF Allowance
      <3> QED
        BY <2>1, <2>3, <2>5, <2>7, <2>8, <3>1, <3>2 DEF JobInv
    <2>10. JobInv(w)'
      BY <2>3, <2>5, <2>6, <2>9 DEF JobInv, Running
    <2> QED
      BY <1>n, <1>o, <1>t, <2>1, <2>2, <2>4, <2>5, <2>10 DEF Job
  <1>6. ASSUME NEW w \in Worker, Release(w) PROVE IInv'
    <2>1. Running(w) /\ JobInv(w)
      BY <1>6 DEF Release, Running
    <2>2. lease' # lease => lease.by = w
      BY <1>6, <2>1 DEF Release, JobInv
    <2> QED
      BY <1>6, <1>idle, <1>n, <1>o, <1>t, <2>2 DEF Release, Goto
  <1>7. ASSUME NEW w \in Worker, Crash(w) PROVE IInv'
    BY <1>7, <1>idle, <1>n, <1>o, <1>t DEF Crash, Goto
  <1>8. CASE Tick
    <2>1. UNCHANGED <<lease, job, overtaken>> /\ now' = now + 1 /\ now < MaxTime
      BY <1>8 DEF Tick
    <2>2. TypeOK'
      <3>1. now' \in 0 .. MaxTime
        BY <1>t, <2>1, TimingAssumption
      <3> QED
        BY <1>t, <2>1, <3>1 DEF TypeOK, Job, Inserting, TakingOver, Active
    <2>3. ASSUME NEW w \in Worker PROVE JobInv(w)'
      <3>1. JobInv(w)
        OBVIOUS
      <3>2. job[w].pc = "takeover" => Stale(job[w].seen)'
        <4>1. job[w].pc = "takeover" => job[w].seen.at \in Int
          BY JobShapes, StampFacts DEF TakingOver
        <4> QED
          BY <1>t, <2>1, <3>1, <4>1, TimingAssumption DEF JobInv, Stale
      <3>3. Intact(w) => now' - job[w].mine.at =< Allowance(w)
        <4> SUFFICES ASSUME Intact(w) PROVE now' - job[w].mine.at =< Allowance(w)
          OBVIOUS
        <4>1. job[w].mine.at \in Int /\ now \in Int
          BY JobShapes, StampFacts DEF Active, Intact
        <4>2. now - job[w].mine.at < Allowance(w)
          BY <1>8 DEF Tick, Beating, Intact, Allowance
        <4>3. Allowance(w) \in Int
          BY TimingAssumption DEF Allowance
        <4> QED
          BY <2>1, <4>1, <4>2, <4>3
      <3> QED
        BY <2>1, <3>1, <3>2, <3>3 DEF JobInv, Running, Intact, Allowance
    <2> QED
      BY <2>2, <2>3
  <1>9. CASE UNCHANGED vars
    <2>1. TypeOK'
      BY <1>9 DEF TypeOK, vars
    <2>2. ASSUME NEW w \in Worker PROVE JobInv(w)'
      BY <1>9 DEF vars, JobInv, Running, Intact, Allowance, Stale
    <2> QED
      BY <2>1, <2>2
  <1>10. ASSUME NEW w \in Worker, Refuse(w) PROVE IInv'
    BY <1>9, <1>10 DEF Refuse
  <1> QED
    BY <1>1, <1>2, <1>3, <1>4, <1>5, <1>6, <1>7, <1>8, <1>9, <1>10 DEF Next, Progress

\* The inductive invariant holds in every reachable state.
THEOREM Invariance == Spec => []IInv
  BY InitIInv, NextIInv, PTL DEF Spec

---------------------------------------------------------------------------
\* Every reachable state is of the right type.
THEOREM TypeCorrect == Spec => []TypeOK
  <1>1. IInv => TypeOK
    BY DEF IInv
  <1> QED
    BY <1>1, Invariance, PTL

\* Imports that commit are serial (imports.py:181-206), however many workers
\* contend and whatever fails, provided heartbeats and commits are timely.
THEOREM SerialCommits == Spec => []CommitsAreSerial
  <1>1. IInv => CommitsAreSerial
    BY DEF IInv, JobInv, Intact, CommitsAreSerial
  <1> QED
    BY <1>1, Invariance, PTL

\* Nobody but its holder changes a lease that is not stale: the comparisons of
\* acquired_at in _acquire_import_lock, _renew_import_lock_lease and
\* _release_import_lock suffice.
THEOREM FreshLeases == Spec => FreshLeaseIsSafe
  <1>1. ASSUME IInv, [Next]_vars, NEW w \in Worker,
               lease # NoLease, lease.by = w, ~ Stale(lease), lease' # lease
        PROVE  job'[w] # job[w]
    <2>1. PICK v \in Worker : TakeOver(v) \/ Insert(v) \/ Renew(v) \/ RenewError(v) \/ Release(v)
      BY <1>1 DEF Next, Progress, LookUp, Refuse, Finish, Fail, Check, Commit, Crash, Tick, vars
    <2>2. JobInv(v) /\ TypeOK /\ job \in [Worker -> Job]
      BY <1>1, TypeNamed DEF IInv
    <2>3. ~ TakeOver(v) /\ ~ Insert(v)
      BY <1>1, <2>2 DEF TakeOver, Insert, JobInv
    <2>4. CASE Release(v)
      <3>1. lease = job[v].mine /\ Running(v)
        BY <1>1, <2>4 DEF Release, Running
      <3>2. v = w
        BY <1>1, <2>2, <3>1 DEF JobInv
      <3> QED
        BY <2>2, <2>4, <3>2, JobShapes DEF Release, Goto
    <2>5. CASE Renew(v)
      <3>1. lease = job[v].mine /\ Running(v) /\ job[v] \in Active
        BY <1>1, <2>2, <2>5, JobShapes DEF Renew, Beating
      <3>2. v = w /\ job'[v].mine = Stamp(v) /\ lease' = Stamp(v)
        BY <1>1, <2>2, <2>5, <3>1 DEF JobInv, Renew, Goto, Active
      <3> QED
        BY <1>1, <3>1, <3>2
    <2>6. CASE RenewError(v)
      <3>1. lease = job[v].mine /\ Running(v) /\ job[v] \in Active /\ ~ job[v].failed
        BY <1>1, <2>2, <2>6, JobShapes DEF RenewError, Beating
      <3>2. v = w /\ job'[v].failed
        BY <1>1, <2>2, <2>6, <3>1 DEF JobInv, RenewError, Goto, Active
      <3> QED
        BY <3>1, <3>2
    <2> QED
      BY <2>1, <2>3, <2>4, <2>5, <2>6
  <1>2. IInv /\ [Next]_vars =>
          [\A w \in Worker :
             (lease # NoLease /\ lease.by = w /\ ~ Stale(lease) /\ lease' # lease)
                => job'[w] # job[w]]_vars
    BY <1>1
  <1> QED
    BY <1>2, Invariance, PTL DEF Spec, FreshLeaseIsSafe

---------------------------------------------------------------------------
(* WsAccess.                                                               *)

Issued == [user : User, exp : Nat]
Handling == [pc : {"ticket", "user", "checked", "open", "closed"}, alive : BOOLEAN,
             ticket : Ticket, worker : Server, seen : Nat]
Counts == Nat \X BOOLEAN

\* The sockets whose handler has begun.
Begun == {s \in Socket : sock[s] \in Handling}

\* The type invariant of WsAccess: only sockets with a handler are registered
\* with a hub or about to be closed by it.
WsTypeOK ==
    /\ second \in Nat
    /\ member \subseteq User
    /\ ticket \in [Ticket -> Issued \cup {NoTicket}]
    /\ used \subseteq Ticket
    /\ sock \in [Socket -> Handling \cup {New}]
    /\ hub \subseteq Begun
    /\ evict \subseteq Server \X User
    /\ kick \subseteq Begun
    /\ opened \in [Ticket -> Counts]

\* A ticket that opened a connection has a row, or has expired.
TicketInv(t) ==
    opened[t][1] > 0 => ticket[t] # NoTicket /\ (t \in used \/ ticket[t].exp <= second)

\* A handler that is about to use its ticket has read a clock at which the
\* ticket had not expired.
SocketInv(s) ==
    sock[s].pc = "ticket" =>
        /\ ticket[sock[s].ticket] # NoTicket
        /\ sock[s].seen < ticket[sock[s].ticket].exp
        /\ sock[s].seen <= second

\* The inductive invariant.
WsIInv ==
    /\ WsTypeOK
    /\ \A t \in Ticket : TicketInv(t)
    /\ \A s \in Socket : SocketInv(s)
    /\ TicketOpensOnce

\* A ticket that is issued has a user and an expiry, and a handler a ticket.
LEMMA WsShapes ==
    /\ \A x \in Issued \cup {NoTicket} : x # NoTicket => x \in Issued /\ x.exp \in Nat
    /\ \A x \in Issued : x # NoTicket
    /\ \A x \in Handling \cup {New} : x.pc # "new" => x \in Handling
    /\ New.pc = "new"
    /\ \A x \in Handling : x.ticket \in Ticket /\ x.seen \in Nat
    /\ \A x \in Counts : x[1] \in Nat /\ x[2] \in BOOLEAN
  <1>1. \A x \in Issued : x.exp \in Nat
    BY DEF Issued
  <1>2. NoTicket.exp = -1
    BY DEF NoTicket
  <1> QED
    BY <1>1, <1>2 DEF New, Handling, Counts

\* The initial state satisfies the inductive invariant.
LEMMA InitWsIInv == WsInit => WsIInv
  <1> SUFFICES ASSUME WsInit PROVE WsIInv
    OBVIOUS
  <1>1. opened \in [Ticket -> Counts] /\ \A t \in Ticket : opened[t] = <<0, FALSE>>
    BY DEF WsInit, Counts
  <1>2. WsTypeOK
    BY <1>1 DEF WsInit, WsTypeOK
  <1>0. \A t \in Ticket : opened[t][1] = 0
    <2>1. <<0, FALSE>>[1] = 0
      OBVIOUS
    <2> QED
      BY <1>1, <2>1
  <1>3. ASSUME NEW t \in Ticket PROVE TicketInv(t)
    <2>1. ~ (opened[t][1] > 0)
      BY <1>0
    <2> QED
      BY <2>1 DEF TicketInv
  <1>4. ASSUME NEW s \in Socket PROVE SocketInv(s)
    BY WsShapes DEF WsInit, SocketInv
  <1>5. TicketOpensOnce
    BY <1>0 DEF TicketOpensOnce
  <1> QED
    BY <1>2, <1>3, <1>4, <1>5 DEF WsIInv

\* A step on one socket that uses no ticket.
LEMMA SocketStep ==
    ASSUME WsIInv, NEW s \in Socket, NEW x \in Handling, sock' = [sock EXCEPT ![s] = x],
           UNCHANGED <<second, ticket, used, opened>>,
           WsTypeOK',
           x.pc = "ticket" => /\ ticket[x.ticket] # NoTicket
                              /\ x.seen < ticket[x.ticket].exp
                              /\ x.seen <= second
    PROVE  WsIInv'
  <1>1. sock'[s] = x /\ \A z \in Socket \ {s} : sock'[z] = sock[z]
    BY DEF WsIInv, WsTypeOK
  <1>u. second' = second /\ ticket' = ticket /\ used' = used /\ opened' = opened
    OBVIOUS
  <1>2. ASSUME NEW t \in Ticket PROVE TicketInv(t)'
    <2>1. TicketInv(t)
      BY DEF WsIInv
    <2> QED
      BY <1>u, <2>1 DEF TicketInv
  <1>3. ASSUME NEW z \in Socket PROVE SocketInv(z)'
    <2>1. CASE z = s
      BY <1>1, <1>u, <2>1 DEF SocketInv
    <2>2. CASE z # s
      <3>1. SocketInv(z) /\ sock'[z] = sock[z]
        BY <1>1, <2>2 DEF WsIInv
      <3> QED
        BY <1>u, <3>1 DEF SocketInv
    <2> QED
      BY <2>1, <2>2
  <1>4. TicketOpensOnce'
    BY DEF WsIInv, TicketOpensOnce
  <1> QED
    BY <1>2, <1>3, <1>4 DEF WsIInv

\* Every step preserves the inductive invariant.
LEMMA NextWsIInv == WsIInv /\ [WsNext]_wsVars => WsIInv'
  <1> SUFFICES ASSUME WsIInv, [WsNext]_wsVars PROVE WsIInv'
    OBVIOUS
  <1>t. /\ second \in Nat /\ member \subseteq User
        /\ ticket \in [Ticket -> Issued \cup {NoTicket}] /\ used \subseteq Ticket
        /\ sock \in [Socket -> Handling \cup {New}]
        /\ hub \subseteq Begun /\ evict \subseteq Server \X User /\ kick \subseteq Begun
        /\ opened \in [Ticket -> Counts]
        /\ \A t \in Ticket : TicketInv(t)
        /\ \A s \in Socket : SocketInv(s)
    BY DEF WsIInv, WsTypeOK
  <1>b. \A s \in Begun : s \in Socket /\ sock[s] \in Handling
    BY DEF Begun
  \* Steps that touch neither tickets nor sockets.
  <1>o. ASSUME UNCHANGED <<second, ticket, used, sock, opened>>, member' \subseteq User,
               hub' \subseteq Begun, evict' \subseteq Server \X User, kick' \subseteq Begun
        PROVE  WsIInv'
    <2>1. Begun' = Begun
      BY <1>o DEF Begun
    <2>2. WsTypeOK'
      BY <1>o, <1>t, <2>1 DEF WsTypeOK
    <2> QED
      BY <1>o, <1>t, <2>2 DEF WsIInv, TicketInv, SocketInv, TicketOpensOnce
  \* Steps of the handler of s, to pc p.
  <1>s. ASSUME NEW s \in Begun, NEW x \in Handling, sock' = [sock EXCEPT ![s] = x],
               UNCHANGED <<second, member, ticket, used, evict, opened>>,
               hub' \subseteq Begun, kick' \subseteq Begun,
               x.pc = "ticket" => x.pc = sock[s].pc /\ x.ticket = sock[s].ticket /\ x.seen = sock[s].seen
        PROVE  WsIInv'
    <2>1. Begun \subseteq Begun'
      BY <1>s, <1>t DEF Begun
    <2>2. WsTypeOK'
      BY <1>s, <1>t, <1>b, <2>1 DEF WsTypeOK
    <2>3. x.pc = "ticket" => /\ ticket[x.ticket] # NoTicket
                             /\ x.seen < ticket[x.ticket].exp
                             /\ x.seen <= second
      BY <1>s, <1>t, <1>b DEF SocketInv
    <2> QED
      BY <1>s, <1>b, <2>2, <2>3, SocketStep
  <1>1. ASSUME NEW t \in Ticket, NEW u \in User, IssueTicket(t, u) PROVE WsIInv'
    <2> DEFINE n == [user |-> u, exp |-> second + Ttl]
    <2>1. /\ ticket' = [ticket EXCEPT ![t] = n] /\ ticket[t] = NoTicket
          /\ UNCHANGED <<second, member, used, sock, hub, evict, kick, opened>>
      BY <1>1 DEF IssueTicket
    <2>2. n \in Issued /\ n # NoTicket
      <3>1. second + Ttl \in Nat
        BY <1>t, WsAssumption
      <3>2. n \in Issued
        BY <3>1 DEF Issued
      <3> QED
        BY <3>2, WsShapes
    <2> HIDE DEF n
    <2>3. ticket'[t] = n /\ \A z \in Ticket \ {t} : ticket'[z] = ticket[z]
      BY <1>t, <2>1
    <2>4. WsTypeOK'
      BY <1>t, <2>1, <2>2 DEF WsTypeOK, Begun
    <2>5. ASSUME NEW z \in Ticket PROVE TicketInv(z)'
      BY <1>t, <2>1, <2>3 DEF TicketInv
    <2>6. ASSUME NEW s \in Socket PROVE SocketInv(s)'
      <3>1. sock[s].pc = "ticket" => sock[s].ticket \in Ticket \ {t}
        BY <1>t, <2>1, WsShapes DEF SocketInv
      <3> QED
        BY <1>t, <2>1, <2>3, <3>1 DEF SocketInv
    <2> QED
      BY <2>1, <2>4, <2>5, <2>6 DEF WsIInv, TicketOpensOnce
  <1>2. ASSUME NEW s \in Socket, NEW t \in Ticket, NEW w \in Server, ReadClock(s, t, w) PROVE WsIInv'
    <2> DEFINE x == [pc |-> "ticket", alive |-> TRUE, ticket |-> t, worker |-> w, seen |-> second]
    <2>1. /\ sock' = [sock EXCEPT ![s] = x] /\ ticket[t] # NoTicket /\ second < ticket[t].exp
          /\ UNCHANGED <<second, member, ticket, used, hub, evict, kick, opened>>
      BY <1>2 DEF ReadClock
    <2>2. x \in Handling /\ x.ticket = t /\ x.seen = second
      BY <1>t DEF Handling
    <2> HIDE DEF x
    <2>3. Begun \subseteq Begun'
      BY <1>t, <2>1, <2>2 DEF Begun
    <2>4. WsTypeOK'
      BY <1>t, <2>1, <2>2, <2>3 DEF WsTypeOK
    <2>5. x.seen <= second
      BY <1>t, <2>2
    <2> QED
      BY <2>1, <2>2, <2>4, <2>5, SocketStep
  <1>3. ASSUME NEW s \in Socket, UseTicket(s) PROVE WsIInv'
    <2> DEFINE t == sock[s].ticket
               kept == {z \in used : ticket[z].exp > sock[s].seen}
    <2>1. /\ sock[s] \in Handling /\ s \in Begun /\ t \in Ticket /\ sock[s].pc = "ticket"
          /\ sock[s].seen \in Nat /\ ticket[t] # NoTicket /\ ticket[t].exp \in Nat
          /\ sock[s].seen < ticket[t].exp /\ sock[s].seen <= second
      BY <1>3, <1>t, WsShapes DEF UseTicket, SocketInv, Begun
    <2>2. CASE t \in kept
      <3> DEFINE x == [sock[s] EXCEPT !.pc = "closed", !.alive = FALSE]
      <3>1. /\ sock' = [sock EXCEPT ![s] = x]
            /\ UNCHANGED <<second, member, ticket, used, hub, evict, kick, opened>>
        BY <1>3, <1>t, <2>2 DEF UseTicket
      <3>2. x \in Handling /\ x.pc = "closed"
        BY <2>1 DEF Handling
      <3> HIDE DEF x
      <3> QED
        BY <1>s, <1>t, <2>1, <3>1, <3>2
    <2>3. CASE t \notin kept
      <3> DEFINE x == [sock[s] EXCEPT !.pc = "user"]
                 late == sock[s].seen < ticket[t].exp /\ second >= ticket[t].exp
                 n == <<opened[t][1] + 1, opened[t][2] \/ late>>
      <3>1. /\ sock' = [sock EXCEPT ![s] = x] /\ used' = kept \cup {t}
            /\ opened' = [opened EXCEPT ![t] = n]
            /\ UNCHANGED <<second, member, ticket, hub, evict, kick>>
        BY <1>3, <1>t, <2>3 DEF UseTicket
      <3>2. x \in Handling /\ x.pc = "user"
        BY <2>1 DEF Handling
      <3>3. t \notin used
        BY <2>1, <2>3
      <3>4. kept \subseteq used /\ \A z \in used \ kept : ticket[z].exp <= sock[s].seen \/ ticket[z] = NoTicket
        <4>1. \A z \in used : ticket[z] # NoTicket => ticket[z].exp \in Nat
          BY <1>t, WsShapes
        <4> QED
          BY <2>1, <4>1
      <3>5. opened[t][1] \in Nat /\ opened[t][2] \in BOOLEAN
        BY <1>t, <2>1, WsShapes
      <3>6. n \in Counts /\ n[1] = opened[t][1] + 1 /\ (opened[t][2] \/ late => n[2])
        <4>1. opened[t][1] + 1 \in Nat /\ (opened[t][2] \/ late) \in BOOLEAN
          BY <3>5
        <4> HIDE DEF late
        <4>2. n \in Counts /\ n[1] = opened[t][1] + 1
          BY <4>1 DEF Counts
        <4>3. n[2] = (opened[t][2] \/ late)
          OBVIOUS
        <4> QED
          BY <4>2, <4>3
      <3>7. opened[t][1] = 0 \/ late
        BY <1>t, <2>1, <3>3, <3>5 DEF TicketInv
      <3> HIDE DEF x, t, kept, n, late
      <3>8. Begun \subseteq Begun'
        BY <1>t, <3>1, <3>2 DEF Begun
      <3>9. WsTypeOK'
        BY <1>t, <2>1, <3>1, <3>2, <3>4, <3>6, <3>8 DEF WsTypeOK
      <3>10. opened'[t] = n /\ \A z \in Ticket \ {t} : opened'[z] = opened[z]
        BY <1>t, <2>1, <3>1
      <3>11. ASSUME NEW z \in Ticket PROVE TicketInv(z)'
        <4>1. CASE z = t
          BY <2>1, <3>1, <4>1 DEF TicketInv
        <4>2. CASE z # t
          <5>1. TicketInv(z) /\ opened'[z] = opened[z] /\ ticket' = ticket /\ second' = second
            BY <1>t, <3>1, <3>10, <4>2
          <5>2. ticket[z] # NoTicket => ticket[z].exp \in Nat
            BY <1>t, WsShapes
          <5>3. ticket[z] # NoTicket /\ z \in used => z \in used' \/ ticket[z].exp <= second
            BY <1>t, <2>1, <3>1, <3>4, <5>2
          <5> QED
            BY <5>1, <5>3 DEF TicketInv
        <4> QED
          BY <4>1, <4>2
      <3>12. ASSUME NEW z \in Socket PROVE SocketInv(z)'
        <4>1. sock'[z] = IF z = s THEN x ELSE sock[z]
          BY <1>t, <3>1
        <4> QED
          BY <1>t, <3>1, <3>2, <4>1 DEF SocketInv
      <3>13. TicketOpensOnce'
        <4> SUFFICES ASSUME NEW z \in Ticket PROVE opened'[z][2] \/ opened'[z][1] =< 1
          BY DEF TicketOpensOnce
        <4>1. CASE z = t
          BY <3>5, <3>6, <3>7, <3>10, <4>1
        <4>2. CASE z # t
          BY <3>10, <4>2 DEF WsIInv, TicketOpensOnce
        <4> QED
          BY <4>1, <4>2
      <3> QED
        BY <3>9, <3>11, <3>12, <3>13 DEF WsIInv
    <2> QED
      BY <2>2, <2>3
  <1>4. ASSUME NEW s \in Socket,
               \/ CheckMember(s) \/ Connect(s) \/ Recheck(s) \/ Drop(s) \/ HandlerEnds(s)
        PROVE  WsIInv'
    <2>1. sock[s] \in Handling /\ s \in Begun
      BY <1>4, <1>t, WsShapes DEF CheckMember, Connect, Recheck, Drop, HandlerEnds, Begun
    <2>2. PICK p \in {sock[s].pc, "checked", "open", "closed"}, b \in {sock[s].alive, FALSE} :
            sock' = [sock EXCEPT ![s] = [sock[s] EXCEPT !.pc = p, !.alive = b]]
      <3> DEFINE X(p, b) == [sock[s] EXCEPT !.pc = p, !.alive = b]
      <3>1. ASSUME NEW y PROVE [sock EXCEPT ![s].pc = y] = [sock EXCEPT ![s] = X(y, sock[s].alive)]
        <4>1. [sock[s] EXCEPT !.pc = y] = X(y, sock[s].alive)
          BY <2>1 DEF Handling
        <4> QED
          BY <4>1
      <3>2. ASSUME NEW y PROVE [sock EXCEPT ![s].pc = y, ![s].alive = FALSE] = [sock EXCEPT ![s] = X(y, FALSE)]
        BY <1>t, <2>1
      <3>3. [sock EXCEPT ![s].alive = FALSE] = [sock EXCEPT ![s] = X(sock[s].pc, FALSE)]
        <4>1. [sock[s] EXCEPT !.alive = FALSE] = X(sock[s].pc, FALSE)
          BY <2>1 DEF Handling
        <4> QED
          BY <4>1
      <3>4. CASE CheckMember(s)
        BY <3>1, <3>2, <3>4 DEF CheckMember
      <3>5. CASE Connect(s)
        BY <3>1, <3>5 DEF Connect
      <3>6. CASE Recheck(s)
        BY <3>2, <3>6 DEF Recheck
      <3>7. CASE Drop(s)
        BY <3>3, <3>7 DEF Drop
      <3>8. CASE HandlerEnds(s)
        BY <3>1, <3>8 DEF HandlerEnds
      <3> QED
        BY <1>4, <3>4, <3>5, <3>6, <3>7, <3>8
    <2> DEFINE x == [sock[s] EXCEPT !.pc = p, !.alive = b]
    <2>3. /\ x \in Handling /\ x.pc = p /\ x.ticket = sock[s].ticket /\ x.seen = sock[s].seen
          /\ x.pc = "ticket" => p = sock[s].pc
      BY <2>1, <2>2 DEF Handling
    <2>4. sock' = [sock EXCEPT ![s] = x]
      BY <2>2
    <2> HIDE DEF x
    <2>5. UNCHANGED <<second, member, ticket, used, evict, kick, opened>> /\ hub' \subseteq Begun
      BY <1>4, <1>t, <2>1 DEF CheckMember, Connect, Recheck, Drop, HandlerEnds
    <2> QED
      BY <1>s, <1>t, <2>1, <2>3, <2>4, <2>5
  <1>5. ASSUME NEW s \in Socket, SendFails(s) PROVE WsIInv'
    BY <1>5, <1>o, <1>t DEF SendFails
  <1>6. ASSUME NEW s \in Socket, CloseSocket(s) PROVE WsIInv'
    <2> DEFINE x == [sock[s] EXCEPT !.alive = FALSE]
    <2>1. /\ s \in Begun /\ sock[s] \in Handling /\ sock' = [sock EXCEPT ![s] = x]
          /\ UNCHANGED <<second, member, ticket, used, evict, opened>>
          /\ hub' \subseteq Begun /\ kick' \subseteq Begun
      BY <1>6, <1>t, <1>b DEF CloseSocket
    <2>2. x \in Handling /\ x.pc = sock[s].pc /\ x.ticket = sock[s].ticket /\ x.seen = sock[s].seen
      BY <2>1 DEF Handling
    <2> HIDE DEF x
    <2> QED
      BY <1>s, <2>1, <2>2
  <1>7. ASSUME NEW u \in User, NEW w \in Server, RemoveMember(u, w) PROVE WsIInv'
    BY <1>7, <1>o, <1>t DEF RemoveMember
  <1>8. ASSUME NEW u \in User, NEW w \in Server, FindSockets(w, u) PROVE WsIInv'
    BY <1>8, <1>o, <1>t DEF FindSockets
  <1>9. ASSUME NEW u \in User, Rejoin(u) PROVE WsIInv'
    BY <1>9, <1>o, <1>t DEF Rejoin
  <1>10. CASE SecondPasses
    <2>1. second' \in Nat /\ second < second' /\ UNCHANGED <<member, ticket, used, sock, hub, evict, kick, opened>>
      BY <1>10, <1>t DEF SecondPasses
    <2>2. WsTypeOK'
      BY <1>t, <2>1 DEF WsTypeOK, Begun
    <2>3. ASSUME NEW t \in Ticket PROVE TicketInv(t)'
      <3>1. ticket[t] # NoTicket => ticket[t].exp \in Nat
        BY <1>t, WsShapes
      <3> QED
        BY <1>t, <2>1, <3>1 DEF TicketInv
    <2>4. ASSUME NEW s \in Socket PROVE SocketInv(s)'
      <3>1. sock[s].pc = "ticket" => sock[s].seen \in Nat
        BY <1>t, WsShapes
      <3> QED
        BY <1>t, <2>1, <3>1 DEF SocketInv
    <2> QED
      BY <2>1, <2>2, <2>3, <2>4 DEF WsIInv, TicketOpensOnce
  <1>11. CASE UNCHANGED wsVars
    BY <1>11, <1>o, <1>t DEF wsVars
  <1> QED
    BY <1>1, <1>2, <1>3, <1>4, <1>5, <1>6, <1>7, <1>8, <1>9, <1>10, <1>11 DEF WsNext

\* The inductive invariant holds in every reachable state.
THEOREM WsInductive == WsSpec => []WsIInv
  BY InitWsIInv, NextWsIInv, PTL DEF WsSpec

\* Type correctness of tickets, handlers and hubs: a hub registers and closes
\* only connections whose handler has begun.
THEOREM WsTypeCorrect == WsSpec => []WsTypeOK
  <1>1. WsIInv => WsTypeOK
    BY DEF WsIInv
  <1> QED
    BY <1>1, WsInductive, PTL

\* A ticket opens one connection, whichever workers it is presented to and
\* although rows of used tickets are deleted, unless it expires between the
\* two parts of _validate_ws_ticket.
THEOREM TicketsOpenOnce == WsSpec => []TicketOpensOnce
  <1>1. WsIInv => TicketOpensOnce
    BY DEF WsIInv
  <1> QED
    BY <1>1, WsInductive, PTL
===========================================================================
