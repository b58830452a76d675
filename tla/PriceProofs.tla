---------------------------- MODULE PriceProofs ----------------------------
(***************************************************************************)
(* Prices: a refresh lease has one runner, for any number of workers and   *)
(* of requests; a live quote is fresh and a portfolio item is of one       *)
(* version, for any number of refreshes, symbols, readers and holdings.    *)
(***************************************************************************)
EXTENDS PriceRefresh, Portfolio, FiniteSetTheorems, TLAPS

Task == [phase : {"run", "lost"}, lease : Lease]
Prepared == [worker : Worker, lease : Lease, force : BOOLEAN]

\* The type invariant of PriceRefresh.
RefreshTypeOK ==
    /\ row \in [in_progress : BOOLEAN, queued : BOOLEAN, lease : Lease, age : {"fresh", "old", "stale"}]
    /\ task \in [Worker -> Task \cup {NoTask}]
    /\ req \in [Request -> Prepared \cup {NoReq}]
    /\ crashes \in Nat

\* The inductive invariant.
RefreshIInv == RefreshTypeOK /\ SingleRunner /\ (row.queued => row.in_progress)

\* The image of a finite set under a function has no more elements than the set.
LEMMA ImageCardinality ==
    ASSUME NEW S, IsFiniteSet(S), NEW f, f \in [S -> {f[x] : x \in S}]
    PROVE  /\ IsFiniteSet({f[x] : x \in S})
           /\ Cardinality({f[x] : x \in S}) <= Cardinality(S)
  <1>1. f \in Surjection(S, {f[x] : x \in S})
    BY DEF Surjection
  <1> QED
    BY <1>1, FS_Surjection

\* There are more leases than can be in use, so a new one is unused.
LEMMA NewLeaseUnused ==
    ASSUME RefreshTypeOK
    PROVE  NewLease \in Lease /\ Unused(NewLease)
  <1> DEFINE f == [w \in Worker |-> task[w].lease]
             g == [r \in Request |-> req[r].lease]
             F == {f[w] : w \in Worker}
             G == {g[r] : r \in Request}
             Used == (F \cup G) \cup {row.lease}
  <1>1. IsFiniteSet(F) /\ Cardinality(F) <= Cardinality(Worker)
    BY ImageCardinality, ConfigAssumption
  <1>2. IsFiniteSet(G) /\ Cardinality(G) <= Cardinality(Request)
    BY ImageCardinality, ConfigAssumption
  <1>3. /\ \A w \in Worker : task[w].lease \in F
        /\ \A r \in Request : req[r].lease \in G
    OBVIOUS
  <1> HIDE DEF F, G
  <1>4. /\ Cardinality(Worker) \in Nat /\ Cardinality(Request) \in Nat /\ Cardinality(Lease) \in Nat
        /\ Cardinality(F) \in Nat /\ Cardinality(G) \in Nat
    BY <1>1, <1>2, ConfigAssumption, FS_CardinalityType
  <1>5. /\ IsFiniteSet(F \cup G) /\ Cardinality(F \cup G) \in Nat
        /\ Cardinality(F \cup G) <= Cardinality(F) + Cardinality(G)
    <2>1. IsFiniteSet(F \cup G) /\ IsFiniteSet(F \cap G)
          /\ Cardinality(F \cup G) = Cardinality(F) + Cardinality(G) - Cardinality(F \cap G)
      BY <1>1, <1>2, FS_Union, FS_Subset
    <2>2. Cardinality(F \cap G) \in Nat /\ Cardinality(F \cup G) \in Nat
      BY <2>1, FS_CardinalityType
    <2> QED
      BY <1>4, <2>1, <2>2
  <1>6. IsFiniteSet(Used) /\ Cardinality(Used) <= Cardinality(F \cup G) + 1 /\ Cardinality(Used) \in Nat
    <2>1. /\ IsFiniteSet(Used)
          /\ Cardinality(Used) = IF row.lease \in F \cup G THEN Cardinality(F \cup G)
                                                           ELSE Cardinality(F \cup G) + 1
      BY <1>5, FS_AddElement
    <2> QED
      BY <1>5, <2>1
  <1>7. Cardinality(Used) < Cardinality(Lease)
    BY <1>1, <1>2, <1>4, <1>5, <1>6, ConfigAssumption
  <1>8. ~ (Lease \subseteq Used)
    <2> SUFFICES ASSUME Lease \subseteq Used PROVE FALSE
      OBVIOUS
    <2>1. Cardinality(Lease) <= Cardinality(Used)
      BY <1>6, FS_Subset
    <2> QED
      BY <1>4, <1>6, <1>7, <2>1
  <1>9. PICK l \in Lease : l \notin Used
    BY <1>8
  <1>10. Unused(l)
    BY <1>3, <1>9 DEF Unused
  <1> QED
    BY <1>10 DEF NewLease

\* The initial state satisfies the inductive invariant.
LEMMA InitRefreshIInv == Init => RefreshIInv
  <1> SUFFICES ASSUME Init PROVE RefreshIInv
    OBVIOUS
  <1>1. Lease # {}
    <2>1. Cardinality(Worker) \in Nat /\ Cardinality(Request) \in Nat /\ Cardinality(Lease) \in Nat
      BY ConfigAssumption, FS_CardinalityType
    <2> QED
      BY <2>1, ConfigAssumption, FS_EmptySet
  <1>2. RefreshTypeOK
    BY <1>1 DEF Init, RefreshTypeOK
  <1>3. SingleRunner /\ (row.queued => row.in_progress)
    BY DEF Init, SingleRunner, Runs, NoTask
  <1> QED
    BY <1>2, <1>3 DEF RefreshIInv

\* A task that runs is not the missing one.
LEMMA RunnerFacts ==
    ASSUME RefreshTypeOK, NEW w \in Worker
    PROVE  /\ Runs(w) => task[w] \in Task /\ task[w] # NoTask
           /\ ~ (NoTask.phase = "run")
  BY DEF RefreshTypeOK, Runs, NoTask, Task

\* Every step preserves the inductive invariant.
LEMMA NextRefreshIInv == RefreshIInv /\ [Next]_vars => RefreshIInv'
  <1> SUFFICES ASSUME RefreshIInv, [Next]_vars PROVE RefreshIInv'
    OBVIOUS
  <1> USE DEF RefreshIInv
  <1>t. /\ row \in [in_progress : BOOLEAN, queued : BOOLEAN, lease : Lease, age : {"fresh", "old", "stale"}]
        /\ task \in [Worker -> Task \cup {NoTask}]
        /\ req \in [Request -> Prepared \cup {NoReq}]
        /\ crashes \in Nat
    BY DEF RefreshTypeOK
  <1>l. /\ NewLease \in Lease /\ Unused(NewLease)
        /\ Leased(NewLease) \in [in_progress : BOOLEAN, queued : BOOLEAN, lease : Lease,
                                 age : {"fresh", "old", "stale"}]
        /\ Leased(NewLease).in_progress /\ ~ Leased(NewLease).queued
    BY NewLeaseUnused DEF Leased
  \* A step on the row alone.
  <1>r. ASSUME UNCHANGED <<task, req, crashes>>, RefreshTypeOK', row'.queued => row'.in_progress
        PROVE  RefreshIInv'
    BY <1>r DEF SingleRunner, Runs
  \* A step that ends tasks or requests, and leaves the others alone.
  <1>e. ASSUME RefreshTypeOK', row'.queued => row'.in_progress,
               \A w \in Worker : task'[w].phase = "run" => task'[w] = task[w],
               \A r \in Request : req'[r] \in {req[r], NoReq}
        PROVE  RefreshIInv'
    BY <1>e DEF SingleRunner, Runs
  <1>1. ASSUME NEW w \in Worker, QueueRefresh(w) PROVE RefreshIInv'
    <2>1. row' \in [in_progress : BOOLEAN, queued : BOOLEAN, lease : Lease, age : {"fresh", "old", "stale"}]
          /\ row'.in_progress
      BY <1>1, <1>t DEF QueueRefresh, Alive
    <2> QED
      BY <1>1, <1>r, <1>t, <2>1 DEF QueueRefresh, RefreshTypeOK
  <1>2. ASSUME NEW w \in Worker, Progress(w) PROVE RefreshIInv'
    <2>1. row' \in [in_progress : BOOLEAN, queued : BOOLEAN, lease : Lease, age : {"fresh", "old", "stale"}]
          /\ row'.in_progress
      BY <1>2, <1>t DEF Progress, UpdateProgress, LeaseMatches
    <2> QED
      BY <1>2, <1>r, <1>t, <2>1 DEF Progress, RefreshTypeOK
  <1>3. ASSUME NEW w \in Worker, LoseLease(w) PROVE RefreshIInv'
    <2>1. task' = [task EXCEPT ![w].phase = "lost"] /\ UNCHANGED <<row, req, crashes>> /\ task[w] \in Task
      BY <1>3, RunnerFacts DEF LoseLease
    <2>2. task'[w] \in Task /\ task'[w].phase = "lost" /\ \A v \in Worker \ {w} : task'[v] = task[v]
      BY <1>t, <2>1 DEF Task
    <2>3. RefreshTypeOK'
      BY <1>t, <2>1, <2>2 DEF RefreshTypeOK
    <2> QED
      BY <1>e, <2>1, <2>2, <2>3
  <1>4. ASSUME NEW w \in Worker, LostTaskEnds(w) \/ DiesWithQuote(w) PROVE RefreshIInv'
    <2>1. task' = [task EXCEPT ![w] = NoTask] /\ UNCHANGED <<row, req>> /\ crashes' \in Nat
      BY <1>4, <1>t DEF LostTaskEnds, DiesWithQuote
    <2>2. RefreshTypeOK'
      BY <1>t, <2>1 DEF RefreshTypeOK
    <2>3. \A v \in Worker : task'[v].phase = "run" => task'[v] = task[v]
      BY <1>t, <2>1, RunnerFacts
    <2> QED
      BY <1>e, <2>1, <2>2, <2>3
  <1>5. ASSUME NEW w \in Worker, Finish(w) PROVE RefreshIInv'
    <2>1. CASE task' = [task EXCEPT ![w] = NoTask]
      <3>1. /\ row' \in [in_progress : BOOLEAN, queued : BOOLEAN, lease : Lease, age : {"fresh", "old", "stale"}]
            /\ row'.queued => row'.in_progress
            /\ UNCHANGED <<req, crashes>>
        BY <1>5, <1>l, <1>t DEF Finish
      <3>2. RefreshTypeOK'
        BY <1>t, <2>1, <3>1 DEF RefreshTypeOK
      <3>3. \A v \in Worker : task'[v].phase = "run" => task'[v] = task[v]
        BY <1>t, <2>1, RunnerFacts
      <3> QED
        BY <1>e, <3>1, <3>2, <3>3
    <2>2. CASE /\ row' = Leased(NewLease)
               /\ task' = [task EXCEPT ![w] = [phase |-> "run", lease |-> NewLease]]
      <3>1. /\ task'[w] = [phase |-> "run", lease |-> NewLease]
            /\ \A v \in Worker \ {w} : task'[v] = task[v]
            /\ UNCHANGED <<req, crashes>>
        BY <1>5, <1>t, <2>2 DEF Finish
      <3>2. RefreshTypeOK'
        BY <1>l, <1>t, <2>2, <3>1 DEF RefreshTypeOK, Task
      <3>3. SingleRunner'
        BY <1>l, <3>1, RunnerFacts DEF SingleRunner, Runs, Unused
      <3> QED
        BY <1>l, <2>2, <3>2, <3>3
    <2> QED
      BY <1>5, <2>1, <2>2 DEF Finish
  <1>6. ASSUME NEW w \in Worker, Crash(w) PROVE RefreshIInv'
    <2>1. /\ task' = [task EXCEPT ![w] = NoTask] /\ row' = row /\ crashes' \in Nat
          /\ req' \in [Request -> Prepared \cup {NoReq}]
          /\ \A r \in Request : req'[r] \in {req[r], NoReq}
      BY <1>6, <1>t DEF Crash
    <2>2. RefreshTypeOK'
      BY <1>t, <2>1 DEF RefreshTypeOK
    <2>3. \A v \in Worker : task'[v].phase = "run" => task'[v] = task[v]
      BY <1>t, <2>1, RunnerFacts
    <2> QED
      BY <1>e, <2>1, <2>2, <2>3
  <1>7. ASSUME NEW r \in Request, NEW w \in Worker, TakeLease(r, w) PROVE RefreshIInv'
    <2> DEFINE p == [worker |-> w, lease |-> NewLease, force |-> Stale /\ TaskRunning(w)]
    <2>1. /\ row' = Leased(NewLease) /\ UNCHANGED <<task, crashes>>
          /\ req' = [req EXCEPT ![r] = p]
      BY <1>7 DEF TakeLease
    <2>2. p \in Prepared /\ p.lease = NewLease
      BY <1>l DEF Prepared
    <2> HIDE DEF p
    <2>3. req'[r] = p /\ \A s \in Request \ {r} : req'[s] = req[s]
      BY <1>t, <2>1
    <2>4. RefreshTypeOK'
      BY <1>l, <1>t, <2>1, <2>2 DEF RefreshTypeOK
    <2>5. SingleRunner'
      BY <1>l, <2>1, <2>2, <2>3, RunnerFacts DEF SingleRunner, Runs, Unused
    <2> QED
      BY <1>l, <2>1, <2>4, <2>5
  <1>8. ASSUME NEW r \in Request, EnsureTask(r) PROVE RefreshIInv'
    <2> DEFINE w == req[r].worker
    <2>1. req[r] \in Prepared /\ w \in Worker /\ req[r].lease \in Lease /\ req[r] # NoReq
      BY <1>8, <1>t DEF EnsureTask, Prepared
    <2>2. /\ req' = [req EXCEPT ![r] = NoReq] /\ UNCHANGED <<row, crashes>>
          /\ \A s \in Request : req'[s] \in {req[s], NoReq}
          /\ \A s \in Request : req'[s] # NoReq => s # r /\ req'[s] = req[s]
      BY <1>8, <1>t DEF EnsureTask
    <2>3. CASE task' = task
      <3>1. RefreshTypeOK'
        BY <1>t, <2>2, <2>3 DEF RefreshTypeOK
      <3> QED
        BY <1>e, <2>2, <2>3, <3>1
    <2>4. CASE task' = [task EXCEPT ![w] = [phase |-> "run", lease |-> req[r].lease]]
      <3>1. /\ task'[w] = [phase |-> "run", lease |-> req[r].lease]
            /\ \A v \in Worker \ {w} : task'[v] = task[v]
        BY <1>t, <2>1, <2>4
      <3>2. task' \in [Worker -> Task \cup {NoTask}]
        <4>1. [phase |-> "run", lease |-> req[r].lease] \in Task
          BY <2>1 DEF Task
        <4> QED
          BY <1>t, <2>4, <4>1
      <3>3. RefreshTypeOK'
        BY <1>t, <2>2, <3>2 DEF RefreshTypeOK
      <3>4. SingleRunner'
        BY <2>1, <2>2, <3>1 DEF SingleRunner, Runs
      <3> QED
        BY <2>2, <3>3, <3>4
    <2> QED
      BY <1>8, <2>3, <2>4 DEF EnsureTask
  <1>9. CASE Ageing
    <2>1. row' \in [in_progress : BOOLEAN, queued : BOOLEAN, lease : Lease, age : {"fresh", "old", "stale"}]
          /\ row'.in_progress
      BY <1>9, <1>t DEF Ageing
    <2> QED
      BY <1>9, <1>r, <1>t, <2>1 DEF Ageing, RefreshTypeOK
  <1>10. CASE UNCHANGED vars
    BY <1>10, <1>r, <1>t DEF vars, RefreshTypeOK
  <1> QED
    BY <1>1, <1>2, <1>3, <1>4, <1>5, <1>6, <1>7, <1>8, <1>9, <1>10 DEF Next, Serve

\* The inductive invariant holds in every reachable state.
THEOREM RefreshInductive == Spec => []RefreshIInv
  BY InitRefreshIInv, NextRefreshIInv, PTL DEF Spec

\* Type correctness: the row, the tasks and the prepared requests are well formed.
THEOREM RefreshTypeCorrect == Spec => []RefreshTypeOK
  <1>1. RefreshIInv => RefreshTypeOK
    BY DEF RefreshIInv
  <1> QED
    BY <1>1, RefreshInductive, PTL

\* At most one task of all workers holds a lease of the household's refresh,
\* through crashes, forced restarts and take-overs of refreshes taken for dead.
THEOREM OneRunnerPerLease == Spec => []SingleRunner
  <1>1. RefreshIInv => SingleRunner
    BY DEF RefreshIInv
  <1> QED
    BY <1>1, RefreshInductive, PTL

\* A refresh that was queued is followed by one under a new lease.
THEOREM QueuedRefreshIsAnswered == Spec => QueuedIsAnswered
  <1> DEFINE Answered == /\ row.queued => row.in_progress
                         /\ (row.queued /\ ~ row'.queued) => row'.in_progress /\ row'.lease # row.lease
  <1>1. RefreshIInv /\ [Next]_vars => [Answered]_vars
    <2> SUFFICES ASSUME RefreshIInv, Next, row.queued, ~ row'.queued
                 PROVE  row'.in_progress /\ row'.lease # row.lease
      BY DEF RefreshIInv
    <2>1. /\ row \in [in_progress : BOOLEAN, queued : BOOLEAN, lease : Lease, age : {"fresh", "old", "stale"}]
          /\ row.lease # NewLease
      BY NewLeaseUnused DEF RefreshIInv, RefreshTypeOK, Unused
    <2>2. row' # row
      OBVIOUS
    <2>3. ASSUME NEW w \in Worker, Finish(w) PROVE row' = Leased(NewLease)
      BY <2>1, <2>2, <2>3 DEF Finish
    <2>4. ASSUME NEW r \in Request, NEW w \in Worker, TakeLease(r, w) PROVE row' = Leased(NewLease)
      BY <2>4 DEF TakeLease
    <2>5. ASSUME NEW w \in Worker, QueueRefresh(w) \/ Progress(w) PROVE FALSE
      BY <2>1, <2>2, <2>5 DEF QueueRefresh, Progress, UpdateProgress
    <2>6. ASSUME NEW w \in Worker, LoseLease(w) \/ LostTaskEnds(w) \/ Crash(w) \/ DiesWithQuote(w) PROVE FALSE
      BY <2>2, <2>6 DEF LoseLease, LostTaskEnds, Crash, DiesWithQuote
    <2>7. ASSUME NEW r \in Request, EnsureTask(r) PROVE FALSE
      BY <2>2, <2>7 DEF EnsureTask
    <2>8. ~ Ageing
      BY <2>1, <2>2 DEF Ageing
    <2>9. row' = Leased(NewLease)
      BY <2>3, <2>4, <2>5, <2>6, <2>7, <2>8 DEF Next, Serve
    <2> QED
      BY <2>1, <2>9 DEF Leased
  <1> QED
    BY <1>1, RefreshInductive, PTL DEF Spec, QueuedIsAnswered

-----------------------------------------------------------------------------
(* Quotes.                                                                 *)

Price == Nat \cup {NoPrice}
Row == {NoRow} \cup [price : Nat, at : Nat]
NetState == {"none", "queued", "owner", "waiter", "aborting", "cancelled", "done", "taken"}
Run == [phase : {"idle", "gather", "cancel", "ended"}, began : Nat, cached : [Key -> Row]]

\* The type invariant of Quotes.
QuotesTypeOK ==
    /\ now \in Nat
    /\ snap \in [Key -> Row]
    /\ flight \in [Key -> {"none", "pending", "cancelled"}]
    /\ net \in [Refresh -> [Key -> NetState]]
    /\ live \in [Refresh -> [Key -> Price]]
    /\ run \in [Refresh -> Run]

\* A refresh has network tasks and prices only once it has begun, and every
\* price it was given was answered since then.
QuoteInv(r, k) ==
    /\ run[r].began <= now
    /\ run[r].phase = "idle" => net[r][k] = "none" /\ live[r][k] = NoPrice
    /\ live[r][k] # NoPrice => run[r].began <= live[r][k] /\ live[r][k] <= now

\* The inductive invariant.
QuotesIInv ==
    /\ QuotesTypeOK
    /\ \A r \in Refresh, k \in Key : QuoteInv(r, k)
    /\ \A k \in Key : snap[k].price <= snap[k].at

\* A missing row is older than every price.
LEMMA RowFacts ==
    /\ NoRow.price = -1 /\ NoRow.at = -1 /\ NoRow \in Row
    /\ \A x \in Row : x.price \in Int /\ x.at \in Int
    /\ \A x \in Row : x # NoRow => x.price \in Nat /\ x.at \in Nat
    /\ \A p, t \in Nat : [price |-> p, at |-> t] \in Row
    /\ NoPrice = -1
  BY DEF NoRow, NoPrice, Row

\* The providers give the present price, or none.
LEMMA LiveQuotesArePresent ==
    ASSUME NEW k \in Key, NEW p \in LiveQuotes(k)
    PROVE  p = NoPrice \/ p = now
  BY DEF LiveQuotes, Coingecko, Naver, Yahoo, Stooq, Answers, FetchStock, FetchStooq

\* The initial state satisfies the inductive invariant.
LEMMA InitQuotesIInv == QuotesInit => QuotesIInv
  <1> SUFFICES ASSUME QuotesInit PROVE QuotesIInv
    OBVIOUS
  <1>1. Idle \in Run /\ Idle.phase = "idle" /\ Idle.began = 0
    BY RowFacts DEF Idle, Run
  <1>2. [price |-> 0, at |-> 0] \in Row
    BY RowFacts
  <1>3. QuotesTypeOK
    BY <1>1, <1>2, RowFacts DEF QuotesInit, QuotesTypeOK, Price, NetState
  <1>4. ASSUME NEW r \in Refresh, NEW k \in Key PROVE QuoteInv(r, k)
    BY <1>1 DEF QuotesInit, QuoteInv
  <1>5. \A k \in Key : snap[k].price <= snap[k].at
    BY RowFacts DEF QuotesInit
  <1> QED
    BY <1>3, <1>4, <1>5 DEF QuotesIInv

\* A step that gives network tasks another state, and no price.
LEMMA TasksMove ==
    ASSUME QuotesIInv, UNCHANGED <<now, snap, live>>,
           flight' \in [Key -> {"none", "pending", "cancelled"}],
           net' \in [Refresh -> [Key -> NetState]],
           run' \in [Refresh -> Run],
           \A r \in Refresh : run'[r].began = run[r].began /\ (run'[r].phase = "idle" => run[r].phase = "idle"),
           \A r \in Refresh, k \in Key : net[r][k] = "none" => net'[r][k] = "none"
    PROVE  QuotesIInv'
  <1>1. QuotesTypeOK'
    BY DEF QuotesIInv, QuotesTypeOK
  <1>2. ASSUME NEW r \in Refresh, NEW k \in Key PROVE QuoteInv(r, k)'
    BY DEF QuotesIInv, QuoteInv
  <1> QED
    BY <1>1, <1>2 DEF QuotesIInv

\* Every step preserves the inductive invariant.
LEMMA NextQuotesIInv == QuotesIInv /\ [QuotesNext]_quoteVars => QuotesIInv'
  <1> SUFFICES ASSUME QuotesIInv, [QuotesNext]_quoteVars PROVE QuotesIInv'
    OBVIOUS
  <1>t. /\ QuotesTypeOK /\ now \in Nat /\ snap \in [Key -> Row]
        /\ flight \in [Key -> {"none", "pending", "cancelled"}]
        /\ net \in [Refresh -> [Key -> NetState]] /\ live \in [Refresh -> [Key -> Price]]
        /\ run \in [Refresh -> Run]
        /\ \A r \in Refresh, k \in Key : QuoteInv(r, k)
        /\ \A k \in Key : snap[k].price <= snap[k].at
    BY DEF QuotesIInv, QuotesTypeOK
  <1>1. ASSUME NEW r \in Refresh, Begin(r) PROVE QuotesIInv'
    <2> DEFINE b == [phase |-> "gather", began |-> now, cached |-> SnapshotMap(r)]
               n == [k \in Key |-> IF k \in Wants[r] /\ ~ Fresh(snap[k], now) THEN "queued" ELSE "none"]
    <2>1. /\ run' = [run EXCEPT ![r] = b] /\ net' = [net EXCEPT ![r] = n]
          /\ UNCHANGED <<now, snap, flight, live>> /\ run[r].phase = "idle"
      BY <1>1 DEF Begin
    <2>2. b \in Run /\ b.phase = "gather" /\ b.began = now
      <3>1. SnapshotMap(r) \in [Key -> Row]
        BY <1>t, RowFacts DEF SnapshotMap
      <3> QED
        BY <1>t, <3>1 DEF Run
    <2>3. n \in [Key -> NetState]
      BY DEF NetState
    <2> HIDE DEF b, n
    <2>4. QuotesTypeOK'
      BY <1>t, <2>1, <2>2, <2>3 DEF QuotesTypeOK
    <2>5. ASSUME NEW s \in Refresh, NEW k \in Key PROVE QuoteInv(s, k)'
      <3>1. CASE s = r
        BY <1>t, <2>1, <2>2, <3>1 DEF QuoteInv
      <3>2. CASE s # r
        BY <1>t, <2>1, <3>2 DEF QuoteInv
      <3> QED
        BY <3>1, <3>2
    <2> QED
      BY <1>t, <2>1, <2>4, <2>5 DEF QuotesIInv
  <1>2. ASSUME NEW r \in Refresh, CancelTasks(r), run[r].phase = "gather" PROVE QuotesIInv'
    <2>1. flight' \in [Key -> {"none", "pending", "cancelled"}]
      BY <1>2, <1>t DEF CancelTasks
    <2>2. /\ net' \in [Refresh -> [Key -> NetState]]
          /\ \A s \in Refresh, k \in Key : net[s][k] = "none" => net'[s][k] = "none"
      BY <1>2, <1>t DEF CancelTasks, NetState
    <2>3. /\ run' \in [Refresh -> Run]
          /\ \A s \in Refresh : run'[s].began = run[s].began /\ (run'[s].phase = "idle" => run[s].phase = "idle")
      BY <1>2, <1>t DEF CancelTasks, Run
    <2> QED
      BY <1>2, <2>1, <2>2, <2>3, TasksMove DEF CancelTasks
  <1>e. ASSUME NEW r \in Refresh, End(r), now' = now, flight' = flight, snap' \in [Key -> Row],
               \A k \in Key : snap'[k].price <= snap'[k].at
        PROVE  QuotesIInv'
    <2> DEFINE b == [Idle EXCEPT !.phase = "ended"]
    <2>1. b \in Run /\ b.phase = "ended" /\ b.began = 0
      BY RowFacts DEF Idle, Run
    <2>2. run' = [run EXCEPT ![r] = b]
      BY <1>e DEF End
    <2> HIDE DEF b
    <2>3. /\ net' = [net EXCEPT ![r] = [k \in Key |-> "none"]]
          /\ live' = [live EXCEPT ![r] = [k \in Key |-> NoPrice]]
      BY <1>e DEF End
    <2>4. [k \in Key |-> "none"] \in [Key -> NetState] /\ [k \in Key |-> NoPrice] \in [Key -> Price]
      BY DEF NetState, Price
    <2>5. QuotesTypeOK'
      BY <1>e, <1>t, <2>1, <2>2, <2>3, <2>4 DEF QuotesTypeOK
    <2>6. ASSUME NEW s \in Refresh, NEW k \in Key PROVE QuoteInv(s, k)'
      <3>1. CASE s = r
        BY <1>e, <1>t, <2>1, <2>2, <2>3, <3>1 DEF QuoteInv
      <3>2. CASE s # r
        BY <1>e, <1>t, <2>2, <2>3, <3>2 DEF QuoteInv
      <3> QED
        BY <3>1, <3>2
    <2> QED
      BY <1>e, <2>5, <2>6 DEF QuotesIInv
  <1>3. ASSUME NEW r \in Refresh, Cancelled(r) PROVE QuotesIInv'
    BY <1>3, <1>e, <1>t DEF Cancelled
  <1>4. ASSUME NEW r \in Refresh, Complete(r) PROVE QuotesIInv'
    <2>1. /\ End(r) /\ now' = now /\ flight' = flight
          /\ snap' = [k \in Key |-> IF k \in Wants[r] /\ QuoteOf(r, k).mark = "live"
                                    THEN [price |-> live[r][k], at |-> now] ELSE snap[k]]
      BY <1>4 DEF Complete, UpsertSnapshot
    <2>2. ASSUME NEW k \in Key, QuoteOf(r, k).mark = "live"
          PROVE  live[r][k] \in Nat /\ live[r][k] <= now
      <3>1. live[r][k] # NoPrice
        BY <2>2 DEF QuoteOf
      <3> QED
        BY <1>t, <3>1 DEF QuoteInv, Price
    <2>3. ASSUME NEW k \in Key PROVE snap'[k] \in Row /\ snap'[k].price <= snap'[k].at
      BY <1>t, <2>1, <2>2, RowFacts
    <2> QED
      BY <1>e, <2>1, <2>3
  <1>5. ASSUME NEW r \in Refresh, NEW k \in Key, Own(r, k) \/ Join(r, k) \/ Collect(r, k) PROVE QuotesIInv'
    <2>1. PICK x \in NetState : net' = [net EXCEPT ![r][k] = x]
      BY <1>5 DEF Own, Join, Collect, NetState
    <2>2. net[r][k] # "none" /\ UNCHANGED <<now, snap, live, run>>
      BY <1>5 DEF Own, Join, Collect
    <2>3. flight' \in [Key -> {"none", "pending", "cancelled"}]
      BY <1>5, <1>t DEF Own, Join, Collect
    <2>4. /\ net' \in [Refresh -> [Key -> NetState]]
          /\ \A s \in Refresh, l \in Key : net[s][l] = "none" => net'[s][l] = "none"
      BY <1>t, <2>1, <2>2
    <2> QED
      BY <1>t, <2>2, <2>3, <2>4, TasksMove
  <1>6. ASSUME NEW r \in Refresh, NEW k \in Key, Abort(r, k) PROVE QuotesIInv'
    <2>1. /\ flight' \in [Key -> {"none", "pending", "cancelled"}]
          /\ UNCHANGED <<now, snap, live, run>>
      BY <1>6, <1>t DEF Abort
    <2>2. net' \in [Refresh -> [Key -> NetState]]
      BY <1>6, <1>t DEF Abort, NetState
    <2>3. \A s \in Refresh, l \in Key : net[s][l] = "none" => net'[s][l] = "none"
      BY <1>6, <1>t DEF Abort, Waiters
    <2> QED
      BY <1>t, <2>1, <2>2, <2>3, TasksMove
  <1>7. ASSUME NEW r \in Refresh, NEW k \in Key, Answer(r, k) PROVE QuotesIInv'
    <2> DEFINE hear == Waiters(k) \cup {r}
    <2>1. PICK price \in {NoPrice, now} :
            /\ net' = [s \in Refresh |-> IF s \in hear THEN [net[s] EXCEPT ![k] = "done"] ELSE net[s]]
            /\ live' = [s \in Refresh |-> IF s \in hear THEN [live[s] EXCEPT ![k] = price] ELSE live[s]]
      BY <1>7, LiveQuotesArePresent DEF Answer
    <2>2. \A s \in hear : s \in Refresh /\ net[s][k] # "none"
      BY <1>7 DEF Waiters, Answer
    <2> HIDE DEF hear
    <2>3. UNCHANGED <<now, snap, run>> /\ flight' \in [Key -> {"none", "pending", "cancelled"}]
      BY <1>7, <1>t DEF Answer
    <2>4. QuotesTypeOK'
      BY <1>t, <2>1, <2>3 DEF QuotesTypeOK, NetState, Price
    <2>5. ASSUME NEW s \in Refresh, NEW l \in Key PROVE QuoteInv(s, l)'
      <3>1. CASE s \in hear /\ l = k
        <4>1. net'[s][l] = "done" /\ live'[s][l] = price
          BY <1>t, <2>1, <3>1
        <4>2. run[s].phase # "idle" /\ run[s].began <= now
          BY <1>t, <2>2, <3>1 DEF QuoteInv
        <4> QED
          BY <1>t, <2>1, <2>3, <4>1, <4>2 DEF QuoteInv
      <3>2. CASE ~ (s \in hear /\ l = k)
        <4>1. net'[s][l] = net[s][l] /\ live'[s][l] = live[s][l]
          BY <1>t, <2>1, <3>2
        <4> QED
          BY <1>t, <2>3, <4>1 DEF QuoteInv
      <3> QED
        BY <3>1, <3>2
    <2> QED
      BY <1>t, <2>3, <2>4, <2>5 DEF QuotesIInv
  <1>8. CASE Tick
    <2>1. now' \in Nat /\ now <= now' /\ UNCHANGED <<snap, flight, net, live, run>>
      BY <1>8, <1>t DEF Tick
    <2>2. ASSUME NEW r \in Refresh, NEW k \in Key PROVE QuoteInv(r, k)'
      <3>1. run[r].began \in Nat /\ live[r][k] \in Int /\ QuoteInv(r, k)
        BY <1>t DEF Run, Price, NoPrice
      <3> QED
        BY <1>t, <2>1, <3>1 DEF QuoteInv
    <2> QED
      BY <1>t, <2>1, <2>2 DEF QuotesIInv, QuotesTypeOK
  <1>9. CASE UNCHANGED quoteVars
    BY <1>9, <1>t, TasksMove DEF quoteVars
  <1> QED
    BY <1>1, <1>2, <1>3, <1>4, <1>5, <1>6, <1>7, <1>8, <1>9
    DEF QuotesNext, LoopStep, NetworkStep, LeaseLost, Restarted, CaughtCancellation

-----------------------------------------------------------------------------
(* Portfolio.                                                              *)

Version == Nat \cup {Gone}
Item == [cost : Version, worth : Version, listed : Version]
Working == {"cost", "worth", "ask cost", "ask worth", "list"}
View == [step : {"idle", "look", "answered", "failed"} \cup Working, of : Holding \cup {Gone},
         todo : SUBSET Holding, session : [Holding -> Version \cup {Expired}],
         item : [Holding -> Item], since : [Holding -> Version],
         quote : [price : Price, mark : {"unavailable", "cached", "stale"}], cached : Row,
         asked : Nat, rate : Price, failed : BOOLEAN]

\* The type invariant of Portfolio.
PortfolioTypeOK ==
    /\ book \in [Holding -> Version]
    /\ fx \in Row
    /\ view \in [Reader -> View]

\* What reader c knows of holding h is of one version and not older than what
\* it opened; the row is gone or not older than that.
ItemInv(c, h) ==
    LET i == view[c].item[h]
        s == view[c].session[h]
    IN  /\ s # Expired => s >= view[c].since[h]
        /\ book[h] # Gone => /\ book[h] >= s
                             /\ book[h] >= view[c].since[h]
                             /\ book[h] >= i.cost
        /\ i.cost = i.worth
        /\ i.cost = Gone => i.listed = Gone
        /\ i.cost # Gone => i.cost >= view[c].since[h]
        /\ i.listed # Gone => i.listed >= i.cost
        /\ h \in view[c].todo => i.listed = Gone
        /\ view[c].step = "idle" => i.cost = Gone

\* The holding that is being valued, and the rate its amounts are converted with.
ViewInv(c) ==
    LET v == view[c]
    IN  /\ v.step \in Working => /\ v.of \in v.todo
                                 /\ v.item[v.of].cost # Gone
                                 /\ v.session[v.of] \in {Expired, v.item[v.of].cost}
        /\ v.asked <= now
        /\ (v.step \in {"worth", "list"} /\ ~ v.failed) => v.rate >= v.asked - FxTime

\* The inductive invariant: a rate is stamped with the moment it was answered.
PortfolioIInv ==
    /\ PortfolioTypeOK
    /\ \A c \in Reader : ViewInv(c) /\ \A h \in Holding : ItemInv(c, h)
    /\ fx.price = fx.at /\ fx.at <= now

\* Versions and their marks are integers.
LEMMA VersionFacts ==
    /\ Gone = -1 /\ Expired = -2
    /\ \A x \in Version : x \in Int /\ (x # Gone => x \in Nat)
    /\ \A x \in Version \cup {Expired} : x \in Int /\ (x # Expired => x \in Version)
  BY DEF Gone, Expired, Version

\* A view without progress.
LEMMA NoViewFacts ==
    /\ NoView \in View /\ NoView.step = "idle" /\ NoView.of = Gone /\ NoView.todo = {}
    /\ NoView.asked = 0 /\ NoView.rate = NoPrice /\ ~ NoView.failed
    /\ \A h \in Holding : /\ NoView.session[h] = Expired /\ NoView.since[h] = Gone
                          /\ NoView.item[h] = NoItem
    /\ NoItem \in Item /\ NoItem.cost = Gone /\ NoItem.worth = Gone /\ NoItem.listed = Gone
    /\ \A x \in Item : x # NoItem => x.cost # Gone \/ x.worth # Gone \/ x.listed # Gone
  <1>1. NoItem \in Item /\ NoItem.cost = Gone /\ NoItem.worth = Gone /\ NoItem.listed = Gone
    BY DEF NoItem, Item, Version
  <1>2. \A x \in Item : x # NoItem => x.cost # Gone \/ x.worth # Gone \/ x.listed # Gone
    BY DEF NoItem, Item
  <1>3. NoQuote \in [price : Price, mark : {"unavailable", "cached", "stale"}]
    BY DEF NoQuote, Price
  <1>4. NoView \in View
    BY <1>1, <1>3, RowFacts DEF NoView, View, Version, Price, Working
  <1> QED
    BY <1>1, <1>2, <1>4 DEF NoView

\* The initial state satisfies the inductive invariant.
LEMMA InitPortfolioIInv == QuotesInit /\ PortfolioInit => PortfolioIInv
  <1> SUFFICES ASSUME QuotesInit, PortfolioInit PROVE PortfolioIInv
    OBVIOUS
  <1>1. now = 0 /\ fx \in Row /\ fx.price = fx.at /\ fx.at <= now
    BY RowFacts DEF QuotesInit, PortfolioInit
  <1>2. book \in [Holding -> Version] /\ \A h \in Holding : book[h] = 0
    BY DEF PortfolioInit, Version
  <1>3. view \in [Reader -> View] /\ \A c \in Reader : view[c] = NoView
    BY NoViewFacts DEF PortfolioInit
  <1>4. ASSUME NEW c \in Reader PROVE ViewInv(c)
    <2>1. NoView.step \notin Working /\ NoView.step \notin {"worth", "list"}
      BY NoViewFacts DEF Working
    <2>2. NoView.asked <= now
      BY <1>1, NoViewFacts
    <2> QED
      BY <1>3, <2>1, <2>2 DEF ViewInv
  <1>5. ASSUME NEW c \in Reader, NEW h \in Holding PROVE ItemInv(c, h)
    BY <1>2, <1>3, NoViewFacts, VersionFacts DEF ItemInv
  <1> QED
    BY <1>1, <1>2, <1>3, <1>4, <1>5 DEF PortfolioIInv, PortfolioTypeOK

\* A step of reader c to the view v, which leaves holdings and clock alone.
LEMMA ReaderStep ==
    ASSUME PortfolioIInv, NEW c \in Reader, NEW v \in View, view' = [view EXCEPT ![c] = v],
           book' = book, now' = now,
           fx' \in Row, fx'.price = fx'.at, fx'.at <= now,
           ViewInv(c)', \A h \in Holding : ItemInv(c, h)'
    PROVE  PortfolioIInv'
  <1>1. view'[c] = v /\ \A d \in Reader \ {c} : view'[d] = view[d]
    BY DEF PortfolioIInv, PortfolioTypeOK
  <1>2. PortfolioTypeOK'
    BY DEF PortfolioIInv, PortfolioTypeOK
  <1>3. ASSUME NEW d \in Reader PROVE ViewInv(d)' /\ \A h \in Holding : ItemInv(d, h)'
    BY <1>1 DEF PortfolioIInv, ViewInv, ItemInv
  <1> QED
    BY <1>2, <1>3 DEF PortfolioIInv

\* A request that fails forgets what it has read.
LEMMA FailStep ==
    ASSUME PortfolioIInv, NEW c \in Reader, Fail(c), UNCHANGED <<book, fx>>, now' = now, now \in Nat
    PROVE  PortfolioIInv'
  <1> DEFINE v == [NoView EXCEPT !.step = "failed"]
  <1>1. /\ v \in View /\ v.step = "failed" /\ v.of = Gone /\ v.todo = {} /\ v.asked = 0
        /\ v.session = NoView.session /\ v.item = NoView.item /\ v.since = NoView.since
    BY NoViewFacts DEF View
  <1>2. view' = [view EXCEPT ![c] = v]
    BY DEF Fail
  <1> HIDE DEF v
  <1>3. view'[c] = v
    BY <1>2 DEF PortfolioIInv, PortfolioTypeOK
  <1>4. ViewInv(c)'
    <2>1. v.step \notin Working /\ v.step \notin {"worth", "list"}
      BY <1>1 DEF Working
    <2>2. v.asked <= now'
      BY <1>1
    <2> QED
      BY <1>3, <2>1, <2>2 DEF ViewInv
  <1>5. ASSUME NEW h \in Holding PROVE ItemInv(c, h)'
    <2>1. book[h] \in Version
      BY DEF PortfolioIInv, PortfolioTypeOK
    <2> QED
      BY <1>1, <1>3, <2>1, NoViewFacts, VersionFacts DEF ItemInv
  <1> QED
    BY <1>1, <1>2, <1>4, <1>5, ReaderStep DEF PortfolioIInv, PortfolioTypeOK

\* A conversion of reader c changes neither items nor holdings, and its session
\* only by expiring it.
LEMMA ConversionStep ==
    ASSUME PortfolioIInv, NEW c \in Reader, NEW v \in View, view' = [view EXCEPT ![c] = v],
           book' = book, now' = now,
           fx' \in Row, fx'.price = fx'.at, fx'.at <= now,
           view[c].step \in Working, v.step \in Working,
           v.of = view[c].of, v.todo = view[c].todo, v.item = view[c].item, v.since = view[c].since,
           v.session = view[c].session \/ v.session = ExpireAll,
           v.asked <= now,
           (v.step \in {"worth", "list"} /\ ~ v.failed) => v.rate >= v.asked - FxTime
    PROVE  PortfolioIInv'
  <1>1. view'[c] = v /\ view[c] \in View /\ ViewInv(c)
    BY DEF PortfolioIInv, PortfolioTypeOK
  <1>2. ViewInv(c)'
    <2>1. \A h \in Holding : v.session[h] \in {view[c].session[h], Expired}
      BY DEF ExpireAll
    <2>2. view[c].of \in Holding
      BY <1>1 DEF ViewInv, View
    <2> QED
      BY <1>1, <2>1, <2>2 DEF ViewInv
  <1>3. ASSUME NEW h \in Holding PROVE ItemInv(c, h)'
    <2>1. v.session[h] \in {view[c].session[h], Expired} /\ ItemInv(c, h) /\ book[h] \in Version
      BY DEF ExpireAll, PortfolioIInv, PortfolioTypeOK
    <2>2. v.step # "idle"
      BY DEF Working
    <2> QED
      BY <1>1, <2>1, <2>2, VersionFacts DEF ItemInv
  <1> QED
    BY <1>2, <1>3, ReaderStep

\* Opening the portfolio: every holding of the household is as in the table.
LEMMA OpenStep ==
    ASSUME PortfolioIInv, QuotesTypeOK, NEW c \in Reader, Open(c), now' = now
    PROVE  PortfolioIInv'
  <1> DEFINE there == {h \in HoldingsOf[c] : book[h] # Gone}
             v == [view[c] EXCEPT !.step = IF there = {} THEN "answered" ELSE "look", !.todo = there,
                                  !.session = Present(c), !.since = Present(c)]
  <1>t. /\ view \in [Reader -> View] /\ view[c] \in View /\ ViewInv(c)
        /\ book \in [Holding -> Version] /\ fx \in Row /\ now \in Nat
        /\ \A h \in Holding : ItemInv(c, h)
    BY DEF PortfolioIInv, PortfolioTypeOK, QuotesTypeOK
  <1>1. view' = [view EXCEPT ![c] = v] /\ view[c].step = "idle" /\ UNCHANGED <<book, fx>>
    BY <1>t DEF Open
  <1>2. /\ Present(c) \in [Holding -> Version]
        /\ \A h \in Holding : Present(c)[h] \in {book[h], Gone}
    BY <1>t DEF Present, Version
  <1>3. there \subseteq Holding
    BY PortfolioAssumption
  <1>4. /\ v \in View /\ v.step \in {"answered", "look"} /\ v.of = view[c].of /\ v.todo = there
        /\ v.session = Present(c) /\ v.since = Present(c) /\ v.item = view[c].item
        /\ v.asked = view[c].asked
    <2>1. Present(c) \in [Holding -> Version \cup {Expired}]
      BY <1>2
    <2> HIDE DEF there
    <2> QED
      BY <1>t, <1>2, <1>3, <2>1 DEF View
  <1> HIDE DEF v, there
  <1>5. view'[c] = v
    BY <1>1, <1>t
  <1>6. ViewInv(c)'
    <2>1. v.step \notin Working /\ v.step \notin {"worth", "list"}
      BY <1>4 DEF Working
    <2>2. v.asked <= now'
      BY <1>4, <1>t DEF ViewInv
    <2> QED
      BY <1>5, <2>1, <2>2 DEF ViewInv
  <1>7. ASSUME NEW h \in Holding PROVE ItemInv(c, h)'
    <2>1. /\ view[c].item[h].cost = Gone /\ view[c].item[h].worth = Gone
          /\ view[c].item[h].listed = Gone
      BY <1>1, <1>t DEF ItemInv
    <2>2. book[h] \in Version /\ v.step # "idle" /\ book'[h] = book[h]
      BY <1>1, <1>4, <1>t
    <2>3. v.session[h] = v.since[h] /\ v.since[h] \in {book[h], Gone}
      BY <1>2, <1>4
    <2> QED
      BY <1>4, <1>5, <2>1, <2>2, <2>3, VersionFacts DEF ItemInv
  <1> QED
    BY <1>1, <1>4, <1>6, <1>7, ReaderStep DEF PortfolioIInv, PortfolioTypeOK

\* What an attribute of h reads is not older than the portfolio, nor than what
\* has been read of h before.
LEMMA LoadedFacts ==
    ASSUME PortfolioIInv, NEW c \in Reader, NEW h \in Holding, Loaded(c, h) # Gone
    PROVE  /\ Loaded(c, h) \in Nat
           /\ Loaded(c, h) >= view[c].since[h]
           /\ book[h] # Gone => book[h] >= Loaded(c, h)
           /\ view[c].session[h] \in {Expired, view[c].item[h].cost} => Loaded(c, h) >= view[c].item[h].cost
  <1>1. /\ view[c] \in View /\ book[h] \in Version /\ ItemInv(c, h)
        /\ view[c].session[h] \in Version \cup {Expired}
        /\ view[c].since[h] \in Version /\ view[c].item[h] \in Item /\ view[c].item[h].cost \in Version
    BY DEF PortfolioIInv, PortfolioTypeOK, View, Item
  <1> QED
    BY <1>1, VersionFacts DEF Loaded, ItemInv

\* Looking at the next holding: both amounts are of the version that is read.
LEMMA LookStep ==
    ASSUME PortfolioIInv, QuotesTypeOK, NEW c \in Reader, Look(c), now' = now
    PROVE  PortfolioIInv'
  <1>t. /\ view \in [Reader -> View] /\ view[c] \in View /\ ViewInv(c)
        /\ book \in [Holding -> Version] /\ fx \in Row /\ now \in Nat
        /\ \A h \in Holding : ItemInv(c, h)
    BY DEF PortfolioIInv, PortfolioTypeOK, QuotesTypeOK
  <1>1. CASE Fail(c)
    BY <1>1, <1>t, FailStep DEF Look
  <1>2. CASE ~ Fail(c)
    <2>1. PICK h \in view[c].todo :
            /\ Loaded(c, h) # Gone
            /\ view' = [view EXCEPT ![c] =
                 [view[c] EXCEPT !.step = "cost", !.of = h, !.quote = QuoteHolding(h),
                           !.session = [view[c].session EXCEPT ![h] = Loaded(c, h)],
                           !.item = [view[c].item EXCEPT ![h] = [view[c].item[h] EXCEPT !.cost = Loaded(c, h), !.worth = Loaded(c, h)]]]]
      BY <1>2 DEF Look
    <2> DEFINE l == Loaded(c, h)
               i == [view[c].item[h] EXCEPT !.cost = l, !.worth = l]
               v == [view[c] EXCEPT !.step = "cost", !.of = h, !.quote = QuoteHolding(h),
                                    !.session = [view[c].session EXCEPT ![h] = l],
                                    !.item = [view[c].item EXCEPT ![h] = i]]
    <2>2. h \in Holding /\ view[c].step = "look" /\ UNCHANGED <<book, fx>>
      BY <1>t, <2>1 DEF View, Look
    <2>3. /\ l \in Nat /\ l >= view[c].since[h] /\ (book[h] # Gone => book[h] >= l)
          /\ l # Gone /\ l # Expired
      BY <2>1, <2>2, LoadedFacts, VersionFacts
    <2>4. view' = [view EXCEPT ![c] = v]
      BY <2>1
    <2>5. QuoteHolding(h) \in [price : Price, mark : {"unavailable", "cached", "stale"}]
      <3>1. SymbolOf[h] \in Key
        BY <2>2, PortfolioAssumption
      <3>2. snap[SymbolOf[h]] \in Row
        BY <3>1 DEF QuotesTypeOK
      <3> QED
        BY <3>2, RowFacts DEF QuoteHolding, NoQuote, Price
    <2> HIDE DEF l
    <2>6. /\ i \in Item /\ i.cost = l /\ i.worth = l /\ i.listed = view[c].item[h].listed
          /\ view[c].item[h].listed = Gone
      <3>1. view[c].item[h] \in Item
        BY <1>t, <2>2 DEF View
      <3>2. view[c].item[h].listed = Gone
        BY <1>t, <2>1, <2>2 DEF ItemInv
      <3> QED
        BY <2>3, <3>1, <3>2 DEF Item, Version
    <2> HIDE DEF i
    <2>7. /\ v \in View /\ v.step = "cost" /\ v.of = h /\ v.todo = view[c].todo
          /\ v.session = [view[c].session EXCEPT ![h] = l]
          /\ v.item = [view[c].item EXCEPT ![h] = i] /\ v.since = view[c].since
          /\ v.asked = view[c].asked
      <3>1. [view[c].session EXCEPT ![h] = l] \in [Holding -> Version \cup {Expired}]
        BY <1>t, <2>3 DEF View, Version
      <3>2. [view[c].item EXCEPT ![h] = i] \in [Holding -> Item]
        BY <1>t, <2>6 DEF View
      <3> QED
        BY <1>t, <2>2, <2>5, <3>1, <3>2 DEF View, Working
    <2>8. /\ view[c].session \in [Holding -> Version \cup {Expired}] /\ view[c].item \in [Holding -> Item]
          /\ view[c].since \in [Holding -> Version]
      BY <1>t DEF View
    <2> HIDE DEF v
    <2>9. /\ view'[c] = v /\ v.session[h] = l /\ v.item[h] = i
          /\ \A g \in Holding \ {h} : v.session[g] = view[c].session[g] /\ v.item[g] = view[c].item[g]
      BY <1>t, <2>2, <2>4, <2>7, <2>8
    <2>10. ViewInv(c)'
      <3>1. v.step \notin {"worth", "list"}
        BY <2>7
      <3>2. v.asked <= now'
        BY <1>t, <2>7 DEF ViewInv
      <3> QED
        BY <2>1, <2>3, <2>6, <2>7, <2>9, <3>1, <3>2 DEF ViewInv
    <2>11. ASSUME NEW g \in Holding PROVE ItemInv(c, g)'
      <3>0. v.step # "idle" /\ book' = book
        BY <2>2, <2>7
      <3>1. CASE g = h
        <4>1. book[h] \in Version /\ view[c].since[h] \in Version
          BY <1>t, <2>2, <2>8
        <4>2. v.since[h] = view[c].since[h]
          BY <2>7
        <4> QED
          BY <2>3, <2>6, <2>9, <3>0, <3>1, <4>1, <4>2, VersionFacts DEF ItemInv
      <3>2. CASE g # h
        <4>1. v.session[g] = view[c].session[g] /\ v.item[g] = view[c].item[g] /\ view'[c] = v
          BY <2>9, <3>2
        <4>2. v.since = view[c].since /\ v.todo = view[c].todo
          BY <2>7
        <4>3. ItemInv(c, g)
          BY <1>t
        <4> QED
          BY <3>0, <4>1, <4>2, <4>3 DEF ItemInv
      <3> QED
        BY <3>1, <3>2
    <2> QED
      BY <1>t, <2>2, <2>4, <2>7, <2>10, <2>11, ReaderStep DEF PortfolioIInv
  <1> QED
    BY <1>1, <1>2

\* An amount is converted, or its rate asked for and answered or not.
LEMMA RateStep ==
    ASSUME PortfolioIInv, QuotesTypeOK, NEW c \in Reader, now' = now,
           Convert(c) \/ AskRate(c) \/ RateAnswered(c) \/ RateUnanswered(c)
    PROVE  PortfolioIInv'
  <1>t. /\ view \in [Reader -> View] /\ view[c] \in View /\ ViewInv(c)
        /\ fx \in Row /\ fx.price = fx.at /\ fx.at <= now /\ now \in Nat
        /\ FxTime \in Nat /\ view[c].asked \in Nat
    BY PortfolioAssumption DEF PortfolioIInv, PortfolioTypeOK, QuotesTypeOK, View
  <1>1. CASE Convert(c)
    <2> DEFINE s == After(view[c].step)
               x == IF NeedsRate(c) THEN fx.price ELSE now
               v == [view[c] EXCEPT !.step = s, !.asked = now, !.failed = FALSE, !.rate = x]
    <2>1. view' = [view EXCEPT ![c] = v] /\ book' = book /\ fx' = fx
      BY <1>1, <1>t DEF Convert
    <2>2. view[c].step \in Working /\ s \in Working
      BY <1>1 DEF Convert, Working, After
    <2>3. x \in Nat /\ x >= now - FxTime
      <3>1. CASE NeedsRate(c)
        <4>1. fx # NoRow /\ fx.at >= now - FxTime
          BY <1>1, <3>1 DEF Convert, FreshRate
        <4> QED
          BY <1>t, <3>1, <4>1, RowFacts
      <3>2. CASE ~ NeedsRate(c)
        BY <1>t, <3>2
      <3> QED
        BY <3>1, <3>2
    <2> HIDE DEF s, x
    <2>4. /\ v \in View /\ v.step = s /\ v.asked = now /\ v.rate = x
          /\ v.of = view[c].of /\ v.todo = view[c].todo /\ v.item = view[c].item
          /\ v.since = view[c].since /\ v.session = view[c].session
      BY <1>t, <2>2, <2>3 DEF View, Price
    <2> HIDE DEF v
    <2>5. v.asked <= now /\ v.rate >= v.asked - FxTime
      BY <1>t, <2>3, <2>4
    <2>6. fx' \in Row /\ fx'.price = fx'.at /\ fx'.at <= now
      BY <1>t, <2>1
    <2> QED
      BY <2>1, <2>2, <2>4, <2>5, <2>6, ConversionStep
  <1>2. CASE AskRate(c)
    <2> DEFINE s == IF view[c].step = "cost" THEN "ask cost" ELSE "ask worth"
               v == [view[c] EXCEPT !.step = s, !.asked = now, !.cached = fx, !.session = ExpireAll]
    <2>1. view' = [view EXCEPT ![c] = v] /\ book' = book /\ fx' = fx
      BY <1>2, <1>t DEF AskRate
    <2>2. view[c].step \in Working /\ s \in Working /\ s \notin {"worth", "list"}
      BY <1>2 DEF AskRate, Working
    <2>3. ExpireAll \in [Holding -> Version \cup {Expired}]
      BY DEF ExpireAll
    <2> HIDE DEF s
    <2>4. /\ v \in View /\ v.step = s /\ v.asked = now
          /\ v.of = view[c].of /\ v.todo = view[c].todo /\ v.item = view[c].item
          /\ v.since = view[c].since /\ v.session = ExpireAll
      BY <1>t, <2>2, <2>3 DEF View
    <2> HIDE DEF v
    <2>5. v.asked <= now
      BY <1>t, <2>4
    <2>6. fx' \in Row /\ fx'.price = fx'.at /\ fx'.at <= now
      BY <1>t, <2>1
    <2> QED
      BY <2>1, <2>2, <2>4, <2>5, <2>6, ConversionStep
  <1>3. CASE RateAnswered(c)
    <2> DEFINE s == Asked(view[c].step)
               v == [view[c] EXCEPT !.step = s, !.rate = now, !.failed = FALSE, !.session = ExpireAll]
    <2>1. view' = [view EXCEPT ![c] = v] /\ book' = book /\ fx' = UpsertRate(now)
      BY <1>3, <1>t DEF RateAnswered, FetchRate
    <2>2. view[c].step \in Working /\ s \in Working
      BY <1>3 DEF RateAnswered, Asks, Asked, Working
    <2>3. ExpireAll \in [Holding -> Version \cup {Expired}]
      BY DEF ExpireAll
    <2> HIDE DEF s
    <2>4. /\ v \in View /\ v.step = s /\ v.asked = view[c].asked /\ v.rate = now
          /\ v.of = view[c].of /\ v.todo = view[c].todo /\ v.item = view[c].item
          /\ v.since = view[c].since /\ v.session = ExpireAll
      BY <1>t, <2>2, <2>3 DEF View, Price
    <2> HIDE DEF v
    <2>5. fx' \in Row /\ fx'.price = fx'.at /\ fx'.at <= now
      BY <1>t, <2>1, RowFacts DEF UpsertRate
    <2>6. v.asked <= now /\ v.rate >= v.asked - FxTime
      BY <1>t, <2>4 DEF ViewInv
    <2> QED
      BY <1>t, <2>1, <2>2, <2>4, <2>5, <2>6, ConversionStep
  <1>4. CASE RateUnanswered(c)
    <2>1. CASE Fail(c)
      BY <1>4, <1>t, <2>1, FailStep DEF RateUnanswered
    <2>2. CASE ~ Fail(c)
      <3> DEFINE s == Asked(view[c].step)
                 v == [view[c] EXCEPT !.step = s, !.rate = view[c].cached.price, !.failed = TRUE]
      <3>1. view' = [view EXCEPT ![c] = v] /\ book' = book /\ fx' = fx /\ view[c].cached # NoRow
        BY <1>4, <1>t, <2>2 DEF RateUnanswered
      <3>2. view[c].step \in Working /\ s \in Working
        BY <1>4 DEF RateUnanswered, Asks, Asked, Working
      <3>3. view[c].cached.price \in Nat
        BY <1>t, <3>1, RowFacts DEF View
      <3> HIDE DEF s
      <3>4. /\ v \in View /\ v.step = s /\ v.asked = view[c].asked /\ v.failed
            /\ v.of = view[c].of /\ v.todo = view[c].todo /\ v.item = view[c].item
            /\ v.since = view[c].since /\ v.session = view[c].session
        BY <1>t, <3>2, <3>3 DEF View, Price
      <3> HIDE DEF v
      <3>5. v.asked <= now
        BY <1>t, <3>4 DEF ViewInv
      <3> QED
        BY <1>t, <3>1, <3>2, <3>4, <3>5, ConversionStep
    <2> QED
      BY <2>1, <2>2
  <1> QED
    BY <1>1, <1>2, <1>3, <1>4

\* An item is listed: what is read of it now is not older than its amounts.
LEMMA ListStep ==
    ASSUME PortfolioIInv, QuotesTypeOK, NEW c \in Reader, List(c), now' = now
    PROVE  PortfolioIInv'
  <1> DEFINE h == view[c].of
             l == Loaded(c, h)
  <1>t. /\ view \in [Reader -> View] /\ view[c] \in View /\ ViewInv(c)
        /\ book \in [Holding -> Version] /\ fx \in Row /\ fx.price = fx.at /\ fx.at <= now /\ now \in Nat
        /\ \A g \in Holding : ItemInv(c, g)
    BY DEF PortfolioIInv, PortfolioTypeOK, QuotesTypeOK
  <1>1. CASE Fail(c)
    BY <1>1, <1>t, FailStep DEF List
  <1>2. CASE ~ Fail(c)
    <2> DEFINE i == [view[c].item[h] EXCEPT !.listed = l]
               items == [view[c].item EXCEPT ![h].listed = l]
               loaded == [view[c].session EXCEPT ![h] = l]
               done == [NoView EXCEPT !.step = "answered", !.item = items, !.since = view[c].since]
               more == [NoView EXCEPT !.step = "look", !.todo = view[c].todo \ {h}, !.session = loaded,
                                      !.item = items, !.since = view[c].since]
    <2>1. /\ view[c].step = "list" /\ l # Gone /\ UNCHANGED <<book, fx>>
          /\ view' = [view EXCEPT ![c] = IF view[c].todo = {h} THEN done ELSE more]
      BY <1>2 DEF List
    <2>2. /\ h \in view[c].todo /\ h \in Holding /\ view[c].item[h].cost # Gone
          /\ view[c].session[h] \in {Expired, view[c].item[h].cost}
      BY <1>t, <2>1 DEF ViewInv, View, Working
    <2>3. /\ l \in Nat /\ l >= view[c].since[h] /\ (book[h] # Gone => book[h] >= l)
          /\ l >= view[c].item[h].cost /\ l # Expired
      BY <2>1, <2>2, LoadedFacts, VersionFacts
    <2>4. /\ view[c].session \in [Holding -> Version \cup {Expired}] /\ view[c].item \in [Holding -> Item]
          /\ view[c].since \in [Holding -> Version] /\ view[c].todo \in SUBSET Holding
          /\ view[c].item[h] \in Item
      BY <1>t, <2>2 DEF View
    <2> HIDE DEF h, l
    <2>5. /\ i \in Item /\ i.cost = view[c].item[h].cost /\ i.worth = view[c].item[h].worth /\ i.listed = l
      BY <2>3, <2>4 DEF Item, Version
    <2>6. items = [view[c].item EXCEPT ![h] = i]
      BY <2>2, <2>4
    <2> HIDE DEF i
    <2>7. /\ items \in [Holding -> Item] /\ items[h] = i
          /\ \A g \in Holding \ {h} : items[g] = view[c].item[g]
      BY <2>2, <2>4, <2>5, <2>6
    <2>8. /\ loaded \in [Holding -> Version \cup {Expired}] /\ loaded[h] = l
          /\ \A g \in Holding \ {h} : loaded[g] = view[c].session[g]
      BY <2>2, <2>3, <2>4 DEF Version
    <2> HIDE DEF items, loaded
    <2>9. /\ done \in View /\ done.step = "answered" /\ done.todo = {} /\ done.item = items
          /\ done.since = view[c].since /\ done.session = NoView.session /\ done.asked = 0
      BY <2>4, <2>7, NoViewFacts DEF View
    <2>10. /\ more \in View /\ more.step = "look" /\ more.todo = view[c].todo \ {h} /\ more.item = items
           /\ more.since = view[c].since /\ more.session = loaded /\ more.asked = 0
      BY <2>4, <2>7, <2>8, NoViewFacts DEF View
    <2> DEFINE v == IF view[c].todo = {h} THEN done ELSE more
    <2> HIDE DEF done, more
    <2>11. /\ v \in View /\ v.step \in {"answered", "look"} /\ v.todo \subseteq view[c].todo /\ h \notin v.todo
           /\ v.item = items /\ v.since = view[c].since /\ v.asked = 0
           /\ \A g \in Holding : v.session[g] \in {Expired, loaded[g]}
      BY <2>9, <2>10, NoViewFacts
    <2>12. view' = [view EXCEPT ![c] = v]
      BY <2>1
    <2> HIDE DEF v
    <2>13. view'[c] = v
      BY <1>t, <2>12
    <2>14. ViewInv(c)'
      <3>1. v.step \notin Working /\ v.step \notin {"worth", "list"}
        BY <2>11 DEF Working
      <3>2. v.asked <= now'
        BY <1>t, <2>11
      <3> QED
        BY <2>13, <3>1, <3>2 DEF ViewInv
    <2>15. ASSUME NEW g \in Holding PROVE ItemInv(c, g)'
      <3>0. /\ v.step # "idle" /\ book' = book /\ ItemInv(c, g) /\ book[g] \in Version
            /\ v.session[g] \in {Expired, loaded[g]} /\ v.since[g] = view[c].since[g]
            /\ view[c].since[g] \in Version /\ view[c].item[g] \in Item
        BY <1>t, <2>1, <2>4, <2>11
      <3>1. CASE g = h
        <4>1. v.item[g] = i /\ loaded[g] = l /\ g \notin v.todo
          BY <2>7, <2>8, <2>11, <3>1
        <4>2. i.cost \in Version /\ i.cost = view[c].item[g].cost /\ i.worth = view[c].item[g].worth
          BY <2>5, <3>1 DEF Item
        <4> QED
          BY <2>2, <2>3, <2>5, <2>13, <3>0, <3>1, <4>1, <4>2, VersionFacts DEF ItemInv
      <3>2. CASE g # h
        <4>1. v.item[g] = view[c].item[g] /\ loaded[g] = view[c].session[g]
              /\ (g \in v.todo => g \in view[c].todo)
          BY <2>7, <2>8, <2>11, <3>2
        <4> QED
          BY <2>13, <3>0, <4>1, VersionFacts DEF ItemInv
      <3> QED
        BY <3>1, <3>2
    <2> QED
      BY <1>t, <2>1, <2>11, <2>12, <2>14, <2>15, ReaderStep
  <1> QED
    BY <1>1, <1>2

\* Every step preserves the inductive invariant.
LEMMA NextPortfolioIInv ==
    QuotesIInv /\ QuotesTypeOK' /\ PortfolioIInv /\ [PricesNext]_<<quoteVars, portfolioVars>> => PortfolioIInv'
  <1> SUFFICES ASSUME QuotesIInv, QuotesTypeOK', PortfolioIInv, [PricesNext]_<<quoteVars, portfolioVars>>
               PROVE  PortfolioIInv'
    OBVIOUS
  <1>t. QuotesTypeOK /\ now \in Nat /\ now' \in Nat
    BY DEF QuotesIInv, QuotesTypeOK
  <1>1. ASSUME NEW c \in Reader, PortfolioNext, UNCHANGED quoteVars,
               \/ Open(c) \/ Look(c) \/ Convert(c) \/ AskRate(c)
               \/ RateAnswered(c) \/ RateUnanswered(c) \/ List(c)
        PROVE  PortfolioIInv'
    <2>1. now' = now
      BY <1>1 DEF quoteVars
    <2> QED
      BY <1>1, <1>t, <2>1, OpenStep, LookStep, RateStep, ListStep
  <1>2. ASSUME NEW h \in Holding, Edit(h), UNCHANGED quoteVars PROVE PortfolioIInv'
    <2>1. /\ book \in [Holding -> Version] /\ UNCHANGED <<now, fx, view>> /\ book[h] # Gone
      BY <1>2 DEF PortfolioIInv, PortfolioTypeOK, Edit, quoteVars
    <2>2. PICK x \in {book[h] + 1, Gone} : book' = [book EXCEPT ![h] = x]
      BY <1>2 DEF Edit
    <2>3. book[h] \in Nat /\ x \in Version /\ (x # Gone => x = book[h] + 1)
      BY <2>1, <2>2, VersionFacts DEF Version
    <2>4. PortfolioTypeOK'
      BY <2>1, <2>2, <2>3 DEF PortfolioIInv, PortfolioTypeOK
    <2>5. ASSUME NEW c \in Reader PROVE ViewInv(c)'
      BY <2>1 DEF PortfolioIInv, ViewInv
    <2>6. ASSUME NEW c \in Reader, NEW g \in Holding PROVE ItemInv(c, g)'
      <3>1. /\ ItemInv(c, g) /\ view' = view /\ view[c] \in View
            /\ view[c].session[g] \in Version \cup {Expired}
            /\ view[c].since[g] \in Version /\ view[c].item[g] \in Item /\ view[c].item[g].cost \in Version
        BY <2>1 DEF PortfolioIInv, PortfolioTypeOK, View, Item
      <3>2. book'[g] # Gone => book[g] # Gone /\ book'[g] >= book[g] /\ book[g] \in Int /\ book'[g] \in Int
        <4>1. CASE g = h
          <5>1. book'[g] = x
            BY <2>1, <2>2, <4>1
          <5> QED
            BY <2>1, <2>3, <4>1, <5>1
        <4>2. CASE g # h
          <5>1. book'[g] = book[g] /\ book[g] \in Version
            BY <2>1, <2>2, <4>2
          <5> QED
            BY <5>1, VersionFacts
        <4> QED
          BY <4>1, <4>2
      <3> QED
        BY <3>1, <3>2, VersionFacts DEF ItemInv
    <2> QED
      BY <2>1, <2>4, <2>5, <2>6 DEF PortfolioIInv
  <1>3. ASSUME UNCHANGED portfolioVars, [QuotesNext]_quoteVars PROVE PortfolioIInv'
    <2>1. now' >= now /\ UNCHANGED <<book, fx, view>>
      <3>1. ASSUME NEW r \in Refresh, Begin(r) \/ LeaseLost(r) \/ Restarted(r) \/ LoopStep(r) PROVE now' = now
        BY <3>1 DEF Begin, LeaseLost, Restarted, LoopStep, CaughtCancellation, CancelTasks, Cancelled, Complete
      <3>2. ASSUME NEW r \in Refresh, NEW k \in Key, NetworkStep(r, k) PROVE now' = now
        BY <3>2 DEF NetworkStep, Own, Join, Answer, Abort, Collect
      <3>3. Tick => now' = now + 1
        BY DEF Tick
      <3>4. UNCHANGED quoteVars => now' = now
        BY DEF quoteVars
      <3>5. now' = now \/ now' = now + 1
        BY <1>3, <3>1, <3>2, <3>3, <3>4 DEF QuotesNext
      <3> QED
        BY <1>3, <1>t, <3>5 DEF portfolioVars
    <2>2. PortfolioTypeOK'
      BY <2>1 DEF PortfolioIInv, PortfolioTypeOK
    <2>3. ASSUME NEW c \in Reader PROVE ViewInv(c)' /\ \A h \in Holding : ItemInv(c, h)'
      <3>1. view[c].asked \in Nat /\ ViewInv(c) /\ \A h \in Holding : ItemInv(c, h)
        BY DEF PortfolioIInv, PortfolioTypeOK, View
      <3> QED
        BY <1>t, <2>1, <3>1 DEF ViewInv, ItemInv
    <2>4. fx'.price = fx'.at /\ fx'.at <= now'
      <3>1. fx.at \in Int /\ fx.price = fx.at /\ fx.at <= now
        BY RowFacts DEF PortfolioIInv, PortfolioTypeOK
      <3> QED
        BY <1>t, <2>1, <3>1
    <2> QED
      BY <2>2, <2>3, <2>4 DEF PortfolioIInv
  <1> QED
    BY <1>1, <1>2, <1>3 DEF PricesNext, PortfolioNext

\* Refreshes and readers together keep both inductive invariants.
THEOREM PricesInductive == PricesSpec => [](QuotesIInv /\ PortfolioIInv)
  <1>1. QuotesIInv => QuotesTypeOK
    BY DEF QuotesIInv
  <1>2. QuotesIInv /\ [PricesNext]_<<quoteVars, portfolioVars>> => QuotesIInv'
    BY NextQuotesIInv DEF PricesNext, quoteVars
  <1>3. QuotesIInv /\ PortfolioIInv /\ [PricesNext]_<<quoteVars, portfolioVars>> => PortfolioIInv'
    BY <1>1, <1>2, NextPortfolioIInv DEF QuotesIInv
  <1> QED
    BY <1>2, <1>3, InitQuotesIInv, InitPortfolioIInv, PTL DEF PricesSpec

\* Type correctness of refreshes, snapshots, readers and rates.
THEOREM PricesTypeCorrect == PricesSpec => [](QuotesTypeOK /\ PortfolioTypeOK)
  <1>1. QuotesIInv /\ PortfolioIInv => QuotesTypeOK /\ PortfolioTypeOK
    BY DEF QuotesIInv, PortfolioIInv
  <1> QED
    BY <1>1, PricesInductive, PTL

\* A quote reported as live was answered after its refresh began, whoever asked
\* for it and whatever was cancelled, and no snapshot is dated before its price.
THEOREM LiveQuotesAreFresh == PricesSpec => []FreshIsFresh
  <1>1. QuotesIInv => FreshIsFresh
    <2> SUFFICES ASSUME QuotesIInv, NEW r \in Refresh, NEW k \in Key
                 PROVE  /\ QuoteOf(r, k).mark = "live" => live[r][k] \in run[r].began .. now
                        /\ snap[k].price <= snap[k].at
      BY DEF FreshIsFresh
    <2>1. live[r][k] \in Price /\ run[r].began \in Nat /\ now \in Nat /\ QuoteInv(r, k)
      BY DEF QuotesIInv, QuotesTypeOK, Run
    <2>2. QuoteOf(r, k).mark = "live" => live[r][k] # NoPrice
      BY DEF QuoteOf
    <2> QED
      BY <2>1, <2>2 DEF QuotesIInv, QuoteInv, Price
  <1> QED
    BY <1>1, PricesInductive, PTL

\* Both amounts of a portfolio item come from one version of the holding, no
\* older than the portfolio, and are converted at a rate the cache time allows,
\* while editors change and delete holdings and refreshes write snapshots.
THEOREM PortfolioAmountsAgree == PricesSpec => []AmountsAgree
  <1>1. PortfolioIInv => AmountsAgree
    <2> SUFFICES ASSUME PortfolioIInv, NEW c \in Reader
                 PROVE  /\ \A h \in Holding : view[c].item[h] # NoItem =>
                             /\ view[c].item[h].cost = view[c].item[h].worth
                             /\ view[c].item[h].cost >= view[c].since[h]
                             /\ view[c].item[h].listed # Gone => view[c].item[h].listed >= view[c].item[h].cost
                        /\ (view[c].step \in {"worth", "list"} /\ ~ view[c].failed) =>
                               view[c].rate >= view[c].asked - FxTime
      BY DEF AmountsAgree
    <2>1. ASSUME NEW h \in Holding, view[c].item[h] # NoItem
          PROVE  /\ view[c].item[h].cost = view[c].item[h].worth
                 /\ view[c].item[h].cost >= view[c].since[h]
                 /\ view[c].item[h].listed # Gone => view[c].item[h].listed >= view[c].item[h].cost
      <3>1. view[c].item[h] \in Item /\ ItemInv(c, h)
        BY DEF PortfolioIInv, PortfolioTypeOK, View
      <3>2. view[c].item[h].cost # Gone
        BY <2>1, <3>1, NoViewFacts DEF ItemInv
      <3> QED
        BY <3>1, <3>2 DEF ItemInv
    <2> QED
      BY <2>1 DEF PortfolioIInv, ViewInv
  <1> QED
    BY <1>1, PricesInductive, PTL
============================================================================
