---------------------------- MODULE ImportLock ----------------------------
(***************************************************************************)
(* The lease that serialises the imports of ONE household:                 *)
(* backend/app/api/routes/imports.py (_run_import_with_guard,              *)
(* _run_migration_package_with_guard and the functions below them).        *)
(*                                                                         *)
(* The lease is a row whose acquired_at is both its age and its identity:  *)
(* every renewal, release and take-over compares it.  Here a stamp is the  *)
(* pair of a coarse time and the worker that took it; the worker stands    *)
(* for the microseconds that tell stamps of different workers apart.       *)
(*                                                                         *)
(* A worker runs one import at a time, in a thread of its own with its own *)
(* database session, and an applying import has a second thread, the       *)
(* heartbeat.  On SQLite the code has no heartbeat and adds a file lock:   *)
(* that deployment is not modelled, nor is the dry run of a migration      *)
(* package, which takes no lease.                                          *)
(*                                                                         *)
(* The clock is part of the model because the exclusion rests on it: Tick  *)
(* states what the code takes for granted, that a heartbeat comes round    *)
(* every Interval and that an import commits before Deadline has passed    *)
(* since its last renewal.                                                 *)
(***************************************************************************)
EXTENDS Integers

CONSTANTS Worker,     \* threads serving import requests
          Interval,   \* _lock_heartbeat_interval_seconds
          Deadline,   \* last renewal to commit
          Timeout,    \* _lock_timeout_seconds
          MaxTime     \* bound on the clock

ASSUME TimingAssumption ==
    /\ Interval \in Nat \ {0} /\ Deadline \in Nat /\ Timeout \in Nat /\ MaxTime \in Nat
    /\ Interval =< Deadline /\ Deadline =< Timeout

Mode == {"apply", "dry_run"}
NoLease == [at |-> -1]
NoJob == [pc |-> "idle"]

VARIABLES
    now,        \* the clock
    lease,      \* the ImportExecutionLock row: a stamp, or NoLease
    job,        \* job[w]: the import worker w is running
    overtaken   \* history: imports during which the lease went to another one

vars == <<now, lease, job, overtaken>>

Stamp(w) == [at |-> now, by |-> w]

\* acquired_at < now - timeout.
Stale(s) == s.at < now - Timeout

Init ==
    /\ now = 0
    /\ lease = NoLease
    /\ job = [w \in Worker |-> NoJob]
    /\ overtaken = {}

Goto(w, j) == job' = [job EXCEPT ![w] = j]

\* Worker w's import holds, or held, the lease.
Running(w) == job[w].pc \in {"run", "stopped", "checked", "release"}

---------------------------------------------------------------------------
(* _acquire_import_lock                                                    *)

\* Mutant: a lease somebody holds is respected however old it is.
MutantRespectStale(w, m) ==
    /\ job[w] = NoJob
    /\ \/ lease = NoLease /\ Goto(w, [pc |-> "insert", mode |-> m])
       \/ lease # NoLease /\ UNCHANGED job
    /\ UNCHANGED <<now, lease, overtaken>>

\* The row is read without a lock: it is absent, or stale and to be deleted.
LookUp(w, m) ==
    /\ job[w] = NoJob
    /\ \/ lease = NoLease /\ Goto(w, [pc |-> "insert", mode |-> m])
       \/ lease # NoLease /\ Stale(lease)
          /\ Goto(w, [pc |-> "takeover", mode |-> m, seen |-> lease])
    /\ UNCHANGED <<now, lease, overtaken>>

\* 429: somebody else's lease is fresh.
Refuse(w) ==
    /\ job[w] = NoJob
    /\ lease # NoLease /\ ~ Stale(lease)
    /\ UNCHANGED vars

\* The stale row is deleted if it still has the stamp that was read; 429 if not.
TakeOver(w) ==
    /\ job[w].pc = "takeover"
    /\ IF lease = job[w].seen
       THEN lease' = NoLease /\ Goto(w, [pc |-> "insert", mode |-> job[w].mode])
       ELSE lease' = lease /\ Goto(w, NoJob)
    /\ UNCHANGED <<now, overtaken>>

\* The new row is inserted; 429 if another worker's insert came first.
Insert(w) ==
    /\ job[w].pc = "insert"
    /\ IF lease = NoLease
       THEN /\ lease' = Stamp(w)
            /\ Goto(w, [pc |-> "run", mode |-> job[w].mode, mine |-> Stamp(w), failed |-> FALSE])
            /\ overtaken' = {v \in Worker : Running(v)} \ {w}
       ELSE Goto(w, NoJob) /\ UNCHANGED <<lease, overtaken>>
    /\ UNCHANGED now

---------------------------------------------------------------------------
(* The heartbeat of an applying import                                     *)

Beating(w) == job[w].pc = "run" /\ job[w].mode = "apply" /\ ~ job[w].failed

\* _renew_import_lock_lease: the row is stamped anew if it has our stamp.
Renew(w) ==
    /\ Beating(w)
    /\ IF lease = job[w].mine
       THEN lease' = Stamp(w) /\ Goto(w, [job[w] EXCEPT !.mine = Stamp(w)])
       ELSE lease' = lease /\ Goto(w, [job[w] EXCEPT !.failed = TRUE])
    /\ UNCHANGED <<now, overtaken>>

\* The renewal raises, before or after the database has committed it.
RenewError(w) ==
    /\ Beating(w)
    /\ lease' \in {lease} \cup {s \in {Stamp(w)} : lease = job[w].mine}
    /\ Goto(w, [job[w] EXCEPT !.failed = TRUE])
    /\ UNCHANGED <<now, overtaken>>

---------------------------------------------------------------------------
(* The import                                                              *)

\* importer.run or run_transfer returns; the heartbeat is stopped and joined.
Finish(w) ==
    /\ job[w].pc = "run"
    /\ Goto(w, [job[w] EXCEPT !.pc = IF job[w].mode = "apply" THEN "stopped" ELSE "release"])
    /\ UNCHANGED <<now, lease, overtaken>>

\* It raises: the transaction is rolled back and the heartbeat stopped.
Fail(w) ==
    /\ job[w].pc = "run"
    /\ Goto(w, [job[w] EXCEPT !.pc = "release"])
    /\ UNCHANGED <<now, lease, overtaken>>

\* _is_import_lock_current.
Current(w) == lease = job[w].mine

\* Mutant: a failed heartbeat is not looked at.
MutantIgnoreHeartbeat(w) ==
    /\ job[w].pc = "stopped"
    /\ Goto(w, [job[w] EXCEPT !.pc = IF Current(w) THEN "checked" ELSE "release"])
    /\ UNCHANGED <<now, lease, overtaken>>

\* heartbeat_failed and _is_import_lock_current: IMPORT_LOCK_LOST, or go on.
Check(w) ==
    /\ job[w].pc = "stopped"
    /\ Goto(w, [job[w] EXCEPT !.pc =
                  IF ~ job[w].failed /\ Current(w) THEN "checked" ELSE "release"])
    /\ UNCHANGED <<now, lease, overtaken>>

\* db.commit.
Commit(w) ==
    /\ job[w].pc = "checked"
    /\ Goto(w, [job[w] EXCEPT !.pc = "release"])
    /\ UNCHANGED <<now, lease, overtaken>>

\* Mutant: the lock is released by household, not by our own stamp.
MutantReleaseAny(w) ==
    /\ job[w].pc = "release"
    /\ lease' = NoLease
    /\ Goto(w, NoJob)
    /\ UNCHANGED <<now, overtaken>>

\* _release_import_lock: the row is deleted if it has our stamp.
Release(w) ==
    /\ job[w].pc = "release"
    /\ lease' = IF lease = job[w].mine THEN NoLease ELSE lease
    /\ Goto(w, NoJob)
    /\ UNCHANGED <<now, overtaken>>

\* The process dies; the row stays.
Crash(w) ==
    /\ job[w] # NoJob
    /\ Goto(w, NoJob)
    /\ UNCHANGED <<now, lease, overtaken>>

---------------------------------------------------------------------------
\* Time passes, as long as no heartbeat and no commit is overdue.
Tick ==
    /\ now < MaxTime
    /\ \A w \in Worker : Beating(w) => now - job[w].mine.at < Interval
    /\ \A w \in Worker : (job[w].pc \in {"stopped", "checked"} /\ ~ job[w].failed)
                            => now - job[w].mine.at < Deadline
    /\ now' = now + 1
    /\ UNCHANGED <<lease, job, overtaken>>

Progress(w) ==
    \/ \E m \in Mode : LookUp(w, m)
    \/ Insert(w) \/ Finish(w) \/ Check(w) \/ Commit(w) \/ Release(w)

Next ==
    \/ \E w \in Worker : \/ Progress(w) \/ TakeOver(w) \/ Refuse(w) \/ Renew(w)
                         \/ RenewError(w) \/ Fail(w) \/ Crash(w)
    \/ Tick

Spec == Init /\ [][Next]_vars

---------------------------------------------------------------------------
(* Properties                                                              *)

Stamps == [at : 0 .. MaxTime, by : Worker]

\* Every variable has its type.
TypeOK ==
    /\ now \in 0 .. MaxTime
    /\ lease \in Stamps \cup {NoLease}
    /\ job \in [Worker ->
                  {NoJob}
                  \cup [pc : {"insert"}, mode : Mode]
                  \cup [pc : {"takeover"}, mode : Mode, seen : Stamps]
                  \cup [pc : {"run", "stopped", "checked", "release"},
                        mode : Mode, mine : Stamps, failed : BOOLEAN]]
    /\ overtaken \subseteq Worker

\* An import that is about to commit still has the lease, and nobody else was
\* given it since: imports that commit are serial, whatever heartbeat failed,
\* whoever judged the lease stale, and although the check that the lease is
\* current (imports.py:194) is not part of the transaction's commit.
CommitsAreSerial ==
    \A w \in Worker : job[w].pc = "checked" => lease = job[w].mine /\ w \notin overtaken

\* A lease that is not stale changes only by a step of the import that holds
\* it: neither a contender that judged an earlier stamp stale nor an import
\* that lost the lease and now releases it touches it.
FreshLeaseIsSafe ==
    [][\A w \in Worker :
          (lease # NoLease /\ lease.by = w /\ ~ Stale(lease) /\ lease' # lease)
             => job'[w] # job[w]]_vars

\* A lease that nobody renews is given up in the end, whoever crashed with it
\* (as long as imports are requested).
StaleLeaseYields ==
    \A w \in Worker : (lease # NoLease /\ lease.by = w /\ Stale(lease)) ~> (lease = NoLease \/ ~ Stale(lease))
===========================================================================
