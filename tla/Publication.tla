---------------------------- MODULE Publication ----------------------------
(***************************************************************************)
(* How one end-to-end run publishes its evidence:                          *)
(* scripts/e2e_scheduler/aggregate.py and uiux_evidence_publication.py     *)
(* check what the jobs produced and stage it, publication_transaction.py   *)
(* swaps the staged targets in together or puts the previous ones back,    *)
(* and runner_completion.py writes PARTIAL metrics when that fails.        *)
(*                                                                         *)
(* Every call on the file system is a step: it may fail with an OSError,   *)
(* Ctrl-C may strike between the call and the line that notes it, and the  *)
(* process may be killed anywhere.  A target has the sibling paths stage,  *)
(* backup, recovery, discarded and stale; of a path only "none", "old",    *)
(* "new" and "part" (incomplete) are told apart.                           *)
(***************************************************************************)
EXTENDS Integers, Sequences, FiniteSets, SequencesExt

CONSTANTS Job,        \* of the manifest
          Outcome     \* what a job may have left behind, see MCHosting

VARIABLES result,     \* result[j]
          published,  \* UI/UX files staged: destination and job
          before,     \* before[t]: the target's content when the run began
          fs,         \* fs[t][p]: content of path p of target t
          txn         \* progress of publish_complete

publicationVars == <<result, published, before, fs, txn>>

Target == {"uiux", "shots", "metrics"}
IsDirectory(t) == t # "metrics"
Sibling == {"target", "stage", "backup", "recovery", "discarded", "stale"}
Unseen == [seen |-> FALSE, had |-> FALSE, installed |-> FALSE, recovery |-> FALSE]

\* The metrics of a run have a path of their own: nothing is there before.
PublicationInit ==
    /\ result \in [Job -> Outcome]
    /\ published = {}
    /\ before \in {b \in [Target -> {"none", "old"}] : b["metrics"] = "none"}
    /\ fs = [t \in Target |-> [p \in Sibling |-> IF p = "target" THEN before[t] ELSE "none"]]
    /\ txn = [at |-> "results", list |-> <<>>, i |-> 1, swap |-> [t \in Target |-> Unseen], cause |-> "none", failed |-> FALSE]

---------------------------------------------------------------------------
(* What may be published                                                   *)

\* parse_job_report: every test once, passed or skipped at the first attempt.
ParsedReport(j) ==
    /\ \A k \in DOMAIN result[j].report : result[j].report[k] \in {<<j, "passed">>, <<j, "skipped">>}
    /\ Len(result[j].report) = 1

\* _parse_job and validate_result_artifact_roots (sound: the profile is the
\* job's and no path is a link); an empty file is an error.
ParseJob(j) ==
    /\ result[j].code = 0 /\ result[j].clean /\ result[j].sound
    /\ IsInjective(result[j].expected)
    /\ ParsedReport(j)
    /\ "empty" \notin result[j].actual
    /\ result[j].actual = Range(result[j].expected)

Uiux == UNION {{[dir |-> f.dir, name |-> f.name, kind |-> f.kind, of |-> f.of, by |-> j] : f \in result[j].uiux} : j \in Job}

Destination(f) == <<f.dir, f.name>>

\* _collect_evidence: no two files for one destination, every description
\* has its picture, every picture one description.
CollectEvidence ==
    /\ \A f, g \in Uiux : Destination(f) = Destination(g) => f = g
    /\ \A m \in Uiux : m.kind = "json" =>
          \E f \in Uiux : f.kind = "png" /\ f.by = m.by /\ f.dir = m.dir /\ f.name = m.of
    /\ \A f \in Uiux : f.kind = "png" =>
          Cardinality({m \in Uiux : m.kind = "json" /\ m.dir = f.dir /\ m.of = f.name}) = 1

\* One file per destination.
Staged == {CHOOSE f \in Uiux : Destination(f) = d : d \in {Destination(f) : f \in Uiux}}

\* Mutant: the metrics go first.
MutantPublications == <<"metrics">> \o (IF Uiux = {} THEN <<>> ELSE <<"uiux">>) \o <<"shots">>

\* prepare_aggregation and publish_complete: without UI/UX evidence that
\* target is left alone; the metrics come last.
Publications == (IF Uiux = {} THEN <<>> ELSE <<"uiux">>) \o <<"shots", "metrics">>

Prepare ==
    /\ txn.at = "results"
    /\ \A j \in Job : result[j].ran /\ ParseJob(j)
    /\ CollectEvidence
    /\ published' = Staged
    /\ fs' = [t \in Target |-> IF t \in Range(Publications) THEN [fs[t] EXCEPT !["stage"] = "new"] ELSE fs[t]]
    /\ txn' = [txn EXCEPT !.at = "swap", !.list = Publications]
    /\ UNCHANGED <<result, before>>

\* A check fails or a file cannot be staged: the stages are discarded.
Refuse ==
    /\ txn.at = "results"
    /\ txn' = [txn EXCEPT !.at = "raised", !.cause = "os"]
    /\ UNCHANGED <<result, published, before, fs>>

---------------------------------------------------------------------------
(* commit_publications                                                     *)

This == txn.list[txn.i]
State == txn.swap[This]
Note(t, field) == [txn.swap EXCEPT ![t][field] = TRUE]

\* replace() onto a directory that is not empty fails.
CanMove(t, from, to) == fs[t][from] # "none" /\ (fs[t][to] = "none" \/ ~ IsDirectory(t))
Moved(t, from, to) == [fs EXCEPT ![t][to] = fs[t][from], ![t][from] = "none"]
Has(t, p, content) == fs' = [fs EXCEPT ![t][p] = content]

\* The except clause: roll back, last target first.
Raise(cause) == txn' = [txn EXCEPT !.at = "rollback", !.cause = cause, !.i = Len(txn.list)]

\* The next target, or the next loop.
Onward(swap, here, next) ==
    txn' = IF txn.i < Len(txn.list) THEN [txn EXCEPT !.swap = swap, !.at = here, !.i = @ + 1]
           ELSE [txn EXCEPT !.swap = swap, !.at = next, !.i = 1]

\* _validate_prepared raises outside the try block: publish_complete discards.
Invalid ==
    /\ txn.at = "swap" /\ txn.i = 1
    /\ txn' = [txn EXCEPT !.at = "rollback", !.cause = "os", !.i = 0]
    /\ UNCHANGED <<result, published, before, fs>>

\* target.replace(backup), then the entry of states.
BackUp ==
    /\ txn.at = "swap"
    /\ LET had == fs[This]["target"] # "none"
           noted == [txn EXCEPT !.at = "install", !.swap[This].seen = TRUE, !.swap[This].had = had]
       IN  \/ had /\ fs' = Moved(This, "target", "backup") /\ (txn' = noted \/ Raise("interrupt"))
           \/ ~ had /\ UNCHANGED fs /\ txn' = noted
           \/ had /\ UNCHANGED fs /\ Raise("os")
           \/ UNCHANGED fs /\ Raise("interrupt")
    /\ UNCHANGED <<result, published, before>>

\* stage.replace(target), then installed.
Install ==
    /\ txn.at = "install"
    /\ \/ fs' = Moved(This, "stage", "target") /\ (Onward(Note(This, "installed"), "swap", "recover") \/ Raise("interrupt"))
       \/ UNCHANGED fs /\ \E cause \in {"os", "interrupt"} : Raise(cause)
    /\ UNCHANGED <<result, published, before>>

\* Mutant: a recovery is made only where a failure is expected.
MutantCreateRecovery ==
    /\ txn.at = "recover"
    /\ UNCHANGED fs /\ Onward(txn.swap, "recover", "drop")
    /\ UNCHANGED <<result, published, before>>

\* _create_recoveries: a copy of the backup; one that fails is removed, or
\* that fails too and an OSError hides the interrupt.
CreateRecovery ==
    /\ txn.at = "recover"
    /\ \/ ~ State.had /\ UNCHANGED fs /\ Onward(txn.swap, "recover", "drop")
       \/ State.had /\ Has(This, "recovery", "old") /\ (Onward(Note(This, "recovery"), "recover", "drop") \/ Raise("interrupt"))
       \/ State.had /\ UNCHANGED fs /\ \E cause \in {"os", "interrupt"} : Raise(cause)
       \/ State.had /\ Has(This, "recovery", "part") /\ Raise("os")
    /\ UNCHANGED <<result, published, before>>

\* The backups are removed once every target has its recovery.
DropBackup ==
    /\ txn.at = "drop"
    /\ \/ ~ State.had /\ UNCHANGED fs /\ Onward(txn.swap, "drop", "committed")
       \/ State.had /\ Has(This, "backup", "none") /\ (Onward(txn.swap, "drop", "committed") \/ Raise("interrupt"))
       \/ State.had /\ \E left \in {"part", "old"}, cause \in {"os", "interrupt"} : Has(This, "backup", left) /\ Raise(cause)
    /\ UNCHANGED <<result, published, before>>

\* After the commit a recovery that stays is only a warning; an interrupt
\* still raises.
DropRecovery ==
    /\ txn.at = "committed"
    /\ \E left \in IF State.recovery THEN {"none", "part", "old"} ELSE {fs[This]["recovery"]} : Has(This, "recovery", left)
    /\ \/ Onward(txn.swap, "committed", "done")
       \/ txn' = [txn EXCEPT !.at = "raised", !.cause = "late"]
    /\ UNCHANGED <<result, published, before>>

---------------------------------------------------------------------------
(* _rollback                                                               *)

\* _rollback_one returns, with an error or without.
Back(error) == txn' = [txn EXCEPT !.at = "rollback", !.i = @ - 1, !.failed = @ \/ error]

\* Mutant: what was installed is replaced where it is.
MutantRollAway ==
    /\ txn.at = "rollback" /\ txn.i > 0
    /\ UNCHANGED fs
    /\ IF State.seen THEN txn' = [txn EXCEPT !.at = "restore"] ELSE Back(FALSE)
    /\ UNCHANGED <<result, published, before>>

\* What was installed is moved away; two tries, then an error.
RollAway ==
    /\ txn.at = "rollback" /\ txn.i > 0
    /\ \/ ~ State.seen /\ UNCHANGED fs /\ Back(FALSE)
       \/ /\ State.seen /\ txn' = [txn EXCEPT !.at = "restore"]
          /\ IF State.installed /\ fs[This]["target"] # "none" THEN fs' = Moved(This, "target", "discarded") ELSE UNCHANGED fs
       \/ State.installed /\ fs[This]["target"] # "none" /\ UNCHANGED fs /\ Back(TRUE)
    /\ UNCHANGED <<result, published, before>>

\* The previous target comes back from its recovery or its backup; when that
\* fails the new one is put back.
Restore ==
    /\ txn.at = "restore"
    /\ LET source == IF State.recovery THEN "recovery" ELSE "backup"
       IN  \/ ~ State.had /\ UNCHANGED fs /\ txn' = [txn EXCEPT !.at = "tidy"]
           \/ State.had /\ CanMove(This, source, "target") /\ fs' = Moved(This, source, "target") /\ txn' = [txn EXCEPT !.at = "tidy"]
           \/ State.had /\ CanMove(This, "discarded", "target") /\ fs' = Moved(This, "discarded", "target") /\ Back(TRUE)
           \/ State.had /\ UNCHANGED fs /\ Back(TRUE)
    /\ UNCHANGED <<result, published, before>>

\* The rest is removed: the discarded target, then a backup that is no longer
\* needed, by way of stale.
Tidy ==
    /\ txn.at = "tidy"
    /\ LET clean == [fs EXCEPT ![This]["discarded"] = "none"]
           spare == fs[This]["backup"] # "none" /\ fs[This]["target"] # "none"
       IN  \/ fs' = (IF spare THEN [clean EXCEPT ![This]["backup"] = "none"] ELSE clean) /\ Back(FALSE)
           \/ fs[This]["discarded"] # "none" /\ Has(This, "discarded", "part") /\ Back(TRUE)
           \/ spare /\ fs' = clean /\ Back(TRUE)
           \/ spare /\ fs' = [clean EXCEPT ![This]["backup"] = "none", ![This]["stale"] = "part"] /\ Back(TRUE)
    /\ UNCHANGED <<result, published, before>>

\* _discard_uncommitted and discard_publication: best effort.
Discard ==
    /\ txn.at = "rollback" /\ txn.i = 0
    /\ \E left \in {"none", "part"} :
          fs' = [t \in Target |-> IF fs[t]["stage"] = "none" THEN fs[t] ELSE [fs[t] EXCEPT !["stage"] = left]]
    /\ txn' = [txn EXCEPT !.at = "raised"]
    /\ UNCHANGED <<result, published, before>>

\* complete_run: metrics with status PARTIAL, written beside and replaced.
SavePartial ==
    /\ txn.at = "raised"
    /\ Has("metrics", "target", "partial")
    /\ txn' = [txn EXCEPT !.at = "over"]
    /\ UNCHANGED <<result, published, before>>

Killed ==
    /\ txn.at \notin {"results", "done", "over", "dead"}
    /\ txn' = [txn EXCEPT !.at = "dead"]
    /\ UNCHANGED <<result, published, before, fs>>

PublicationNext ==
    \/ Prepare \/ Refuse \/ Invalid \/ BackUp \/ Install \/ CreateRecovery \/ DropBackup \/ DropRecovery
    \/ RollAway \/ Restore \/ Tidy \/ Discard \/ SavePartial \/ Killed

PublicationSpec == PublicationInit /\ [][PublicationNext]_publicationVars

---------------------------------------------------------------------------
(* Properties                                                              *)

\* All targets or none.  commit_publications returns with every target new,
\* and with all that the jobs produced: no file took another's place and every
\* picture has one description.  Or it raises after failed calls with every
\* target as it was, unless it says that the rollback failed.
AllOrNothing ==
    /\ txn.at = "done" =>
          /\ \A t \in Range(txn.list) : fs[t]["target"] = "new"
          /\ Uiux \subseteq published
          /\ \A f \in published : f.kind = "png" => Cardinality({m \in published : m.kind = "json" /\ m.dir = f.dir /\ m.of = f.name}) = 1
    /\ txn.at = "raised" /\ txn.cause = "os" /\ ~ txn.failed => \A t \in Target : fs[t]["target"] = before[t]

\* Whatever fails, is interrupted or is killed: a complete copy of every
\* previous target is on disk, unless all the new ones are installed.
NothingLost ==
    \/ \A t \in Target : before[t] = "old" => \E p \in Sibling : fs[t][p] = "old"
    \/ \A t \in Range(txn.list) \ {"metrics"} : fs[t]["target"] = "new"

\* Metrics that say COMPLETE lie beside complete evidence, whenever the
\* process dies: they are installed last and withdrawn first.
CompleteMeansPublished ==
    fs["metrics"]["target"] = "new" /\ txn.cause # "interrupt" /\ ~ txn.failed =>
        \A t \in Range(txn.list) : fs[t]["target"] = "new"
============================================================================
