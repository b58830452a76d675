----------------------------- MODULE LocalRun ------------------------------
(***************************************************************************)
(* Local end-to-end runs of one repository: the lock of                    *)
(* scripts/e2e_scheduler/run_lock.py, the entry point and the legacy       *)
(* runner of scripts/run_e2e_with_orchestrator.py, and its cleanup in      *)
(* legacy_benchmark_artifact.py.                                           *)
(*                                                                         *)
(* All runs share one screenshot directory and one latest-run.json.  The   *)
(* kernel drops the lock with the process that holds it; the services and  *)
(* tests it started may live on.  A picture is known by the run that took  *)
(* it.  A dynamic run is one step here: Scheduler, Capsules and            *)
(* Publication have its detail.                                            *)
(***************************************************************************)
EXTENDS FiniteSets

CONSTANTS Run,       \* invocations of the entry point
          NoRun

ASSUME RunAssumption == NoRun \notin Run

VARIABLES run,       \* run[r]: its progress
          left,      \* left[r]: what exists of r's services, tests, database
          lock,      \* holder of the kernel lock
          owner,     \* local-e2e-run.owner.json
          shots,     \* whose pictures are in the directory
          manifest   \* latest-run.json: its author and whose pictures it lists

localVars == <<run, left, lock, owner, shots, manifest>>

NoManifest == [by |-> NoRun, files |-> {}]

\* bench: E2E_BENCHMARK_PLAYWRIGHT_JSON_FILE is set.  lost: tests outlived r.
LocalInit ==
    /\ run \in [Run -> [at : {"idle"}, mode : {"legacy", "dynamic"}, bench : BOOLEAN, code : {"none"}, lost : {FALSE}]]
    /\ left = [r \in Run |-> {}]
    /\ lock = NoRun
    /\ owner = NoRun
    /\ shots = {}
    /\ manifest = NoManifest

RunAt(r, at) == run[r].at = at
Go(r, at) == run' = [run EXCEPT ![r].at = at]
End(r, at, code) == run' = [run EXCEPT ![r].at = at, ![r].code = code]

---------------------------------------------------------------------------
(* LocalE2ERunLease                                                        *)

\* Mutant: the lock is only announced in the owner file.
MutantEnter(r) ==
    /\ RunAt(r, "idle")
    /\ lock' = r /\ Go(r, "locked")
    /\ UNCHANGED <<left, owner, shots, manifest>>

\* __enter__: the kernel lock, without waiting; a busy or failed lock ends
\* the invocation.
Enter(r) ==
    /\ RunAt(r, "idle")
    /\ \/ lock = NoRun /\ lock' = r /\ Go(r, "locked")
       \/ UNCHANGED lock /\ End(r, "over", "fail")
    /\ UNCHANGED <<left, owner, shots, manifest>>

\* _save_owner; when it fails the lock is given back.
SaveOwner(r) ==
    /\ RunAt(r, "locked")
    /\ \/ owner' = r /\ Go(r, IF run[r].mode = "legacy" THEN "build" ELSE "dynamic") /\ UNCHANGED lock
       \/ lock' = NoRun /\ End(r, "over", "fail") /\ UNCHANGED owner
    /\ UNCHANGED <<left, shots, manifest>>

Release(r) ==
    /\ RunAt(r, "release")
    /\ lock' = NoRun /\ Go(r, "over")
    /\ UNCHANGED <<left, owner, shots, manifest>>

---------------------------------------------------------------------------
(* The legacy runner                                                       *)

\* build_frontend_for_static and start_orchestrator.
Launch(r) ==
    /\ RunAt(r, "build")
    /\ \/ left' = [left EXCEPT ![r] = {"services", "database"}] /\ Go(r, "wait")
       \/ UNCHANGED left /\ End(r, "release", "fail")
    /\ UNCHANGED <<lock, owner, shots, manifest>>

\* wait_until_up and the health probe.
WaitUntilUp(r) ==
    /\ RunAt(r, "wait")
    /\ Go(r, "clean") \/ End(r, "finalize", "fail")
    /\ UNCHANGED <<left, lock, owner, shots, manifest>>

\* run_playwright removes the pictures and the manifest, ...
CleanShots(r) ==
    /\ RunAt(r, "clean")
    /\ shots' = {} /\ manifest' = NoManifest /\ Go(r, "spawn")
    /\ UNCHANGED <<left, lock, owner>>

\* ... starts Playwright, ...
SpawnPlaywright(r) ==
    /\ RunAt(r, "spawn")
    /\ \/ left' = [left EXCEPT ![r] = @ \cup {"tests"}] /\ Go(r, "tests")
       \/ UNCHANGED left /\ End(r, "finalize", "fail")
    /\ UNCHANGED <<lock, owner, shots, manifest>>

\* (the tests take pictures, also when nobody waits for them any more)
Shoot(r) ==
    /\ "tests" \in left[r] /\ shots' = shots \cup {r}
    /\ UNCHANGED <<run, left, lock, owner, manifest>>

\* ... waits for it, ...
PlaywrightExits(r) ==
    /\ RunAt(r, "tests")
    /\ left' = [left EXCEPT ![r] = @ \ {"tests"}]
    /\ \E code \in {"pass", "fail"} : End(r, "report", code)
    /\ UNCHANGED <<lock, owner, shots, manifest>>

\* (Ctrl-C kills npx; what npx started may go on)
Interrupt(r) ==
    /\ RunAt(r, "tests")
    /\ \E stay \in BOOLEAN :
          /\ left' = [left EXCEPT ![r] = IF stay THEN @ ELSE @ \ {"tests"}]
          /\ run' = [run EXCEPT ![r].at = "finalize", ![r].code = "fail", ![r].lost = stay]
    /\ UNCHANGED <<lock, owner, shots, manifest>>

\* ... and lists what lies in the directory.
Report(r) ==
    /\ RunAt(r, "report")
    /\ LET lists == IF run[r].code = "pass" THEN shots # {} ELSE run[r].bench
       IN  /\ manifest' = IF lists THEN [by |-> r, files |-> shots] ELSE manifest
           /\ End(r, "finalize", IF lists THEN run[r].code ELSE "fail")
    /\ UNCHANGED <<left, lock, owner, shots>>

\* finalize_legacy_cleanup: what it cannot remove makes the run fail.
Finalize(r) ==
    /\ RunAt(r, "finalize")
    /\ \E stuck \in SUBSET (left[r] \ {"tests"}) :
          /\ left' = [left EXCEPT ![r] = (@ \cap {"tests"}) \cup stuck]
          /\ End(r, "release", IF stuck = {} THEN run[r].code ELSE "fail")
    /\ UNCHANGED <<lock, owner, shots, manifest>>

---------------------------------------------------------------------------

\* run_dynamic: on success the directory, manifest included, is replaced.
RunDynamic(r) ==
    /\ RunAt(r, "dynamic")
    /\ \/ shots' = {r} /\ manifest' = [by |-> r, files |-> {r}] /\ End(r, "release", "pass")
       \/ UNCHANGED <<shots, manifest>> /\ End(r, "release", "fail")
    /\ UNCHANGED <<left, lock, owner>>

RunKilled(r) ==
    /\ ~ RunAt(r, "idle") /\ ~ RunAt(r, "over") /\ ~ RunAt(r, "dead")
    /\ run' = [run EXCEPT ![r].at = "dead", ![r].lost = @ \/ "tests" \in left[r]]
    /\ lock' = IF lock = r THEN NoRun ELSE lock
    /\ UNCHANGED <<left, owner, shots, manifest>>

LocalNext ==
    \E r \in Run :
        \/ Enter(r) \/ SaveOwner(r) \/ Release(r) \/ Launch(r) \/ WaitUntilUp(r) \/ CleanShots(r) \/ SpawnPlaywright(r)
        \/ Shoot(r) \/ PlaywrightExits(r) \/ Interrupt(r) \/ Report(r) \/ Finalize(r) \/ RunDynamic(r) \/ RunKilled(r)

LocalSpec == LocalInit /\ [][LocalNext]_localVars

---------------------------------------------------------------------------
(* Properties                                                              *)

\* Whatever runs are started, refused or killed, latest-run.json lists no
\* other run's pictures, unless tests outlived their run; and when a run
\* reports success it lists what lies in the directory.
ManifestIsOwn ==
    (\A r \in Run : ~ run[r].lost) =>
        /\ manifest.files \subseteq {manifest.by}
        /\ \A r \in Run : RunAt(r, "release") /\ run[r].code = "pass" => manifest.by = r /\ manifest.files = shots
============================================================================
