----------------------------- MODULE Capsules ------------------------------
(***************************************************************************)
(* The worker capsules of one end-to-end run: capsule.py,                  *)
(* capsule_services.py, browser_pool.py, active_job.py and processes.py of *)
(* scripts/e2e_scheduler, and the orchestrator processes they start.       *)
(*                                                                         *)
(* Capsules start in threads of their own, each with a browser and an      *)
(* orchestrator whose backend serves a port that was free a moment before. *)
(* Jobs run Playwright processes against that port.  The main thread asks  *)
(* all capsules to stop when one fails to start or on Ctrl-C, and closes   *)
(* them when every thread has ended.  Closing a process may leave some of  *)
(* its tree or its port behind, which is an error (stuck).                 *)
(***************************************************************************)
EXTENDS Integers, FiniteSets

CONSTANTS Capsule,
          CrossLane,   \* capsules whose first engine is not the default one
          Port,
          MaxStart,    \* _MAX_PORT_START_ATTEMPTS
          MaxJob,      \* MaxJob[c]: bound on the jobs of c
          NoPort

ASSUME CapsuleAssumption ==
    CrossLane \subseteq Capsule /\ NoPort \notin Port /\ MaxStart \in Nat \ {0} /\ MaxJob \in [Capsule -> Nat]

VARIABLES capsule,     \* of every capsule: its thread, events and handles
          alive,       \* alive[c]: processes of c
          server,      \* server[c]: the orchestrator that c started last
          main         \* the run's main thread

capsuleVars == <<capsule, alive, server, main>>

Engine == {"first", "second"}

CapsulesInit ==
    /\ capsule = [c \in Capsule |-> [at |-> "new", tries |-> 1, port |-> NoPort, stop |-> "no", active |-> FALSE, engines |-> {},
                                     owned |-> FALSE, jobs |-> 0, dirty |-> FALSE, error |-> FALSE]]
    /\ alive = [c \in Capsule |-> {}]
    /\ server = [c \in Capsule |-> "none"]
    /\ main = [at |-> "starting", halt |-> FALSE]

At(c, at) == capsule[c].at = at
Stopped(c) == capsule[c].stop # "no"

\* OwnedProcess.spawn
Spawn(c, p) == alive' = [alive EXCEPT ![c] = @ \cup {p}]

\* OwnedProcess.close of each of ps; the orchestrator is one of them.
CloseAll(c, ps, stuck) ==
    /\ alive' = [alive EXCEPT ![c] = @ \ (ps \ stuck)]
    /\ server' = [server EXCEPT ![c] = IF "orchestrator" \in ps /\ @ # "none" THEN "exited" ELSE @]

CapsuleFails(c) == capsule' = [capsule EXCEPT ![c].at = "failed", ![c].error = TRUE]

\* close_acquired_services tries all of them, then the start raises.
StartRaises(c, ps) == /\ \E stuck \in SUBSET (ps \cap alive[c]) : CloseAll(c, ps, stuck)
                      /\ CapsuleFails(c)
                      /\ UNCHANGED main

---------------------------------------------------------------------------
(* WorkerCapsule.start                                                     *)

StartBrowser(c) ==
    /\ At(c, "new")
    /\ \/ ~ Stopped(c) /\ Spawn(c, "first") /\ capsule' = [capsule EXCEPT ![c].at = "browser"]
       \/ CapsuleFails(c) /\ UNCHANGED alive
    /\ UNCHANGED <<server, main>>

\* _wait_for_endpoint
BrowserReady(c) ==
    /\ At(c, "browser")
    /\ capsule' = [capsule EXCEPT ![c].at = "port", ![c].engines = {"first"}]
    /\ UNCHANGED <<alive, server, main>>

BrowserFails(c) == At(c, "browser") /\ StartRaises(c, {"first"})

Serves(p) == \E c \in Capsule : server[c] = "serving" /\ capsule[c].port = p

\* pick_free_port binds a free port and releases it.
PickPort(c) ==
    /\ At(c, "port")
    /\ ~ Stopped(c)
    /\ \E p \in Port : ~ Serves(p) /\ capsule' = [capsule EXCEPT ![c].at = "launch", ![c].port = p]
    /\ UNCHANGED <<alive, server, main>>

StartCancelled(c) == At(c, "port") /\ Stopped(c) /\ StartRaises(c, capsule[c].engines)

\* No socket can be bound: pick_free_port is called outside the try block.
PortFails(c) == At(c, "port") /\ CapsuleFails(c) /\ UNCHANGED <<alive, server, main>>

StartOrchestrator(c) ==
    /\ At(c, "launch")
    /\ Spawn(c, "orchestrator")
    /\ server' = [server EXCEPT ![c] = "booting"]
    /\ capsule' = [capsule EXCEPT ![c].at = "wait"]
    /\ UNCHANGED main

LaunchFails(c) == At(c, "launch") /\ StartRaises(c, capsule[c].engines)

\* wait_until_up: somebody answers on the port and the process has not exited.
ServicesReady(c) ==
    /\ At(c, "wait")
    /\ Serves(capsule[c].port) /\ server[c] # "exited"
    /\ capsule' = [capsule EXCEPT ![c].at = "ready", ![c].owned = TRUE]
    /\ UNCHANGED <<alive, server, main>>

\* The process exited, the wait timed out or a stop was requested.  Only a
\* process that exited, with nothing left of it, is started again.
ServicesFail(c) ==
    /\ At(c, "wait")
    /\ \E stuck \in SUBSET ({"orchestrator"} \cup capsule[c].engines) :
          LET again == server[c] = "exited" /\ "orchestrator" \notin stuck /\ ~ Stopped(c) /\ capsule[c].tries < MaxStart
              ps == {"orchestrator"} \cup (IF again THEN {} ELSE capsule[c].engines)
          IN  /\ stuck \subseteq ps
              /\ CloseAll(c, ps, stuck)
              /\ IF again THEN capsule' = [capsule EXCEPT ![c].at = "port", ![c].tries = @ + 1] ELSE CapsuleFails(c)
    /\ UNCHANGED main

\* The orchestrator process: its backend serves the port, unless it is taken
\* or something else goes wrong.  What it started may outlive it.
Boots(c) ==
    /\ server[c] = "booting"
    /\ \/ ~ Serves(capsule[c].port) /\ server' = [server EXCEPT ![c] = "serving"]
       \/ server' = [server EXCEPT ![c] = "exited"]
    /\ UNCHANGED <<capsule, alive, main>>

StartStep(c) ==
    \/ StartBrowser(c) \/ BrowserReady(c) \/ BrowserFails(c) \/ PickPort(c) \/ StartCancelled(c) \/ PortFails(c)
    \/ StartOrchestrator(c) \/ LaunchFails(c) \/ ServicesReady(c) \/ ServicesFail(c)

---------------------------------------------------------------------------
(* WorkerCapsule.run_job                                                   *)

\* The queue hands out no job once it was stopped.
TakeJob(c) ==
    /\ main.at = "pool" /\ ~ main.halt
    /\ At(c, "ready") /\ capsule[c].jobs < MaxJob[c]
    /\ capsule' = [capsule EXCEPT ![c].at = "acquire", ![c].jobs = @ + 1]
    /\ UNCHANGED <<alive, server, main>>

\* retire_others: a capsule of the other engines closes them before it helps
\* with the default one.
Retired(c, e) == IF c \in CrossLane /\ e = "second" THEN capsule[c].engines \ {e} ELSE {}

\* Mutant: a browser leaves the pool whether or not it closed.
MutantAcquireBrowser(c) ==
    /\ At(c, "acquire")
    /\ \E e \in Engine :
          LET retired == Retired(c, e)
          IN  \E stuck \in SUBSET retired :
                 /\ alive' = [alive EXCEPT ![c] = (@ \ (retired \ stuck)) \cup {e}]
                 /\ capsule' = [capsule EXCEPT ![c].at = "spawn", ![c].engines = (@ \ retired) \cup {e}]
    /\ UNCHANGED <<server, main>>

\* acquire_browser: a browser that does not close stays in the pool.
AcquireBrowser(c) ==
    /\ At(c, "acquire")
    /\ \E e \in Engine :
          LET retired == Retired(c, e)
              kept == capsule[c].engines \ retired
          IN  \E stuck \in SUBSET retired :
                 \/ /\ stuck = {} /\ (e \notin kept => ~ Stopped(c))
                    /\ alive' = [alive EXCEPT ![c] = (@ \ retired) \cup {e}]
                    /\ capsule' = [capsule EXCEPT ![c].at = "spawn", ![c].engines = kept \cup {e}]
                 \/ /\ stuck # {} \/ e \notin kept
                    /\ \E lost \in SUBSET ({e} \ kept) : alive' = [alive EXCEPT ![c] = (@ \ (retired \ stuck)) \cup (IF stuck = {} THEN lost ELSE {})]
                    /\ capsule' = [capsule EXCEPT ![c].at = "failed", ![c].error = TRUE, ![c].engines = kept \cup stuck]
    /\ UNCHANGED <<server, main>>

\* prepare_job_paths raises, outside the block that resets.
PathsFail(c) == At(c, "spawn") /\ CapsuleFails(c) /\ UNCHANGED <<alive, server, main>>

\* run_playwright_process; a spawn that fails is raised after the reset.
SpawnTests(c) ==
    /\ At(c, "spawn")
    /\ \/ /\ Spawn(c, "tests")
          /\ capsule' = [capsule EXCEPT ![c].at = "spawned", ![c].dirty = TRUE]
       \/ capsule' = [capsule EXCEPT ![c].at = "reset", ![c].error = TRUE] /\ UNCHANGED alive
    /\ UNCHANGED <<server, main>>

\* Mutant: the request is looked at before the process is known.
MutantActivate(c) ==
    /\ At(c, "spawned")
    /\ capsule' = [capsule EXCEPT ![c].at = "tests", ![c].active = TRUE]
    /\ UNCHANGED <<alive, server, main>>

\* ActiveJobController.activate, under its lock.
Activate(c) ==
    /\ At(c, "spawned")
    /\ capsule' = [capsule EXCEPT ![c].at = "tests", ![c].active = TRUE]
    /\ alive' = [alive EXCEPT ![c] = IF Stopped(c) THEN @ \ {"tests"} ELSE @]
    /\ UNCHANGED <<server, main>>

TestsExit(c) ==
    /\ At(c, "tests") /\ "tests" \in alive[c]
    /\ alive' = [alive EXCEPT ![c] = @ \ {"tests"}]
    /\ UNCHANGED <<capsule, server, main>>

\* wait returns: deactivate, then the tree is closed.
TestsEnd(c) ==
    /\ At(c, "tests") /\ "tests" \notin alive[c]
    /\ \E stuck \in SUBSET {"tests"} :
          /\ alive' = [alive EXCEPT ![c] = @ \cup stuck]
          /\ capsule' = [capsule EXCEPT ![c].at = "reset", ![c].active = FALSE, ![c].error = @ \/ stuck # {}]
    /\ UNCHANGED <<server, main>>

\* reset_capsule_state: the database (retried while it is locked), then the
\* directories.  What fails is raised, and the worker takes no more jobs.
ResetCapsule(c) ==
    /\ At(c, "reset")
    /\ \/ capsule' = [capsule EXCEPT ![c].at = IF capsule[c].error THEN "failed" ELSE "ready", ![c].dirty = FALSE]
       \/ CapsuleFails(c)
    /\ UNCHANGED <<alive, server, main>>

JobStep(c) == AcquireBrowser(c) \/ PathsFail(c) \/ SpawnTests(c) \/ Activate(c) \/ TestsEnd(c) \/ ResetCapsule(c)

---------------------------------------------------------------------------
(* The main thread                                                         *)

Quiet == \A c \in Capsule : capsule[c].at \in {"ready", "failed"}

\* start_capsules returns: into the pool, or on to cleanup.
PoolStarts ==
    /\ main.at = "starting" /\ Quiet
    /\ IF \E c \in Capsule : At(c, "failed") THEN main' = [main EXCEPT !.at = "closing"]
       ELSE ~ main.halt /\ main' = [main EXCEPT !.at = "pool"]
    /\ UNCHANGED <<capsule, alive, server>>

\* The first failed start, or Ctrl-C.
Halt ==
    /\ ~ main.halt
    /\ main.at \in {"starting", "pool"}
    /\ main' = [main EXCEPT !.halt = TRUE]
    /\ UNCHANGED <<capsule, alive, server>>

\* request_stop: the events first, ...
RequestStop(c) ==
    /\ main.halt /\ capsule[c].stop = "no"
    /\ capsule' = [capsule EXCEPT ![c].stop = "set"]
    /\ UNCHANGED <<alive, server, main>>

\* ... then, under the lock, the process that is active.
StopActive(c) ==
    /\ capsule[c].stop = "set"
    /\ capsule' = [capsule EXCEPT ![c].stop = "swept"]
    /\ alive' = [alive EXCEPT ![c] = IF capsule[c].active THEN @ \ {"tests"} ELSE @]
    /\ UNCHANGED <<server, main>>

\* All threads have ended: no job is left, or the queue was stopped.
Ended ==
    /\ main.at \in {"starting", "pool"} /\ Quiet
    /\ main.at = "starting" => main.halt
    /\ main.halt => \A c \in Capsule : capsule[c].stop = "swept"
    /\ main' = [main EXCEPT !.at = "closing"]
    /\ UNCHANGED <<capsule, alive, server>>

\* What CapsuleServices.close closes, if the start handed the services over.
Services(c) == IF capsule[c].owned THEN capsule[c].engines \cup {"orchestrator"} ELSE {}

\* WorkerCapsule.close: services that were started, then files and database.
CloseCapsule(c) ==
    /\ main.at = "closing" /\ capsule[c].at # "closed"
    /\ \E stuck \in SUBSET (Services(c) \cap alive[c]), files \in BOOLEAN :
          /\ CloseAll(c, Services(c), stuck)
          /\ capsule' = [capsule EXCEPT ![c].at = "closed", ![c].error = @ \/ stuck # {} \/ ~ files]
    /\ UNCHANGED main

MainStep == PoolStarts \/ Ended \/ \E c \in Capsule : RequestStop(c) \/ StopActive(c) \/ CloseCapsule(c)

CapsulesNext ==
    \/ MainStep \/ Halt
    \/ \E c \in Capsule : StartStep(c) \/ Boots(c) \/ TakeJob(c) \/ JobStep(c) \/ TestsExit(c)

CapsulesSpec == CapsulesInit /\ [][CapsulesNext]_capsuleVars

---------------------------------------------------------------------------
(* Properties                                                              *)

\* Nothing is left behind in silence.  A job finds no rows of another job in
\* the database, and a process that outlives its capsule comes with an error:
\* a start, a job or the close of the capsule failed, so the run is no success
\* (docs/local-e2e-scheduler.md, B).
NothingLeftSilently ==
    \A c \in Capsule :
        /\ At(c, "acquire") \/ At(c, "spawn") => ~ capsule[c].dirty
        /\ At(c, "closed") /\ alive[c] # {} => capsule[c].error

\* A stop reaches a job that hangs, also one whose process was spawned before
\* the request and became known after it.
StopReaches == \A c \in Capsule : Stopped(c) /\ capsule[c].at \in {"spawned", "tests"} ~> capsule[c].at \notin {"spawned", "tests"}
============================================================================
