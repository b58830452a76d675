--------------------------- MODULE Orchestrator ----------------------------
(***************************************************************************)
(* orchestrator.py: one process that runs the backend and the frontend     *)
(* development server, and ends both when one of them exits or on Ctrl-C.  *)
(* Ctrl-C only sets a flag, so it may come at any step; either child may   *)
(* exit at any step; a child may resist to be terminated.                  *)
(***************************************************************************)
EXTENDS Integers, Sequences

VARIABLES orch,          \* the main thread
          running        \* children that are alive

orchestratorVars == <<orch, running>>

\* known: children in a local variable of main.  todo: calls of terminate
\* still to make.  resisted: a child was there after its terminate.  skip: the
\* option --skip-frontend.
OrchestratorInit ==
    /\ \E skip \in BOOLEAN :
          orch = [at |-> "ports", skip |-> skip, shutdown |-> FALSE, known |-> {}, todo |-> <<>>, resisted |-> FALSE, code |-> "none"]
    /\ running = {}

Finally == <<"frontend", "backend">>

\* return, or an exception: on to the finally clause.
Return(code) == orch' = [orch EXCEPT !.at = "ending", !.todo = Finally, !.code = code]

\* request_shutdown
Signal ==
    /\ orch.at # "exited" /\ ~ orch.shutdown
    /\ orch' = [orch EXCEPT !.shutdown = TRUE]
    /\ UNCHANGED running

ChildExits ==
    /\ \E p \in running : running' = running \ {p}
    /\ UNCHANGED orch

\* ensure_required_ports_available and ensure_frontend_deps.
CheckPorts ==
    /\ orch.at = "ports"
    /\ orch' = [orch EXCEPT !.at = "backend"] \/ Return("error")
    /\ UNCHANGED running

\* Mutant: Ctrl-C raises KeyboardInterrupt.
MutantSpawnBackend ==
    /\ orch.at = "backend"
    /\ \/ running' = running \cup {"backend"} /\ orch' = [orch EXCEPT !.at = "ready", !.known = @ \cup {"backend"}]
       \/ running' = running \cup {"backend"} /\ Return("error")
       \/ UNCHANGED running /\ Return("error")

SpawnBackend ==
    /\ orch.at = "backend"
    /\ \/ running' = running \cup {"backend"} /\ orch' = [orch EXCEPT !.at = "ready", !.known = @ \cup {"backend"}]
       \/ UNCHANGED running /\ Return("error")

\* wait_for_backend_ready: whoever answers /healthz; or the
\* backend has exited, or no answer in time.
BackendReady ==
    /\ orch.at = "ready"
    /\ \/ ~ orch.shutdown /\ orch' = [orch EXCEPT !.at = IF orch.skip THEN "loop" ELSE "frontend"]
       \/ Return(IF orch.shutdown THEN "ok" ELSE "error")
    /\ UNCHANGED running

SpawnFrontend ==
    /\ orch.at = "frontend"
    /\ \/ running' = running \cup {"frontend"} /\ orch' = [orch EXCEPT !.at = "loop", !.known = @ \cup {"frontend"}]
       \/ UNCHANGED running /\ Return("error")

\* wait_loop terminates the child that is left, or both, and returns.
WaitLoop ==
    /\ orch.at = "loop"
    /\ \/ orch.shutdown /\ orch' = [orch EXCEPT !.at = "ending", !.todo = Finally \o Finally, !.code = "ok"]
       \/ /\ ~ orch.shutdown /\ orch.known \ running # {}
          /\ LET other == IF "backend" \notin running THEN "frontend" ELSE "backend"
             IN  orch' = [orch EXCEPT !.at = "ending", !.todo = <<other>> \o Finally, !.code = "child"]
    /\ UNCHANGED running

\* terminate: nothing to do for a child that is not known or has exited.
\* One that resists is given up: silently (Windows), or TimeoutExpired skips
\* what the clause had left to do and, from wait_loop, leads to finally.
Terminate ==
    /\ orch.at = "ending" /\ orch.todo # <<>>
    /\ LET p == Head(orch.todo)
           rest == Tail(orch.todo)
       IN  IF p \in orch.known \cap running
           THEN \/ running' = running \ {p} /\ orch' = [orch EXCEPT !.todo = rest]
                \/ UNCHANGED running /\ orch' = [orch EXCEPT !.todo = rest, !.resisted = TRUE]
                \/ /\ UNCHANGED running
                   /\ orch' = [orch EXCEPT !.todo = IF Len(rest) >= 2 THEN Finally ELSE <<>>, !.resisted = TRUE, !.code = "error"]
           ELSE UNCHANGED running /\ orch' = [orch EXCEPT !.todo = rest]

\* The log threads and wait_for_ports_closed are bounded; main returns.
Exit ==
    /\ orch.at = "ending" /\ orch.todo = <<>>
    /\ orch' = [orch EXCEPT !.at = "exited"]
    /\ UNCHANGED running

OrchestratorStep ==
    \/ CheckPorts \/ SpawnBackend \/ BackendReady \/ SpawnFrontend \/ WaitLoop \/ Terminate \/ Exit

OrchestratorNext == OrchestratorStep \/ Signal \/ ChildExits

---------------------------------------------------------------------------
(* Properties                                                              *)

\* Ctrl-C ends the orchestrator, wherever it is; and whatever made it end, a
\* signal, a child or a spawn that failed, it ends with no child alive.  Only a
\* child that resisted its terminate may stay.
ChildrenEnd ==
    orch.shutdown \/ orch.at = "ending" ~> orch.at = "exited" /\ (running = {} \/ orch.resisted)
============================================================================
