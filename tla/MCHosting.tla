----------------------------- MODULE MCHosting -----------------------------
(***************************************************************************)
(* What surrounds the jobs of an end-to-end run: the capsules they run in, *)
(* the orchestrator process, the publication of the evidence and the lock  *)
(* between runs.  The four share no state at this level of detail, so a    *)
(* behaviour follows one of them.                                          *)
(***************************************************************************)
EXTENDS Capsules, Orchestrator, Publication, LocalRun

CONSTANT Busy       \* the capsule that runs jobs

VARIABLE part

hostingVars == <<capsuleVars, orchestratorVars, publicationVars, localVars, part>>

MCMaxJob == [c \in Capsule |-> IF c = Busy THEN 2 ELSE 0]

File(dir, name, kind, of) == [dir |-> dir, name |-> name, kind |-> kind, of |-> of]
Pair(dir) == {File(dir, "p", "png", "none"), File(dir, "m", "json", "p")}

Good(j) == [ran |-> TRUE, code |-> 0, clean |-> TRUE, sound |-> TRUE, report |-> <<<<j, "passed">>>>,
            expected |-> <<"e">>, actual |-> {"e"}, uiux |-> {}]

\* A job that did everything right, or one thing wrong, or has evidence.
Outcomes(j) ==
    {Good(j)}
    \cup {[Good(j) EXCEPT !.ran = FALSE], [Good(j) EXCEPT !.code = 1], [Good(j) EXCEPT !.clean = FALSE], [Good(j) EXCEPT !.sound = FALSE]}
    \cup {[Good(j) EXCEPT !.report = r] : r \in {<<>>, <<<<j, "passed">>, <<j, "passed">>>>, <<<<j, "flaky">>>>, <<<<j, "skipped">>>>}}
    \cup {[Good(j) EXCEPT !.expected = <<"e", "e">>], [Good(j) EXCEPT !.actual = {}],
          [Good(j) EXCEPT !.expected = <<"e", "empty">>, !.actual = {"e", "empty"}]}
    \cup {[Good(j) EXCEPT !.uiux = u] : u \in {Pair("d1"), Pair(j), {File(j, "p", "png", "none")}, {File(j, "m", "json", "p")},
                                               Pair(j) \cup {File(j, "m2", "json", "p")}}}

MCOutcome == UNION {Outcomes(j) : j \in Job}

Parts == {"capsules", "orchestrator", "publication", "runs"}

\* The parts that rest stay in one of their initial states.
MCInit ==
    /\ part \in Parts
    /\ CapsulesInit /\ OrchestratorInit /\ PublicationInit /\ LocalInit
    /\ part # "orchestrator" => ~ orch.skip
    /\ part # "publication" => result = [j \in Job |-> Good(j)] /\ \A t \in Target : before[t] = "none"
    /\ part # "runs" => \A r \in Run : run[r].mode = "legacy" /\ ~ run[r].bench

InCapsules(A) == part = "capsules" /\ A /\ UNCHANGED <<orchestratorVars, publicationVars, localVars, part>>
InOrchestrator(A) == part = "orchestrator" /\ A /\ UNCHANGED <<capsuleVars, publicationVars, localVars, part>>
InPublication(A) == part = "publication" /\ A /\ UNCHANGED <<capsuleVars, orchestratorVars, localVars, part>>
InRuns(A) == part = "runs" /\ A /\ UNCHANGED <<capsuleVars, orchestratorVars, publicationVars, part>>

MCNext ==
    \/ InCapsules(CapsulesNext)
    \/ InOrchestrator(OrchestratorNext)
    \/ InPublication(PublicationNext)
    \/ InRuns(LocalNext)

\* The threads of the capsules run on and the main thread asks every capsule
\* to stop; tests may hang.  Every wait of the orchestrator has a time limit
\* (npm install is assumed to end).
MCFairness ==
    /\ \A c \in Capsule : /\ WF_hostingVars(InCapsules(StartStep(c)))
                          /\ WF_hostingVars(InCapsules(JobStep(c)))
                          /\ WF_hostingVars(InCapsules(RequestStop(c) \/ StopActive(c)))
    /\ WF_hostingVars(InOrchestrator(OrchestratorStep))

MCSpec == MCInit /\ [][MCNext]_hostingVars /\ MCFairness
============================================================================
