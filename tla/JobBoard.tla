------------------------------ MODULE JobBoard ------------------------------
(***************************************************************************)
(* What a scheduler run promises, whatever its workers, capacity and       *)
(* capsules do: a job is taken once, two jobs with a common resource lock  *)
(* never run together, and a run is published only when every job has      *)
(* reported success.  Scheduler is shown to implement it.                  *)
(***************************************************************************)
CONSTANTS Job,
          Locks      \* Locks[j]: the shared resources of job j

VARIABLES state,     \* of every job: "pending", "running" or "ended"
          passed,    \* jobs with a reported success
          verdict    \* "open", "published" or "failed"

boardVars == <<state, passed, verdict>>

BoardInit ==
    /\ state = [j \in Job |-> "pending"]
    /\ passed = {}
    /\ verdict = "open"

Take(j) ==
    /\ verdict = "open" /\ state[j] = "pending"
    /\ \A k \in Job : state[k] = "running" => Locks[k] \cap Locks[j] = {}
    /\ state' = [state EXCEPT ![j] = "running"]
    /\ UNCHANGED <<passed, verdict>>

End(j) ==
    /\ verdict = "open" /\ state[j] = "running"
    /\ state' = [state EXCEPT ![j] = "ended"]
    /\ UNCHANGED <<passed, verdict>>

Report(j) ==
    /\ verdict = "open" /\ state[j] = "ended" /\ j \notin passed
    /\ passed' = passed \cup {j}
    /\ UNCHANGED <<state, verdict>>

Publish ==
    /\ verdict = "open" /\ passed = Job
    /\ verdict' = "published"
    /\ UNCHANGED <<state, passed>>

GiveUp ==
    /\ verdict = "open" /\ \A j \in Job : state[j] # "running"
    /\ verdict' = "failed"
    /\ UNCHANGED <<state, passed>>

BoardNext ==
    \/ \E j \in Job : Take(j) \/ End(j) \/ Report(j)
    \/ Publish \/ GiveUp

BoardSpec == BoardInit /\ [][BoardNext]_boardVars
===========================================================================
