----------------------------- MODULE MCWorkers -----------------------------
(***************************************************************************)
(* What several worker processes share: the import lease of a household    *)
(* and its WebSockets.  They share no state, so a behaviour follows one of *)
(* them.                                                                   *)
(*                                                                         *)
(* Two import workers are a crashed or overtaken holder and a contender in *)
(* turn; the clock runs long enough for a take-over and for the take-over  *)
(* of what was taken over (WorkerProofs covers any number of workers).     *)
(* Two connection attempts use two tickets on two servers around their     *)
(* expiry.                                                                 *)
(***************************************************************************)
EXTENDS ImportLock, WsAccess

VARIABLE part

workerVars == <<vars, wsVars, part>>

MCInit == part \in {"lease", "sockets"} /\ Init /\ WsInit

InLease(A) == part = "lease" /\ A /\ UNCHANGED <<wsVars, part>>
InSockets(A) == part = "sockets" /\ A /\ UNCHANGED <<vars, part>>

MCNext == InLease(Next) \/ InSockets(WsNext)

\* Requests keep being made and served; a take-over that is started again and
\* again is not cut short by a crash every time.  The handler's loop goes
\* round: receive_text is given a timeout, so neither a silent nor a talkative
\* client keeps it from the next check.
MCFairness ==
    /\ \A w \in Worker : WF_workerVars(InLease(Progress(w))) /\ SF_workerVars(InLease(TakeOver(w)))
    /\ \A s \in Socket : WF_workerVars(InSockets(Recheck(s)))

MCSpec == MCInit /\ [][MCNext]_workerVars /\ MCFairness
============================================================================
