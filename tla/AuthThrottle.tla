--------------------------- MODULE AuthThrottle ---------------------------
(***************************************************************************)
(* The counters that slow down guessing (backend/app/api/routes/auth.py).  *)
(*                                                                         *)
(* RegisterThrottle counts attempts to register, to resend a mail and to   *)
(* verify a code: an attempt is counted first and admitted if the count it *)
(* then reads is within the limit.  LoginThrottle counts failed log-ins:   *)
(* the count is checked first, then the password, then a failure is        *)
(* counted.  The two counters share no state: a behaviour follows one key of *)
(* one of them, with all requests that use it.                             *)
(***************************************************************************)
EXTENDS Integers, FiniteSets

CONSTANTS Attempt,      \* requests in flight
          Limit,        \* attempts (failures) a window allows
          Window,       \* length of a window
          Tries,        \* how often a lost insert is tried again
          MaxClock,     \* bound: how far the clock runs
          MaxCount      \* bound: how often one window is counted

ASSUME ThrottleAssumption ==
    /\ {Limit, Window, Tries, MaxClock, MaxCount} \subseteq Nat \ {0}
    /\ IsFiniteSet(Attempt)

VARIABLES counter,   \* which counter: "attempts" (RegisterThrottle) or "failures" (LoginThrottle)
          clock,
          tally,     \* its row for the key
          att,       \* the requests
          spent      \* history: attempts admitted, or passwords refused, in the row's window

throttleVars == <<counter, clock, tally, att, spent>>

NoRow == [count |-> 0, start |-> -1]
AtRest == [step |-> "rest", now |-> 0, tries |-> 0, current |-> FALSE, seen |-> NoRow]

ThrottleInit ==
    /\ counter \in {"attempts", "failures"}
    /\ clock = 0 /\ tally = NoRow /\ spent = 0
    /\ att = [a \in Attempt |-> AtRest]

Leaves(a) == att' = [att EXCEPT ![a] = AtRest]
Over(now) == tally.start < now - Window

\* A new window begins: what was counted before belongs to an older one.
Outdated == [a \in Attempt |-> [att[a] EXCEPT !.current = FALSE]]

---------------------------------------------------------------------------
(* _consume_register_throttle_attempt                                      *)

Attempts(a) ==
    /\ counter = "attempts" /\ att[a] = AtRest
    /\ att' = [att EXCEPT ![a] = [AtRest EXCEPT !.step = "count", !.now = clock]]
    /\ UNCHANGED <<counter, clock, tally, spent>>

\* One update counts the attempt, or begins a new window with it.
Count(a) ==
    LET now == att[a].now
    IN  /\ att[a].step = "count"
        /\ \/ /\ tally = NoRow
              /\ att' = [att EXCEPT ![a].step = "insert"]
              /\ UNCHANGED <<tally, spent>>
           \/ /\ tally # NoRow /\ Over(now)
              /\ tally' = [count |-> 1, start |-> now]
              /\ spent' = 0
              /\ att' = [Outdated EXCEPT ![a].step = "read", ![a].current = TRUE]
           \/ /\ tally # NoRow /\ ~ Over(now) /\ tally.count < MaxCount
              /\ tally' = [tally EXCEPT !.count = @ + 1]
              /\ att' = [att EXCEPT ![a].step = "read", ![a].current = TRUE]
              /\ UNCHANGED spent
        /\ UNCHANGED <<counter, clock>>

\* Two first attempts insert at the same time: the loser counts again, until it
\* gives up.
InsertCount(a) ==
    /\ att[a].step = "insert"
    /\ \/ /\ tally = NoRow
          /\ tally' = [count |-> 1, start |-> att[a].now]
          /\ spent' = 0
          /\ att' = [Outdated EXCEPT ![a].step = "read", ![a].current = TRUE]
       \/ /\ tally # NoRow
          /\ att' = [att EXCEPT ![a] = IF att[a].tries + 1 < Tries THEN [att[a] EXCEPT !.step = "count", !.tries = @ + 1] ELSE AtRest]
          /\ UNCHANGED <<tally, spent>>
    /\ UNCHANGED <<counter, clock>>

WithinLimit(a) == tally = NoRow \/ att[a].now - tally.start > Window \/ tally.count <= Limit

ReadCount(a) ==
    /\ att[a].step = "read"
    /\ spent' = IF WithinLimit(a) /\ att[a].current THEN spent + 1 ELSE spent
    /\ Leaves(a)
    /\ UNCHANGED <<counter, clock, tally>>

---------------------------------------------------------------------------
(* login                                                                   *)

\* A window that is over is reset, then the count is read.
LoginReads(a) ==
    LET after == IF tally # NoRow /\ Over(clock) THEN [count |-> 0, start |-> clock] ELSE tally
    IN  /\ counter = "failures" /\ att[a] = AtRest
        /\ tally' = after
        /\ spent' = IF after # tally THEN 0 ELSE spent
        /\ att' = IF after.count >= Limit THEN att
                  ELSE [att EXCEPT ![a] = [AtRest EXCEPT !.step = "password", !.now = clock, !.seen = after]]
        /\ UNCHANGED <<counter, clock>>

\* The password is right: the row this request read is deleted.
PasswordRight(a) ==
    /\ att[a].step = "password"
    /\ IF att[a].seen # NoRow THEN tally' = NoRow /\ spent' = 0 ELSE UNCHANGED <<tally, spent>>
    /\ Leaves(a)
    /\ UNCHANGED <<counter, clock>>

\* It is wrong (or there is no such user): the failure will be recorded.
PasswordWrong(a) ==
    /\ att[a].step = "password"
    /\ att' = [att EXCEPT ![a].step = "record"]
    /\ spent' = spent + 1
    /\ UNCHANGED <<counter, clock, tally>>

MutantReadModifyWrite(a) ==
    IF tally = NoRow THEN [count |-> 1, start |-> att[a].now] ELSE [tally EXCEPT !.count = att[a].seen.count + 1]

\* _record_login_failure: the database adds one to the row, or a row is
\* inserted; a lost insert ends in the update all the same.
RecordedFailure(a) ==
    IF tally = NoRow THEN [count |-> 1, start |-> att[a].now] ELSE [tally EXCEPT !.count = @ + 1]

RecordFailure(a) ==
    /\ att[a].step = "record"
    /\ tally' = RecordedFailure(a)
    /\ Leaves(a)
    /\ UNCHANGED <<counter, clock, spent>>

---------------------------------------------------------------------------
\* _maybe_cleanup_auth_artifacts: a row whose window is long over is deleted.
ForgetOld ==
    /\ tally # NoRow /\ tally.start < clock - 4 * Window
    /\ tally' = NoRow /\ spent' = 0
    /\ att' = Outdated
    /\ UNCHANGED <<counter, clock>>

\* Time passes; a request is answered within the life of a row.
ClockTicks ==
    /\ clock < MaxClock
    /\ \A a \in Attempt : att[a] # AtRest => clock < att[a].now + 2 * Window
    /\ clock' = clock + 1
    /\ UNCHANGED <<counter, tally, att, spent>>

ThrottleNext ==
    \/ \E a \in Attempt :
          \/ Attempts(a) \/ Count(a) \/ InsertCount(a) \/ ReadCount(a)
          \/ LoginReads(a) \/ PasswordRight(a) \/ PasswordWrong(a) \/ RecordFailure(a)
    \/ ForgetOld
    \/ ClockTicks

ThrottleSpec == ThrottleInit /\ [][ThrottleNext]_throttleVars

---------------------------------------------------------------------------
(* Properties                                                              *)

\* Of the attempts counted in one window no more than Limit are admitted while
\* it lasts, however counting, reading and lost inserts interleave.  Passwords
\* are checked before a failure is counted, so log-ins in flight may exceed the
\* limit by their number, but never by more.
ThrottleHolds ==
    spent <= IF counter = "attempts" THEN Limit ELSE Limit - 1 + Cardinality(Attempt)
===========================================================================
