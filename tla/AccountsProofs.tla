-------------------------- MODULE AccountsProofs --------------------------
(***************************************************************************)
(* Proofs about AuthThrottle and Registration: any number of requests and  *)
(* browsers, any limits.                                                   *)
(***************************************************************************)
EXTENDS AuthThrottle, Registration, FiniteSetTheorems, SequenceTheorems, TLAPS

---------------------------------------------------------------------------
(* AuthThrottle.                                                           *)

Tally == [count : Nat, start : Int]
Step == {"rest", "count", "insert", "read", "password", "record"}
Serving == [step : Step, now : Nat, tries : Nat, current : BOOLEAN, seen : Tally]

\* The type invariant of AuthThrottle: a request takes the steps of its counter.
ThrottleTypeOK ==
    /\ counter \in {"attempts", "failures"}
    /\ clock \in Nat
    /\ tally \in Tally
    /\ att \in [Attempt -> Serving]
    /\ spent \in Nat
    /\ \A a \in Attempt :
          att[a].step \in IF counter = "attempts" THEN {"rest", "count", "insert", "read"}
                                                  ELSE {"rest", "password", "record"}

At(step) == {a \in Attempt : att[a].step = step}

\* Attempts counted in the present window whose count is not read yet.
Counted == {a \in At("read") : att[a].current}

\* Every attempt that was counted in this window is in the count.  It reads the
\* row while the window it was counted in lasts by its own clock.
AttemptsInv ==
    counter = "attempts" =>
        /\ \A a \in Counted : tally # NoRow /\ att[a].now - tally.start <= Window
        /\ spent + Cardinality(Counted) <= tally.count
        /\ spent <= Limit

\* Every refused password is counted or will be, and was admitted by a count
\* below the limit together with those in flight.
FailuresInv ==
    counter = "failures" =>
        /\ spent <= tally.count + Cardinality(At("record"))
        /\ spent + Cardinality(At("password")) <= Limit - 1 + Cardinality(Attempt)

\* The inductive invariant.
ThrottleIInv == ThrottleTypeOK /\ AttemptsInv /\ FailuresInv

\* Requests are finite in number, so is every set of them.
LEMMA FewRequests ==
    ASSUME NEW T \in SUBSET Attempt
    PROVE  /\ IsFiniteSet(T) /\ Cardinality(T) \in Nat /\ Cardinality(T) <= Cardinality(Attempt)
           /\ \A a : a \notin T => Cardinality(T \cup {a}) = Cardinality(T) + 1
           /\ \A a \in T : Cardinality(T \ {a}) = Cardinality(T) - 1
  <1>1. IsFiniteSet(T) /\ Cardinality(T) <= Cardinality(Attempt)
    BY ThrottleAssumption, FS_Subset
  <1>2. Cardinality(T) \in Nat
    BY <1>1, FS_CardinalityType
  <1>3. ASSUME NEW a, a \notin T PROVE Cardinality(T \cup {a}) = Cardinality(T) + 1
    BY <1>1, <1>3, FS_AddElement
  <1>4. ASSUME NEW a \in T PROVE Cardinality(T \ {a}) = Cardinality(T) - 1
    BY <1>1, FS_RemoveElement
  <1> QED
    BY <1>1, <1>2, <1>3, <1>4

\* The bounds are numbers.
LEMMA ThrottleBounds ==
    Limit \in Nat /\ Limit >= 1 /\ Window \in Nat /\ Cardinality(Attempt) \in Nat
  <1>1. Cardinality(Attempt) \in Nat
    BY ThrottleAssumption, FS_CardinalityType
  <1> QED
    BY <1>1, ThrottleAssumption

LEMMA RestShapes ==
    AtRest \in Serving /\ AtRest.step = "rest" /\ NoRow \in Tally /\ NoRow.count = 0
  BY DEF AtRest, Serving, Step, NoRow, Tally

\* One request moves on.
LEMMA RequestMoves ==
    ASSUME att \in [Attempt -> Serving], NEW a \in Attempt, NEW x \in Serving, att' = [att EXCEPT ![a] = x]
    PROVE  /\ att' \in [Attempt -> Serving]
           /\ att'[a] = x /\ \A b \in Attempt \ {a} : att'[b] = att[b]
           /\ At(x.step)' = At(x.step) \cup {a}
           /\ \A s : s # x.step => At(s)' = At(s) \ {a}
           /\ x.step = "read" /\ x.current => Counted' = Counted \cup {a}
           /\ ~ (x.step = "read" /\ x.current) => Counted' = Counted \ {a}
  <1>1. att'[a] = x /\ \A b \in Attempt \ {a} : att'[b] = att[b]
    OBVIOUS
  <1>2. At(x.step)' = At(x.step) \cup {a}
    BY <1>1 DEF At
  <1>3. ASSUME NEW s, s # x.step PROVE At(s)' = At(s) \ {a}
    BY <1>1, <1>3 DEF At
  <1>4. x.step = "read" /\ x.current => Counted' = Counted \cup {a}
    BY <1>1 DEF Counted, At
  <1>5. ~ (x.step = "read" /\ x.current) => Counted' = Counted \ {a}
    BY <1>1 DEF Counted, At
  <1> QED
    BY <1>1, <1>2, <1>3, <1>4, <1>5

LEMMA InitThrottleIInv == ThrottleInit => ThrottleIInv
  <1> SUFFICES ASSUME ThrottleInit PROVE ThrottleIInv
    OBVIOUS
  <1>1. ThrottleTypeOK
    BY RestShapes DEF ThrottleInit, ThrottleTypeOK
  <1>2. \A s : s # "rest" => At(s) = {}
    BY RestShapes DEF ThrottleInit, At
  <1>3. Counted = {} /\ At("record") = {} /\ At("password") = {}
    BY <1>2 DEF Counted
  <1>4. Cardinality({}) = 0
    BY FS_EmptySet
  <1>5. tally.count = 0 /\ spent = 0
    BY RestShapes DEF ThrottleInit
  <1>6. AttemptsInv
    BY <1>3, <1>4, <1>5, ThrottleBounds DEF AttemptsInv
  <1>7. FailuresInv
    BY <1>3, <1>4, <1>5, ThrottleBounds DEF FailuresInv
  <1> QED
    BY <1>1, <1>6, <1>7 DEF ThrottleIInv

\* The steps of the counter of attempts.
LEMMA AttemptsStep ==
    ASSUME ThrottleIInv, NEW a \in Attempt,
           Attempts(a) \/ Count(a) \/ InsertCount(a) \/ ReadCount(a)
    PROVE  ThrottleIInv'
  <1>t. /\ clock \in Nat /\ tally \in Tally /\ att \in [Attempt -> Serving] /\ spent \in Nat
        /\ \A b \in Attempt : att[b].step \in IF counter = "attempts" THEN {"rest", "count", "insert", "read"}
                                                                     ELSE {"rest", "password", "record"}
    BY DEF ThrottleIInv, ThrottleTypeOK
  <1>c. counter = "attempts" /\ counter' = counter /\ clock' = clock
    BY <1>t DEF Attempts, Count, InsertCount, ReadCount, ThrottleIInv, ThrottleTypeOK
  <1>i. /\ \A b \in Counted : tally # NoRow /\ att[b].now - tally.start <= Window
        /\ spent + Cardinality(Counted) <= tally.count
        /\ spent <= Limit
    BY <1>c DEF ThrottleIInv, AttemptsInv
  <1>s. att[a] \in Serving /\ att[a].now \in Nat /\ att[a].tries \in Nat /\ tally.count \in Nat /\ tally.start \in Int
    BY <1>t DEF Serving, Tally
  <1>k. Counted \in SUBSET Attempt /\ Counted' \in SUBSET Attempt
    BY DEF Counted, At
  <1>n. Cardinality(Counted) \in Nat /\ Cardinality(Counted') \in Nat
    BY <1>k, FewRequests
  \* It remains to show this of the successor.
  <1>g. ASSUME tally' \in Tally, spent' \in Nat, NEW x \in Serving, x.step \in {"rest", "count", "insert", "read"},
               att' \in [Attempt -> Serving],
               att'[a] = x, \A b \in Attempt \ {a} : att'[b].step = att[b].step,
               \A b \in Counted' : tally' # NoRow /\ att'[b].now - tally'.start <= Window,
               spent' + Cardinality(Counted') <= tally'.count, spent' <= Limit
        PROVE  ThrottleIInv'
    <2>1. ThrottleTypeOK'
      BY <1>c, <1>g, <1>t DEF ThrottleTypeOK
    <2>2. AttemptsInv'
      BY <1>g DEF AttemptsInv
    <2>3. FailuresInv'
      BY <1>c DEF FailuresInv
    <2> QED
      BY <2>1, <2>2, <2>3 DEF ThrottleIInv
  \* A request moves on without being counted.
  <1>m. ASSUME NEW x \in Serving, x.step \in {"rest", "count", "insert"}, a \notin Counted,
               att' = [att EXCEPT ![a] = x], tally' = tally, spent' = spent
        PROVE  ThrottleIInv'
    <2>1. Counted' = Counted /\ att' \in [Attempt -> Serving] /\ att'[a] = x /\ \A b \in Attempt \ {a} : att'[b] = att[b]
      <3>1. Counted \ {a} = Counted
        BY <1>m
      <3> QED
        BY <1>m, <1>t, <3>1, RequestMoves
    <2>2. \A b \in Counted' : tally' # NoRow /\ att'[b].now - tally'.start <= Window
      BY <1>i, <1>k, <1>m, <2>1
    <2> QED
      BY <1>g, <1>i, <1>m, <1>t, <2>1, <2>2
  \* A new window begins with the request's attempt.
  <1>w. ASSUME tally' = [count |-> 1, start |-> att[a].now], spent' = 0,
               att' = [Outdated EXCEPT ![a].step = "read", ![a].current = TRUE]
        PROVE  ThrottleIInv'
    <2> DEFINE x == [att[a] EXCEPT !.current = TRUE, !.step = "read"]
    <2>1. x \in Serving /\ x.step = "read" /\ x.now = att[a].now
      BY <1>s DEF Serving, Step
    <2>2. \A b \in Attempt : /\ [att[b] EXCEPT !.current = FALSE] \in Serving
                             /\ [att[b] EXCEPT !.current = FALSE].current = FALSE
                             /\ [att[b] EXCEPT !.current = FALSE].step = att[b].step
      BY <1>t DEF Serving
    <2>3. Outdated \in [Attempt -> Serving] /\ \A b \in Attempt : Outdated[b] = [att[b] EXCEPT !.current = FALSE]
      BY <2>2 DEF Outdated
    <2>4. [Outdated[a] EXCEPT !.step = "read", !.current = TRUE] = x
      BY <1>s, <2>3 DEF Serving
    <2>5. att' = [Outdated EXCEPT ![a] = x]
      BY <1>w, <2>3, <2>4
    <2> HIDE DEF x
    <2>6. /\ att' \in [Attempt -> Serving] /\ att'[a] = x
          /\ \A b \in Attempt \ {a} : att'[b].step = att[b].step /\ att'[b].current = FALSE
      BY <2>1, <2>2, <2>3, <2>5
    <2>7. Counted' \subseteq {a}
      BY <2>6 DEF Counted, At
    <2>8. Cardinality(Counted') <= 1
      <3>1. CASE Counted' = {}
        BY <3>1, FS_EmptySet
      <3>2. CASE Counted' = {a}
        <4>1. Cardinality({a}) = 1
          BY FS_Singleton
        <4> QED
          BY <3>2, <4>1
      <3> QED
        BY <2>7, <3>1, <3>2
    <2>9. /\ tally' \in Tally /\ tally'.count = 1 /\ tally'.start = att[a].now /\ tally' # NoRow
      BY <1>s, <1>w DEF Tally, NoRow
    <2>10. \A b \in Counted' : tally' # NoRow /\ att'[b].now - tally'.start <= Window
      BY <1>s, <2>1, <2>6, <2>7, <2>9, ThrottleBounds
    <2>11. spent' \in Nat /\ spent' + Cardinality(Counted') <= tally'.count /\ spent' <= Limit
      BY <1>n, <1>w, <2>8, <2>9, ThrottleBounds
    <2> QED
      BY <1>g, <2>1, <2>6, <2>9, <2>10, <2>11
  <1>o. att[a].step # "read" => a \notin Counted
    BY DEF Counted, At
  <1>1. CASE Attempts(a)
    <2> DEFINE x == [AtRest EXCEPT !.step = "count", !.now = clock]
    <2>1. x \in Serving /\ x.step = "count"
      BY <1>t, RestShapes DEF Serving, Step
    <2>2. att' = [att EXCEPT ![a] = x] /\ tally' = tally /\ spent' = spent /\ att[a].step # "read"
      BY <1>1, RestShapes DEF Attempts
    <2> HIDE DEF x
    <2> QED
      BY <1>m, <1>o, <2>1, <2>2
  <1>2. CASE Count(a)
    <2>0. a \notin Counted
      BY <1>2, <1>o DEF Count
    <2>1. CASE tally = NoRow
      <3> DEFINE x == [att[a] EXCEPT !.step = "insert"]
      <3>1. x \in Serving /\ x.step = "insert"
        BY <1>s DEF Serving, Step
      <3>2. att' = [att EXCEPT ![a] = x] /\ tally' = tally /\ spent' = spent
        BY <1>2, <1>t, <2>1 DEF Count
      <3> HIDE DEF x
      <3> QED
        BY <1>m, <2>0, <3>1, <3>2
    <2>2. CASE tally # NoRow /\ Over(att[a].now)
      BY <1>2, <1>w, <2>2 DEF Count
    <2>3. CASE tally # NoRow /\ ~ Over(att[a].now)
      <3> DEFINE x == [att[a] EXCEPT !.step = "read", !.current = TRUE]
      <3>1. x \in Serving /\ x.step = "read" /\ x.current /\ x.now = att[a].now
        BY <1>s DEF Serving, Step
      <3>2. att' = [att EXCEPT ![a] = x] /\ tally' = [tally EXCEPT !.count = @ + 1] /\ spent' = spent
        BY <1>2, <1>t, <2>3 DEF Count
      <3>3. /\ tally' \in Tally /\ tally'.count = tally.count + 1 /\ tally'.start = tally.start
        BY <1>s, <1>t, <3>2 DEF Tally
      <3>4. tally' # NoRow
        <4>1. tally'.count # 0
          BY <1>s, <3>3
        <4> QED
          BY <4>1, RestShapes
      <3> HIDE DEF x
      <3>5. /\ Counted' = Counted \cup {a} /\ att' \in [Attempt -> Serving] /\ att'[a] = x
            /\ \A b \in Attempt \ {a} : att'[b] = att[b]
        BY <1>t, <3>1, <3>2, RequestMoves
      <3>6. Cardinality(Counted') = Cardinality(Counted) + 1
        BY <1>k, <2>0, <3>5, FewRequests
      <3>7. att[a].now - tally.start <= Window
        BY <1>s, <2>3, ThrottleBounds DEF Over
      <3>8. \A b \in Counted' : tally' # NoRow /\ att'[b].now - tally'.start <= Window
        <4> SUFFICES ASSUME NEW b \in Counted' PROVE att'[b].now - tally'.start <= Window
          BY <3>4
        <4>1. CASE b = a
          BY <3>1, <3>3, <3>5, <3>7, <4>1
        <4>2. CASE b # a
          BY <1>i, <1>k, <3>3, <3>5, <4>2
        <4> QED
          BY <4>1, <4>2
      <3>9. spent' \in Nat /\ spent' + Cardinality(Counted') <= tally'.count /\ spent' <= Limit
        BY <1>i, <1>n, <1>s, <1>t, <3>2, <3>3, <3>6
      <3> QED
        BY <1>g, <3>1, <3>3, <3>5, <3>8, <3>9
    <2> QED
      BY <2>1, <2>2, <2>3
  <1>3. CASE InsertCount(a)
    <2>0. a \notin Counted
      BY <1>3, <1>o DEF InsertCount
    <2>1. CASE tally = NoRow
      BY <1>3, <1>w, <2>1 DEF InsertCount
    <2>2. CASE tally # NoRow
      <3> DEFINE x == IF att[a].tries + 1 < Tries THEN [att[a] EXCEPT !.step = "count", !.tries = @ + 1] ELSE AtRest
      <3>1. x \in Serving /\ x.step \in {"count", "rest"}
        <4> DEFINE y == [att[a] EXCEPT !.step = "count", !.tries = @ + 1]
        <4>1. att[a].tries + 1 \in Nat
          BY <1>s
        <4>2. y \in Serving /\ y.step = "count"
          BY <1>s, <4>1 DEF Serving, Step
        <4> HIDE DEF y
        <4>3. x = y \/ x = AtRest
          BY DEF y
        <4> QED
          BY <4>2, <4>3, RestShapes
      <3>2. att' = [att EXCEPT ![a] = x] /\ tally' = tally /\ spent' = spent
        BY <1>3, <2>2 DEF InsertCount
      <3> HIDE DEF x
      <3> QED
        BY <1>m, <2>0, <3>1, <3>2
    <2> QED
      BY <2>1, <2>2
  <1>4. CASE ReadCount(a)
    <2>1. /\ att' = [att EXCEPT ![a] = AtRest] /\ tally' = tally /\ att[a].step = "read"
          /\ spent' = IF WithinLimit(a) /\ att[a].current THEN spent + 1 ELSE spent
      BY <1>4 DEF ReadCount, Leaves
    <2>2. /\ Counted' = Counted \ {a} /\ att' \in [Attempt -> Serving] /\ att'[a] = AtRest
          /\ \A b \in Attempt \ {a} : att'[b] = att[b]
      BY <1>t, <2>1, RequestMoves, RestShapes
    <2>3. \A b \in Counted' : tally' # NoRow /\ att'[b].now - tally'.start <= Window
      BY <1>i, <1>k, <2>1, <2>2
    <2>4. CASE att[a].current
      <3>1. a \in Counted
        BY <2>1, <2>4 DEF Counted, At
      <3>2. Cardinality(Counted') = Cardinality(Counted) - 1
        BY <1>k, <2>2, <3>1, FewRequests
      <3>3. tally # NoRow /\ ~ (att[a].now - tally.start > Window)
        BY <1>i, <1>s, <3>1, ThrottleBounds
      <3>4. WithinLimit(a) => tally.count <= Limit
        BY <3>3 DEF WithinLimit
      <3>5. spent' = spent \/ (spent' = spent + 1 /\ tally.count <= Limit)
        BY <2>1, <3>4
      <3>6. spent' \in Nat /\ spent' + Cardinality(Counted') <= tally'.count /\ spent' <= Limit
        BY <1>i, <1>n, <1>s, <1>t, <2>1, <3>2, <3>5, ThrottleBounds
      <3> QED
        BY <1>g, <1>t, <2>1, <2>2, <2>3, <3>6, RestShapes
    <2>5. CASE ~ att[a].current
      <3>1. a \notin Counted
        BY <2>5 DEF Counted
      <3> QED
        BY <1>m, <2>1, <2>5, <3>1, RestShapes
    <2> QED
      BY <2>4, <2>5
  <1> QED
    BY <1>1, <1>2, <1>3, <1>4

\* The steps of the counter of failures.
LEMMA FailuresStep ==
    ASSUME ThrottleIInv, NEW a \in Attempt,
           LoginReads(a) \/ PasswordRight(a) \/ PasswordWrong(a) \/ RecordFailure(a)
    PROVE  ThrottleIInv'
  <1>t. /\ clock \in Nat /\ tally \in Tally /\ att \in [Attempt -> Serving] /\ spent \in Nat
        /\ \A b \in Attempt : att[b].step \in IF counter = "attempts" THEN {"rest", "count", "insert", "read"}
                                                                     ELSE {"rest", "password", "record"}
    BY DEF ThrottleIInv, ThrottleTypeOK
  <1>c. counter = "failures" /\ counter' = counter /\ clock' = clock
    BY <1>t DEF LoginReads, PasswordRight, PasswordWrong, RecordFailure, ThrottleIInv, ThrottleTypeOK
  <1>i. /\ spent <= tally.count + Cardinality(At("record"))
        /\ spent + Cardinality(At("password")) <= Limit - 1 + Cardinality(Attempt)
    BY <1>c DEF ThrottleIInv, FailuresInv
  <1>s. att[a] \in Serving /\ att[a].now \in Nat /\ tally.count \in Nat /\ tally.start \in Int
    BY <1>t DEF Serving, Tally
  <1>k. \A s : At(s) \in SUBSET Attempt /\ At(s)' \in SUBSET Attempt
    BY DEF At
  <1>n. \A s : Cardinality(At(s)) \in Nat /\ Cardinality(At(s)') \in Nat /\ Cardinality(At(s)') <= Cardinality(Attempt)
    BY <1>k, FewRequests
  \* It remains to show this of the successor.
  <1>g. ASSUME tally' \in Tally, spent' \in Nat, NEW x \in Serving, x.step \in {"rest", "password", "record"},
               att' = [att EXCEPT ![a] = x],
               spent' <= tally'.count + Cardinality(At("record")'),
               spent' + Cardinality(At("password")') <= Limit - 1 + Cardinality(Attempt)
        PROVE  ThrottleIInv'
    <2>1. ThrottleTypeOK'
      BY <1>c, <1>g, <1>t DEF ThrottleTypeOK
    <2>2. AttemptsInv'
      BY <1>c DEF AttemptsInv
    <2>3. FailuresInv'
      BY <1>g DEF FailuresInv
    <2> QED
      BY <2>1, <2>2, <2>3 DEF ThrottleIInv
  <1>1. CASE LoginReads(a)
    <2> DEFINE after == IF tally # NoRow /\ Over(clock) THEN [count |-> 0, start |-> clock] ELSE tally
    <2>1. /\ att[a] = AtRest /\ tally' = after /\ spent' = IF after # tally THEN 0 ELSE spent
          /\ att' = IF after.count >= Limit THEN att
                    ELSE [att EXCEPT ![a] = [AtRest EXCEPT !.step = "password", !.now = clock, !.seen = after]]
      BY <1>1 DEF LoginReads
    <2>2. after \in Tally /\ after.count \in Nat
      <3>1. [count |-> 0, start |-> clock] \in Tally
        BY <1>t DEF Tally
      <3>2. after \in Tally
        BY <1>t, <3>1
      <3> QED
        BY <3>2 DEF Tally
    <2> HIDE DEF after
    <2>3. spent' \in Nat /\ (spent' = 0 \/ (spent' = spent /\ after = tally))
      BY <1>t, <2>1
    <2>4. CASE after.count >= Limit
      <3>1. att' = [att EXCEPT ![a] = att[a]] /\ att' = att
        BY <1>t, <2>1, <2>4
      <3>2. At("record")' = At("record") /\ At("password")' = At("password")
        BY <3>1 DEF At
      <3>3. spent' <= tally'.count + Cardinality(At("record")')
        BY <1>i, <1>n, <2>1, <2>2, <2>3, <3>2
      <3>4. spent' + Cardinality(At("password")') <= Limit - 1 + Cardinality(Attempt)
        BY <1>i, <1>n, <2>3, <3>2, ThrottleBounds
      <3>5. att[a].step = "rest"
        BY <2>1, RestShapes
      <3> QED
        BY <1>g, <1>s, <2>1, <2>2, <2>3, <3>1, <3>3, <3>4, <3>5
    <2>5. CASE ~ (after.count >= Limit)
      <3> DEFINE x == [AtRest EXCEPT !.step = "password", !.now = clock, !.seen = after]
      <3>1. x \in Serving /\ x.step = "password"
        BY <1>t, <2>2, RestShapes DEF Serving, Step
      <3>2. att' = [att EXCEPT ![a] = x]
        BY <2>1, <2>5
      <3> HIDE DEF x
      <3>3. At("record")' = At("record") /\ At("password")' = At("password") \cup {a}
        <4>1. a \notin At("record")
          BY <2>1, RestShapes DEF At
        <4>2. At("record")' = At("record") \ {a} /\ At("password")' = At("password") \cup {a}
          BY <1>t, <3>1, <3>2, RequestMoves
        <4> QED
          BY <4>1, <4>2
      <3>4. Cardinality(At("password")') + Cardinality(At("record")') <= Cardinality(Attempt)
        <4> DEFINE P == At("password")'
                   R == At("record")'
        <4>1. P \cap R = {}
          BY DEF At
        <4>2. P \in SUBSET Attempt /\ R \in SUBSET Attempt /\ P \cup R \in SUBSET Attempt
          BY DEF At
        <4> HIDE DEF P, R
        <4>3. IsFiniteSet(P) /\ IsFiniteSet(R) /\ Cardinality(P) \in Nat /\ Cardinality(R) \in Nat
              /\ Cardinality(P \cup R) <= Cardinality(Attempt)
          BY <4>2, FewRequests
        <4>4. Cardinality(P \cup R) = Cardinality(P) + Cardinality(R) - Cardinality(P \cap R)
          BY <4>3, FS_Union
        <4>5. Cardinality(P \cap R) = 0
          BY <4>1, FS_EmptySet
        <4>6. Cardinality(P) + Cardinality(R) <= Cardinality(Attempt)
          BY <4>3, <4>4, <4>5
        <4> QED
          BY <4>6 DEF P, R
      <3>5. spent' <= tally'.count + Cardinality(At("record")')
        BY <1>i, <1>n, <2>1, <2>2, <2>3, <3>3
      <3>6. spent' + Cardinality(At("password")') <= Limit - 1 + Cardinality(Attempt)
        BY <1>n, <2>1, <2>2, <2>3, <2>5, <3>4, <3>5, ThrottleBounds
      <3> QED
        BY <1>g, <2>1, <2>2, <2>3, <3>1, <3>2, <3>5, <3>6
    <2> QED
      BY <2>4, <2>5
  <1>2. CASE PasswordRight(a)
    <2>1. /\ att' = [att EXCEPT ![a] = AtRest] /\ a \notin At("record")
          /\ \/ tally' = NoRow /\ spent' = 0
             \/ tally' = tally /\ spent' = spent
      BY <1>2 DEF PasswordRight, Leaves, At
    <2>2. At("record")' = At("record") /\ At("password")' = At("password") \ {a}
      <3>1. At("record")' = At("record") \ {a} /\ At("password")' = At("password") \ {a}
        BY <1>t, <2>1, RequestMoves, RestShapes
      <3> QED
        BY <2>1, <3>1
    <2>3. Cardinality(At("password")') <= Cardinality(At("password"))
      <3>1. a \in At("password")
        BY <1>2 DEF PasswordRight, At
      <3>2. Cardinality(At("password") \ {a}) = Cardinality(At("password")) - 1
        BY <1>k, <3>1, FewRequests
      <3> QED
        BY <1>n, <2>2, <3>2
    <2>4. /\ tally' \in Tally /\ spent' \in Nat /\ tally'.count \in Nat
          /\ spent' = 0 \/ (spent' = spent /\ tally' = tally)
      BY <1>s, <1>t, <2>1, RestShapes
    <2>5. spent' <= tally'.count + Cardinality(At("record")')
      BY <1>i, <1>n, <2>2, <2>4
    <2>6. spent' + Cardinality(At("password")') <= Limit - 1 + Cardinality(Attempt)
      BY <1>i, <1>n, <1>t, <2>3, <2>4, ThrottleBounds
    <2> QED
      BY <1>g, <2>1, <2>4, <2>5, <2>6, RestShapes
  <1>3. CASE PasswordWrong(a)
    <2> DEFINE x == [att[a] EXCEPT !.step = "record"]
    <2>1. x \in Serving /\ x.step = "record"
      BY <1>s DEF Serving, Step
    <2>2. att' = [att EXCEPT ![a] = x] /\ spent' = spent + 1 /\ tally' = tally /\ att[a].step = "password"
      BY <1>3, <1>t DEF PasswordWrong
    <2> HIDE DEF x
    <2>3. At("record")' = At("record") \cup {a} /\ At("password")' = At("password") \ {a}
      BY <1>t, <2>1, <2>2, RequestMoves
    <2>4. a \in At("password") /\ a \notin At("record")
      BY <2>2 DEF At
    <2>5. Cardinality(At("record")') = Cardinality(At("record")) + 1
      BY <1>k, <2>3, <2>4, FewRequests
    <2>6. Cardinality(At("password")') = Cardinality(At("password")) - 1
      BY <1>k, <2>3, <2>4, FewRequests
    <2>7. spent' \in Nat /\ spent' <= tally'.count + Cardinality(At("record")')
      BY <1>i, <1>n, <1>s, <1>t, <2>2, <2>5
    <2>8. spent' + Cardinality(At("password")') <= Limit - 1 + Cardinality(Attempt)
      BY <1>i, <1>n, <1>t, <2>2, <2>6, ThrottleBounds
    <2> QED
      BY <1>g, <1>t, <2>1, <2>2, <2>7, <2>8
  <1>4. CASE RecordFailure(a)
    <2>1. /\ att' = [att EXCEPT ![a] = AtRest] /\ spent' = spent /\ tally' = RecordedFailure(a) /\ att[a].step = "record"
      BY <1>4 DEF RecordFailure, Leaves
    <2>2. tally' \in Tally /\ tally'.count = tally.count + 1
      <3>1. CASE tally = NoRow
        <4>1. tally' = [count |-> 1, start |-> att[a].now]
          BY <2>1, <3>1 DEF RecordedFailure
        <4> QED
          BY <1>s, <3>1, <4>1, RestShapes DEF Tally
      <3>2. CASE tally # NoRow
        <4>1. tally' = [tally EXCEPT !.count = @ + 1]
          BY <2>1, <3>2 DEF RecordedFailure
        <4> QED
          BY <1>s, <1>t, <4>1 DEF Tally
      <3> QED
        BY <3>1, <3>2
    <2>3. At("record")' = At("record") \ {a} /\ At("password")' = At("password") \ {a}
      BY <1>t, <2>1, RequestMoves, RestShapes
    <2>4. a \in At("record") /\ a \notin At("password")
      BY <2>1 DEF At
    <2>5. Cardinality(At("record")') = Cardinality(At("record")) - 1
      BY <1>k, <2>3, <2>4, FewRequests
    <2>6. At("password")' = At("password")
      BY <2>3, <2>4
    <2>7. spent' \in Nat /\ spent' <= tally'.count + Cardinality(At("record")')
      BY <1>i, <1>n, <1>s, <1>t, <2>1, <2>2, <2>5
    <2>8. spent' + Cardinality(At("password")') <= Limit - 1 + Cardinality(Attempt)
      BY <1>i, <2>1, <2>6
    <2> QED
      BY <1>g, <2>1, <2>2, <2>7, <2>8, RestShapes
  <1> QED
    BY <1>1, <1>2, <1>3, <1>4

\* Every step preserves the inductive invariant.
LEMMA NextThrottleIInv == ThrottleIInv /\ [ThrottleNext]_throttleVars => ThrottleIInv'
  <1> SUFFICES ASSUME ThrottleIInv, [ThrottleNext]_throttleVars PROVE ThrottleIInv'
    OBVIOUS
  <1>t. /\ counter \in {"attempts", "failures"} /\ clock \in Nat /\ tally \in Tally
        /\ att \in [Attempt -> Serving] /\ spent \in Nat
    BY DEF ThrottleIInv, ThrottleTypeOK
  <1>1. CASE ForgetOld
    <2>1. tally' = NoRow /\ spent' = 0 /\ att' = Outdated /\ counter' = counter /\ clock' = clock
      BY <1>1 DEF ForgetOld
    <2>2. \A b \in Attempt : /\ [att[b] EXCEPT !.current = FALSE] \in Serving
                             /\ [att[b] EXCEPT !.current = FALSE].current = FALSE
                             /\ [att[b] EXCEPT !.current = FALSE].step = att[b].step
      BY <1>t DEF Serving
    <2>3. att' \in [Attempt -> Serving] /\ \A b \in Attempt : att'[b].current = FALSE /\ att'[b].step = att[b].step
      BY <2>1, <2>2 DEF Outdated
    <2>4. ThrottleTypeOK'
      BY <1>t, <2>1, <2>3, RestShapes DEF ThrottleIInv, ThrottleTypeOK
    <2>5. Counted' = {} /\ At("record")' = At("record") /\ At("password")' = At("password")
      BY <2>3 DEF Counted, At
    <2>6. Cardinality(Counted') = 0
      BY <2>5, FS_EmptySet
    <2>7. AttemptsInv'
      BY <2>1, <2>5, <2>6, RestShapes, ThrottleBounds DEF AttemptsInv
    <2>8. FailuresInv'
      <3>1. At("record") \in SUBSET Attempt /\ At("password") \in SUBSET Attempt
        BY DEF At
      <3>2. /\ Cardinality(At("record")) \in Nat /\ Cardinality(At("password")) \in Nat
            /\ Cardinality(At("password")) <= Cardinality(Attempt)
        BY <3>1, FewRequests
      <3> QED
        BY <2>1, <2>5, <3>2, RestShapes, ThrottleBounds DEF FailuresInv
    <2> QED
      BY <2>4, <2>7, <2>8 DEF ThrottleIInv
  <1>2. CASE UNCHANGED <<counter, tally, att, spent>> /\ clock' \in Nat
    BY <1>2 DEF ThrottleIInv, ThrottleTypeOK, AttemptsInv, FailuresInv, Counted, At
  <1>3. CASE ClockTicks
    BY <1>2, <1>3, <1>t DEF ClockTicks
  <1>4. CASE UNCHANGED throttleVars
    BY <1>2, <1>4, <1>t DEF throttleVars
  <1> QED
    BY <1>1, <1>3, <1>4, AttemptsStep, FailuresStep DEF ThrottleNext

\* The inductive invariant holds in every reachable state.
THEOREM ThrottleInductive == ThrottleSpec => []ThrottleIInv
  BY InitThrottleIInv, NextThrottleIInv, PTL DEF ThrottleSpec

\* Every reachable state is of the right type.
THEOREM ThrottleTypeCorrect == ThrottleSpec => []ThrottleTypeOK
  <1>1. ThrottleIInv => ThrottleTypeOK
    BY DEF ThrottleIInv
  <1> QED
    BY <1>1, ThrottleInductive, PTL

\* No more attempts are admitted in a window than its limit, and no more
\* passwords are refused than the limit and the requests in flight, whatever
\* the limits, however many requests and however they interleave
\* (_consume_register_throttle_attempt, login).
THEOREM ThrottlesHold == ThrottleSpec => []ThrottleHolds
  <1>1. ThrottleIInv => ThrottleHolds
    <2> SUFFICES ASSUME ThrottleIInv PROVE ThrottleHolds
      OBVIOUS
    <2>1. spent \in Nat /\ counter \in {"attempts", "failures"}
      BY DEF ThrottleIInv, ThrottleTypeOK
    <2>2. CASE counter = "attempts"
      BY <2>2 DEF ThrottleIInv, AttemptsInv, ThrottleHolds
    <2>3. CASE counter = "failures"
      <3>1. At("password") \in SUBSET Attempt
        BY DEF At
      <3>2. Cardinality(At("password")) \in Nat
        BY <3>1, FewRequests
      <3>3. spent + Cardinality(At("password")) <= Limit - 1 + Cardinality(Attempt)
        BY <2>3 DEF ThrottleIInv, FailuresInv
      <3> QED
        BY <2>1, <2>3, <3>2, <3>3, ThrottleBounds DEF ThrottleHolds
    <2> QED
      BY <2>1, <2>2, <2>3
  <1> QED
    BY <1>1, ThrottleInductive, PTL

---------------------------------------------------------------------------
(* Registration.                                                           *)

Chooser == Browser \cup {None}
Creds == [pending : Chooser, cont : Nat]
TokenRow == [user : Nat, creds : Creds, state : {"new", "cool", "expired", "consumed"}]
UserRow == [id : Nat, verified : BOOLEAN, password : Chooser, by : Chooser, old : BOOLEAN, home : BOOLEAN]
Filling == [op : {"none", "register"},
            step : {"idle", "create", "purge", "reuse", "resend", "issue", "send", "discard", "verify"},
            b : Chooser, id : Nat, creds : Creds, fresh : BOOLEAN, drop : SUBSET Nat, tok : Nat, created : BOOLEAN]

\* The type invariant of Registration: a request being served comes from a
\* browser.
RegistrationTypeOK ==
    /\ user \in UserRow
    /\ users \in Nat
    /\ tokens \in Seq(TokenRow)
    /\ mail \subseteq Nat
    /\ homes \subseteq Nat
    /\ cookie \in [Browser -> Nat]
    /\ lock \in Form \cup {None}
    /\ form \in [Form -> Filling]
    /\ crashed \in BOOLEAN
    /\ \A r \in Form : form[r].step # "idle" => form[r].b \in Browser

\* Browser b can prove continuation c, or will be able to.
Claims(c, b) ==
    \/ cookie[b] = c
    \/ \E r \in Form : form[r].step = "send" /\ form[r].fresh /\ form[r].tok = c /\ form[r].b = b

\* The password of browser p can be activated by continuation c.
Carries(c, p) ==
    \/ \E t \in Issued : tokens[t].creds.pending = p /\ tokens[t].creds.cont = c
    \/ \E r \in Form : form[r].step = "issue" /\ form[r].creds.pending = p /\ form[r].creds.cont = c

\* Continuations are minted in turn, and the browser that can prove one chose
\* the password it activates.
OwnersInv ==
    /\ \A c \in Nat, p \in Chooser : Carries(c, p) => c <= Len(tokens)
    /\ \A c \in Nat, b \in Browser : Claims(c, b) =>
          /\ c <= Len(tokens)
          /\ \A p \in Browser : c # 0 /\ Carries(c, p) => p = b

\* A request that mints a continuation carries its own browser's password, and
\* the password a verification will set is its browser's.
FormInv(r) ==
    /\ form[r].step \in {"create", "purge", "reuse"} => form[r].fresh /\ form[r].creds.cont = 0
    /\ form[r].step \in {"reuse", "issue"} /\ form[r].fresh => form[r].creds.pending = form[r].b
    /\ form[r].step = "verify" => form[r].creds.pending = form[r].b

\* The inductive invariant.
RegistrationIInv ==
    /\ RegistrationTypeOK
    /\ OwnersInv
    /\ \A r \in Form : FormInv(r)
    /\ ChosenByVerifier
    /\ PendingWasMailed

\* A set of issued tokens has a newest one: of the sets of tokens newer than
\* one of them, none is without a smaller one but the empty set.
LEMMA LatestIsThere ==
    ASSUME NEW n \in Nat, NEW S \in SUBSET (1 .. n), S # {}
    PROVE  Latest(S) \in S /\ \A u \in S : u <= Latest(S)
  <1> DEFINE Newer(t) == {u \in S : t < u}
             T == {Newer(t) : t \in S}
             R == StrictSubsetOrdering(S)
  <1>1. IsFiniteSet(S)
    <2>1. IsFiniteSet(1 .. n)
      BY FS_Interval
    <2> QED
      BY <2>1, FS_Subset
  <1>2. IsWellFoundedOn(R, SUBSET S)
    BY <1>1, FS_StrictSubsetOrderingWellFounded, FS_FiniteSubsetsOfFinite
  <1>3. T \subseteq SUBSET S /\ T # {}
    OBVIOUS
  <1>4. PICK U \in T : \A V \in T : ~ (<<V, U>> \in R)
    <2> HIDE DEF T, R
    <2> QED
      BY <1>2, <1>3, WFMin
  <1>5. PICK t \in S : U = Newer(t)
    BY <1>4
  <1>6. \A u \in S : u <= t
    <2> SUFFICES ASSUME NEW u \in S, ~ (u <= t) PROVE FALSE
      OBVIOUS
    <2>0. t \in Int /\ \A v \in S : v \in Int
      OBVIOUS
    <2>1. u \in Newer(t) /\ u \notin Newer(u) /\ Newer(u) \subseteq Newer(t)
      <3>1. u \in Int /\ t < u /\ ~ (u < u)
        BY <2>0
      <3>2. \A v \in S : u < v => t < v
        BY <2>0, <3>1
      <3> QED
        BY <3>1, <3>2
    <2>2. Newer(u) \in SUBSET S /\ Newer(t) \in SUBSET S /\ Newer(u) # Newer(t)
      BY <2>1
    <2>3. <<Newer(u), Newer(t)>> \in R
      BY <2>1, <2>2 DEF StrictSubsetOrdering
    <2> QED
      BY <1>4, <1>5, <2>3
  <1> QED
    BY <1>6 DEF Latest

\* Rewriting the rows of issued tokens leaves a sequence of the same length.
LEMMA Rewritten ==
    ASSUME tokens \in Seq(TokenRow), NEW f \in [Issued -> TokenRow]
    PROVE  f \in Seq(TokenRow) /\ Len(f) = Len(tokens) /\ DOMAIN f = Issued
  <1>1. Issued = 1 .. Len(tokens) /\ Len(tokens) \in Nat
    BY DEF Issued
  <1>2. f \in [1 .. Len(tokens) -> TokenRow]
    BY <1>1
  <1>3. f \in Seq(TokenRow)
    BY <1>1, <1>2, SeqDef
  <1>4. DOMAIN f = 1 .. Len(tokens)
    BY <1>2
  <1> QED
    BY <1>1, <1>3, <1>4, LenProperties

LEMMA RegistrationShapes ==
    /\ NoCreds \in Creds /\ NoCreds.cont = 0 /\ NoCreds.pending = None
    /\ NoToken \in TokenRow /\ NoToken.creds = NoCreds /\ NoToken.state = "consumed"
    /\ NoUser \in UserRow /\ ~ NoUser.verified
    /\ NoForm \in Filling /\ NoForm.step = "idle"
    /\ \A x \in Creds : x.pending \in Chooser /\ x.cont \in Nat
    /\ \A x \in TokenRow : x.creds \in Creds
    /\ \A x \in Filling : x.creds \in Creds /\ x.id \in Nat /\ x.tok \in Nat
  <1>1. NoCreds \in Creds /\ NoCreds.cont = 0 /\ NoCreds.pending = None
    BY DEF NoCreds, Creds, Chooser
  <1>2. NoToken \in TokenRow /\ NoToken.creds = NoCreds /\ NoToken.state = "consumed"
    BY <1>1 DEF NoToken, TokenRow
  <1>3. NoUser \in UserRow /\ ~ NoUser.verified
    BY DEF NoUser, UserRow, Chooser
  <1>4. NoForm \in Filling /\ NoForm.step = "idle"
    BY <1>1 DEF NoForm, Filling, Chooser
  <1>5. \A x \in Creds : x.pending \in Chooser /\ x.cont \in Nat
    BY DEF Creds
  <1>6. \A x \in TokenRow : x.creds \in Creds
    BY DEF TokenRow
  <1>7. \A x \in Filling : x.creds \in Creds /\ x.id \in Nat /\ x.tok \in Nat
    BY DEF Filling
  <1> QED
    BY <1>1, <1>2, <1>3, <1>4, <1>5, <1>6, <1>7

\* What consuming and deleting do to the rows of tokens.
LEMMA RowsFade ==
    ASSUME tokens \in Seq(TokenRow)
    PROVE  /\ \A S : /\ Consume(S) \in [Issued -> TokenRow]
                     /\ \A t \in Issued : /\ Consume(S)[t].creds = tokens[t].creds
                                          /\ Consume(S)[t].state # "consumed" => t \notin S /\ tokens[t].state # "consumed"
           /\ \A id : LET f == [t \in Issued |-> IF tokens[t].user = id THEN NoToken ELSE tokens[t]]
                      IN  /\ f \in [Issued -> TokenRow]
                          /\ \A t \in Issued : /\ f[t].creds \in {tokens[t].creds, NoCreds}
                                               /\ f[t].state # "consumed" => tokens[t].state # "consumed"
  <1>1. \A t \in Issued : tokens[t] \in TokenRow
    BY DEF Issued
  <1>2. ASSUME NEW S
        PROVE  /\ Consume(S) \in [Issued -> TokenRow]
               /\ \A t \in Issued : /\ Consume(S)[t].creds = tokens[t].creds
                                    /\ Consume(S)[t].state # "consumed" => t \notin S /\ tokens[t].state # "consumed"
    <2>1. \A t \in Issued : /\ [tokens[t] EXCEPT !.state = "consumed"] \in TokenRow
                            /\ [tokens[t] EXCEPT !.state = "consumed"].creds = tokens[t].creds
                            /\ [tokens[t] EXCEPT !.state = "consumed"].state = "consumed"
      BY <1>1 DEF TokenRow
    <2> QED
      BY <1>1, <2>1 DEF Consume
  <1>3. ASSUME NEW id
        PROVE  LET f == [t \in Issued |-> IF tokens[t].user = id THEN NoToken ELSE tokens[t]]
               IN  /\ f \in [Issued -> TokenRow]
                   /\ \A t \in Issued : /\ f[t].creds \in {tokens[t].creds, NoCreds}
                                        /\ f[t].state # "consumed" => tokens[t].state # "consumed"
    BY <1>1, RegistrationShapes
  <1> QED
    BY <1>2, <1>3

LEMMA InitRegistrationIInv == RegistrationInit => RegistrationIInv
  <1> SUFFICES ASSUME RegistrationInit PROVE RegistrationIInv
    OBVIOUS
  <1>1. \A b \in Browser : LegacyToken(b) \in TokenRow /\ LegacyToken(b).creds.cont = 0 /\ LegacyToken(b).state = "consumed"
    BY DEF LegacyToken, TokenRow, Creds, Chooser
  <1>2. /\ tokens \in Seq(TokenRow)
        /\ \A t \in Issued : tokens[t].creds.cont = 0 /\ tokens[t].state = "consumed"
    <2>1. CASE tokens = <<>>
      BY <2>1 DEF Issued
    <2>2. ASSUME NEW b \in Browser, tokens = <<LegacyToken(b)>> PROVE <1>2!1 /\ <1>2!2
      <3> DEFINE x == LegacyToken(b)
      <3>1. x \in TokenRow /\ x.creds.cont = 0 /\ x.state = "consumed"
        BY <1>1
      <3> HIDE DEF x
      <3>2. <<x>> \in Seq(TokenRow) /\ DOMAIN <<x>> = {1} /\ <<x>>[1] = x
        BY <3>1
      <3> QED
        BY <2>2, <3>1, <3>2 DEF x, Issued
    <2> QED
      BY <2>1, <2>2 DEF RegistrationInit
  <1>3. user \in UserRow /\ ~ user.verified /\ users \in Nat
    <2> DEFINE x == [NoUser EXCEPT !.id = 1]
    <2>1. x \in UserRow /\ ~ x.verified
      BY DEF NoUser, UserRow, Chooser
    <2>2. user \in {NoUser, x} /\ users \in {0, 1}
      BY DEF RegistrationInit
    <2> HIDE DEF x
    <2> QED
      BY <2>1, <2>2, RegistrationShapes
  <1>4. form \in [Form -> Filling] /\ \A r \in Form : form[r].step = "idle"
    BY RegistrationShapes DEF RegistrationInit
  <1>5. RegistrationTypeOK
    BY <1>2, <1>3, <1>4 DEF RegistrationInit, RegistrationTypeOK
  <1>6. OwnersInv
    <2>1. \A c, p : Carries(c, p) => c = 0
      BY <1>2, <1>4 DEF Carries
    <2>2. \A c : \A b \in Browser : Claims(c, b) => c = 0
      BY <1>4 DEF RegistrationInit, Claims
    <2>3. Len(tokens) \in Nat
      BY <1>2
    <2>4. \A c \in Nat : c = 0 => c <= Len(tokens)
      BY <2>3
    <2> QED
      BY <2>1, <2>2, <2>4 DEF OwnersInv
  <1>7. \A r \in Form : FormInv(r)
    BY <1>4 DEF FormInv
  <1>8. ChosenByVerifier /\ PendingWasMailed
    BY <1>2, <1>3 DEF ChosenByVerifier, PendingWasMailed, PendingToken
  <1> QED
    BY <1>5, <1>6, <1>7, <1>8 DEF RegistrationIInv

\* A step that issues no token.
LEMMA KeepStep ==
    ASSUME RegistrationIInv, RegistrationTypeOK', ChosenByVerifier', \A r \in Form : FormInv(r)',
           Issued' = Issued, Len(tokens)' = Len(tokens),
           \A t \in Issued : /\ tokens'[t].creds \in {tokens[t].creds, NoCreds}
                             /\ tokens'[t].state # "consumed" => tokens[t].state # "consumed",
           \A b \in Browser : cookie'[b] = 0 \/ Claims(cookie'[b], b),
           \A r \in Form : form'[r].step = "send" => form'[r] = form[r],
           \A r \in Form : form'[r].step = "issue" =>
               form'[r].creds.cont = 0 \/ Carries(form'[r].creds.cont, form'[r].creds.pending),
           crashed => crashed', mail \subseteq mail',
           \A r \in Form : form[r].step = "send" =>
               \/ crashed' \/ form'[r] = form[r] \/ form[r].tok \in mail'
               \/ form[r].tok \in Issued => tokens'[form[r].tok].state = "consumed"
    PROVE  RegistrationIInv'
  <1>1. Len(tokens) \in Nat /\ OwnersInv /\ PendingWasMailed
    BY DEF RegistrationIInv, RegistrationTypeOK
  <1>2. ASSUME NEW c, NEW b \in Browser, Claims(c, b)' PROVE c = 0 \/ Claims(c, b)
    BY <1>2 DEF Claims
  <1>3. ASSUME NEW c, NEW p, Carries(c, p)' PROVE c = 0 \/ Carries(c, p)
    <2>1. CASE \E t \in Issued' : tokens'[t].creds.pending = p /\ tokens'[t].creds.cont = c
      BY <2>1, RegistrationShapes DEF Carries
    <2>2. CASE \E r \in Form : form'[r].step = "issue" /\ form'[r].creds.pending = p /\ form'[r].creds.cont = c
      BY <2>2
    <2> QED
      BY <1>3, <2>1, <2>2 DEF Carries
  <1>4. OwnersInv'
    <2>1. \A c \in Nat : c = 0 => c <= Len(tokens)
      BY <1>1
    <2> QED
      BY <1>1, <1>2, <1>3, <2>1 DEF OwnersInv
  <1>5. PendingWasMailed'
    <2> SUFFICES ASSUME ~ crashed', NEW t \in Issued, tokens'[t].state # "consumed", t \notin mail'
                 PROVE  \E r \in Form : form'[r].tok = t /\ form'[r].step = "send"
      BY DEF PendingWasMailed, PendingToken
    <2>1. PICK r \in Form : form[r].tok = t /\ form[r].step = "send"
      BY <1>1 DEF PendingWasMailed, PendingToken
    <2> QED
      BY <2>1
  <1> QED
    BY <1>4, <1>5 DEF RegistrationIInv

\* Request r issues a token.
LEMMA IssueStep ==
    ASSUME RegistrationIInv, RegistrationTypeOK', ChosenByVerifier', NEW r \in Form, NEW n,
           n = Len(tokens) + 1, Len(tokens)' = n, Issued' = Issued \cup {n},
           \A t \in Issued : /\ tokens'[t].creds = tokens[t].creds
                             /\ tokens'[t].state # "consumed" => tokens[t].state # "consumed",
           UNCHANGED <<cookie, mail, crashed>>,
           form[r].step # "send", form[r].b \in Browser, form'[r].step = "send", form'[r].tok = n, form'[r].b = form[r].b,
           \A q \in Form \ {r} : form'[q] = form[q],
           \/ tokens'[n].creds.pending = form[r].b /\ tokens'[n].creds.cont = n
           \/ ~ form'[r].fresh /\ Carries(tokens'[n].creds.cont, tokens'[n].creds.pending)
    PROVE  RegistrationIInv'
  <1>1. Len(tokens) \in Nat /\ OwnersInv /\ PendingWasMailed /\ cookie' = cookie /\ mail' = mail /\ crashed' = crashed
    BY DEF RegistrationIInv, RegistrationTypeOK
  <1>2. ASSUME NEW c, NEW b \in Browser, Claims(c, b)'
        PROVE  Claims(c, b) \/ (form'[r].fresh /\ c = n /\ b = form[r].b)
    <2>1. CASE cookie'[b] = c
      BY <1>1, <2>1 DEF Claims
    <2>2. CASE \E q \in Form : form'[q].step = "send" /\ form'[q].fresh /\ form'[q].tok = c /\ form'[q].b = b
      <3>1. PICK q \in Form : form'[q].step = "send" /\ form'[q].fresh /\ form'[q].tok = c /\ form'[q].b = b
        BY <2>2
      <3>2. CASE q = r
        BY <3>1, <3>2
      <3>3. CASE q # r
        BY <3>1, <3>3 DEF Claims
      <3> QED
        BY <3>2, <3>3
    <2> QED
      BY <1>2, <2>1, <2>2 DEF Claims
  <1>3. ASSUME NEW c, NEW p, Carries(c, p)'
        PROVE  Carries(c, p) \/ (p = form[r].b /\ c = n)
    <2>1. CASE \E t \in Issued' : tokens'[t].creds.pending = p /\ tokens'[t].creds.cont = c
      <3>1. PICK t \in Issued' : tokens'[t].creds.pending = p /\ tokens'[t].creds.cont = c
        BY <2>1
      <3>2. CASE t \in Issued
        BY <3>1, <3>2 DEF Carries
      <3>3. CASE t = n
        BY <3>1, <3>3
      <3> QED
        BY <3>1, <3>2, <3>3
    <2>2. CASE \E q \in Form : form'[q].step = "issue" /\ form'[q].creds.pending = p /\ form'[q].creds.cont = c
      BY <2>2 DEF Carries
    <2> QED
      BY <1>3, <2>1, <2>2 DEF Carries
  <1>4. OwnersInv'
    <2>1. n \in Nat /\ n <= n /\ ~ (n <= Len(tokens)) /\ (\A c \in Nat : c <= Len(tokens) => c <= n)
      BY <1>1
    <2>2. ASSUME NEW c \in Nat, NEW p \in Chooser, Carries(c, p)' PROVE c <= Len(tokens)'
      BY <1>1, <1>3, <2>1, <2>2 DEF OwnersInv
    <2>3. ASSUME NEW c \in Nat, NEW b \in Browser, Claims(c, b)' PROVE c <= Len(tokens)'
      BY <1>1, <1>2, <2>1, <2>3 DEF OwnersInv
    <2>4. ASSUME NEW c \in Nat, NEW b \in Browser, Claims(c, b)', NEW p \in Browser, c # 0, Carries(c, p)'
          PROVE  p = b
      <3>1. p \in Chooser
        BY DEF Chooser
      <3>2. CASE c = n
        <4>1. ~ Claims(n, b) /\ ~ Carries(n, p)
          BY <1>1, <2>1, <3>1 DEF OwnersInv
        <4> QED
          BY <1>2, <1>3, <2>4, <3>2, <4>1
      <3>3. CASE c # n
        BY <1>1, <1>2, <1>3, <2>4, <3>3 DEF OwnersInv
      <3> QED
        BY <3>2, <3>3
    <2> QED
      BY <2>2, <2>3, <2>4 DEF OwnersInv
  <1>5. ASSUME NEW q \in Form PROVE FormInv(q)'
    <2>1. CASE q = r
      BY <2>1 DEF FormInv
    <2>2. CASE q # r
      BY <2>2 DEF FormInv, RegistrationIInv
    <2> QED
      BY <2>1, <2>2
  <1>6. PendingWasMailed'
    <2> SUFFICES ASSUME ~ crashed', NEW t \in Issued', tokens'[t].state # "consumed", t \notin mail'
                 PROVE  \E q \in Form : form'[q].tok = t /\ form'[q].step = "send"
      BY DEF PendingWasMailed, PendingToken
    <2>1. CASE t = n
      BY <2>1
    <2>2. CASE t \in Issued
      <3>1. PICK q \in Form : form[q].tok = t /\ form[q].step = "send"
        BY <1>1, <2>2 DEF PendingWasMailed, PendingToken
      <3> QED
        BY <3>1
    <2> QED
      BY <2>1, <2>2
  <1> QED
    BY <1>4, <1>5, <1>6 DEF RegistrationIInv

\* A request moves on, or ends, and writes no token.
LEMMA FormStep ==
    ASSUME RegistrationIInv, NEW r \in Form, NEW x \in Filling, form' = [form EXCEPT ![r] = x],
           UNCHANGED <<user, users, tokens, mail, homes, cookie>>, lock' \in Form \cup {None},
           crashed' \in BOOLEAN, crashed => crashed', form[r].step = "send" => crashed',
           x.step # "send", x.step # "idle" => x.b \in Browser,
           x.step \in {"create", "purge", "reuse"} => x.fresh /\ x.creds.cont = 0,
           x.step \in {"reuse", "issue"} /\ x.fresh => x.creds.pending = x.b,
           x.step = "verify" => x.creds.pending = x.b,
           x.step = "issue" => x.creds.cont = 0 \/ Carries(x.creds.cont, x.creds.pending)
    PROVE  RegistrationIInv'
  <1>t. /\ form \in [Form -> Filling] /\ tokens \in Seq(TokenRow) /\ cookie \in [Browser -> Nat]
        /\ \A q \in Form : form[q].step # "idle" => form[q].b \in Browser
        /\ \A q \in Form : FormInv(q)
    BY DEF RegistrationIInv, RegistrationTypeOK
  <1>u. user' = user /\ tokens' = tokens /\ mail' = mail /\ cookie' = cookie /\ homes' = homes /\ users' = users
    OBVIOUS
  <1>1. form'[r] = x /\ form' \in [Form -> Filling] /\ \A q \in Form \ {r} : form'[q] = form[q]
    BY <1>t
  <1>2. RegistrationTypeOK'
    <2>1. \A q \in Form : form'[q].step # "idle" => form'[q].b \in Browser
      BY <1>1, <1>t
    <2> QED
      BY <1>1, <1>u, <2>1 DEF RegistrationIInv, RegistrationTypeOK
  <1>3. ASSUME NEW q \in Form PROVE FormInv(q)'
    <2>1. CASE q = r
      BY <1>1, <2>1 DEF FormInv
    <2>2. CASE q # r
      BY <1>1, <1>t, <2>2 DEF FormInv
    <2> QED
      BY <2>1, <2>2
  <1>4. ChosenByVerifier'
    BY <1>u DEF RegistrationIInv, ChosenByVerifier
  <1>5. Issued' = Issued /\ Len(tokens)' = Len(tokens)
    BY <1>u DEF Issued
  <1>6. \A b \in Browser : cookie'[b] = 0 \/ Claims(cookie'[b], b)
    BY <1>u DEF Claims
  <1>7. \A q \in Form : form'[q].step = "send" => form'[q] = form[q]
    BY <1>1
  <1>8. \A q \in Form : form'[q].step = "issue" =>
            form'[q].creds.cont = 0 \/ Carries(form'[q].creds.cont, form'[q].creds.pending)
    BY <1>1 DEF Carries
  <1>9. \A q \in Form : form[q].step = "send" => crashed' \/ form'[q] = form[q]
    BY <1>1
  <1>10. \A t \in Issued : /\ tokens'[t].creds \in {tokens[t].creds, NoCreds}
                           /\ tokens'[t].state # "consumed" => tokens[t].state # "consumed"
    BY <1>u
  <1> QED
    BY <1>2, <1>3, <1>4, <1>5, <1>6, <1>7, <1>8, <1>9, <1>10, <1>u, KeepStep

\* A request moves on, or ends, and tokens fade; the browser's cookie may too.
LEMMA FadeStep ==
    ASSUME RegistrationIInv, NEW r \in Form, NEW x \in Filling, form' = [form EXCEPT ![r] = x],
           tokens' \in [Issued -> TokenRow],
           \A t \in Issued : /\ tokens'[t].creds \in {tokens[t].creds, NoCreds}
                             /\ tokens'[t].state # "consumed" => tokens[t].state # "consumed",
           user' \in UserRow, homes' \subseteq Nat, cookie' \in [Browser -> Nat],
           \A b \in Browser : cookie'[b] \in {0, cookie[b]},
           UNCHANGED <<users, lock, crashed>>, mail \subseteq mail', mail' \subseteq Nat,
           user'.verified => user'.password = user'.by,
           x.step \in {"idle", "create", "discard"} \/ x = form[r],
           x.step # "idle" => x.b = form[r].b /\ form[r].step # "idle",
           x.step = "create" => x.fresh /\ x.creds.cont = 0,
           form[r].step # "send" \/ x = form[r] \/ form[r].tok \in mail' \/ form[r].tok \notin Issued \/ tokens'[form[r].tok].state = "consumed"
    PROVE  RegistrationIInv'
  <1>t. /\ form \in [Form -> Filling] /\ tokens \in Seq(TokenRow) /\ cookie \in [Browser -> Nat]
        /\ \A q \in Form : form[q].step # "idle" => form[q].b \in Browser
        /\ \A q \in Form : FormInv(q)
    BY DEF RegistrationIInv, RegistrationTypeOK
  <1>1. form'[r] = x /\ form' \in [Form -> Filling] /\ \A q \in Form \ {r} : form'[q] = form[q]
    BY <1>t
  <1>2. tokens' \in Seq(TokenRow) /\ Len(tokens)' = Len(tokens) /\ Issued' = Issued
    <2>1. tokens' \in Seq(TokenRow) /\ Len(tokens') = Len(tokens) /\ DOMAIN tokens' = Issued
      BY <1>t, Rewritten
    <2> QED
      BY <2>1 DEF Issued
  <1>3. RegistrationTypeOK'
    <2>1. \A q \in Form : form'[q].step # "idle" => form'[q].b \in Browser
      BY <1>1, <1>t
    <2> QED
      BY <1>1, <1>2, <2>1 DEF RegistrationIInv, RegistrationTypeOK
  <1>4. ASSUME NEW q \in Form PROVE FormInv(q)'
    <2>1. CASE form'[q] = form[q]
      BY <1>t, <2>1 DEF FormInv
    <2>2. CASE q = r /\ x.step \in {"idle", "create", "discard"}
      BY <1>1, <2>2 DEF FormInv
    <2> QED
      BY <1>1, <2>1, <2>2
  <1>5. ChosenByVerifier'
    BY DEF ChosenByVerifier
  <1>6. \A b \in Browser : cookie'[b] = 0 \/ Claims(cookie'[b], b)
    BY DEF Claims
  <1>7. \A q \in Form : form'[q].step = "send" => form'[q] = form[q]
    BY <1>1
  <1>8. \A q \in Form : form'[q].step = "issue" =>
            form'[q].creds.cont = 0 \/ Carries(form'[q].creds.cont, form'[q].creds.pending)
    <2>1. \A q \in Form : form'[q].step = "issue" => form'[q] = form[q]
      BY <1>1
    <2> QED
      BY <2>1 DEF Carries
  <1>9. \A q \in Form : form[q].step = "send" =>
               \/ crashed' \/ form'[q] = form[q] \/ form[q].tok \in mail'
               \/ form[q].tok \in Issued => tokens'[form[q].tok].state = "consumed"
    BY <1>1
  <1> QED
    BY <1>2, <1>3, <1>4, <1>5, <1>6, <1>7, <1>8, <1>9, KeepStep

\* What browser b proves by its cookie activates its own password.
LEMMA CookieProves ==
    ASSUME RegistrationIInv, NEW b \in Browser, NEW t \in Issued, ContinuationMatches(b, tokens[t].creds),
           tokens[t].creds.pending # None
    PROVE  tokens[t].creds.pending = b
  <1>1. tokens[t] \in TokenRow
    BY DEF RegistrationIInv, RegistrationTypeOK, Issued
  <1>2. tokens[t].creds.pending \in Browser /\ tokens[t].creds.cont \in Nat
    BY <1>1, RegistrationShapes DEF Chooser
  <1>3. Claims(tokens[t].creds.cont, b) /\ Carries(tokens[t].creds.cont, tokens[t].creds.pending)
    BY DEF Claims, Carries, ContinuationMatches
  <1> QED
    BY <1>2, <1>3 DEF RegistrationIInv, OwnersInv, ContinuationMatches

\* Deleting a user takes its password, its tokens and its household away.
LEMMA Deletion ==
    ASSUME RegistrationIInv, NEW id \in Nat, DeleteUser(id)
    PROVE  /\ user' \in UserRow /\ homes' \subseteq Nat /\ (user'.verified => user'.password = user'.by)
           /\ tokens' \in [Issued -> TokenRow]
           /\ \A t \in Issued : /\ tokens'[t].creds \in {tokens[t].creds, NoCreds}
                                /\ tokens'[t].state # "consumed" => tokens[t].state # "consumed"
  <1>t. user \in UserRow /\ tokens \in Seq(TokenRow) /\ homes \subseteq Nat
    BY DEF RegistrationIInv, RegistrationTypeOK
  <1>1. user' \in {user, NoUser} /\ homes' \subseteq homes
    BY DEF DeleteUser
  <1>2. user' \in UserRow /\ (user'.verified => user'.password = user'.by)
    BY <1>t, <1>1, RegistrationShapes DEF RegistrationIInv, ChosenByVerifier
  <1> DEFINE f == [t \in Issued |-> IF tokens[t].user = id THEN NoToken ELSE tokens[t]]
  <1>3. /\ f \in [Issued -> TokenRow]
        /\ \A t \in Issued : /\ f[t].creds \in {tokens[t].creds, NoCreds}
                             /\ f[t].state # "consumed" => tokens[t].state # "consumed"
    BY <1>t, RowsFade
  <1>4. tokens' = f
    BY DEF DeleteUser
  <1> HIDE DEF f
  <1> QED
    BY <1>t, <1>1, <1>2, <1>3, <1>4

\* The steps of POST /register.
LEMMA RegisterSteps ==
    ASSUME RegistrationIInv, NEW r \in Form
    PROVE  /\ \A b \in Browser : RegisterRead(r, b) => RegistrationIInv'
           /\ RegisterPurge(r) \/ RegisterCreate(r) \/ RegisterTaken(r) \/ RegisterReuse(r) => RegistrationIInv'
  <1>t. /\ user \in UserRow /\ user.id \in Nat /\ users \in Nat /\ tokens \in Seq(TokenRow) /\ mail \subseteq Nat /\ homes \subseteq Nat
        /\ cookie \in [Browser -> Nat] /\ lock \in Form \cup {None} /\ form \in [Form -> Filling]
        /\ crashed \in BOOLEAN /\ form[r] \in Filling /\ FormInv(r)
        /\ form[r].step # "idle" => form[r].b \in Browser
    BY DEF RegistrationIInv, RegistrationTypeOK, UserRow
  <1>f. form[r].id \in Nat /\ form[r].creds \in Creds /\ form[r].tok \in Nat
    BY <1>t, RegistrationShapes
  <1>1. ASSUME NEW b \in Browser, RegisterRead(r, b) PROVE RegistrationIInv'
    <2> DEFINE st == IF user = NoUser THEN "create" ELSE IF user.old THEN "purge" ELSE "reuse"
               x == [NoForm EXCEPT !.op = "register", !.b = b, !.id = user.id, !.creds.pending = b, !.fresh = TRUE, !.step = st]
    <2>1. st \in {"create", "purge", "reuse"}
      OBVIOUS
    <2>2. /\ form' = [form EXCEPT ![r] = x] /\ form[r] = NoForm
          /\ UNCHANGED <<user, users, tokens, mail, homes, cookie, lock, crashed>>
      BY <1>1 DEF RegisterRead
    <2> HIDE DEF st
    <2>3. x \in Filling /\ x.b = b /\ x.fresh /\ x.creds.cont = 0 /\ x.creds.pending = b /\ x.step = st
      BY <1>t, <2>1 DEF NoForm, NoCreds, Filling, Creds, Chooser
    <2> HIDE DEF x
    <2> QED
      BY <1>t, <2>1, <2>2, <2>3, FormStep, RegistrationShapes
  <1>2. CASE RegisterPurge(r)
    <2> DEFINE x == [form[r] EXCEPT !.step = "create"]
    <2>1. /\ form' = [form EXCEPT ![r] = x] /\ form[r].step = "purge" /\ DeleteUser(form[r].id)
          /\ UNCHANGED <<users, mail, cookie, lock, crashed>>
      BY <1>2, <1>t DEF RegisterPurge, Goto
    <2>2. x \in Filling /\ x.step = "create" /\ x.b = form[r].b /\ x.fresh = form[r].fresh /\ x.creds = form[r].creds
      BY <1>t DEF Filling
    <2>3. x.fresh /\ x.creds.cont = 0
      BY <1>t, <2>1, <2>2 DEF FormInv
    <2> HIDE DEF x
    <2>4. /\ user' \in UserRow /\ homes' \subseteq Nat /\ (user'.verified => user'.password = user'.by)
          /\ tokens' \in [Issued -> TokenRow]
          /\ \A t \in Issued : /\ tokens'[t].creds \in {tokens[t].creds, NoCreds}
                               /\ tokens'[t].state # "consumed" => tokens[t].state # "consumed"
      BY <1>f, <2>1, Deletion
    <2>5. cookie' \in [Browser -> Nat] /\ (\A b \in Browser : cookie'[b] \in {0, cookie[b]}) /\ mail' = mail /\ mail' \subseteq Nat
      BY <1>t, <2>1
    <2> QED
      BY <2>1, <2>2, <2>3, <2>4, <2>5, FadeStep
  <1>3. CASE RegisterCreate(r)
    <2> DEFINE n == Len(tokens) + 1
               cr == [pending |-> form[r].b, cont |-> n]
               row == [user |-> users', creds |-> cr, state |-> "new"]
               x == [form[r] EXCEPT !.step = "send", !.tok = n, !.id = users', !.created = TRUE]
    <2>1. /\ users' = users + 1 /\ user' = [NoUser EXCEPT !.id = users', !.home = TRUE] /\ homes' = homes \cup {users'}
          /\ tokens' = Append(tokens, row) /\ form' = [form EXCEPT ![r] = x] /\ form[r].step = "create"
          /\ UNCHANGED <<mail, cookie, lock, crashed>>
      BY <1>3, <1>t DEF RegisterCreate
    <2>2. users' \in Nat /\ n \in Nat /\ form[r].b \in Browser
      BY <1>t, <2>1
    <2>3. row \in TokenRow /\ row.creds = cr /\ cr.pending = form[r].b /\ cr.cont = n
      BY <2>2 DEF TokenRow, Creds, Chooser
    <2>4. x \in Filling /\ x.step = "send" /\ x.tok = n /\ x.b = form[r].b
      BY <1>t, <2>2 DEF Filling
    <2>5. user' \in UserRow /\ ~ user'.verified
      BY <2>1, <2>2 DEF NoUser, UserRow, Chooser
    <2> HIDE DEF row, x, cr
    <2>6. /\ tokens' \in Seq(TokenRow) /\ Len(tokens') = n /\ tokens'[n] = row /\ DOMAIN tokens' = DOMAIN tokens \cup {n}
          /\ \A t \in DOMAIN tokens : tokens'[t] = tokens[t]
      BY <1>t, <2>1, <2>3, AppendProperties
    <2> HIDE DEF n
    <2>7. form'[r] = x /\ form' \in [Form -> Filling] /\ \A q \in Form \ {r} : form'[q] = form[q]
      BY <1>t, <2>1, <2>4
    <2>8. RegistrationTypeOK'
      <3>1. \A q \in Form : form'[q].step # "idle" => form'[q].b \in Browser
        BY <2>2, <2>4, <2>7 DEF RegistrationIInv, RegistrationTypeOK
      <3> QED
        BY <1>t, <2>1, <2>2, <2>5, <2>6, <2>7, <3>1 DEF RegistrationTypeOK
    <2>9. ChosenByVerifier'
      BY <2>5 DEF ChosenByVerifier
    <2>10. n = Len(tokens) + 1
      BY DEF n
    <2> QED
      BY <2>1, <2>2, <2>3, <2>4, <2>6, <2>7, <2>8, <2>9, <2>10, IssueStep DEF Issued
  <1>4. CASE RegisterTaken(r)
    BY <1>4, <1>t, FormStep, RegistrationShapes DEF RegisterTaken, EndForm
  <1>5. CASE RegisterReuse(r)
    <2> DEFINE d == {t \in OfUser(user.id) : PendingToken(t)}
               x == [form[r] EXCEPT !.step = "issue", !.drop = d]
    <2>1. /\ form' = [form EXCEPT ![r] = x] /\ form[r].step = "reuse" /\ lock' \in {lock, r}
          /\ UNCHANGED <<user, users, tokens, mail, homes, cookie, crashed>>
      BY <1>5, <1>t DEF RegisterReuse
    <2>2. d \in SUBSET Nat
      BY <1>t DEF OfUser, Issued
    <2> HIDE DEF d
    <2>3. x \in Filling /\ x.step = "issue" /\ x.b = form[r].b /\ x.fresh = form[r].fresh /\ x.creds = form[r].creds
      BY <1>t, <2>2 DEF Filling
    <2>4. x.creds.pending = x.b /\ x.creds.cont = 0 /\ x.b \in Browser
      BY <1>t, <2>1, <2>3 DEF FormInv
    <2> HIDE DEF x
    <2> QED
      BY <1>t, <2>1, <2>3, <2>4, FormStep
  <1> QED
    BY <1>1, <1>2, <1>3, <1>4, <1>5

\* The steps of POST /resend-verification and of issuing.
LEMMA IssuingSteps ==
    ASSUME RegistrationIInv, NEW r \in Form
    PROVE  /\ \A b \in Browser : ResendRead(r, b) => RegistrationIInv'
           /\ ResendPrepare(r) \/ Issue(r) \/ IssueFails(r) => RegistrationIInv'
  <1>t. /\ user \in UserRow /\ user.id \in Nat /\ users \in Nat /\ tokens \in Seq(TokenRow) /\ mail \subseteq Nat /\ homes \subseteq Nat
        /\ cookie \in [Browser -> Nat] /\ lock \in Form \cup {None} /\ form \in [Form -> Filling]
        /\ crashed \in BOOLEAN /\ form[r] \in Filling /\ FormInv(r)
        /\ form[r].step # "idle" => form[r].b \in Browser
    BY DEF RegistrationIInv, RegistrationTypeOK, UserRow
  <1>f. form[r].id \in Nat /\ form[r].creds \in Creds /\ form[r].tok \in Nat
    BY <1>t, RegistrationShapes
  <1>1. ASSUME NEW b \in Browser, ResendRead(r, b) PROVE RegistrationIInv'
    <2> DEFINE x == [NoForm EXCEPT !.b = b, !.id = user.id, !.step = "resend"]
    <2>1. /\ form' = [form EXCEPT ![r] = x] /\ form[r] = NoForm
          /\ UNCHANGED <<user, users, tokens, mail, homes, cookie, lock, crashed>>
      BY <1>1 DEF ResendRead
    <2>2. x \in Filling /\ x.b = b /\ x.step = "resend"
      BY <1>t DEF NoForm, NoCreds, Filling, Creds, Chooser
    <2> HIDE DEF x
    <2> QED
      BY <1>t, <2>1, <2>2, FormStep, RegistrationShapes
  <1>2. CASE ResendPrepare(r)
    <2> DEFINE id == form[r].id
               latest == LatestPending(id)
               source == IF latest # 0 THEN latest ELSE IF OfUser(id) = {} THEN 0 ELSE Latest(OfUser(id))
               creds == IF source = 0 THEN NoCreds ELSE tokens[source].creds
               d == {t \in OfUser(id) : PendingToken(t)}
               fresh == creds.pending # None /\ ContinuationMatches(form[r].b, creds)
               x == [form[r] EXCEPT !.step = "issue", !.creds = creds, !.fresh = fresh, !.drop = d]
    <2>1. form[r].step = "resend" /\ UNCHANGED <<user, users, tokens, mail, homes, cookie, crashed>>
      BY <1>2 DEF ResendPrepare
    <2>2. \/ EndForm(r) /\ lock' = lock
          \/ lock' = r /\ form' = [form EXCEPT ![r] = x]
      BY <1>2, <1>t DEF ResendPrepare
    <2>3. OfUser(id) \in SUBSET (1 .. Len(tokens)) /\ d \in SUBSET (1 .. Len(tokens)) /\ Len(tokens) \in Nat /\ d \in SUBSET Nat
      BY <1>t DEF OfUser, Issued
    <2>4. source = 0 \/ source \in Issued
      <3>1. latest = 0 \/ latest \in d
        BY <2>3, LatestIsThere DEF LatestPending
      <3>2. OfUser(id) # {} => Latest(OfUser(id)) \in OfUser(id)
        BY <2>3, LatestIsThere
      <3> QED
        BY <3>1, <3>2 DEF OfUser
    <2> HIDE DEF source, latest
    <2>5. /\ creds \in Creds
          /\ creds.cont = 0 \/ (source \in Issued /\ creds = tokens[source].creds)
      <3>1. CASE source = 0
        BY <3>1, RegistrationShapes
      <3>2. CASE source # 0
        <4>1. tokens[source] \in TokenRow
          BY <1>t, <2>4, <3>2 DEF Issued
        <4> QED
          BY <2>4, <3>2, <4>1, RegistrationShapes
      <3> QED
        BY <3>1, <3>2
    <2> HIDE DEF creds
    <2>6. creds.cont = 0 \/ Carries(creds.cont, creds.pending)
      BY <2>5 DEF Carries
    <2>7. fresh => creds.pending = form[r].b
      <3> SUFFICES ASSUME fresh PROVE creds.pending = form[r].b
        OBVIOUS
      <3>1. source \in Issued /\ creds = tokens[source].creds
        BY <2>5 DEF ContinuationMatches
      <3> QED
        BY <1>t, <2>1, <3>1, CookieProves
    <2>8. fresh \in BOOLEAN
      OBVIOUS
    <2> HIDE DEF d, fresh
    <2>9. x \in Filling /\ x.step = "issue" /\ x.b = form[r].b /\ x.fresh = fresh /\ x.creds = creds
      BY <1>t, <2>3, <2>5, <2>8 DEF Filling
    <2> HIDE DEF x
    <2>10. CASE EndForm(r) /\ lock' = lock
      BY <1>t, <2>1, <2>10, FormStep, RegistrationShapes DEF EndForm
    <2>11. CASE lock' = r /\ form' = [form EXCEPT ![r] = x]
      BY <1>t, <2>1, <2>6, <2>7, <2>9, <2>11, FormStep
    <2> QED
      BY <2>2, <2>10, <2>11
  <1>3. CASE Issue(r)
    <2> DEFINE n == Len(tokens) + 1
               cont == IF form[r].fresh THEN n ELSE form[r].creds.cont
               cr == [pending |-> form[r].creds.pending, cont |-> cont]
               row == [user |-> user.id, creds |-> cr, state |-> "new"]
               x == [form[r] EXCEPT !.step = "send", !.tok = n, !.id = user.id]
               f == Consume(form[r].drop)
    <2>1. /\ tokens' = Append(f, row) /\ form' = [form EXCEPT ![r] = x] /\ form[r].step = "issue" /\ lock' = None
          /\ UNCHANGED <<users, mail, cookie, crashed>>
      BY <1>3, <1>t DEF Issue, IssueRow
    <2>2. form[r].b \in Browser /\ n \in Nat /\ form[r].creds.pending \in Chooser /\ form[r].creds.cont \in Nat
      BY <1>f, <1>t, <2>1, RegistrationShapes
    <2>3. cont \in Nat
      BY <2>2
    <2> HIDE DEF cont
    <2>4. row \in TokenRow /\ row.creds = cr /\ cr.pending = form[r].creds.pending /\ cr.cont = cont
      BY <1>t, <2>2, <2>3 DEF TokenRow, Creds
    <2>5. x \in Filling /\ x.step = "send" /\ x.tok = n /\ x.b = form[r].b /\ x.fresh = form[r].fresh
      BY <1>t, <2>2 DEF Filling
    <2>6. \/ cr.pending = form[r].b /\ cr.cont = n
          \/ ~ x.fresh /\ Carries(cr.cont, cr.pending)
      <3>1. CASE form[r].fresh
        BY <1>t, <2>1, <2>4, <3>1 DEF FormInv, cont
      <3>2. CASE ~ form[r].fresh
        BY <2>1, <2>4, <2>5, <3>2 DEF Carries, cont
      <3> QED
        BY <3>1, <3>2
    <2>7. /\ user' \in UserRow /\ homes' \subseteq Nat
          /\ user'.verified = user.verified /\ user'.password = user.password /\ user'.by = user.by
      <3> DEFINE u == [user EXCEPT !.home = TRUE]
      <3>1. u \in UserRow /\ u.verified = user.verified /\ u.password = user.password /\ u.by = user.by
        BY <1>t DEF UserRow
      <3>2. (user' = u /\ homes' = homes \cup {user.id}) \/ (user' = user /\ homes' = homes)
        BY <1>3 DEF Issue
      <3> HIDE DEF u
      <3> QED
        BY <1>t, <3>1, <3>2
    <2>8. /\ f \in Seq(TokenRow) /\ Len(f) = Len(tokens) /\ DOMAIN f = Issued
          /\ \A t \in Issued : f[t].creds = tokens[t].creds /\ (f[t].state # "consumed" => tokens[t].state # "consumed")
      <3>1. /\ f \in [Issued -> TokenRow]
            /\ \A t \in Issued : f[t].creds = tokens[t].creds /\ (f[t].state # "consumed" => tokens[t].state # "consumed")
        BY <1>t, RowsFade
      <3> HIDE DEF f
      <3> QED
        BY <1>t, <3>1, Rewritten
    <2> HIDE DEF row, x, cr, f
    <2>9. /\ tokens' \in Seq(TokenRow) /\ Len(tokens') = n /\ tokens'[n] = row /\ DOMAIN tokens' = DOMAIN f \cup {n}
          /\ \A t \in DOMAIN f : tokens'[t] = f[t]
      BY <2>1, <2>4, <2>8, AppendProperties
    <2> HIDE DEF n
    <2>10. form'[r] = x /\ form' \in [Form -> Filling] /\ \A q \in Form \ {r} : form'[q] = form[q]
      BY <1>t, <2>1, <2>5
    <2>11. RegistrationTypeOK'
      <3>1. \A q \in Form : form'[q].step # "idle" => form'[q].b \in Browser
        BY <2>2, <2>5, <2>10 DEF RegistrationIInv, RegistrationTypeOK
      <3> QED
        BY <1>t, <2>1, <2>7, <2>9, <2>10, <3>1 DEF RegistrationTypeOK
    <2>12. ChosenByVerifier'
      BY <2>7 DEF ChosenByVerifier, RegistrationIInv
    <2>13. n = Len(tokens) + 1
      BY DEF n
    <2>14. /\ Issued' = Issued \cup {n}
           /\ \A t \in Issued : /\ tokens'[t].creds = tokens[t].creds
                                /\ tokens'[t].state # "consumed" => tokens[t].state # "consumed"
      BY <2>8, <2>9 DEF Issued
    <2>15. \/ tokens'[n].creds.pending = form[r].b /\ tokens'[n].creds.cont = n
           \/ ~ form'[r].fresh /\ Carries(tokens'[n].creds.cont, tokens'[n].creds.pending)
      BY <2>4, <2>6, <2>9, <2>10
    <2> QED
      BY <2>1, <2>2, <2>5, <2>9, <2>10, <2>11, <2>12, <2>13, <2>14, <2>15, IssueStep
  <1>4. CASE IssueFails(r)
    BY <1>4, <1>t, FormStep, RegistrationShapes DEF IssueFails, EndForm
  <1> QED
    BY <1>1, <1>2, <1>3, <1>4

\* Sending, its failure, and crashes.
LEMMA MailSteps ==
    ASSUME RegistrationIInv, NEW r \in Form,
           MailSent(r) \/ VerificationMailFails(r) \/ Discard(r) \/ Crash(r)
    PROVE  RegistrationIInv'
  <1>t. /\ user \in UserRow /\ users \in Nat /\ tokens \in Seq(TokenRow) /\ mail \subseteq Nat /\ homes \subseteq Nat
        /\ cookie \in [Browser -> Nat] /\ lock \in Form \cup {None} /\ form \in [Form -> Filling]
        /\ crashed \in BOOLEAN /\ form[r] \in Filling /\ (\A q \in Form : FormInv(q)) /\ ChosenByVerifier
        /\ \A q \in Form : form[q].step # "idle" => form[q].b \in Browser
    BY DEF RegistrationIInv, RegistrationTypeOK
  <1>f. form[r].id \in Nat /\ form[r].tok \in Nat
    BY <1>t, RegistrationShapes
  <1>1. CASE MailSent(r)
    <2>1. /\ form[r].step = "send" /\ form' = [form EXCEPT ![r] = NoForm] /\ mail' = mail \cup {form[r].tok}
          /\ cookie' = IF form[r].fresh THEN [cookie EXCEPT ![form[r].b] = form[r].tok] ELSE cookie
          /\ UNCHANGED <<user, users, tokens, homes, lock, crashed>>
      BY <1>1 DEF MailSent, EndForm
    <2>2. form'[r] = NoForm /\ form' \in [Form -> Filling] /\ \A q \in Form \ {r} : form'[q] = form[q]
      BY <1>t, <2>1, RegistrationShapes
    <2>3. RegistrationTypeOK'
      <3>1. \A q \in Form : form'[q].step # "idle" => form'[q].b \in Browser
        BY <1>t, <2>2, RegistrationShapes
      <3>2. cookie' \in [Browser -> Nat] /\ mail' \subseteq Nat
        BY <1>f, <1>t, <2>1
      <3> QED
        BY <1>t, <2>1, <2>2, <3>1, <3>2 DEF RegistrationTypeOK
    <2>4. ASSUME NEW q \in Form PROVE FormInv(q)'
      BY <1>t, <2>2, RegistrationShapes DEF FormInv
    <2>5. ChosenByVerifier'
      BY <1>t, <2>1 DEF ChosenByVerifier
    <2>6. \A b \in Browser : Claims(cookie'[b], b)
      <3> SUFFICES ASSUME NEW b \in Browser PROVE Claims(cookie'[b], b)
        OBVIOUS
      <3>1. CASE cookie'[b] = cookie[b]
        BY <3>1 DEF Claims
      <3>2. CASE form[r].fresh /\ b = form[r].b
        BY <1>t, <2>1, <3>2 DEF Claims
      <3> QED
        BY <1>t, <2>1, <3>1, <3>2
    <2>7. \A q \in Form : form'[q].step = "send" \/ form'[q].step = "issue" => form'[q] = form[q]
      BY <2>2, RegistrationShapes
    <2>8. \A q \in Form : form'[q].step = "issue" => Carries(form'[q].creds.cont, form'[q].creds.pending)
      BY <2>7 DEF Carries
    <2>9. \A q \in Form : form[q].step = "send" => form'[q] = form[q] \/ form[q].tok \in mail'
      BY <2>1, <2>2
    <2>10. Issued' = Issued /\ Len(tokens)' = Len(tokens) /\ tokens' = tokens /\ crashed' = crashed /\ mail \subseteq mail'
      BY <2>1 DEF Issued
    <2> QED
      BY <2>3, <2>4, <2>5, <2>6, <2>7, <2>8, <2>9, <2>10, KeepStep
  <1>2. CASE VerificationMailFails(r)
    <2> DEFINE t == form[r].tok
               f == Consume({t})
               g == [form[r] EXCEPT !.step = "discard"]
    <2>1. /\ form[r].step = "send" /\ tokens' = f /\ mail' \in {mail, mail \cup {t}}
          /\ form' = [form EXCEPT ![r] = g] \/ form' = [form EXCEPT ![r] = NoForm]
          /\ UNCHANGED <<user, users, homes, cookie, lock, crashed>>
      BY <1>2, <1>t DEF VerificationMailFails, EndForm, Goto
    <2>2. g \in Filling /\ g.step = "discard" /\ g.b = form[r].b
      BY <1>t DEF Filling
    <2>3. PICK x \in {g, NoForm} : form' = [form EXCEPT ![r] = x]
      BY <2>1
    <2>4. x \in Filling /\ x.step \in {"idle", "discard"} /\ (x.step # "idle" => x.b = form[r].b)
      BY <2>2, <2>3, RegistrationShapes
    <2>5. /\ f \in [Issued -> TokenRow]
          /\ \A u \in Issued : f[u].creds = tokens[u].creds /\ (f[u].state # "consumed" => u \notin {t} /\ tokens[u].state # "consumed")
      BY <1>t, RowsFade
    <2> HIDE DEF g, f
    <2>6. mail \subseteq mail' /\ mail' \subseteq Nat
      BY <1>f, <1>t, <2>1
    <2>7. user'.verified => user'.password = user'.by
      BY <1>t, <2>1 DEF ChosenByVerifier
    <2>8. t \in Issued => f[t].state = "consumed"
      BY <2>5
    <2>9. cookie' \in [Browser -> Nat] /\ \A b \in Browser : cookie'[b] \in {0, cookie[b]}
      BY <1>t, <2>1
    <2>10. /\ tokens' \in [Issued -> TokenRow]
           /\ \A u \in Issued : /\ tokens'[u].creds \in {tokens[u].creds, NoCreds}
                                /\ tokens'[u].state # "consumed" => tokens[u].state # "consumed"
      BY <2>1, <2>5
    <2>11. user' \in UserRow /\ homes' \subseteq Nat /\ UNCHANGED <<users, lock, crashed>> /\ form[r].step # "idle"
      BY <1>t, <2>1
    <2>12. form[r].tok \in Issued => tokens'[form[r].tok].state = "consumed"
      BY <2>1, <2>8
    <2> HIDE DEF t
    <2>13. x.step \in {"idle", "create", "discard"} \/ x = form[r]
      BY <2>4
    <2>14. x.step # "idle" => x.b = form[r].b /\ form[r].step # "idle"
      BY <2>4, <2>11
    <2>15. x.step = "create" => x.fresh /\ x.creds.cont = 0
      BY <2>4
    <2>16. form[r].tok \notin Issued \/ tokens'[form[r].tok].state = "consumed"
      BY <2>12
    <2>17. x \in Filling /\ form' = [form EXCEPT ![r] = x]
      BY <2>3, <2>4
    <2> QED
      BY <2>6, <2>7, <2>9, <2>10, <2>11, <2>13, <2>14, <2>15, <2>16, <2>17, FadeStep
  <1>3. CASE Discard(r)
    <2>1. /\ form' = [form EXCEPT ![r] = NoForm] /\ form[r].step = "discard" /\ DeleteUser(form[r].id)
          /\ UNCHANGED <<users, mail, cookie, lock, crashed>>
      BY <1>3 DEF Discard, EndForm
    <2>2. /\ user' \in UserRow /\ homes' \subseteq Nat /\ (user'.verified => user'.password = user'.by)
          /\ tokens' \in [Issued -> TokenRow]
          /\ \A t \in Issued : /\ tokens'[t].creds \in {tokens[t].creds, NoCreds}
                               /\ tokens'[t].state # "consumed" => tokens[t].state # "consumed"
      BY <1>f, <2>1, Deletion
    <2>3. cookie' \in [Browser -> Nat] /\ (\A b \in Browser : cookie'[b] \in {0, cookie[b]}) /\ mail' = mail /\ mail' \subseteq Nat
      BY <1>t, <2>1
    <2>4. form[r].step # "send" /\ NoForm.step = "idle" /\ NoForm \in Filling
      BY <2>1, RegistrationShapes
    <2>5. mail \subseteq mail' /\ UNCHANGED <<users, lock, crashed>>
      BY <2>1
    <2> QED
      BY <2>1, <2>2, <2>3, <2>4, <2>5, FadeStep
  <1>4. CASE Crash(r)
    <2>1. /\ form' = [form EXCEPT ![r] = NoForm] /\ crashed' = (crashed \/ form[r].step \in {"send", "discard"})
          /\ lock' \in {lock, None} /\ UNCHANGED <<user, users, tokens, mail, homes, cookie>>
      BY <1>4 DEF Crash, EndForm
    <2>2. crashed' \in BOOLEAN /\ (crashed => crashed') /\ (form[r].step = "send" => crashed')
      BY <2>1
    <2> QED
      BY <1>t, <2>1, <2>2, FormStep, RegistrationShapes
  <1> QED
    BY <1>1, <1>2, <1>3, <1>4
\* The steps of POST /verify-email.
LEMMA VerifySteps ==
    ASSUME RegistrationIInv, NEW r \in Form
    PROVE  /\ \A b \in Browser, t \in mail, by \in {"link", "code"} : VerifyRead(r, b, t, by) => RegistrationIInv'
           /\ VerifyCommit(r) \/ VerifyRefused(r) => RegistrationIInv'
  <1>t. /\ user \in UserRow /\ users \in Nat /\ tokens \in Seq(TokenRow) /\ mail \subseteq Nat /\ homes \subseteq Nat
        /\ cookie \in [Browser -> Nat] /\ lock \in Form \cup {None} /\ form \in [Form -> Filling]
        /\ crashed \in BOOLEAN /\ form[r] \in Filling /\ FormInv(r) /\ ChosenByVerifier
        /\ form[r].step # "idle" => form[r].b \in Browser
    BY DEF RegistrationIInv, RegistrationTypeOK
  <1>c. ASSUME NEW u
        PROVE  /\ Consume({u}) \in [Issued -> TokenRow]
               /\ \A v \in Issued : /\ Consume({u})[v].creds \in {tokens[v].creds, NoCreds}
                                    /\ Consume({u})[v].state # "consumed" => tokens[v].state # "consumed"
    BY <1>t, RowsFade
  <1>1. ASSUME NEW b \in Browser, NEW t \in mail, NEW by \in {"link", "code"}, VerifyRead(r, b, t, by)
        PROVE  RegistrationIInv'
    <2>1. /\ form[r] = NoForm /\ t \in Issued /\ UNCHANGED <<user, users, mail, homes, cookie, lock, crashed>>
      BY <1>1 DEF VerifyRead, PendingByToken, PendingByCode, PendingToken
    <2>2. CASE tokens' = Consume({t}) /\ form' = form
      <3>1. form' = [form EXCEPT ![r] = form[r]]
        BY <1>t, <2>2
      <3>2. /\ tokens' \in [Issued -> TokenRow]
            /\ \A v \in Issued : /\ tokens'[v].creds \in {tokens[v].creds, NoCreds}
                                 /\ tokens'[v].state # "consumed" => tokens[v].state # "consumed"
        BY <1>c, <2>2
      <3>3. user' \in UserRow /\ homes' \subseteq Nat /\ cookie' \in [Browser -> Nat] /\ (user'.verified => user'.password = user'.by)
        BY <1>t, <2>1 DEF ChosenByVerifier
      <3>4. (\A c \in Browser : cookie'[c] \in {0, cookie[c]}) /\ mail \subseteq mail' /\ mail' \subseteq Nat
        BY <1>t, <2>1
      <3>5. form[r].step = "idle" /\ UNCHANGED <<users, lock, crashed>>
        BY <2>1, RegistrationShapes
      <3> QED
        BY <1>t, <3>1, <3>2, <3>3, <3>4, <3>5, FadeStep
    <2>3. CASE form' = [form EXCEPT ![r] = [NoForm EXCEPT !.step = "verify", !.b = b, !.tok = t,
                          !.creds.pending = VerifiedPassword(b, tokens[t].creds)]] /\ tokens' = tokens
      <3> DEFINE p == VerifiedPassword(b, tokens[t].creds)
                 x == [NoForm EXCEPT !.step = "verify", !.b = b, !.tok = t, !.creds.pending = p]
      <3>1. p = b
        BY <2>1, CookieProves DEF VerifiedPassword
      <3> HIDE DEF p
      <3>2. x \in Filling /\ x.step = "verify" /\ x.b = b /\ x.creds.pending = p
        BY <1>t, <3>1 DEF NoForm, NoCreds, Filling, Creds, Chooser
      <3>3. form' = [form EXCEPT ![r] = x] /\ form[r].step = "idle"
        BY <2>1, <2>3, RegistrationShapes DEF p
      <3> HIDE DEF x
      <3>4. UNCHANGED <<user, users, tokens, mail, homes, cookie, lock, crashed>>
        BY <2>1, <2>3
      <3> QED
        BY <1>t, <3>1, <3>2, <3>3, <3>4, FormStep
    <2> QED
      BY <1>1, <2>2, <2>3 DEF VerifyRead
  <1>2. CASE VerifyCommit(r)
    <2> DEFINE u == [user EXCEPT !.verified = TRUE, !.password = form[r].creds.pending, !.by = form[r].b]
    <2>1. /\ form[r].step = "verify" /\ tokens' = Consume({form[r].tok}) /\ user' = u
          /\ cookie' = [cookie EXCEPT ![form[r].b] = 0] /\ form' = [form EXCEPT ![r] = NoForm]
          /\ UNCHANGED <<users, mail, homes, lock, crashed>>
      BY <1>2 DEF VerifyCommit, EndForm
    <2>2. form[r].creds.pending = form[r].b /\ form[r].b \in Browser
      BY <1>t, <2>1 DEF FormInv
    <2>3. u \in UserRow /\ u.password = u.by
      BY <1>t, <2>2 DEF UserRow, Chooser
    <2> HIDE DEF u
    <2>4. /\ tokens' \in [Issued -> TokenRow]
          /\ \A v \in Issued : /\ tokens'[v].creds \in {tokens[v].creds, NoCreds}
                               /\ tokens'[v].state # "consumed" => tokens[v].state # "consumed"
      BY <1>c, <2>1
    <2>5. user' \in UserRow /\ homes' \subseteq Nat /\ (user'.verified => user'.password = user'.by)
      BY <1>t, <2>1, <2>3
    <2>6. cookie' \in [Browser -> Nat] /\ (\A c \in Browser : cookie'[c] \in {0, cookie[c]}) /\ mail \subseteq mail' /\ mail' \subseteq Nat
      BY <1>t, <2>1
    <2>7. NoForm \in Filling /\ NoForm.step = "idle" /\ form[r].step # "send" /\ UNCHANGED <<users, lock, crashed>>
      BY <2>1, RegistrationShapes
    <2> QED
      BY <2>1, <2>4, <2>5, <2>6, <2>7, FadeStep
  <1>3. CASE VerifyRefused(r)
    BY <1>3, <1>t, FormStep, RegistrationShapes DEF VerifyRefused, EndForm
  <1> QED
    BY <1>1, <1>2, <1>3

\* Time passes for a token or for an unverified user.
LEMMA AgingSteps ==
    ASSUME RegistrationIInv, (\E t \in Issued : TokenAges(t)) \/ UserAges
    PROVE  RegistrationIInv'
  <1>t. /\ user \in UserRow /\ tokens \in Seq(TokenRow) /\ cookie \in [Browser -> Nat] /\ RegistrationTypeOK
        /\ (\A r \in Form : FormInv(r)) /\ ChosenByVerifier
    BY DEF RegistrationIInv, RegistrationTypeOK
  <1>1. UNCHANGED <<users, mail, homes, cookie, lock, form, crashed>>
    BY DEF TokenAges, UserAges
  <1>2. /\ tokens' \in [Issued -> TokenRow]
        /\ \A v \in Issued : /\ tokens'[v].creds = tokens[v].creds
                             /\ tokens'[v].state # "consumed" => tokens[v].state # "consumed"
    <2>1. tokens \in [Issued -> TokenRow]
      BY <1>t DEF Issued
    <2>2. ASSUME NEW t \in Issued, TokenAges(t) PROVE <1>2!1 /\ <1>2!2
      <3> DEFINE x == [tokens[t] EXCEPT !.state = IF tokens[t].state = "new" THEN "cool" ELSE "expired"]
      <3>1. tokens' = [tokens EXCEPT ![t] = x] /\ tokens[t].state # "consumed"
        BY <2>1, <2>2 DEF TokenAges, PendingToken
      <3>2. x \in TokenRow /\ x.creds = tokens[t].creds
        BY <2>1 DEF TokenRow
      <3> HIDE DEF x
      <3> QED
        BY <2>1, <3>1, <3>2
    <2>3. CASE UserAges
      BY <2>1, <2>3 DEF UserAges
    <2> QED
      BY <2>2, <2>3
  <1>3. /\ user' \in UserRow
        /\ user'.verified = user.verified /\ user'.password = user.password /\ user'.by = user.by
    <2> DEFINE u == [user EXCEPT !.old = TRUE]
    <2>1. u \in UserRow /\ u.verified = user.verified /\ u.password = user.password /\ u.by = user.by
      BY <1>t DEF UserRow
    <2>2. user' \in {user, u}
      BY DEF TokenAges, UserAges
    <2> HIDE DEF u
    <2> QED
      BY <1>t, <2>1, <2>2
  <1>4. tokens' \in Seq(TokenRow) /\ Len(tokens)' = Len(tokens) /\ Issued' = Issued
    <2>1. tokens' \in Seq(TokenRow) /\ Len(tokens') = Len(tokens) /\ DOMAIN tokens' = Issued
      BY <1>t, <1>2, Rewritten
    <2> QED
      BY <2>1 DEF Issued
  <1>5. RegistrationTypeOK'
    BY <1>t, <1>1, <1>3, <1>4 DEF RegistrationTypeOK
  <1>6. ChosenByVerifier'
    BY <1>t, <1>3 DEF ChosenByVerifier
  <1>7. \A r \in Form : FormInv(r)'
    BY <1>t, <1>1 DEF FormInv
  <1>8. \A b \in Browser : cookie'[b] = 0 \/ Claims(cookie'[b], b)
    BY <1>1 DEF Claims
  <1>9. \A r \in Form : form'[r] = form[r]
    BY <1>1
  <1>10. \A r \in Form : form'[r].step = "issue" =>
            form'[r].creds.cont = 0 \/ Carries(form'[r].creds.cont, form'[r].creds.pending)
    BY <1>9 DEF Carries
  <1> QED
    BY <1>1, <1>2, <1>4, <1>5, <1>6, <1>7, <1>8, <1>9, <1>10, KeepStep

LEMMA NextRegistrationIInv == RegistrationIInv /\ [RegistrationNext]_registrationVars => RegistrationIInv'
  <1> SUFFICES ASSUME RegistrationIInv, [RegistrationNext]_registrationVars PROVE RegistrationIInv'
    OBVIOUS
  <1>1. ASSUME NEW r \in Form, RegisterPurge(r) \/ RegisterCreate(r) \/ RegisterTaken(r) \/ RegisterReuse(r)
                               \/ \E b \in Browser : RegisterRead(r, b)
        PROVE  RegistrationIInv'
    BY <1>1, RegisterSteps
  <1>2. ASSUME NEW r \in Form, ResendPrepare(r) \/ Issue(r) \/ IssueFails(r) \/ \E b \in Browser : ResendRead(r, b)
        PROVE  RegistrationIInv'
    BY <1>2, IssuingSteps
  <1>3. ASSUME NEW r \in Form, MailSent(r) \/ VerificationMailFails(r) \/ Discard(r) \/ Crash(r)
        PROVE  RegistrationIInv'
    BY <1>3, MailSteps
  <1>4. ASSUME NEW r \in Form, \/ VerifyCommit(r) \/ VerifyRefused(r)
                               \/ \E b \in Browser, t \in mail, by \in {"link", "code"} : VerifyRead(r, b, t, by)
        PROVE  RegistrationIInv'
    BY <1>4, VerifySteps
  <1>5. CASE (\E t \in Issued : TokenAges(t)) \/ UserAges
    BY <1>5, AgingSteps
  <1>6. CASE UNCHANGED registrationVars
    BY <1>6 DEF registrationVars, RegistrationIInv, RegistrationTypeOK, OwnersInv, Claims, Carries, FormInv,
                ChosenByVerifier, PendingWasMailed, PendingToken, Issued
  <1> QED
    BY <1>1, <1>2, <1>3, <1>4, <1>5, <1>6 DEF RegistrationNext

\* The inductive invariant holds in every behaviour of Registration, for any
\* number of browsers, requests, users and tokens.
THEOREM RegistrationInductive == RegistrationSpec => []RegistrationIInv
  BY InitRegistrationIInv, NextRegistrationIInv, PTL DEF RegistrationSpec

\* Type correctness of Registration.
THEOREM RegistrationTypeCorrect == RegistrationSpec => []RegistrationTypeOK
  <1>1. RegistrationIInv => RegistrationTypeOK
    BY DEF RegistrationIInv
  <1> QED
    BY RegistrationInductive, <1>1, PTL

\* However many browsers register the address, ask for mails and verify, the
\* password of a verified account is the one its verifier chose: verify_email
\* activates a pending password only for the browser that can prove it.
THEOREM PasswordChosenByVerifier == RegistrationSpec => []ChosenByVerifier
  <1>1. RegistrationIInv => ChosenByVerifier
    BY DEF RegistrationIInv
  <1> QED
    BY RegistrationInductive, <1>1, PTL

\* As long as no worker died between a commit and its mail, a pending token was
\* mailed or its request is about to: the failure path of register and
\* resend_verification consumes the token it could not mail.
THEOREM PendingTokensWereMailed == RegistrationSpec => []PendingWasMailed
  <1>1. RegistrationIInv => PendingWasMailed
    BY DEF RegistrationIInv
  <1> QED
    BY RegistrationInductive, <1>1, PTL
===========================================================================
