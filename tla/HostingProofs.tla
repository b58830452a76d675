--------------------------- MODULE HostingProofs ---------------------------
(***************************************************************************)
(* Proofs about LocalRun, for any number of runs, about Publication, for   *)
(* any jobs and outcomes, and about Capsules, for any number of capsules,  *)
(* ports and jobs.                                                         *)
(***************************************************************************)
EXTENDS LocalRun, Publication, Capsules, SequenceTheorems, TLAPS

---------------------------------------------------------------------------
(* LocalRun                                                                *)

Live == {"locked", "build", "dynamic", "wait", "clean", "spawn", "tests", "report", "finalize", "release"}
Progress == [at : {"idle", "over", "dead"} \cup Live, mode : {"legacy", "dynamic"}, bench : BOOLEAN,
             code : {"none", "pass", "fail"}, lost : BOOLEAN]

\* The type invariant of LocalRun.
LocalTypeOK ==
    /\ run \in [Run -> Progress]
    /\ left \in [Run -> SUBSET {"services", "database", "tests"}]
    /\ lock \in Run \cup {NoRun}
    /\ owner \in Run \cup {NoRun}
    /\ shots \subseteq Run
    /\ manifest \in [by : Run \cup {NoRun}, files : SUBSET Run]

\* Only the holder of the lock is at work, and tests run only while it waits
\* for them unless they were lost.
HolderInv ==
    /\ \A r \in Run : run[r].at \in Live => lock = r
    /\ \A r \in Run : run[r].lost => run[r].at \in {"finalize", "release", "over", "dead"}
    /\ \A r \in Run : "tests" \in left[r] => run[r].at = "tests" \/ run[r].lost

\* As long as no tests were lost, the run at work finds only its own pictures
\* from the moment it cleaned the directory, and what it lists stays listed.
OwnPicturesInv ==
    (\A r \in Run : ~ run[r].lost) =>
        /\ manifest.files \subseteq {manifest.by}
        /\ \A r \in Run : run[r].at \in {"spawn", "tests", "report"} => shots \subseteq {r}
        /\ \A r \in Run : run[r].at \in {"finalize", "release"} /\ run[r].code = "pass" =>
              manifest.by = r /\ manifest.files = shots

\* The inductive invariant.
LocalIInv == LocalTypeOK /\ HolderInv /\ OwnPicturesInv
LEMMA InitLocalIInv == LocalInit => LocalIInv
  <1> SUFFICES ASSUME LocalInit PROVE LocalIInv
    OBVIOUS
  <1>1. \A r \in Run : run[r] \in [at : {"idle"}, mode : {"legacy", "dynamic"}, bench : BOOLEAN, code : {"none"}, lost : {FALSE}]
    BY DEF LocalInit
  <1>2. \A r \in Run : run[r] \in Progress /\ run[r].at = "idle" /\ run[r].code = "none" /\ ~ run[r].lost
    BY <1>1 DEF Progress
  <1>3. run \in [Run -> Progress]
    BY <1>2 DEF LocalInit
  <1>4. manifest \in [by : Run \cup {NoRun}, files : SUBSET Run] /\ manifest.files = {}
    BY DEF LocalInit, NoManifest
  <1>5. LocalTypeOK
    BY <1>3, <1>4 DEF LocalInit, LocalTypeOK
  <1>6. HolderInv
    BY <1>2 DEF LocalInit, HolderInv, Live
  <1>7. OwnPicturesInv
    BY <1>2, <1>4 DEF OwnPicturesInv
  <1> QED
    BY <1>5, <1>6, <1>7 DEF LocalIInv

\* Run r goes on to x.  When it is at work, it holds the lock and nobody else
\* is; when it is not, it leaves the directory and the lock's holder alone.
LEMMA RunMoves ==
    ASSUME LocalIInv, NEW r \in Run, NEW x \in Progress, run' = [run EXCEPT ![r] = x], LocalTypeOK',
           \A q \in Run \ {r} : left'[q] = left[q],
           run[r].at \in Live \/ (shots' = shots /\ manifest' = manifest /\ (lock = NoRun \/ lock' = lock)),
           x.at \in Live => lock' = r,
           x.lost => x.at \in {"finalize", "release", "over", "dead"},
           run[r].lost => x.lost,
           "tests" \in left'[r] => x.at = "tests" \/ x.lost,
           OwnPicturesInv /\ (\A q \in Run : ~ run[q].lost) /\ ~ x.lost =>
               /\ manifest'.files \subseteq {manifest'.by}
               /\ x.at \in {"spawn", "tests", "report"} => shots' \subseteq {r}
               /\ x.at \in {"finalize", "release"} /\ x.code = "pass" => manifest'.by = r /\ manifest'.files = shots'
    PROVE  LocalIInv'
  <1>t. run \in [Run -> Progress] /\ HolderInv /\ OwnPicturesInv /\ NoRun \notin Run
    BY RunAssumption DEF LocalIInv, LocalTypeOK
  <1>1. run'[r] = x /\ \A q \in Run \ {r} : run'[q] = run[q]
    BY <1>t
  <1>2. \A q \in Run \ {r} : run[q].at \in Live => shots' = shots /\ manifest' = manifest /\ lock' = q
    BY <1>t DEF HolderInv
  <1>3. HolderInv'
    <2>1. ASSUME NEW q \in Run
          PROVE  /\ run'[q].at \in Live => lock' = q
                 /\ run'[q].lost => run'[q].at \in {"finalize", "release", "over", "dead"}
                 /\ "tests" \in left'[q] => run'[q].at = "tests" \/ run'[q].lost
      <3>1. CASE q = r
        BY <1>1, <3>1
      <3>2. CASE q # r
        BY <1>1, <1>2, <1>t, <3>2 DEF HolderInv
      <3> QED
        BY <3>1, <3>2
    <2> QED
      BY <2>1 DEF HolderInv
  <1>4. OwnPicturesInv'
    <2> SUFFICES ASSUME \A q \in Run : ~ run'[q].lost
                 PROVE  /\ manifest'.files \subseteq {manifest'.by}
                        /\ \A q \in Run : run'[q].at \in {"spawn", "tests", "report"} => shots' \subseteq {q}
                        /\ \A q \in Run : run'[q].at \in {"finalize", "release"} /\ run'[q].code = "pass" =>
                              manifest'.by = q /\ manifest'.files = shots'
      BY DEF OwnPicturesInv
    <2>1. (\A q \in Run : ~ run[q].lost) /\ ~ x.lost
      BY <1>1
    <2>2. ASSUME NEW q \in Run \ {r}
          PROVE  /\ run'[q].at \in {"spawn", "tests", "report"} => shots' \subseteq {q}
                 /\ run'[q].at \in {"finalize", "release"} /\ run'[q].code = "pass" => manifest'.by = q /\ manifest'.files = shots'
      BY <1>1, <1>2, <1>t, <2>1 DEF OwnPicturesInv, Live
    <2> QED
      BY <1>1, <1>t, <2>1, <2>2
  <1> QED
    BY <1>3, <1>4 DEF LocalIInv

\* The pictures of tests that run are their run's own.
LEMMA ShootStep ==
    ASSUME LocalIInv, NEW r \in Run, Shoot(r)
    PROVE  LocalIInv'
  <1>t. LocalTypeOK /\ HolderInv /\ OwnPicturesInv
    BY DEF LocalIInv
  <1>1. "tests" \in left[r] /\ shots' = shots \cup {r} /\ run' = run /\ left' = left /\ lock' = lock /\ owner' = owner /\ manifest' = manifest
    BY DEF Shoot
  <1>2. LocalTypeOK' /\ HolderInv'
    BY <1>1, <1>t DEF LocalTypeOK, HolderInv
  <1>3. OwnPicturesInv'
    <2> SUFFICES ASSUME \A q \in Run : ~ run[q].lost PROVE OwnPicturesInv'
      BY <1>1 DEF OwnPicturesInv
    <2>1. run[r].at = "tests"
      BY <1>1, <1>t DEF HolderInv
    <2>2. \A q \in Run : run[q].at \in Live => q = r
      BY <1>t, <2>1 DEF HolderInv, Live
    <2>3. \A q \in Run : run[q].at \notin {"finalize", "release"} /\ (run[q].at \in {"spawn", "tests", "report"} => q = r)
      BY <2>1, <2>2 DEF Live
    <2> QED
      BY <1>1, <1>t, <2>1, <2>3 DEF OwnPicturesInv
  <1> QED
    BY <1>2, <1>3 DEF LocalIInv
\* The same for a run that changes its place and its exit code only.
LEMMA RunGoes ==
    ASSUME LocalIInv, NEW r \in Run, NEW at \in {"over"} \cup Live, NEW code \in {"none", "pass", "fail"},
           End(r, at, code) \/ (Go(r, at) /\ code = run[r].code),
           left' \in [Run -> SUBSET {"services", "database", "tests"}], lock' \in Run \cup {NoRun},
           owner' \in Run \cup {NoRun}, shots' \subseteq Run, manifest' \in [by : Run \cup {NoRun}, files : SUBSET Run],
           \A q \in Run \ {r} : left'[q] = left[q],
           run[r].at \in Live \/ (shots' = shots /\ manifest' = manifest /\ (lock = NoRun \/ lock' = lock)),
           at \in Live => lock' = r,
           run[r].lost => at \in {"finalize", "release", "over", "dead"},
           "tests" \in left'[r] => at = "tests" \/ run[r].lost,
           OwnPicturesInv /\ (\A q \in Run : ~ run[q].lost) =>
               /\ manifest'.files \subseteq {manifest'.by}
               /\ at \in {"spawn", "tests", "report"} => shots' \subseteq {r}
               /\ at \in {"finalize", "release"} /\ code = "pass" => manifest'.by = r /\ manifest'.files = shots'
    PROVE  LocalIInv'
  <1>t. run \in [Run -> Progress] /\ run[r] \in Progress
    BY DEF LocalIInv, LocalTypeOK
  <1> DEFINE x == [run[r] EXCEPT !.at = at, !.code = code]
  <1>1. x \in Progress /\ x.at = at /\ x.code = code /\ x.lost = run[r].lost
    BY <1>t DEF Progress
  <1>2. run' = [run EXCEPT ![r] = x]
    <2>1. CASE End(r, at, code)
      BY <1>t, <2>1 DEF End
    <2>2. CASE Go(r, at) /\ code = run[r].code
      <3>1. [run[r] EXCEPT !.at = at] = x
        BY <1>t, <2>2 DEF Progress
      <3> QED
        BY <1>t, <2>2, <3>1 DEF Go
    <2> QED
      BY <2>1, <2>2
  <1> HIDE DEF x
  <1>3. LocalTypeOK'
    BY <1>1, <1>2, <1>t DEF LocalTypeOK
  <1> QED
    BY <1>1, <1>2, <1>3, RunMoves

\* The lease.
LEMMA LeaseSteps ==
    ASSUME LocalIInv, NEW r \in Run, Enter(r) \/ SaveOwner(r) \/ Release(r)
    PROVE  LocalIInv'
  <1>t. /\ run[r] \in Progress /\ left \in [Run -> SUBSET {"services", "database", "tests"}] /\ lock \in Run \cup {NoRun}
        /\ owner \in Run \cup {NoRun} /\ shots \subseteq Run /\ manifest \in [by : Run \cup {NoRun}, files : SUBSET Run]
        /\ run[r].at \in Live => lock = r
        /\ run[r].lost => run[r].at \in {"finalize", "release", "over", "dead"}
        /\ "tests" \in left[r] => run[r].at = "tests" \/ run[r].lost
    BY DEF LocalIInv, LocalTypeOK, HolderInv
  <1>u. left' = left /\ shots' = shots /\ manifest' = manifest /\ run[r].at \in {"idle", "locked", "release"}
    BY DEF Enter, SaveOwner, Release, RunAt
  <1>c. run[r].code \in {"none", "pass", "fail"} /\ "fail" \in {"none", "pass", "fail"}
    BY <1>t DEF Progress
  <1>o. OwnPicturesInv /\ (\A q \in Run : ~ run[q].lost) => manifest.files \subseteq {manifest.by}
    BY DEF OwnPicturesInv
  <1>l. run[r].at # "idle" => run[r].at \in Live
    BY <1>u DEF Live
  <1>1. ASSUME NEW at \in {"over", "locked", "build", "dynamic"}, NEW code \in {"none", "pass", "fail"},
               End(r, at, code) \/ (Go(r, at) /\ code = run[r].code),
               lock' \in Run \cup {NoRun}, owner' \in Run \cup {NoRun},
               run[r].at \in Live \/ lock = NoRun \/ lock' = lock,
               at # "over" => lock' = r /\ run[r].at # "release"
        PROVE  LocalIInv'
    <2>1. at \in {"over"} \cup Live /\ at \notin {"spawn", "tests", "report", "finalize", "release"}
      BY DEF Live
    <2>2. at # "over" => ~ run[r].lost
      BY <1>1, <1>t, <1>u
    <2>3. "tests" \in left'[r] => run[r].lost
      BY <1>t, <1>u
    <2> QED
      BY <1>1, <1>o, <1>t, <1>u, <2>1, <2>2, <2>3, RunGoes DEF Live
  <1>2. CASE Enter(r)
    BY <1>1, <1>2, <1>c, <1>t DEF Enter, RunAt
  <1>3. CASE SaveOwner(r)
    <2>1. run[r].at = "locked" /\ run[r].at \in Live /\ lock = r
      BY <1>3, <1>l, <1>t DEF SaveOwner, RunAt
    <2> QED
      BY <1>1, <1>3, <1>c, <1>t, <2>1 DEF SaveOwner
  <1>4. CASE Release(r)
    BY <1>1, <1>4, <1>c, <1>l, <1>t DEF Release, RunAt
  <1> QED
    BY <1>2, <1>3, <1>4

\* A run at work.
LEMMA WorkSteps ==
    ASSUME LocalIInv, NEW r \in Run,
           \/ Launch(r) \/ WaitUntilUp(r) \/ CleanShots(r) \/ SpawnPlaywright(r) \/ PlaywrightExits(r)
           \/ Report(r) \/ Finalize(r) \/ RunDynamic(r)
    PROVE  LocalIInv'
  <1>t. /\ run[r] \in Progress /\ left \in [Run -> SUBSET {"services", "database", "tests"}] /\ lock \in Run \cup {NoRun}
        /\ owner \in Run \cup {NoRun} /\ shots \subseteq Run /\ manifest \in [by : Run \cup {NoRun}, files : SUBSET Run]
        /\ run[r].at \in Live => lock = r
        /\ run[r].lost => run[r].at \in {"finalize", "release", "over", "dead"}
        /\ "tests" \in left[r] => run[r].at = "tests" \/ run[r].lost
    BY DEF LocalIInv, LocalTypeOK, HolderInv
  <1>u. /\ lock' = lock /\ owner' = owner
        /\ run[r].at \in {"build", "wait", "clean", "spawn", "tests", "report", "finalize", "dynamic"}
    BY DEF Launch, WaitUntilUp, CleanShots, SpawnPlaywright, PlaywrightExits, Report, Finalize, RunDynamic, RunAt
  <1>l. run[r].at \in Live /\ lock = r /\ (run[r].lost => run[r].at = "finalize")
    BY <1>t, <1>u DEF Live
  <1>c. run[r].code \in {"none", "pass", "fail"}
    BY <1>t DEF Progress
  <1>o. OwnPicturesInv /\ (\A q \in Run : ~ run[q].lost) =>
           /\ manifest.files \subseteq {manifest.by}
           /\ run[r].at \in {"spawn", "tests", "report"} => shots \subseteq {r}
           /\ run[r].at \in {"finalize", "release"} /\ run[r].code = "pass" => manifest.by = r /\ manifest.files = shots
    BY DEF OwnPicturesInv
  <1>n. NoManifest \in [by : Run \cup {NoRun}, files : SUBSET Run] /\ NoManifest.files = {}
    BY DEF NoManifest
  \* What is left to show of each step.
  <1>1. ASSUME NEW at \in Live \ {"locked"}, NEW code \in {"none", "pass", "fail"},
               End(r, at, code) \/ (Go(r, at) /\ code = run[r].code),
               NEW rest \in SUBSET {"services", "database", "tests"}, left' = [left EXCEPT ![r] = rest],
               shots' \subseteq Run, manifest' \in [by : Run \cup {NoRun}, files : SUBSET Run],
               run[r].at = "finalize" => at = "release",
               "tests" \in rest => at = "tests" \/ run[r].lost,
               OwnPicturesInv /\ (\A q \in Run : ~ run[q].lost) =>
                   /\ manifest'.files \subseteq {manifest'.by}
                   /\ at \in {"spawn", "tests", "report"} => shots' \subseteq {r}
                   /\ at \in {"finalize", "release"} /\ code = "pass" => manifest'.by = r /\ manifest'.files = shots'
        PROVE  LocalIInv'
    <2>1. /\ left' \in [Run -> SUBSET {"services", "database", "tests"}] /\ left'[r] = rest
          /\ \A q \in Run \ {r} : left'[q] = left[q]
      BY <1>1, <1>t
    <2>2. at \in {"over"} \cup Live /\ lock' = r /\ lock' \in Run \cup {NoRun} /\ owner' \in Run \cup {NoRun}
      BY <1>1, <1>l, <1>t, <1>u
    <2>3. run[r].lost => at \in {"finalize", "release", "over", "dead"}
      BY <1>1, <1>l
    <2>4. "tests" \in left'[r] => at = "tests" \/ run[r].lost
      BY <1>1, <2>1
    <2>5. End(r, at, code) \/ (Go(r, at) /\ code = run[r].code)
      BY <1>1
    <2>6. shots' \subseteq Run /\ manifest' \in [by : Run \cup {NoRun}, files : SUBSET Run] /\ run[r].at \in Live
      BY <1>1, <1>l
    <2>7. OwnPicturesInv /\ (\A q \in Run : ~ run[q].lost) =>
             /\ manifest'.files \subseteq {manifest'.by}
             /\ at \in {"spawn", "tests", "report"} => shots' \subseteq {r}
             /\ at \in {"finalize", "release"} /\ code = "pass" => manifest'.by = r /\ manifest'.files = shots'
      BY <1>1
    <2> QED
      BY <2>1, <2>2, <2>3, <2>4, <2>5, <2>6, <2>7, RunGoes
  <1>2. left = [left EXCEPT ![r] = left[r]] /\ left[r] \in SUBSET {"services", "database", "tests"}
    BY <1>t
  <1>p. {"build", "wait", "clean", "spawn", "tests", "report", "finalize", "release"} \subseteq Live \ {"locked"}
    BY DEF Live
  <1>3. CASE Launch(r)
    BY <1>1, <1>2, <1>3, <1>c, <1>l, <1>o, <1>p, <1>t DEF Launch, RunAt
  <1>4. CASE WaitUntilUp(r)
    BY <1>1, <1>2, <1>4, <1>c, <1>l, <1>o, <1>p, <1>t DEF WaitUntilUp, RunAt
  <1>5. CASE CleanShots(r)
    BY <1>1, <1>2, <1>5, <1>c, <1>l, <1>n, <1>p, <1>t DEF CleanShots, RunAt
  <1>6. CASE SpawnPlaywright(r)
    <2>1. PICK rest \in SUBSET {"services", "database", "tests"} : rest = left[r] \cup {"tests"}
      BY <1>2
    <2>2. run[r].at = "spawn" /\ shots' = shots /\ manifest' = manifest
      BY <1>6 DEF SpawnPlaywright, RunAt
    <2>3. CASE left' = [left EXCEPT ![r] = left[r] \cup {"tests"}] /\ Go(r, "tests")
      <3>1. left' = [left EXCEPT ![r] = rest] /\ Go(r, "tests") /\ "tests" \in Live \ {"locked"}
        BY <1>p, <2>1, <2>3
      <3> QED
        BY <1>1, <1>c, <1>o, <1>t, <2>2, <3>1
    <2>4. CASE left' = left /\ End(r, "finalize", "fail")
      BY <1>1, <1>2, <1>o, <1>p, <1>t, <2>2, <2>4
    <2> QED
      BY <1>6, <2>3, <2>4 DEF SpawnPlaywright
  <1>7. CASE PlaywrightExits(r)
    <2>1. PICK rest \in SUBSET {"services", "database", "tests"} : rest = left[r] \ {"tests"}
      BY <1>2
    <2>2. PICK code \in {"none", "pass", "fail"} : End(r, "report", code)
      BY <1>7 DEF PlaywrightExits
    <2>3. run[r].at = "tests" /\ shots' = shots /\ manifest' = manifest /\ left' = [left EXCEPT ![r] = left[r] \ {"tests"}]
      BY <1>7 DEF PlaywrightExits, RunAt
    <2> QED
      <3>1. left' = [left EXCEPT ![r] = rest] /\ "tests" \notin rest /\ "report" \in Live \ {"locked"} /\ run[r].at # "finalize"
        BY <1>p, <2>1, <2>3
      <3>2. shots' \subseteq Run /\ manifest' \in [by : Run \cup {NoRun}, files : SUBSET Run]
        BY <1>t, <2>3
      <3>3. OwnPicturesInv /\ (\A q \in Run : ~ run[q].lost) => manifest'.files \subseteq {manifest'.by} /\ shots' \subseteq {r}
        BY <1>o, <2>3
      <3> QED
        BY <1>1, <2>2, <3>1, <3>2, <3>3
  <1>8. CASE Report(r)
    <2> DEFINE lists == IF run[r].code = "pass" THEN shots # {} ELSE run[r].bench
               m == [by |-> r, files |-> shots]
               code == IF lists THEN run[r].code ELSE "fail"
    <2>1. /\ run[r].at = "report" /\ shots' = shots /\ left' = left /\ End(r, "finalize", code)
          /\ manifest' = IF lists THEN m ELSE manifest
      BY <1>8 DEF Report, RunAt
    <2>2. m \in [by : Run \cup {NoRun}, files : SUBSET Run] /\ m.by = r /\ m.files = shots
      BY <1>t
    <2>3. code \in {"none", "pass", "fail"} /\ (code = "pass" => lists)
      BY <1>c
    <2> HIDE DEF m, code, lists
    <2>4. manifest' \in [by : Run \cup {NoRun}, files : SUBSET Run] /\ (code = "pass" => manifest' = m) /\ manifest' \in {m, manifest}
      BY <1>t, <2>1, <2>2, <2>3
    <2>5. OwnPicturesInv /\ (\A q \in Run : ~ run[q].lost) =>
             manifest'.files \subseteq {manifest'.by} /\ (code = "pass" => manifest'.by = r /\ manifest'.files = shots')
      BY <1>o, <2>1, <2>2, <2>4
    <2>6. "tests" \in left[r] => run[r].lost
      BY <1>t, <2>1
    <2> QED
      BY <1>1, <1>2, <1>p, <1>t, <2>1, <2>3, <2>4, <2>5, <2>6
  <1>9. CASE Finalize(r)
    <2>1. PICK stuck \in SUBSET (left[r] \ {"tests"}) :
             /\ left' = [left EXCEPT ![r] = (left[r] \cap {"tests"}) \cup stuck]
             /\ End(r, "release", IF stuck = {} THEN run[r].code ELSE "fail")
      BY <1>9 DEF Finalize
    <2> DEFINE rest == (left[r] \cap {"tests"}) \cup stuck
               code == IF stuck = {} THEN run[r].code ELSE "fail"
    <2>2. rest \in SUBSET {"services", "database", "tests"} /\ ("tests" \in rest => "tests" \in left[r])
      BY <1>2
    <2>3. code \in {"none", "pass", "fail"} /\ (code = "pass" => run[r].code = "pass")
      BY <1>c
    <2>4. left' = [left EXCEPT ![r] = rest] /\ End(r, "release", code)
      BY <2>1
    <2> HIDE DEF rest, code
    <2>5. run[r].at = "finalize" /\ shots' = shots /\ manifest' = manifest
      BY <1>9 DEF Finalize, RunAt
    <2> QED
      <3>1. "release" \in Live \ {"locked"} /\ ("tests" \in rest => run[r].lost)
        BY <1>p, <1>t, <2>2, <2>5
      <3>2. OwnPicturesInv /\ (\A q \in Run : ~ run[q].lost) =>
               manifest'.files \subseteq {manifest'.by} /\ (code = "pass" => manifest'.by = r /\ manifest'.files = shots')
        BY <1>o, <2>3, <2>5
      <3>3. shots' \subseteq Run /\ manifest' \in [by : Run \cup {NoRun}, files : SUBSET Run]
        BY <1>t, <2>5
      <3> QED
        BY <1>1, <2>2, <2>3, <2>4, <3>1, <3>2, <3>3
  <1>10. CASE RunDynamic(r)
    <2> DEFINE m == [by |-> r, files |-> {r}]
    <2>1. m \in [by : Run \cup {NoRun}, files : SUBSET Run] /\ m.by = r /\ m.files = {r}
      OBVIOUS
    <2>2. run[r].at = "dynamic" /\ left' = left
      BY <1>10 DEF RunDynamic, RunAt
    <2>3. "tests" \in left[r] => run[r].lost
      BY <1>t, <2>2
    <2>4. CASE shots' = {r} /\ manifest' = m /\ End(r, "release", "pass")
      <3> HIDE DEF m
      <3> QED
        BY <1>1, <1>2, <1>p, <1>t, <2>1, <2>2, <2>3, <2>4
    <2>5. CASE shots' = shots /\ manifest' = manifest /\ End(r, "release", "fail")
      BY <1>1, <1>2, <1>o, <1>p, <1>t, <2>2, <2>3, <2>5
    <2> QED
      BY <1>10, <2>4, <2>5 DEF RunDynamic
  <1> QED
    BY <1>3, <1>4, <1>5, <1>6, <1>7, <1>8, <1>9, <1>10

\* A run is interrupted or killed; its tests may be lost.
LEMMA LossSteps ==
    ASSUME LocalIInv, NEW r \in Run, Interrupt(r) \/ RunKilled(r)
    PROVE  LocalIInv'
  <1>t. /\ run \in [Run -> Progress] /\ run[r] \in Progress /\ left \in [Run -> SUBSET {"services", "database", "tests"}]
        /\ lock \in Run \cup {NoRun} /\ owner \in Run \cup {NoRun} /\ shots \subseteq Run
        /\ manifest \in [by : Run \cup {NoRun}, files : SUBSET Run]
        /\ run[r].at \in Live => lock = r
        /\ run[r].lost => run[r].at \in {"finalize", "release", "over", "dead"}
        /\ "tests" \in left[r] => run[r].at = "tests" \/ run[r].lost
    BY DEF LocalIInv, LocalTypeOK, HolderInv
  <1>o. OwnPicturesInv /\ (\A q \in Run : ~ run[q].lost) => manifest.files \subseteq {manifest.by}
    BY DEF OwnPicturesInv
  <1>u. owner' = owner /\ shots' = shots /\ manifest' = manifest
    BY DEF Interrupt, RunKilled
  <1>1. CASE Interrupt(r)
    <2>1. PICK stay \in BOOLEAN :
             /\ left' = [left EXCEPT ![r] = IF stay THEN left[r] ELSE left[r] \ {"tests"}]
             /\ run' = [run EXCEPT ![r].at = "finalize", ![r].code = "fail", ![r].lost = stay]
      BY <1>1 DEF Interrupt
    <2>2. run[r].at = "tests" /\ run[r].at \in Live /\ lock' = lock
      BY <1>1 DEF Interrupt, RunAt, Live
    <2> DEFINE x == [run[r] EXCEPT !.at = "finalize", !.code = "fail", !.lost = stay]
    <2>3. run' = [run EXCEPT ![r] = x]
      BY <1>t, <2>1
    <2>4. x \in Progress /\ x.at = "finalize" /\ x.code = "fail" /\ x.lost = stay
      BY <1>t DEF Progress, Live
    <2> HIDE DEF x
    <2>5. /\ left' \in [Run -> SUBSET {"services", "database", "tests"}] /\ ("tests" \in left'[r] => stay)
          /\ \A q \in Run \ {r} : left'[q] = left[q]
      BY <1>t, <2>1
    <2>6. LocalTypeOK'
      BY <1>t, <1>u, <2>2, <2>3, <2>4, <2>5 DEF LocalTypeOK
    <2> QED
      BY <1>o, <1>t, <1>u, <2>2, <2>3, <2>4, <2>5, <2>6, RunMoves
  <1>2. CASE RunKilled(r)
    <2> DEFINE lost == run[r].lost \/ "tests" \in left[r]
               x == [run[r] EXCEPT !.at = "dead", !.lost = lost]
    <2>1. run' = [run EXCEPT ![r] = x] /\ left' = left /\ lock' = (IF lock = r THEN NoRun ELSE lock)
      BY <1>2, <1>t DEF RunKilled
    <2>2. run[r].at \in Live
      BY <1>2, <1>t DEF RunKilled, RunAt, Progress
    <2>3. lost \in BOOLEAN
      BY <1>t DEF Progress
    <2>4. x \in Progress /\ x.at = "dead" /\ x.lost = lost
      BY <1>t, <2>3 DEF Progress
    <2> HIDE DEF x
    <2>5. LocalTypeOK'
      BY <1>t, <1>u, <2>1, <2>4 DEF LocalTypeOK
    <2>6. "dead" \notin Live
      BY DEF Live
    <2> QED
      BY <1>o, <1>t, <1>u, <2>1, <2>2, <2>4, <2>5, <2>6, RunMoves
  <1> QED
    BY <1>1, <1>2

LEMMA NextLocalIInv == LocalIInv /\ [LocalNext]_localVars => LocalIInv'
  <1>1. ASSUME LocalIInv, NEW r \in Run,
               \/ Enter(r) \/ SaveOwner(r) \/ Release(r) \/ Launch(r) \/ WaitUntilUp(r) \/ CleanShots(r) \/ SpawnPlaywright(r)
               \/ Shoot(r) \/ PlaywrightExits(r) \/ Interrupt(r) \/ Report(r) \/ Finalize(r) \/ RunDynamic(r) \/ RunKilled(r)
        PROVE  LocalIInv'
    BY <1>1, LeaseSteps, WorkSteps, LossSteps, ShootStep
  <1>2. ASSUME LocalIInv, UNCHANGED localVars PROVE LocalIInv'
    BY <1>2 DEF localVars, LocalIInv, LocalTypeOK, HolderInv, OwnPicturesInv
  <1> QED
    BY <1>1, <1>2 DEF LocalNext

\* The inductive invariant holds in every behaviour of LocalRun.
THEOREM LocalInductive == LocalSpec => []LocalIInv
  BY InitLocalIInv, NextLocalIInv, PTL DEF LocalSpec

\* Type correctness of LocalRun.
THEOREM LocalTypeCorrect == LocalSpec => []LocalTypeOK
  <1>1. LocalIInv => LocalTypeOK
    BY DEF LocalIInv
  <1> QED
    BY LocalInductive, <1>1, PTL

\* For any number of runs that are started, refused, interrupted or killed,
\* latest-run.json lists no other run's pictures as long as no tests outlived
\* their run, and a success is reported with the pictures in the directory.
THEOREM ManifestsAreOwn == LocalSpec => []ManifestIsOwn
  <1>1. LocalIInv => ManifestIsOwn
    BY DEF LocalIInv, OwnPicturesInv, ManifestIsOwn, RunAt
  <1> QED
    BY LocalInductive, <1>1, PTL
---------------------------------------------------------------------------
(* Publication                                                             *)

Lists == {<<"shots", "metrics">>, <<"uiux", "shots", "metrics">>}
Content == {"none", "old", "new", "part", "partial"}
Flags == [seen : BOOLEAN, had : BOOLEAN, installed : BOOLEAN, recovery : BOOLEAN]
Swapping == {"swap", "install", "recover", "drop"}
Rolling == {"rollback", "restore", "tidy"}
Txn == [at : {"results", "committed", "done", "raised", "over", "dead"} \cup Swapping \cup Rolling,
        list : Lists \cup {<<>>}, i : Nat, swap : [Target -> Flags],
        cause : {"none", "os", "interrupt", "late"}, failed : BOOLEAN]

\* The type invariant of Publication.
PublicationTypeOK ==
    /\ before \in [Target -> {"none", "old"}] /\ before["metrics"] = "none"
    /\ fs \in [Target -> [Sibling -> Content]]
    /\ txn \in Txn

Listed(k) == txn.list[k]
Listing == 1 .. Len(txn.list)

\* A complete copy of the previous target is on disk.
Kept(t) == before[t] = "old" => \E p \in {"target", "backup", "recovery"} : fs[t][p] = "old"

\* What the flags of a target say about the disk, until it is rolled back.  An
\* interrupt may have come between a call and its flag.
Sound(t) ==
    LET s == txn.swap[t] IN
    /\ s.had => before[t] = "old"
    /\ s.seen /\ before[t] = "old" => s.had
    /\ s.installed => s.seen /\ fs[t]["target"] = "new"
    /\ s.recovery => s.had /\ fs[t]["recovery"] = "old"
    /\ s.had /\ ~ s.recovery => fs[t]["backup"] = "old"
    /\ ~ s.seen => fs[t]["backup"] = "old" \/ fs[t]["target"] = before[t]
    /\ txn.cause # "interrupt" =>
          /\ ~ s.seen => fs[t]["target"] = before[t]
          /\ s.seen /\ ~ s.installed => fs[t]["target"] = "none"

\* What was installed has been moved away.
Away(t) ==
    LET s == txn.swap[t] IN
    /\ s.had <=> before[t] = "old"
    /\ s.recovery => fs[t]["recovery"] = "old"
    /\ s.had /\ ~ s.recovery => fs[t]["backup"] = "old"
    /\ txn.cause = "os" => fs[t]["target"] = "none"

\* The previous target is back.
Restored(t) ==
    /\ before[t] = "old" => fs[t]["target"] = "old"
    /\ txn.cause = "os" => fs[t]["target"] = before[t]

\* The rollback is through with the target.
Rolled(t) ==
    /\ Kept(t)
    /\ txn.cause = "os" /\ ~ txn.failed => fs[t]["target"] = before[t]

\* A target that was not reached.
Untouched(t) == txn.swap[t] = Unseen /\ fs[t]["target"] = before[t] /\ fs[t]["stage"] = "new"

AllNew == \A k \in Listing : fs[Listed(k)]["target"] = "new"

\* How far the swap of the k-th target is.
ReachedInv ==
    /\ txn.at = "swap" => \A k \in Listing : IF k < txn.i THEN txn.swap[Listed(k)].installed ELSE Untouched(Listed(k))
    /\ txn.at = "install" =>
          /\ \A k \in Listing : /\ k < txn.i => txn.swap[Listed(k)].installed
                                /\ k > txn.i => Untouched(Listed(k))
          /\ State.seen /\ ~ State.installed /\ ~ State.recovery /\ fs[This]["stage"] = "new"
    /\ txn.at \in {"swap", "install"} => \A k \in Listing : ~ txn.swap[Listed(k)].recovery
    /\ txn.at \in {"recover", "drop"} => \A k \in Listing : txn.swap[Listed(k)].installed
    /\ txn.at = "recover" => \A k \in Listing : IF k < txn.i THEN txn.swap[Listed(k)].had => txn.swap[Listed(k)].recovery
                                                 ELSE ~ txn.swap[Listed(k)].recovery
    /\ txn.at = "drop" => \A k \in Listing : txn.swap[Listed(k)].had => txn.swap[Listed(k)].recovery

\* Targets are swapped in order.
OrderInv == \A k, l \in Listing : k < l /\ txn.swap[Listed(l)].seen => txn.swap[Listed(k)].installed

\* The evidence that is published is all there is, with its descriptions.
EvidenceInv ==
    /\ published = Uiux
    /\ \A f \in Uiux : f.kind = "png" => Cardinality({m \in Uiux : m.kind = "json" /\ m.dir = f.dir /\ m.of = f.name}) = 1

RollingInv ==
    /\ txn.cause \in {"os", "interrupt"}
    /\ txn.i \in 0 .. Len(txn.list) /\ (txn.at # "rollback" => txn.i # 0)
    /\ \A k \in Listing : k < txn.i => Sound(Listed(k))
    /\ txn.i # 0 => CASE txn.at = "rollback" -> Sound(This)
                      [] txn.at = "restore" -> Away(This)
                      [] OTHER -> Restored(This)
    /\ \A k \in Listing : k > txn.i => Rolled(Listed(k))

\* The inductive invariant.
PublicationIInv ==
    /\ PublicationTypeOK
    /\ \A t \in Target \ Range(txn.list) : t # "metrics" \/ txn.at # "over" => fs[t]["target"] = before[t]
    /\ txn.at = "results" => txn.list = <<>> /\ txn.i = 1 /\ txn.swap = [t \in Target |-> Unseen] /\ txn.cause = "none" /\ ~ txn.failed
                             /\ \A t \in Target : fs[t]["target"] = before[t]
    /\ txn.at \in Swapping \cup Rolling \cup {"committed", "done"} => txn.list \in Lists /\ EvidenceInv
    /\ txn.at \in Swapping =>
          /\ txn.cause = "none" /\ ~ txn.failed /\ txn.i \in Listing
          /\ (\A k \in Listing : Sound(Listed(k))) /\ ReachedInv /\ OrderInv
    /\ txn.at \in Rolling => RollingInv /\ OrderInv
    /\ txn.at = "committed" => txn.i \in Listing
    /\ txn.at \in {"committed", "done"} => AllNew
    /\ txn.at = "raised" => \/ txn.cause = "late" /\ AllNew
                            \/ txn.cause \in {"os", "interrupt"} /\ \A t \in Target : Rolled(t)
    /\ txn.at \in {"raised", "over", "dead"} => NothingLost /\ CompleteMeansPublished
\* The shape of the lists of targets.
LEMMA ListShapes ==
    ASSUME NEW l \in Lists
    PROVE  /\ Len(l) \in Nat /\ Len(l) >= 1 /\ l[Len(l)] = "metrics"
           /\ \A k \in 1 .. Len(l) : l[k] \in Target /\ (k # Len(l) => l[k] # "metrics")
           /\ \A j, k \in 1 .. Len(l) : l[j] = l[k] => j = k
           /\ Range(l) = {l[k] : k \in 1 .. Len(l)} /\ Range(l) \subseteq Target
           /\ l # <<>>
  <1>1. CASE l = <<"shots", "metrics">>
    <2>1. Len(l) = 2 /\ DOMAIN l = 1 .. 2 /\ l[1] = "shots" /\ l[2] = "metrics"
      BY <1>1
    <2> QED
      BY <2>1 DEF Target, Range
  <1>2. CASE l = <<"uiux", "shots", "metrics">>
    <2>1. Len(l) = 3 /\ DOMAIN l = 1 .. 3 /\ l[1] = "uiux" /\ l[2] = "shots" /\ l[3] = "metrics"
      BY <1>2
    <2> QED
      BY <2>1 DEF Target, Range
  <1> QED
    BY <1>1, <1>2 DEF Lists

\* What a rename and a write do to the disk.
LEMMA DiskShapes ==
    ASSUME fs \in [Target -> [Sibling -> Content]], NEW t \in Target
    PROVE  /\ \A p \in Sibling, c \in Content : Has(t, p, c) =>
                 /\ fs' \in [Target -> [Sibling -> Content]] /\ fs'[t][p] = c
                 /\ \A q \in Sibling \ {p} : fs'[t][q] = fs[t][q]
                 /\ \A u \in Target \ {t} : fs'[u] = fs[u]
           /\ \A p, q \in Sibling : p # q /\ fs' = Moved(t, p, q) =>
                 /\ fs' \in [Target -> [Sibling -> Content]] /\ fs'[t][q] = fs[t][p] /\ fs'[t][p] = "none"
                 /\ \A s \in Sibling \ {p, q} : fs'[t][s] = fs[t][s]
                 /\ \A u \in Target \ {t} : fs'[u] = fs[u]
  <1>1. ASSUME NEW p \in Sibling, NEW c \in Content, Has(t, p, c)
        PROVE  /\ fs' \in [Target -> [Sibling -> Content]] /\ fs'[t][p] = c
               /\ \A q \in Sibling \ {p} : fs'[t][q] = fs[t][q]
               /\ \A u \in Target \ {t} : fs'[u] = fs[u]
    BY <1>1 DEF Has
  <1>2. ASSUME NEW p \in Sibling, NEW q \in Sibling, p # q, fs' = Moved(t, p, q)
        PROVE  /\ fs' \in [Target -> [Sibling -> Content]] /\ fs'[t][q] = fs[t][p] /\ fs'[t][p] = "none"
               /\ \A s \in Sibling \ {p, q} : fs'[t][s] = fs[t][s]
               /\ \A u \in Target \ {t} : fs'[u] = fs[u]
    <2> DEFINE d == [fs[t] EXCEPT ![q] = fs[t][p], ![p] = "none"]
    <2>1. fs' = [fs EXCEPT ![t] = d]
      BY <1>2 DEF Moved
    <2>2. d \in [Sibling -> Content] /\ d[q] = fs[t][p] /\ d[p] = "none" /\ \A s \in Sibling \ {p, q} : d[s] = fs[t][s]
      BY <1>2 DEF Content
    <2> HIDE DEF d
    <2> QED
      BY <2>1, <2>2
  <1> QED
    BY <1>1, <1>2

LEMMA SoundKept ==
    ASSUME NEW t, before[t] \in {"none", "old"}, Sound(t)
    PROVE  Kept(t)
  BY DEF Sound, Kept

\* A target that no part of a step mentions.
LEMMA SameTarget ==
    ASSUME NEW t, before' = before, fs'[t] = fs[t]
    PROVE  /\ Kept(t)' <=> Kept(t)
           /\ txn'.swap[t] = txn.swap[t] /\ txn'.cause = txn.cause => (Sound(t)' <=> Sound(t))
           /\ txn'.cause = txn.cause /\ (txn.failed => txn'.failed) /\ Rolled(t) => Rolled(t)'
  BY DEF Kept, Sound, Rolled

\* The two invariants that hold in every phase follow from the inductive one.
LEMMA PublicationConsequences ==
    ASSUME PublicationIInv
    PROVE  NothingLost /\ CompleteMeansPublished
  <1>t. /\ before \in [Target -> {"none", "old"}] /\ before["metrics"] = "none" /\ txn \in Txn
        /\ "target" \in Sibling /\ "metrics" \in Target
    BY DEF PublicationIInv, PublicationTypeOK, Sibling, Target
  <1>a. txn.at \in {"results", "committed", "done", "raised", "over", "dead"} \cup Swapping \cup Rolling
    BY <1>t DEF Txn
  <1>u. txn.at # "over" => \A t \in Target \ Range(txn.list) : fs[t]["target"] = before[t]
    BY DEF PublicationIInv
  <1>k. \A t \in Target : fs[t]["target"] = before[t] => Kept(t)
    BY <1>t DEF Kept
  <1>n. (\A t \in Target : Kept(t)) => NothingLost
    BY DEF NothingLost, Kept, Sibling
  <1>1. CASE txn.at = "results"
    BY <1>1, <1>k, <1>n, <1>t DEF PublicationIInv, CompleteMeansPublished
  <1>2. CASE txn.at \in {"raised", "over", "dead"}
    BY <1>2 DEF PublicationIInv
  <1>3. CASE txn.at \in {"committed", "done"}
    <2>1. txn.list \in Lists /\ AllNew
      BY <1>3 DEF PublicationIInv
    <2>2. \A t \in Range(txn.list) : fs[t]["target"] = "new"
      BY <2>1, ListShapes DEF AllNew, Listing, Listed
    <2> QED
      BY <2>2 DEF NothingLost, CompleteMeansPublished
  <1>4. CASE txn.at \in Swapping \cup Rolling
    <2>1. txn.list \in Lists /\ OrderInv /\ txn.at # "over"
      BY <1>4 DEF PublicationIInv, Swapping, Rolling
    <2> DEFINE n == Len(txn.list)
    <2>2. /\ n \in Nat /\ n >= 1 /\ n \in Listing /\ Listed(n) = "metrics"
          /\ (\A k \in Listing : Listed(k) \in Target) /\ Listing = 1 .. n
          /\ Range(txn.list) = {Listed(k) : k \in Listing}
      BY <2>1, ListShapes DEF Listing, Listed
    \* If the metrics are in place, everything else is.
    <2>3. ASSUME \A k \in Listing : Sound(Listed(k)), txn.cause # "interrupt", fs["metrics"]["target"] = "new"
          PROVE  \A t \in Range(txn.list) : fs[t]["target"] = "new"
      <3>1. txn.swap["metrics"].seen
        BY <1>t, <2>2, <2>3 DEF Sound
      <3>2. \A k \in Listing : k # n => txn.swap[Listed(k)].installed
        BY <2>1, <2>2, <3>1 DEF OrderInv
      <3>3. \A k \in Listing : k # n => fs[Listed(k)]["target"] = "new"
        BY <2>3, <3>2 DEF Sound
      <3> QED
        BY <2>2, <2>3, <3>3
    <2>4. CASE txn.at \in Swapping
      <3>1. txn.cause = "none" /\ \A k \in Listing : Sound(Listed(k))
        BY <2>4 DEF PublicationIInv
      <3>2. \A t \in Target : Kept(t)
        BY <1>k, <1>t, <1>u, <2>1, <2>2, <3>1, SoundKept
      <3> QED
        BY <1>n, <2>3, <3>1, <3>2 DEF CompleteMeansPublished
    <2>5. CASE txn.at \in Rolling
      <3>1. RollingInv /\ txn.at # "over"
        BY <2>5 DEF PublicationIInv, Rolling
      <3>2. txn.i \in 0 .. n /\ txn.cause \in {"os", "interrupt"}
        BY <3>1 DEF RollingInv
      <3>3. \A k \in Listing : k # txn.i => Kept(Listed(k))
        BY <1>t, <2>2, <3>1, <3>2, SoundKept DEF RollingInv, Rolled
      <3>4. txn.i # 0 => Kept(This) /\ txn.i \in Listing /\ This = Listed(txn.i)
        <4> SUFFICES ASSUME txn.i # 0 PROVE Kept(This) /\ txn.i \in Listing /\ This = Listed(txn.i)
          OBVIOUS
        <4>1. txn.i \in Listing /\ This = Listed(txn.i) /\ This \in Target
          BY <2>2, <3>2 DEF This, Listed
        <4>2. CASE txn.at = "rollback"
          BY <1>t, <3>1, <4>1, <4>2, SoundKept DEF RollingInv
        <4>3. CASE txn.at = "restore"
          <5>1. Away(This) /\ {"backup", "recovery"} \subseteq Sibling
            BY <3>1, <4>3 DEF RollingInv, Sibling
          <5> QED
            BY <4>1, <5>1 DEF Away, Kept
        <4>4. CASE txn.at = "tidy"
          <5>1. Restored(This)
            BY <3>1, <4>4 DEF RollingInv
          <5> QED
            BY <1>t, <4>1, <5>1 DEF Restored, Kept
        <4> QED
          BY <2>5, <4>1, <4>2, <4>3, <4>4 DEF Rolling
      <3>5. \A t \in Target : Kept(t)
        BY <1>k, <1>u, <2>1, <2>2, <3>3, <3>4
      <3>6. CompleteMeansPublished
        <4> SUFFICES ASSUME fs["metrics"]["target"] = "new", txn.cause # "interrupt", ~ txn.failed
                     PROVE  \A t \in Range(txn.list) : fs[t]["target"] = "new"
          BY DEF CompleteMeansPublished
        <4>1. CASE txn.i # n
          BY <1>t, <2>2, <3>1, <3>2, <4>1 DEF RollingInv, Rolled
        <4>2. CASE txn.i = n /\ txn.at = "rollback"
          <5>1. \A k \in Listing : Sound(Listed(k))
            BY <2>2, <3>1, <4>2 DEF RollingInv, This, Listed
          <5> QED
            BY <2>3, <5>1
        <4>3. CASE txn.i = n /\ txn.at = "restore"
          BY <2>2, <3>1, <3>2, <4>3 DEF RollingInv, This, Listed, Away
        <4>4. CASE txn.i = n /\ txn.at = "tidy"
          BY <1>t, <2>2, <3>1, <3>2, <4>4 DEF RollingInv, This, Listed, Restored
        <4> QED
          BY <2>5, <4>1, <4>2, <4>3, <4>4 DEF Rolling
      <3> QED
        BY <1>n, <3>5, <3>6
    <2> QED
      BY <1>4, <2>4, <2>5
  <1> QED
    BY <1>1, <1>2, <1>3, <1>4, <1>a
LEMMA InitPublicationIInv == PublicationInit => PublicationIInv
  <1> SUFFICES ASSUME PublicationInit PROVE PublicationIInv
    OBVIOUS
  <1>1. before \in [Target -> {"none", "old"}] /\ before["metrics"] = "none"
    BY DEF PublicationInit
  <1>2. fs \in [Target -> [Sibling -> Content]] /\ \A t \in Target : fs[t]["target"] = before[t]
    <2>1. "target" \in Sibling
      BY DEF Sibling
    <2> QED
      BY <1>1, <2>1 DEF PublicationInit, Content
  <1>3. Unseen \in Flags
    BY DEF Unseen, Flags
  <1>4. txn \in Txn /\ txn.at = "results" /\ txn.list = <<>> /\ txn.i = 1 /\ txn.swap = [t \in Target |-> Unseen] /\ txn.cause = "none" /\ ~ txn.failed
    BY <1>3 DEF PublicationInit, Txn
  <1> QED
    BY <1>1, <1>2, <1>4 DEF PublicationIInv, PublicationTypeOK, Swapping, Rolling

\* Evidence without two files for one destination is staged as it is.
LEMMA StagedIsAll ==
    ASSUME CollectEvidence
    PROVE  Staged = Uiux
  <1>1. \A f \in Uiux : (CHOOSE g \in Uiux : Destination(g) = Destination(f)) = f
    BY DEF CollectEvidence
  <1> QED
    BY <1>1 DEF Staged

LEMMA PublicationsListed == Publications \in Lists
  <1>1. <<>> \o <<"shots", "metrics">> = <<"shots", "metrics">>
    OBVIOUS
  <1>2. <<"uiux">> \o <<"shots", "metrics">> = <<"uiux", "shots", "metrics">>
    <2> DEFINE a == <<"uiux">>
               b == <<"shots", "metrics">>
               c == <<"uiux", "shots", "metrics">>
    <2>1. a \in Seq(Target) /\ b \in Seq(Target) /\ c \in Seq(Target)
      BY DEF Target
    <2>2. /\ Len(a) = 1 /\ Len(b) = 2 /\ Len(c) = 3
          /\ a[1] = "uiux" /\ b[1] = "shots" /\ b[2] = "metrics" /\ c[1] = "uiux" /\ c[2] = "shots" /\ c[3] = "metrics"
      OBVIOUS
    <2> HIDE DEF a, b, c
    <2>3. /\ a \o b \in Seq(Target) /\ Len(a \o b) = 3
          /\ \A i \in 1 .. 3 : (a \o b)[i] = IF i <= 1 THEN a[i] ELSE b[i - 1]
      <3>1. /\ a \o b \in Seq(Target) /\ Len(a \o b) = Len(a) + Len(b)
            /\ \A i \in 1 .. Len(a) + Len(b) : (a \o b)[i] = IF i <= Len(a) THEN a[i] ELSE b[i - Len(a)]
        BY <2>1, ConcatProperties
      <3>2. Len(a) = 1 /\ Len(a) + Len(b) = 3
        BY <2>2
      <3> QED
        BY <3>1, <3>2
    <2>4. \A i \in 1 .. 3 : (a \o b)[i] = c[i]
      BY <2>2, <2>3
    <2>5. a \o b = c
      BY <2>1, <2>2, <2>3, <2>4, SeqEqual
    <2> QED
      BY <2>5 DEF a, b, c
  <1> QED
    BY <1>1, <1>2 DEF Publications, Lists

\* The evidence stays what it was.
LEMMA SameEvidence ==
    ASSUME UNCHANGED <<result, published>>
    PROVE  EvidenceInv' <=> EvidenceInv
  <1>1. Uiux' = Uiux
    BY DEF Uiux
  <1> QED
    BY <1>1 DEF EvidenceInv

\* The checks pass and everything is staged, or they fail and nothing is.
LEMMA PrepareSteps ==
    ASSUME PublicationIInv, Prepare \/ Refuse
    PROVE  PublicationIInv'
  <1>t. /\ before \in [Target -> {"none", "old"}] /\ before["metrics"] = "none" /\ txn \in Txn
        /\ fs \in [Target -> [Sibling -> Content]]
    BY DEF PublicationIInv, PublicationTypeOK
  <1>1. /\ txn.at = "results" /\ txn.list = <<>> /\ txn.i = 1 /\ txn.swap = [t \in Target |-> Unseen] /\ txn.cause = "none" /\ ~ txn.failed
        /\ \A t \in Target : fs[t]["target"] = before[t]
    BY DEF Prepare, Refuse, PublicationIInv
  <1>2. CASE Prepare
    <2>1. /\ result' = result /\ before' = before /\ published' = Staged /\ CollectEvidence
          /\ fs' = [t \in Target |-> IF t \in Range(Publications) THEN [fs[t] EXCEPT !["stage"] = "new"] ELSE fs[t]]
          /\ txn' = [txn EXCEPT !.at = "swap", !.list = Publications]
      BY <1>2 DEF Prepare
    <2>2. Publications \in Lists
      BY PublicationsListed
    <2>3. txn' \in Txn /\ txn'.at = "swap" /\ txn'.list \in Lists /\ txn'.list = Publications
          /\ txn'.i = 1 /\ txn'.swap = [t \in Target |-> Unseen] /\ txn'.cause = "none" /\ ~ txn'.failed
      BY <1>1, <1>t, <2>1, <2>2 DEF Txn, Swapping
    <2>4. /\ fs' \in [Target -> [Sibling -> Content]] /\ (\A t \in Target : fs'[t]["target"] = before[t])
          /\ \A t \in Range(Publications) \cap Target : fs'[t]["stage"] = "new"
      <3>1. \A t \in Target : /\ [fs[t] EXCEPT !["stage"] = "new"] \in [Sibling -> Content]
                              /\ [fs[t] EXCEPT !["stage"] = "new"]["target"] = fs[t]["target"]
                              /\ [fs[t] EXCEPT !["stage"] = "new"]["stage"] = "new"
        BY <1>t DEF Sibling, Content
      <3> QED
        BY <1>1, <1>t, <2>1, <3>1
    <2>5. /\ Len(txn'.list) \in Nat /\ Len(txn'.list) >= 1
          /\ \A k \in 1 .. Len(txn'.list) : txn'.list[k] \in Target /\ txn'.list[k] \in Range(Publications)
      BY <2>3, ListShapes
    <2>6. Listing' = 1 .. Len(txn'.list) /\ \A k : Listed(k)' = txn'.list[k]
      BY DEF Listing, Listed
    <2>7. ~ Unseen.seen /\ ~ Unseen.had /\ ~ Unseen.installed /\ ~ Unseen.recovery
      BY DEF Unseen
    <2>8. ASSUME NEW k \in Listing' PROVE (Sound(Listed(k)) /\ Untouched(Listed(k)))'
      BY <2>1, <2>3, <2>4, <2>5, <2>6, <2>7 DEF Sound, Untouched
    <2>9. ReachedInv' /\ OrderInv' /\ txn'.i \in Listing'
      <3>1. \A k \in Listing' : k \in Nat /\ ~ (k < 1) /\ ~ txn'.swap[Listed(k)'].seen /\ ~ txn'.swap[Listed(k)'].recovery
        BY <2>3, <2>5, <2>6, <2>7
      <3> QED
        BY <2>3, <2>5, <2>6, <2>8, <3>1 DEF ReachedInv, OrderInv
    <2>10. EvidenceInv'
      <3>1. Uiux' = Uiux /\ published' = Uiux
        BY <2>1, StagedIsAll DEF Uiux
      <3> QED
        BY <2>1, <3>1 DEF EvidenceInv, CollectEvidence
    <2>11. PublicationTypeOK'
      BY <1>t, <2>1, <2>3, <2>4 DEF PublicationTypeOK
    <2>12. \A t \in Target : fs'[t]["target"] = before'[t]
      BY <2>1, <2>4
    <2> QED
      BY <2>3, <2>8, <2>9, <2>10, <2>11, <2>12 DEF PublicationIInv, Rolling
  <1>3. CASE Refuse
    <2>1. UNCHANGED <<result, published, before, fs>> /\ txn' = [txn EXCEPT !.at = "raised", !.cause = "os"]
      BY <1>3 DEF Refuse
    <2>2. txn' \in Txn /\ txn'.at = "raised" /\ txn'.list = <<>> /\ txn'.cause = "os" /\ "target" \in Sibling /\ "metrics" \in Target
      BY <1>1, <1>t, <2>1 DEF Txn, Sibling, Target
    <2>3. \A t \in Target : Rolled(t)'
      BY <1>1, <1>t, <2>1, <2>2 DEF Rolled, Kept
    <2>4. NothingLost' /\ CompleteMeansPublished'
      BY <1>1, <1>t, <2>1, <2>2 DEF NothingLost, CompleteMeansPublished
    <2>5. PublicationTypeOK'
      BY <1>t, <2>1, <2>2 DEF PublicationTypeOK
    <2>6. \A t \in Target : fs'[t]["target"] = before'[t]
      BY <1>1, <2>1
    <2> QED
      BY <2>2, <2>3, <2>4, <2>5, <2>6 DEF PublicationIInv, Swapping, Rolling
  <1> QED
    BY <1>2, <1>3

\* A swap is given up: everything before the rollback is sound.
LEMMA RaiseStep ==
    ASSUME PublicationIInv, txn.at \in Swapping, NEW cause \in {"os", "interrupt"}, Raise(cause),
           UNCHANGED <<result, published, before>>, fs' \in [Target -> [Sibling -> Content]],
           \A t \in Target \ Range(txn.list) : fs'[t] = fs[t],
           \A k \in Listing : Sound(Listed(k))'
    PROVE  PublicationIInv'
  <1>t. /\ before \in [Target -> {"none", "old"}] /\ before["metrics"] = "none" /\ txn \in Txn
        /\ txn.list \in Lists /\ EvidenceInv /\ OrderInv
        /\ (txn.at # "over" => \A t \in Target \ Range(txn.list) : fs[t]["target"] = before[t])
    BY DEF PublicationIInv, PublicationTypeOK
  <1>1. Len(txn.list) \in Nat /\ Len(txn.list) >= 1 /\ txn.at # "over"
    BY <1>t, ListShapes DEF Swapping
  <1>2. /\ txn' \in Txn /\ txn'.at = "rollback" /\ txn'.cause = cause /\ txn'.i = Len(txn.list)
        /\ txn'.list = txn.list /\ txn'.swap = txn.swap
    BY <1>1, <1>t DEF Raise, Txn, Rolling
  <1>3. Listing' = Listing /\ Listing = 1 .. Len(txn.list) /\ \A k : Listed(k)' = Listed(k)
    BY <1>2 DEF Listing, Listed
  <1>4. PublicationTypeOK'
    BY <1>2, <1>t DEF PublicationTypeOK
  <1>5. EvidenceInv'
    BY <1>t, SameEvidence
  <1>6. OrderInv'
    BY <1>2, <1>3, <1>t DEF OrderInv
  <1>7. RollingInv'
    <2>1. PICK n : n = Len(txn.list)
      OBVIOUS
    <2>2. Sound(This)'
      <3>1. This' = Listed(n)' /\ n \in Listing
        BY <1>1, <1>2, <1>3, <2>1 DEF This, Listed
      <3>2. Sound(Listed(n))'
        BY <3>1
      <3> QED
        BY <3>1, <3>2 DEF Sound
    <2>3. \A k \in Listing : ~ (k > Len(txn.list))
      BY <1>1, <1>3
    <2> QED
      BY <1>1, <1>2, <1>3, <2>2, <2>3 DEF RollingInv
  <1>8. \A t \in Target \ Range(txn'.list) : fs'[t]["target"] = before'[t]
    BY <1>1, <1>2, <1>t
  <1> QED
    BY <1>2, <1>4, <1>5, <1>6, <1>7, <1>8, <1>t DEF PublicationIInv, Swapping, Rolling

\* _validate_prepared refuses: nothing was touched.
LEMMA InvalidStep ==
    ASSUME PublicationIInv, Invalid
    PROVE  PublicationIInv'
  <1>1. txn.at = "swap" /\ txn.i = 1 /\ txn' = [txn EXCEPT !.at = "rollback", !.cause = "os", !.i = 0] /\ UNCHANGED <<result, published, before, fs>>
    BY DEF Invalid
  <1>t. /\ PublicationTypeOK /\ before \in [Target -> {"none", "old"}] /\ txn \in Txn
        /\ txn.list \in Lists /\ EvidenceInv /\ OrderInv /\ ReachedInv
        /\ \A t \in Target \ Range(txn.list) : fs[t]["target"] = before[t]
    BY <1>1 DEF PublicationIInv, PublicationTypeOK, Swapping
  <1>2. /\ txn' \in Txn /\ txn'.at = "rollback" /\ txn'.cause = "os" /\ txn'.i = 0
        /\ txn'.list = txn.list /\ txn'.swap = txn.swap
    BY <1>1, <1>t DEF Txn, Rolling
  <1>3. /\ Listing' = Listing /\ Listing = 1 .. Len(txn.list) /\ (\A k : Listed(k)' = Listed(k)) /\ Len(txn.list) \in Nat
        /\ \A k \in Listing : Listed(k) \in Target
    BY <1>2, <1>t, ListShapes DEF Listing, Listed
  <1>4. \A k \in Listing : fs[Listed(k)]["target"] = before[Listed(k)]
    BY <1>1, <1>3, <1>t DEF ReachedInv, Untouched
  <1>5. \A k \in Listing : Rolled(Listed(k))'
    <2>1. "target" \in Sibling
      BY DEF Sibling
    <2> QED
      BY <1>1, <1>2, <1>3, <1>4, <1>t, <2>1 DEF Rolled, Kept
  <1>6. RollingInv' /\ OrderInv' /\ EvidenceInv' /\ PublicationTypeOK'
    <2>1. \A k \in Listing : ~ (k < 0)
      BY <1>3
    <2>2. RollingInv'
      BY <1>2, <1>3, <1>5, <2>1 DEF RollingInv
    <2>3. OrderInv'
      BY <1>2, <1>3, <1>t DEF OrderInv
    <2>4. EvidenceInv'
      BY <1>1, <1>t, SameEvidence
    <2> QED
      BY <1>1, <1>2, <1>t, <2>2, <2>3, <2>4 DEF PublicationTypeOK
  <1>7. \A t \in Target \ Range(txn'.list) : fs'[t]["target"] = before'[t]
    BY <1>1, <1>2, <1>t
  <1> QED
    BY <1>2, <1>6, <1>7, <1>t DEF PublicationIInv, Swapping, Rolling
---------------------------------------------------------------------------
(* commit_publications                                                     *)

\* Where a swap is.
LEMMA SwapContext ==
    ASSUME PublicationIInv, txn.at \in Swapping
    PROVE  /\ PublicationTypeOK /\ txn \in Txn /\ txn.list \in Lists /\ fs \in [Target -> [Sibling -> Content]]
           /\ before \in [Target -> {"none", "old"}] /\ txn.swap \in [Target -> Flags]
           /\ EvidenceInv /\ OrderInv /\ ReachedInv /\ txn.cause = "none" /\ ~ txn.failed
           /\ Len(txn.list) \in Nat /\ Listing = 1 .. Len(txn.list) /\ txn.i \in Listing
           /\ This \in Target /\ This = Listed(txn.i)
           /\ \A k \in Listing : Listed(k) \in Target /\ Sound(Listed(k)) /\ (k # txn.i => Listed(k) # This)
           /\ \A t \in Target \ Range(txn.list) : fs[t]["target"] = before[t] /\ t # This
           /\ Range(txn.list) = {Listed(k) : k \in Listing}
  <1>1. /\ PublicationTypeOK /\ txn \in Txn /\ txn.list \in Lists /\ fs \in [Target -> [Sibling -> Content]]
        /\ before \in [Target -> {"none", "old"}] /\ txn.at # "over"
        /\ EvidenceInv /\ OrderInv /\ ReachedInv /\ txn.cause = "none" /\ ~ txn.failed
        /\ txn.i \in Listing /\ \A k \in Listing : Sound(Listed(k))
    BY DEF PublicationIInv, PublicationTypeOK, Swapping
  <1>2. /\ Len(txn.list) \in Nat /\ Listing = 1 .. Len(txn.list) /\ (\A k \in Listing : Listed(k) \in Target)
        /\ (\A j, k \in Listing : Listed(j) = Listed(k) => j = k) /\ Range(txn.list) = {Listed(k) : k \in Listing}
    BY <1>1, ListShapes DEF Listing, Listed
  <1>3. This = Listed(txn.i)
    BY DEF This, Listed
  <1>4. txn.swap \in [Target -> Flags]
    BY <1>1 DEF Txn
  <1>5. \A t \in Target \ Range(txn.list) : fs[t]["target"] = before[t]
    BY <1>1 DEF PublicationIInv
  <1> QED
    BY <1>1, <1>2, <1>3, <1>4, <1>5

\* A swap is given up in the middle of target t.
LEMMA SwapRaises ==
    ASSUME PublicationIInv, txn.at \in Swapping, NEW cause \in {"os", "interrupt"}, Raise(cause),
           UNCHANGED <<result, published, before>>, fs' \in [Target -> [Sibling -> Content]],
           NEW t \in Target, t = This, \A u \in Target \ {t} : fs'[u] = fs[u],
           txn'.cause = cause /\ txn'.swap = txn.swap => Sound(t)'
    PROVE  PublicationIInv'
  <1>1. /\ txn \in Txn /\ txn.cause = "none" /\ This = Listed(txn.i)
        /\ \A k \in Listing : Listed(k) \in Target /\ Sound(Listed(k)) /\ (k # txn.i => Listed(k) # This)
        /\ \A u \in Target \ Range(txn.list) : u # This
    BY SwapContext
  <1>2. txn'.list = txn.list /\ txn'.cause = cause /\ txn'.swap = txn.swap
    BY <1>1 DEF Raise, Txn
  <1>3. ASSUME NEW k \in Listing PROVE Sound(Listed(k))'
    <2>1. PICK u \in Target : u = Listed(k)
      BY <1>1
    <2>2. Listed(k)' = u
      BY <1>2, <2>1 DEF Listed
    <2>3. Sound(u)'
      <3>1. CASE u = t
        BY <1>2, <3>1
      <3>2. CASE u # t
        <4>1. fs'[u] = fs[u] /\ before' = before /\ Sound(u)
          BY <1>1, <2>1, <3>2
        <4> QED
          BY <1>1, <1>2, <4>1 DEF Sound
      <3> QED
        BY <3>1, <3>2
    <2> QED
      BY <2>2, <2>3 DEF Sound
  <1>4. \A u \in Target \ Range(txn.list) : fs'[u] = fs[u]
    BY <1>1
  <1> QED
    BY <1>3, <1>4, RaiseStep

\* A swap goes on with target t changed.
LEMMA SwapForward ==
    ASSUME PublicationIInv, txn.at \in Swapping, UNCHANGED <<result, published, before>>,
           fs' \in [Target -> [Sibling -> Content]],
           NEW t \in Target, t = This, \A u \in Target \ {t} : fs'[u] = fs[u] /\ txn'.swap[u] = txn.swap[u],
           txn' \in Txn, txn'.at \in Swapping, txn'.list = txn.list, txn'.cause = "none", ~ txn'.failed, txn'.i \in Listing,
           Sound(t)', ReachedInv', OrderInv'
    PROVE  PublicationIInv'
  <1>1. /\ PublicationTypeOK /\ txn.cause = "none" /\ txn.list \in Lists /\ EvidenceInv
        /\ \A k \in Listing : Listed(k) \in Target /\ Sound(Listed(k))
        /\ \A u \in Target \ Range(txn.list) : fs[u]["target"] = before[u] /\ u # This
    BY SwapContext
  <1>2. Listing' = Listing /\ \A k : Listed(k)' = Listed(k)
    BY DEF Listing, Listed
  <1>3. ASSUME NEW k \in Listing PROVE Sound(Listed(k))'
    <2>1. PICK u \in Target : u = Listed(k)
      BY <1>1
    <2>2. Listed(k)' = u
      BY <1>2, <2>1
    <2>3. Sound(u)'
      <3>1. CASE u = t
        BY <3>1
      <3>2. CASE u # t
        <4>1. fs'[u] = fs[u] /\ before' = before /\ Sound(u) /\ txn'.swap[u] = txn.swap[u]
          BY <1>1, <2>1, <3>2
        <4> QED
          BY <1>1, <4>1 DEF Sound
      <3> QED
        BY <3>1, <3>2
    <2> QED
      BY <2>2, <2>3 DEF Sound
  <1>4. PublicationTypeOK'
    BY <1>1 DEF PublicationTypeOK
  <1>5. EvidenceInv'
    BY <1>1, SameEvidence
  <1>6. \A u \in Target \ Range(txn'.list) : fs'[u]["target"] = before'[u]
    BY <1>1
  <1> QED
    BY <1>1, <1>2, <1>3, <1>4, <1>5, <1>6 DEF PublicationIInv, Swapping, Rolling

\* The fields after the step to the next target or the next loop.
LEMMA OnwardFields ==
    ASSUME txn \in Txn, txn.list \in Lists, txn.i \in Listing, NEW swap \in [Target -> Flags],
           NEW here \in Swapping \cup {"committed"}, NEW next \in Swapping \cup {"committed", "done"}, Onward(swap, here, next)
    PROVE  /\ txn' \in Txn /\ txn'.list = txn.list /\ txn'.cause = txn.cause /\ txn'.failed = txn.failed /\ txn'.swap = swap
           /\ \/ txn.i < Len(txn.list) /\ txn'.at = here /\ txn'.i = txn.i + 1
              \/ txn.i = Len(txn.list) /\ txn'.at = next /\ txn'.i = 1
           /\ txn'.i \in Listing
  <1>1. Len(txn.list) \in Nat /\ Len(txn.list) >= 1 /\ txn.i \in 1 .. Len(txn.list) /\ Listing = 1 .. Len(txn.list)
    BY ListShapes DEF Listing
  <1>2. CASE txn.i < Len(txn.list)
    <2>1. PICK n \in Nat : n = txn.i + 1
      BY <1>1
    <2>2. txn' = [txn EXCEPT !.swap = swap, !.at = here, !.i = n]
      BY <1>2, <2>1 DEF Onward
    <2>3. /\ txn' \in Txn /\ txn'.list = txn.list /\ txn'.cause = txn.cause /\ txn'.failed = txn.failed /\ txn'.swap = swap
          /\ txn'.at = here /\ txn'.i = n
      BY <2>2 DEF Txn
    <2> QED
      BY <1>1, <1>2, <2>1, <2>3
  <1>3. CASE ~ (txn.i < Len(txn.list))
    <2>1. txn' = [txn EXCEPT !.swap = swap, !.at = next, !.i = 1] /\ txn.i = Len(txn.list)
      BY <1>1, <1>3 DEF Onward
    <2>2. /\ txn' \in Txn /\ txn'.list = txn.list /\ txn'.cause = txn.cause /\ txn'.failed = txn.failed /\ txn'.swap = swap
          /\ txn'.at = next /\ txn'.i = 1
      BY <2>1 DEF Txn
    <2> QED
      BY <1>1, <2>1, <2>2
  <1> QED
    BY <1>2, <1>3

\* target.replace(backup) and the entry of states.
LEMMA BackUpStep ==
    ASSUME PublicationIInv, BackUp
    PROVE  PublicationIInv'
  <1>1. txn.at = "swap" /\ txn.at \in Swapping /\ UNCHANGED <<result, published, before>>
    BY DEF BackUp, Swapping
  <1>c. /\ txn \in Txn /\ txn.list \in Lists /\ fs \in [Target -> [Sibling -> Content]]
        /\ before \in [Target -> {"none", "old"}] /\ txn.swap \in [Target -> Flags]
        /\ OrderInv /\ ReachedInv /\ txn.cause = "none" /\ ~ txn.failed
        /\ Len(txn.list) \in Nat /\ Listing = 1 .. Len(txn.list) /\ txn.i \in Listing
        /\ This \in Target /\ This = Listed(txn.i)
        /\ \A k \in Listing : Listed(k) \in Target /\ (k # txn.i => Listed(k) # This)
    BY <1>1, SwapContext
  <1>2. PICK t \in Target : t = This
    BY <1>c
  <1>s. /\ "target" \in Sibling /\ "backup" \in Sibling /\ "target" # "backup" /\ "stage" \in Sibling \ {"target", "backup"}
        /\ ~ Unseen.seen /\ ~ Unseen.had /\ ~ Unseen.installed /\ ~ Unseen.recovery
    BY DEF Sibling, Unseen
  <1>3. txn.swap[t] = Unseen /\ fs[t]["target"] = before[t] /\ fs[t]["stage"] = "new" /\ before[t] \in {"none", "old"}
    BY <1>1, <1>2, <1>c DEF ReachedInv, Untouched
  <1>r. \A k \in Listing : /\ k < txn.i => txn.swap[Listed(k)].installed
                           /\ k > txn.i => Untouched(Listed(k))
                           /\ ~ txn.swap[Listed(k)].recovery
    BY <1>1, <1>c DEF ReachedInv
  <1> DEFINE had == fs[t]["target"] # "none"
             noted == [txn EXCEPT !.at = "install", !.swap[t].seen = TRUE, !.swap[t].had = had]
  <1>h. had \in BOOLEAN /\ (had <=> before[t] = "old")
    BY <1>3
  <1>4. \/ had /\ fs' = Moved(t, "target", "backup") /\ txn' = noted
        \/ had /\ fs' = Moved(t, "target", "backup") /\ Raise("interrupt")
        \/ ~ had /\ fs' = fs /\ txn' = noted
        \/ fs' = fs /\ \E cause \in {"os", "interrupt"} : Raise(cause)
    BY <1>2 DEF BackUp
  <1>5. CASE had /\ fs' = Moved(t, "target", "backup") /\ Raise("interrupt")
    <2>1. /\ fs' \in [Target -> [Sibling -> Content]] /\ fs'[t]["backup"] = "old"
          /\ \A u \in Target \ {t} : fs'[u] = fs[u]
      BY <1>3, <1>5, <1>c, <1>h, <1>s, DiskShapes
    <2>2. txn'.cause = "interrupt" /\ txn'.swap = txn.swap => Sound(t)'
      BY <1>1, <1>3, <1>s, <2>1 DEF Sound
    <2> QED
      BY <1>1, <1>2, <1>5, <2>1, <2>2, SwapRaises
  <1>6. CASE fs' = fs /\ \E cause \in {"os", "interrupt"} : Raise(cause)
    <2>1. PICK cause \in {"os", "interrupt"} : Raise(cause)
      BY <1>6
    <2>2. txn'.cause = cause /\ txn'.swap = txn.swap => Sound(t)'
      BY <1>1, <1>3, <1>6, <1>s DEF Sound
    <2>3. fs' \in [Target -> [Sibling -> Content]] /\ \A u \in Target \ {t} : fs'[u] = fs[u]
      BY <1>6, <1>c
    <2> QED
      BY <1>1, <1>2, <2>1, <2>2, <2>3, SwapRaises
  <1>7. ASSUME txn' = noted, fs' = IF had THEN Moved(t, "target", "backup") ELSE fs
        PROVE  PublicationIInv'
    <2>1. /\ fs' \in [Target -> [Sibling -> Content]] /\ (\A u \in Target \ {t} : fs'[u] = fs[u])
          /\ fs'[t]["target"] = "none" /\ fs'[t]["stage"] = "new" /\ (had => fs'[t]["backup"] = "old")
      <3>1. CASE had
        <4>1. fs' = Moved(t, "target", "backup")
          BY <1>7, <3>1
        <4>2. /\ fs' \in [Target -> [Sibling -> Content]] /\ fs'[t]["backup"] = fs[t]["target"] /\ fs'[t]["target"] = "none"
              /\ (\A q \in Sibling \ {"target", "backup"} : fs'[t][q] = fs[t][q])
              /\ \A u \in Target \ {t} : fs'[u] = fs[u]
          BY <1>c, <1>s, <4>1, DiskShapes
        <4> QED
          BY <1>3, <1>h, <1>s, <4>2
      <3>2. CASE ~ had
        BY <1>3, <1>7, <1>c, <3>2
      <3> QED
        BY <3>1, <3>2
    <2> DEFINE flags == [txn.swap[t] EXCEPT !.seen = TRUE, !.had = had]
               swap == [txn.swap EXCEPT ![t] = flags]
    <2>2. txn' = [txn EXCEPT !.at = "install", !.swap = swap]
      BY <1>7
    <2>3. flags \in Flags /\ flags.seen /\ flags.had = had /\ ~ flags.installed /\ ~ flags.recovery
      BY <1>3, <1>c, <1>h, <1>s DEF Flags
    <2> HIDE DEF flags
    <2>4. swap \in [Target -> Flags] /\ swap[t] = flags /\ \A u \in Target \ {t} : swap[u] = txn.swap[u]
      BY <1>c, <2>3
    <2> HIDE DEF swap
    <2>5. /\ txn' \in Txn /\ txn'.at = "install" /\ txn'.list = txn.list /\ txn'.cause = "none" /\ ~ txn'.failed /\ txn'.i = txn.i
          /\ txn'.swap = swap
      BY <1>c, <2>2, <2>4 DEF Txn, Swapping
    <2>6. Sound(t)'
      BY <1>1, <1>3, <1>h, <2>1, <2>3, <2>4, <2>5 DEF Sound
    <2>7. Listing' = Listing /\ (\A k : Listed(k)' = Listed(k)) /\ This' = t /\ Listed(txn.i) = t
      BY <1>2, <1>c, <2>5 DEF Listing, Listed, This
    <2>8. \A k \in Listing : k # txn.i => Listed(k) \in Target \ {t} /\ txn'.swap[Listed(k)] = txn.swap[Listed(k)] /\ fs'[Listed(k)] = fs[Listed(k)]
      BY <1>2, <1>c, <2>1, <2>4, <2>5
    <2>9. ASSUME NEW k \in Listing
          PROVE  /\ ~ txn'.swap[Listed(k)].recovery
                 /\ k < txn.i => txn'.swap[Listed(k)].installed
                 /\ k > txn.i => txn'.swap[Listed(k)] = Unseen /\ fs'[Listed(k)]["target"] = before'[Listed(k)] /\ fs'[Listed(k)]["stage"] = "new"
      BY <1>1, <1>c, <1>r, <2>3, <2>4, <2>5, <2>7, <2>8 DEF Untouched
    <2>10. ReachedInv'
      <3>1. State' = swap[t] /\ This' = t
        BY <2>5, <2>7 DEF State
      <3> QED
        BY <2>1, <2>3, <2>4, <2>5, <2>7, <2>9, <3>1 DEF ReachedInv, Untouched
    <2>11. OrderInv'
      <3>1. ASSUME NEW k \in Listing, NEW l \in Listing, k < l, txn'.swap[Listed(l)].seen
            PROVE  txn'.swap[Listed(k)].installed
        <4>1. ~ (l > txn.i)
          BY <1>s, <2>9, <3>1
        <4>2. k < txn.i
          BY <1>c, <3>1, <4>1
        <4> QED
          BY <2>9, <4>2
      <3> QED
        BY <2>7, <3>1 DEF OrderInv
    <2>12. txn'.at \in Swapping /\ txn'.i \in Listing /\ \A u \in Target \ {t} : fs'[u] = fs[u] /\ txn'.swap[u] = txn.swap[u]
      BY <1>c, <2>1, <2>4, <2>5 DEF Swapping
    <2> QED
      BY <1>1, <1>2, <2>1, <2>5, <2>6, <2>10, <2>11, <2>12, SwapForward
  <1> QED
    BY <1>4, <1>5, <1>6, <1>7

\* A flag of one target is set.
LEMMA NoteFlag ==
    ASSUME txn.swap \in [Target -> Flags], NEW t \in Target, NEW field \in {"installed", "recovery"}
    PROVE  /\ Note(t, field) \in [Target -> Flags]
           /\ Note(t, field)[t].seen = txn.swap[t].seen /\ Note(t, field)[t].had = txn.swap[t].had
           /\ Note(t, field)[t].installed = (field = "installed" \/ txn.swap[t].installed)
           /\ Note(t, field)[t].recovery = (field = "recovery" \/ txn.swap[t].recovery)
           /\ \A u \in Target \ {t} : Note(t, field)[u] = txn.swap[u]
  <1> DEFINE flags == [txn.swap[t] EXCEPT ![field] = TRUE]
  <1>1. /\ flags \in Flags /\ flags.seen = txn.swap[t].seen /\ flags.had = txn.swap[t].had
        /\ flags.installed = (field = "installed" \/ txn.swap[t].installed)
        /\ flags.recovery = (field = "recovery" \/ txn.swap[t].recovery)
    BY DEF Flags
  <1>2. Note(t, field) = [txn.swap EXCEPT ![t] = flags]
    BY DEF Note
  <1> HIDE DEF flags
  <1> QED
    BY <1>1, <1>2

\* stage.replace(target) and installed.
LEMMA InstallStep ==
    ASSUME PublicationIInv, Install
    PROVE  PublicationIInv'
  <1>1. txn.at = "install" /\ txn.at \in Swapping /\ UNCHANGED <<result, published, before>>
    BY DEF Install, Swapping
  <1>c. /\ txn \in Txn /\ txn.list \in Lists /\ fs \in [Target -> [Sibling -> Content]]
        /\ before \in [Target -> {"none", "old"}] /\ txn.swap \in [Target -> Flags]
        /\ OrderInv /\ ReachedInv /\ txn.cause = "none" /\ ~ txn.failed
        /\ Len(txn.list) \in Nat /\ Listing = 1 .. Len(txn.list) /\ txn.i \in Listing
        /\ This \in Target /\ This = Listed(txn.i)
        /\ \A k \in Listing : Listed(k) \in Target /\ Sound(Listed(k)) /\ (k # txn.i => Listed(k) # This)
    BY <1>1, SwapContext
  <1>2. PICK t \in Target : t = This
    BY <1>c
  <1>s. /\ {"target", "stage", "backup", "recovery"} \subseteq Sibling /\ "stage" # "target"
        /\ {"backup", "recovery"} \subseteq Sibling \ {"target", "stage"}
        /\ ~ Unseen.seen
    BY DEF Sibling, Unseen
  <1>3. /\ txn.swap[t].seen /\ ~ txn.swap[t].installed /\ ~ txn.swap[t].recovery /\ fs[t]["stage"] = "new" /\ Sound(t)
        /\ txn.swap[t] \in Flags
    BY <1>1, <1>2, <1>c DEF ReachedInv, State
  <1>r. \A k \in Listing : /\ k < txn.i => txn.swap[Listed(k)].installed
                           /\ k > txn.i => Untouched(Listed(k))
                           /\ ~ txn.swap[Listed(k)].recovery
    BY <1>1, <1>c DEF ReachedInv
  <1>4. \/ fs' = Moved(t, "stage", "target") /\ Onward(Note(t, "installed"), "swap", "recover")
        \/ fs' = Moved(t, "stage", "target") /\ Raise("interrupt")
        \/ fs' = fs /\ \E cause \in {"os", "interrupt"} : Raise(cause)
    BY <1>2 DEF Install
  <1>m. ASSUME fs' = Moved(t, "stage", "target")
        PROVE  /\ fs' \in [Target -> [Sibling -> Content]] /\ fs'[t]["target"] = "new"
               /\ fs'[t]["backup"] = fs[t]["backup"] /\ fs'[t]["recovery"] = fs[t]["recovery"]
               /\ \A u \in Target \ {t} : fs'[u] = fs[u]
    <2>1. /\ fs' \in [Target -> [Sibling -> Content]] /\ fs'[t]["target"] = fs[t]["stage"]
          /\ (\A q \in Sibling \ {"stage", "target"} : fs'[t][q] = fs[t][q])
          /\ \A u \in Target \ {t} : fs'[u] = fs[u]
      BY <1>c, <1>m, <1>s, DiskShapes
    <2> QED
      BY <1>3, <1>s, <2>1
  <1>5. CASE fs' = Moved(t, "stage", "target") /\ Raise("interrupt")
    <2>1. txn'.cause = "interrupt" /\ txn'.swap = txn.swap => Sound(t)'
      BY <1>1, <1>3, <1>5, <1>m DEF Sound
    <2> QED
      BY <1>1, <1>2, <1>5, <1>m, <2>1, SwapRaises
  <1>6. CASE fs' = fs /\ \E cause \in {"os", "interrupt"} : Raise(cause)
    <2>1. PICK cause \in {"os", "interrupt"} : Raise(cause)
      BY <1>6
    <2>2. txn'.cause = cause /\ txn'.swap = txn.swap => Sound(t)'
      BY <1>1, <1>3, <1>6, <1>c DEF Sound
    <2>3. fs' \in [Target -> [Sibling -> Content]] /\ \A u \in Target \ {t} : fs'[u] = fs[u]
      BY <1>6, <1>c
    <2> QED
      BY <1>1, <1>2, <2>1, <2>2, <2>3, SwapRaises
  <1>7. CASE fs' = Moved(t, "stage", "target") /\ Onward(Note(t, "installed"), "swap", "recover")
    <2>1. PICK swap \in [Target -> Flags] :
             /\ swap = Note(t, "installed")
             /\ swap[t].seen /\ swap[t].had = txn.swap[t].had /\ swap[t].installed /\ ~ swap[t].recovery
             /\ \A u \in Target \ {t} : swap[u] = txn.swap[u]
      BY <1>3, <1>c, NoteFlag
    <2>2. /\ txn' \in Txn /\ txn'.list = txn.list /\ txn'.cause = "none" /\ ~ txn'.failed /\ txn'.swap = swap /\ txn'.i \in Listing
          /\ \/ txn.i < Len(txn.list) /\ txn'.at = "swap" /\ txn'.i = txn.i + 1
             \/ txn.i = Len(txn.list) /\ txn'.at = "recover" /\ txn'.i = 1
      <3>1. Onward(swap, "swap", "recover") /\ "swap" \in Swapping \cup {"committed"} /\ "recover" \in Swapping \cup {"committed", "done"}
        BY <1>7, <2>1 DEF Swapping
      <3> QED
        BY <1>c, <3>1, OnwardFields
    <2>3. Sound(t)'
      BY <1>1, <1>3, <1>7, <1>m, <1>c, <2>1, <2>2 DEF Sound
    <2>4. Listing' = Listing /\ (\A k : Listed(k)' = Listed(k)) /\ Listed(txn.i) = t
      BY <1>2, <1>c, <2>2 DEF Listing, Listed
    <2>5. \A k \in Listing : k # txn.i => Listed(k) \in Target \ {t} /\ txn'.swap[Listed(k)] = txn.swap[Listed(k)] /\ fs'[Listed(k)] = fs[Listed(k)]
      BY <1>2, <1>7, <1>m, <1>c, <2>1, <2>2
    <2>6. ASSUME NEW k \in Listing
          PROVE  /\ ~ txn'.swap[Listed(k)].recovery
                 /\ k <= txn.i => txn'.swap[Listed(k)].installed
                 /\ k > txn.i => txn'.swap[Listed(k)] = Unseen /\ fs'[Listed(k)]["target"] = before'[Listed(k)] /\ fs'[Listed(k)]["stage"] = "new"
      <3>1. CASE k < txn.i
        BY <1>c, <1>r, <2>5, <3>1
      <3>2. CASE k = txn.i
        BY <1>c, <2>1, <2>2, <2>4, <3>2
      <3>3. CASE k > txn.i
        BY <1>1, <1>c, <1>r, <2>5, <3>3 DEF Untouched
      <3> QED
        BY <1>c, <3>1, <3>2, <3>3
    <2>7. ReachedInv'
      <3>1. CASE txn'.at = "swap" /\ txn'.i = txn.i + 1
        <4>1. ASSUME NEW k \in Listing PROVE IF k < txn'.i THEN txn'.swap[Listed(k)].installed ELSE Untouched(Listed(k))'
          <5>1. CASE k < txn'.i
            BY <1>c, <2>6, <3>1, <5>1
          <5>2. CASE ~ (k < txn'.i)
            <6>1. k > txn.i
              BY <1>c, <3>1, <5>2
            <6> QED
              BY <2>4, <2>6, <5>2, <6>1 DEF Untouched
          <5> QED
            BY <5>1, <5>2
        <4> QED
          BY <2>4, <2>6, <3>1, <4>1 DEF ReachedInv
      <3>2. CASE txn.i = Len(txn.list) /\ txn'.at = "recover" /\ txn'.i = 1
        <4>1. \A k \in Listing : ~ (k < 1) /\ txn'.swap[Listed(k)].installed /\ ~ txn'.swap[Listed(k)].recovery
          BY <1>c, <2>6, <3>2
        <4> QED
          BY <2>4, <3>2, <4>1 DEF ReachedInv
      <3> QED
        BY <2>2, <3>1, <3>2
    <2>8. OrderInv'
      <3>1. ASSUME NEW k \in Listing, NEW l \in Listing, k < l, txn'.swap[Listed(l)].seen
            PROVE  txn'.swap[Listed(k)].installed
        <4>1. ~ (l > txn.i)
          BY <1>s, <2>6, <3>1
        <4>2. k <= txn.i
          BY <1>c, <3>1, <4>1
        <4> QED
          BY <2>6, <4>2
      <3> QED
        BY <2>4, <3>1 DEF OrderInv
    <2>9. txn'.at \in Swapping /\ \A u \in Target \ {t} : fs'[u] = fs[u] /\ txn'.swap[u] = txn.swap[u]
      BY <1>7, <1>m, <2>1, <2>2 DEF Swapping
    <2> QED
      BY <1>1, <1>2, <1>7, <1>m, <2>2, <2>3, <2>7, <2>8, <2>9, SwapForward
  <1> QED
    BY <1>4, <1>5, <1>6, <1>7

\* _create_recoveries: one copy more.
LEMMA CreateRecoveryStep ==
    ASSUME PublicationIInv, CreateRecovery
    PROVE  PublicationIInv'
  <1>1. txn.at = "recover" /\ txn.at \in Swapping /\ UNCHANGED <<result, published, before>>
    BY DEF CreateRecovery, Swapping
  <1>c. /\ txn \in Txn /\ txn.list \in Lists /\ fs \in [Target -> [Sibling -> Content]]
        /\ before \in [Target -> {"none", "old"}] /\ txn.swap \in [Target -> Flags]
        /\ OrderInv /\ ReachedInv /\ txn.cause = "none" /\ ~ txn.failed
        /\ Len(txn.list) \in Nat /\ Listing = 1 .. Len(txn.list) /\ txn.i \in Listing
        /\ This \in Target /\ This = Listed(txn.i)
        /\ \A k \in Listing : Listed(k) \in Target /\ Sound(Listed(k)) /\ (k # txn.i => Listed(k) # This)
    BY <1>1, SwapContext
  <1>2. PICK t \in Target : t = This
    BY <1>c
  <1>s. /\ {"target", "backup", "recovery"} \subseteq Sibling /\ {"target", "backup"} \subseteq Sibling \ {"recovery"}
        /\ "old" \in Content /\ "part" \in Content
    BY DEF Sibling, Content
  <1>3. txn.swap[t].seen /\ txn.swap[t].installed /\ ~ txn.swap[t].recovery /\ Sound(t) /\ txn.swap[t] \in Flags
    BY <1>1, <1>2, <1>c DEF ReachedInv, Sound
  <1>r. \A k \in Listing : /\ txn.swap[Listed(k)].installed
                           /\ k < txn.i /\ txn.swap[Listed(k)].had => txn.swap[Listed(k)].recovery
                           /\ k > txn.i => ~ txn.swap[Listed(k)].recovery
    BY <1>1, <1>c DEF ReachedInv
  <1>4. \/ ~ txn.swap[t].had /\ fs' = fs /\ Onward(txn.swap, "recover", "drop")
        \/ Has(t, "recovery", "old") /\ txn.swap[t].had /\ Onward(Note(t, "recovery"), "recover", "drop")
        \/ \E c \in {"old", "part"}, cause \in {"os", "interrupt"} : Has(t, "recovery", c) /\ Raise(cause)
        \/ fs' = fs /\ \E cause \in {"os", "interrupt"} : Raise(cause)
    BY <1>2 DEF CreateRecovery, State
  <1>m. ASSUME NEW c \in {"old", "part"}, Has(t, "recovery", c)
        PROVE  /\ fs' \in [Target -> [Sibling -> Content]] /\ fs'[t]["recovery"] = c
               /\ fs'[t]["backup"] = fs[t]["backup"] /\ fs'[t]["target"] = fs[t]["target"]
               /\ \A u \in Target \ {t} : fs'[u] = fs[u]
    <2>1. /\ fs' \in [Target -> [Sibling -> Content]] /\ fs'[t]["recovery"] = c
          /\ (\A q \in Sibling \ {"recovery"} : fs'[t][q] = fs[t][q])
          /\ \A u \in Target \ {t} : fs'[u] = fs[u]
      BY <1>c, <1>m, <1>s, DiskShapes
    <2> QED
      BY <1>s, <2>1
  <1>5. CASE \E c \in {"old", "part"}, cause \in {"os", "interrupt"} : Has(t, "recovery", c) /\ Raise(cause)
    <2>1. PICK c \in {"old", "part"}, cause \in {"os", "interrupt"} : Has(t, "recovery", c) /\ Raise(cause)
      BY <1>5
    <2>2. txn'.cause = cause /\ txn'.swap = txn.swap => Sound(t)'
      BY <1>1, <1>3, <1>m, <1>c, <2>1 DEF Sound
    <2> QED
      BY <1>1, <1>2, <1>m, <2>1, <2>2, SwapRaises
  <1>6. CASE fs' = fs /\ \E cause \in {"os", "interrupt"} : Raise(cause)
    <2>1. PICK cause \in {"os", "interrupt"} : Raise(cause)
      BY <1>6
    <2>2. txn'.cause = cause /\ txn'.swap = txn.swap => Sound(t)'
      BY <1>1, <1>3, <1>6, <1>c DEF Sound
    <2>3. fs' \in [Target -> [Sibling -> Content]] /\ \A u \in Target \ {t} : fs'[u] = fs[u]
      BY <1>6, <1>c
    <2> QED
      BY <1>1, <1>2, <2>1, <2>2, <2>3, SwapRaises
  <1>7. ASSUME NEW swap \in [Target -> Flags], Onward(swap, "recover", "drop"),
               swap[t].seen, swap[t].installed, swap[t].had = txn.swap[t].had, swap[t].recovery = swap[t].had,
               swap[t].had => fs'[t]["recovery"] = "old",
               \A u \in Target \ {t} : fs'[u] = fs[u] /\ swap[u] = txn.swap[u],
               fs'[t]["target"] = fs[t]["target"], fs' \in [Target -> [Sibling -> Content]]
        PROVE  PublicationIInv'
    <2>1. /\ txn' \in Txn /\ txn'.list = txn.list /\ txn'.cause = "none" /\ ~ txn'.failed /\ txn'.swap = swap /\ txn'.i \in Listing
          /\ \/ txn.i < Len(txn.list) /\ txn'.at = "recover" /\ txn'.i = txn.i + 1
             \/ txn.i = Len(txn.list) /\ txn'.at = "drop" /\ txn'.i = 1
      <3>1. "recover" \in Swapping \cup {"committed"} /\ "drop" \in Swapping \cup {"committed", "done"}
        BY DEF Swapping
      <3> QED
        BY <1>7, <1>c, <3>1, OnwardFields
    <2>2. Sound(t)'
      BY <1>1, <1>3, <1>7, <1>c, <2>1 DEF Sound
    <2>3. Listing' = Listing /\ (\A k : Listed(k)' = Listed(k)) /\ Listed(txn.i) = t
      BY <1>2, <1>c, <2>1 DEF Listing, Listed
    <2>4. ASSUME NEW k \in Listing
          PROVE  /\ txn'.swap[Listed(k)].installed
                 /\ k <= txn.i /\ txn'.swap[Listed(k)].had => txn'.swap[Listed(k)].recovery
                 /\ k > txn.i => ~ txn'.swap[Listed(k)].recovery
      <3>1. CASE k = txn.i
        BY <1>7, <1>c, <2>1, <2>3, <3>1
      <3>2. CASE k # txn.i
        <4>1. txn'.swap[Listed(k)] = txn.swap[Listed(k)]
          BY <1>2, <1>7, <1>c, <2>1, <3>2
        <4> QED
          BY <1>c, <1>r, <3>2, <4>1
      <3> QED
        BY <3>1, <3>2
    <2>5. ReachedInv'
      <3>1. CASE txn'.at = "recover" /\ txn'.i = txn.i + 1
        <4>1. \A k \in Listing : IF k < txn'.i THEN txn'.swap[Listed(k)].had => txn'.swap[Listed(k)].recovery
                                 ELSE ~ txn'.swap[Listed(k)].recovery
          <5>1. \A k \in Listing : IF k < txn'.i THEN k <= txn.i ELSE k > txn.i
            BY <1>c, <3>1
          <5> QED
            BY <2>4, <5>1
        <4> QED
          BY <2>3, <2>4, <3>1, <4>1 DEF ReachedInv
      <3>2. CASE txn.i = Len(txn.list) /\ txn'.at = "drop" /\ txn'.i = 1
        <4>1. \A k \in Listing : k <= txn.i
          BY <1>c, <3>2
        <4> QED
          BY <2>3, <2>4, <3>2, <4>1 DEF ReachedInv
      <3> QED
        BY <2>1, <3>1, <3>2
    <2>6. OrderInv'
      BY <2>3, <2>4 DEF OrderInv
    <2>7. txn'.at \in Swapping
      BY <2>1 DEF Swapping
    <2> QED
      BY <1>1, <1>2, <1>7, <2>1, <2>2, <2>5, <2>6, <2>7, SwapForward
  <1>8. CASE ~ txn.swap[t].had /\ fs' = fs /\ Onward(txn.swap, "recover", "drop")
    <2>1. txn.swap[t].recovery = FALSE /\ txn.swap[t].had = FALSE
      BY <1>3, <1>8 DEF Flags
    <2> QED
      BY <1>3, <1>7, <1>8, <1>c, <2>1
  <1>9. CASE Has(t, "recovery", "old") /\ txn.swap[t].had /\ Onward(Note(t, "recovery"), "recover", "drop")
    <2>1. PICK swap \in [Target -> Flags] :
             /\ swap = Note(t, "recovery") /\ swap[t].seen /\ swap[t].had = txn.swap[t].had /\ swap[t].installed /\ swap[t].recovery = TRUE
             /\ \A u \in Target \ {t} : swap[u] = txn.swap[u]
      BY <1>3, <1>c, NoteFlag
    <2>2. Onward(swap, "recover", "drop")
      BY <1>9, <2>1
    <2>3. swap[t].recovery = swap[t].had
      BY <1>9, <1>3, <2>1 DEF Flags
    <2> QED
      BY <1>7, <1>9, <1>m, <2>1, <2>2, <2>3
  <1> QED
    BY <1>4, <1>5, <1>6, <1>8, <1>9

\* After the commit every target is new, whatever becomes of the copies.
LEMMA CommittedStep ==
    ASSUME PublicationTypeOK, txn.list \in Lists, EvidenceInv, AllNew,
           \A t \in Target \ Range(txn.list) : fs[t]["target"] = before[t],
           UNCHANGED <<result, published, before>>, fs' \in [Target -> [Sibling -> Content]],
           \A t \in Target : fs'[t]["target"] = fs[t]["target"],
           txn' \in Txn, txn'.list = txn.list,
           \/ txn'.at \in {"committed", "done"} /\ txn'.i \in Listing
           \/ txn'.at = "raised" /\ txn'.cause = "late"
    PROVE  PublicationIInv'
  <1>1. /\ Listing' = Listing /\ (\A k : Listed(k)' = Listed(k)) /\ Range(txn'.list) = {Listed(k) : k \in Listing}
        /\ \A k \in Listing : Listed(k) \in Target
    BY ListShapes DEF Listing, Listed
  <1>2. PublicationTypeOK'
    BY DEF PublicationTypeOK
  <1>3. EvidenceInv'
    BY SameEvidence
  <1>4. AllNew'
    BY <1>1 DEF AllNew
  <1>5. \A t \in Range(txn'.list) : fs'[t]["target"] = "new"
    BY <1>1 DEF AllNew
  <1>6. NothingLost' /\ CompleteMeansPublished'
    BY <1>5 DEF NothingLost, CompleteMeansPublished
  <1>7. \A t \in Target \ Range(txn'.list) : fs'[t]["target"] = before'[t]
    OBVIOUS
  <1> QED
    BY <1>1, <1>2, <1>3, <1>4, <1>6, <1>7 DEF PublicationIInv, Swapping, Rolling

\* The backups are removed; with the last one the swap is committed.
LEMMA DropBackupStep ==
    ASSUME PublicationIInv, DropBackup
    PROVE  PublicationIInv'
  <1>1. txn.at = "drop" /\ txn.at \in Swapping /\ UNCHANGED <<result, published, before>>
    BY DEF DropBackup, Swapping
  <1>c. /\ PublicationTypeOK /\ txn \in Txn /\ txn.list \in Lists /\ fs \in [Target -> [Sibling -> Content]]
        /\ before \in [Target -> {"none", "old"}] /\ txn.swap \in [Target -> Flags]
        /\ EvidenceInv /\ OrderInv /\ ReachedInv /\ txn.cause = "none" /\ ~ txn.failed
        /\ txn.i \in Listing /\ This \in Target /\ This = Listed(txn.i)
        /\ (\A k \in Listing : Listed(k) \in Target /\ Sound(Listed(k)))
        /\ \A u \in Target \ Range(txn.list) : fs[u]["target"] = before[u]
    BY <1>1, SwapContext
  <1>2. PICK t \in Target : t = This
    BY <1>c
  <1>s. /\ {"target", "backup", "recovery"} \subseteq Sibling /\ {"target", "recovery"} \subseteq Sibling \ {"backup"}
        /\ {"none", "old", "part"} \subseteq Content
    BY DEF Sibling, Content
  <1>r. \A k \in Listing : txn.swap[Listed(k)].installed /\ (txn.swap[Listed(k)].had => txn.swap[Listed(k)].recovery)
    BY <1>1, <1>c DEF ReachedInv
  <1>3. Sound(t) /\ txn.swap[t].seen /\ txn.swap[t].installed /\ (txn.swap[t].had => txn.swap[t].recovery)
    BY <1>2, <1>c, <1>r DEF Sound
  <1>4. \/ ~ txn.swap[t].had /\ fs' = fs /\ Onward(txn.swap, "drop", "committed")
        \/ Has(t, "backup", "none") /\ Onward(txn.swap, "drop", "committed")
        \/ \E c \in {"none", "old", "part"}, cause \in {"os", "interrupt"} : Has(t, "backup", c) /\ Raise(cause)
    BY <1>2 DEF DropBackup, State
  <1>m. ASSUME NEW c \in {"none", "old", "part"}, Has(t, "backup", c)
        PROVE  /\ fs' \in [Target -> [Sibling -> Content]]
               /\ fs'[t]["recovery"] = fs[t]["recovery"] /\ fs'[t]["target"] = fs[t]["target"]
               /\ \A u \in Target \ {t} : fs'[u] = fs[u]
    <2>1. /\ fs' \in [Target -> [Sibling -> Content]]
          /\ (\A q \in Sibling \ {"backup"} : fs'[t][q] = fs[t][q])
          /\ \A u \in Target \ {t} : fs'[u] = fs[u]
      BY <1>c, <1>m, <1>s, DiskShapes
    <2> QED
      BY <1>s, <2>1
  <1>5. CASE \E c \in {"none", "old", "part"}, cause \in {"os", "interrupt"} : Has(t, "backup", c) /\ Raise(cause)
    <2>1. PICK c \in {"none", "old", "part"}, cause \in {"os", "interrupt"} : Has(t, "backup", c) /\ Raise(cause)
      BY <1>5
    <2>2. txn'.cause = cause /\ txn'.swap = txn.swap => Sound(t)'
      BY <1>1, <1>3, <1>m, <1>c, <2>1 DEF Sound
    <2> QED
      BY <1>1, <1>2, <1>m, <2>1, <2>2, SwapRaises
  <1>6. ASSUME Onward(txn.swap, "drop", "committed"), fs' \in [Target -> [Sibling -> Content]],
               fs'[t]["recovery"] = fs[t]["recovery"], fs'[t]["target"] = fs[t]["target"],
               \A u \in Target \ {t} : fs'[u] = fs[u]
        PROVE  PublicationIInv'
    <2>1. /\ txn' \in Txn /\ txn'.list = txn.list /\ txn'.cause = "none" /\ ~ txn'.failed /\ txn'.swap = txn.swap /\ txn'.i \in Listing
          /\ txn'.at = "drop" \/ txn'.at = "committed"
      <3>1. "drop" \in Swapping \cup {"committed"} /\ "committed" \in Swapping \cup {"committed", "done"}
        BY DEF Swapping
      <3> QED
        BY <1>6, <1>c, <3>1, OnwardFields
    <2>2. CASE txn'.at = "drop"
      <3>1. Sound(t)'
        BY <1>1, <1>3, <1>6, <1>c, <2>1 DEF Sound
      <3>2. Listing' = Listing /\ \A k : Listed(k)' = Listed(k)
        BY <2>1 DEF Listing, Listed
      <3>3. ReachedInv' /\ OrderInv'
        BY <1>r, <2>1, <2>2, <3>2 DEF ReachedInv, OrderInv
      <3>4. txn'.at \in Swapping /\ \A u \in Target \ {t} : fs'[u] = fs[u] /\ txn'.swap[u] = txn.swap[u]
        BY <1>6, <2>1, <2>2 DEF Swapping
      <3> QED
        BY <1>1, <1>2, <1>6, <2>1, <3>1, <3>3, <3>4, SwapForward
    <2>3. CASE txn'.at = "committed"
      <3>1. AllNew
        BY <1>c, <1>r DEF AllNew, Sound
      <3>2. \A u \in Target : fs'[u]["target"] = fs[u]["target"]
        BY <1>6
      <3> QED
        BY <1>1, <1>6, <1>c, <2>1, <2>3, <3>1, <3>2, CommittedStep
    <2> QED
      BY <2>1, <2>2, <2>3
  <1> QED
    BY <1>4, <1>5, <1>6, <1>c, <1>m

\* The recoveries are removed after the commit; an interrupt still raises.
LEMMA DropRecoveryStep ==
    ASSUME PublicationIInv, DropRecovery
    PROVE  PublicationIInv'
  <1>1. /\ txn.at = "committed" /\ UNCHANGED <<result, published, before>>
        /\ \E c \in {"none", "part", "old", fs[This]["recovery"]} : Has(This, "recovery", c)
        /\ Onward(txn.swap, "committed", "done") \/ txn' = [txn EXCEPT !.at = "raised", !.cause = "late"]
    BY DEF DropRecovery
  <1>2. /\ PublicationTypeOK /\ txn \in Txn /\ fs \in [Target -> [Sibling -> Content]] /\ txn.list \in Lists
        /\ EvidenceInv /\ AllNew /\ txn.i \in Listing
        /\ \A t \in Target \ Range(txn.list) : fs[t]["target"] = before[t]
    BY <1>1 DEF PublicationIInv, PublicationTypeOK
  <1>3. txn.swap \in [Target -> Flags]
    BY <1>2 DEF Txn
  <1>4. PICK t \in Target : t = This
    BY <1>2, ListShapes DEF This, Listing
  <1>5. /\ fs' \in [Target -> [Sibling -> Content]] /\ \A u \in Target : fs'[u]["target"] = fs[u]["target"]
    <2>s. "recovery" \in Sibling /\ "target" \in Sibling \ {"recovery"} /\ {"none", "part", "old"} \subseteq Content
      BY DEF Sibling, Content
    <2>1. PICK c \in Content : Has(t, "recovery", c)
      BY <1>1, <1>2, <1>4, <2>s
    <2>2. /\ fs' \in [Target -> [Sibling -> Content]]
          /\ (\A q \in Sibling \ {"recovery"} : fs'[t][q] = fs[t][q])
          /\ \A u \in Target \ {t} : fs'[u] = fs[u]
      BY <1>2, <2>1, <2>s, DiskShapes
    <2> QED
      BY <2>2, <2>s
  <1>6. /\ txn' \in Txn /\ txn'.list = txn.list
        /\ \/ txn'.at \in {"committed", "done"} /\ txn'.i \in Listing
           \/ txn'.at = "raised" /\ txn'.cause = "late"
    <2>1. CASE Onward(txn.swap, "committed", "done")
      <3>1. "committed" \in Swapping \cup {"committed"} /\ "done" \in Swapping \cup {"committed", "done"}
        OBVIOUS
      <3> QED
        BY <1>2, <1>3, <2>1, <3>1, OnwardFields
    <2>2. CASE txn' = [txn EXCEPT !.at = "raised", !.cause = "late"]
      BY <1>2, <2>2 DEF Txn
    <2> QED
      BY <1>1, <2>1, <2>2
  <1> QED
    BY <1>1, <1>2, <1>5, <1>6, CommittedStep
---------------------------------------------------------------------------
(* _rollback                                                               *)

\* Where a rollback is.
LEMMA RollContext ==
    ASSUME PublicationIInv, txn.at \in Rolling
    PROVE  /\ PublicationTypeOK /\ txn \in Txn /\ txn.list \in Lists /\ fs \in [Target -> [Sibling -> Content]]
           /\ before \in [Target -> {"none", "old"}] /\ txn.swap \in [Target -> Flags]
           /\ EvidenceInv /\ OrderInv /\ RollingInv /\ txn.cause \in {"os", "interrupt"} /\ txn.failed \in BOOLEAN
           /\ Len(txn.list) \in Nat /\ Listing = 1 .. Len(txn.list) /\ txn.i \in 0 .. Len(txn.list)
           /\ (txn.i # 0 => This \in Target /\ This = Listed(txn.i) /\ txn.i \in Listing)
           /\ \A k \in Listing : Listed(k) \in Target /\ (k # txn.i /\ txn.i # 0 => Listed(k) # This)
           /\ \A t \in Target \ Range(txn.list) : fs[t]["target"] = before[t] /\ (txn.i # 0 => t # This)
           /\ Range(txn.list) = {Listed(k) : k \in Listing}
  <1>1. /\ PublicationTypeOK /\ txn \in Txn /\ txn.list \in Lists /\ fs \in [Target -> [Sibling -> Content]]
        /\ before \in [Target -> {"none", "old"}] /\ txn.at # "over"
        /\ EvidenceInv /\ OrderInv /\ RollingInv
    BY DEF PublicationIInv, PublicationTypeOK, Rolling
  <1>2. /\ Len(txn.list) \in Nat /\ Listing = 1 .. Len(txn.list) /\ (\A k \in Listing : Listed(k) \in Target)
        /\ (\A j, k \in Listing : Listed(j) = Listed(k) => j = k) /\ Range(txn.list) = {Listed(k) : k \in Listing}
    BY <1>1, ListShapes DEF Listing, Listed
  <1>3. txn.i \in 0 .. Len(txn.list) /\ txn.cause \in {"os", "interrupt"}
    BY <1>1 DEF RollingInv
  <1>4. txn.i # 0 => txn.i \in Listing /\ This = Listed(txn.i)
    BY <1>2, <1>3 DEF This, Listed
  <1>5. txn.swap \in [Target -> Flags] /\ txn.failed \in BOOLEAN
    BY <1>1 DEF Txn
  <1>6. \A t \in Target \ Range(txn.list) : fs[t]["target"] = before[t]
    BY <1>1 DEF PublicationIInv
  <1> QED
    BY <1>1, <1>2, <1>3, <1>4, <1>5, <1>6

\* _rollback_one goes on with target t.
LEMMA RollOn ==
    ASSUME PublicationIInv, txn.at \in Rolling, txn.i # 0, UNCHANGED <<result, published, before>>,
           fs' \in [Target -> [Sibling -> Content]],
           NEW t \in Target, t = This, \A u \in Target \ {t} : fs'[u] = fs[u],
           NEW next \in {"restore", "tidy"}, txn' = [txn EXCEPT !.at = next],
           IF next = "restore" THEN txn'.swap = txn.swap /\ txn'.cause = txn.cause => Away(t)'
                               ELSE txn'.swap = txn.swap /\ txn'.cause = txn.cause => Restored(t)'
    PROVE  PublicationIInv'
  <1>c. /\ PublicationTypeOK /\ txn \in Txn /\ txn.list \in Lists /\ EvidenceInv /\ OrderInv /\ RollingInv
        /\ txn.cause \in {"os", "interrupt"} /\ txn.i \in 0 .. Len(txn.list) /\ Len(txn.list) \in Nat /\ Listing = 1 .. Len(txn.list)
        /\ This = Listed(txn.i) /\ txn.i \in Listing
        /\ (\A k \in Listing : Listed(k) \in Target /\ (k # txn.i => Listed(k) # This))
        /\ \A u \in Target \ Range(txn.list) : fs[u]["target"] = before[u] /\ u # This
    BY RollContext
  <1>1. /\ txn' \in Txn /\ txn'.at = next /\ txn'.list = txn.list /\ txn'.i = txn.i /\ txn'.swap = txn.swap
        /\ txn'.cause = txn.cause /\ txn'.failed = txn.failed
    BY <1>c DEF Txn, Rolling
  <1>2. Listing' = Listing /\ (\A k : Listed(k)' = Listed(k)) /\ This' = t
    BY <1>1 DEF Listing, Listed, This
  <1>3. ASSUME NEW k \in Listing, k # txn.i
        PROVE  /\ k < txn.i => Sound(Listed(k))'
               /\ k > txn.i => Rolled(Listed(k))'
    <2>1. PICK u \in Target : u = Listed(k)
      BY <1>c
    <2>2. Listed(k)' = u /\ fs'[u] = fs[u] /\ before' = before
      BY <1>2, <1>3, <1>c, <2>1
    <2>3. (k < txn.i => Sound(u)) /\ (k > txn.i => Rolled(u))
      BY <1>c, <2>1 DEF RollingInv
    <2>4. (k < txn.i => Sound(u)') /\ (k > txn.i => Rolled(u)')
      BY <1>1, <2>2, <2>3, SameTarget
    <2> QED
      BY <2>2, <2>4 DEF Sound, Rolled, Kept
  <1>4. RollingInv'
    <2>1. IF next = "restore" THEN Away(This)' ELSE Restored(This)'
      <3>1. IF next = "restore" THEN Away(t)' ELSE Restored(t)'
        BY <1>1
      <3> QED
        BY <1>2, <3>1 DEF Away, Restored
    <2>2. \A k \in Listing : (k < txn.i => Sound(Listed(k))') /\ (k > txn.i => Rolled(Listed(k))')
      BY <1>3, <1>c
    <2> QED
      BY <1>1, <1>2, <1>c, <2>1, <2>2 DEF RollingInv
  <1>5. OrderInv'
    BY <1>1, <1>2, <1>c DEF OrderInv
  <1>6. EvidenceInv' /\ PublicationTypeOK'
    BY <1>1, <1>c, SameEvidence DEF PublicationTypeOK
  <1>7. \A u \in Target \ Range(txn'.list) : fs'[u]["target"] = before'[u]
    BY <1>1, <1>c
  <1> QED
    BY <1>1, <1>4, <1>5, <1>6, <1>7, <1>c DEF PublicationIInv, Swapping, Rolling

\* _rollback_one returns: target t is as it was, or the rollback has failed.
LEMMA RollBack ==
    ASSUME PublicationIInv, txn.at \in Rolling, txn.i # 0, UNCHANGED <<result, published, before>>,
           fs' \in [Target -> [Sibling -> Content]],
           NEW t \in Target, t = This, \A u \in Target \ {t} : fs'[u] = fs[u],
           NEW error \in BOOLEAN, Back(error),
           Kept(t)', error \/ (txn.cause = "os" /\ ~ txn.failed => fs'[t]["target"] = before[t])
    PROVE  PublicationIInv'
  <1>c. /\ PublicationTypeOK /\ txn \in Txn /\ txn.list \in Lists /\ EvidenceInv /\ OrderInv /\ RollingInv
        /\ txn.cause \in {"os", "interrupt"} /\ txn.i \in 0 .. Len(txn.list) /\ Len(txn.list) \in Nat /\ Listing = 1 .. Len(txn.list)
        /\ This = Listed(txn.i) /\ txn.i \in Listing /\ txn.failed \in BOOLEAN
        /\ (\A k \in Listing : Listed(k) \in Target /\ (k # txn.i => Listed(k) # This))
        /\ \A u \in Target \ Range(txn.list) : fs[u]["target"] = before[u] /\ u # This
    BY RollContext
  <1>1. /\ txn' \in Txn /\ txn'.at = "rollback" /\ txn'.list = txn.list /\ txn'.i = txn.i - 1 /\ txn'.swap = txn.swap
        /\ txn'.cause = txn.cause /\ txn'.failed = (txn.failed \/ error)
    <2>1. PICK n \in Nat : n = txn.i - 1
      BY <1>c
    <2>2. PICK f \in BOOLEAN : f = (txn.failed \/ error)
      BY <1>c
    <2>3. txn' = [txn EXCEPT !.at = "rollback", !.i = n, !.failed = f]
      BY <2>1, <2>2 DEF Back
    <2> QED
      BY <1>c, <2>1, <2>2, <2>3 DEF Txn, Rolling
  <1>2. Listing' = Listing /\ (\A k : Listed(k)' = Listed(k)) /\ txn'.i \in 0 .. Len(txn.list)
    BY <1>1, <1>c DEF Listing, Listed
  <1>3. Rolled(t)'
    BY <1>1, <1>c DEF Rolled
  <1>4. ASSUME NEW k \in Listing
        PROVE  /\ k < txn.i => Sound(Listed(k))'
               /\ k >= txn.i => Rolled(Listed(k))'
    <2>1. PICK u \in Target : u = Listed(k)
      BY <1>c
    <2>2. Listed(k)' = u
      BY <1>2, <2>1
    <2>3. CASE k = txn.i
      <3>1. u = t
        BY <1>c, <2>1, <2>3
      <3> QED
        BY <1>3, <1>c, <2>2, <2>3, <3>1 DEF Rolled, Kept
    <2>4. CASE k # txn.i
      <3>1. fs'[u] = fs[u] /\ before' = before
        BY <1>c, <2>1, <2>4
      <3>2. (k < txn.i => Sound(u)) /\ (k >= txn.i => Rolled(u))
        BY <1>c, <2>1, <2>4 DEF RollingInv
      <3>3. (k < txn.i => Sound(u)') /\ (k >= txn.i => Rolled(u)')
        BY <1>1, <3>1, <3>2, SameTarget
      <3> QED
        BY <2>2, <3>3 DEF Sound, Rolled, Kept
    <2> QED
      BY <2>3, <2>4
  <1>5. RollingInv'
    <2>1. \A k \in Listing : (k < txn'.i => k < txn.i) /\ (k > txn'.i => k >= txn.i)
      BY <1>1, <1>c
    <2>2. \A k \in Listing : (k < txn'.i => Sound(Listed(k))') /\ (k > txn'.i => Rolled(Listed(k))')
      BY <1>4, <2>1
    <2>3. txn'.i # 0 => Sound(This)'
      <3> SUFFICES ASSUME txn'.i # 0 PROVE Sound(This)'
        OBVIOUS
      <3>1. PICK k \in Listing : k = txn'.i
        BY <1>2, <1>c
      <3>2. Sound(Listed(k))' /\ This' = Listed(k)'
        BY <1>1, <1>4, <1>c, <3>1 DEF This, Listed
      <3> QED
        BY <3>2 DEF Sound
    <2> QED
      BY <1>1, <1>2, <1>c, <2>2, <2>3 DEF RollingInv
  <1>6. OrderInv'
    BY <1>1, <1>2, <1>c DEF OrderInv
  <1>7. EvidenceInv' /\ PublicationTypeOK'
    BY <1>1, <1>c, SameEvidence DEF PublicationTypeOK
  <1>8. \A u \in Target \ Range(txn'.list) : fs'[u]["target"] = before'[u]
    BY <1>1, <1>c
  <1> QED
    BY <1>1, <1>5, <1>6, <1>7, <1>8, <1>c DEF PublicationIInv, Swapping, Rolling

\* What was installed is moved away.
LEMMA RollAwayStep ==
    ASSUME PublicationIInv, RollAway
    PROVE  PublicationIInv'
  <1>1. txn.at = "rollback" /\ txn.at \in Rolling /\ txn.i > 0 /\ UNCHANGED <<result, published, before>>
    BY DEF RollAway, Rolling
  <1>c. /\ txn \in Txn /\ fs \in [Target -> [Sibling -> Content]] /\ before \in [Target -> {"none", "old"}]
        /\ txn.swap \in [Target -> Flags] /\ RollingInv /\ txn.cause \in {"os", "interrupt"}
        /\ Len(txn.list) \in Nat /\ txn.i \in 0 .. Len(txn.list)
    BY <1>1, RollContext
  <1>i. txn.i # 0 /\ This \in Target
    BY <1>1, <1>c, RollContext
  <1>2. PICK t \in Target : t = This
    BY <1>i
  <1>3. Sound(t) /\ Kept(t) /\ txn.swap[t] \in Flags /\ before[t] \in {"none", "old"}
    BY <1>1, <1>2, <1>c, <1>i, SoundKept DEF RollingInv
  <1>s. /\ {"target", "discarded", "backup", "recovery"} \subseteq Sibling /\ "target" # "discarded"
        /\ {"backup", "recovery"} \subseteq Sibling \ {"target", "discarded"}
    BY DEF Sibling
  <1>4. \/ ~ txn.swap[t].seen /\ fs' = fs /\ Back(FALSE)
        \/ /\ txn.swap[t].seen /\ txn' = [txn EXCEPT !.at = "restore"]
           /\ IF txn.swap[t].installed /\ fs[t]["target"] # "none" THEN fs' = Moved(t, "target", "discarded") ELSE fs' = fs
        \/ fs' = fs /\ Back(TRUE)
    BY <1>2 DEF RollAway, State
  <1>5. CASE fs' = fs /\ \/ ~ txn.swap[t].seen /\ Back(FALSE)
                         \/ Back(TRUE)
    <2>1. Kept(t)' /\ fs' \in [Target -> [Sibling -> Content]] /\ \A u \in Target \ {t} : fs'[u] = fs[u]
      BY <1>1, <1>3, <1>5, <1>c, SameTarget
    <2>2. ~ txn.swap[t].seen /\ txn.cause = "os" => fs'[t]["target"] = before[t]
      BY <1>3, <1>5 DEF Sound
    <2>3. CASE ~ txn.swap[t].seen /\ Back(FALSE)
      BY <1>1, <1>2, <1>i, <2>1, <2>2, <2>3, RollBack
    <2>4. CASE Back(TRUE)
      BY <1>1, <1>2, <1>i, <2>1, <2>4, RollBack
    <2> QED
      BY <1>5, <2>3, <2>4
  <1>6. CASE /\ txn.swap[t].seen /\ txn' = [txn EXCEPT !.at = "restore"]
             /\ IF txn.swap[t].installed /\ fs[t]["target"] # "none" THEN fs' = Moved(t, "target", "discarded") ELSE fs' = fs
    <2>1. /\ fs' \in [Target -> [Sibling -> Content]] /\ \A u \in Target \ {t} : fs'[u] = fs[u]
          /\ fs'[t]["backup"] = fs[t]["backup"] /\ fs'[t]["recovery"] = fs[t]["recovery"]
          /\ txn.cause = "os" => fs'[t]["target"] = "none"
      <3>1. CASE txn.swap[t].installed /\ fs[t]["target"] # "none"
        <4>1. fs' = Moved(t, "target", "discarded")
          BY <1>6, <3>1
        <4>2. /\ fs' \in [Target -> [Sibling -> Content]] /\ fs'[t]["target"] = "none"
              /\ (\A q \in Sibling \ {"target", "discarded"} : fs'[t][q] = fs[t][q])
              /\ \A u \in Target \ {t} : fs'[u] = fs[u]
          BY <1>c, <1>s, <4>1, DiskShapes
        <4> QED
          BY <1>s, <4>2
      <3>2. CASE ~ (txn.swap[t].installed /\ fs[t]["target"] # "none")
        <4>1. fs' = fs
          BY <1>6, <3>2
        <4>2. txn.cause = "os" => fs[t]["target"] = "none"
          BY <1>3, <1>6, <3>2 DEF Sound
        <4> QED
          BY <1>c, <4>1, <4>2
      <3> QED
        BY <3>1, <3>2
    <2>2. txn'.swap = txn.swap /\ txn'.cause = txn.cause => Away(t)'
      BY <1>1, <1>3, <1>6, <2>1 DEF Sound, Away
    <2>3. PICK next \in {"restore", "tidy"} : next = "restore"
      OBVIOUS
    <2>4. txn' = [txn EXCEPT !.at = next]
      BY <1>6, <2>3
    <2> QED
      BY <1>1, <1>2, <1>i, <2>1, <2>2, <2>3, <2>4, RollOn
  <1> QED
    BY <1>4, <1>5, <1>6

\* The previous target comes back.
LEMMA RestoreStep ==
    ASSUME PublicationIInv, Restore
    PROVE  PublicationIInv'
  <1>1. txn.at = "restore" /\ txn.at \in Rolling /\ UNCHANGED <<result, published, before>>
    BY DEF Restore, Rolling
  <1>c. /\ txn \in Txn /\ fs \in [Target -> [Sibling -> Content]] /\ before \in [Target -> {"none", "old"}]
        /\ txn.swap \in [Target -> Flags] /\ RollingInv
    BY <1>1, RollContext
  <1>i. txn.i # 0 /\ This \in Target
    <2>1. txn.i # 0
      BY <1>1, <1>c DEF RollingInv
    <2> QED
      BY <1>1, <2>1, RollContext
  <1>2. PICK t \in Target : t = This
    BY <1>i
  <1>3. Away(t) /\ txn.swap[t] \in Flags /\ before[t] \in {"none", "old"}
    BY <1>1, <1>2, <1>c, <1>i DEF RollingInv
  <1>s. {"target", "discarded", "backup", "recovery"} \subseteq Sibling
    BY DEF Sibling
  <1>4. PICK source \in {"recovery", "backup"} : source = IF txn.swap[t].recovery THEN "recovery" ELSE "backup"
    OBVIOUS
  <1>5. txn.swap[t].had => fs[t][source] = "old"
    BY <1>3, <1>4 DEF Away
  <1>6. \/ ~ txn.swap[t].had /\ fs' = fs /\ txn' = [txn EXCEPT !.at = "tidy"]
        \/ txn.swap[t].had /\ fs' = Moved(t, source, "target") /\ txn' = [txn EXCEPT !.at = "tidy"]
        \/ txn.swap[t].had /\ fs' = Moved(t, "discarded", "target") /\ Back(TRUE)
        \/ txn.swap[t].had /\ fs' = fs /\ Back(TRUE)
    BY <1>2, <1>4 DEF Restore, State
  <1>7. CASE txn.swap[t].had /\ Back(TRUE) /\ (fs' = Moved(t, "discarded", "target") \/ fs' = fs)
    <2>1. /\ fs' \in [Target -> [Sibling -> Content]] /\ fs'[t][source] = fs[t][source]
          /\ \A u \in Target \ {t} : fs'[u] = fs[u]
      <3>1. CASE fs' = fs
        BY <1>c, <3>1
      <3>2. CASE fs' = Moved(t, "discarded", "target")
        <4>1. /\ fs' \in [Target -> [Sibling -> Content]]
              /\ (\A q \in Sibling \ {"discarded", "target"} : fs'[t][q] = fs[t][q])
              /\ \A u \in Target \ {t} : fs'[u] = fs[u]
          BY <1>c, <1>s, <3>2, DiskShapes
        <4>2. source \in Sibling \ {"discarded", "target"}
          BY <1>4, <1>s
        <4> QED
          BY <4>1, <4>2
      <3> QED
        BY <1>7, <3>1, <3>2
    <2>2. Kept(t)'
      BY <1>1, <1>4, <1>5, <1>7, <2>1 DEF Kept
    <2> QED
      BY <1>1, <1>2, <1>7, <1>i, <2>1, <2>2, RollBack
  <1>8. ASSUME txn' = [txn EXCEPT !.at = "tidy"], fs' \in [Target -> [Sibling -> Content]],
               \A u \in Target \ {t} : fs'[u] = fs[u],
               txn'.swap = txn.swap /\ txn'.cause = txn.cause => Restored(t)'
        PROVE  PublicationIInv'
    <2>1. PICK next \in {"restore", "tidy"} : next = "tidy"
      OBVIOUS
    <2>2. txn' = [txn EXCEPT !.at = next] /\ next # "restore"
      BY <1>8, <2>1
    <2> QED
      BY <1>1, <1>2, <1>8, <1>i, <2>2, RollOn
  <1>9. CASE ~ txn.swap[t].had /\ fs' = fs /\ txn' = [txn EXCEPT !.at = "tidy"]
    <2>1. txn'.swap = txn.swap /\ txn'.cause = txn.cause => Restored(t)'
      BY <1>1, <1>3, <1>9 DEF Away, Restored
    <2> QED
      BY <1>8, <1>9, <1>c, <2>1
  <1>10. CASE txn.swap[t].had /\ fs' = Moved(t, source, "target") /\ txn' = [txn EXCEPT !.at = "tidy"]
    <2>1. source \in Sibling /\ source # "target"
      BY <1>4, <1>s
    <2>2. /\ fs' \in [Target -> [Sibling -> Content]] /\ fs'[t]["target"] = fs[t][source]
          /\ \A u \in Target \ {t} : fs'[u] = fs[u]
      BY <1>10, <1>c, <1>s, <2>1, DiskShapes
    <2>3. txn'.swap = txn.swap /\ txn'.cause = txn.cause => Restored(t)'
      BY <1>1, <1>3, <1>5, <1>10, <2>2 DEF Away, Restored
    <2> QED
      BY <1>8, <1>10, <2>2, <2>3
  <1> QED
    BY <1>6, <1>7, <1>9, <1>10

\* The rest is removed: the target stays what it is.
LEMMA TidyStep ==
    ASSUME PublicationIInv, Tidy
    PROVE  PublicationIInv'
  <1>1. txn.at = "tidy" /\ txn.at \in Rolling /\ UNCHANGED <<result, published, before>>
    BY DEF Tidy, Rolling
  <1>c. fs \in [Target -> [Sibling -> Content]] /\ before \in [Target -> {"none", "old"}] /\ RollingInv
    BY <1>1, RollContext
  <1>i. txn.i # 0 /\ This \in Target
    <2>1. txn.i # 0
      BY <1>1, <1>c DEF RollingInv
    <2> QED
      BY <1>1, <2>1, RollContext
  <1>2. PICK t \in Target : t = This
    BY <1>i
  <1>3. Restored(t)
    BY <1>1, <1>2, <1>c, <1>i DEF RollingInv
  <1> DEFINE clean == [fs EXCEPT ![t]["discarded"] = "none"]
  <1>4. /\ \/ fs' = clean
           \/ fs' = [clean EXCEPT ![t]["backup"] = "none"]
           \/ fs' = [fs EXCEPT ![t]["discarded"] = "part"]
           \/ fs' = [clean EXCEPT ![t]["backup"] = "none", ![t]["stale"] = "part"]
        /\ Back(FALSE) \/ Back(TRUE)
    BY <1>2 DEF Tidy, Has
  <1>5. /\ fs' \in [Target -> [Sibling -> Content]] /\ fs'[t]["target"] = fs[t]["target"]
        /\ \A u \in Target \ {t} : fs'[u] = fs[u]
    <2>s. {"target", "discarded", "backup", "stale"} \subseteq Sibling /\ {"none", "part"} \subseteq Content
      BY DEF Sibling, Content
    <2>1. clean \in [Target -> [Sibling -> Content]] /\ clean[t]["target"] = fs[t]["target"] /\ \A u \in Target \ {t} : clean[u] = fs[u]
      BY <1>c, <2>s
    <2> HIDE DEF clean
    <2>2. CASE fs' = clean
      BY <2>1, <2>2
    <2>3. CASE fs' = [clean EXCEPT ![t]["backup"] = "none"]
      BY <2>1, <2>3, <2>s
    <2>4. CASE fs' = [fs EXCEPT ![t]["discarded"] = "part"]
      BY <1>c, <2>4, <2>s
    <2>5. CASE fs' = [clean EXCEPT ![t]["backup"] = "none", ![t]["stale"] = "part"]
      <3>1. PICK d : d = [clean EXCEPT ![t]["backup"] = "none"]
        OBVIOUS
      <3>2. d \in [Target -> [Sibling -> Content]] /\ d[t]["target"] = fs[t]["target"] /\ \A u \in Target \ {t} : d[u] = fs[u]
        BY <2>1, <2>s, <3>1
      <3>3. fs' = [d EXCEPT ![t]["stale"] = "part"]
        BY <2>5, <3>1
      <3> QED
        BY <2>s, <3>2, <3>3
    <2> QED
      BY <1>4, <2>2, <2>3, <2>4, <2>5
  <1>6. Kept(t)' /\ (txn.cause = "os" => fs'[t]["target"] = before[t])
    BY <1>1, <1>3, <1>5 DEF Restored, Kept
  <1> QED
    BY <1>1, <1>2, <1>4, <1>5, <1>6, <1>i, RollBack

\* The stages are thrown away once every target was rolled back.
LEMMA DiscardStep ==
    ASSUME PublicationIInv, Discard
    PROVE  PublicationIInv'
  <1>1. /\ txn.at = "rollback" /\ txn.at \in Rolling /\ txn.i = 0 /\ UNCHANGED <<result, published, before>>
        /\ txn' = [txn EXCEPT !.at = "raised"]
    BY DEF Discard, Rolling
  <1>c. /\ PublicationTypeOK /\ txn \in Txn /\ fs \in [Target -> [Sibling -> Content]] /\ before \in [Target -> {"none", "old"}]
        /\ txn.list \in Lists /\ RollingInv /\ txn.cause \in {"os", "interrupt"} /\ Len(txn.list) \in Nat /\ Listing = 1 .. Len(txn.list)
        /\ (\A t \in Target \ Range(txn.list) : fs[t]["target"] = before[t])
        /\ Range(txn.list) = {Listed(k) : k \in Listing}
    BY <1>1, RollContext
  <1>2. /\ fs' \in [Target -> [Sibling -> Content]]
        /\ \A t \in Target, p \in {"target", "backup", "recovery"} : fs'[t][p] = fs[t][p]
    <2>s. "stage" \in Sibling /\ {"target", "backup", "recovery"} \subseteq Sibling \ {"stage"} /\ {"none", "part"} \subseteq Content
      BY DEF Sibling, Content
    <2>1. PICK c \in {"none", "part"} :
             fs' = [t \in Target |-> IF fs[t]["stage"] = "none" THEN fs[t] ELSE [fs[t] EXCEPT !["stage"] = c]]
      BY DEF Discard
    <2>2. \A t \in Target : /\ [fs[t] EXCEPT !["stage"] = c] \in [Sibling -> Content]
                            /\ \A p \in {"target", "backup", "recovery"} : [fs[t] EXCEPT !["stage"] = c][p] = fs[t][p]
      BY <1>c, <2>s
    <2> QED
      BY <1>c, <2>1, <2>2
  <1>3. /\ txn' \in Txn /\ txn'.at = "raised" /\ txn'.list = txn.list /\ txn'.cause = txn.cause /\ txn'.failed = txn.failed
    BY <1>1, <1>c DEF Txn
  <1>4. \A t \in Target : Rolled(t)
    <2>1. \A k \in Listing : Rolled(Listed(k))
      BY <1>1, <1>c DEF RollingInv
    <2>2. \A t \in Target \ Range(txn.list) : Rolled(t)
      BY <1>c DEF Rolled, Kept
    <2> QED
      BY <1>c, <2>1, <2>2
  <1>5. \A t \in Target : Rolled(t)'
    BY <1>1, <1>2, <1>3, <1>4 DEF Rolled, Kept
  <1>6. NothingLost' /\ CompleteMeansPublished'
    <2>1. NothingLost'
      <3>1. \A t \in Target : before[t] = "old" => \E p \in {"target", "backup", "recovery"} : fs[t][p] = "old"
        BY <1>4 DEF Rolled, Kept
      <3>2. \A t \in Target : before'[t] = "old" => \E p \in {"target", "backup", "recovery"} : fs'[t][p] = "old"
        BY <1>1, <1>2, <3>1
      <3>3. {"target", "backup", "recovery"} \subseteq Sibling
        BY DEF Sibling
      <3> QED
        BY <3>2, <3>3 DEF NothingLost
    <2>2. CompleteMeansPublished /\ \A t \in Range(txn.list) \cup {"metrics"} : fs'[t]["target"] = fs[t]["target"]
      <3>1. CompleteMeansPublished
        BY PublicationConsequences
      <3>2. Range(txn.list) \subseteq Target /\ "metrics" \in Target
        BY <1>c, ListShapes DEF Target
      <3> QED
        BY <1>2, <3>1, <3>2
    <2>3. CompleteMeansPublished'
      BY <1>3, <2>2 DEF CompleteMeansPublished
    <2> QED
      BY <2>1, <2>3
  <1>7. PublicationTypeOK'
    BY <1>1, <1>2, <1>3, <1>c DEF PublicationTypeOK
  <1>8. \A t \in Target \ Range(txn'.list) : fs'[t]["target"] = before'[t]
    BY <1>1, <1>2, <1>3, <1>c
  <1> QED
    BY <1>3, <1>5, <1>6, <1>7, <1>8, <1>c DEF PublicationIInv, Swapping, Rolling

\* complete_run writes metrics with status PARTIAL over whatever is there.
LEMMA SavePartialStep ==
    ASSUME PublicationIInv, SavePartial
    PROVE  PublicationIInv'
  <1>1. /\ txn.at = "raised" /\ UNCHANGED <<result, published, before>> /\ txn' = [txn EXCEPT !.at = "over"]
        /\ Has("metrics", "target", "partial")
    BY DEF SavePartial
  <1>2. /\ PublicationTypeOK /\ txn \in Txn /\ fs \in [Target -> [Sibling -> Content]] /\ before["metrics"] = "none"
        /\ NothingLost /\ txn.list \in Lists \cup {<<>>}
        /\ \A t \in Target \ Range(txn.list) : fs[t]["target"] = before[t]
    BY <1>1 DEF PublicationIInv, PublicationTypeOK, Txn
  <1>3. txn' \in Txn /\ txn'.at = "over" /\ txn'.list = txn.list
    BY <1>1, <1>2 DEF Txn
  <1>4. /\ fs' \in [Target -> [Sibling -> Content]] /\ fs'["metrics"]["target"] = "partial"
        /\ \A t \in Target \ {"metrics"} : fs'[t] = fs[t]
    <2>1. "metrics" \in Target /\ "target" \in Sibling /\ "partial" \in Content
      BY DEF Target, Sibling, Content
    <2> QED
      BY <1>1, <1>2, <2>1, DiskShapes
  <1>5. Range(txn.list) \subseteq Target
    <2>1. CASE txn.list \in Lists
      BY <2>1, ListShapes
    <2>2. CASE txn.list = <<>>
      BY <2>2 DEF Range
    <2> QED
      BY <1>2, <2>1, <2>2
  <1>6. NothingLost'
    BY <1>1, <1>2, <1>3, <1>4, <1>5 DEF NothingLost
  <1>7. CompleteMeansPublished'
    BY <1>4 DEF CompleteMeansPublished
  <1>8. PublicationTypeOK'
    BY <1>1, <1>2, <1>3, <1>4 DEF PublicationTypeOK
  <1>9. \A t \in Target \ Range(txn'.list) : t # "metrics" => fs'[t]["target"] = before'[t]
    BY <1>1, <1>2, <1>3, <1>4
  <1> QED
    BY <1>3, <1>6, <1>7, <1>8, <1>9 DEF PublicationIInv, Swapping, Rolling

\* The process dies with the disk as it is.
LEMMA KilledStep ==
    ASSUME PublicationIInv, Killed
    PROVE  PublicationIInv'
  <1>1. txn.at # "over" /\ UNCHANGED <<result, published, before, fs>> /\ txn' = [txn EXCEPT !.at = "dead"]
    BY DEF Killed
  <1>2. PublicationTypeOK /\ txn \in Txn /\ \A t \in Target \ Range(txn.list) : fs[t]["target"] = before[t]
    BY <1>1 DEF PublicationIInv, PublicationTypeOK
  <1>3. txn' \in Txn /\ txn'.at = "dead" /\ txn'.list = txn.list /\ txn'.cause = txn.cause /\ txn'.failed = txn.failed
    BY <1>1, <1>2 DEF Txn
  <1>4. NothingLost' /\ CompleteMeansPublished'
    <2>1. NothingLost /\ CompleteMeansPublished
      BY PublicationConsequences
    <2> QED
      BY <1>1, <1>3, <2>1 DEF NothingLost, CompleteMeansPublished
  <1>5. PublicationTypeOK'
    BY <1>1, <1>2, <1>3 DEF PublicationTypeOK
  <1>6. \A t \in Target \ Range(txn'.list) : fs'[t]["target"] = before'[t]
    BY <1>1, <1>2, <1>3
  <1> QED
    BY <1>3, <1>4, <1>5, <1>6 DEF PublicationIInv, Swapping, Rolling

\* A step that leaves every variable alone.
LEMMA PublicationStutters ==
    ASSUME PublicationIInv, UNCHANGED publicationVars
    PROVE  PublicationIInv'
  <1>1. UNCHANGED <<result, published, before, fs, txn>>
    BY DEF publicationVars
  <1>2. /\ Listing' = Listing /\ (\A k : Listed(k)' = Listed(k)) /\ This' = This /\ State' = State /\ (EvidenceInv' <=> EvidenceInv)
    BY <1>1, SameEvidence DEF Listing, Listed, This, State
  <1>3. \A t : /\ Sound(t)' <=> Sound(t)
               /\ Away(t)' <=> Away(t)
               /\ Restored(t)' <=> Restored(t)
               /\ Rolled(t)' <=> Rolled(t)
               /\ Untouched(t)' <=> Untouched(t)
    BY <1>1 DEF Sound, Away, Restored, Rolled, Kept, Untouched
  <1>4. (PublicationTypeOK' <=> PublicationTypeOK) /\ (AllNew' <=> AllNew) /\ (OrderInv' <=> OrderInv)
    BY <1>1, <1>2 DEF PublicationTypeOK, AllNew, OrderInv
  <1>5. ReachedInv' <=> ReachedInv
    BY <1>1, <1>2 DEF ReachedInv, Untouched, Unseen
  <1>6. RollingInv' <=> RollingInv
    BY <1>1, <1>2 DEF RollingInv, Sound, Away, Restored, Rolled, Kept
  <1>7. (NothingLost' <=> NothingLost) /\ (CompleteMeansPublished' <=> CompleteMeansPublished)
    BY <1>1 DEF NothingLost, CompleteMeansPublished
  <1>8. (\A k \in Listing : Sound(Listed(k))') <=> (\A k \in Listing : Sound(Listed(k)))
    BY <1>1, <1>2 DEF Sound
  <1> QED
    BY <1>1, <1>2, <1>3, <1>4, <1>5, <1>6, <1>7, <1>8 DEF PublicationIInv

\* PublicationIInv is inductive.
LEMMA NextPublicationIInv == PublicationIInv /\ [PublicationNext]_publicationVars => PublicationIInv'
  <1> SUFFICES ASSUME PublicationIInv, [PublicationNext]_publicationVars PROVE PublicationIInv'
    OBVIOUS
  <1>1. CASE Prepare \/ Refuse \/ Invalid
    BY <1>1, PrepareSteps, InvalidStep
  <1>2. CASE BackUp \/ Install \/ CreateRecovery \/ DropBackup \/ DropRecovery
    BY <1>2, BackUpStep, InstallStep, CreateRecoveryStep, DropBackupStep, DropRecoveryStep
  <1>3. CASE RollAway \/ Restore \/ Tidy \/ Discard
    BY <1>3, RollAwayStep, RestoreStep, TidyStep, DiscardStep
  <1>4. CASE SavePartial \/ Killed
    BY <1>4, SavePartialStep, KilledStep
  <1>5. CASE UNCHANGED publicationVars
    BY <1>5, PublicationStutters
  <1> QED
    BY <1>1, <1>2, <1>3, <1>4, <1>5 DEF PublicationNext

\* What the flags of each target say about the disk holds at every step of
\* the publication and of its rollback, for every set of jobs and outcomes.
THEOREM PublicationInductive == PublicationSpec => []PublicationIInv
  BY InitPublicationIInv, NextPublicationIInv, PTL DEF PublicationSpec

\* The paths hold known contents and the transaction is well formed.
THEOREM PublicationTypeCorrect == PublicationSpec => []PublicationTypeOK
  <1>1. PublicationIInv => PublicationTypeOK
    BY DEF PublicationIInv
  <1> QED
    BY PublicationInductive, <1>1, PTL

\* commit_publications returns with all targets new and all evidence in
\* them, or raises after failed calls with every target as it was.
THEOREM PublicationsAreAtomic == PublicationSpec => []AllOrNothing
  <1>1. ASSUME PublicationIInv PROVE AllOrNothing
    <2>1. CASE txn.at = "done"
      <3>1. txn.list \in Lists /\ EvidenceInv /\ AllNew
        BY <1>1, <2>1 DEF PublicationIInv
      <3>2. \A t \in Range(txn.list) : fs[t]["target"] = "new"
        BY <3>1, ListShapes DEF AllNew, Listing, Listed
      <3> QED
        BY <2>1, <3>1, <3>2 DEF AllOrNothing, EvidenceInv
    <2>2. CASE txn.at = "raised"
      BY <1>1, <2>2 DEF PublicationIInv, AllOrNothing, Rolled
    <2> QED
      BY <2>1, <2>2 DEF AllOrNothing
  <1> QED
    BY PublicationInductive, <1>1, PTL

\* At every step a complete copy of each previous target is on disk, unless
\* all the new ones are installed: a kill at any point loses no evidence.
THEOREM PreviousEvidenceSurvives == PublicationSpec => []NothingLost
  BY PublicationInductive, PublicationConsequences, PTL

\* Metrics that say COMPLETE lie beside complete evidence.
THEOREM CompleteMetricsAreTrue == PublicationSpec => []CompleteMeansPublished
  BY PublicationInductive, PublicationConsequences, PTL
---------------------------------------------------------------------------
(* Capsules                                                                *)

Place == {"new", "browser", "port", "launch", "wait", "ready", "acquire", "spawn", "spawned", "tests", "reset", "failed", "closed"}
Process == Engine \cup {"orchestrator", "tests"}
CapsuleRow == [at : Place, tries : Nat, port : Port \cup {NoPort}, stop : {"no", "set", "swept"}, active : BOOLEAN,
               engines : SUBSET Engine, owned : BOOLEAN, jobs : Nat, dirty : BOOLEAN, error : BOOLEAN]

\* The type invariant of Capsules.
CapsulesTypeOK ==
    /\ capsule \in [Capsule -> CapsuleRow]
    /\ alive \in [Capsule -> SUBSET Process]
    /\ server \in [Capsule -> {"none", "booting", "serving", "exited"}]
    /\ main \in [at : {"starting", "pool", "closing"}, halt : BOOLEAN]

\* The processes that capsule x has handles of.
Known(x) ==
    CASE x.at = "browser" -> {"first"}
      [] x.at \in {"port", "launch"} -> x.engines
      [] x.at \in {"wait", "ready", "acquire", "spawn", "reset"} -> x.engines \cup {"orchestrator"}
      [] x.at \in {"spawned", "tests"} -> x.engines \cup {"orchestrator", "tests"}
      [] OTHER -> {}

\* A database is reset before the next job, and as long as nothing failed every
\* process has a handle, those of a capsule that was handed over with the rest.
Accounted(x, ps) ==
    /\ x.at \in {"new", "browser", "port", "launch", "wait", "ready", "acquire", "spawn"} => ~ x.dirty
    /\ ~ x.error => /\ x.at # "failed" /\ ps \subseteq Known(x)
                    /\ x.at \in {"ready", "acquire", "spawn", "spawned", "tests", "reset"} => x.owned

Quieted == {"ready", "failed", "closed"}

\* The inductive invariant: when the capsules are closed none is at work.
CapsulesIInv ==
    /\ CapsulesTypeOK
    /\ \A c \in Capsule : Accounted(capsule[c], alive[c])
    /\ main.at = "closing" => \A c \in Capsule : capsule[c].at \in Quieted

LEMMA InitCapsulesIInv == CapsulesInit => CapsulesIInv
  <1> SUFFICES ASSUME CapsulesInit PROVE CapsulesIInv
    OBVIOUS
  <1> DEFINE x == [at |-> "new", tries |-> 1, port |-> NoPort, stop |-> "no", active |-> FALSE, engines |-> {},
                   owned |-> FALSE, jobs |-> 0, dirty |-> FALSE, error |-> FALSE]
  <1>1. x \in CapsuleRow /\ x.at = "new" /\ ~ x.dirty
    BY DEF CapsuleRow, Place
  <1>2. capsule = [c \in Capsule |-> x] /\ alive = [c \in Capsule |-> {}] /\ server = [c \in Capsule |-> "none"]
        /\ main = [at |-> "starting", halt |-> FALSE]
    BY DEF CapsulesInit
  <1> HIDE DEF x
  <1>3. Accounted(x, {})
    BY <1>1 DEF Accounted
  <1> QED
    BY <1>1, <1>2, <1>3 DEF CapsulesIInv, CapsulesTypeOK

\* A step of one capsule.
LEMMA OneCapsule ==
    ASSUME CapsulesIInv, NEW c \in Capsule, NEW x \in CapsuleRow, NEW ps \in SUBSET Process,
           capsule' = [capsule EXCEPT ![c] = x], alive' = [alive EXCEPT ![c] = ps],
           server' \in [Capsule -> {"none", "booting", "serving", "exited"}], main' = main,
           Accounted(x, ps), main.at = "closing" => x.at \in Quieted
    PROVE  CapsulesIInv'
  <1>1. /\ CapsulesTypeOK /\ (\A b \in Capsule : Accounted(capsule[b], alive[b]))
        /\ main.at = "closing" => \A b \in Capsule : capsule[b].at \in Quieted
    BY DEF CapsulesIInv
  <1>2. CapsulesTypeOK'
    BY <1>1 DEF CapsulesTypeOK
  <1>3. ASSUME NEW b \in Capsule PROVE Accounted(capsule'[b], alive'[b]) /\ (main'.at = "closing" => capsule'[b].at \in Quieted)
    <2>1. CASE b = c
      <3>1. capsule'[b] = x /\ alive'[b] = ps
        BY <1>1, <2>1 DEF CapsulesTypeOK
      <3> QED
        BY <3>1
    <2>2. CASE b # c
      <3>1. capsule'[b] = capsule[b] /\ alive'[b] = alive[b]
        BY <1>1, <2>2 DEF CapsulesTypeOK
      <3> QED
        BY <1>1, <3>1
    <2> QED
      BY <2>1, <2>2
  <1> QED
    BY <1>2, <1>3 DEF CapsulesIInv, Accounted, Known

\* What is known of a capsule before a step.
LEMMA CapsuleContext ==
    ASSUME CapsulesIInv, NEW c \in Capsule
    PROVE  /\ capsule \in [Capsule -> CapsuleRow] /\ capsule[c] \in CapsuleRow /\ alive \in [Capsule -> SUBSET Process]
           /\ server \in [Capsule -> {"none", "booting", "serving", "exited"}]
           /\ capsule[c].engines \subseteq Engine /\ Engine \subseteq Process /\ {"first", "orchestrator", "tests"} \subseteq Process
           /\ "first" \in Engine
           /\ Accounted(capsule[c], alive[c]) /\ (capsule[c].at \notin Quieted => main.at # "closing")
  <1>1. /\ capsule \in [Capsule -> CapsuleRow] /\ capsule[c] \in CapsuleRow /\ alive \in [Capsule -> SUBSET Process]
        /\ server \in [Capsule -> {"none", "booting", "serving", "exited"}]
    BY DEF CapsulesIInv, CapsulesTypeOK
  <1>2. capsule[c].engines \subseteq Engine
    BY <1>1 DEF CapsuleRow
  <1> QED
    BY <1>1, <1>2 DEF CapsulesIInv, Process, Engine

\* A start or a job fails: an error is noted, whatever processes are left.
LEMMA FailStep ==
    ASSUME CapsulesIInv, NEW c \in Capsule, capsule[c].at \notin Quieted, CapsuleFails(c),
           NEW ps \in SUBSET Process, alive' = [alive EXCEPT ![c] = ps],
           server' \in [Capsule -> {"none", "booting", "serving", "exited"}], main' = main
    PROVE  CapsulesIInv'
  <1> DEFINE x == [capsule[c] EXCEPT !.at = "failed", !.error = TRUE]
  <1>1. capsule[c] \in CapsuleRow /\ main.at # "closing"
    BY CapsuleContext
  <1>2. x \in CapsuleRow /\ x.at = "failed" /\ x.error
    BY <1>1 DEF CapsuleRow, Place
  <1>3. capsule' = [capsule EXCEPT ![c] = x]
    BY DEF CapsuleFails
  <1> HIDE DEF x
  <1>4. Accounted(x, ps)
    BY <1>2 DEF Accounted
  <1> QED
    BY <1>1, <1>2, <1>3, <1>4, OneCapsule

\* What OwnedProcess.close does.
LEMMA CloseFacts ==
    ASSUME CapsulesIInv, NEW c \in Capsule, NEW ps, NEW stuck, CloseAll(c, ps, stuck)
    PROVE  /\ alive[c] \ (ps \ stuck) \in SUBSET Process /\ alive' = [alive EXCEPT ![c] = alive[c] \ (ps \ stuck)]
           /\ server' \in [Capsule -> {"none", "booting", "serving", "exited"}]
  <1>1. alive \in [Capsule -> SUBSET Process] /\ server \in [Capsule -> {"none", "booting", "serving", "exited"}]
    BY CapsuleContext
  <1>2. alive' = [alive EXCEPT ![c] = alive[c] \ (ps \ stuck)]
    BY DEF CloseAll
  <1>3. server' \in [Capsule -> {"none", "booting", "serving", "exited"}]
    BY <1>1 DEF CloseAll
  <1> QED
    BY <1>1, <1>2, <1>3

\* StartRaises is a failure.
LEMMA RaisesStep ==
    ASSUME CapsulesIInv, NEW c \in Capsule, capsule[c].at \notin Quieted, NEW ps, StartRaises(c, ps)
    PROVE  CapsulesIInv'
  <1>1. PICK stuck : CloseAll(c, ps, stuck)
    BY DEF StartRaises
  <1>2. CapsuleFails(c) /\ main' = main
    BY DEF StartRaises
  <1>3. /\ alive[c] \ (ps \ stuck) \in SUBSET Process /\ alive' = [alive EXCEPT ![c] = alive[c] \ (ps \ stuck)]
        /\ server' \in [Capsule -> {"none", "booting", "serving", "exited"}]
    BY <1>1, CloseFacts
  <1> QED
    BY <1>2, <1>3, FailStep

\* WorkerCapsule.start, up to the launch.
LEMMA StartSteps ==
    ASSUME CapsulesIInv, NEW c \in Capsule,
           \/ StartBrowser(c) \/ BrowserReady(c) \/ BrowserFails(c) \/ PickPort(c) \/ StartCancelled(c) \/ PortFails(c)
           \/ StartOrchestrator(c) \/ LaunchFails(c) \/ ServicesReady(c)
    PROVE  CapsulesIInv'
  <1>c. /\ capsule \in [Capsule -> CapsuleRow] /\ capsule[c] \in CapsuleRow /\ alive \in [Capsule -> SUBSET Process]
        /\ server \in [Capsule -> {"none", "booting", "serving", "exited"}]
        /\ capsule[c].engines \subseteq Engine /\ Engine \subseteq Process /\ {"first", "orchestrator", "tests"} \subseteq Process
        /\ "first" \in Engine
        /\ Accounted(capsule[c], alive[c]) /\ (capsule[c].at \notin Quieted => main.at # "closing")
    BY CapsuleContext
  <1>a. alive = [alive EXCEPT ![c] = alive[c]] /\ alive[c] \in SUBSET Process
    BY <1>c
  <1>q. capsule[c].at \notin Quieted /\ main.at # "closing"
    BY <1>c DEF StartBrowser, BrowserReady, BrowserFails, PickPort, StartCancelled, PortFails, StartOrchestrator, LaunchFails,
                ServicesReady, At, Quieted
  <1>1. CASE BrowserFails(c) \/ StartCancelled(c) \/ LaunchFails(c)
    BY <1>1, <1>q, RaisesStep DEF BrowserFails, StartCancelled, LaunchFails
  <1>2. CASE CapsuleFails(c) /\ UNCHANGED <<alive, server, main>>
    BY <1>2, <1>a, <1>c, <1>q, FailStep
  <1>3. CASE ~ Stopped(c) /\ At(c, "new") /\ Spawn(c, "first") /\ capsule' = [capsule EXCEPT ![c].at = "browser"] /\ UNCHANGED <<server, main>>
    <2> DEFINE x == [capsule[c] EXCEPT !.at = "browser"]
    <2>1. x \in CapsuleRow /\ x.at = "browser" /\ x.dirty = capsule[c].dirty /\ x.error = capsule[c].error
      BY <1>c DEF CapsuleRow, Place
    <2>2. capsule' = [capsule EXCEPT ![c] = x] /\ alive' = [alive EXCEPT ![c] = alive[c] \cup {"first"}]
      BY <1>3 DEF Spawn
    <2> HIDE DEF x
    <2>3. Accounted(x, alive[c] \cup {"first"})
      BY <1>3, <1>c, <2>1 DEF Accounted, Known, At
    <2>4. alive[c] \cup {"first"} \in SUBSET Process
      BY <1>c
    <2> QED
      BY <1>3, <1>c, <1>q, <2>1, <2>2, <2>3, <2>4, OneCapsule
  <1>4. CASE BrowserReady(c)
    <2> DEFINE x == [capsule[c] EXCEPT !.at = "port", !.engines = {"first"}]
    <2>1. /\ x \in CapsuleRow /\ x.at = "port" /\ x.dirty = capsule[c].dirty /\ x.error = capsule[c].error /\ x.engines = {"first"}
          /\ capsule[c].at = "browser"
      BY <1>4, <1>c DEF CapsuleRow, Place, BrowserReady, At
    <2>2. capsule' = [capsule EXCEPT ![c] = x] /\ UNCHANGED <<alive, server, main>>
      BY <1>4 DEF BrowserReady
    <2> HIDE DEF x
    <2>3. Accounted(x, alive[c])
      BY <1>c, <2>1 DEF Accounted, Known
    <2> QED
      BY <1>a, <1>c, <1>q, <2>1, <2>2, <2>3, OneCapsule
  <1>5. CASE PickPort(c)
    <2>1. PICK p \in Port : capsule' = [capsule EXCEPT ![c].at = "launch", ![c].port = p]
      BY <1>5 DEF PickPort
    <2> DEFINE x == [capsule[c] EXCEPT !.at = "launch", !.port = p]
    <2>2. /\ x \in CapsuleRow /\ x.at = "launch" /\ x.dirty = capsule[c].dirty /\ x.error = capsule[c].error
          /\ x.engines = capsule[c].engines /\ capsule[c].at = "port"
      BY <1>5, <1>c DEF CapsuleRow, Place, PickPort, At
    <2>3. capsule' = [capsule EXCEPT ![c] = x] /\ UNCHANGED <<alive, server, main>>
      BY <1>5, <2>1 DEF PickPort
    <2> HIDE DEF x
    <2>4. Accounted(x, alive[c])
      BY <1>c, <2>2 DEF Accounted, Known
    <2> QED
      BY <1>a, <1>c, <1>q, <2>2, <2>3, <2>4, OneCapsule
  <1>6. CASE StartOrchestrator(c)
    <2> DEFINE x == [capsule[c] EXCEPT !.at = "wait"]
    <2>1. /\ x \in CapsuleRow /\ x.at = "wait" /\ x.dirty = capsule[c].dirty /\ x.error = capsule[c].error
          /\ x.engines = capsule[c].engines /\ capsule[c].at = "launch"
      BY <1>6, <1>c DEF CapsuleRow, Place, StartOrchestrator, At
    <2>2. /\ capsule' = [capsule EXCEPT ![c] = x] /\ alive' = [alive EXCEPT ![c] = alive[c] \cup {"orchestrator"}]
          /\ server' \in [Capsule -> {"none", "booting", "serving", "exited"}] /\ main' = main
      BY <1>6, <1>c DEF StartOrchestrator, Spawn
    <2> HIDE DEF x
    <2>3. Accounted(x, alive[c] \cup {"orchestrator"})
      BY <1>c, <2>1 DEF Accounted, Known
    <2>4. alive[c] \cup {"orchestrator"} \in SUBSET Process
      BY <1>c
    <2> QED
      BY <1>q, <2>1, <2>2, <2>3, <2>4, OneCapsule
  <1>7. CASE ServicesReady(c)
    <2> DEFINE x == [capsule[c] EXCEPT !.at = "ready", !.owned = TRUE]
    <2>1. /\ x \in CapsuleRow /\ x.at = "ready" /\ x.dirty = capsule[c].dirty /\ x.error = capsule[c].error
          /\ x.engines = capsule[c].engines /\ x.owned /\ capsule[c].at = "wait"
      BY <1>7, <1>c DEF CapsuleRow, Place, ServicesReady, At
    <2>2. capsule' = [capsule EXCEPT ![c] = x] /\ UNCHANGED <<alive, server, main>>
      BY <1>7 DEF ServicesReady
    <2> HIDE DEF x
    <2>3. Accounted(x, alive[c])
      BY <1>c, <2>1 DEF Accounted, Known
    <2> QED
      BY <1>a, <1>c, <1>q, <2>1, <2>2, <2>3, OneCapsule
  <1> QED
    BY <1>1, <1>2, <1>3, <1>4, <1>5, <1>6, <1>7 DEF StartBrowser, PortFails

\* The services do not come up: again, if nothing of them is left, or not.
LEMMA ServicesFailStep ==
    ASSUME CapsulesIInv, NEW c \in Capsule, ServicesFail(c)
    PROVE  CapsulesIInv'
  <1>c. /\ capsule[c] \in CapsuleRow /\ Accounted(capsule[c], alive[c])
        /\ capsule[c].at = "wait" /\ capsule[c].at \notin Quieted /\ main.at # "closing" /\ main' = main
    BY CapsuleContext DEF ServicesFail, At, Quieted
  <1> DEFINE Ps(again) == {"orchestrator"} \cup (IF again THEN {} ELSE capsule[c].engines)
  <1>1. PICK stuck :
          LET again == server[c] = "exited" /\ "orchestrator" \notin stuck /\ ~ Stopped(c) /\ capsule[c].tries < MaxStart
          IN  /\ CloseAll(c, Ps(again), stuck)
              /\ IF again THEN capsule' = [capsule EXCEPT ![c].at = "port", ![c].tries = @ + 1] ELSE CapsuleFails(c)
    BY DEF ServicesFail
  <1>2. PICK again \in BOOLEAN :
          /\ again => "orchestrator" \notin stuck
          /\ CloseAll(c, Ps(again), stuck)
          /\ IF again THEN capsule' = [capsule EXCEPT ![c].at = "port", ![c].tries = @ + 1] ELSE CapsuleFails(c)
    BY <1>1
  <1>3. PICK ps : ps = Ps(again)
    OBVIOUS
  <1>4. /\ alive[c] \ (ps \ stuck) \in SUBSET Process /\ alive' = [alive EXCEPT ![c] = alive[c] \ (ps \ stuck)]
        /\ server' \in [Capsule -> {"none", "booting", "serving", "exited"}]
    BY <1>2, <1>3, CloseFacts
  <1>5. CASE ~ again
    BY <1>2, <1>4, <1>5, <1>c, FailStep
  <1>6. CASE again
    <2>1. PICK n \in Nat : n = capsule[c].tries + 1
      BY <1>c DEF CapsuleRow
    <2> DEFINE x == [capsule[c] EXCEPT !.at = "port", !.tries = n]
    <2>2. /\ x \in CapsuleRow /\ x.at = "port" /\ x.dirty = capsule[c].dirty /\ x.error = capsule[c].error
          /\ x.engines = capsule[c].engines
      BY <1>c DEF CapsuleRow, Place
    <2>3. capsule' = [capsule EXCEPT ![c] = x]
      BY <1>2, <1>6, <2>1
    <2> HIDE DEF x
    <2>4. ps = {"orchestrator"} /\ "orchestrator" \notin stuck
      BY <1>2, <1>3, <1>6
    <2>5. Accounted(x, alive[c] \ (ps \ stuck))
      BY <1>c, <2>2, <2>4 DEF Accounted, Known
    <2> QED
      BY <1>4, <1>c, <2>2, <2>3, <2>5, OneCapsule
  <1> QED
    BY <1>5, <1>6

\* A job takes its browser: one that does not close stays in the pool.
LEMMA AcquireStep ==
    ASSUME CapsulesIInv, NEW c \in Capsule, AcquireBrowser(c)
    PROVE  CapsulesIInv'
  <1>c. /\ capsule[c] \in CapsuleRow /\ alive \in [Capsule -> SUBSET Process]
        /\ server \in [Capsule -> {"none", "booting", "serving", "exited"}]
        /\ capsule[c].engines \subseteq Engine /\ Engine \subseteq Process
        /\ Accounted(capsule[c], alive[c])
        /\ capsule[c].at = "acquire" /\ main.at # "closing" /\ UNCHANGED <<server, main>>
    BY CapsuleContext DEF AcquireBrowser, At, Quieted
  <1> DEFINE kept(retired) == capsule[c].engines \ retired
  <1>1. PICK e \in Engine, retired \in SUBSET Engine, stuck \in SUBSET Engine :
          /\ retired = Retired(c, e)
          /\ \/ /\ alive' = [alive EXCEPT ![c] = (alive[c] \ retired) \cup {e}]
                /\ capsule' = [capsule EXCEPT ![c].at = "spawn", ![c].engines = kept(retired) \cup {e}]
             \/ /\ \E lost \in SUBSET {e} : alive' = [alive EXCEPT ![c] = (alive[c] \ (retired \ stuck)) \cup lost]
                /\ capsule' = [capsule EXCEPT ![c].at = "failed", ![c].error = TRUE, ![c].engines = kept(retired) \cup stuck]
    <2>1. PICK e \in Engine : \E stuck \in SUBSET Retired(c, e) :
                 \/ /\ stuck = {}
                    /\ alive' = [alive EXCEPT ![c] = (alive[c] \ Retired(c, e)) \cup {e}]
                    /\ capsule' = [capsule EXCEPT ![c].at = "spawn", ![c].engines = (capsule[c].engines \ Retired(c, e)) \cup {e}]
                 \/ /\ \E lost \in SUBSET ({e} \ (capsule[c].engines \ Retired(c, e))) :
                          alive' = [alive EXCEPT ![c] = (alive[c] \ (Retired(c, e) \ stuck)) \cup (IF stuck = {} THEN lost ELSE {})]
                    /\ capsule' = [capsule EXCEPT ![c].at = "failed", ![c].error = TRUE,
                                                  ![c].engines = (capsule[c].engines \ Retired(c, e)) \cup stuck]
      BY DEF AcquireBrowser
    <2>2. Retired(c, e) \in SUBSET Engine
      BY <1>c DEF Retired
    <2>3. PICK retired \in SUBSET Engine : retired = Retired(c, e)
      BY <2>2
    <2> QED
      BY <2>1, <2>3
  <1>2. CASE /\ alive' = [alive EXCEPT ![c] = (alive[c] \ retired) \cup {e}]
             /\ capsule' = [capsule EXCEPT ![c].at = "spawn", ![c].engines = kept(retired) \cup {e}]
    <2> DEFINE x == [capsule[c] EXCEPT !.at = "spawn", !.engines = kept(retired) \cup {e}]
    <2>0. kept(retired) \cup {e} \in SUBSET Engine
      BY <1>c
    <2>1. /\ x \in CapsuleRow /\ x.at = "spawn" /\ x.dirty = capsule[c].dirty /\ x.error = capsule[c].error
          /\ x.engines = (capsule[c].engines \ retired) \cup {e} /\ x.owned = capsule[c].owned
      BY <1>c, <2>0 DEF CapsuleRow, Place
    <2>2. capsule' = [capsule EXCEPT ![c] = x]
      BY <1>2
    <2> HIDE DEF x
    <2>3. Accounted(x, (alive[c] \ retired) \cup {e})
      BY <1>c, <2>1 DEF Accounted, Known
    <2>4. (alive[c] \ retired) \cup {e} \in SUBSET Process
      BY <1>c
    <2> QED
      BY <1>2, <1>c, <2>1, <2>2, <2>3, <2>4, OneCapsule
  <1>3. CASE /\ \E lost \in SUBSET {e} : alive' = [alive EXCEPT ![c] = (alive[c] \ (retired \ stuck)) \cup lost]
             /\ capsule' = [capsule EXCEPT ![c].at = "failed", ![c].error = TRUE, ![c].engines = kept(retired) \cup stuck]
    <2>1. PICK ps \in SUBSET Process : alive' = [alive EXCEPT ![c] = ps]
      <3>1. PICK lost \in SUBSET {e} : alive' = [alive EXCEPT ![c] = (alive[c] \ (retired \ stuck)) \cup lost]
        BY <1>3
      <3>2. (alive[c] \ (retired \ stuck)) \cup lost \in SUBSET Process
        BY <1>c
      <3> QED
        BY <3>1, <3>2
    <2> DEFINE x == [capsule[c] EXCEPT !.at = "failed", !.error = TRUE, !.engines = kept(retired) \cup stuck]
    <2>0. kept(retired) \cup stuck \in SUBSET Engine
      BY <1>c
    <2>2. x \in CapsuleRow /\ x.at = "failed" /\ x.error
      BY <1>c, <2>0 DEF CapsuleRow, Place
    <2>3. capsule' = [capsule EXCEPT ![c] = x]
      BY <1>3
    <2> HIDE DEF x
    <2>4. Accounted(x, ps)
      BY <2>2 DEF Accounted
    <2> QED
      BY <1>c, <2>1, <2>2, <2>3, <2>4, OneCapsule
  <1> QED
    BY <1>1, <1>2, <1>3

\* A job, from the queue to the reset.
LEMMA JobSteps ==
    ASSUME CapsulesIInv, NEW c \in Capsule,
           TakeJob(c) \/ PathsFail(c) \/ SpawnTests(c) \/ Activate(c) \/ TestsExit(c) \/ TestsEnd(c) \/ ResetCapsule(c)
    PROVE  CapsulesIInv'
  <1>c. /\ capsule \in [Capsule -> CapsuleRow] /\ capsule[c] \in CapsuleRow /\ alive \in [Capsule -> SUBSET Process]
        /\ server \in [Capsule -> {"none", "booting", "serving", "exited"}]
        /\ {"first", "orchestrator", "tests"} \subseteq Process
        /\ Accounted(capsule[c], alive[c]) /\ (capsule[c].at \notin Quieted => main.at # "closing")
    BY CapsuleContext
  <1>u. UNCHANGED <<server, main>> /\ main.at # "closing"
    BY <1>c DEF TakeJob, PathsFail, SpawnTests, Activate, TestsExit, TestsEnd, ResetCapsule, At, Quieted
  <1>a. alive = [alive EXCEPT ![c] = alive[c]] /\ alive[c] \in SUBSET Process
    BY <1>c
  <1>f. CASE CapsuleFails(c) /\ UNCHANGED alive /\ capsule[c].at \notin Quieted
    BY <1>a, <1>c, <1>f, <1>u, FailStep
  \* The row of the capsule changes in these fields, its processes to ps.
  <1>s. ASSUME NEW x \in CapsuleRow, NEW ps \in SUBSET Process, capsule' = [capsule EXCEPT ![c] = x],
               alive' = [alive EXCEPT ![c] = ps], Accounted(x, ps)
        PROVE  CapsulesIInv'
    BY <1>c, <1>s, <1>u, OneCapsule
  <1>1. CASE TakeJob(c)
    <2>1. PICK n \in Nat : n = capsule[c].jobs + 1
      BY <1>c DEF CapsuleRow
    <2> DEFINE x == [capsule[c] EXCEPT !.at = "acquire", !.jobs = n]
    <2>2. /\ x \in CapsuleRow /\ x.at = "acquire" /\ x.dirty = capsule[c].dirty /\ x.error = capsule[c].error
          /\ x.engines = capsule[c].engines /\ x.owned = capsule[c].owned /\ capsule[c].at = "ready"
      BY <1>1, <1>c DEF CapsuleRow, Place, TakeJob, At
    <2>3. capsule' = [capsule EXCEPT ![c] = x] /\ alive' = alive
      BY <1>1, <2>1 DEF TakeJob
    <2> HIDE DEF x
    <2>4. Accounted(x, alive[c])
      BY <1>c, <2>2 DEF Accounted, Known
    <2> QED
      BY <1>a, <1>s, <2>2, <2>3, <2>4
  <1>2. CASE PathsFail(c)
    BY <1>2, <1>f DEF PathsFail, At, Quieted
  <1>3. CASE SpawnTests(c)
    <2>0. capsule[c].at = "spawn"
      BY <1>3 DEF SpawnTests, At
    <2>1. CASE Spawn(c, "tests") /\ capsule' = [capsule EXCEPT ![c].at = "spawned", ![c].dirty = TRUE]
      <3> DEFINE x == [capsule[c] EXCEPT !.at = "spawned", !.dirty = TRUE]
      <3>1. /\ x \in CapsuleRow /\ x.at = "spawned" /\ x.error = capsule[c].error
            /\ x.engines = capsule[c].engines /\ x.owned = capsule[c].owned
        BY <1>c DEF CapsuleRow, Place
      <3>2. capsule' = [capsule EXCEPT ![c] = x] /\ alive' = [alive EXCEPT ![c] = alive[c] \cup {"tests"}]
        BY <2>1 DEF Spawn
      <3> HIDE DEF x
      <3>3. Accounted(x, alive[c] \cup {"tests"}) /\ alive[c] \cup {"tests"} \in SUBSET Process
        BY <1>c, <2>0, <3>1 DEF Accounted, Known
      <3> QED
        BY <1>s, <3>1, <3>2, <3>3
    <2>2. CASE capsule' = [capsule EXCEPT ![c].at = "reset", ![c].error = TRUE] /\ UNCHANGED alive
      <3> DEFINE x == [capsule[c] EXCEPT !.at = "reset", !.error = TRUE]
      <3>1. x \in CapsuleRow /\ x.at = "reset" /\ x.error
        BY <1>c DEF CapsuleRow, Place
      <3>2. capsule' = [capsule EXCEPT ![c] = x] /\ alive' = alive
        BY <2>2
      <3> HIDE DEF x
      <3>3. Accounted(x, alive[c])
        BY <3>1 DEF Accounted
      <3> QED
        BY <1>a, <1>s, <3>1, <3>2, <3>3
    <2> QED
      BY <1>3, <2>1, <2>2 DEF SpawnTests
  <1>4. CASE Activate(c)
    <2> DEFINE x == [capsule[c] EXCEPT !.at = "tests", !.active = TRUE]
    <2>1. /\ x \in CapsuleRow /\ x.at = "tests" /\ x.error = capsule[c].error
          /\ x.engines = capsule[c].engines /\ x.owned = capsule[c].owned /\ capsule[c].at = "spawned"
      BY <1>4, <1>c DEF CapsuleRow, Place, Activate, At
    <2>2. PICK ps \in SUBSET alive[c] : alive' = [alive EXCEPT ![c] = ps]
      <3>1. PICK ps \in SUBSET alive[c] : ps = IF Stopped(c) THEN alive[c] \ {"tests"} ELSE alive[c]
        OBVIOUS
      <3> QED
        BY <1>4, <3>1 DEF Activate
    <2>3. capsule' = [capsule EXCEPT ![c] = x]
      BY <1>4 DEF Activate
    <2> HIDE DEF x
    <2>4. Accounted(x, ps) /\ ps \in SUBSET Process
      BY <1>c, <2>1 DEF Accounted, Known
    <2> QED
      BY <1>s, <2>1, <2>2, <2>3, <2>4
  <1>5. CASE TestsExit(c)
    <2>1. /\ capsule' = [capsule EXCEPT ![c] = capsule[c]] /\ alive' = [alive EXCEPT ![c] = alive[c] \ {"tests"}]
          /\ alive[c] \ {"tests"} \in SUBSET Process
      BY <1>5, <1>c DEF TestsExit
    <2>2. Accounted(capsule[c], alive[c] \ {"tests"})
      BY <1>c DEF Accounted
    <2> QED
      BY <1>c, <1>s, <2>1, <2>2
  <1>6. CASE TestsEnd(c)
    <2>1. PICK stuck \in SUBSET {"tests"} :
             /\ alive' = [alive EXCEPT ![c] = alive[c] \cup stuck]
             /\ capsule' = [capsule EXCEPT ![c].at = "reset", ![c].active = FALSE, ![c].error = capsule[c].error \/ stuck # {}]
      BY <1>6 DEF TestsEnd
    <2>2. PICK error \in BOOLEAN : error = (capsule[c].error \/ stuck # {})
      OBVIOUS
    <2> DEFINE x == [capsule[c] EXCEPT !.at = "reset", !.active = FALSE, !.error = error]
    <2>3. /\ x \in CapsuleRow /\ x.at = "reset" /\ x.error = error /\ x.engines = capsule[c].engines /\ x.owned = capsule[c].owned
          /\ capsule[c].at = "tests" /\ "tests" \notin alive[c]
      BY <1>6, <1>c DEF CapsuleRow, Place, TestsEnd, At
    <2>4. capsule' = [capsule EXCEPT ![c] = x]
      BY <2>1, <2>2
    <2> HIDE DEF x
    <2>5. ~ error => stuck = {} /\ ~ capsule[c].error
      BY <2>2
    <2>6. Accounted(x, alive[c] \cup stuck)
      BY <1>c, <2>3, <2>5 DEF Accounted, Known
    <2>7. alive[c] \cup stuck \in SUBSET Process
      BY <1>c
    <2> QED
      BY <1>s, <2>1, <2>3, <2>4, <2>6, <2>7
  <1>7. CASE ResetCapsule(c)
    <2>1. CASE CapsuleFails(c)
      BY <1>7, <1>f, <2>1 DEF ResetCapsule, At, Quieted
    <2>2. CASE capsule' = [capsule EXCEPT ![c].at = IF capsule[c].error THEN "failed" ELSE "ready", ![c].dirty = FALSE]
      <3>1. PICK at \in Place : at = IF capsule[c].error THEN "failed" ELSE "ready"
        BY DEF Place
      <3> DEFINE x == [capsule[c] EXCEPT !.at = at, !.dirty = FALSE]
      <3>2. /\ x \in CapsuleRow /\ x.at = at /\ ~ x.dirty /\ x.error = capsule[c].error /\ x.engines = capsule[c].engines
            /\ x.owned = capsule[c].owned /\ capsule[c].at = "reset" /\ alive' = alive
        BY <1>7, <1>c DEF CapsuleRow, ResetCapsule, At
      <3>3. capsule' = [capsule EXCEPT ![c] = x]
        BY <2>2, <3>1
      <3> HIDE DEF x
      <3>4. Accounted(x, alive[c])
        BY <1>c, <3>1, <3>2 DEF Accounted, Known
      <3> QED
        BY <1>a, <1>s, <3>2, <3>3, <3>4
    <2> QED
      BY <1>7, <2>1, <2>2 DEF ResetCapsule
  <1> QED
    BY <1>1, <1>2, <1>3, <1>4, <1>5, <1>6, <1>7

\* A stop, and the close of a capsule.
LEMMA CloseSteps ==
    ASSUME CapsulesIInv, NEW c \in Capsule, RequestStop(c) \/ StopActive(c) \/ CloseCapsule(c)
    PROVE  CapsulesIInv'
  <1>c. /\ capsule \in [Capsule -> CapsuleRow] /\ capsule[c] \in CapsuleRow /\ alive \in [Capsule -> SUBSET Process]
        /\ server \in [Capsule -> {"none", "booting", "serving", "exited"}]
        /\ Accounted(capsule[c], alive[c]) /\ (capsule[c].at \notin Quieted => main.at # "closing")
    BY CapsuleContext
  <1>1. CASE RequestStop(c) \/ StopActive(c)
    <2>1. PICK stop \in {"set", "swept"} : capsule' = [capsule EXCEPT ![c].stop = stop]
      BY <1>1 DEF RequestStop, StopActive
    <2>2. PICK ps \in SUBSET alive[c] : alive' = [alive EXCEPT ![c] = ps]
      <3>1. CASE RequestStop(c)
        BY <1>c, <3>1 DEF RequestStop
      <3>2. CASE StopActive(c)
        <4>1. PICK ps \in SUBSET alive[c] : ps = IF capsule[c].active THEN alive[c] \ {"tests"} ELSE alive[c]
          OBVIOUS
        <4> QED
          BY <3>2, <4>1 DEF StopActive
      <3> QED
        BY <1>1, <3>1, <3>2
    <2> DEFINE x == [capsule[c] EXCEPT !.stop = stop]
    <2>3. /\ x \in CapsuleRow /\ x.at = capsule[c].at /\ x.dirty = capsule[c].dirty /\ x.error = capsule[c].error
          /\ x.engines = capsule[c].engines /\ x.owned = capsule[c].owned
      BY <1>c DEF CapsuleRow
    <2>4. capsule' = [capsule EXCEPT ![c] = x]
      BY <2>1
    <2> HIDE DEF x
    <2>5. Accounted(x, ps) /\ ps \in SUBSET Process
      BY <1>c, <2>3 DEF Accounted, Known
    <2>6. UNCHANGED <<server, main>>
      BY <1>1 DEF RequestStop, StopActive
    <2> QED
      BY <1>c, <2>2, <2>3, <2>4, <2>5, <2>6, OneCapsule
  <1>2. CASE CloseCapsule(c)
    <2>1. PICK stuck \in SUBSET (Services(c) \cap alive[c]), files \in BOOLEAN :
             /\ CloseAll(c, Services(c), stuck)
             /\ capsule' = [capsule EXCEPT ![c].at = "closed", ![c].error = capsule[c].error \/ stuck # {} \/ ~ files]
      BY <1>2 DEF CloseCapsule
    <2>2. main' = main /\ main.at = "closing" /\ capsule[c].at \in {"ready", "failed"}
      BY <1>2, <1>c DEF CloseCapsule, Quieted
    <2>3. PICK error \in BOOLEAN : error = (capsule[c].error \/ stuck # {} \/ ~ files)
      OBVIOUS
    <2> DEFINE x == [capsule[c] EXCEPT !.at = "closed", !.error = error]
    <2>4. x \in CapsuleRow /\ x.at = "closed" /\ x.error = error
      BY <1>c DEF CapsuleRow, Place
    <2>5. capsule' = [capsule EXCEPT ![c] = x]
      BY <2>1, <2>3
    <2> HIDE DEF x
    <2>6. PICK ps \in SUBSET Process :
             /\ ps = alive[c] \ (Services(c) \ stuck) /\ alive' = [alive EXCEPT ![c] = ps]
             /\ server' \in [Capsule -> {"none", "booting", "serving", "exited"}]
      <3>1. PICK svc : svc = Services(c)
        OBVIOUS
      <3>2. CloseAll(c, svc, stuck)
        BY <2>1, <3>1
      <3>3. /\ alive[c] \ (svc \ stuck) \in SUBSET Process /\ alive' = [alive EXCEPT ![c] = alive[c] \ (svc \ stuck)]
            /\ server' \in [Capsule -> {"none", "booting", "serving", "exited"}]
        BY <3>2, CloseFacts
      <3> QED
        BY <3>1, <3>3
    <2>7. ~ error => ps = {}
      <3> SUFFICES ASSUME ~ error PROVE ps = {}
        OBVIOUS
      <3>1. stuck = {} /\ ~ capsule[c].error
        BY <2>3
      <3>2. capsule[c].at = "ready" /\ capsule[c].owned /\ alive[c] \subseteq capsule[c].engines \cup {"orchestrator"}
        BY <1>c, <2>2, <3>1 DEF Accounted, Known
      <3> QED
        BY <2>6, <3>1, <3>2 DEF Services
    <2>8. Accounted(x, ps)
      BY <2>4, <2>7 DEF Accounted
    <2>9. x.at \in Quieted
      BY <2>4 DEF Quieted
    <2> QED
      BY <2>2, <2>4, <2>5, <2>6, <2>8, <2>9, OneCapsule
  <1> QED
    BY <1>1, <1>2

\* The main thread goes on, a server boots or exits: the capsules stay.
LEMMA MainSteps ==
    ASSUME CapsulesIInv, PoolStarts \/ Ended \/ Halt \/ (\E c \in Capsule : Boots(c)) \/ UNCHANGED capsuleVars
    PROVE  CapsulesIInv'
  <1>t. /\ CapsulesTypeOK /\ (\A c \in Capsule : Accounted(capsule[c], alive[c]))
        /\ main.at = "closing" => \A c \in Capsule : capsule[c].at \in Quieted
    BY DEF CapsulesIInv
  <1>1. UNCHANGED <<capsule, alive>>
    BY DEF PoolStarts, Ended, Halt, Boots, capsuleVars
  <1>2. server' \in [Capsule -> {"none", "booting", "serving", "exited"}]
    BY <1>t DEF PoolStarts, Ended, Halt, Boots, capsuleVars, CapsulesTypeOK
  <1>3. /\ main' \in [at : {"starting", "pool", "closing"}, halt : BOOLEAN]
        /\ main'.at = "closing" => main.at = "closing" \/ Quiet
    BY <1>t DEF PoolStarts, Ended, Halt, Boots, capsuleVars, CapsulesTypeOK
  <1>4. CapsulesTypeOK'
    BY <1>1, <1>2, <1>3, <1>t DEF CapsulesTypeOK
  <1>5. main'.at = "closing" => \A c \in Capsule : capsule'[c].at \in Quieted
    BY <1>1, <1>3, <1>t DEF Quiet, Quieted
  <1> QED
    BY <1>1, <1>4, <1>5, <1>t DEF CapsulesIInv

\* CapsulesIInv is inductive.
LEMMA NextCapsulesIInv == CapsulesIInv /\ [CapsulesNext]_capsuleVars => CapsulesIInv'
  <1> SUFFICES ASSUME CapsulesIInv, [CapsulesNext]_capsuleVars PROVE CapsulesIInv'
    OBVIOUS
  <1>1. ASSUME NEW c \in Capsule, StartStep(c) PROVE CapsulesIInv'
    BY <1>1, StartSteps, ServicesFailStep DEF StartStep
  <1>2. ASSUME NEW c \in Capsule, TakeJob(c) \/ JobStep(c) \/ TestsExit(c) PROVE CapsulesIInv'
    BY <1>2, AcquireStep, JobSteps DEF JobStep
  <1>3. ASSUME NEW c \in Capsule, RequestStop(c) \/ StopActive(c) \/ CloseCapsule(c) PROVE CapsulesIInv'
    BY <1>3, CloseSteps
  <1>4. CASE PoolStarts \/ Ended \/ Halt \/ (\E c \in Capsule : Boots(c)) \/ UNCHANGED capsuleVars
    BY <1>4, MainSteps
  <1> QED
    BY <1>1, <1>2, <1>3, <1>4 DEF CapsulesNext, MainStep

\* A capsule without an error has a handle of each of its processes, for any
\* number of capsules, ports and jobs.
THEOREM CapsulesInductive == CapsulesSpec => []CapsulesIInv
  BY InitCapsulesIInv, NextCapsulesIInv, PTL DEF CapsulesSpec

\* Threads, processes, servers and the main thread are what they may be.
THEOREM CapsulesTypeCorrect == CapsulesSpec => []CapsulesTypeOK
  <1>1. CapsulesIInv => CapsulesTypeOK
    BY DEF CapsulesIInv
  <1> QED
    BY CapsulesInductive, <1>1, PTL

\* A job finds a clean database, and a process that outlives its capsule comes
\* with an error of a start, a job or the close.
THEOREM ProcessesAreAccountedFor == CapsulesSpec => []NothingLeftSilently
  <1>1. CapsulesIInv => NothingLeftSilently
    <2> SUFFICES ASSUME CapsulesIInv, NEW c \in Capsule
                 PROVE  /\ At(c, "acquire") \/ At(c, "spawn") => ~ capsule[c].dirty
                        /\ At(c, "closed") /\ alive[c] # {} => capsule[c].error
      BY DEF NothingLeftSilently
    <2>1. Accounted(capsule[c], alive[c])
      BY DEF CapsulesIInv
    <2> QED
      BY <2>1 DEF Accounted, Known, At
  <1> QED
    BY CapsulesInductive, <1>1, PTL
============================================================================
