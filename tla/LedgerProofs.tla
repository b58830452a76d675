--------------------------- MODULE LedgerProofs ---------------------------
(***************************************************************************)
(* Proofs about the ledger's rows.                                         *)
(*                                                                         *)
(* PatchMerge, for every number of clients, imports, columns, values and   *)
(* versions: no edit is lost.  Categories, for any number of editors,      *)
(* categories and transactions: a transaction's category exists and has    *)
(* its flow, and one source_ref names one transaction.  LedgerOrder, for   *)
(* any number of writers and rows: inserts land beside their anchor, rows  *)
(* keep their order and paging reads each once.  LedgerTransfer, for any   *)
(* source, package and members: an applied package is the exported ledger. *)
(***************************************************************************)
EXTENDS PatchMerge, Categories, LedgerOrder, LedgerTransfer, FiniteSetTheorems, SequenceTheorems, TLAPS

---------------------------------------------------------------------------
(* PatchMerge                                                              *)


\* The request that loaded the row holds its lock and works on the row as it
\* is; nobody else does.
LockInv ==
    /\ \A c \in Client : cache[c] # NoCopy => holder = c
    /\ \A c \in Client : Loaded(c) => /\ holder = c
                                      /\ live
                                      /\ cache[c] = [version |-> version, val |-> val]
    /\ holder # NoOne => holder \in Client /\ Loaded(holder)

\* The log never names a version the row has not reached, views and copies
\* never lie ahead of it, and a copy of the current version is the row.
VersionInv ==
    /\ version >= 1
    /\ ~ overrun =>
        /\ \A e \in log : e.res <= version
        /\ \A e, g \in log : e.res = g.res => e = g
        /\ \A c \in Client : view[c] <= version

\* What a complete log says about a stale view.
CoverInv ==
    ~ overrun =>
        \A c \in Client :
          (live /\ view[c] > 0 /\ view[c] + 1 .. version \subseteq CoveredSince(view[c]))
             => touched[c] \subseteq ChangedSince(view[c])

\* The inductive invariant.
IInv == TypeOK /\ LockInv /\ VersionInv /\ CoverInv

---------------------------------------------------------------------------
\* NoCopy is a copy; merging two rows gives a row.
LEMMA RowTypes ==
    /\ NoCopy \in Copy
    /\ NoCopy.version = 0
    /\ \A r, new \in Row, F \in SUBSET Field : Merge(r, F, new) \in Row
  <1>1. (CHOOSE v \in Value : TRUE) \in Value
    BY ConstAssumption
  <1>2. NoCopy \in Copy /\ NoCopy.version = 0
    BY <1>1, ConstAssumption DEF NoCopy, Copy, Version, Row
  <1>3. \A r, new \in Row, F \in SUBSET Field : Merge(r, F, new) \in Row
    BY DEF Merge, Row
  <1> QED
    BY <1>2, <1>3

\* The initial states satisfy the inductive invariant.
LEMMA InitIInv == Init => IInv
  <1> SUFFICES ASSUME Init PROVE IInv
    OBVIOUS
  <1> USE DEF Init
  <1>1. TypeOK
    <2>1. val \in Row
      OBVIOUS
    <2>2. version \in Version /\ view \in [Client -> Version]
      BY ConstAssumption DEF Version
    <2>3. cache \in [Client -> Copy] /\ snap \in [Importer -> Copy]
      BY RowTypes
    <2>4. touched \in [Client -> SUBSET Field] /\ log \in SUBSET LogEntry
      OBVIOUS
    <2> QED
      BY <2>1, <2>2, <2>3, <2>4 DEF TypeOK
  <1>2. LockInv
    BY RowTypes, ConstAssumption DEF LockInv, Loaded
  <1>3. VersionInv
    BY DEF VersionInv
  <1>4. CoverInv
    BY DEF CoverInv
  <1> QED
    BY <1>1, <1>2, <1>3, <1>4 DEF IInv

\* Every step preserves the types.
LEMMA TypeStep == IInv /\ [Next]_vars => TypeOK'
  <1> SUFFICES ASSUME IInv, [Next]_vars PROVE TypeOK'
    OBVIOUS
  <1> USE ConstAssumption, RowTypes DEF IInv, TypeOK, Version
  <1>1. ASSUME NEW c \in Client, LoadRow(c) PROVE TypeOK'
    BY <1>1 DEF LoadRow
  <1>2. ASSUME NEW c \in Client, LockRow(c) PROVE TypeOK'
    BY <1>2 DEF LockRow, Copy
  <1>3. ASSUME NEW c \in Client, PatchRejected(c) PROVE TypeOK'
    BY <1>3 DEF PatchRejected, EndRequest
  <1>4. ASSUME NEW c \in Client, PatchNoop(c) PROVE TypeOK'
    BY <1>4 DEF PatchNoop, EndRequest
  <1>5. ASSUME NEW c \in Client, NEW F \in SUBSET Field, NEW new \in Row,
               PatchConflict(c, F, new)
        PROVE  TypeOK'
    BY <1>5 DEF PatchConflict, EndRequest
  <1>6. ASSUME NEW c \in Client, NEW F \in SUBSET Field, NEW new \in Row,
               PatchApply(c, F, new)
        PROVE  TypeOK'
    <2> DEFINE eff == EffectiveFields(cache[c].val, F, new)
    <2>1. eff \in SUBSET Field
      BY DEF EffectiveFields
    <2>2. cache[c].version + 1 \in 0 .. MaxVersion
      BY <1>6 DEF PatchApply, Copy
    <2>3. [res |-> cache[c].version + 1, fields |-> eff] \in LogEntry
      BY <2>1, <2>2 DEF LogEntry
    <2>4. Merge(val, eff, new) \in Row
      BY <2>1
    <2> HIDE DEF eff
    <2> QED
      BY <1>6, <2>1, <2>2, <2>3, <2>4 DEF PatchApply, EndRequest, TouchAll, eff
  <1>7. ASSUME NEW c \in Client, NEW new \in Row, RemapOwner(c, new) PROVE TypeOK'
    <2> DEFINE eff == EffectiveFields(cache[c].val, OwnerField, new)
    <2>1. eff \in SUBSET Field
      BY DEF EffectiveFields
    <2>2. cache[c].version + 1 \in 0 .. MaxVersion
      BY <1>7 DEF RemapOwner, Copy
    <2>3. [res |-> cache[c].version + 1, fields |-> eff] \in LogEntry
      BY <2>1, <2>2 DEF LogEntry
    <2>4. Merge(val, eff, new) \in Row
      BY <2>1
    <2> HIDE DEF eff
    <2> QED
      BY <1>7, <2>1, <2>2, <2>3, <2>4 DEF RemapOwner, EndRequest, TouchAll, eff
  <1>8. ASSUME NEW i \in Importer, ImportLoad(i) PROVE TypeOK'
    BY <1>8 DEF ImportLoad, Copy
  <1>9. ASSUME NEW i \in Importer, NEW new \in Row, ImportWrite(i, new) PROVE TypeOK'
    <2> DEFINE eff == EffectiveFields(snap[i].val, Field, new)
    <2>1. eff \in SUBSET Field
      BY DEF EffectiveFields
    <2>2. snap[i].version + 1 \in 0 .. MaxVersion
      BY <1>9 DEF ImportWrite, Copy
    <2>3. Merge(val, eff, new) \in Row
      BY <2>1
    <2> HIDE DEF eff
    <2> QED
      BY <1>9, <2>1, <2>2, <2>3 DEF ImportWrite, TouchAll, eff
  <1>10. ASSUME NEW i \in Importer, ImportAbort(i) PROVE TypeOK'
    BY <1>10 DEF ImportAbort
  <1>11. CASE DeleteRow
    BY <1>11 DEF DeleteRow
  <1>12. CASE ReplaceRows
    BY <1>12 DEF ReplaceRows
  <1>13. CASE UNCHANGED vars
    BY <1>13 DEF vars
  <1> QED
    BY <1>1, <1>2, <1>3, <1>4, <1>5, <1>6, <1>7, <1>8, <1>9, <1>10, <1>11, <1>12, <1>13
       DEF Next, ClientStep, ImportStep

\* Every step preserves the exclusivity and freshness of the locked row.
LEMMA LockStep == IInv /\ [Next]_vars => LockInv'
  <1> SUFFICES ASSUME IInv, [Next]_vars PROVE LockInv'
    OBVIOUS
  <1> USE ConstAssumption, RowTypes DEF IInv, TypeOK, LockInv, Loaded
  <1>1. ASSUME NEW c \in Client, LoadRow(c) PROVE LockInv'
    BY <1>1 DEF LoadRow
  <1>2. ASSUME NEW c \in Client, LockRow(c) PROVE LockInv'
    <2>1. version > 0
      BY DEF VersionInv, Version
    <2> QED
      BY <1>2, <2>1 DEF LockRow
  <1>3. ASSUME NEW c \in Client, Loaded(c), EndRequest(c) PROVE LockInv'
    BY <1>3 DEF EndRequest
  <1>4. ASSUME NEW i \in Importer, ImportLoad(i) \/ ImportAbort(i) PROVE LockInv'
    BY <1>4 DEF ImportLoad, ImportAbort
  <1>5. ASSUME NEW i \in Importer, NEW new \in Row, ImportWrite(i, new) PROVE LockInv'
    BY <1>5 DEF ImportWrite
  <1>6. CASE DeleteRow \/ ReplaceRows
    BY <1>6 DEF DeleteRow, ReplaceRows
  <1>7. CASE UNCHANGED vars
    BY <1>7 DEF vars
  <1>8. ASSUME NEW c \in Client,
               \/ PatchRejected(c) \/ PatchNoop(c)
               \/ \E F \in SUBSET Field, new \in Row :
                     PatchConflict(c, F, new) \/ PatchApply(c, F, new)
               \/ \E new \in Row : RemapOwner(c, new)
        PROVE  LockInv'
    <2>1. Loaded(c) /\ EndRequest(c)
      BY <1>8 DEF PatchRejected, PatchNoop, PatchConflict, PatchApply, RemapOwner
    <2> QED
      BY <1>3, <2>1
  <1> QED
    BY <1>1, <1>2, <1>4, <1>5, <1>6, <1>7, <1>8 DEF Next, ClientStep, ImportStep

\* The two ways a step can commit a logged write: what it leaves alone is all
\* that the version and cover invariants need to know about it.
LoggedWrite(c, F) ==
    /\ Loaded(c)
    /\ version' = version + 1
    /\ log' = log \cup {[res |-> version + 1, fields |-> F]}
    /\ F \in SUBSET Field
    /\ \A d \in Client :
         \/ view'[d] = view[d] /\ touched'[d] = touched[d] \cup F
         \/ view'[d] = version + 1 /\ touched'[d] = {}
    /\ overrun' = overrun
    /\ live' = live

\* An accepted patch and a remap are logged writes.
LEMMA WritesAreLogged ==
    ASSUME IInv, NEW c \in Client, NEW new \in Row
    PROVE  /\ \A F \in SUBSET Field :
                PatchApply(c, F, new) => LoggedWrite(c, EffectiveFields(cache[c].val, F, new))
           /\ RemapOwner(c, new) => LoggedWrite(c, EffectiveFields(cache[c].val, OwnerField, new))
  <1> USE ConstAssumption DEF IInv, TypeOK, LockInv
  <1>1. Loaded(c) => cache[c].version = version
    OBVIOUS
  <1>2. ASSUME NEW F \in SUBSET Field, PatchApply(c, F, new)
        PROVE  LoggedWrite(c, EffectiveFields(cache[c].val, F, new))
    <2> DEFINE eff == EffectiveFields(cache[c].val, F, new)
    <2>1. eff \in SUBSET Field
      BY DEF EffectiveFields
    <2> HIDE DEF eff
    <2> QED
      BY <1>1, <1>2, <2>1 DEF PatchApply, LoggedWrite, TouchAll, eff
  <1>3. ASSUME RemapOwner(c, new)
        PROVE  LoggedWrite(c, EffectiveFields(cache[c].val, OwnerField, new))
    <2> DEFINE eff == EffectiveFields(cache[c].val, OwnerField, new)
    <2>1. eff \in SUBSET Field
      BY DEF EffectiveFields
    <2>2. /\ Loaded(c)
          /\ version' = cache[c].version + 1
          /\ log' = log \cup {[res |-> cache[c].version + 1, fields |-> eff]}
          /\ touched' = TouchAll(eff)
          /\ UNCHANGED <<live, view, overrun>>
      BY <1>3 DEF RemapOwner
    <2> HIDE DEF eff
    <2>3. \A d \in Client : touched'[d] = touched[d] \cup eff
      BY <2>2 DEF TouchAll
    <2>4. LoggedWrite(c, eff)
      BY <1>1, <2>1, <2>2, <2>3 DEF LoggedWrite
    <2> QED
      BY <2>4 DEF eff
  <1> QED
    BY <1>2, <1>3

\* Every step keeps log, views and versions in step with one another.
LEMMA VersionStep == IInv /\ [Next]_vars => VersionInv'
  <1> SUFFICES ASSUME IInv, [Next]_vars PROVE VersionInv'
    OBVIOUS
  <1> USE DEF IInv, TypeOK, VersionInv, Version
  <1>1. ASSUME NEW c \in Client, LoadRow(c) \/ PatchNoop(c) PROVE VersionInv'
    BY <1>1, ConstAssumption DEF LoadRow, PatchNoop
  <1>2. ASSUME NEW c \in Client, LockRow(c) \/ PatchRejected(c) PROVE VersionInv'
    BY <1>2 DEF LockRow, PatchRejected
  <1>3. ASSUME NEW c \in Client, NEW F \in SUBSET Field, NEW new \in Row,
               PatchConflict(c, F, new)
        PROVE  VersionInv'
    BY <1>3 DEF PatchConflict
  <1>4. ASSUME NEW c \in Client, NEW F, LoggedWrite(c, F) PROVE VersionInv'
    <2>1. \A e \in log : e.res \in Int
      BY DEF LogEntry
    <2> QED
      BY <1>4, <2>1, ConstAssumption DEF LoggedWrite
  <1>5. ASSUME NEW i \in Importer, ImportLoad(i) \/ ImportAbort(i) PROVE VersionInv'
    BY <1>5 DEF ImportLoad, ImportAbort
  <1>6. ASSUME NEW i \in Importer, NEW new \in Row, ImportWrite(i, new) PROVE VersionInv'
    <2>1. \A e \in log : e.res \in Int
      BY DEF LogEntry
    <2>2. /\ snap[i].version \in 1 .. MaxVersion - 1
          /\ version' = snap[i].version + 1
          /\ log' = log
          /\ view' = view
      BY <1>6 DEF ImportWrite
    <2>3. overrun' = (overrun \/ snap[i].version # version)
      BY <1>6 DEF ImportWrite
    <2>4. ~ overrun' => ~ overrun /\ snap[i].version = version
      BY <2>3
    <2> QED
      BY <2>1, <2>2, <2>4, ConstAssumption
  <1>7. CASE DeleteRow \/ ReplaceRows
    BY <1>7 DEF DeleteRow, ReplaceRows
  <1>8. CASE UNCHANGED vars
    BY <1>8 DEF vars
  <1> QED
    BY <1>1, <1>2, <1>3, <1>4, <1>5, <1>6, <1>7, <1>8, WritesAreLogged
       DEF Next, ClientStep, ImportStep

\* Every step keeps the log complete with respect to the stale views.
LEMMA CoverStep == IInv /\ [Next]_vars => CoverInv'
  <1> SUFFICES ASSUME IInv, [Next]_vars PROVE CoverInv'
    OBVIOUS
  <1> USE DEF IInv
  <1>1. ASSUME NEW c \in Client, LoadRow(c) \/ PatchNoop(c) PROVE CoverInv'
    <2>1. /\ log' = log /\ version' = version /\ overrun' = overrun /\ live' = live
          /\ \A d \in Client : \/ d = c /\ touched'[d] = {}
                               \/ view'[d] = view[d] /\ touched'[d] = touched[d]
      BY <1>1 DEF LoadRow, PatchNoop, TypeOK
    <2> QED
      BY <2>1 DEF CoverInv, CoveredSince, ChangedSince, LoggedSince
  <1>2. ASSUME UNCHANGED <<live, version, log, view, touched, overrun>> PROVE CoverInv'
    BY <1>2 DEF CoverInv, CoveredSince, ChangedSince, LoggedSince
  <1>3. ASSUME NEW c \in Client, NEW F, LoggedWrite(c, F) PROVE CoverInv'
    <2> SUFFICES ASSUME ~ overrun', NEW d \in Client, live', view'[d] > 0,
                        (view[d] + 1 .. version \subseteq CoveredSince(view[d]))',
                        view'[d] = view[d], touched'[d] = touched[d] \cup F
                 PROVE  touched'[d] \subseteq ChangedSince(view[d])'
      BY <1>3 DEF CoverInv, LoggedWrite
    <2>1. /\ version \in Int /\ view[d] \in Int /\ view[d] <= version
          /\ version' = version + 1 /\ ~ overrun /\ live
          /\ log' = log \cup {[res |-> version + 1, fields |-> F]}
      BY <1>3, ConstAssumption DEF LoggedWrite, TypeOK, Version, VersionInv
    <2>2. ASSUME NEW v \in view[d] + 1 .. version PROVE v \in CoveredSince(view[d])
      <3>1. v \in CoveredSince(view[d])'
        BY <2>1, <2>2
      <3>2. PICK e \in log' : e.res > view[d] /\ e.res = v
        BY <3>1 DEF CoveredSince, LoggedSince
      <3>3. e \in log
        BY <2>1, <2>2, <3>2
      <3> QED
        BY <3>2, <3>3 DEF CoveredSince, LoggedSince
    <2>3. touched[d] \subseteq ChangedSince(view[d])
      BY <2>1, <2>2 DEF CoverInv
    <2>4. ChangedSince(view[d]) \subseteq ChangedSince(view[d])'
      BY <2>1 DEF ChangedSince, LoggedSince
    <2>5. F \subseteq ChangedSince(view[d])'
      <3>1. [res |-> version + 1, fields |-> F] \in LoggedSince(view[d])'
        BY <2>1 DEF LoggedSince
      <3> QED
        BY <3>1 DEF ChangedSince
    <2> QED
      BY <2>3, <2>4, <2>5
  <1>4. ASSUME NEW i \in Importer, NEW new \in Row, ImportWrite(i, new) PROVE CoverInv'
    <2> SUFFICES ASSUME ~ overrun', NEW d \in Client
                 PROVE  ~ (view[d] + 1 .. version \subseteq CoveredSince(view[d]))'
      BY DEF CoverInv
    <2>1. overrun' = (overrun \/ snap[i].version # version)
      BY <1>4 DEF ImportWrite
    <2>2. /\ ~ overrun /\ snap[i].version = version
          /\ version' = snap[i].version + 1 /\ log' = log /\ view' = view
      BY <1>4, <2>1 DEF ImportWrite
    <2>3. version \in Int /\ view[d] \in Int /\ view[d] <= version
      BY <2>2, ConstAssumption DEF TypeOK, Version, VersionInv
    <2>4. version + 1 \in (view[d] + 1 .. version)'
      BY <2>2, <2>3
    <2>5. version + 1 \notin CoveredSince(view[d])'
      <3>1. \A e \in log : e.res \in Int /\ e.res <= version
        BY <2>2, ConstAssumption DEF TypeOK, LogEntry, Version, VersionInv
      <3> QED
        BY <2>2, <2>3, <3>1 DEF CoveredSince, LoggedSince
    <2> QED
      BY <2>4, <2>5
  <1>5. CASE DeleteRow \/ ReplaceRows
    BY <1>5 DEF DeleteRow, ReplaceRows, CoverInv
  <1>6. CASE UNCHANGED vars
    BY <1>2, <1>6 DEF vars
  <1>7. ASSUME NEW c \in Client,
               \/ LockRow(c) \/ PatchRejected(c)
               \/ \E F \in SUBSET Field, new \in Row : PatchConflict(c, F, new)
        PROVE  CoverInv'
    BY <1>2, <1>7 DEF LockRow, PatchRejected, PatchConflict
  <1>8. ASSUME NEW i \in Importer, ImportLoad(i) \/ ImportAbort(i) PROVE CoverInv'
    BY <1>2, <1>8 DEF ImportLoad, ImportAbort
  <1> QED
    BY <1>1, <1>3, <1>4, <1>5, <1>6, <1>7, <1>8, WritesAreLogged
       DEF Next, ClientStep, ImportStep

\* IInv is an invariant of the specification.
THEOREM Invariance == Spec => []IInv
  <1>1. Init => IInv
    BY InitIInv
  <1>2. IInv /\ [Next]_vars => IInv'
    BY TypeStep, LockStep, VersionStep, CoverStep DEF IInv
  <1> QED
    BY <1>1, <1>2, PTL DEF Spec

\* Every variable keeps its type, for every choice of the constants.
THEOREM TypeCorrect == Spec => []TypeOK
  <1>1. IInv => TypeOK
    BY DEF IInv
  <1> QED
    BY <1>1, Invariance, PTL

\* The patch log explains every version an edit may be based on, as long as
\* no import overran a version it had not loaded.
THEOREM LogCorrect == Spec => []LogExplainsVersions
  <1>1. IInv => LogExplainsVersions
    BY DEF IInv, VersionInv, CoverInv, LogExplainsVersions
  <1> QED
    BY <1>1, Invariance, PTL

---------------------------------------------------------------------------
\* While no import has overrun, the only step that changes the row under a
\* loaded request and moves its client's view along is the client's own patch.
LEMMA OnlyOwnPatch ==
    ASSUME IInv, Next, ~ overrun, NEW c \in Client, Loaded(c),
           version' # version, view'[c] = version'
    PROVE  \E F \in SUBSET Field, new \in Row : PatchApply(c, F, new)
  <1> USE DEF IInv
  <1>1. /\ version \in Int /\ view[c] \in Int /\ view[c] <= version
        /\ holder = c /\ holder # NoOne
    BY ConstAssumption DEF TypeOK, Version, VersionInv, LockInv
  <1>2. \A d \in Client : Loaded(d) => d = c
    BY <1>1 DEF LockInv
  <1>3. ~ (\E i \in Importer : ImportStep(i)) /\ ~ DeleteRow /\ ~ ReplaceRows
    BY <1>1 DEF ImportStep, ImportLoad, ImportWrite, ImportAbort, DeleteRow, ReplaceRows
  <1>4. PICK d \in Client : ClientStep(d)
    BY <1>3 DEF Next
  <1>5. \/ \E F \in SUBSET Field, new \in Row : PatchApply(d, F, new)
        \/ \E new \in Row : RemapOwner(d, new)
    BY <1>4 DEF ClientStep, LoadRow, LockRow, PatchRejected, PatchNoop, PatchConflict
  <1>6. d = c
    BY <1>2, <1>5 DEF PatchApply, RemapOwner
  <1>7. ASSUME NEW new \in Row, RemapOwner(c, new) PROVE FALSE
    <2>1. view' = view /\ LoggedWrite(c, EffectiveFields(cache[c].val, OwnerField, new))
      BY <1>7, WritesAreLogged DEF RemapOwner
    <2> QED
      BY <1>1, <2>1 DEF LoggedWrite
  <1> QED
    BY <1>5, <1>6, <1>7

\* An accepted patch changes no column that somebody else changed since its
\* client loaded the row, for any number of clients, columns and versions, as
\* long as no import overran a version it had not loaded.
THEOREM PatchesAreSafe == Spec => NoSilentOverwrite
  <1>1. ASSUME IInv, [Next]_vars, NEW c \in Client, ~ overrun, Loaded(c),
               version' # version, view'[c] = version'
        PROVE  Changed \cap touched[c] = {}
    <2> USE DEF IInv
    <2>1. Next
      BY <1>1 DEF vars
    <2>2. PICK F \in SUBSET Field, new \in Row : PatchApply(c, F, new)
      BY <1>1, <2>1, OnlyOwnPatch
    <2> DEFINE eff == EffectiveFields(cache[c].val, F, new)
    <2>3. /\ cache[c].version = version /\ live
          /\ version \in Int /\ view[c] \in Int /\ view[c] <= version /\ view[c] > 0
      BY <1>1, <2>2, ConstAssumption
         DEF TypeOK, Version, VersionInv, LockInv, PatchApply
    <2>4. ~ MergeConflict(view[c], version, eff) /\ val' = Merge(val, eff, new)
      BY <2>2, <2>3 DEF PatchApply
    <2> HIDE DEF eff
    <2>5. Changed \subseteq eff
      BY <2>4 DEF Changed, Merge, TypeOK, Row
    <2>6. view[c] + 1 .. version \subseteq CoveredSince(view[c])
      BY <2>3, <2>4 DEF MergeConflict
    <2>7. touched[c] \subseteq ChangedSince(view[c])
      BY <1>1, <2>3, <2>6 DEF CoverInv
    <2>8. CASE view[c] = version
      <3>1. \A e \in log : e.res \in Int /\ e.res <= version
        BY <1>1, ConstAssumption DEF TypeOK, LogEntry, Version, VersionInv
      <3>2. LoggedSince(view[c]) = {}
        BY <2>3, <2>8, <3>1 DEF LoggedSince
      <3>3. ChangedSince(view[c]) = {}
        BY <3>2 DEF ChangedSince
      <3> QED
        BY <2>7, <3>3
    <2>9. CASE view[c] < version
      <3>1. eff \cap ChangedSince(view[c]) = {}
        BY <2>4, <2>9 DEF MergeConflict
      <3> QED
        BY <2>5, <2>7, <3>1
    <2> QED
      BY <2>3, <2>8, <2>9
  <1>2. IInv /\ [Next]_vars =>
          [\A c \in Client :
             (/\ ~ overrun
              /\ Loaded(c)
              /\ version' # version
              /\ view'[c] = version') => Changed \cap touched[c] = {}]_vars
    BY <1>1
  <1> QED
    BY <1>2, Invariance, PTL DEF Spec, NoSilentOverwrite

\* Two contents of the row never share a version unless an import overran.
THEOREM VersionsNameContents == Spec => VersionNamesContent
  <1>1. ASSUME IInv, [Next]_vars, val' # val, ~ overrun'
        PROVE  version' = version + 1
    <2>1. Next
      BY <1>1 DEF vars
    <2>2. \/ \E c \in Client, new \in Row, F \in SUBSET Field : PatchApply(c, F, new)
          \/ \E c \in Client, new \in Row : RemapOwner(c, new)
          \/ \E i \in Importer, new \in Row : ImportWrite(i, new)
      BY <1>1, <2>1
         DEF Next, ClientStep, ImportStep, LoadRow, LockRow, PatchRejected, PatchNoop,
             PatchConflict, ImportLoad, ImportAbort, DeleteRow, ReplaceRows
    <2>3. ASSUME NEW i \in Importer, NEW new \in Row, ImportWrite(i, new)
          PROVE  version' = version + 1
      <3>1. overrun' = (overrun \/ snap[i].version # version)
        BY <2>3 DEF ImportWrite
      <3> QED
        BY <1>1, <2>3, <3>1 DEF ImportWrite
    <2> QED
      BY <1>1, <2>2, <2>3, WritesAreLogged DEF LoggedWrite
  <1>2. IInv /\ [Next]_vars => [(val' # val /\ ~ overrun') => version' = version + 1]_vars
    BY <1>1
  <1> QED
    BY <1>2, Invariance, PTL DEF Spec, VersionNamesContent

\* The cross-field checks hold of every committed version of a row that
\* imports do not rewrite.
THEOREM RowsStayValid == Spec => []RowStaysValid
  <1>1. Init => RowStaysValid
    BY DEF Init, RowStaysValid
  <1>2. ASSUME IInv, RowStaysValid, [Next]_vars, Importer = {} PROVE ValidRow(val')
    <2> USE <1>2 DEF IInv
    <2>1. ValidRow(val) /\ val \in Row
      BY DEF RowStaysValid, TypeOK
    <2>2. ASSUME NEW c \in Client, NEW F \in SUBSET Field, NEW new \in Row,
                 PatchApply(c, F, new)
          PROVE  ValidRow(val')
      <3>1. /\ ValidRow(Merge(cache[c].val, F, new))
            /\ val' = Merge(val, EffectiveFields(cache[c].val, F, new), new)
            /\ Loaded(c)
        BY <2>2 DEF PatchApply
      <3>2. cache[c].val = val
        BY <3>1 DEF LockInv
      <3>3. Merge(val, EffectiveFields(val, F, new), new) = Merge(val, F, new)
        BY <2>1 DEF Merge, EffectiveFields, Row
      <3> QED
        BY <3>1, <3>2, <3>3
    <2>3. ASSUME NEW c \in Client, NEW new \in Row, RemapOwner(c, new) PROVE ValidRow(val')
      <3>1. val' = Merge(val, EffectiveFields(cache[c].val, OwnerField, new), new)
        BY <2>3 DEF RemapOwner
      <3>2. EffectiveFields(cache[c].val, OwnerField, new) \subseteq OwnerField
        BY DEF EffectiveFields
      <3>3. val' \in Row /\ \A f \in Field \ OwnerField : val[f] = val'[f]
        BY <2>1, <3>1, <3>2, RowTypes, ConstAssumption DEF Merge, Row
      <3> QED
        BY <2>1, <3>3, ValidIgnoresOwner DEF Row
    <2>4. CASE UNCHANGED val
      BY <2>1, <2>4
    <2> QED
      BY <2>2, <2>3, <2>4
         DEF Next, vars, ClientStep, ImportStep, LoadRow, LockRow, PatchRejected, PatchNoop,
             PatchConflict, DeleteRow, ReplaceRows
  <1>3. IInv /\ RowStaysValid /\ [Next]_vars => RowStaysValid'
    BY <1>2 DEF RowStaysValid
  <1> QED
    BY <1>1, <1>3, Invariance, PTL DEF Spec

---------------------------------------------------------------------------
(* Categories                                                              *)

Name == [flow : Flow, major : Major, minor : Minor]
EntryRow == [flow : Flow, cat : Cat \cup {Null}, ref : Ref \cup {Null}]

\* What a request carries from its read to its commit.
Creating == [step : {"category"}, cat : Cat, name : Name]
Renaming == UNION {[step : {"rename"}, group : {g}, name : [g -> Name]] : g \in SUBSET Cat}
Deleting == [step : {"delete"}, cat : Cat]
Entering == [step : {"create"}, entry : Entry, row : EntryRow]
Patching == [step : {"patch"}, entry : Entry, row : EntryRow]
Request == {Asking} \cup Creating \cup Renaming \cup Deleting \cup Entering \cup Patching

\* The type invariant of Categories.
CategoriesTypeOK ==
    /\ cats \in [Cat -> Name \cup {Gone}]
    /\ entries \in [Entry -> EntryRow \cup {Gone}]
    /\ made \in [cats : Nat, entries : Nat]
    /\ ask \in [Editor -> Request]
    /\ answered \in [Ref -> SUBSET Entry]

\* Category c was seen with this flow: it has it still, or it was deleted and
\* will not come back.
Fits(c, flow) ==
    /\ c <= made.cats
    /\ c \in Cats => cats[c].flow = flow
    /\ \A p \in Editor : ask[p].step = "category" => ask[p].cat # c

\* Numbers are given once.
NumbersInv ==
    /\ \A c \in Cats : c <= made.cats
    /\ \A e \in Entries : e <= made.entries

\* What a request will write is still right, or its commit will refuse it.
RequestInv(q) ==
    /\ ask[q].step = "category" =>
          /\ ask[q].cat <= made.cats /\ ask[q].cat \notin Cats
          /\ \A p \in Editor \ {q} : ask[p].step = "category" => ask[p].cat # ask[q].cat
    /\ ask[q].step = "rename" => \A c \in ask[q].group : Fits(c, ask[q].name[c].flow)
    /\ ask[q].step \in {"create", "patch"} => ask[q].row.cat = Null \/ Fits(ask[q].row.cat, ask[q].row.flow)
    /\ ask[q].step = "create" =>
          /\ ask[q].entry <= made.entries /\ ask[q].entry \notin Entries
          /\ \A p \in Editor \ {q} : ask[p].step = "create" => ask[p].entry # ask[q].entry
    /\ ask[q].step = "patch" =>
          /\ ask[q].entry \in Entries /\ entries[ask[q].entry].ref = ask[q].row.ref
          /\ \A p \in Editor \ {q} : ask[p].step = "patch" => ask[p].entry # ask[q].entry

\* No two transactions have one source_ref.
RefsUnique ==
    \A d, e \in Entries : entries[d].ref = entries[e].ref /\ entries[e].ref # Null => d = e

\* The inductive invariant.
CategoriesIInv ==
    /\ CategoriesTypeOK
    /\ NumbersInv
    /\ \A q \in Editor : RequestInv(q)
    /\ FlowAgrees
    /\ RefsUnique

---------------------------------------------------------------------------
(* Shapes.                                                                 *)

\* Rows are told from what is gone by their flow.
LEMMA RowShapes ==
    /\ \A x \in Name \cup {Gone} : x # Gone => x \in Name /\ x.flow \in Flow
    /\ \A x \in EntryRow \cup {Gone} : x # Gone =>
          x \in EntryRow /\ x.flow \in Flow /\ x.cat \in Cat \cup {Null} /\ x.ref \in Ref \cup {Null}
    /\ \A x \in Name : x # Gone
    /\ \A x \in EntryRow : x # Gone
  <1>1. Gone.flow = Null /\ Null \notin Flow
    BY CategoriesAssumption DEF Gone
  <1>2. \A x \in Name : x.flow \in Flow
    BY DEF Name
  <1>3. \A x \in EntryRow : x.flow \in Flow /\ x.cat \in Cat \cup {Null} /\ x.ref \in Ref \cup {Null}
    BY DEF EntryRow
  <1> QED
    BY <1>1, <1>2, <1>3

\* The step of a request says what it carries.
LEMMA RequestShapes ==
    ASSUME NEW x \in Request
    PROVE  /\ x.step = "category" => x.cat \in Cat /\ x.name \in Name
           /\ x.step = "rename" => x.group \in SUBSET Cat /\ x.name \in [x.group -> Name]
           /\ x.step = "delete" => x.cat \in Cat
           /\ x.step \in {"create", "patch"} => x.entry \in Entry /\ x.row \in EntryRow
  <1>1. CASE x = Asking
    BY <1>1 DEF Asking
  <1>2. CASE x \in Creating
    BY <1>2 DEF Creating
  <1>3. CASE x \in Renaming
    BY <1>3 DEF Renaming
  <1>4. CASE x \in Deleting
    BY <1>4 DEF Deleting
  <1>5. CASE x \in Entering
    BY <1>5 DEF Entering
  <1>6. CASE x \in Patching
    BY <1>6 DEF Patching
  <1> QED
    BY <1>1, <1>2, <1>3, <1>4, <1>5, <1>6 DEF Request

LEMMA RestingIsRequest == Asking \in Request /\ Asking.step = "rest"
  BY DEF Request, Asking

\* The initial state satisfies the inductive invariant.
LEMMA InitCategoriesIInv == CategoriesInit => CategoriesIInv
  <1> SUFFICES ASSUME CategoriesInit PROVE CategoriesIInv
    OBVIOUS
  <1>1. PICK n \in Name : cats = [c \in Cat |-> IF c = 1 THEN n ELSE Gone]
    BY DEF CategoriesInit, Name
  <1>2. CategoriesTypeOK
    <2>1. made \in [cats : Nat, entries : Nat]
      BY DEF CategoriesInit
    <2> QED
      BY <1>1, <2>1, RestingIsRequest DEF CategoriesInit, CategoriesTypeOK
  <1>3. Cats \subseteq {1} /\ Entries = {} /\ made.cats = 1
    BY <1>1 DEF CategoriesInit, Cats, Entries
  <1>4. \A q \in Editor : ask[q].step = "rest"
    BY RestingIsRequest DEF CategoriesInit
  <1>5. NumbersInv
    BY <1>3 DEF NumbersInv
  <1>6. ASSUME NEW q \in Editor PROVE RequestInv(q)
    BY <1>4 DEF RequestInv
  <1>7. FlowAgrees /\ RefsUnique
    BY <1>3 DEF FlowAgrees, RefsUnique
  <1> QED
    BY <1>2, <1>5, <1>6, <1>7 DEF CategoriesIInv

---------------------------------------------------------------------------
(* Steps.                                                                  *)

\* A request reads and remembers x.
LEMMA ReadStep ==
    ASSUME CategoriesIInv, NEW q \in Editor, NEW x \in Request,
           ask' = [ask EXCEPT ![q] = x], UNCHANGED <<cats, entries, answered>>,
           made' \in [cats : Nat, entries : Nat],
           made.cats <= made'.cats, made.entries <= made'.entries,
           x.step = "category" => made.cats < x.cat /\ x.cat <= made'.cats,
           x.step = "rename" => \A c \in x.group : c \in Cats /\ cats[c].flow = x.name[c].flow,
           x.step \in {"create", "patch"} => FlowMatches(x.row.cat, x.row.flow),
           x.step = "create" => made.entries < x.entry /\ x.entry <= made'.entries,
           x.step = "patch" => /\ x.entry \in Entries /\ entries[x.entry].ref = x.row.ref
                               /\ Unlocked({x.entry})
    PROVE  CategoriesIInv'
  <1>t. /\ ask \in [Editor -> Request] /\ made \in [cats : Nat, entries : Nat]
        /\ NumbersInv /\ \A p \in Editor : RequestInv(p)
    BY DEF CategoriesIInv, CategoriesTypeOK
  <1>m. made.cats \in Nat /\ made'.cats \in Nat /\ made.entries \in Nat /\ made'.entries \in Nat
    BY <1>t
  <1>u. cats' = cats /\ entries' = entries /\ Cats' = Cats /\ Entries' = Entries
    BY DEF Cats, Entries
  <1>a. ask'[q] = x /\ \A p \in Editor \ {q} : ask'[p] = ask[p]
    BY <1>t
  <1>n. \A c \in Cat : c \in Int
    BY CategoriesAssumption DEF Cat
  <1>o. \A e \in Entry : e \in Int
    BY CategoriesAssumption DEF Entry
  <1>1. CategoriesTypeOK'
    BY <1>t DEF CategoriesIInv, CategoriesTypeOK
  <1>2. NumbersInv'
    <2>1. \A c \in Cats : c \in Int /\ c <= made.cats
      BY <1>t, <1>n DEF NumbersInv, Cats
    <2>2. \A e \in Entries : e \in Int /\ e <= made.entries
      BY <1>t, <1>o DEF NumbersInv, Entries
    <2> QED
      BY <1>m, <1>u, <2>1, <2>2 DEF NumbersInv
  \* What fitted still fits.
  <1>3. ASSUME NEW c \in Cat, NEW flow, Fits(c, flow) PROVE Fits(c, flow)'
    <2>1. c \in Int /\ c <= made.cats /\ c <= made'.cats
      BY <1>3, <1>m, <1>n DEF Fits
    <2>2. ASSUME NEW p \in Editor, ask'[p].step = "category" PROVE ask'[p].cat # c
      <3>1. CASE p = q
        <4>1. x.cat \in Int /\ made.cats < x.cat
          BY <1>a, <1>n, <2>2, <3>1, RequestShapes
        <4> QED
          BY <1>a, <1>m, <2>1, <3>1, <4>1
      <3>2. CASE p # q
        BY <1>3, <1>a, <2>2, <3>2 DEF Fits
      <3> QED
        BY <3>1, <3>2
    <2> QED
      BY <1>3, <1>u, <2>1, <2>2 DEF Fits
  \* What is there fits.
  <1>4. ASSUME NEW c \in Cats PROVE Fits(c, cats[c].flow)'
    <2>1. c \in Cat /\ c <= made.cats
      BY <1>t DEF Cats, NumbersInv
    <2>2. Fits(c, cats[c].flow)
      BY <1>t, <2>1 DEF Fits, RequestInv
    <2> QED
      BY <1>3, <1>u, <2>1, <2>2
  <1>5. RequestInv(q)'
    <2>1. x.step = "category" => x.cat \notin Cats /\ x.cat \in Cat
      <3> SUFFICES ASSUME x.step = "category" PROVE x.cat \notin Cats /\ x.cat \in Cat
        OBVIOUS
      <3>1. x.cat \in Int /\ x.cat \in Cat /\ made.cats < x.cat
        BY <1>n, RequestShapes
      <3> QED
        BY <1>m, <1>t, <3>1 DEF NumbersInv
    <2>2. x.step = "category" => \A p \in Editor \ {q} : ask[p].step = "category" => ask[p].cat # x.cat
      <3> SUFFICES ASSUME x.step = "category", NEW p \in Editor \ {q}, ask[p].step = "category" PROVE ask[p].cat # x.cat
        OBVIOUS
      <3>1. ask[p].cat \in Cat /\ ask[p].cat <= made.cats /\ made.cats < x.cat /\ x.cat \in Cat
        BY <1>t, RequestShapes DEF RequestInv
      <3> QED
        BY <1>m, <1>n, <3>1
    <2>3. x.step = "rename" => \A c \in x.group : Fits(c, x.name[c].flow)'
      BY <1>4, <1>u
    <2>4. x.step \in {"create", "patch"} => x.row.cat = Null \/ Fits(x.row.cat, x.row.flow)'
      BY <1>4 DEF FlowMatches
    <2>5. x.step = "create" => x.entry \notin Entries
      <3> SUFFICES ASSUME x.step = "create" PROVE x.entry \notin Entries
        OBVIOUS
      <3>1. x.entry \in Int /\ made.entries < x.entry
        BY <1>o, RequestShapes
      <3> QED
        BY <1>m, <1>t, <3>1 DEF NumbersInv
    <2>6. x.step = "create" => \A p \in Editor \ {q} : ask[p].step = "create" => ask[p].entry # x.entry
      <3> SUFFICES ASSUME x.step = "create", NEW p \in Editor \ {q}, ask[p].step = "create" PROVE ask[p].entry # x.entry
        OBVIOUS
      <3>1. ask[p].entry \in Entry /\ ask[p].entry <= made.entries /\ made.entries < x.entry /\ x.entry \in Entry
        BY <1>t, RequestShapes DEF RequestInv
      <3> QED
        BY <1>m, <1>o, <3>1
    <2>7. x.step = "patch" => \A p \in Editor \ {q} : ask[p].step = "patch" => ask[p].entry # x.entry
      BY DEF Unlocked
    <2> QED
      BY <1>a, <1>u, <2>1, <2>2, <2>3, <2>4, <2>5, <2>6, <2>7 DEF RequestInv
  <1>6. ASSUME NEW p \in Editor \ {q} PROVE RequestInv(p)'
    <2>1. ask'[p] = ask[p] /\ RequestInv(p) /\ ask[p] \in Request
      BY <1>a, <1>t
    <2>2. ask[p].step = "category" =>
             /\ ask[p].cat <= made'.cats /\ ask[p].cat \notin Cats
             /\ \A r \in Editor \ {p} : ask'[r].step = "category" => ask'[r].cat # ask[p].cat
      <3> SUFFICES ASSUME ask[p].step = "category" PROVE
             /\ ask[p].cat <= made'.cats /\ ask[p].cat \notin Cats
             /\ \A r \in Editor \ {p} : ask'[r].step = "category" => ask'[r].cat # ask[p].cat
        OBVIOUS
      <3>1. ask[p].cat \in Int /\ ask[p].cat <= made.cats /\ ask[p].cat \notin Cats
        BY <1>n, <2>1, RequestShapes DEF RequestInv
      <3>2. x.step = "category" => x.cat \in Int /\ made.cats < x.cat
        BY <1>n, RequestShapes
      <3>3. x.step = "category" => x.cat # ask[p].cat
        BY <1>m, <3>1, <3>2
      <3>4. ask[p].cat <= made'.cats
        BY <1>m, <3>1
      <3> QED
        BY <1>a, <2>1, <3>1, <3>3, <3>4 DEF RequestInv
    <2>3. ask[p].step = "rename" => \A c \in ask[p].group : Fits(c, ask[p].name[c].flow)'
      <3> SUFFICES ASSUME ask[p].step = "rename", NEW c \in ask[p].group PROVE Fits(c, ask[p].name[c].flow)'
        OBVIOUS
      <3>1. c \in Cat /\ Fits(c, ask[p].name[c].flow)
        BY <2>1, RequestShapes DEF RequestInv
      <3> DEFINE flow == ask[p].name[c].flow
                 after == ask'[p].name[c].flow
      <3>2. after = flow
        BY <2>1
      <3> HIDE DEF flow
      <3>3. Fits(c, flow)
        BY <3>1 DEF flow
      <3>4. /\ c <= made'.cats /\ (c \in Cats' => cats'[c].flow = flow)
            /\ \A r \in Editor : ask'[r].step = "category" => ask'[r].cat # c
        BY <1>3, <3>1, <3>3 DEF Fits
      <3> QED
        BY <3>2, <3>4 DEF Fits
    <2>4. ask[p].step \in {"create", "patch"} => ask[p].row.cat = Null \/ Fits(ask[p].row.cat, ask[p].row.flow)'
      <3> SUFFICES ASSUME ask[p].step \in {"create", "patch"}, ask[p].row.cat # Null
                   PROVE  Fits(ask[p].row.cat, ask[p].row.flow)'
        BY <2>1
      <3> DEFINE c == ask[p].row.cat
                 flow == ask[p].row.flow
      <3>1. c \in Cat /\ Fits(c, flow)
        BY <2>1, RequestShapes, RowShapes DEF RequestInv
      <3>2. ask'[p].row.cat = c /\ ask'[p].row.flow = flow
        BY <2>1
      <3> HIDE DEF c, flow
      <3>3. /\ c <= made'.cats /\ (c \in Cats' => cats'[c].flow = flow)
            /\ \A r \in Editor : ask'[r].step = "category" => ask'[r].cat # c
        BY <1>3, <3>1 DEF Fits
      <3> QED
        BY <3>2, <3>3 DEF Fits
    <2>5. ask[p].step = "create" =>
             /\ ask[p].entry <= made'.entries /\ ask[p].entry \notin Entries
             /\ \A r \in Editor \ {p} : ask'[r].step = "create" => ask'[r].entry # ask[p].entry
      <3> SUFFICES ASSUME ask[p].step = "create" PROVE
             /\ ask[p].entry <= made'.entries /\ ask[p].entry \notin Entries
             /\ \A r \in Editor \ {p} : ask'[r].step = "create" => ask'[r].entry # ask[p].entry
        OBVIOUS
      <3>1. ask[p].entry \in Int /\ ask[p].entry <= made.entries /\ ask[p].entry \notin Entries
        BY <1>o, <2>1, RequestShapes DEF RequestInv
      <3>2. x.step = "create" => x.entry \in Int /\ made.entries < x.entry
        BY <1>o, RequestShapes
      <3>3. x.step = "create" => x.entry # ask[p].entry
        BY <1>m, <3>1, <3>2
      <3>4. ask[p].entry <= made'.entries
        BY <1>m, <3>1
      <3> QED
        BY <1>a, <2>1, <3>1, <3>3, <3>4 DEF RequestInv
    <2>6. ask[p].step = "patch" =>
             /\ ask[p].entry \in Entries /\ entries[ask[p].entry].ref = ask[p].row.ref
             /\ \A r \in Editor \ {p} : ask'[r].step = "patch" => ask'[r].entry # ask[p].entry
      <3>1. x.step = "patch" /\ ask[p].step = "patch" => x.entry # ask[p].entry
        BY DEF Unlocked
      <3> QED
        BY <1>a, <2>1, <3>1 DEF RequestInv
    <2> QED
      BY <1>u, <2>1, <2>2, <2>3, <2>4, <2>5, <2>6 DEF RequestInv
  <1>7. FlowAgrees' /\ RefsUnique'
    BY <1>u DEF CategoriesIInv, FlowAgrees, FlowMatches, RefsUnique
  <1> QED
    BY <1>1, <1>2, <1>5, <1>6, <1>7 DEF CategoriesIInv

\* Requests end and rows are written: what other requests remember stays right
\* if a category comes from a request to create it, and keeps its flow, and if
\* the transaction a patch has locked keeps its reference.
LEMMA EndStep ==
    ASSUME CategoriesIInv, CategoriesTypeOK', made' = made,
           \A p \in Editor : ask'[p] = ask[p] \/ ask'[p] = Asking,
           \A c \in Cats' : \/ c \in Cats /\ cats'[c].flow = cats[c].flow
                            \/ \E q \in Editor : ask[q].step = "category" /\ ask[q].cat = c /\ ask'[q] = Asking,
           \A e \in Entries' : \/ e \in Entries
                               \/ \E q \in Editor : ask[q].step = "create" /\ ask[q].entry = e /\ ask'[q] = Asking,
           \A p \in Editor : ask'[p].step = "patch" =>
               ask[p].entry \in Entries' /\ entries'[ask[p].entry].ref = entries[ask[p].entry].ref
    PROVE  NumbersInv' /\ \A p \in Editor : RequestInv(p)'
  <1>t. /\ ask \in [Editor -> Request] /\ NumbersInv /\ \A p \in Editor : RequestInv(p)
    BY DEF CategoriesIInv, CategoriesTypeOK
  <1>a. \A p \in Editor : ask'[p].step # "rest" => ask'[p] = ask[p]
    BY RestingIsRequest
  <1>1. NumbersInv'
    BY <1>t DEF NumbersInv, RequestInv
  <1>2. ASSUME NEW c, NEW flow, Fits(c, flow) PROVE Fits(c, flow)'
    <2>1. c \in Cats' => c \in Cats /\ cats'[c].flow = cats[c].flow
      BY <1>2 DEF Fits
    <2> QED
      BY <1>2, <1>a, <2>1 DEF Fits
  <1>3. ASSUME NEW p \in Editor PROVE RequestInv(p)'
    <2>1. CASE ask'[p].step = "rest"
      BY <2>1 DEF RequestInv
    <2>2. CASE ask'[p].step # "rest"
      <3>1. ask'[p] = ask[p] /\ RequestInv(p) /\ ask'[p] # Asking
        BY <1>a, <1>t, <2>2, RestingIsRequest
      <3>2. ask[p].step = "category" => ask[p].cat \notin Cats'
        BY <1>t, <3>1 DEF RequestInv
      <3>3. ask[p].step = "create" => ask[p].entry \notin Entries'
        BY <1>t, <3>1 DEF RequestInv
      <3>4. ask[p].step = "rename" => \A c \in ask[p].group : Fits(c, ask[p].name[c].flow)'
        <4> SUFFICES ASSUME ask[p].step = "rename", NEW c \in ask[p].group PROVE Fits(c, ask[p].name[c].flow)'
          OBVIOUS
        <4> DEFINE flow == ask[p].name[c].flow
        <4>1. ask'[p].name[c].flow = flow /\ Fits(c, flow)
          BY <3>1 DEF RequestInv
        <4> HIDE DEF flow
        <4>2. /\ c <= made'.cats /\ (c \in Cats' => cats'[c].flow = flow)
              /\ \A r \in Editor : ask'[r].step = "category" => ask'[r].cat # c
          BY <1>2, <4>1 DEF Fits
        <4> QED
          BY <4>1, <4>2 DEF Fits
      <3>5. ask[p].step \in {"create", "patch"} => ask[p].row.cat = Null \/ Fits(ask[p].row.cat, ask[p].row.flow)'
        <4> SUFFICES ASSUME ask[p].step \in {"create", "patch"}, ask[p].row.cat # Null
                     PROVE  Fits(ask[p].row.cat, ask[p].row.flow)'
          BY <3>1
        <4> DEFINE c == ask[p].row.cat
                   flow == ask[p].row.flow
        <4>1. ask'[p].row.cat = c /\ ask'[p].row.flow = flow /\ Fits(c, flow)
          BY <3>1 DEF RequestInv
        <4> HIDE DEF c, flow
        <4>2. /\ c <= made'.cats /\ (c \in Cats' => cats'[c].flow = flow)
              /\ \A r \in Editor : ask'[r].step = "category" => ask'[r].cat # c
          BY <1>2, <4>1 DEF Fits
        <4> QED
          BY <4>1, <4>2 DEF Fits
      <3>6. ask[p].step = "category" =>
               /\ ask[p].cat <= made.cats
               /\ \A r \in Editor \ {p} : ask'[r].step = "category" => ask'[r].cat # ask[p].cat
        BY <1>a, <3>1 DEF RequestInv
      <3>7. ask[p].step = "create" =>
               /\ ask[p].entry <= made.entries
               /\ \A r \in Editor \ {p} : ask'[r].step = "create" => ask'[r].entry # ask[p].entry
        BY <1>a, <3>1 DEF RequestInv
      <3>8. ask[p].step = "patch" =>
               /\ ask[p].entry \in Entries' /\ entries'[ask[p].entry].ref = ask[p].row.ref
               /\ \A r \in Editor \ {p} : ask'[r].step = "patch" => ask'[r].entry # ask[p].entry
        BY <1>a, <3>1 DEF RequestInv
      <3> QED
        BY <3>1, <3>2, <3>3, <3>4, <3>5, <3>6, <3>7, <3>8 DEF RequestInv
    <2> QED
      BY <2>1, <2>2
  <1> QED
    BY <1>1, <1>3

\* Reading the requests that write categories.
LEMMA CategoryReads ==
    ASSUME CategoriesIInv, NEW q \in Editor
    PROVE  /\ \A flow \in Flow, major \in Major, minor \in Minor :
                 CreateCategory(q, flow, major, minor) => CategoriesIInv'
           /\ \A c \in Cat, major \in Major, minor \in Minor : PatchCategory(q, c, major, minor) => CategoriesIInv'
           /\ \A flow \in Flow, old, new \in Major : RenameMajor(q, flow, old, new) => CategoriesIInv'
           /\ \A c \in Cat : DeleteCategory(q, c) => CategoriesIInv'
  <1>t. /\ cats \in [Cat -> Name \cup {Gone}] /\ made \in [cats : Nat, entries : Nat]
        /\ MaxCat \in Nat
    BY CategoriesAssumption DEF CategoriesIInv, CategoriesTypeOK
  <1>m. made.cats \in Nat /\ made.entries \in Nat /\ made.cats <= made.cats /\ made.entries <= made.entries
    BY <1>t
  <1>c. \A c \in Cats : c \in Cat /\ cats[c] \in Name
    BY <1>t, RowShapes DEF Cats
  <1>1. ASSUME NEW flow \in Flow, NEW major \in Major, NEW minor \in Minor, CreateCategory(q, flow, major, minor)
        PROVE  CategoriesIInv'
    <2> DEFINE n == [flow |-> flow, major |-> major, minor |-> minor]
               x == [step |-> "category", cat |-> made.cats + 1, name |-> n]
    <2>1. made.cats + 1 \in Cat
      BY <1>1, <1>t, <1>m DEF CreateCategory, Cat
    <2>2. x \in Request
      <3>1. x \in Creating
        BY <2>1 DEF Creating, Name
      <3> QED
        BY <3>1 DEF Request
    <2>3. x.step = "category" /\ x.cat = made.cats + 1
      OBVIOUS
    <2>4. ask' = [ask EXCEPT ![q] = x] /\ UNCHANGED <<cats, entries, answered>>
      BY <1>1 DEF CreateCategory, Ask
    <2>5. made' \in [cats : Nat, entries : Nat] /\ made'.cats = made.cats + 1 /\ made'.entries = made.entries
      BY <1>1, <1>t DEF CreateCategory
    <2> HIDE DEF x
    <2>6. made.cats <= made'.cats /\ made.entries <= made'.entries /\ made.cats < x.cat /\ x.cat <= made'.cats
      BY <1>m, <2>3, <2>5
    <2> QED
      BY <2>2, <2>3, <2>4, <2>5, <2>6, ReadStep
  <1>2. ASSUME NEW g \in SUBSET Cats, NEW f \in [g -> Name], \A c \in g : f[c].flow = cats[c].flow,
               Ask(q, [step |-> "rename", group |-> g, name |-> f]), UNCHANGED <<cats, entries, made, answered>>
        PROVE  CategoriesIInv'
    <2> DEFINE x == [step |-> "rename", group |-> g, name |-> f]
    <2>1. x \in Request
      <3>1. g \in SUBSET Cat
        BY <1>c
      <3>2. x \in [step : {"rename"}, group : {g}, name : [g -> Name]]
        OBVIOUS
      <3> QED
        BY <3>1, <3>2 DEF Request, Renaming
    <2>2. x.step = "rename" /\ x.group = g /\ x.name = f
      OBVIOUS
    <2>3. ask' = [ask EXCEPT ![q] = x]
      BY <1>2 DEF Ask
    <2> HIDE DEF x
    <2> QED
      BY <1>2, <1>t, <1>m, <2>1, <2>2, <2>3, ReadStep
  <1>3. ASSUME NEW c \in Cat, NEW major \in Major, NEW minor \in Minor, PatchCategory(q, c, major, minor)
        PROVE  CategoriesIInv'
    <2> DEFINE f == [d \in {c} |-> [cats[c] EXCEPT !.major = major, !.minor = minor]]
    <2>1. cats[c] \in Name /\ c \in Cats
      BY <1>3, <1>c DEF PatchCategory
    <2>2. [cats[c] EXCEPT !.major = major, !.minor = minor] \in Name
          /\ [cats[c] EXCEPT !.major = major, !.minor = minor].flow = cats[c].flow
      BY <2>1 DEF Name
    <2>3. f \in [{c} -> Name] /\ \A d \in {c} : f[d].flow = cats[d].flow
      BY <2>2
    <2>4. Ask(q, [step |-> "rename", group |-> {c}, name |-> f]) /\ UNCHANGED <<cats, entries, made, answered>>
      BY <1>3 DEF PatchCategory
    <2> HIDE DEF f
    <2> QED
      BY <1>2, <2>1, <2>3, <2>4
  <1>4. ASSUME NEW flow \in Flow, NEW old \in Major, NEW new \in Major, RenameMajor(q, flow, old, new)
        PROVE  CategoriesIInv'
    <2> DEFINE g == {c \in Cats : cats[c].flow = flow /\ cats[c].major = old}
               f == [c \in g |-> [cats[c] EXCEPT !.major = new]]
    <2>1. \A c \in g : [cats[c] EXCEPT !.major = new] \in Name /\ [cats[c] EXCEPT !.major = new].flow = cats[c].flow
      BY <1>c DEF Name
    <2>2. f \in [g -> Name] /\ \A c \in g : f[c].flow = cats[c].flow
      BY <2>1
    <2>3. Ask(q, [step |-> "rename", group |-> g, name |-> f]) /\ UNCHANGED <<cats, entries, made, answered>>
      BY <1>4 DEF RenameMajor
    <2>4. g \in SUBSET Cats
      OBVIOUS
    <2> HIDE DEF f, g
    <2> QED
      BY <1>2, <2>2, <2>3, <2>4
  <1>5. ASSUME NEW c \in Cat, DeleteCategory(q, c) PROVE CategoriesIInv'
    <2> DEFINE x == [step |-> "delete", cat |-> c]
    <2>1. x \in Request /\ x.step = "delete"
      BY DEF Request, Deleting
    <2>2. ask' = [ask EXCEPT ![q] = x] /\ UNCHANGED <<cats, entries, made, answered>>
      BY <1>5 DEF DeleteCategory, Ask
    <2> HIDE DEF x
    <2> QED
      BY <1>t, <1>m, <2>1, <2>2, ReadStep
  <1> QED
    BY <1>1, <1>3, <1>4, <1>5

\* Reading the requests that write transactions.
LEMMA EntryReads ==
    ASSUME CategoriesIInv, NEW q \in Editor
    PROVE  /\ \A flow \in Flow, c \in Cat \cup {Null}, ref \in Ref \cup {Null} :
                 CreateEntry(q, flow, c, ref) => CategoriesIInv'
           /\ \A e \in Entry, flow \in Flow, c \in Cat \cup {Null} :
                 \/ PatchEntry(q, e, [flow |-> flow])
                 \/ PatchEntry(q, e, [cat |-> c])
                 \/ PatchEntry(q, e, [flow |-> flow, cat |-> c])
                 => CategoriesIInv'
  <1>t. /\ entries \in [Entry -> EntryRow \cup {Gone}] /\ made \in [cats : Nat, entries : Nat]
        /\ MaxEntry \in Nat
    BY CategoriesAssumption DEF CategoriesIInv, CategoriesTypeOK
  <1>m. made.cats \in Nat /\ made.entries \in Nat /\ made.cats <= made.cats /\ made.entries <= made.entries
    BY <1>t
  <1>1. ASSUME NEW flow \in Flow, NEW c \in Cat \cup {Null}, NEW ref \in Ref \cup {Null}, CreateEntry(q, flow, c, ref)
        PROVE  CategoriesIInv'
    <2> DEFINE row == [flow |-> flow, cat |-> c, ref |-> ref]
               x == [step |-> "create", entry |-> made.entries + 1, row |-> row]
    <2>1. made.entries + 1 \in Entry
      BY <1>1, <1>t, <1>m DEF CreateEntry, Entry
    <2>2. x \in Request
      <3>1. x \in Entering
        BY <2>1 DEF Entering, EntryRow
      <3> QED
        BY <3>1 DEF Request
    <2>3. x.step = "create" /\ x.entry = made.entries + 1 /\ x.row.cat = c /\ x.row.flow = flow
      OBVIOUS
    <2>4. ask' = [ask EXCEPT ![q] = x] /\ UNCHANGED <<cats, entries, answered>> /\ FlowMatches(c, flow)
      BY <1>1 DEF CreateEntry, Ask
    <2>5. made' \in [cats : Nat, entries : Nat] /\ made'.cats = made.cats /\ made'.entries = made.entries + 1
      BY <1>1, <1>t DEF CreateEntry
    <2> HIDE DEF x
    <2>6. made.cats <= made'.cats /\ made.entries <= made'.entries /\ made.entries < x.entry /\ x.entry <= made'.entries
      BY <1>m, <2>3, <2>5
    <2>7. FlowMatches(x.row.cat, x.row.flow)
      BY <2>3, <2>4
    <2> QED
      BY <2>2, <2>3, <2>4, <2>5, <2>6, <2>7, ReadStep
  <1>2. ASSUME NEW e \in Entries, NEW row \in EntryRow, row.ref = entries[e].ref, FlowMatches(row.cat, row.flow),
               Unlocked({e}), Ask(q, [step |-> "patch", entry |-> e, row |-> row]),
               UNCHANGED <<cats, entries, made, answered>>
        PROVE  CategoriesIInv'
    <2> DEFINE x == [step |-> "patch", entry |-> e, row |-> row]
    <2>1. x \in Request
      <3>1. e \in Entry
        BY DEF Entries
      <3>2. x \in Patching
        BY <3>1 DEF Patching
      <3> QED
        BY <3>2 DEF Request
    <2>2. x.step = "patch" /\ x.entry = e /\ x.row = row
      OBVIOUS
    <2>3. ask' = [ask EXCEPT ![q] = x]
      BY <1>2 DEF Ask
    <2> HIDE DEF x
    <2> QED
      BY <1>2, <1>t, <1>m, <2>1, <2>2, <2>3, ReadStep
  <1>3. ASSUME NEW e \in Entry, NEW flow \in Flow, NEW c \in Cat \cup {Null},
               NEW change \in {[flow |-> flow], [cat |-> c], [flow |-> flow, cat |-> c]}, PatchEntry(q, e, change)
        PROVE  CategoriesIInv'
    <2> DEFINE row == [f \in DOMAIN entries[e] |-> IF f \in DOMAIN change THEN change[f] ELSE entries[e][f]]
    <2>1. e \in Entries /\ entries[e] \in EntryRow
      BY <1>3, <1>t, RowShapes DEF PatchEntry, Entries
    <2>2. DOMAIN entries[e] = {"flow", "cat", "ref"}
      BY <2>1 DEF EntryRow
    <2>3. row \in EntryRow /\ row.ref = entries[e].ref
      <3>1. CASE change = [flow |-> flow]
        BY <2>1, <2>2, <3>1 DEF EntryRow
      <3>2. CASE change = [cat |-> c]
        BY <2>1, <2>2, <3>2 DEF EntryRow
      <3>3. CASE change = [flow |-> flow, cat |-> c]
        BY <2>1, <2>2, <3>3 DEF EntryRow
      <3> QED
        BY <1>3, <3>1, <3>2, <3>3
    <2>4. /\ FlowMatches(row.cat, row.flow) /\ Unlocked({e}) /\ Ask(q, [step |-> "patch", entry |-> e, row |-> row])
          /\ UNCHANGED <<cats, entries, made, answered>>
      BY <1>3 DEF PatchEntry
    <2> HIDE DEF row
    <2> QED
      BY <1>2, <2>1, <2>3, <2>4
  <1> QED
    BY <1>1, <1>3

\* Every step preserves the inductive invariant.
LEMMA NextCategoriesIInv == CategoriesIInv /\ [CategoriesNext]_categoryVars => CategoriesIInv'
  <1> SUFFICES ASSUME CategoriesIInv, [CategoriesNext]_categoryVars PROVE CategoriesIInv'
    OBVIOUS
  <1>t. /\ cats \in [Cat -> Name \cup {Gone}]
        /\ entries \in [Entry -> EntryRow \cup {Gone}]
        /\ made \in [cats : Nat, entries : Nat]
        /\ ask \in [Editor -> Request]
        /\ answered \in [Ref -> SUBSET Entry]
        /\ \A q \in Editor : RequestInv(q)
        /\ FlowAgrees /\ RefsUnique
    BY DEF CategoriesIInv, CategoriesTypeOK
  <1>r. \A e \in Entries : e \in Entry /\ entries[e] \in EntryRow
    BY <1>t, RowShapes DEF Entries
  \* A patch is of a transaction that is there.
  <1>p. \A p \in Editor : ask[p].step = "patch" => ask[p].entry \in Entries
    BY <1>t DEF RequestInv
  <1>a. ASSUME NEW q \in Editor, Answered(q)
        PROVE  /\ ask' \in [Editor -> Request] /\ ask'[q] = Asking
               /\ \A p \in Editor \ {q} : ask'[p] = ask[p]
               /\ \A p \in Editor : ask'[p] = ask[p] \/ ask'[p] = Asking
               /\ \A p \in Editor : ask'[p].step = "patch" => p # q /\ ask[p].step = "patch"
    BY <1>a, <1>t, RestingIsRequest DEF Answered
  <1>w. ASSUME NEW e \in Entry, AnswersRow(e) PROVE answered' \in [Ref -> SUBSET Entry]
    BY <1>w, <1>t DEF AnswersRow
  \* Neither rows nor requests change.
  <1>0. ASSUME UNCHANGED <<cats, entries, made, ask>>, answered' \in [Ref -> SUBSET Entry] PROVE CategoriesIInv'
    <2>1. CategoriesTypeOK'
      BY <1>0, <1>t DEF CategoriesTypeOK
    <2>2. NumbersInv' /\ FlowAgrees' /\ RefsUnique'
      BY <1>0 DEF CategoriesIInv, NumbersInv, FlowAgrees, FlowMatches, RefsUnique, Cats, Entries
    <2>3. ASSUME NEW q \in Editor PROVE RequestInv(q)'
      BY <1>0, <1>t DEF RequestInv, Fits, Cats, Entries
    <2> QED
      BY <2>1, <2>2, <2>3 DEF CategoriesIInv
  <1>1. ASSUME NEW q \in Editor, CommitCategories(q) PROVE CategoriesIInv'
    <2> DEFINE written == IF ask[q].step = "category"
                          THEN [cats EXCEPT ![ask[q].cat] = ask[q].name]
                          ELSE [c \in Cat |-> IF c \in ask[q].group THEN ask[q].name[c] ELSE cats[c]]
    <2>1. /\ ask[q].step \in {"category", "rename"} /\ Answered(q) /\ UNCHANGED <<entries, made, answered>>
          /\ \/ cats' = cats
             \/ cats' = written /\ (ask[q].step = "rename" => ask[q].group \subseteq Cats)
      BY <1>1 DEF CommitCategories
    <2>2. /\ ask[q].step = "category" => ask[q].cat \in Cat /\ ask[q].name \in Name
          /\ ask[q].step = "rename" => ask[q].group \in SUBSET Cat /\ ask[q].name \in [ask[q].group -> Name]
          /\ RequestInv(q)
      BY <1>t, RequestShapes
    <2>3. cats' \in [Cat -> Name \cup {Gone}]
      BY <1>t, <2>1, <2>2
    <2>4. \A c \in Cats' : \/ c \in Cats /\ cats'[c].flow = cats[c].flow
                           \/ ask[q].step = "category" /\ ask[q].cat = c
      <3>1. CASE cats' = cats
        BY <3>1 DEF Cats
      <3>2. CASE ask[q].step = "category" /\ cats' = written
        BY <1>t, <2>2, <3>2 DEF Cats
      <3>3. CASE ask[q].step = "rename" /\ cats' = written /\ ask[q].group \subseteq Cats
        <4>1. \A c \in Cat : cats'[c] = IF c \in ask[q].group THEN ask[q].name[c] ELSE cats[c]
          BY <3>3
        <4>2. \A c \in ask[q].group : ask[q].name[c].flow = cats[c].flow
          BY <2>2, <3>3 DEF RequestInv, Fits
        <4> QED
          BY <3>3, <4>1, <4>2 DEF Cats
      <3> QED
        BY <2>1, <3>1, <3>2, <3>3
    <2>5. \A c \in Cats : c \in Cats' /\ cats'[c].flow = cats[c].flow
      <3>1. CASE cats' = cats
        BY <3>1 DEF Cats
      <3>2. CASE ask[q].step = "category" /\ cats' = written
        BY <1>t, <2>2, <3>2 DEF Cats, RequestInv
      <3>3. CASE ask[q].step = "rename" /\ cats' = written /\ ask[q].group \subseteq Cats
        <4>1. \A c \in Cat : cats'[c] = IF c \in ask[q].group THEN ask[q].name[c] ELSE cats[c]
          BY <3>3
        <4>2. \A c \in ask[q].group : ask[q].name[c].flow = cats[c].flow /\ ask[q].name[c] # Gone
          BY <2>2, <3>3, RowShapes DEF RequestInv, Fits
        <4> QED
          BY <3>3, <4>1, <4>2 DEF Cats
      <3> QED
        BY <2>1, <3>1, <3>2, <3>3
    <2> HIDE DEF written
    <2>6. CategoriesTypeOK'
      BY <1>a, <1>t, <2>1, <2>3 DEF CategoriesTypeOK
    <2>7. Entries' = Entries
      BY <2>1 DEF Entries
    <2>8. NumbersInv' /\ \A p \in Editor : RequestInv(p)'
      BY <1>a, <1>p, <2>1, <2>4, <2>6, <2>7, EndStep
    <2>9. FlowAgrees' /\ RefsUnique'
      BY <1>t, <2>1, <2>5, <2>7 DEF FlowAgrees, FlowMatches, RefsUnique
    <2> QED
      BY <2>6, <2>8, <2>9 DEF CategoriesIInv
  <1>2. ASSUME NEW q \in Editor, CommitDelete(q) PROVE CategoriesIInv'
    <2> DEFINE c == ask[q].cat
    <2>1. /\ c \in Cat /\ cats' = [cats EXCEPT ![c] = Gone] /\ Answered(q) /\ UNCHANGED <<made, answered>>
          /\ entries' = [e \in Entry |-> IF e \in Usage(c) THEN [entries[e] EXCEPT !.cat = Null] ELSE entries[e]]
      BY <1>2, <1>t, RequestShapes DEF CommitDelete
    <2> HIDE DEF c
    <2>2. \A e \in Entries : /\ [entries[e] EXCEPT !.cat = Null] \in EntryRow
                             /\ [entries[e] EXCEPT !.cat = Null].cat = Null
                             /\ [entries[e] EXCEPT !.cat = Null].ref = entries[e].ref
      BY <1>r DEF EntryRow
    <2>3. Usage(c) \subseteq Entries
      BY DEF Usage
    <2>4. entries' \in [Entry -> EntryRow \cup {Gone}]
      BY <1>t, <2>1, <2>2, <2>3
    <2>5. \A e \in Entries : entries'[e].ref = entries[e].ref /\ entries'[e] \in EntryRow
      BY <1>r, <2>1, <2>2
    <2>6. Entries' = Entries
      <3>1. Entries \subseteq Entries'
        BY <1>r, <2>5, RowShapes DEF Entries
      <3>2. Entries' \subseteq Entries
        BY <2>1, <2>3 DEF Entries
      <3> QED
        BY <3>1, <3>2
    <2>7. Cats' = Cats \ {c} /\ \A d \in Cats' : cats'[d] = cats[d]
      BY <1>t, <2>1 DEF Cats
    <2>8. CategoriesTypeOK'
      BY <1>a, <1>t, <2>1, <2>4 DEF CategoriesTypeOK
    <2>9. NumbersInv' /\ \A p \in Editor : RequestInv(p)'
      BY <1>a, <1>p, <2>1, <2>5, <2>6, <2>7, <2>8, EndStep
    <2>10. FlowAgrees'
      <3> SUFFICES ASSUME NEW e \in Entries PROVE FlowMatches(entries[e].cat, entries[e].flow)'
        BY <2>6 DEF FlowAgrees
      <3>1. CASE e \in Usage(c)
        BY <1>r, <2>1, <2>2, <3>1 DEF FlowMatches
      <3>2. CASE e \notin Usage(c)
        <4>1. entries'[e] = entries[e] /\ entries[e].cat # c /\ FlowMatches(entries[e].cat, entries[e].flow)
          BY <1>r, <1>t, <2>1, <3>2 DEF Usage, FlowAgrees
        <4> QED
          BY <2>7, <4>1 DEF FlowMatches
      <3> QED
        BY <3>1, <3>2
    <2>11. RefsUnique'
      BY <1>t, <2>5, <2>6 DEF RefsUnique
    <2> QED
      BY <2>8, <2>9, <2>10, <2>11 DEF CategoriesIInv
  \* One transaction is written.
  <1>3. ASSUME NEW q \in Editor, NEW e \in Entry, NEW row \in EntryRow, Answered(q), UNCHANGED <<cats, made>>,
               entries' = [entries EXCEPT ![e] = row], answered' \in [Ref -> SUBSET Entry],
               FlowMatches(row.cat, row.flow),
               \/ ask[q].step = "create" /\ ask[q].entry = e
               \/ ask[q].step = "patch" /\ ask[q].entry = e,
               \A d \in Entries \ {e} : row.ref # Null => entries[d].ref # row.ref
        PROVE  CategoriesIInv'
    <2>1. Entries' = Entries \cup {e} /\ entries'[e] = row /\ \A d \in Entries \ {e} : entries'[d] = entries[d]
      BY <1>3, <1>t, RowShapes DEF Entries
    <2>2. Cats' = Cats
      BY <1>3 DEF Cats
    <2>3. CategoriesTypeOK'
      BY <1>3, <1>a, <1>t DEF CategoriesTypeOK
    <2>4. \A d \in Entries' : d \in Entries \/ (ask[q].step = "create" /\ ask[q].entry = d)
      BY <1>3, <1>p, <2>1
    <2>5. \A p \in Editor : ask'[p].step = "patch" => ask[p].entry \in Entries \ {e}
      BY <1>3, <1>a, <1>p, <1>t DEF RequestInv
    <2>6. NumbersInv' /\ \A p \in Editor : RequestInv(p)'
      <3>1. \A c \in Cats' : c \in Cats /\ cats'[c].flow = cats[c].flow
        BY <1>3, <2>2
      <3>2. \A d \in Entries' : \/ d \in Entries
                                \/ \E r \in Editor : ask[r].step = "create" /\ ask[r].entry = d /\ ask'[r] = Asking
        BY <1>3, <1>a, <2>4
      <3>3. \A p \in Editor : ask'[p].step = "patch" =>
               ask[p].entry \in Entries' /\ entries'[ask[p].entry].ref = entries[ask[p].entry].ref
        BY <2>1, <2>5
      <3>4. made' = made /\ \A p \in Editor : ask'[p] = ask[p] \/ ask'[p] = Asking
        BY <1>3, <1>a
      <3> QED
        BY <2>3, <3>1, <3>2, <3>3, <3>4, EndStep
    <2>7. FlowAgrees'
      BY <1>3, <1>t, <2>1, <2>2 DEF FlowAgrees, FlowMatches
    <2>8. RefsUnique'
      BY <1>3, <1>t, <2>1 DEF RefsUnique
    <2> QED
      BY <2>3, <2>6, <2>7, <2>8 DEF CategoriesIInv
  \* A request ends and writes nothing.
  <1>4. ASSUME NEW q \in Editor, Answered(q), UNCHANGED <<cats, entries, made>>, answered' \in [Ref -> SUBSET Entry]
        PROVE  CategoriesIInv'
    <2>1. CategoriesTypeOK'
      BY <1>4, <1>a, <1>t DEF CategoriesTypeOK
    <2>2. Cats' = Cats /\ Entries' = Entries
      BY <1>4 DEF Cats, Entries
    <2>3. NumbersInv' /\ \A p \in Editor : RequestInv(p)'
      BY <1>4, <1>a, <1>p, <2>1, <2>2, EndStep
    <2>4. FlowAgrees' /\ RefsUnique'
      BY <1>4, <1>t, <2>2 DEF FlowAgrees, FlowMatches, RefsUnique
    <2> QED
      BY <2>1, <2>3, <2>4 DEF CategoriesIInv
  \* What a request carries fits the categories if the foreign key holds.
  <1>k. ASSUME NEW q \in Editor, ask[q].step \in {"create", "patch"}, KeyHolds(ask[q].row)
        PROVE  FlowMatches(ask[q].row.cat, ask[q].row.flow)
    BY <1>k, <1>t DEF RequestInv, KeyHolds, FlowMatches, Fits
  <1>5. ASSUME NEW q \in Editor, CommitCreate(q) PROVE CategoriesIInv'
    <2> DEFINE row == ask[q].row
    <2>1. row \in EntryRow /\ ask[q].entry \in Entry /\ ask[q].step = "create" /\ Answered(q) /\ UNCHANGED <<cats, made>>
      BY <1>5, <1>t, RequestShapes DEF CommitCreate
    <2>2. CASE SourceRefTaken(row.ref)
      <3>1. PICK e \in WithRef(row.ref) : AnswersRow(e)
        BY <1>5, <2>2 DEF CommitCreate
      <3>2. e \in Entry /\ UNCHANGED entries
        BY <1>5, <2>2 DEF CommitCreate, WithRef, Entries
      <3> QED
        BY <1>4, <1>w, <2>1, <3>1, <3>2
    <2>3. CASE ~ SourceRefTaken(row.ref) /\ KeyHolds(row)
      <3>1. entries' = [entries EXCEPT ![ask[q].entry] = row] /\ AnswersRow(ask[q].entry)
        BY <1>5, <2>3 DEF CommitCreate
      <3>2. \A d \in Entries : row.ref # Null => entries[d].ref # row.ref
        BY <2>3 DEF SourceRefTaken, WithRef
      <3>3. FlowMatches(row.cat, row.flow)
        BY <1>k, <2>1, <2>3
      <3>4. answered' \in [Ref -> SUBSET Entry]
        BY <1>w, <2>1, <3>1
      <3> HIDE DEF row
      <3> QED
        BY <1>3, <2>1, <3>1, <3>2, <3>3, <3>4
    <2>4. CASE ~ SourceRefTaken(row.ref) /\ ~ KeyHolds(row)
      BY <1>4, <1>5, <1>t, <2>1, <2>4 DEF CommitCreate
    <2> QED
      BY <2>2, <2>3, <2>4
  <1>6. ASSUME NEW q \in Editor, CommitPatch(q) PROVE CategoriesIInv'
    <2> DEFINE row == ask[q].row
    <2>1. /\ row \in EntryRow /\ ask[q].entry \in Entry /\ ask[q].step = "patch" /\ Answered(q)
          /\ UNCHANGED <<cats, made, answered>>
      BY <1>6, <1>t, RequestShapes DEF CommitPatch
    <2>2. CASE KeyHolds(row)
      <3>1. entries' = [entries EXCEPT ![ask[q].entry] = row]
        BY <1>6, <2>2 DEF CommitPatch
      <3>2. ask[q].entry \in Entries /\ entries[ask[q].entry].ref = row.ref
        BY <1>t, <2>1 DEF RequestInv
      <3>3. \A d \in Entries \ {ask[q].entry} : row.ref # Null => entries[d].ref # row.ref
        BY <1>t, <3>2 DEF RefsUnique
      <3>4. FlowMatches(row.cat, row.flow)
        BY <1>k, <2>1, <2>2
      <3> HIDE DEF row
      <3> QED
        BY <1>3, <1>t, <2>1, <3>1, <3>3, <3>4
    <2>3. CASE ~ KeyHolds(row)
      BY <1>4, <1>6, <1>t, <2>1, <2>3 DEF CommitPatch
    <2> QED
      BY <2>2, <2>3
  <1>7. ASSUME NEW e \in Entry, DeleteEntry(e) PROVE CategoriesIInv'
    <2>1. /\ e \in Entries /\ Unlocked({e}) /\ entries' = [entries EXCEPT ![e] = Gone]
          /\ UNCHANGED <<cats, made, ask, answered>>
      BY <1>7 DEF DeleteEntry
    <2>2. Entries' = Entries \ {e} /\ (\A d \in Entries' : entries'[d] = entries[d]) /\ Cats' = Cats
      BY <1>t, <2>1 DEF Entries, Cats
    <2>3. CategoriesTypeOK'
      BY <1>t, <2>1 DEF CategoriesTypeOK
    <2>4. \A p \in Editor : ask[p].step = "patch" => ask[p].entry \in Entries \ {e}
      BY <1>p, <2>1 DEF Unlocked
    <2>5. NumbersInv' /\ \A p \in Editor : RequestInv(p)'
      BY <2>1, <2>2, <2>3, <2>4, EndStep
    <2>6. FlowAgrees' /\ RefsUnique'
      BY <1>t, <2>1, <2>2 DEF FlowAgrees, FlowMatches, RefsUnique
    <2> QED
      BY <2>3, <2>5, <2>6 DEF CategoriesIInv
  <1>8. ASSUME NEW e \in Entry, Replay(e) PROVE CategoriesIInv'
    BY <1>0, <1>8, <1>w DEF Replay
  <1>9. CASE UNCHANGED categoryVars
    BY <1>0, <1>9, <1>t DEF categoryVars
  <1> QED
    BY <1>1, <1>2, <1>5, <1>6, <1>7, <1>8, <1>9, CategoryReads, EntryReads DEF CategoriesNext

---------------------------------------------------------------------------
(* Theorems.                                                               *)

\* The inductive invariant holds in every reachable state.
THEOREM CategoriesInductive == CategoriesSpec => []CategoriesIInv
  BY InitCategoriesIInv, NextCategoriesIInv, PTL DEF CategoriesSpec

\* Every reachable state is of the right type; in particular a pending request
\* only ever names categories and transactions that were numbered.
THEOREM CategoriesTypeCorrect == CategoriesSpec => []CategoriesTypeOK
  <1>1. CategoriesIInv => CategoriesTypeOK
    BY DEF CategoriesIInv
  <1> QED
    BY <1>1, CategoriesInductive, PTL

\* A transaction's category exists and has its flow: the comparison that
\* create_transaction and patch_transaction make before they commit stays valid
\* until the commit (transactions.py, categories.py).
THEOREM CategoryFlowsAgree == CategoriesSpec => []FlowAgrees
  <1>1. CategoriesIInv => FlowAgrees
    BY DEF CategoriesIInv
  <1> QED
    BY <1>1, CategoriesInductive, PTL

\* A source_ref is answered with one transaction (create_transaction's replay).
THEOREM ReferencesAnsweredOnce == CategoriesSpec => []RefAnsweredOnce
  <1>1. CategoriesIInv => RefAnsweredOnce
    <2> SUFFICES ASSUME CategoriesIInv, NEW ref \in Ref
                 PROVE  Cardinality({e \in answered[ref] \cap Entries : entries[e].ref = ref}) <= 1
      BY DEF RefAnsweredOnce
    <2> DEFINE S == {e \in answered[ref] \cap Entries : entries[e].ref = ref}
    <2>1. ref # Null
      BY CategoriesAssumption
    <2>2. \A d, e \in S : d = e
      BY <2>1 DEF CategoriesIInv, RefsUnique
    <2>3. S = {} \/ \E e : S = {e}
      BY <2>2
    <2> HIDE DEF S
    <2>4. Cardinality(S) <= 1
      <3>1. CASE S = {}
        BY <3>1, FS_EmptySet
      <3>2. CASE \E e : S = {e}
        <4>1. PICK e : S = {e}
          BY <3>2
        <4>2. Cardinality({e}) = 1
          BY FS_Singleton
        <4> QED
          BY <4>1, <4>2
      <3> QED
        BY <2>3, <3>1, <3>2
    <2> QED
      BY <2>4 DEF S
  <1> QED
    BY <1>1, CategoriesInductive, PTL
---------------------------------------------------------------------------
(* The order of the ledger                                                 *)

Making == {"append", "lock", "rebalance", "again", "insert"}
TxRow == [day : Day, key : Nat]
Renumbering == UNION {[D -> Nat] : D \in SUBSET RowId}
WriterRow == [step : Making \cup {"rest", "move"}, row : 0 .. MaxRow, day : Day \cup {-1}, anchor : 0 .. MaxRow,
              where : {"above", "below"}, rows : Seq(RowId), held : SUBSET RowId, key : Nat \cup {NoRoom}, renumbered : Renumbering, current : BOOLEAN]
ReaderRow == [step : {"rest", "first", "next", "end"}, forward : BOOLEAN, cursor : 0 .. MaxRow, at : TxRow \cup {NoTx},
              seen : Seq(RowId), steady : SUBSET RowId]
Tx == [RowId -> TxRow \cup {NoTx}]

\* The type invariant of LedgerOrder.
LedgerTypeOK ==
    /\ tx \in Tx
    /\ created \in Nat
    /\ w \in [Writer -> WriterRow]
    /\ reader \in ReaderRow

\* The keys that writer v sees in t.
SeenBy(t, v) == [x \in RowId |-> IF x \in DOMAIN v.renumbered THEN [t[x] EXCEPT !.key = v.renumbered[x]] ELSE t[x]]

\* The row a writer creates is not there yet.
NewRowOk(t, n, v) == v.step \in Making => v.row \in 1 .. n /\ v.row \in RowId /\ t[v.row] = NoTx

\* What a writer has locked is there; what it has renumbered is locked, in the
\* day and in the old order.
LocksOk(t, v) ==
    /\ v.held \subseteq Rows(t) /\ DOMAIN v.renumbered \subseteq v.held
    /\ v.step \notin {"again", "insert"} => DOMAIN v.renumbered = {}
    /\ v.step # "rest" => v.day \in Day
    /\ v.step \in {"append", "move", "insert"} => v.key \in Nat
    /\ v.step \in {"rebalance", "again"} => v.anchor \in v.held /\ t[v.anchor].day = v.day
    /\ v.step = "move" => v.row \in v.held /\ t[v.row].day # v.day
    /\ \A x \in DOMAIN v.renumbered : t[x].day = v.day
    /\ \A x, y \in DOMAIN v.renumbered : Before(t, x, y) => v.renumbered[x] < v.renumbered[y]

SnapshotOk(v) == \A i, j \in DOMAIN v.rows : v.rows[i] = v.rows[j] => i = j

\* The key of an insert lies between its anchor and the next of the locked rows.
KeyOk(t, v) ==
    LET s == SeenBy(t, v)
    IN  v.step = "insert" /\ v.current =>
            /\ v.anchor \in v.held
            /\ \A y \in v.held : t[y].day = v.day
            /\ v.where = "below" => s[v.anchor].key < v.key /\ \A y \in v.held \ {v.anchor} : Before(s, v.anchor, y) => v.key < s[y].key
            /\ v.where = "above" => v.key < s[v.anchor].key /\ \A y \in v.held \ {v.anchor} : Before(s, y, v.anchor) => s[y].key < v.key

WriterOk(t, n, v) == NewRowOk(t, n, v) /\ LocksOk(t, v) /\ SnapshotOk(v) /\ KeyOk(t, v)

\* Two writers lock and create different rows.
Apart(u, v) == u.held \cap v.held = {} /\ (u.step \in Making /\ v.step \in Making => u.row # v.row)

Once(s, x) == \E i \in DOMAIN s : s[i] = x /\ \A j \in DOMAIN s : s[j] = x => j = i
Never(s, x) == \A i \in DOMAIN s : s[i] # x

\* The rows before the place <<at, c>> and those after it.
PlacedBefore(t, x, at, c) ==
    \/ t[x].day < at.day
    \/ t[x].day = at.day /\ t[x].key < at.key
    \/ t[x].day = at.day /\ t[x].key = at.key /\ x < c
ToRead(t, d, x) ==
    IF d.forward THEN ~ PlacedBefore(t, x, d.at, d.cursor) /\ ~ (x = d.cursor /\ t[x] = d.at) ELSE PlacedBefore(t, x, d.at, d.cursor)

\* Of the steady rows the reader has seen those on this side of its cursor once
\* and the others not yet.
ReaderOk(t, d) ==
    /\ d.steady \subseteq Rows(t)
    /\ d.step = "rest" => d.steady = {}
    /\ d.step = "first" => d.seen = <<>> /\ ~ d.forward
    /\ d.step = "next" => d.at \in TxRow /\ d.cursor \in RowId
    /\ d.step = "next" => \A x \in d.steady : IF ToRead(t, d, x) THEN Never(d.seen, x) ELSE Once(d.seen, x)
    /\ d.step = "end" => \A x \in d.steady : Once(d.seen, x)

LedgerIInv ==
    /\ LedgerTypeOK
    /\ Rows(tx) \subseteq 1 .. created
    /\ \A r \in Writer : WriterOk(tx, created, w[r])
    /\ \A q, r \in Writer : q # r => Apart(w[q], w[r])
    /\ ReaderOk(tx, reader)

\* R orders S strictly.
Orders(R, S) ==
    /\ \A x \in S : <<x, x>> \notin R
    /\ \A x, y, z \in S : <<x, y>> \in R /\ <<y, z>> \in R => <<x, z>> \in R
    /\ \A x, y \in S : x # y => <<x, y>> \in R \/ <<y, x>> \in R

\* Ranks count the set: every element has one, and they follow the order.
LEMMA SortedByRank ==
    ASSUME NEW S, IsFiniteSet(S), NEW R, Orders(R, S)
    PROVE  /\ Cardinality(S) \in Nat
           /\ Sorted(S, R) \in [1 .. Cardinality(S) -> S]
           /\ \A x \in S : \E i \in 1 .. Cardinality(S) : Sorted(S, R)[i] = x
           /\ \A i, j \in 1 .. Cardinality(S) : i < j => <<Sorted(S, R)[i], Sorted(S, R)[j]>> \in R
  <1> DEFINE n == Cardinality(S)
             below(x) == {y \in S : <<y, x>> \in R}
             rank == [x \in S |-> Cardinality(below(x)) + 1]
  <1>n. n \in Nat
    BY FS_CardinalityType DEF n
  <1>a. \A x \in S : below(x) \in SUBSET S /\ below(x) # S
    BY DEF Orders
  <1>b. \A x, y \in S : <<x, y>> \in R => below(x) \in SUBSET below(y) /\ below(x) # below(y)
    BY DEF Orders
  <1>c. Sorted(S, R) = [i \in 1 .. n |-> CHOOSE x \in S : Cardinality(below(x)) = i - 1]
    BY DEF Sorted
  <1> HIDE DEF n, below
  <1>1. \A x \in S : IsFiniteSet(below(x)) /\ Cardinality(below(x)) \in Nat /\ Cardinality(below(x)) < n
    <2> TAKE x \in S
    <2>1. below(x) \in SUBSET S /\ below(x) # S
      BY <1>a
    <2>2. /\ IsFiniteSet(below(x)) /\ Cardinality(below(x)) <= n
          /\ n = Cardinality(below(x)) => S = below(x)
      BY <2>1, FS_Subset DEF n
    <2>3. Cardinality(below(x)) \in Nat
      BY <2>2, FS_CardinalityType
    <2> QED
      BY <1>n, <2>1, <2>2, <2>3
  <1>2. \A x, y \in S : <<x, y>> \in R => Cardinality(below(x)) < Cardinality(below(y))
    <2> TAKE x, y \in S
    <2> HAVE <<x, y>> \in R
    <2>1. below(x) \in SUBSET below(y) /\ below(x) # below(y)
      BY <1>b
    <2>2. /\ Cardinality(below(x)) <= Cardinality(below(y))
          /\ Cardinality(below(y)) = Cardinality(below(x)) => below(y) = below(x)
      BY <1>1, <2>1, FS_Subset
    <2> QED
      BY <1>1, <2>1, <2>2
  <1>3. rank \in [S -> 1 .. n] /\ \A x, y \in S : rank[x] = rank[y] => x = y
    <2>1. rank \in [S -> 1 .. n]
      BY <1>1, <1>n
    <2>2. ASSUME NEW x \in S, NEW y \in S, x # y PROVE rank[x] # rank[y]
      <3>1. <<x, y>> \in R \/ <<y, x>> \in R
        BY <2>2 DEF Orders
      <3>2. Cardinality(below(x)) # Cardinality(below(y))
        BY <1>1, <1>2, <3>1
      <3> QED
        BY <1>1, <3>2
    <2> QED
      BY <2>1, <2>2
  <1>4. \A i \in 1 .. n : \E x \in S : rank[x] = i
    <2>1. rank \in Injection(S, 1 .. n)
      BY <1>3 DEF Injection, IsInjective
    <2>2. IsFiniteSet(1 .. n) /\ Cardinality(1 .. n) = n
      BY <1>n, FS_Interval
    <2>3. rank \in Surjection(S, 1 .. n)
      BY <2>1, <2>2, FS_Injection DEF n
    <2> QED
      BY <2>3 DEF Surjection
  <1>5. \A x \in S, i \in 1 .. n : Cardinality(below(x)) = i - 1 <=> rank[x] = i
    BY <1>1
  <1>6. \A i \in 1 .. n : Sorted(S, R)[i] \in S /\ rank[Sorted(S, R)[i]] = i
    <2> TAKE i \in 1 .. n
    <2>1. \E x \in S : Cardinality(below(x)) = i - 1
      BY <1>4, <1>5
    <2>2. Sorted(S, R)[i] = CHOOSE x \in S : Cardinality(below(x)) = i - 1
      BY <1>c
    <2>3. Sorted(S, R)[i] \in S /\ Cardinality(below(Sorted(S, R)[i])) = i - 1
      BY <2>1, <2>2
    <2> QED
      BY <1>5, <2>3
  <1>7. Sorted(S, R) \in [1 .. n -> S]
    BY <1>6, <1>c
  <1> HIDE DEF rank
  <1>8. \A x \in S : \E i \in 1 .. n : Sorted(S, R)[i] = x
    <2> TAKE x \in S
    <2>1. rank[x] \in 1 .. n
      BY <1>3
    <2>2. Sorted(S, R)[rank[x]] = x
      BY <1>3, <1>6, <2>1
    <2> QED
      BY <2>1, <2>2
  <1>9. \A i, j \in 1 .. n : i < j => <<Sorted(S, R)[i], Sorted(S, R)[j]>> \in R
    <2> TAKE i, j \in 1 .. n
    <2> HAVE i < j
    <2> DEFINE x == Sorted(S, R)[i]
               y == Sorted(S, R)[j]
    <2>1. x \in S /\ y \in S /\ rank[x] = i /\ rank[y] = j /\ i \in Int /\ j \in Int
      BY <1>6, <1>n
    <2>2. x # y
      BY <2>1
    <2>3. ~ <<y, x>> \in R
      <3>1. rank[x] = Cardinality(below(x)) + 1 /\ rank[y] = Cardinality(below(y)) + 1
        BY <2>1 DEF rank
      <3>2. <<y, x>> \in R => Cardinality(below(y)) < Cardinality(below(x))
        BY <1>2, <2>1
      <3> HIDE DEF x, y
      <3>3. Cardinality(below(x)) \in Nat /\ Cardinality(below(y)) \in Nat
        BY <1>1, <2>1
      <3> QED
        BY <2>1, <3>1, <3>2, <3>3
    <2> QED
      BY <2>1, <2>2, <2>3 DEF Orders
  <1> QED
    BY <1>7, <1>8, <1>9, <1>n DEF n

LEMMA FiniteRows == IsFiniteSet(RowId) /\ RowId \subseteq Int /\ Day \subseteq Int /\ -1 \notin Day
  <1>1. MaxRow \in Int /\ Day \subseteq Nat
    BY LedgerAssumption
  <1> QED
    BY <1>1, FS_Interval DEF RowId

\* Rows and transaction tables.
LEMMA RowsOfTable ==
    ASSUME NEW t \in Tx, NEW S \in SUBSET Rows(t)
    PROVE  /\ IsFiniteSet(S) /\ S \subseteq RowId
           /\ \A x \in S : t[x] \in TxRow /\ t[x].day \in Int /\ t[x].key \in Nat /\ x \in Int
  <1>1. S \subseteq RowId /\ \A x \in S : t[x] \in TxRow
    BY DEF Rows, Tx
  <1>2. IsFiniteSet(S)
    BY <1>1, FiniteRows, FS_Subset
  <1>3. \A x \in S : t[x].day \in Int /\ t[x].key \in Nat /\ x \in Int
    BY <1>1, FiniteRows DEF TxRow
  <1> QED
    BY <1>1, <1>2, <1>3

\* Ordered lists the rows by day, key and creation.
LEMMA OrderedRows ==
    ASSUME NEW t \in Tx, NEW S \in SUBSET Rows(t)
    PROVE  /\ Ordered(t, S) \in Seq(S) /\ DOMAIN Ordered(t, S) = 1 .. Len(Ordered(t, S)) /\ Len(Ordered(t, S)) \in Nat
           /\ \A i \in DOMAIN Ordered(t, S) : Ordered(t, S)[i] \in S
           /\ ToSet(Ordered(t, S)) = S
           /\ \A i, j \in DOMAIN Ordered(t, S) : i < j => Before(t, Ordered(t, S)[i], Ordered(t, S)[j])
           /\ \A i, j \in DOMAIN Ordered(t, S) : Ordered(t, S)[i] = Ordered(t, S)[j] => i = j
  <1> DEFINE R == {p \in S \X S : Before(t, p[1], p[2])}
  <1>1. \A x, y \in S : <<x, y>> \in R <=> Before(t, x, y)
    OBVIOUS
  <1>2. IsFiniteSet(S) /\ \A x \in S : t[x].day \in Int /\ t[x].key \in Nat /\ x \in Int
    BY RowsOfTable
  <1>3. Orders(R, S)
    <2>1. \A x \in S : ~ Before(t, x, x)
      BY <1>2 DEF Before
    <2>2. \A x, y, z \in S : Before(t, x, y) /\ Before(t, y, z) => Before(t, x, z)
      BY <1>2 DEF Before
    <2>3. \A x, y \in S : x # y => Before(t, x, y) \/ Before(t, y, x)
      BY <1>2 DEF Before
    <2> QED
      BY <1>1, <2>1, <2>2, <2>3 DEF Orders
  <1> DEFINE s == Sorted(S, R)
             n == Cardinality(S)
  <1>5. Ordered(t, S) = s
    BY DEF Ordered
  <1> HIDE DEF R
  <1>4. /\ n \in Nat /\ s \in [1 .. n -> S]
        /\ \A x \in S : \E i \in 1 .. n : s[i] = x
        /\ \A i, j \in 1 .. n : i < j => <<s[i], s[j]>> \in R
    BY <1>2, <1>3, SortedByRank
  <1> HIDE DEF s, n
  <1>6. s \in Seq(S) /\ DOMAIN s = 1 .. n /\ Len(s) = n
    BY <1>4
  <1>7. \A i, j \in 1 .. n : i < j => Before(t, s[i], s[j])
    BY <1>1, <1>4
  <1>8. ToSet(s) = S
    BY <1>4, <1>6 DEF ToSet
  <1>9. \A i, j \in 1 .. n : s[i] = s[j] => i = j
    <2> TAKE i, j \in 1 .. n
    <2>1. s[i] \in S /\ s[j] \in S /\ ~ Before(t, s[i], s[i])
      <3>1. s[i] \in S /\ s[j] \in S
        BY <1>4
      <3> QED
        BY <1>2, <3>1 DEF Before
    <2>2. i < j => Before(t, s[i], s[j])
      BY <1>7
    <2>3. j < i => Before(t, s[j], s[i])
      BY <1>7
    <2> QED
      BY <1>4, <2>1, <2>2, <2>3
  <1> QED
    BY <1>4, <1>5, <1>6, <1>7, <1>8, <1>9

\* What is left of a snapshot.
LEMMA WithinRows ==
    ASSUME NEW s \in Seq(RowId), \A i, j \in DOMAIN s : s[i] = s[j] => i = j, NEW S \in SUBSET ToSet(s)
    PROVE  Within(s, S) \in Seq(S) /\ ToSet(Within(s, S)) = S
  <1> DEFINE R == {p \in S \X S : \E i, j \in DOMAIN s : i < j /\ s[i] = p[1] /\ s[j] = p[2]}
  <1>1. DOMAIN s \subseteq Int /\ S \subseteq RowId /\ \A x \in S : \E i \in DOMAIN s : s[i] = x
    BY DEF ToSet
  <1>2. IsFiniteSet(S)
    BY <1>1, FiniteRows, FS_Subset
  <1>3. Orders(R, S)
    <2>1. \A x, y \in S : <<x, y>> \in R <=> \E i, j \in DOMAIN s : i < j /\ s[i] = x /\ s[j] = y
      OBVIOUS
    <2>2. \A x \in S : <<x, x>> \notin R
      BY <1>1, <2>1
    <2>3. ASSUME NEW x \in S, NEW y \in S, NEW z \in S, <<x, y>> \in R, <<y, z>> \in R
          PROVE  <<x, z>> \in R
      <3>1. PICK i \in DOMAIN s, j \in DOMAIN s : i < j /\ s[i] = x /\ s[j] = y
        BY <2>1, <2>3
      <3>2. PICK k \in DOMAIN s, l \in DOMAIN s : k < l /\ s[k] = y /\ s[l] = z
        BY <2>1, <2>3
      <3>3. i < l
        BY <1>1, <3>1, <3>2
      <3> QED
        BY <2>1, <3>1, <3>2, <3>3
    <2>4. ASSUME NEW x \in S, NEW y \in S, x # y
          PROVE  <<x, y>> \in R \/ <<y, x>> \in R
      <3>1. PICK i \in DOMAIN s, j \in DOMAIN s : s[i] = x /\ s[j] = y
        BY <1>1
      <3>2. i < j \/ j < i
        BY <1>1, <2>4, <3>1
      <3> QED
        BY <2>1, <3>1, <3>2
    <2> QED
      BY <2>2, <2>3, <2>4 DEF Orders
  <1> DEFINE q == Sorted(S, R)
             n == Cardinality(S)
  <1>5. Within(s, S) = q
    BY DEF Within
  <1> HIDE DEF R
  <1>4. n \in Nat /\ q \in [1 .. n -> S] /\ \A x \in S : \E i \in 1 .. n : q[i] = x
    BY <1>2, <1>3, SortedByRank
  <1> HIDE DEF q, n
  <1>6. q \in Seq(S) /\ DOMAIN q = 1 .. n
    BY <1>4
  <1> QED
    BY <1>4, <1>5, <1>6 DEF ToSet

\* What a writer relies on does not depend on other rows.
LEMMA OkKept ==
    ASSUME NEW t \in Tx, NEW u \in Tx, NEW n \in Nat, NEW m \in Nat, n <= m, NEW v \in WriterRow, WriterOk(t, n, v),
           \A x \in v.held : u[x] = t[x],
           v.step \in Making => u[v.row] = t[v.row]
    PROVE  WriterOk(u, m, v)
  <1>1. NewRowOk(u, m, v)
    BY DEF WriterOk, NewRowOk
  <1>2. v.held \subseteq RowId /\ v.held \subseteq Rows(t) /\ DOMAIN v.renumbered \subseteq v.held
    BY DEF WriterOk, LocksOk, Rows
  <1>3. v.held \subseteq Rows(u)
    BY <1>2 DEF Rows
  <1>4. \A x, y \in v.held : Before(u, x, y) <=> Before(t, x, y)
    BY DEF Before
  <1>5. LocksOk(u, v)
    BY <1>2, <1>3, <1>4 DEF WriterOk, LocksOk
  <1> DEFINE p == SeenBy(t, v)
             q == SeenBy(u, v)
  <1>6. \A x \in v.held : p[x] = q[x]
    BY <1>2 DEF SeenBy
  <1> HIDE DEF p, q
  <1>7. \A x, y \in v.held : Before(p, x, y) <=> Before(q, x, y)
    BY <1>6 DEF Before
  <1>8. v.step = "insert" /\ v.current =>
            /\ v.anchor \in v.held
            /\ \A y \in v.held : t[y].day = v.day
            /\ v.where = "below" => p[v.anchor].key < v.key /\ \A y \in v.held \ {v.anchor} : Before(p, v.anchor, y) => v.key < p[y].key
            /\ v.where = "above" => v.key < p[v.anchor].key /\ \A y \in v.held \ {v.anchor} : Before(p, y, v.anchor) => p[y].key < v.key
    BY DEF WriterOk, KeyOk, p
  <1>9. v.step = "insert" /\ v.current =>
            /\ v.anchor \in v.held
            /\ \A y \in v.held : u[y].day = v.day
            /\ v.where = "below" => q[v.anchor].key < v.key /\ \A y \in v.held \ {v.anchor} : Before(q, v.anchor, y) => v.key < q[y].key
            /\ v.where = "above" => v.key < q[v.anchor].key /\ \A y \in v.held \ {v.anchor} : Before(q, y, v.anchor) => q[y].key < v.key
    BY <1>6, <1>7, <1>8
  <1>10. KeyOk(u, v)
    BY <1>9 DEF KeyOk, q
  <1> QED
    BY <1>1, <1>5, <1>10 DEF WriterOk

\* A reader is not disturbed by what happens to rows that are not steady.
LEMMA ReaderKept ==
    ASSUME NEW t \in Tx, NEW u \in Tx, NEW d \in ReaderRow, ReaderOk(t, d), NEW C,
           \A x \in d.steady \ C : u[x] = t[x]
    PROVE  /\ [d EXCEPT !.steady = d.steady \ C] \in ReaderRow
           /\ ReaderOk(u, [d EXCEPT !.steady = d.steady \ C])
  <1> DEFINE e == [d EXCEPT !.steady = d.steady \ C]
  <1>1. /\ e \in ReaderRow /\ e.steady = d.steady \ C /\ e.step = d.step /\ e.seen = d.seen /\ e.forward = d.forward
        /\ e.at = d.at /\ e.cursor = d.cursor
    BY DEF ReaderRow
  <1> HIDE DEF e
  <1>2. e.steady \subseteq Rows(u)
    BY <1>1 DEF ReaderOk, Rows
  <1>3. \A x \in e.steady : ToRead(u, e, x) <=> ToRead(t, d, x)
    BY <1>1 DEF ToRead, PlacedBefore
  <1>4. ReaderOk(u, e)
    BY <1>1, <1>2, <1>3 DEF ReaderOk
  <1> QED
    BY <1>1, <1>4 DEF e

LEMMA RestingOk ==
    ASSUME NEW t \in Tx, NEW n \in Nat
    PROVE  /\ Resting \in WriterRow /\ WriterOk(t, n, Resting) /\ \A u \in WriterRow : Apart(u, Resting)
           /\ DOMAIN Resting.renumbered = {} /\ Resting.held = {} /\ Resting.step = "rest" /\ Resting.rows = <<>>
  <1>1. <<>> \in Renumbering /\ <<>> \in Seq(RowId) /\ DOMAIN <<>> = {}
    <2>1. <<>> \in [{} -> Nat] /\ DOMAIN <<>> = {}
      OBVIOUS
    <2> QED
      <3>1. {} \in SUBSET RowId /\ <<>> \in [{} -> Nat]
        BY <2>1
      <3>2. <<>> \in Renumbering
        BY <3>1, Zenon DEF Renumbering
      <3> QED
        BY <2>1, <3>2
  <1>2. /\ Resting.step = "rest" /\ Resting.row = 0 /\ Resting.held = {} /\ Resting.renumbered = <<>> /\ Resting.rows = <<>>
    BY DEF Resting
  <1>3. Resting \in WriterRow
    BY <1>1, LedgerAssumption DEF Resting, WriterRow
  <1> HIDE DEF Resting
  <1>4. WriterOk(t, n, Resting)
    BY <1>1, <1>2 DEF WriterOk, NewRowOk, LocksOk, SnapshotOk, KeyOk, Making
  <1> QED
    BY <1>1, <1>2, <1>3, <1>4 DEF Apart, Making

\* A step of one writer.
LEMMA OneWriter ==
    ASSUME LedgerIInv, NEW r \in Writer, NEW v \in WriterRow, w' = [w EXCEPT ![r] = v],
           tx' \in Tx, created' \in Nat, created <= created', Rows(tx') \subseteq 1 .. created',
           reader' \in ReaderRow, ReaderOk(tx', reader'), WriterOk(tx', created', v),
           \A q \in Writer \ {r} : /\ Apart(w[q], v)
                                   /\ \A x \in w[q].held : tx'[x] = tx[x]
                                   /\ w[q].step \in Making => tx'[w[q].row] = tx[w[q].row]
    PROVE  LedgerIInv'
  <1>1. /\ tx \in Tx /\ created \in Nat /\ w \in [Writer -> WriterRow]
        /\ \A q \in Writer : WriterOk(tx, created, w[q])
        /\ \A p, q \in Writer : p # q => Apart(w[p], w[q])
    BY DEF LedgerIInv, LedgerTypeOK
  <1>2. w' \in [Writer -> WriterRow] /\ w'[r] = v /\ \A q \in Writer \ {r} : w'[q] = w[q]
    BY <1>1
  <1>3. ASSUME NEW q \in Writer PROVE WriterOk(tx', created', w'[q])
    <2>1. CASE q = r
      BY <1>2, <2>1
    <2>2. CASE q # r
      <3>1. WriterOk(tx', created', w[q])
        BY <1>1, <2>2, OkKept
      <3> QED
        BY <1>2, <2>2, <3>1
    <2> QED
      BY <2>1, <2>2
  <1>4. ASSUME NEW p \in Writer, NEW q \in Writer, p # q PROVE Apart(w'[p], w'[q])
    <2>1. \A a, b \in WriterRow : Apart(a, b) => Apart(b, a)
      BY DEF Apart
    <2> QED
      BY <1>1, <1>2, <1>4, <2>1
  <1>5. LedgerTypeOK'
    BY <1>2 DEF LedgerTypeOK
  <1> QED
    BY <1>3, <1>4, <1>5 DEF LedgerIInv, WriterOk, NewRowOk, LocksOk, SnapshotOk, KeyOk, SeenBy, Apart, ReaderOk, ToRead, PlacedBefore, Before, Rows

\* A step of one writer that writes nothing yet.
LEMMA OneWriterReads ==
    ASSUME LedgerIInv, NEW r \in Writer, NEW v \in WriterRow, w' = [w EXCEPT ![r] = v],
           tx' = tx, reader' = reader, created' \in Nat, created <= created', WriterOk(tx, created', v),
           \A q \in Writer \ {r} : Apart(w[q], v)
    PROVE  LedgerIInv'
  <1>1. tx \in Tx /\ created \in Nat /\ reader \in ReaderRow /\ ReaderOk(tx, reader) /\ Rows(tx) \subseteq 1 .. created
    BY DEF LedgerIInv, LedgerTypeOK
  <1>2. 1 .. created \subseteq 1 .. created'
    BY <1>1
  <1>3. ReaderOk(tx', reader') /\ WriterOk(tx', created', v) /\ Rows(tx') \subseteq 1 .. created'
    BY <1>1, <1>2
  <1> QED
    BY <1>1, <1>3, OneWriter

\* The largest key of a day.
LEMMA LargestKey ==
    ASSUME tx \in Tx, NEW day \in Day, NEW x
    PROVE  NextAppendKey(day, x) \in Nat
  <1> DEFINE S == RowsOf(tx, day) \ {x}
             K == {tx[y].key : y \in S}
             s == Ordered(tx, S)
             n == Len(s)
  <1>1. S \in SUBSET Rows(tx) /\ \A y \in S : tx[y].day = day
    BY DEF RowsOf
  <1>k. \A y \in S : tx[y].key \in Nat /\ y \in Int
    BY <1>1, RowsOfTable
  <1>2. /\ n \in Nat /\ DOMAIN s = 1 .. n /\ (\A i \in DOMAIN s : s[i] \in S) /\ ToSet(s) = S
        /\ \A i, j \in DOMAIN s : i < j => Before(tx, s[i], s[j])
    BY <1>1, OrderedRows
  <1>3. MaxKeyOf(S) = IF S = {} THEN 0 ELSE Max(K)
    BY DEF MaxKeyOf
  <1>4. NextAppendKey(day, x) = MaxKeyOf(S) + Step
    BY DEF NextAppendKey
  <1> HIDE DEF S, s, n
  <1>5. ASSUME S # {} PROVE Max(K) \in Nat
    <2>1. n >= 1
      BY <1>2, <1>5 DEF ToSet
    <2>2. s[n] \in S /\ n \in DOMAIN s
      BY <1>2, <2>1
    <2>3. ASSUME NEW y \in S PROVE tx[y].key <= tx[s[n]].key
      <3>1. PICK i \in 1 .. n : s[i] = y
        BY <1>2, <2>3 DEF ToSet
      <3>2. i = n \/ i < n
        BY <1>2, <3>1
      <3>3. i < n => Before(tx, y, s[n])
        BY <1>2, <2>2, <3>1
      <3>4. tx[y].day = tx[s[n]].day
        BY <1>1, <2>2, <2>3
      <3>5. tx[y].key \in Int /\ tx[s[n]].key \in Int /\ tx[y].day \in Int
        BY <1>1, <1>k, <2>2, <2>3, FiniteRows
      <3> QED
        BY <3>1, <3>2, <3>3, <3>4, <3>5 DEF Before
    <2>4. \E k \in K : \A l \in K : k >= l
      BY <1>k, <2>2, <2>3
    <2>5. Max(K) \in K
      BY <2>4 DEF Max
    <2> QED
      BY <1>k, <2>5
  <1> QED
    BY <1>3, <1>4, <1>5, LedgerAssumption

\* A writer's view of the table.
LEMMA SeenTable ==
    ASSUME NEW t \in Tx, NEW v \in WriterRow, LocksOk(t, v)
    PROVE  /\ SeenBy(t, v) \in Tx /\ Rows(SeenBy(t, v)) = Rows(t)
           /\ \A x \in RowId : SeenBy(t, v)[x].day = t[x].day
           /\ DOMAIN v.renumbered = {} => SeenBy(t, v) = t
  <1> DEFINE s == SeenBy(t, v)
  <1>1. v.renumbered \in Renumbering /\ DOMAIN v.renumbered \subseteq Rows(t)
    BY DEF WriterRow, LocksOk
  <1>2. ASSUME NEW x \in DOMAIN v.renumbered
        PROVE  x \in RowId /\ t[x] \in TxRow /\ s[x] \in TxRow /\ s[x].day = t[x].day /\ s[x] # NoTx /\ t[x] # NoTx
    <2>1. x \in RowId /\ t[x] \in TxRow /\ t[x] # NoTx
      BY <1>1 DEF Rows, Tx
    <2>2. v.renumbered[x] \in Nat
      BY <1>1 DEF Renumbering
    <2>3. s[x] = [t[x] EXCEPT !.key = v.renumbered[x]]
      BY <2>1 DEF SeenBy
    <2>4. s[x] \in TxRow /\ s[x].day = t[x].day
      BY <2>1, <2>2, <2>3 DEF TxRow
    <2>5. s[x] # NoTx
      BY <2>4, FiniteRows DEF TxRow, NoTx
    <2> QED
      BY <2>1, <2>4, <2>5
  <1>3. \A x \in RowId : x \notin DOMAIN v.renumbered => s[x] = t[x]
    BY DEF SeenBy
  <1>4. s = [x \in RowId |-> s[x]]
    BY DEF SeenBy
  <1> HIDE DEF s
  <1>5. s \in Tx
    BY <1>2, <1>3, <1>4 DEF Tx
  <1>6. Rows(s) = Rows(t)
    BY <1>2, <1>3 DEF Rows
  <1>7. DOMAIN v.renumbered = {} => s = t
    BY <1>3, <1>4 DEF Tx
  <1> QED
    BY <1>2, <1>3, <1>5, <1>6, <1>7 DEF s

\* The key beside an anchor is a number or there is no room; when the rows are
\* in their order it lies between the anchor and its neighbour.
LEMMA KeyFits ==
    ASSUME NEW r \in Writer, NEW rows \in Seq(RowId), Seen(r) \in Tx, w[r] \in WriterRow
    PROVE  /\ KeyBeside(r, rows) \in Nat \cup {NoRoom}
           /\ \A H \in SUBSET Rows(Seen(r)) :
                  /\ rows = Ordered(Seen(r), H) /\ w[r].anchor \in H /\ (\A x, y \in H : Seen(r)[x].day = Seen(r)[y].day)
                  /\ KeyBeside(r, rows) # NoRoom
                  => /\ w[r].where = "below" =>
                           /\ Seen(r)[w[r].anchor].key < KeyBeside(r, rows)
                           /\ \A y \in H \ {w[r].anchor} : Before(Seen(r), w[r].anchor, y) => KeyBeside(r, rows) < Seen(r)[y].key
                     /\ w[r].where = "above" =>
                           /\ KeyBeside(r, rows) < Seen(r)[w[r].anchor].key
                           /\ \A y \in H \ {w[r].anchor} : Before(Seen(r), y, w[r].anchor) => Seen(r)[y].key < KeyBeside(r, rows)
  <1> DEFINE s == Seen(r)
             a == w[r].anchor
             c == CHOOSE j \in DOMAIN rows : rows[j] = a
             low == IF w[r].where = "above" THEN c - 1 ELSE c
             key(j, none) == IF j \in DOMAIN rows THEN s[rows[j]].key ELSE none
             k == KeyBeside(r, rows)
  <1>1. k = Midpoint(key(low, 0), key(low + 1, NoRow))
    BY DEF KeyBeside
  <1>2. \A x \in RowId : s[x].key \in Nat
    BY DEF Tx, TxRow, NoTx
  <1>3. \A j \in DOMAIN rows : rows[j] \in RowId
    OBVIOUS
  <1>4. key(low, 0) \in Nat /\ key(low + 1, NoRow) \in Nat \cup {NoRow}
    BY <1>2, <1>3
  <1>5. ASSUME NEW p \in Nat, NEW h \in Nat \cup {NoRow}
        PROVE  /\ Midpoint(p, h) \in Nat \cup {NoRoom}
               /\ Midpoint(p, h) # NoRoom => p < Midpoint(p, h) /\ (h # NoRow => Midpoint(p, h) < h)
    BY LedgerAssumption DEF Midpoint, NoRoom, NoRow
  <1> DEFINE p == key(low, 0)
             h == key(low + 1, NoRow)
  <1>p. p \in Nat /\ h \in Nat \cup {NoRow} /\ k = Midpoint(p, h)
    BY <1>1, <1>4
  <1> HIDE DEF k, p, h
  <1>6. k \in Nat \cup {NoRoom} /\ (k # NoRoom => p < k /\ (h # NoRow => k < h))
    BY <1>5, <1>p
  <1>7. k # NoRoom => key(low, 0) < k /\ (key(low + 1, NoRow) # NoRow => k < key(low + 1, NoRow))
    BY <1>6 DEF p, h
  <1> HIDE DEF s
  <1>8. ASSUME NEW H \in SUBSET Rows(s), rows = Ordered(s, H), a \in H, \A x, y \in H : s[x].day = s[y].day, k # NoRoom
        PROVE  /\ w[r].where = "below" => s[a].key < k /\ \A y \in H \ {a} : Before(s, a, y) => k < s[y].key
               /\ w[r].where = "above" => k < s[a].key /\ \A y \in H \ {a} : Before(s, y, a) => s[y].key < k
    <2>s. s \in Tx
      BY DEF s
    <2> DEFINE n == Len(rows)
    <2>1. /\ n \in Nat /\ DOMAIN rows = 1 .. n /\ (\A i \in DOMAIN rows : rows[i] \in H) /\ ToSet(rows) = H
          /\ \A i, j \in DOMAIN rows : i < j => Before(s, rows[i], rows[j])
      BY <1>8, <2>s, OrderedRows
    <2>2. \A x \in H : s[x].key \in Nat /\ s[x].day \in Int /\ x \in Int
      BY <2>s, RowsOfTable
    <2>3. c \in DOMAIN rows /\ rows[c] = a
      BY <1>8, <2>1 DEF ToSet
    <2> HIDE DEF c, n
    <2>4. \A x, y \in H : Before(s, x, y) => s[x].key <= s[y].key /\ ~ Before(s, y, x)
      BY <1>8, <2>2 DEF Before
    <2>5. ASSUME NEW i \in DOMAIN rows, NEW j \in DOMAIN rows, i <= j PROVE s[rows[i]].key <= s[rows[j]].key
      <3>1. CASE i = j
        BY <2>1, <2>2, <3>1
      <3>2. CASE i # j
        <4>1. i < j
          BY <2>1, <2>5, <3>2
        <4> QED
          BY <2>1, <2>4, <2>5, <4>1
      <3> QED
        BY <3>1, <3>2
    <2>6. ASSUME NEW y \in H \ {a} PROVE \E j \in DOMAIN rows : rows[j] = y /\ j # c
      BY <2>1, <2>3, <2>6 DEF ToSet
    <2>7. ASSUME w[r].where = "below", NEW y \in H \ {a}, Before(s, a, y) PROVE k < s[y].key
      <3>1. PICK j \in DOMAIN rows : rows[j] = y /\ j # c
        BY <2>6
      <3>2. ~ (j < c)
        BY <2>1, <2>3, <2>4, <2>7, <3>1
      <3>3. c + 1 \in DOMAIN rows /\ c + 1 <= j
        BY <2>1, <2>3, <3>1, <3>2
      <3>4. low = c /\ key(low + 1, NoRow) = s[rows[c + 1]].key /\ s[rows[c + 1]].key \in Nat
        BY <2>1, <2>2, <2>7, <3>3
      <3>5. s[rows[c + 1]].key <= s[y].key
        BY <2>5, <3>1, <3>3
      <3>6. k < s[rows[c + 1]].key
        BY <1>7, <1>8, <3>4 DEF NoRow
      <3> QED
        BY <1>6, <1>8, <2>2, <3>4, <3>5, <3>6
    <2>8. ASSUME w[r].where = "above", NEW y \in H \ {a}, Before(s, y, a) PROVE s[y].key < k
      <3>1. PICK j \in DOMAIN rows : rows[j] = y /\ j # c
        BY <2>6
      <3>2. ~ (c < j)
        BY <2>1, <2>3, <2>4, <2>8, <3>1
      <3>3. c - 1 \in DOMAIN rows /\ j <= c - 1
        BY <2>1, <2>3, <3>1, <3>2
      <3>4. low = c - 1 /\ key(low, 0) = s[rows[c - 1]].key /\ s[rows[c - 1]].key \in Nat
        BY <2>1, <2>2, <2>8, <3>3
      <3>5. s[y].key <= s[rows[c - 1]].key
        BY <2>5, <3>1, <3>3
      <3>6. s[rows[c - 1]].key < k
        BY <1>7, <1>8, <3>4
      <3> QED
        BY <1>6, <1>8, <2>2, <3>4, <3>5, <3>6
    <2>9. w[r].where = "below" => s[a].key < k
      <3> HAVE w[r].where = "below"
      <3>1. low = c /\ key(low, 0) = s[a].key
        BY <2>3
      <3> QED
        BY <1>7, <1>8, <3>1
    <2>10. w[r].where = "above" => k < s[a].key
      <3> HAVE w[r].where = "above"
      <3>1. low + 1 = c /\ key(low + 1, NoRow) = s[a].key
        BY <2>1, <2>3
      <3> QED
        BY <1>7, <1>8, <2>2, <3>1 DEF NoRow
    <2> QED
      BY <2>7, <2>8, <2>9, <2>10
  <1> QED
    BY <1>6, <1>8 DEF k, s

\* What the invariant says of one writer.
LEMMA WriterFacts ==
    ASSUME LedgerIInv, NEW r \in Writer
    PROVE  /\ tx \in Tx /\ created \in Nat /\ w \in [Writer -> WriterRow] /\ reader \in ReaderRow
           /\ w[r] \in WriterRow /\ WriterOk(tx, created, w[r]) /\ LocksOk(tx, w[r]) /\ Rows(tx) \subseteq 1 .. created
           /\ SeenBy(tx, w[r]) = Seen(r)
           /\ \A q \in Writer \ {r} : w[q] \in WriterRow /\ Apart(w[q], w[r]) /\ WriterOk(tx, created, w[q])
  BY DEF LedgerIInv, LedgerTypeOK, WriterOk, Seen, SeenBy

\* A request ends.
LEMMA EndsResting ==
    ASSUME LedgerIInv, NEW r \in Writer, Done(r), UNCHANGED <<tx, created, reader>>
    PROVE  LedgerIInv'
  <1>1. tx \in Tx /\ created \in Nat /\ \A q \in Writer : w[q] \in WriterRow
    BY DEF LedgerIInv, LedgerTypeOK
  <1>2. w' = [w EXCEPT ![r] = Resting] /\ tx' = tx /\ created' = created /\ reader' = reader
    BY DEF Done
  <1>3. Resting \in WriterRow /\ WriterOk(tx, created, Resting) /\ \A u \in WriterRow : Apart(u, Resting)
    BY <1>1, RestingOk
  <1>4. created' \in Nat /\ created <= created' /\ WriterOk(tx, created', Resting) /\ \A q \in Writer \ {r} : Apart(w[q], Resting)
    BY <1>1, <1>2, <1>3
  <1> QED
    BY <1>2, <1>3, <1>4, OneWriterReads

\* A new row gets the next number.
LEMMA NewNumber ==
    ASSUME LedgerIInv, created < MaxRow, NEW r \in Writer
    PROVE  /\ created + 1 \in RowId /\ created + 1 \in 0 .. MaxRow /\ created + 1 \in 1 .. created + 1 /\ created + 1 \in Nat
           /\ created <= created + 1
           /\ tx[created + 1] = NoTx
           /\ \A q \in Writer : w[q].step \in Making => w[q].row # created + 1
  <1>1. created \in Nat /\ MaxRow \in Nat /\ Rows(tx) \subseteq 1 .. created /\ \A q \in Writer : NewRowOk(tx, created, w[q])
    BY LedgerAssumption DEF LedgerIInv, LedgerTypeOK, WriterOk
  <1>2. created + 1 \in RowId
    BY <1>1 DEF RowId
  <1>3. created + 1 \notin 1 .. created
    BY <1>1
  <1>4. tx[created + 1] = NoTx
    BY <1>1, <1>2, <1>3 DEF Rows
  <1>5. \A q \in Writer : w[q].step \in Making => w[q].row # created + 1
    BY <1>1, <1>3 DEF NewRowOk
  <1>6. created + 1 \in 0 .. MaxRow /\ created + 1 \in 1 .. created + 1 /\ created + 1 \in Nat /\ created <= created + 1
    BY <1>1
  <1> QED
    BY <1>2, <1>4, <1>5, <1>6

LEMMA AppendReads ==
    ASSUME LedgerIInv, NEW r \in Writer, NEW day \in Day, AppendRead(r, day)
    PROVE  LedgerIInv'
  <1> DEFINE v == [Resting EXCEPT !.step = "append", !.row = created', !.day = day, !.key = NextAppendKey(day, 0)]
  <1>f. tx \in Tx /\ created \in Nat /\ \A q \in Writer : w[q] \in WriterRow
    BY DEF LedgerIInv, LedgerTypeOK
  <1>1. created < MaxRow /\ created' = created + 1 /\ w' = [w EXCEPT ![r] = v] /\ tx' = tx /\ reader' = reader
    BY DEF AppendRead
  <1>2. /\ created' \in RowId /\ created' \in 0 .. MaxRow /\ created' \in 1 .. created' /\ created' \in Nat /\ created <= created'
        /\ tx[created'] = NoTx /\ \A q \in Writer : w[q].step \in Making => w[q].row # created'
    BY <1>1, NewNumber
  <1>3. NextAppendKey(day, 0) \in Nat
    BY <1>f, LargestKey
  <1>4. Resting \in WriterRow /\ DOMAIN Resting.renumbered = {} /\ Resting.held = {} /\ Resting.rows = <<>>
    BY <1>f, RestingOk
  <1>5. /\ v \in WriterRow /\ v.step = "append" /\ v.row = created' /\ v.day = day /\ v.key \in Nat
        /\ DOMAIN v.renumbered = {} /\ v.held = {} /\ v.rows = <<>>
    BY <1>2, <1>3, <1>4 DEF WriterRow, Making
  <1> HIDE DEF v
  <1>6. WriterOk(tx, created', v)
    BY <1>2, <1>5 DEF WriterOk, NewRowOk, LocksOk, SnapshotOk, KeyOk
  <1>7. \A q \in Writer \ {r} : Apart(w[q], v)
    BY <1>2, <1>5 DEF Apart
  <1> QED
    BY <1>1, <1>2, <1>5, <1>6, <1>7, OneWriterReads

LEMMA MoveReads ==
    ASSUME LedgerIInv, NEW r \in Writer, NEW x \in RowId, NEW day \in Day, MoveRead(r, x, day)
    PROVE  LedgerIInv'
  <1> DEFINE v == [Resting EXCEPT !.step = "move", !.row = x, !.day = day, !.held = {x}, !.key = NextAppendKey(day, x)]
  <1>f. tx \in Tx /\ created \in Nat /\ \A q \in Writer : w[q] \in WriterRow
    BY DEF LedgerIInv, LedgerTypeOK
  <1>1. /\ w' = [w EXCEPT ![r] = v] /\ tx' = tx /\ created' = created /\ reader' = reader
        /\ x \in Rows(tx) /\ tx[x].day # day /\ \A q \in Writer \ {r} : w[q].held \cap {x} = {}
    BY DEF MoveRead, Free
  <1>3. NextAppendKey(day, x) \in Nat
    BY <1>f, LargestKey
  <1>4. Resting \in WriterRow /\ DOMAIN Resting.renumbered = {} /\ Resting.rows = <<>>
    BY <1>f, RestingOk
  <1>5. x \in 0 .. MaxRow
    BY LedgerAssumption DEF RowId
  <1>6. /\ v \in WriterRow /\ v.step = "move" /\ v.row = x /\ v.day = day /\ v.key \in Nat
        /\ DOMAIN v.renumbered = {} /\ v.held = {x} /\ v.rows = <<>>
    BY <1>3, <1>4, <1>5 DEF WriterRow, Making
  <1> HIDE DEF v
  <1>7. WriterOk(tx, created', v)
    BY <1>1, <1>6 DEF WriterOk, NewRowOk, LocksOk, SnapshotOk, KeyOk, Making
  <1>8. \A q \in Writer \ {r} : Apart(w[q], v)
    BY <1>1, <1>6 DEF Apart, Making
  <1>9. created' \in Nat /\ created <= created'
    BY <1>1, <1>f
  <1> QED
    BY <1>1, <1>6, <1>7, <1>8, <1>9, OneWriterReads

LEMMA InsertBegins ==
    ASSUME LedgerIInv, NEW r \in Writer, NEW x \in RowId, NEW where \in {"above", "below"}, InsertBegin(r, x, where)
    PROVE  LedgerIInv'
  <1> DEFINE S == RowsOf(tx, tx[x].day)
             rows == Ordered(tx, S)
             v == [Resting EXCEPT !.step = "lock", !.row = created', !.day = tx[x].day, !.anchor = x, !.where = where, !.rows = rows]
  <1>f. tx \in Tx /\ created \in Nat /\ \A q \in Writer : w[q] \in WriterRow
    BY DEF LedgerIInv, LedgerTypeOK
  <1>1. created < MaxRow /\ created' = created + 1 /\ x \in Rows(tx) /\ w' = [w EXCEPT ![r] = v] /\ tx' = tx /\ reader' = reader
    BY DEF InsertBegin
  <1>2. /\ created' \in RowId /\ created' \in 0 .. MaxRow /\ created' \in 1 .. created' /\ created' \in Nat /\ created <= created'
        /\ tx[created'] = NoTx /\ \A q \in Writer : w[q].step \in Making => w[q].row # created'
    BY <1>1, NewNumber
  <1>3. tx[x].day \in Day
    BY <1>1, <1>f DEF Rows, Tx, TxRow
  <1>4. S \in SUBSET Rows(tx) /\ S \subseteq RowId
    BY DEF RowsOf, Rows
  <1>5. rows \in Seq(S) /\ \A i, j \in DOMAIN rows : rows[i] = rows[j] => i = j
    BY <1>4, <1>f, OrderedRows
  <1> HIDE DEF S, rows
  <1>6. rows \in Seq(RowId)
    BY <1>4, <1>5, SeqMonotonic
  <1>7. Resting \in WriterRow /\ DOMAIN Resting.renumbered = {} /\ Resting.held = {}
    BY <1>f, RestingOk
  <1>8. x \in 0 .. MaxRow
    BY LedgerAssumption DEF RowId
  <1>9. /\ v \in WriterRow /\ v.step = "lock" /\ v.row = created' /\ v.day \in Day
        /\ DOMAIN v.renumbered = {} /\ v.held = {} /\ v.rows = rows
    BY <1>2, <1>3, <1>6, <1>7, <1>8 DEF WriterRow, Making
  <1> HIDE DEF v
  <1>10. WriterOk(tx, created', v)
    BY <1>2, <1>5, <1>9 DEF WriterOk, NewRowOk, LocksOk, SnapshotOk, KeyOk
  <1>11. \A q \in Writer \ {r} : Apart(w[q], v)
    BY <1>2, <1>9 DEF Apart
  <1> QED
    BY <1>1, <1>2, <1>9, <1>10, <1>11, OneWriterReads

LEMMA InsertLocks ==
    ASSUME LedgerIInv, NEW r \in Writer, InsertLock(r)
    PROVE  LedgerIInv'
  <1> DEFINE S == {x \in ToSet(w[r].rows) : tx[x].day = w[r].day}
             rows == Within(w[r].rows, S)
             key == KeyBeside(r, rows)
             step == IF key = NoRoom THEN "rebalance" ELSE "insert"
             cur == (rows = Ordered(tx, ToSet(rows)))
             v == [w[r] EXCEPT !.step = step, !.held = ToSet(rows), !.key = key, !.current = cur]
  <1>f. /\ tx \in Tx /\ created \in Nat /\ w \in [Writer -> WriterRow] /\ w[r] \in WriterRow /\ WriterOk(tx, created, w[r]) /\ LocksOk(tx, w[r])
        /\ SeenBy(tx, w[r]) = Seen(r) /\ \A q \in Writer \ {r} : w[q] \in WriterRow /\ Apart(w[q], w[r])
    BY WriterFacts
  <1>1. /\ w[r].step = "lock" /\ w[r].anchor \in ToSet(rows) /\ (\A q \in Writer \ {r} : w[q].held \cap ToSet(rows) = {})
        /\ tx' = tx /\ created' = created /\ reader' = reader
        /\ w' = [w EXCEPT ![r].step = step, ![r].held = ToSet(rows), ![r].key = key, ![r].current = cur]
    BY DEF InsertLock, Free
  <1>2. /\ w[r].rows \in Seq(RowId) /\ (\A i, j \in DOMAIN w[r].rows : w[r].rows[i] = w[r].rows[j] => i = j)
        /\ w[r].day \in Day /\ DOMAIN w[r].renumbered = {}
    BY <1>1, <1>f DEF WriterRow, WriterOk, SnapshotOk, LocksOk
  <1>3. Seen(r) = tx
    BY <1>2, <1>f, SeenTable
  <1>4. rows \in Seq(S) /\ ToSet(rows) = S
    <2>1. S \in SUBSET ToSet(w[r].rows)
      OBVIOUS
    <2> HIDE DEF S
    <2> QED
      BY <1>2, <2>1, WithinRows
  <1>5. S \in SUBSET Rows(tx) /\ S \subseteq RowId /\ \A x \in S : tx[x].day = w[r].day
    <2>1. \A x \in ToSet(w[r].rows) : x \in RowId
      BY <1>2 DEF ToSet
    <2> QED
      BY <1>2, <2>1, FiniteRows DEF Rows, NoTx
  <1> HIDE DEF S, rows
  <1>6. rows \in Seq(RowId)
    BY <1>4, <1>5, SeqMonotonic
  <1>7. key \in Nat \cup {NoRoom}
    BY <1>3, <1>6, <1>f, KeyFits
  <1>8. cur /\ key # NoRoom =>
           /\ w[r].where = "below" => tx[w[r].anchor].key < key /\ \A y \in S \ {w[r].anchor} : Before(tx, w[r].anchor, y) => key < tx[y].key
           /\ w[r].where = "above" => key < tx[w[r].anchor].key /\ \A y \in S \ {w[r].anchor} : Before(tx, y, w[r].anchor) => tx[y].key < key
    <2> HAVE cur /\ key # NoRoom
    <2>1. rows = Ordered(tx, S) /\ w[r].anchor \in S /\ \A x, y \in S : tx[x].day = tx[y].day
      BY <1>1, <1>4, <1>5
    <2> QED
      BY <1>3, <1>5, <1>6, <1>f, <2>1, KeyFits
  <1>9. w' = [w EXCEPT ![r] = v]
    BY <1>1, <1>f
  <1> HIDE DEF key, cur
  <1>10. /\ v \in WriterRow /\ v.step = step /\ v.held = S /\ v.key = key /\ v.current = cur /\ v.row = w[r].row /\ v.day = w[r].day
         /\ v.anchor = w[r].anchor /\ v.where = w[r].where /\ v.rows = w[r].rows /\ v.renumbered = w[r].renumbered
    <2>1. cur \in BOOLEAN /\ step \in Making
      BY DEF cur, Making
    <2> QED
      BY <1>4, <1>5, <1>7, <1>f, <2>1 DEF WriterRow
  <1> HIDE DEF v
  <1>11. SeenBy(tx, v) = tx
    BY <1>3, <1>10, <1>f DEF SeenBy
  <1>12. NewRowOk(tx, created', v) /\ SnapshotOk(v)
    BY <1>1, <1>10, <1>f DEF WriterOk, NewRowOk, SnapshotOk, Making
  <1>13. LocksOk(tx, v)
    BY <1>1, <1>2, <1>4, <1>5, <1>7, <1>10 DEF LocksOk
  <1>14. KeyOk(tx, v)
    BY <1>1, <1>4, <1>5, <1>8, <1>10, <1>11 DEF KeyOk
  <1>15. WriterOk(tx, created', v)
    BY <1>12, <1>13, <1>14 DEF WriterOk
  <1>16. \A q \in Writer \ {r} : Apart(w[q], v)
    BY <1>1, <1>4, <1>10, <1>f DEF Apart, Making
  <1>17. created' \in Nat /\ created <= created'
    BY <1>1, <1>f
  <1> QED
    BY <1>1, <1>9, <1>10, <1>15, <1>16, <1>17, OneWriterReads

\* The rows of the day as a writer sees them.
LEMMA DayRows ==
    ASSUME LedgerIInv, NEW r \in Writer, w[r].step # "rest"
    PROVE  /\ ToSet(DayNow(r)) = RowsOf(tx, w[r].day) /\ RowsOf(tx, w[r].day) \subseteq Rows(tx) /\ RowsOf(tx, w[r].day) \subseteq RowId
           /\ DayNow(r) \in Seq(RowId) /\ DayNow(r) = Ordered(Seen(r), RowsOf(tx, w[r].day))
           /\ Seen(r) \in Tx /\ Rows(Seen(r)) = Rows(tx)
           /\ \A x \in RowsOf(tx, w[r].day) : Seen(r)[x].day = w[r].day /\ tx[x].day = w[r].day
           /\ \A x \in w[r].held : tx[x].day = w[r].day => x \in RowsOf(tx, w[r].day)
           /\ \A i, j \in DOMAIN DayNow(r) : i < j => Before(Seen(r), DayNow(r)[i], DayNow(r)[j])
           /\ \A i, j \in DOMAIN DayNow(r) : DayNow(r)[i] = DayNow(r)[j] => i = j
           /\ \E n \in Nat : DOMAIN DayNow(r) = 1 .. n
  <1> DEFINE D == RowsOf(tx, w[r].day)
             s == Seen(r)
             q == DayNow(r)
  <1>f. tx \in Tx /\ w[r] \in WriterRow /\ LocksOk(tx, w[r]) /\ SeenBy(tx, w[r]) = s
    BY WriterFacts
  <1>1. s \in Tx /\ Rows(s) = Rows(tx) /\ \A x \in RowId : s[x].day = tx[x].day
    BY <1>f, SeenTable
  <1>2. D \in SUBSET Rows(tx) /\ D \subseteq RowId /\ (\A x \in D : tx[x].day = w[r].day) /\ \A x \in Rows(tx) : tx[x].day = w[r].day => x \in D
    BY DEF RowsOf, Rows
  <1>3. RowsOf(s, w[r].day) = D
    BY <1>1 DEF RowsOf, Rows
  <1>4. q = Ordered(s, D)
    BY <1>3 DEF DayNow
  <1> HIDE DEF D, s, q
  <1>5. /\ q \in Seq(D) /\ ToSet(q) = D /\ (\E n \in Nat : DOMAIN q = 1 .. n)
        /\ \A i, j \in DOMAIN q : i < j => Before(s, q[i], q[j])
        /\ \A i, j \in DOMAIN q : q[i] = q[j] => i = j
    BY <1>1, <1>2, <1>4, OrderedRows
  <1>6. q \in Seq(RowId)
    BY <1>2, <1>5, SeqMonotonic
  <1>7. w[r].held \subseteq Rows(tx)
    BY <1>f DEF LocksOk
  <1>8. /\ ToSet(q) = D /\ D \subseteq Rows(tx) /\ D \subseteq RowId /\ q \in Seq(RowId) /\ q = Ordered(s, D) /\ s \in Tx /\ Rows(s) = Rows(tx)
        /\ (\A x \in D : s[x].day = w[r].day /\ tx[x].day = w[r].day) /\ (\A x \in w[r].held : tx[x].day = w[r].day => x \in D)
    BY <1>1, <1>2, <1>4, <1>5, <1>6, <1>7
  <1> QED
    BY <1>5, <1>8 DEF D, s, q

LEMMA Rebalances ==
    ASSUME LedgerIInv, NEW r \in Writer, Rebalance(r)
    PROVE  LedgerIInv'
  <1> DEFINE D == RowsOf(tx, w[r].day)
             rows == DayNow(r)
             place(x) == CHOOSE i \in DOMAIN rows : rows[i] = x
             new == [x \in D |-> Step * place(x)]
             v == [w[r] EXCEPT !.step = "again", !.held = D, !.renumbered = new]
  <1>f. /\ tx \in Tx /\ created \in Nat /\ w \in [Writer -> WriterRow] /\ w[r] \in WriterRow /\ WriterOk(tx, created, w[r]) /\ LocksOk(tx, w[r])
        /\ SeenBy(tx, w[r]) = Seen(r) /\ \A q \in Writer \ {r} : w[q] \in WriterRow /\ Apart(w[q], w[r])
    BY WriterFacts
  <1>1. /\ w[r].step = "rebalance" /\ (\A q \in Writer \ {r} : w[q].held \cap ToSet(rows) = {})
        /\ tx' = tx /\ created' = created /\ reader' = reader
        /\ w' = [w EXCEPT ![r].step = "again", ![r].held = ToSet(rows), ![r].renumbered = [x \in ToSet(rows) |-> Step * place(x)]]
    BY DEF Rebalance, Free
  <1>2. /\ ToSet(rows) = D /\ D \subseteq Rows(tx) /\ D \subseteq RowId /\ (\A x \in D : tx[x].day = w[r].day)
        /\ (\A x \in w[r].held : tx[x].day = w[r].day => x \in D)
        /\ (\A i, j \in DOMAIN rows : i < j => Before(Seen(r), rows[i], rows[j]))
        /\ \E n \in Nat : DOMAIN rows = 1 .. n
    BY <1>1, DayRows
  <1>3. w' = [w EXCEPT ![r] = v]
    BY <1>1, <1>2, <1>f
  <1>4. DOMAIN w[r].renumbered = {} /\ w[r].day \in Day /\ w[r].anchor \in w[r].held /\ tx[w[r].anchor].day = w[r].day
    BY <1>1, <1>f DEF LocksOk
  <1>5. Seen(r) = tx
    BY <1>4, <1>f, SeenTable
  <1>6. \A x \in D : place(x) \in DOMAIN rows /\ rows[place(x)] = x /\ place(x) \in Nat
    <2> TAKE x \in D
    <2>1. \E i \in DOMAIN rows : rows[i] = x
      BY <1>2 DEF ToSet
    <2>2. place(x) \in DOMAIN rows /\ rows[place(x)] = x
      BY <2>1
    <2> QED
      BY <1>2, <2>2
  <1> HIDE DEF place, D, rows
  <1>7. \A x \in D : Step * place(x) \in Nat
    BY <1>6, LedgerAssumption
  <1>8. ASSUME NEW x \in D, NEW y \in D, Before(tx, x, y) PROVE Step * place(x) < Step * place(y)
    <2>1. /\ tx[x].day \in Int /\ tx[x].key \in Nat /\ tx[y].day \in Int /\ tx[y].key \in Nat /\ x \in Int /\ y \in Int
      BY <1>2, <1>f, RowsOfTable
    <2>2. ~ Before(tx, y, x) /\ x # y
      BY <1>8, <2>1 DEF Before
    <2>3. place(x) < place(y)
      <3>1. place(y) < place(x) => Before(tx, y, x)
        BY <1>2, <1>5, <1>6
      <3>2. place(x) # place(y)
        BY <1>6, <2>2
      <3> QED
        BY <1>6, <2>2, <3>1, <3>2
    <2>4. \A a, b, c \in Nat : a < b /\ c # 0 => c * a < c * b
      OBVIOUS
    <2> QED
      BY <1>6, <2>3, <2>4, LedgerAssumption
  <1>9. new \in Renumbering /\ DOMAIN new = D /\ \A x, y \in D : Before(tx, x, y) => new[x] < new[y]
    <2>1. new \in [D -> Nat] /\ D \in SUBSET RowId
      BY <1>2, <1>7
    <2>2. new \in Renumbering
      BY <2>1 DEF Renumbering
    <2> QED
      BY <1>8, <2>1, <2>2
  <1> HIDE DEF new
  <1>10. /\ v \in WriterRow /\ v.step = "again" /\ v.held = D /\ v.row = w[r].row /\ v.day = w[r].day
         /\ v.anchor = w[r].anchor /\ v.rows = w[r].rows /\ v.renumbered = new
    BY <1>2, <1>9, <1>f DEF WriterRow, Making
  <1> HIDE DEF v
  <1>11. NewRowOk(tx, created', v) /\ SnapshotOk(v)
    BY <1>1, <1>10, <1>f DEF WriterOk, NewRowOk, SnapshotOk, Making
  <1>12. LocksOk(tx, v)
    BY <1>2, <1>4, <1>9, <1>10 DEF LocksOk
  <1>13. WriterOk(tx, created', v)
    BY <1>10, <1>11, <1>12 DEF WriterOk, KeyOk
  <1>14. \A q \in Writer \ {r} : Apart(w[q], v)
    BY <1>1, <1>2, <1>10, <1>f DEF Apart, Making
  <1>15. created' \in Nat /\ created <= created'
    BY <1>1, <1>f
  <1> QED
    BY <1>1, <1>3, <1>10, <1>13, <1>14, <1>15, OneWriterReads

LEMMA InsertsAgain ==
    ASSUME LedgerIInv, NEW r \in Writer, InsertAgain(r)
    PROVE  LedgerIInv'
  <1> DEFINE D == RowsOf(tx, w[r].day)
             rows == DayNow(r)
             key == KeyBeside(r, rows)
             v == [w[r] EXCEPT !.step = "insert", !.held = D, !.key = key, !.current = TRUE]
             s == Seen(r)
  <1>f. /\ tx \in Tx /\ created \in Nat /\ w \in [Writer -> WriterRow] /\ w[r] \in WriterRow /\ WriterOk(tx, created, w[r]) /\ LocksOk(tx, w[r])
        /\ SeenBy(tx, w[r]) = s /\ \A q \in Writer \ {r} : w[q] \in WriterRow /\ Apart(w[q], w[r])
    BY WriterFacts
  <1>1. /\ w[r].step = "again" /\ (\A q \in Writer \ {r} : w[q].held \cap ToSet(rows) = {})
        /\ tx' = tx /\ created' = created /\ reader' = reader
        /\ IF key = NoRoom THEN Done(r)
           ELSE w' = [w EXCEPT ![r].step = "insert", ![r].held = ToSet(rows), ![r].key = key, ![r].current = TRUE]
    BY DEF InsertAgain, Free
  <1>2. /\ ToSet(rows) = D /\ D \subseteq Rows(tx) /\ D \subseteq RowId /\ (\A x \in D : tx[x].day = w[r].day /\ s[x].day = w[r].day)
        /\ (\A x \in w[r].held : tx[x].day = w[r].day => x \in D)
        /\ rows \in Seq(RowId) /\ rows = Ordered(s, D) /\ s \in Tx /\ Rows(s) = Rows(tx)
    BY <1>1, DayRows
  <1>3. CASE key = NoRoom
    BY <1>1, <1>3, EndsResting
  <1>4. CASE key # NoRoom
    <2>1. w' = [w EXCEPT ![r] = v]
      BY <1>1, <1>2, <1>4, <1>f
    <2>2. /\ w[r].day \in Day /\ w[r].anchor \in D /\ DOMAIN w[r].renumbered \subseteq D
          /\ \A x, y \in DOMAIN w[r].renumbered : Before(tx, x, y) => w[r].renumbered[x] < w[r].renumbered[y]
      BY <1>1, <1>2, <1>f DEF LocksOk
    <2> HIDE DEF rows, D, s
    <2>s. Seen(r) = s
      BY DEF s
    <2>3. key \in Nat
      BY <1>2, <1>4, <1>f, <2>s, KeyFits
    <2>4. /\ w[r].where = "below" => s[w[r].anchor].key < key /\ \A y \in D \ {w[r].anchor} : Before(s, w[r].anchor, y) => key < s[y].key
          /\ w[r].where = "above" => key < s[w[r].anchor].key /\ \A y \in D \ {w[r].anchor} : Before(s, y, w[r].anchor) => s[y].key < key
      BY <1>2, <1>4, <1>f, <2>2, <2>s, KeyFits
    <2> HIDE DEF key
    <2>5. /\ v \in WriterRow /\ v.step = "insert" /\ v.held = D /\ v.key = key /\ v.current /\ v.row = w[r].row /\ v.day = w[r].day
          /\ v.anchor = w[r].anchor /\ v.where = w[r].where /\ v.rows = w[r].rows /\ v.renumbered = w[r].renumbered
      BY <1>2, <1>f, <2>3 DEF WriterRow, Making
    <2> HIDE DEF v
    <2>6. SeenBy(tx, v) = s
      BY <1>f, <2>5 DEF SeenBy
    <2>7. NewRowOk(tx, created', v) /\ SnapshotOk(v)
      BY <1>1, <1>f, <2>5 DEF WriterOk, NewRowOk, SnapshotOk, Making
    <2>8. LocksOk(tx, v)
      BY <1>2, <2>2, <2>3, <2>5 DEF LocksOk
    <2>9. KeyOk(tx, v)
      BY <1>2, <2>2, <2>4, <2>5, <2>6 DEF KeyOk
    <2>10. WriterOk(tx, created', v)
      BY <2>7, <2>8, <2>9 DEF WriterOk
    <2>11. \A q \in Writer \ {r} : Apart(w[q], v)
      BY <1>1, <1>2, <1>f, <2>5 DEF Apart, Making
    <2>12. created' \in Nat /\ created <= created'
      BY <1>1, <1>f
    <2> QED
      BY <1>1, <2>1, <2>5, <2>10, <2>11, <2>12, OneWriterReads
  <1> QED
    BY <1>3, <1>4

\* A commit changes rows that its writer has locked, or creates its new row.
LEMMA Commits ==
    ASSUME LedgerIInv, NEW r \in Writer, Done(r), tx' \in Tx, created' = created,
           NEW C \in SUBSET w[r].held, reader' = [reader EXCEPT !.steady = reader.steady \ C],
           \A x \in RowId : tx'[x] # tx[x] => x \in C \/ (w[r].step \in Making /\ x = w[r].row)
    PROVE  LedgerIInv'
  <1>f. /\ tx \in Tx /\ created \in Nat /\ w[r] \in WriterRow /\ reader \in ReaderRow /\ WriterOk(tx, created, w[r]) /\ Rows(tx) \subseteq 1 .. created
        /\ \A q \in Writer \ {r} : w[q] \in WriterRow /\ Apart(w[q], w[r]) /\ WriterOk(tx, created, w[q])
    BY WriterFacts
  <1>1. /\ w[r].held \subseteq Rows(tx) /\ (w[r].step \in Making => w[r].row \in 1 .. created /\ w[r].row \in RowId /\ tx[w[r].row] = NoTx)
        /\ \A q \in Writer \ {r} : w[q].held \subseteq Rows(tx) /\ w[q].held \cap w[r].held = {}
                                   /\ (w[q].step \in Making => w[q].row \in RowId /\ tx[w[q].row] = NoTx /\ (w[r].step \in Making => w[q].row # w[r].row))
    BY <1>f DEF WriterOk, LocksOk, NewRowOk, Apart
  <1>2. \A x \in RowId : x \in Rows(tx) <=> tx[x] # NoTx
    BY DEF Rows
  <1>3. Rows(tx') \subseteq 1 .. created'
    <2>1. ASSUME NEW x \in RowId, tx'[x] # NoTx PROVE x \in 1 .. created
      BY <1>1, <1>2, <1>f, <2>1
    <2> QED
      BY <2>1 DEF Rows
  <1>4. \A q \in Writer \ {r} : /\ \A x \in w[q].held : tx'[x] = tx[x]
                                /\ w[q].step \in Making => tx'[w[q].row] = tx[w[q].row]
    <2> TAKE q \in Writer \ {r}
    <2>1. \A x \in w[q].held : x \in RowId /\ tx[x] # NoTx /\ x \notin C
      BY <1>1, <1>2 DEF Rows
    <2>2. w[q].step \in Making => w[q].row \notin C
      BY <1>1, <1>2
    <2> QED
      BY <1>1, <2>1, <2>2
  <1>5. reader.steady \subseteq Rows(tx) /\ ReaderOk(tx, reader)
    BY DEF LedgerIInv, ReaderOk
  <1>6. \A x \in reader.steady \ C : tx'[x] = tx[x]
    BY <1>1, <1>2, <1>5 DEF Rows
  <1>7. reader' \in ReaderRow /\ ReaderOk(tx', reader')
    BY <1>5, <1>6, <1>f, ReaderKept
  <1>8. Resting \in WriterRow /\ WriterOk(tx', created', Resting) /\ \A u \in WriterRow : Apart(u, Resting)
    BY <1>f, RestingOk
  <1>9. w' = [w EXCEPT ![r] = Resting] /\ created' \in Nat /\ created <= created' /\ \A q \in Writer \ {r} : Apart(w[q], Resting)
    BY <1>8, <1>f DEF Done
  <1> QED
    BY <1>3, <1>4, <1>7, <1>8, <1>9, OneWriter

\* A row's new content.
LEMMA NewContent ==
    ASSUME LedgerIInv, NEW r \in Writer, w[r].step \in {"append", "move", "insert"}, NEW t \in Tx
    PROVE  /\ [day |-> w[r].day, key |-> w[r].key] \in TxRow
           /\ w[r].row \in RowId
           /\ [t EXCEPT ![w[r].row] = [day |-> w[r].day, key |-> w[r].key]] \in Tx
  <1>1. w[r] \in WriterRow /\ WriterOk(tx, created, w[r])
    BY WriterFacts
  <1>2. w[r].day \in Day /\ w[r].key \in Nat
    BY <1>1 DEF WriterOk, LocksOk
  <1>3. w[r].row \in RowId
    BY <1>1 DEF WriterOk, LocksOk, NewRowOk, Making, Rows
  <1>4. [day |-> w[r].day, key |-> w[r].key] \in TxRow
    BY <1>2 DEF TxRow
  <1> QED
    BY <1>3, <1>4 DEF Tx

LEMMA CommitSteps ==
    ASSUME LedgerIInv, NEW r \in Writer, AppendCommit(r) \/ MoveCommit(r) \/ InsertCommit(r)
    PROVE  LedgerIInv'
  <1>f. /\ tx \in Tx /\ w[r] \in WriterRow /\ reader \in ReaderRow /\ LocksOk(tx, w[r]) /\ SeenBy(tx, w[r]) = Seen(r)
    BY WriterFacts
  <1> DEFINE new == [day |-> w[r].day, key |-> w[r].key]
  <1>1. CASE AppendCommit(r)
    <2>1. /\ w[r].step = "append" /\ tx' = [tx EXCEPT ![w[r].row] = new] /\ Done(r) /\ created' = created /\ reader' = reader
      BY <1>1 DEF AppendCommit
    <2>2. tx' \in Tx
      BY <1>f, <2>1, NewContent
    <2>5. PICK C \in SUBSET w[r].held : C = {}
      OBVIOUS
    <2>3. reader' = [reader EXCEPT !.steady = reader.steady \ C]
      BY <1>f, <2>1, <2>5 DEF ReaderRow
    <2>4. \A x \in RowId : tx'[x] # tx[x] => x \in C \/ (w[r].step \in Making /\ x = w[r].row)
      BY <1>f, <2>1 DEF Tx, Making
    <2> QED
      BY <2>1, <2>2, <2>3, <2>4, Commits
  <1>2. CASE MoveCommit(r)
    <2>1. /\ w[r].step = "move" /\ tx' = [tx EXCEPT ![w[r].row] = new] /\ Done(r) /\ created' = created
          /\ reader' = [reader EXCEPT !.steady = reader.steady \ {w[r].row}]
      BY <1>2 DEF MoveCommit, Rewrites
    <2>2. tx' \in Tx
      BY <1>f, <2>1, NewContent
    <2>3. {w[r].row} \in SUBSET w[r].held
      BY <1>f, <2>1 DEF LocksOk
    <2>4. \A x \in RowId : tx'[x] # tx[x] => x \in {w[r].row} \/ (w[r].step \in Making /\ x = w[r].row)
      BY <1>f, <2>1 DEF Tx
    <2> QED
      BY <2>1, <2>2, <2>3, <2>4, Commits
  <1>3. CASE InsertCommit(r)
    <2>1. /\ w[r].step = "insert" /\ tx' = [Seen(r) EXCEPT ![w[r].row] = new] /\ Done(r) /\ created' = created
          /\ reader' = [reader EXCEPT !.steady = reader.steady \ DOMAIN w[r].renumbered]
      BY <1>3 DEF InsertCommit, Rewrites
    <2>2. Seen(r) \in Tx
      BY <1>f, SeenTable
    <2>3. tx' \in Tx
      BY <2>1, <2>2, NewContent
    <2>4. DOMAIN w[r].renumbered \in SUBSET w[r].held
      BY <1>f DEF LocksOk
    <2>5. \A x \in RowId : x \notin DOMAIN w[r].renumbered => Seen(r)[x] = tx[x]
      BY DEF Seen
    <2>6. \A x \in RowId : tx'[x] # tx[x] => x \in DOMAIN w[r].renumbered \/ (w[r].step \in Making /\ x = w[r].row)
      BY <2>1, <2>2, <2>5 DEF Tx, Making
    <2> QED
      BY <2>1, <2>3, <2>4, <2>6, Commits
  <1> QED
    BY <1>1, <1>2, <1>3

LEMMA Deletes ==
    ASSUME LedgerIInv, NEW S \in SUBSET RowId, BulkDelete(S)
    PROVE  LedgerIInv'
  <1>f. /\ tx \in Tx /\ created \in Nat /\ w \in [Writer -> WriterRow] /\ reader \in ReaderRow /\ Rows(tx) \subseteq 1 .. created
        /\ ReaderOk(tx, reader) /\ (\A q \in Writer : WriterOk(tx, created, w[q])) /\ \A p, q \in Writer : p # q => Apart(w[p], w[q])
    BY DEF LedgerIInv, LedgerTypeOK
  <1>1. /\ (\A q \in Writer : w[q].held \cap S = {}) /\ S \subseteq Rows(tx)
        /\ tx' = [x \in RowId |-> IF x \in S THEN NoTx ELSE tx[x]]
        /\ reader' = [reader EXCEPT !.steady = reader.steady \ S] /\ created' = created /\ w' = w
    BY DEF BulkDelete, Rewrites
  <1>2. tx' \in Tx
    BY <1>1, <1>f DEF Tx
  <1>3. Rows(tx') \subseteq Rows(tx)
    BY <1>1 DEF Rows
  <1>4. ASSUME NEW q \in Writer PROVE WriterOk(tx', created', w'[q])
    <2>1. w[q] \in WriterRow /\ WriterOk(tx, created, w[q]) /\ w[q].held \subseteq RowId
      BY <1>f DEF WriterRow
    <2>2. \A x \in w[q].held : tx'[x] = tx[x]
      BY <1>1, <2>1
    <2>3. w[q].step \in Making => w[q].row \in RowId /\ tx[w[q].row] = NoTx
      BY <2>1 DEF WriterOk, NewRowOk
    <2>4. w[q].step \in Making => tx'[w[q].row] = tx[w[q].row]
      BY <1>1, <2>3
    <2>5. WriterOk(tx', created, w[q])
      BY <1>2, <1>f, <2>1, <2>2, <2>4, OkKept
    <2> QED
      BY <1>1, <2>5
  <1>5. reader' \in ReaderRow /\ ReaderOk(tx', reader')
    <2>1. reader.steady \subseteq RowId
      BY <1>f DEF ReaderRow
    <2>2. \A x \in reader.steady \ S : tx'[x] = tx[x]
      BY <1>1, <2>1
    <2> QED
      BY <1>1, <1>2, <1>f, <2>2, ReaderKept
  <1>6. LedgerTypeOK'
    BY <1>1, <1>2, <1>5, <1>f DEF LedgerTypeOK
  <1>7. \A p, q \in Writer : p # q => Apart(w'[p], w'[q])
    BY <1>1, <1>f
  <1>8. Rows(tx') \subseteq 1 .. created'
    BY <1>1, <1>3, <1>f
  <1> QED
    BY <1>4, <1>5, <1>6, <1>7, <1>8 DEF LedgerIInv, WriterOk, NewRowOk, LocksOk, SnapshotOk, KeyOk, SeenBy, Apart, ReaderOk, ToRead, PlacedBefore, Before, Rows

\* A step of the reader.
LEMMA ReaderMoves ==
    ASSUME LedgerIInv, UNCHANGED <<tx, created, w>>, reader' \in ReaderRow, ReaderOk(tx, reader')
    PROVE  LedgerIInv'
  <1>1. tx' = tx /\ created' = created /\ w' = w
    OBVIOUS
  <1>2. LedgerTypeOK'
    BY <1>1 DEF LedgerIInv, LedgerTypeOK
  <1>3. Rows(tx') \subseteq 1 .. created' /\ ReaderOk(tx', reader')
    BY <1>1 DEF LedgerIInv
  <1>4. /\ \A r \in Writer : WriterOk(tx', created', w'[r])
        /\ \A q, r \in Writer : q # r => Apart(w'[q], w'[r])
    BY <1>1 DEF LedgerIInv
  <1> QED
    BY <1>2, <1>3, <1>4 DEF LedgerIInv, WriterOk, NewRowOk, LocksOk, SnapshotOk, KeyOk, SeenBy, Apart, ReaderOk, ToRead, PlacedBefore, Before, Rows

LEMMA NothingSeen == \A x : Never(<<>>, x)
  BY DEF Never

LEMMA NoReaderFields ==
    /\ NoReader \in ReaderRow
    /\ NoReader.step = "rest" /\ NoReader.seen = <<>> /\ ~ NoReader.forward /\ NoReader.steady = {}
  <1>1. 0 \in 0 .. MaxRow /\ <<>> \in Seq(RowId)
    BY LedgerAssumption
  <1> QED
    BY <1>1 DEF NoReader, ReaderRow

LEMMA ReadingBegins ==
    ASSUME LedgerIInv, ReadBegin \/ \E x \in RowId : ReadForward(x)
    PROVE  LedgerIInv'
  <1>f. tx \in Tx /\ Rows(tx) \subseteq RowId
    BY DEF LedgerIInv, LedgerTypeOK, Rows
  <1>1. CASE ReadBegin
    <2> DEFINE d == [NoReader EXCEPT !.step = "first", !.steady = Rows(tx)]
    <2>1. reader' = d /\ UNCHANGED <<tx, created, w>>
      BY <1>1 DEF ReadBegin
    <2>2. d \in ReaderRow /\ d.step = "first" /\ d.steady = Rows(tx) /\ d.seen = <<>> /\ ~ d.forward
      BY <1>f, NoReaderFields DEF ReaderRow
    <2> HIDE DEF d
    <2>3. ReaderOk(tx, d)
      BY <2>2 DEF ReaderOk
    <2> QED
      BY <2>1, <2>2, <2>3, ReaderMoves
  <1>2. ASSUME NEW x \in RowId, ReadForward(x) PROVE LedgerIInv'
    <2> DEFINE S == {y \in Rows(tx) : Before(tx, x, y)}
               d == [NoReader EXCEPT !.step = "next", !.forward = TRUE, !.cursor = x, !.at = tx[x], !.steady = S]
    <2>1. reader' = d /\ x \in Rows(tx) /\ UNCHANGED <<tx, created, w>>
      BY <1>2 DEF ReadForward
    <2>2. S \subseteq Rows(tx) /\ S \subseteq RowId
      BY <1>f
    <2>3. tx[x] \in TxRow /\ x \in 0 .. MaxRow
      BY <1>f, <2>1, LedgerAssumption DEF Tx, Rows, RowId
    <2>4. ASSUME NEW y \in S PROVE ~ PlacedBefore(tx, y, tx[x], x) /\ y # x
      <3>1. Before(tx, x, y) /\ y \in Rows(tx)
        OBVIOUS
      <3>2. tx[x].day \in Int /\ tx[x].key \in Nat /\ tx[y].day \in Int /\ tx[y].key \in Nat /\ x \in Int /\ y \in Int
        BY <1>f, <2>1, <3>1, RowsOfTable
      <3> QED
        BY <3>1, <3>2 DEF Before, PlacedBefore
    <2> HIDE DEF S
    <2>5. d \in ReaderRow /\ d.step = "next" /\ d.steady = S /\ d.seen = <<>> /\ d.forward /\ d.cursor = x /\ d.at = tx[x]
      BY <2>2, <2>3, NoReaderFields DEF ReaderRow
    <2> HIDE DEF d
    <2>6. \A y \in S : ToRead(tx, d, y)
      BY <2>4, <2>5 DEF ToRead
    <2>7. ReaderOk(tx, d)
      BY <2>2, <2>3, <2>5, <2>6, NothingSeen DEF ReaderOk
    <2> QED
      BY <2>1, <2>5, <2>7, ReaderMoves
  <1> QED
    BY <1>1, <1>2

\* Rows in reading order.
Reading(t, rows, found, forward) ==
    /\ rows \in Seq(found) /\ Len(rows) \in Nat /\ DOMAIN rows = 1 .. Len(rows) /\ ToSet(rows) = found
    /\ \A i \in 1 .. Len(rows) : rows[i] \in found
    /\ \A i, j \in 1 .. Len(rows) : i < j => IF forward THEN Before(t, rows[i], rows[j]) ELSE Before(t, rows[j], rows[i])
    /\ \A i, j \in 1 .. Len(rows) : rows[i] = rows[j] => i = j

LEMMA ReadingOrder ==
    ASSUME NEW t \in Tx, NEW found \in SUBSET Rows(t), NEW forward \in BOOLEAN
    PROVE  Reading(t, IF forward THEN Ordered(t, found) ELSE Reverse(Ordered(t, found)), found, forward)
  <1> DEFINE q == Ordered(t, found)
             n == Len(q)
  <1>1. /\ q \in Seq(found) /\ DOMAIN q = 1 .. n /\ n \in Nat /\ (\A i \in DOMAIN q : q[i] \in found) /\ ToSet(q) = found
        /\ \A i, j \in DOMAIN q : i < j => Before(t, q[i], q[j])
        /\ \A i, j \in DOMAIN q : q[i] = q[j] => i = j
    BY OrderedRows
  <1> HIDE DEF q
  <1>2. CASE forward
    BY <1>1, <1>2 DEF Reading, q
  <1>3. CASE ~ forward
    <2> DEFINE p == Reverse(q)
    <2>1. p = [i \in 1 .. n |-> q[(n - i) + 1]]
      BY DEF Reverse
    <2> HIDE DEF p, n
    <2>n. n \in Nat
      BY <1>1
    <2>2. \A i \in 1 .. n : n - i + 1 \in 1 .. n /\ p[i] = q[n - i + 1]
      BY <2>1, <2>n
    <2>3. p \in [1 .. n -> found]
      BY <1>1, <2>1, <2>2
    <2>4. p \in Seq(found) /\ Len(p) = n /\ DOMAIN p = 1 .. n
      BY <2>3, <2>n
    <2>5. \A i, j \in 1 .. n : i < j => Before(t, p[j], p[i])
      <3> TAKE i, j \in 1 .. n
      <3> HAVE i < j
      <3>1. n - j + 1 < n - i + 1
        BY <2>n
      <3> QED
        BY <1>1, <2>2, <3>1
    <2>6. \A i, j \in 1 .. n : p[i] = p[j] => i = j
      <3> TAKE i, j \in 1 .. n
      <3> HAVE p[i] = p[j]
      <3>1. n - i + 1 = n - j + 1
        BY <1>1, <2>2
      <3> QED
        BY <2>n, <3>1
    <2>7. ToSet(p) = found
      <3>1. ASSUME NEW x \in found PROVE \E i \in 1 .. n : p[i] = x
        <4>1. PICK k \in 1 .. n : q[k] = x
          BY <1>1, <3>1 DEF ToSet
        <4>2. n - k + 1 \in 1 .. n /\ n - (n - k + 1) + 1 = k
          BY <2>n, <4>1
        <4>3. p[n - k + 1] = x
          BY <2>2, <4>1, <4>2
        <4> QED
          BY <4>2, <4>3
      <3> QED
        BY <2>3, <2>4, <3>1 DEF ToSet
    <2>8. Reading(t, p, found, forward)
      BY <1>3, <2>3, <2>4, <2>5, <2>6, <2>7, <2>n DEF Reading
    <2> QED
      BY <1>3, <2>8 DEF p, q
  <1> QED
    BY <1>2, <1>3

\* Occurrences in a sequence that is continued.
LEMMA Continued ==
    ASSUME NEW s \in Seq(RowId), NEW p \in Seq(RowId), NEW x
    PROVE  /\ Never(s, x) /\ Never(p, x) => Never(s \o p, x)
           /\ Once(s, x) /\ Never(p, x) => Once(s \o p, x)
           /\ Never(s, x) /\ Once(p, x) => Once(s \o p, x)
  <1> DEFINE a == Len(s)
             b == Len(p)
             z == s \o p
  <1>1. a \in Nat /\ b \in Nat /\ DOMAIN s = 1 .. a /\ DOMAIN p = 1 .. b
    OBVIOUS
  <1>2. z \in Seq(RowId) /\ Len(z) = a + b /\ \A i \in 1 .. a + b : z[i] = IF i <= a THEN s[i] ELSE p[i - a]
    BY ConcatProperties
  <1>3. DOMAIN z = 1 .. a + b
    BY <1>2
  <1> HIDE DEF a, b, z
  <1>4. \A i \in 1 .. a : i \in 1 .. a + b /\ z[i] = s[i]
    BY <1>1, <1>2
  <1>5. \A i \in 1 .. b : a + i \in 1 .. a + b /\ z[a + i] = p[i]
    <2> TAKE i \in 1 .. b
    <2>1. a + i \in 1 .. a + b /\ ~ (a + i <= a) /\ (a + i) - a = i
      BY <1>1
    <2> QED
      BY <1>2, <2>1
  <1>6. \A i \in 1 .. a + b : i \in 1 .. a \/ i - a \in 1 .. b
    BY <1>1
  <1>7. ASSUME NEW i \in 1 .. a + b PROVE (i \in 1 .. a /\ z[i] = s[i]) \/ (i - a \in 1 .. b /\ z[i] = p[i - a])
    BY <1>1, <1>2, <1>7
  <1>8. Never(s, x) /\ Never(p, x) => Never(z, x)
    BY <1>1, <1>3, <1>7 DEF Never
  <1>9. Once(s, x) /\ Never(p, x) => Once(z, x)
    <2> HAVE Once(s, x) /\ Never(p, x)
    <2>1. PICK i \in 1 .. a : s[i] = x /\ \A j \in 1 .. a : s[j] = x => j = i
      BY <1>1 DEF Once
    <2>2. i \in 1 .. a + b /\ z[i] = x
      BY <1>4, <2>1
    <2>3. \A j \in 1 .. a + b : z[j] = x => j = i
      BY <1>1, <1>7, <2>1 DEF Never
    <2> QED
      BY <1>3, <2>2, <2>3 DEF Once
  <1>10. Never(s, x) /\ Once(p, x) => Once(z, x)
    <2> HAVE Never(s, x) /\ Once(p, x)
    <2>1. PICK i \in 1 .. b : p[i] = x /\ \A j \in 1 .. b : p[j] = x => j = i
      BY <1>1 DEF Once
    <2>2. a + i \in 1 .. a + b /\ z[a + i] = x
      BY <1>5, <2>1
    <2>3. ASSUME NEW j \in 1 .. a + b, z[j] = x PROVE j = a + i
      <3>1. j - a \in 1 .. b /\ p[j - a] = x
        BY <1>1, <1>7, <2>3 DEF Never
      <3>2. j - a = i
        BY <2>1, <3>1
      <3> QED
        BY <1>1, <2>1, <2>3, <3>2
    <2> QED
      BY <1>3, <2>2, <2>3 DEF Once
  <1> QED
    BY <1>8, <1>9, <1>10 DEF z

\* The page ends the reading, or leaves what comes after its last row.
LEMMA PageRead ==
    ASSUME LedgerIInv, ReadPage
    PROVE  LedgerIInv'
  <1> DEFINE d == reader
             found == {x \in Rows(tx) : d.step = "next" => IF d.forward THEN Newer(x) ELSE Older(x)}
             rows == IF d.forward THEN Ordered(tx, found) ELSE Reverse(Ordered(tx, found))
             n == Len(rows)
             m == IF n < Limit THEN n ELSE Limit
             page == SubSeq(rows, 1, m)
             more == n > Limit
             cursor == IF page = <<>> THEN d.cursor ELSE Last(page)
             at == IF page = <<>> THEN d.at ELSE tx[Last(page)]
             e == [d EXCEPT !.step = IF more THEN "next" ELSE "end", !.seen = d.seen \o page, !.cursor = cursor, !.at = at]
  <1>f. tx \in Tx /\ d \in ReaderRow /\ ReaderOk(tx, d) /\ Rows(tx) \subseteq RowId
    BY DEF LedgerIInv, LedgerTypeOK, Rows
  <1>1. d.step \in {"first", "next"} /\ reader' = e /\ UNCHANGED <<tx, created, w>>
    BY DEF ReadPage
  <1>2. found \in SUBSET Rows(tx) /\ found \subseteq RowId
    BY <1>f
  <1>3. \A x \in Rows(tx) : x \in found <=> (d.step = "next" => ToRead(tx, d, x))
    BY DEF ToRead, PlacedBefore, Newer, Older
  <1> HIDE DEF found, d
  <1>4. Reading(tx, rows, found, d.forward)
    <2>1. d.forward \in BOOLEAN
      BY <1>f DEF ReaderRow
    <2> QED
      BY <1>2, <1>f, <2>1, ReadingOrder
  <1> HIDE DEF rows
  <1>5. n \in Nat /\ m \in Nat /\ m <= n /\ m <= Limit /\ Limit \in Nat /\ Limit > 0 /\ (more => m = Limit /\ m < n) /\ (~ more => m = n)
    <2>1. n \in Nat /\ Limit \in Nat /\ Limit # 0
      BY <1>4, LedgerAssumption DEF Reading
    <2> HIDE DEF n
    <2> QED
      BY <2>1
  <1>r. /\ rows \in Seq(found) /\ DOMAIN rows = 1 .. n /\ ToSet(rows) = found /\ (\A i \in 1 .. n : rows[i] \in found)
        /\ (\A i, j \in 1 .. n : i < j => IF d.forward THEN Before(tx, rows[i], rows[j]) ELSE Before(tx, rows[j], rows[i]))
        /\ (\A i, j \in 1 .. n : rows[i] = rows[j] => i = j)
    BY <1>4 DEF Reading
  <1> HIDE DEF n, m, more
  <1>6. page \in Seq(RowId) /\ Len(page) = m /\ DOMAIN page = 1 .. m /\ \A i \in 1 .. m : page[i] = rows[i]
    <2>1. 1 \in Int /\ m \in Int /\ \A i \in 1 .. m : rows[i] \in RowId
      BY <1>2, <1>5, <1>r
    <2>2. /\ page \in Seq(RowId) /\ Len(page) = (IF 1 <= m THEN m - 1 + 1 ELSE 0)
          /\ \A i \in 1 .. m - 1 + 1 : page[i] = rows[1 + i - 1]
      BY <2>1, SubSeqProperties
    <2> HIDE DEF page
    <2>3. m - 1 + 1 = m /\ \A i \in 1 .. m : 1 + i - 1 = i
      BY <1>5
    <2>4. Len(page) = m
      BY <1>5, <2>2
    <2>5. \A i \in 1 .. m : page[i] = rows[i]
      BY <2>2, <2>3
    <2> QED
      BY <2>2, <2>4, <2>5
  <1> HIDE DEF page
  <1>7. more => cursor = rows[m] /\ at = tx[rows[m]] /\ rows[m] \in found /\ m \in 1 .. n
    <2> HAVE more
    <2>1. m \in 1 .. m /\ m \in 1 .. n
      BY <1>5
    <2>2. page # <<>>
      BY <1>6, <2>1
    <2> QED
      BY <1>6, <1>r, <2>1, <2>2 DEF Last
  <1>8. cursor \in 0 .. MaxRow /\ at \in TxRow \cup {NoTx}
    <2>1. CASE page = <<>>
      BY <1>f, <2>1 DEF ReaderRow
    <2>2. CASE page # <<>>
      <3>1. m \in 1 .. m
        <4>1. m # 0
          BY <1>6, <2>2
        <4> QED
          BY <1>5, <4>1
      <3>2. Last(page) \in RowId
        BY <1>6, <3>1 DEF Last
      <3> QED
        BY <1>f, <2>2, <3>2, LedgerAssumption DEF Tx, RowId
    <2> QED
      BY <2>1, <2>2
  <1>9. d.seen \in Seq(RowId) /\ d.seen \o page \in Seq(RowId)
    BY <1>6, <1>f, ConcatProperties DEF ReaderRow
  <1> DEFINE seen == d.seen \o page
  <1> HIDE DEF cursor, at
  <1>10. /\ e \in ReaderRow /\ e.step = (IF more THEN "next" ELSE "end") /\ e.seen = seen /\ e.cursor = cursor /\ e.at = at
         /\ e.forward = d.forward /\ e.steady = d.steady
    BY <1>8, <1>9, <1>f DEF ReaderRow
  <1> HIDE DEF e, seen
  <1>s. d.steady \subseteq Rows(tx)
    BY <1>f DEF ReaderOk
  \* What was seen before this page.
  <1>11. \A x \in d.steady : IF x \in found THEN Never(d.seen, x) ELSE d.step = "next" /\ ~ ToRead(tx, d, x) /\ Once(d.seen, x)
    <2> TAKE x \in d.steady
    <2>1. CASE d.step = "first"
      BY <1>3, <1>f, <1>s, <2>1, NothingSeen DEF ReaderOk
    <2>2. CASE d.step = "next"
      BY <1>3, <1>f, <1>s, <2>2 DEF ReaderOk
    <2> QED
      BY <1>1, <2>1, <2>2
  <1>12. \A x \in RowId : x \notin found => Never(page, x)
    BY <1>5, <1>6, <1>r DEF Never
  <1>13. ASSUME NEW x \in found PROVE \E k \in 1 .. n : rows[k] = x
    BY <1>13, <1>r DEF ToSet
  <1>14. ASSUME NEW k \in 1 .. n
         PROVE  (k <= m => Once(page, rows[k])) /\ (~ (k <= m) => Never(page, rows[k]))
    <2>1. \A j \in 1 .. m : j \in 1 .. n
      BY <1>5
    <2>2. ASSUME k <= m PROVE Once(page, rows[k])
      <3>1. k \in 1 .. m
        BY <1>5, <1>14, <2>2
      <3> QED
        BY <1>6, <1>r, <2>1, <3>1 DEF Once
    <2>3. ASSUME ~ (k <= m) PROVE Never(page, rows[k])
      <3>1. k \notin 1 .. m
        BY <1>5, <1>14, <2>3
      <3> QED
        BY <1>6, <1>r, <2>1, <3>1 DEF Never
    <2> QED
      BY <2>2, <2>3
  <1>15. ASSUME ~ more, NEW x \in d.steady PROVE Once(seen, x)
    <2>1. CASE x \in found
      <3>1. PICK k \in 1 .. n : rows[k] = x
        BY <1>13, <2>1
      <3>2. Once(page, x)
        BY <1>5, <1>14, <1>15, <3>1
      <3> QED
        BY <1>6, <1>9, <1>11, <1>15, <2>1, <3>2, Continued DEF seen
    <2>2. CASE x \notin found
      <3>1. Never(page, x)
        BY <1>12, <1>15, <1>f, <1>s, <2>2
      <3> QED
        BY <1>6, <1>9, <1>11, <1>15, <2>2, <3>1, Continued DEF seen
    <2> QED
      BY <2>1, <2>2
  <1>16. ASSUME more, NEW x \in d.steady PROVE IF ToRead(tx, e, x) THEN Never(seen, x) ELSE Once(seen, x)
    <2> DEFINE c == rows[m]
    <2>1. c \in found /\ c \in Rows(tx) /\ m \in 1 .. n /\ cursor = c /\ at = tx[c]
      BY <1>2, <1>7, <1>16
    <2> HIDE DEF c
    <2>2. /\ tx[x].day \in Int /\ tx[x].key \in Nat /\ x \in Int /\ tx[c].day \in Int /\ tx[c].key \in Nat /\ c \in Int /\ x \in Rows(tx)
      BY <1>f, <1>s, <1>16, <2>1, RowsOfTable
    <2>3. ToRead(tx, e, x) <=> IF d.forward THEN Before(tx, c, x) ELSE Before(tx, x, c)
      <3>1. PlacedBefore(tx, x, e.at, e.cursor) <=> Before(tx, x, c)
        BY <1>10, <2>1 DEF PlacedBefore, Before
      <3>2. ToRead(tx, e, x) <=> IF d.forward THEN ~ Before(tx, x, c) /\ ~ (x = c /\ tx[x] = tx[c]) ELSE Before(tx, x, c)
        BY <1>10, <2>1, <3>1 DEF ToRead
      <3>3. ~ Before(tx, x, c) /\ x # c <=> Before(tx, c, x)
        BY <2>2 DEF Before
      <3> QED
        BY <3>2, <3>3
    <2>4. ASSUME NEW y \in Rows(tx) PROVE tx[y].day \in Int /\ tx[y].key \in Nat /\ y \in Int
      BY <1>f, <2>4, RowsOfTable
    <2>5. CASE x \in found
      <3>1. PICK k \in 1 .. n : rows[k] = x
        BY <1>13, <2>5
      <3>2. Never(d.seen, x)
        BY <1>11, <1>16, <2>5
      <3>3. CASE k <= m
        <4>1. k = m \/ k < m
          BY <1>5, <3>1, <3>3
        <4>2. x = c \/ IF d.forward THEN Before(tx, x, c) ELSE Before(tx, c, x)
          BY <1>r, <2>1, <3>1, <4>1 DEF c
        <4>3. ~ ToRead(tx, e, x)
          BY <2>2, <2>3, <4>2 DEF Before
        <4>4. Once(page, x)
          BY <1>14, <3>1, <3>3
        <4>5. Once(seen, x)
          BY <1>6, <1>9, <3>2, <4>4, Continued DEF seen
        <4> QED
          BY <4>3, <4>5
      <3>4. CASE ~ (k <= m)
        <4>1. m < k
          BY <1>5, <3>1, <3>4
        <4>2. IF d.forward THEN Before(tx, c, x) ELSE Before(tx, x, c)
          BY <1>r, <2>1, <3>1, <4>1 DEF c
        <4>3. Never(page, x)
          BY <1>14, <3>1, <3>4
        <4>4. Never(seen, x)
          BY <1>6, <1>9, <3>2, <4>3, Continued DEF seen
        <4> QED
          BY <2>3, <4>2, <4>4
      <3> QED
        BY <3>3, <3>4
    <2>6. CASE x \notin found
      <3>1. d.step = "next" /\ ~ ToRead(tx, d, x) /\ Once(d.seen, x)
        BY <1>11, <1>16, <2>6
      <3>2. ToRead(tx, d, c) /\ d.at \in TxRow /\ d.cursor \in RowId
        BY <1>3, <1>f, <2>1, <3>1 DEF ReaderOk
      <3>3. d.at.day \in Int /\ d.at.key \in Nat /\ d.cursor \in Int
        BY <3>2, FiniteRows DEF TxRow
      <3>4. ~ ToRead(tx, e, x)
        <4>1. CASE d.forward
          <5>1. PlacedBefore(tx, x, d.at, d.cursor) \/ (x = d.cursor /\ tx[x] = d.at)
            BY <3>1, <4>1 DEF ToRead
          <5>2. ~ PlacedBefore(tx, c, d.at, d.cursor) /\ ~ (c = d.cursor /\ tx[c] = d.at)
            BY <3>2, <4>1 DEF ToRead
          <5>3. ~ Before(tx, c, x)
            BY <2>2, <3>3, <5>1, <5>2 DEF PlacedBefore, Before
          <5> QED
            BY <2>3, <4>1, <5>3
        <4>2. CASE ~ d.forward
          <5>1. ~ PlacedBefore(tx, x, d.at, d.cursor) /\ PlacedBefore(tx, c, d.at, d.cursor)
            BY <3>1, <3>2, <4>2 DEF ToRead
          <5>2. ~ Before(tx, x, c)
            BY <2>2, <3>3, <5>1 DEF PlacedBefore, Before
          <5> QED
            BY <2>3, <4>2, <5>2
        <4> QED
          BY <4>1, <4>2
      <3>5. Never(page, x)
        BY <1>12, <1>f, <2>2, <2>6
      <3>6. Once(seen, x)
        BY <1>6, <1>9, <3>1, <3>5, Continued DEF seen
      <3> QED
        BY <3>4, <3>6
    <2> QED
      BY <2>5, <2>6
  <1>17. ReaderOk(tx, e)
    <2>1. more => at \in TxRow /\ cursor \in RowId
      BY <1>2, <1>7, <1>f, RowsOfTable
    <2> QED
      BY <1>10, <1>15, <1>16, <1>s, <2>1 DEF ReaderOk
  <1> QED
    BY <1>1, <1>10, <1>17, ReaderMoves

LEMMA InitLedgerIInv == LedgerInit => LedgerIInv
  <1> SUFFICES ASSUME LedgerInit PROVE LedgerIInv
    OBVIOUS
  <1>1. PICK n \in 0 .. 2, day \in Day, key \in {<<Step, 2 * Step>>, <<1, 2>>, <<Step, Step>>} :
            tx = [x \in RowId |-> IF x <= n THEN [day |-> day, key |-> key[x]] ELSE NoTx] /\ created = n
    BY DEF LedgerInit
  <1>2. w = [r \in Writer |-> Resting] /\ reader = NoReader
    BY DEF LedgerInit
  <1>3. Step \in Nat /\ 2 * Step \in Nat /\ RowId \subseteq Int /\ \A x \in RowId : 1 <= x
    BY LedgerAssumption, FiniteRows DEF RowId
  <1>4. key[1] \in Nat /\ key[2] \in Nat
    BY <1>3
  <1>5. ASSUME NEW x \in RowId, x <= n PROVE [day |-> day, key |-> key[x]] \in TxRow /\ x \in 1 .. n
    <2>1. x = 1 \/ x = 2
      BY <1>1, <1>3, <1>5
    <2>2. key[x] \in Nat
      BY <1>4, <2>1
    <2> QED
      BY <1>1, <1>3, <1>5, <2>2 DEF TxRow
  <1>6. tx \in Tx /\ Rows(tx) \subseteq 1 .. created /\ created \in Nat
    <2>1. tx \in Tx
      BY <1>1, <1>5 DEF Tx
    <2>2. Rows(tx) \subseteq 1 .. n
      BY <1>1, <1>5 DEF Rows
    <2> QED
      BY <1>1, <2>1, <2>2
  <1>7. Resting \in WriterRow /\ WriterOk(tx, created, Resting) /\ Apart(Resting, Resting)
    BY <1>6, RestingOk
  <1>8. reader \in ReaderRow /\ ReaderOk(tx, reader)
    BY <1>2, NoReaderFields DEF ReaderOk
  <1> QED
    BY <1>2, <1>6, <1>7, <1>8 DEF LedgerIInv, LedgerTypeOK

LEMMA NextLedgerIInv == LedgerIInv /\ [LedgerNext]_ledgerVars => LedgerIInv'
  <1> SUFFICES ASSUME LedgerIInv, [LedgerNext]_ledgerVars PROVE LedgerIInv'
    OBVIOUS
  <1>1. CASE UNCHANGED ledgerVars
    <2>1. UNCHANGED <<tx, created, w, reader>>
      BY <1>1 DEF ledgerVars
    <2>2. reader' \in ReaderRow /\ ReaderOk(tx, reader')
      BY <2>1 DEF LedgerIInv, LedgerTypeOK
    <2> QED
      BY <2>1, <2>2, ReaderMoves
  <1>2. ASSUME NEW r \in Writer, AppendCommit(r) \/ MoveCommit(r) \/ InsertCommit(r) PROVE LedgerIInv'
    BY <1>2, CommitSteps
  <1>3. ASSUME NEW r \in Writer, InsertLock(r) \/ Rebalance(r) \/ InsertAgain(r) PROVE LedgerIInv'
    BY <1>3, InsertLocks, Rebalances, InsertsAgain
  <1>4. ASSUME NEW r \in Writer, AnchorMissing(r) \/ Rollback(r) PROVE LedgerIInv'
    <2>1. Done(r) /\ UNCHANGED <<tx, created, reader>>
      BY <1>4 DEF AnchorMissing, Rollback
    <2> QED
      BY <2>1, EndsResting
  <1>5. ASSUME NEW r \in Writer, NEW day \in Day, AppendRead(r, day) PROVE LedgerIInv'
    BY <1>5, AppendReads
  <1>6. ASSUME NEW r \in Writer, NEW x \in RowId, NEW day \in Day, MoveRead(r, x, day) PROVE LedgerIInv'
    BY <1>6, MoveReads
  <1>7. ASSUME NEW r \in Writer, NEW x \in RowId, NEW where \in {"above", "below"}, InsertBegin(r, x, where) PROVE LedgerIInv'
    BY <1>7, InsertBegins
  <1>8. ASSUME NEW x \in RowId, DeleteTransaction(x) PROVE LedgerIInv'
    <2>1. {x} \in SUBSET RowId /\ BulkDelete({x})
      BY <1>8 DEF DeleteTransaction
    <2> QED
      BY <2>1, Deletes
  <1>9. ASSUME NEW S \in SUBSET RowId, BulkDelete(S) PROVE LedgerIInv'
    BY <1>9, Deletes
  <1>10. ASSUME ReadBegin \/ \E x \in RowId : ReadForward(x) PROVE LedgerIInv'
    BY <1>10, ReadingBegins
  <1>11. ASSUME ReadPage PROVE LedgerIInv'
    BY <1>11, PageRead
  <1> QED
    BY <1>1, <1>2, <1>3, <1>4, <1>5, <1>6, <1>7, <1>8, <1>9, <1>10, <1>11 DEF LedgerNext

\* The inductive invariant of the order of the ledger.
THEOREM LedgerInductive == LedgerSpec => []LedgerIInv
  BY InitLedgerIInv, NextLedgerIInv, PTL DEF LedgerSpec

\* The model of the ledger's order keeps its types.
THEOREM LedgerTypeCorrect == LedgerSpec => []LedgerTypeOK
  <1>1. LedgerIInv => LedgerTypeOK
    BY DEF LedgerIInv
  <1> QED
    BY <1>1, LedgerInductive, PTL

\* Whoever pages through the history sees every row that stayed where it was
\* exactly once (list_transaction_history with its cursor), for any number of
\* writers and rows, every page size and whatever is written meanwhile.
THEOREM PagingReadsEachOnce == LedgerSpec => []ReadsEachOnce
  <1>1. LedgerIInv => ReadsEachOnce
    <2> SUFFICES ASSUME LedgerIInv, NEW x \in reader.steady
                 PROVE  LET times == Cardinality({i \in DOMAIN reader.seen : reader.seen[i] = x})
                        IN  times <= 1 /\ (reader.step = "end" => times = 1)
      BY DEF ReadsEachOnce
    <2> DEFINE places == {i \in DOMAIN reader.seen : reader.seen[i] = x}
    <2>1. Never(reader.seen, x) \/ Once(reader.seen, x)
      BY NothingSeen DEF LedgerIInv, LedgerTypeOK, ReaderRow, ReaderOk
    <2>2. reader.step = "end" => Once(reader.seen, x)
      BY DEF LedgerIInv, ReaderOk
    <2>3. Never(reader.seen, x) => places = {}
      BY DEF Never
    <2>4. Once(reader.seen, x) => \E i : places = {i}
      BY DEF Once
    <2> HIDE DEF places
    <2>5. Never(reader.seen, x) => Cardinality(places) = 0
      BY <2>3, FS_EmptySet
    <2>6. Once(reader.seen, x) => Cardinality(places) = 1
      BY <2>4, FS_Singleton
    <2>7. Cardinality(places) <= 1 /\ (reader.step = "end" => Cardinality(places) = 1)
      BY <2>1, <2>2, <2>5, <2>6
    <2> QED
      BY <2>7 DEF places
  <1> QED
    BY <1>1, LedgerInductive, PTL

\* Which rows a step changes.
LEMMA Changes ==
    ASSUME LedgerIInv, LedgerNext, NEW x \in RowId, tx'[x] # tx[x]
    PROVE  \/ \E r \in Writer : InsertCommit(r) /\ (x = w[r].row \/ x \in DOMAIN w[r].renumbered)
           \/ tx[x] = NoTx /\ \E r \in Writer : w[r].step = "append" /\ x = w[r].row
           \/ tx[x] # NoTx /\ tx'[x] = NoTx
           \/ \E r \in Writer : w[r].step = "move" /\ x = w[r].row /\ tx'[x].day # tx[x].day /\ tx[x] # NoTx
  <1>t. tx \in Tx /\ tx' # tx
    BY DEF LedgerIInv, LedgerTypeOK
  <1>1. ASSUME NEW r \in Writer, AppendCommit(r) PROVE x = w[r].row /\ tx[x] = NoTx /\ w[r].step = "append"
    <2>1. w[r].step = "append" /\ tx' = [tx EXCEPT ![w[r].row] = [day |-> w[r].day, key |-> w[r].key]]
      BY <1>1 DEF AppendCommit
    <2>2. x = w[r].row
      BY <1>t, <2>1 DEF Tx
    <2>3. tx[w[r].row] = NoTx
      BY <2>1 DEF LedgerIInv, WriterOk, NewRowOk, Making
    <2> QED
      BY <2>1, <2>2, <2>3
  <1>2. ASSUME NEW r \in Writer, MoveCommit(r) PROVE w[r].step = "move" /\ x = w[r].row /\ tx'[x].day # tx[x].day /\ tx[x] # NoTx
    <2>1. w[r].step = "move" /\ tx' = [tx EXCEPT ![w[r].row] = [day |-> w[r].day, key |-> w[r].key]]
      BY <1>2 DEF MoveCommit
    <2>2. x = w[r].row
      BY <1>t, <2>1 DEF Tx
    <2>3. tx[w[r].row].day # w[r].day /\ w[r].row \in Rows(tx)
      BY <2>1 DEF LedgerIInv, WriterOk, LocksOk
    <2>4. tx'[x].day = w[r].day
      BY <1>t, <2>1, <2>2 DEF Tx
    <2> QED
      BY <2>1, <2>2, <2>3, <2>4 DEF Rows
  <1>3. ASSUME NEW r \in Writer, InsertCommit(r) PROVE x = w[r].row \/ x \in DOMAIN w[r].renumbered
    <2>1. tx' = [Seen(r) EXCEPT ![w[r].row] = [day |-> w[r].day, key |-> w[r].key]]
      BY <1>3 DEF InsertCommit
    <2>2. x # w[r].row => tx'[x] = Seen(r)[x]
      BY <2>1 DEF Seen
    <2>3. x \notin DOMAIN w[r].renumbered => Seen(r)[x] = tx[x]
      BY DEF Seen
    <2> QED
      BY <2>2, <2>3
  <1>4. ASSUME NEW S \in SUBSET RowId, BulkDelete(S) PROVE tx[x] # NoTx /\ tx'[x] = NoTx
    BY <1>4 DEF BulkDelete, Rows
  <1>5. ASSUME NEW r \in Writer, InsertLock(r) \/ Rebalance(r) \/ InsertAgain(r) \/ AnchorMissing(r) \/ Rollback(r) PROVE FALSE
    BY <1>5, <1>t DEF InsertLock, Rebalance, InsertAgain, AnchorMissing, Rollback
  <1>6. ASSUME NEW r \in Writer, NEW day \in Day, AppendRead(r, day) PROVE FALSE
    BY <1>6, <1>t DEF AppendRead
  <1>7. ASSUME NEW r \in Writer, NEW y \in RowId, NEW day \in Day, MoveRead(r, y, day) PROVE FALSE
    BY <1>7, <1>t DEF MoveRead
  <1>8. ASSUME NEW r \in Writer, NEW y \in RowId, NEW where \in {"above", "below"}, InsertBegin(r, y, where) PROVE FALSE
    BY <1>8, <1>t DEF InsertBegin
  <1>9. ASSUME NEW y \in RowId, ReadForward(y) PROVE FALSE
    BY <1>9, <1>t DEF ReadForward
  <1>10. ASSUME ReadBegin \/ ReadPage PROVE FALSE
    BY <1>10, <1>t DEF ReadBegin, ReadPage
  <1>11. ASSUME NEW y \in RowId, DeleteTransaction(y) PROVE tx[x] # NoTx /\ tx'[x] = NoTx
    <2>1. {y} \in SUBSET RowId /\ BulkDelete({y})
      BY <1>11 DEF DeleteTransaction
    <2> QED
      BY <1>4, <2>1
  <1> QED
    BY <1>1, <1>2, <1>3, <1>4, <1>5, <1>6, <1>7, <1>8, <1>9, <1>10, <1>11 DEF LedgerNext

\* The table after an insert: its new row, and everything else as it saw it.
LEMMA AfterInsert ==
    ASSUME LedgerIInv, NEW r \in Writer, InsertCommit(r)
    PROVE  /\ w[r].row \in RowId /\ tx[w[r].row] = NoTx /\ tx'[w[r].row] = [day |-> w[r].day, key |-> w[r].key]
           /\ \A y \in RowId \ {w[r].row} : tx'[y] = Seen(r)[y]
           /\ w[r].day \in Day /\ w[r].key \in Nat
  <1>f. tx \in Tx /\ w[r] \in WriterRow /\ WriterOk(tx, created, w[r]) /\ LocksOk(tx, w[r]) /\ SeenBy(tx, w[r]) = Seen(r)
    BY WriterFacts
  <1>1. w[r].step = "insert" /\ tx' = [Seen(r) EXCEPT ![w[r].row] = [day |-> w[r].day, key |-> w[r].key]]
    BY DEF InsertCommit
  <1>2. Seen(r) \in Tx
    BY <1>f, SeenTable
  <1>3. w[r].row \in RowId /\ tx[w[r].row] = NoTx /\ w[r].day \in Day /\ w[r].key \in Nat
    BY <1>1, <1>f DEF WriterOk, NewRowOk, LocksOk, Making
  <1> QED
    BY <1>1, <1>2, <1>3 DEF Tx

\* An insert lands beside its anchor (_allocate_order_key, _midpoint_or_rebalance),
\* for every step between keys and any number of writers.
THEOREM InsertsLandBesideAnchor == LedgerSpec => LandsBesideAnchor
  <1> DEFINE Comes(r, x, y) == IF w[r].where = "below" THEN Before(tx', x, y) ELSE Before(tx', y, x)
             Lands(r) == (w[r].step = "insert" /\ w[r].current /\ tx'[w[r].row] # tx[w[r].row]) =>
                            /\ Comes(r, w[r].anchor, w[r].row)
                            /\ \A y \in w[r].held \ {w[r].anchor} : ~ (Comes(r, w[r].anchor, y) /\ Comes(r, y, w[r].row))
  <1>1. ASSUME LedgerIInv, LedgerNext, NEW r \in Writer PROVE Lands(r)
    <2> SUFFICES ASSUME w[r].step = "insert", w[r].current, tx'[w[r].row] # tx[w[r].row]
                 PROVE  /\ Comes(r, w[r].anchor, w[r].row)
                        /\ \A y \in w[r].held \ {w[r].anchor} : ~ (Comes(r, w[r].anchor, y) /\ Comes(r, y, w[r].row))
      OBVIOUS
    <2>f. /\ tx \in Tx /\ w[r] \in WriterRow /\ WriterOk(tx, created, w[r]) /\ LocksOk(tx, w[r]) /\ SeenBy(tx, w[r]) = Seen(r)
          /\ \A q \in Writer \ {r} : Apart(w[q], w[r]) /\ WriterOk(tx, created, w[q])
      BY <1>1, WriterFacts
    <2>1. w[r].row \in RowId /\ tx[w[r].row] = NoTx
      BY <2>f DEF WriterOk, NewRowOk, Making
    <2>2. InsertCommit(r)
      <3>1. ASSUME NEW q \in Writer, w[q].step = "append" \/ w[q].step = "insert", w[r].row = w[q].row PROVE q = r
        BY <2>f, <3>1 DEF Apart, Making
      <3>2. ASSUME NEW q \in Writer PROVE w[r].row \notin DOMAIN w[q].renumbered
        <4>1. DOMAIN w[q].renumbered \subseteq Rows(tx)
          BY <1>1, <3>2 DEF LedgerIInv, WriterOk, LocksOk
        <4> QED
          BY <2>1, <4>1 DEF Rows
      <3>3. ASSUME NEW q \in Writer, InsertCommit(q) PROVE w[q].step = "insert"
        BY <3>3 DEF InsertCommit
      <3> QED
        BY <1>1, <2>1, <3>1, <3>2, <3>3, Changes
    <2> DEFINE s == Seen(r)
               a == w[r].anchor
               new == w[r].row
    <2>3. /\ tx'[new].day = w[r].day /\ tx'[new].key = w[r].key /\ w[r].day \in Int /\ w[r].key \in Nat
          /\ \A y \in RowId \ {new} : tx'[y] = s[y]
      <3>1. /\ tx'[new] = [day |-> w[r].day, key |-> w[r].key] /\ w[r].day \in Day /\ w[r].key \in Nat
            /\ \A y \in RowId \ {new} : tx'[y] = s[y]
        BY <1>1, <2>2, AfterInsert
      <3>2. w[r].day \in Int
        BY <3>1, FiniteRows
      <3> QED
        BY <3>1, <3>2
    <2>4. w[r].held \subseteq Rows(tx) /\ new \notin w[r].held
      BY <2>1, <2>f DEF LocksOk, Rows
    <2>5. s \in Tx /\ Rows(s) = Rows(tx) /\ \A x \in RowId : s[x].day = tx[x].day
      BY <2>f, SeenTable
    <2>6. /\ a \in w[r].held /\ (\A y \in w[r].held : tx[y].day = w[r].day)
          /\ w[r].where = "below" => s[a].key < w[r].key /\ \A y \in w[r].held \ {a} : Before(s, a, y) => w[r].key < s[y].key
          /\ w[r].where = "above" => w[r].key < s[a].key /\ \A y \in w[r].held \ {a} : Before(s, y, a) => s[y].key < w[r].key
      BY <2>f DEF WriterOk, KeyOk
    <2> HIDE DEF s
    <2>7. ASSUME NEW y \in w[r].held
          PROVE  /\ tx'[y] = s[y] /\ s[y].day = w[r].day /\ s[y].key \in Nat /\ y \in RowId
      <3>1. y \in Rows(s) /\ y \in RowId /\ y # new
        BY <2>4, <2>5, <2>7 DEF Rows
      <3>2. s[y].key \in Nat
        BY <2>5, <3>1, RowsOfTable
      <3> QED
        BY <2>3, <2>5, <2>6, <2>7, <3>1, <3>2
    <2>8. \A y, z \in w[r].held : Before(tx', y, z) <=> Before(s, y, z)
      BY <2>7 DEF Before
    <2>w. w[r].where \in {"above", "below"}
      BY <2>f DEF WriterRow
    <2> DEFINE k == w[r].key
    <2>9. \A y \in w[r].held : /\ s[y].key < k => Before(tx', y, new) /\ ~ Before(tx', new, y)
                               /\ k < s[y].key => Before(tx', new, y) /\ ~ Before(tx', y, new)
      BY <2>3, <2>7 DEF Before
    <2>10. CASE w[r].where = "below"
      <3>1. Before(tx', a, new)
        BY <2>6, <2>9, <2>10
      <3>2. \A y \in w[r].held \ {a} : ~ (Before(tx', a, y) /\ Before(tx', y, new))
        BY <2>6, <2>8, <2>9, <2>10
      <3> QED
        BY <2>10, <3>1, <3>2
    <2>11. CASE w[r].where = "above"
      <3>1. Before(tx', new, a)
        BY <2>6, <2>9, <2>11
      <3>2. \A y \in w[r].held \ {a} : ~ (Before(tx', y, a) /\ Before(tx', new, y))
        BY <2>6, <2>8, <2>9, <2>11
      <3> QED
        BY <2>11, <3>1, <3>2
    <2> QED
      BY <2>10, <2>11, <2>w
  <1>2. LedgerIInv /\ [LedgerNext]_ledgerVars => [\A r \in Writer : Lands(r)]_ledgerVars
    BY <1>1
  <1>3. [][\A r \in Writer : Lands(r)]_ledgerVars => LandsBesideAnchor
    BY PTL DEF LandsBesideAnchor
  <1> QED
    BY <1>2, <1>3, LedgerInductive, PTL DEF LedgerSpec

\* Two rows of a day that nobody moved keep their order (_rebalance_order_keys
\* renumbers what it has locked), unless a renumbering did not know one of them.
THEOREM OrderOfRowsIsKept == LedgerSpec => OrderIsKept
  <1> DEFINE Stay(x, y) == x # y /\ {x, y} \subseteq Rows(tx) /\ Before(tx, x, y) /\ {x, y} \subseteq Rows(tx') /\ tx'[x].day = tx[x].day /\ tx'[y].day = tx[y].day
             Unknown(x, y) == \E r \in Writer : w[r].step = "insert" /\ ({x, y} \cap DOMAIN w[r].renumbered) \notin {{}, {x, y}}
             Kept(x, y) == Stay(x, y) => Before(tx', x, y) \/ Unknown(x, y)
  <1>1. ASSUME LedgerIInv, LedgerNext, NEW x \in RowId, NEW y \in RowId PROVE Kept(x, y)
    <2> SUFFICES ASSUME Stay(x, y) PROVE Before(tx', x, y) \/ Unknown(x, y)
      OBVIOUS
    <2>1. tx[x] # NoTx /\ tx[y] # NoTx /\ tx'[x] # NoTx /\ tx'[y] # NoTx /\ tx'[x].day = tx[x].day /\ tx'[y].day = tx[y].day /\ Before(tx, x, y)
      BY DEF Rows
    <2>2. CASE tx'[x] = tx[x] /\ tx'[y] = tx[y]
      BY <2>1, <2>2 DEF Before
    <2>3. ASSUME NEW z \in {x, y}, tx'[z] # tx[z] PROVE Before(tx', x, y) \/ Unknown(x, y)
      <3>1. PICK r \in Writer : InsertCommit(r) /\ (z = w[r].row \/ z \in DOMAIN w[r].renumbered)
        BY <1>1, <2>1, <2>3, Changes
      <3>2. /\ w[r].row \in RowId /\ tx[w[r].row] = NoTx /\ \A v \in RowId \ {w[r].row} : tx'[v] = Seen(r)[v]
        BY <1>1, <3>1, AfterInsert
      <3>3. z \in DOMAIN w[r].renumbered /\ x # w[r].row /\ y # w[r].row /\ w[r].step = "insert"
        BY <2>1, <3>1, <3>2 DEF InsertCommit
      <3>4. CASE ~ {x, y} \subseteq DOMAIN w[r].renumbered
        <4>1. ({x, y} \cap DOMAIN w[r].renumbered) \notin {{}, {x, y}}
          BY <3>3, <3>4
        <4> QED
          BY <3>3, <4>1
      <3>5. CASE {x, y} \subseteq DOMAIN w[r].renumbered
        <4>1. /\ tx \in Tx /\ w[r] \in WriterRow /\ LocksOk(tx, w[r])
          BY <1>1, WriterFacts
        <4>2. w[r].renumbered[x] < w[r].renumbered[y] /\ tx[x].day = w[r].day /\ tx[y].day = w[r].day
          BY <2>1, <3>5, <4>1 DEF LocksOk
        <4>3. tx'[x] = [tx[x] EXCEPT !.key = w[r].renumbered[x]] /\ tx'[y] = [tx[y] EXCEPT !.key = w[r].renumbered[y]]
          BY <3>2, <3>3, <3>5 DEF Seen
        <4>4. tx[x] \in TxRow /\ tx[y] \in TxRow
          BY <2>1, <4>1 DEF Tx
        <4>5. tx'[x].key = w[r].renumbered[x] /\ tx'[y].key = w[r].renumbered[y]
          BY <4>3, <4>4 DEF TxRow
        <4> QED
          BY <2>1, <4>2, <4>5 DEF Before
      <3> QED
        BY <3>4, <3>5
    <2> QED
      BY <2>2, <2>3
  <1>2. LedgerIInv /\ [LedgerNext]_ledgerVars =>
          [\A x, y \in RowId :
             (x # y /\ {x, y} \subseteq Rows(tx) /\ Before(tx, x, y) /\ {x, y} \subseteq Rows(tx') /\ tx'[x].day = tx[x].day /\ tx'[y].day = tx[y].day)
                => \/ Before(tx', x, y)
                   \/ \E r \in Writer : w[r].step = "insert" /\ ({x, y} \cap DOMAIN w[r].renumbered) \notin {{}, {x, y}}]_ledgerVars
    BY <1>1
  <1> QED
    BY <1>2, LedgerInductive, PTL DEF LedgerSpec, OrderIsKept

---------------------------------------------------------------------------
(* LedgerTransfer                                                          *)

\* Export, journey, apply and members, without fairness.
TransferSpec == TransferInit /\ [][TransferNext]_transferVars

\* An enumeration that follows the order is the sorted sequence.
LEMMA SortedIsUnique ==
    ASSUME NEW S, NEW R, Orders(R, S), NEW n \in Nat, NEW g \in [1 .. n -> S],
           \A x \in S : \E i \in 1 .. n : g[i] = x,
           \A i, j \in 1 .. n : i < j => <<g[i], g[j]>> \in R
    PROVE  IsFiniteSet(S) /\ Sorted(S, R) = g
<1> DEFINE below(x) == {y \in S : <<y, x>> \in R}
<1>1. \A i, j \in 1 .. n : g[i] = g[j] => i = j
  <2> SUFFICES ASSUME NEW i \in 1 .. n, NEW j \in 1 .. n, g[i] = g[j], i # j
               PROVE  FALSE
    OBVIOUS
  <2>1. i < j \/ j < i
    OBVIOUS
  <2> QED
    BY <2>1 DEF Orders
<1>2. IsFiniteSet(1 .. n) /\ Cardinality(1 .. n) = n
  BY FS_Interval
<1>3. g \in Surjection(1 .. n, S) /\ g \in Injection(1 .. n, S)
  BY <1>1 DEF Surjection, Injection, IsInjective
<1>4. IsFiniteSet(S) /\ Cardinality(S) = n
  BY <1>2, <1>3, FS_Surjection
<1>5. ASSUME NEW i \in 1 .. n
      PROVE  Cardinality(below(g[i])) = i - 1
  <2> DEFINE T == {g[k] : k \in 1 .. i - 1}
             h == [k \in 1 .. i - 1 |-> g[k]]
  <2>1. below(g[i]) = T
    <3>1. \A k \in 1 .. i - 1 : k \in 1 .. n /\ k < i
      OBVIOUS
    <3>2. ASSUME NEW y \in below(g[i])
          PROVE  y \in T
      <4>1. PICK k \in 1 .. n : g[k] = y
        OBVIOUS
      <4>2. k # i /\ ~ (i < k)
        BY <4>1 DEF Orders
      <4>3. k \in 1 .. i - 1
        BY <4>2
      <4> QED
        BY <4>1, <4>3
    <3>3. ASSUME NEW y \in T
          PROVE  y \in below(g[i])
      BY <3>1
    <3> QED
      BY <3>2, <3>3
  <2>2. h \in Surjection(1 .. i - 1, T) /\ h \in Injection(1 .. i - 1, T)
    <3>1. \A k \in 1 .. i - 1 : k \in 1 .. n
      OBVIOUS
    <3>2. h \in [1 .. i - 1 -> T]
      OBVIOUS
    <3>3. \A y \in T : \E k \in 1 .. i - 1 : h[k] = y
      OBVIOUS
    <3>4. \A j, k \in 1 .. i - 1 : h[j] = h[k] => j = k
      BY <3>1, <1>1
    <3> QED
      BY <3>2, <3>3, <3>4 DEF Surjection, Injection, IsInjective
  <2>3. IsFiniteSet(1 .. i - 1) /\ Cardinality(1 .. i - 1) = i - 1
    BY FS_Interval
  <2>4. Cardinality(T) = i - 1
    BY <2>2, <2>3, FS_Surjection
  <2> QED
    BY <2>1, <2>4
<1>6. Sorted(S, R) = [i \in 1 .. n |-> CHOOSE x \in S : Cardinality(below(x)) = i - 1]
  BY <1>4 DEF Sorted
<1> HIDE DEF below
<1>7. ASSUME NEW i \in 1 .. n
      PROVE  (CHOOSE x \in S : Cardinality(below(x)) = i - 1) = g[i]
  <2>1. g[i] \in S /\ Cardinality(below(g[i])) = i - 1
    BY <1>5
  <2>2. ASSUME NEW x \in S, Cardinality(below(x)) = i - 1
        PROVE  x = g[i]
    <3>1. PICK k \in 1 .. n : g[k] = x
      OBVIOUS
    <3>2. Cardinality(below(g[k])) = k - 1
      BY <1>5
    <3>3. k = i
      BY <2>2, <3>1, <3>2
    <3> QED
      BY <3>1, <3>3
  <2> QED
    BY <2>1, <2>2
<1> QED
  BY <1>4, <1>6, <1>7

\* A finite set of naturals has a largest element.
LEMMA LargestNatural ==
    ASSUME NEW S \in SUBSET Nat, IsFiniteSet(S), S # {}
    PROVE  Max(S) \in S /\ \A y \in S : y <= Max(S)
<1> DEFINE R == {p \in S \X S : p[1] < p[2]}
<1>1. \A x, y \in S : <<x, y>> \in R <=> x < y
  OBVIOUS
<1> HIDE DEF R
<1>2. Orders(R, S)
  BY <1>1 DEF Orders
<1> DEFINE n == Cardinality(S)
           s == Sorted(S, R)
<1>3. /\ n \in Nat /\ s \in [1 .. n -> S] /\ \A x \in S : \E i \in 1 .. n : s[i] = x
      /\ \A i, j \in 1 .. n : i < j => <<s[i], s[j]>> \in R
  BY <1>2, SortedByRank
<1> HIDE DEF n, s
<1>4. n \in 1 .. n
  <2>1. PICK x \in S : TRUE
    OBVIOUS
  <2>2. PICK i \in 1 .. n : s[i] = x
    BY <1>3
  <2> QED
    BY <1>3, <2>2
<1>5. s[n] \in S /\ \A y \in S : s[n] >= y
  <2>1. s[n] \in S
    BY <1>3, <1>4
  <2>2. ASSUME NEW y \in S
        PROVE  s[n] >= y
    <3>1. PICK i \in 1 .. n : s[i] = y
      BY <1>3
    <3>2. CASE i = n
      BY <3>1, <3>2, <2>1
    <3>3. CASE i # n
      <4>1. i < n
        BY <3>3, <1>3
      <4>2. <<s[i], s[n]>> \in R
        BY <4>1, <1>3, <1>4
      <4>3. y < s[n]
        BY <3>1, <4>2, <1>1, <2>1
      <4>4. y \in Nat /\ s[n] \in Nat
        BY <2>1
      <4> QED
        BY <4>3, <4>4
    <3> QED
      BY <3>2, <3>3
  <2> QED
    BY <2>1, <2>2
<1>6. Max(S) = CHOOSE x \in S : \A y \in S : x >= y
  BY DEF Max
<1>7. Max(S) \in S /\ \A y \in S : Max(S) >= y
  BY <1>5, <1>6
<1> QED
  BY <1>7

\* Multiples of a positive step grow.
LEMMA LargerProduct ==
    ASSUME NEW a \in Nat, NEW b \in Nat, NEW c \in Nat \ {0}, a < b
    PROVE  c * a < c * b /\ c * a \in Nat /\ c * b \in Nat
<1>1. PICK d \in Nat : b = a + d /\ d >= 1
  <2>1. b - a \in Nat /\ b = a + (b - a) /\ b - a >= 1
    OBVIOUS
  <2> QED
    BY <2>1
<1>2. c * b = c * a + c * d
  BY <1>1
<1>3. c * d >= 1 /\ c * a \in Nat /\ c * d \in Nat
  BY <1>1
<1> QED
  BY <1>2, <1>3

\* Sooner orders rows that have different numbers.
LEMMA SoonerFacts ==
    ASSUME NEW S, \A a \in S : a.day \in Nat /\ a.key \in Nat
    PROVE  /\ \A a \in S, i \in Int : ~ Sooner(a, a, i, i)
           /\ \A a, b, c \in S, i, j, k \in Int : Sooner(a, b, i, j) /\ Sooner(b, c, j, k) => Sooner(a, c, i, k)
           /\ \A a, b \in S, i, j \in Int : i # j => Sooner(a, b, i, j) \/ Sooner(b, a, j, i)
  BY DEF Sooner

\* The rows of the source: finitely many, numbered.
SourceOK ==
    /\ IsFiniteSet(source.rows)
    /\ \A r \in source.rows : r.id \in Nat /\ r.day \in Nat /\ r.key \in Nat
    /\ \A r, s \in source.rows : r.id = s.id => r = s
    /\ source.holdings \in SUBSET [account : Account, name : OwnerName]

\* The rows of the target: members' rows have numbers up to MaxNewcomer.
HomeOK ==
    /\ home = [rows |-> home.rows, holdings |-> home.holdings]
    /\ IsFiniteSet(home.rows)
    /\ \A r \in home.rows : r.key \in Nat
    /\ transfer.step # "done" => \A r \in home.rows : r.id \in Int /\ r.id <= MaxNewcomer

\* An intact package is the source; one being applied is intact.
ExportedRows == [i \in DOMAIN InOrder(source.rows) |-> Exported(InOrder(source.rows)[i])]

\* An intact package is the source; one being applied is intact.
PackageOK ==
    /\ package = [rows |-> package.rows, holdings |-> package.holdings, intact |-> package.intact]
    /\ transfer = [step |-> transfer.step, deleted |-> transfer.deleted]
    /\ package.intact \in BOOLEAN
    /\ package.intact => package.rows = ExportedRows /\ package.holdings = source.holdings
    /\ transfer.step = "deleted" => package.intact

\* The inductive invariant of AppliedIsExported.
TransferInv == SourceOK /\ HomeOK /\ PackageOK

\* A source of numbered rows, an empty target, no package.
LEMMA TransferInitial == TransferInit => TransferInv
<1> SUFFICES ASSUME TransferInit
             PROVE  TransferInv
  OBVIOUS
<1> DEFINE Holdings == SUBSET [account : Account, name : OwnerName]
           Numbered(n) == {g \in [1 .. n -> UNION {SourceRow(i) : i \in 1 .. n}] : \A i \in 1 .. n : g[i].id = i}
<1>1. PICK n \in 0 .. MaxSource : \E f \in Numbered(n) : \E hs \in Holdings : source = [rows |-> {f[i] : i \in 1 .. n}, holdings |-> hs]
  BY DEF TransferInit
<1> HIDE DEF Holdings
<1>2. PICK f \in Numbered(n) : \E hs \in Holdings : source = [rows |-> {f[i] : i \in 1 .. n}, holdings |-> hs]
  BY <1>1
<1>3. PICK hs \in Holdings : source = [rows |-> {f[i] : i \in 1 .. n}, holdings |-> hs]
  BY <1>2
<1>4. f \in [1 .. n -> UNION {SourceRow(i) : i \in 1 .. n}] /\ \A i \in 1 .. n : f[i].id = i
  BY <1>2
<1>5. source.rows = {f[i] : i \in 1 .. n} /\ source.holdings \in Holdings
  BY <1>3
<1>6. n \in Nat /\ IsFiniteSet(1 .. n)
  BY TransferAssumption, FS_Interval
<1>7. f \in Surjection(1 .. n, source.rows)
  BY <1>4, <1>5 DEF Surjection
<1>8. IsFiniteSet(source.rows)
  BY <1>6, <1>7, FS_Surjection
<1>9. ASSUME NEW i \in 1 .. n
      PROVE  f[i].day \in Nat /\ f[i].key \in Nat
  <2>1. PICK k \in 1 .. n : f[i] \in SourceRow(k)
    BY <1>4
  <2>2. OrderStep \in Nat /\ 2 * OrderStep \in Nat /\ SourceDay \in SUBSET Nat
    BY TransferAssumption
  <2> DEFINE Keys == {OrderStep, 2 * OrderStep}
             Categorized == Category \cup {Nobody}
             Refs == SourceRefs \cup {Nobody}
  <2>3. f[i] \in [id : {k}, day : SourceDay, key : Keys, cat : Categorized, ref : Refs]
    BY <2>1 DEF SourceRow
  <2> HIDE DEF Keys, Categorized, Refs
  <2>4. f[i].day \in SourceDay /\ f[i].key \in Keys
    BY <2>3
  <2> QED
    BY <2>2, <2>4 DEF Keys
<1>10. SourceOK
  <2>1. \A r \in source.rows : \E i \in 1 .. n : r = f[i] /\ r.id = i
    BY <1>4, <1>5
  <2>2. \A r \in source.rows : r.id \in Nat /\ r.day \in Nat /\ r.key \in Nat
    <3> TAKE r \in source.rows
    <3>1. PICK i \in 1 .. n : r = f[i] /\ r.id = i
      BY <2>1
    <3>2. i \in Nat /\ f[i].day \in Nat /\ f[i].key \in Nat
      BY <1>6, <1>9
    <3> QED
      BY <3>1, <3>2
  <2>3. \A r, s \in source.rows : r.id = s.id => r = s
    BY <2>1
  <2> QED
    BY <2>2, <2>3, <1>8, <1>5 DEF SourceOK, Holdings
<1>11. HomeOK
  <2> DEFINE row == [id |-> -1, day |-> CHOOSE d \in SourceDay : TRUE, key |-> OrderStep, cat |-> Nobody, ref |-> Nobody]
  <2>1. home = [rows |-> {row}, holdings |-> {}] /\ row.key \in Nat /\ row.id = -1
    BY TransferAssumption DEF TransferInit
  <2> HIDE DEF row
  <2>2. IsFiniteSet({row})
    BY FS_Singleton
  <2> QED
    BY <2>1, <2>2, TransferAssumption DEF HomeOK
<1>12. PackageOK
  BY DEF TransferInit, PackageOK, NoPackage, NoTransfer
<1> QED
  BY <1>10, <1>11, <1>12 DEF TransferInv

\* The source's list of its transactions.
LEMMA SourceInOrder ==
    ASSUME SourceOK
    PROVE  LET n == Cardinality(source.rows)
               old == InOrder(source.rows)
           IN  /\ n \in Nat /\ old \in [1 .. n -> source.rows] /\ DOMAIN old = 1 .. n
               /\ \A i, j \in 1 .. n : i < j => Sooner(old[i], old[j], old[i].id, old[j].id)
<1> DEFINE S == source.rows
           R == {p \in S \X S : Sooner(p[1], p[2], p[1].id, p[2].id)}
<1>1. \A x, y \in S : <<x, y>> \in R <=> Sooner(x, y, x.id, y.id)
  OBVIOUS
<1>2. \A r \in S : r.id \in Int /\ r.day \in Nat /\ r.key \in Nat
  BY DEF SourceOK
<1>3. IsFiniteSet(S) /\ \A r, s \in S : r.id = s.id => r = s
  BY DEF SourceOK
<1>4. InOrder(S) = Sorted(S, R)
  BY DEF InOrder
<1> HIDE DEF S, R
<1>5. Orders(R, S)
  <2>1. \A x \in S : <<x, x>> \notin R
    BY <1>1, <1>2, SoonerFacts
  <2>2. \A x, y, z \in S : <<x, y>> \in R /\ <<y, z>> \in R => <<x, z>> \in R
    BY <1>1, <1>2, SoonerFacts
  <2>3. \A x, y \in S : x # y => <<x, y>> \in R \/ <<y, x>> \in R
    BY <1>1, <1>2, <1>3, SoonerFacts
  <2> QED
    BY <2>1, <2>2, <2>3 DEF Orders
<1> DEFINE n == Cardinality(S)
           old == Sorted(S, R)
<1>6. n \in Nat /\ old \in [1 .. n -> S] /\ \A i, j \in 1 .. n : i < j => <<old[i], old[j]>> \in R
  BY <1>3, <1>5, SortedByRank
<1> HIDE DEF n, old
<1>7. \A i, j \in 1 .. n : i < j => Sooner(old[i], old[j], old[i].id, old[j].id)
  BY <1>1, <1>6
<1>8. n \in Nat /\ old \in [1 .. n -> S] /\ DOMAIN old = 1 .. n
  BY <1>6
<1> QED
  BY <1>4, <1>7, <1>8 DEF n, old, S

\* The largest key of a day.
LEMMA LastKeyFacts ==
    ASSUME NEW rows, IsFiniteSet(rows), \A r \in rows : r.key \in Nat, NEW day
    PROVE  LastKey(rows, day) \in Nat /\ \A r \in rows : r.day = day => r.key <= LastKey(rows, day)
<1> DEFINE D == {x \in rows : x.day = day}
           K == {r.key : r \in D}
           f == [r \in D |-> r.key]
<1>1. IsFiniteSet(D)
  BY FS_Subset
<1>2. f \in Surjection(D, K)
  BY DEF Surjection
<1>3. IsFiniteSet(K)
  BY <1>1, <1>2, FS_Surjection
<1>4. IsFiniteSet(K \cup {0})
  BY <1>3, FS_AddElement
<1>5. K \cup {0} \in SUBSET Nat /\ K \cup {0} # {} /\ \A r \in rows : r.day = day => r.key \in K \cup {0}
  OBVIOUS
<1>6. LastKey(rows, day) = Max(K \cup {0})
  BY DEF LastKey
<1> HIDE DEF K
<1> QED
  BY <1>4, <1>5, <1>6, LargestNatural

\* The rows of an intact package are sorted already.
LEMMA PreparedInPlace ==
    ASSUME SourceOK
    PROVE  Prepared(ExportedRows) = [i \in DOMAIN ExportedRows |-> [row |-> ExportedRows[i], index |-> i]]
<1> DEFINE n == Cardinality(source.rows)
           old == InOrder(source.rows)
           pk == ExportedRows
           g == [i \in 1 .. n |-> [row |-> pk[i], index |-> i]]
           S == Indexed(pk)
           R == {p \in S \X S : Sooner(p[1].row, p[2].row, p[1].index, p[2].index)}
<1>1. /\ n \in Nat /\ old \in [1 .. n -> source.rows] /\ DOMAIN old = 1 .. n
      /\ \A i, j \in 1 .. n : i < j => Sooner(old[i], old[j], old[i].id, old[j].id)
  BY SourceInOrder
<1>2. pk = [i \in DOMAIN old |-> Exported(old[i])]
  BY DEF ExportedRows
<1> HIDE DEF n, old, pk
<1>3. DOMAIN pk = 1 .. n /\ \A i \in 1 .. n : pk[i].day = old[i].day /\ pk[i].key = old[i].key
  BY <1>1, <1>2 DEF Exported
<1>4. \A i \in 1 .. n : old[i].day \in Nat /\ old[i].key \in Nat /\ old[i].id \in Nat
  BY <1>1 DEF SourceOK
<1>5. \A i \in 1 .. n : g[i].row = pk[i] /\ g[i].index = i
  OBVIOUS
<1>6. S = {g[i] : i \in 1 .. n}
  BY <1>3 DEF Indexed
<1>7. g \in [1 .. n -> S] /\ \A x \in S : \E i \in 1 .. n : g[i] = x
  BY <1>6
<1>8. Prepared(pk) = Sorted(S, R)
  BY DEF Prepared
<1>9. \A x, y \in S : <<x, y>> \in R <=> Sooner(x.row, y.row, x.index, y.index)
  OBVIOUS
<1> HIDE DEF g, S, R
<1>10. \A x \in S : \E i \in 1 .. n : x = g[i] /\ x.index = i /\ x.row.day \in Nat /\ x.row.key \in Nat
  BY <1>3, <1>4, <1>5, <1>7
<1>11. Orders(R, S)
  <2> DEFINE T == {x.row : x \in S}
  <2>1. \A a \in T : a.day \in Nat /\ a.key \in Nat
    BY <1>10
  <2>2. \A x \in S : x.row \in T /\ x.index \in Int
    BY <1>10
  <2>3. \A x, y \in S : x # y => x.index # y.index
    BY <1>10
  <2> HIDE DEF T
  <2>4. \A x \in S : <<x, x>> \notin R
    BY <2>1, <2>2, <1>9, SoonerFacts
  <2>5. ASSUME NEW x \in S, NEW y \in S, NEW z \in S, <<x, y>> \in R, <<y, z>> \in R
        PROVE  <<x, z>> \in R
    <3>1. Sooner(x.row, y.row, x.index, y.index) /\ Sooner(y.row, z.row, y.index, z.index)
      BY <2>5, <1>9
    <3>2. \A a, b, c \in T, i, j, k \in Int : Sooner(a, b, i, j) /\ Sooner(b, c, j, k) => Sooner(a, c, i, k)
      BY <2>1, SoonerFacts
    <3>3. Sooner(x.row, z.row, x.index, z.index)
      BY <3>1, <3>2, <2>2
    <3> QED
      BY <3>3, <1>9
  <2>6. \A x, y \in S : x # y => <<x, y>> \in R \/ <<y, x>> \in R
    BY <2>1, <2>2, <2>3, <1>9, SoonerFacts
  <2> QED
    BY <2>4, <2>5, <2>6 DEF Orders
<1>12. ASSUME NEW i \in 1 .. n, NEW j \in 1 .. n, i < j
       PROVE  <<g[i], g[j]>> \in R
  <2>1. Sooner(old[i], old[j], old[i].id, old[j].id)
    BY <1>1, <1>12
  <2>2. Sooner(pk[i], pk[j], i, j)
    BY <2>1, <1>3, <1>4, <1>12 DEF Sooner
  <2>3. g[i] \in S /\ g[j] \in S
    BY <1>7
  <2> QED
    BY <2>2, <2>3, <1>5, <1>9
<1>13. Sorted(S, R) = g
  BY <1>1, <1>7, <1>11, <1>12, SortedIsUnique
<1> QED
  BY <1>3, <1>8, <1>13 DEF g, pk

\* The rows an apply writes: they look like the source's, in its order, each
\* behind what its day has.
LEMMA PlacedInOrder ==
    ASSUME TransferInv, package.intact
    PROVE  LET n == Cardinality(source.rows)
               old == InOrder(source.rows)
               new == InOrder(Placed)
           IN  /\ IsFiniteSet(Placed) /\ n \in Nat /\ DOMAIN old = 1 .. n /\ DOMAIN new = 1 .. n
               /\ \A i \in 1 .. n : new[i] \in Placed /\ Face(new[i]) = Face(Exported(old[i]))
               /\ \A p \in Placed : p.key \in Nat /\ p.id \in Int /\ p.id > MaxNewcomer
               /\ \A p \in Placed, r \in Staying : p.day = r.day => r.key < p.key
<1> DEFINE n == Cardinality(source.rows)
           old == InOrder(source.rows)
           pk == ExportedRows
           Same(i) == {j \in 1 .. i : pk[j].day = pk[i].day}
           Base(i) == LastKey(Staying, pk[i].day)
           P(i) == [id |-> MaxNewcomer + i, day |-> pk[i].day, cat |-> pk[i].cat, ref |-> pk[i].ref,
                    key |-> Base(i) + OrderStep * Cardinality(Same(i))]
           g == [i \in 1 .. n |-> P(i)]
           S == Placed
           R == {p \in S \X S : Sooner(p[1], p[2], p[1].id, p[2].id)}
<1>1. /\ n \in Nat /\ old \in [1 .. n -> source.rows] /\ DOMAIN old = 1 .. n
      /\ \A i, j \in 1 .. n : i < j => Sooner(old[i], old[j], old[i].id, old[j].id)
  BY SourceInOrder DEF TransferInv
<1>2. pk = [i \in DOMAIN old |-> Exported(old[i])]
  BY DEF ExportedRows
<1>3. package.rows = pk /\ Prepared(pk) = [i \in DOMAIN pk |-> [row |-> pk[i], index |-> i]]
  BY PreparedInPlace DEF TransferInv, PackageOK
<1> HIDE DEF n, old, pk
<1>4. DOMAIN pk = 1 .. n /\ \A i \in 1 .. n : pk[i] = Exported(old[i])
  BY <1>1, <1>2
<1>5. \A i \in 1 .. n : pk[i].day = old[i].day /\ pk[i].day \in Nat
  <2>1. \A i \in 1 .. n : old[i].day \in Nat
    BY <1>1 DEF TransferInv, SourceOK
  <2> QED
    BY <2>1, <1>4 DEF Exported
<1>6. Placed = {P(i) : i \in 1 .. n}
  <2> DEFINE rows == Prepared(package.rows)
  <2>1. DOMAIN rows = 1 .. n /\ \A i \in 1 .. n : rows[i].row = pk[i]
    BY <1>3, <1>4
  <2>2. \A i \in 1 .. n : {j \in 1 .. i : rows[j].row.day = rows[i].row.day} = Same(i)
    <3> TAKE i \in 1 .. n
    <3>1. \A j \in 1 .. i : rows[j].row = pk[j]
      BY <2>1, <1>1
    <3> QED
      BY <2>1, <3>1
  <2>3. Placed = {[id |-> MaxNewcomer + i, day |-> rows[i].row.day, cat |-> rows[i].row.cat, ref |-> rows[i].row.ref,
                   key |-> LastKey(Staying, rows[i].row.day) + OrderStep * Cardinality({j \in 1 .. i : rows[j].row.day = rows[i].row.day})] : i \in DOMAIN rows}
    BY DEF Placed
  <2> HIDE DEF rows, Same
  <2> QED
    BY <2>1, <2>2, <2>3
<1>7. IsFiniteSet(Staying) /\ \A r \in Staying : r.key \in Nat
  <2>1. Staying \in SUBSET home.rows
    BY DEF Staying
  <2> QED
    BY <2>1, FS_Subset DEF TransferInv, HomeOK
<1>8. \A i \in 1 .. n : Base(i) \in Nat /\ \A r \in Staying : r.day = pk[i].day => r.key <= Base(i)
  BY <1>7, LastKeyFacts
<1>9. ASSUME NEW i \in 1 .. n
      PROVE  IsFiniteSet(Same(i)) /\ Cardinality(Same(i)) \in Nat /\ Cardinality(Same(i)) > 0
  <2>1. IsFiniteSet(1 .. i) /\ Same(i) \in SUBSET (1 .. i) /\ i \in Same(i)
    BY FS_Interval
  <2>2. IsFiniteSet(Same(i))
    BY <2>1, FS_Subset
  <2> HIDE DEF Same
  <2> QED
    BY <2>1, <2>2, FS_CardinalityType, FS_EmptySet
<1>10. ASSUME NEW i \in 1 .. n, NEW j \in 1 .. n, i < j, pk[i].day = pk[j].day
       PROVE  Cardinality(Same(i)) < Cardinality(Same(j))
  <2>1. Same(i) \in SUBSET Same(j) /\ j \in Same(j) /\ j \notin Same(i)
    BY <1>10
  <2> HIDE DEF Same
  <2>2. /\ Cardinality(Same(i)) <= Cardinality(Same(j))
        /\ Cardinality(Same(j)) = Cardinality(Same(i)) => Same(j) = Same(i)
    BY <2>1, <1>9, FS_Subset
  <2> QED
    BY <2>1, <2>2, <1>9
<1> HIDE DEF Same, Base
<1>11. ASSUME NEW i \in 1 .. n
       PROVE  OrderStep * Cardinality(Same(i)) \in Nat /\ OrderStep * Cardinality(Same(i)) > 0
  <2>1. OrderStep * 0 < OrderStep * Cardinality(Same(i)) /\ OrderStep * Cardinality(Same(i)) \in Nat
    BY <1>9, TransferAssumption, LargerProduct
  <2> QED
    BY <2>1, TransferAssumption
<1>12. ASSUME NEW i \in 1 .. n
       PROVE  /\ P(i).id = MaxNewcomer + i /\ P(i).day = pk[i].day /\ P(i).cat = pk[i].cat /\ P(i).ref = pk[i].ref
              /\ P(i).key = Base(i) + OrderStep * Cardinality(Same(i)) /\ P(i).key \in Nat /\ P(i).key > Base(i)
  BY <1>8, <1>11
<1> HIDE DEF P
<1>13. \A i \in 1 .. n : g[i] = P(i)
  OBVIOUS
<1>14. g \in [1 .. n -> S] /\ \A x \in S : \E i \in 1 .. n : g[i] = x
  BY <1>6
<1>15. \A x, y \in S : <<x, y>> \in R <=> Sooner(x, y, x.id, y.id)
  OBVIOUS
<1>16. InOrder(Placed) = Sorted(S, R)
  BY DEF InOrder
<1> HIDE DEF g, S, R
<1>17. \A x \in S : \E i \in 1 .. n : x = g[i] /\ x.id = MaxNewcomer + i /\ x.day \in Nat /\ x.key \in Nat
  BY <1>5, <1>12, <1>13, <1>14
<1>18. Orders(R, S)
  <2>1. \A x \in S : x.day \in Nat /\ x.key \in Nat /\ x.id \in Int
    BY <1>17, TransferAssumption
  <2>2. \A x, y \in S : x # y => x.id # y.id
    BY <1>17, TransferAssumption
  <2>3. \A x \in S : <<x, x>> \notin R
    BY <2>1, <1>15, SoonerFacts
  <2>4. ASSUME NEW x \in S, NEW y \in S, NEW z \in S, <<x, y>> \in R, <<y, z>> \in R
        PROVE  <<x, z>> \in R
    <3>1. Sooner(x, y, x.id, y.id) /\ Sooner(y, z, y.id, z.id)
      BY <2>4, <1>15
    <3>2. \A a, b, c \in S, i, j, k \in Int : Sooner(a, b, i, j) /\ Sooner(b, c, j, k) => Sooner(a, c, i, k)
      BY <2>1, SoonerFacts
    <3>3. Sooner(x, z, x.id, z.id)
      BY <3>1, <3>2, <2>1
    <3> QED
      BY <3>3, <1>15
  <2>5. \A x, y \in S : x # y => <<x, y>> \in R \/ <<y, x>> \in R
    BY <2>1, <2>2, <1>15, SoonerFacts
  <2> QED
    BY <2>3, <2>4, <2>5 DEF Orders
<1>19. ASSUME NEW i \in 1 .. n, NEW j \in 1 .. n, i < j
       PROVE  <<g[i], g[j]>> \in R
  <2>1. Sooner(old[i], old[j], old[i].id, old[j].id)
    BY <1>1, <1>19
  <2>2. pk[i].day < pk[j].day \/ pk[i].day = pk[j].day
    BY <2>1, <1>5 DEF Sooner
  <2>3. ASSUME pk[i].day = pk[j].day
        PROVE  P(i).key < P(j).key
    <3>1. Base(i) = Base(j)
      BY <2>3 DEF Base
    <3>2. OrderStep * Cardinality(Same(i)) < OrderStep * Cardinality(Same(j))
      BY <2>3, <1>9, <1>10, <1>19, TransferAssumption, LargerProduct
    <3> QED
      BY <3>1, <3>2, <1>8, <1>11, <1>12
  <2>4. Sooner(P(i), P(j), P(i).id, P(j).id)
    BY <2>2, <2>3, <1>12 DEF Sooner
  <2>5. g[i] \in S /\ g[j] \in S
    BY <1>14
  <2> QED
    BY <2>4, <2>5, <1>13, <1>15
<1>20. IsFiniteSet(S) /\ Sorted(S, R) = g
  BY <1>1, <1>14, <1>18, <1>19, SortedIsUnique
<1>21. DOMAIN g = 1 .. n
  BY <1>14
<1>22. \A i \in 1 .. n : g[i] \in S /\ Face(g[i]) = Face(Exported(old[i]))
  BY <1>4, <1>12, <1>13, <1>14 DEF Face
<1>23. \A p \in S : p.key \in Nat /\ p.id \in Int /\ p.id > MaxNewcomer
  BY <1>17, TransferAssumption
<1>24. ASSUME NEW p \in S, NEW r \in Staying, p.day = r.day
       PROVE  r.key < p.key
  <2>1. PICK i \in 1 .. n : p = P(i)
    BY <1>13, <1>14
  <2> QED
    BY <2>1, <1>7, <1>8, <1>12, <1>24
<1> QED
  BY <1>1, <1>16, <1>20, <1>21, <1>22, <1>23, <1>24 DEF S, n, old

\* Every step of a transfer keeps TransferInv.
LEMMA TransferStep == TransferInv /\ [TransferNext]_transferVars => TransferInv'
<1> SUFFICES ASSUME TransferInv, [TransferNext]_transferVars
             PROVE  TransferInv'
  OBVIOUS
<1> USE DEF TransferInv
<1>1. source' = source
  BY DEF TransferNext, transferVars, ExportPackage, Damage, TransferDeletes, RefuseOrDryRun, TransferCommits, TransferFails, MemberEnters
<1>2. SourceOK' /\ ExportedRows' = ExportedRows
  BY <1>1 DEF SourceOK, ExportedRows
<1>3. CASE ExportPackage
  <2>1. package' = [rows |-> ExportedRows, holdings |-> source.holdings, intact |-> TRUE] /\ UNCHANGED <<home, transfer>>
    BY <1>3 DEF ExportPackage, ExportedRows
  <2>2. PackageOK'
    BY <1>1, <1>2, <2>1 DEF PackageOK
  <2> QED
    BY <1>2, <2>1, <2>2 DEF HomeOK
<1>4. CASE Damage
  <2>1. package' = [package EXCEPT !.intact = FALSE, !.rows = <<>>] /\ UNCHANGED <<home, transfer>> /\ transfer.step = "none"
    BY <1>4 DEF Damage
  <2>2. package' = [rows |-> <<>>, holdings |-> package.holdings, intact |-> FALSE]
    BY <2>1 DEF PackageOK
  <2>3. PackageOK'
    BY <2>1, <2>2 DEF PackageOK
  <2> QED
    BY <1>2, <2>1, <2>3 DEF HomeOK
<1>5. CASE TransferDeletes
  <2>1. transfer' = [step |-> "deleted", deleted |-> home.rows] /\ UNCHANGED <<home, package>> /\ package.intact /\ transfer.step = "none"
    BY <1>5 DEF TransferDeletes
  <2> QED
    BY <1>1, <1>2, <2>1 DEF HomeOK, PackageOK
<1>6. CASE TransferFails
  <2>1. transfer' = NoTransfer /\ UNCHANGED <<home, package>> /\ transfer.step = "deleted"
    BY <1>6 DEF TransferFails
  <2> QED
    BY <1>1, <1>2, <2>1 DEF HomeOK, PackageOK, NoTransfer
<1>7. CASE RefuseOrDryRun \/ UNCHANGED transferVars
  <2>1. UNCHANGED <<source, home, package, transfer>>
    BY <1>7 DEF RefuseOrDryRun, transferVars
  <2> QED
    BY <1>1, <1>2, <2>1 DEF HomeOK, PackageOK
<1>8. ASSUME NEW day \in SourceDay, NEW ref \in SourceRefs \cup {Nobody}, MemberEnters(day, ref)
      PROVE  TransferInv'
  <2> DEFINE id == Cardinality(home.rows)
             row == [id |-> id, day |-> day, key |-> LastKey(home.rows, day) + OrderStep, cat |-> Nobody,
                     ref |-> IF ref = Nobody THEN Nobody ELSE <<"client", ref>>]
  <2>1. id <= MaxNewcomer /\ home' = [home EXCEPT !.rows = home.rows \cup {row}] /\ UNCHANGED <<package, transfer>> /\ transfer.step # "done"
    BY <1>8 DEF MemberEnters
  <2>2. id \in Nat
    BY FS_CardinalityType DEF HomeOK
  <2>3. LastKey(home.rows, day) \in Nat
    BY LastKeyFacts DEF HomeOK
  <2>4. row.id = id /\ row.key \in Nat
    BY <2>3, TransferAssumption
  <2> HIDE DEF id, row
  <2>5. home' = [rows |-> home.rows \cup {row}, holdings |-> home.holdings]
    BY <2>1 DEF HomeOK
  <2>6. IsFiniteSet(home.rows \cup {row})
    BY FS_AddElement DEF HomeOK
  <2>7. HomeOK'
    <3>1. home'.rows = home.rows \cup {row} /\ home'.holdings = home.holdings
      BY <2>5
    <3>2. \A r \in home.rows \cup {row} : r.key \in Nat
      BY <2>4 DEF HomeOK
    <3>3. \A r \in home.rows \cup {row} : r.id \in Int /\ r.id <= MaxNewcomer
      BY <2>1, <2>2, <2>4 DEF HomeOK
    <3>4. home' = [rows |-> home'.rows, holdings |-> home'.holdings]
      BY <2>5, <3>1
    <3> QED
      BY <3>1, <3>2, <3>3, <3>4, <2>6 DEF HomeOK
  <2> QED
    BY <1>1, <1>2, <2>1, <2>7 DEF PackageOK
<1>9. CASE TransferCommits
  <2>1. /\ home' = [rows |-> Staying \cup Placed, holdings |-> PreparedHoldings(package.holdings)]
        /\ transfer' = [transfer EXCEPT !.step = "done"] /\ package' = package /\ transfer.step = "deleted"
    BY <1>9 DEF TransferCommits
  <2>2. transfer' = [step |-> "done", deleted |-> transfer.deleted] /\ package.intact
    BY <2>1 DEF PackageOK
  <2>3. IsFiniteSet(Placed) /\ \A p \in Placed : p.key \in Nat
    BY <2>2, PlacedInOrder
  <2>4. Staying \in SUBSET home.rows
    BY DEF Staying
  <2>5. IsFiniteSet(Staying) /\ \A r \in Staying : r.key \in Nat
    BY <2>4, FS_Subset DEF HomeOK
  <2>6. IsFiniteSet(Staying \cup Placed)
    BY <2>3, <2>5, FS_Union
  <2>7. HomeOK'
    BY <2>1, <2>2, <2>3, <2>5, <2>6 DEF HomeOK
  <2>8. PackageOK'
    BY <1>1, <1>2, <2>1, <2>2 DEF PackageOK
  <2> QED
    BY <1>2, <2>7, <2>8
<1> QED
  BY <1>3, <1>4, <1>5, <1>6, <1>7, <1>8, <1>9 DEF TransferNext

\* AppliedIsExported, for every source, every package and any number of members
\* who enter rows meanwhile: an applied package shows the source's transactions
\* in its order behind the rows that stay, and its holdings (run_transfer).
THEOREM AppliedIsAlwaysExported == TransferSpec => AppliedIsExported
<1>1. TransferInv /\ [TransferNext]_transferVars =>
        [transfer.step = "deleted" /\ transfer'.step = "done" =>
          LET new == InOrder(home'.rows \ home.rows)
              old == InOrder(source.rows)
          IN  /\ [i \in DOMAIN new |-> Face(new[i])] = [i \in DOMAIN old |-> Face(Exported(old[i]))]
              /\ \A r \in home.rows \ transfer.deleted : r \in home'.rows /\ \A i \in DOMAIN new : new[i].day = r.day => r.key < new[i].key
              /\ {[account |-> h.account, name |-> h.name] : h \in home'.holdings} = source.holdings]_transferVars
  <2> SUFFICES ASSUME TransferInv, [TransferNext]_transferVars, transfer.step = "deleted", transfer'.step = "done"
               PROVE  LET new == InOrder(home'.rows \ home.rows)
                          old == InOrder(source.rows)
                      IN  /\ [i \in DOMAIN new |-> Face(new[i])] = [i \in DOMAIN old |-> Face(Exported(old[i]))]
                          /\ \A r \in home.rows \ transfer.deleted : r \in home'.rows /\ \A i \in DOMAIN new : new[i].day = r.day => r.key < new[i].key
                          /\ {[account |-> h.account, name |-> h.name] : h \in home'.holdings} = source.holdings
    OBVIOUS
  <2> DEFINE n == Cardinality(source.rows)
             old == InOrder(source.rows)
             new == InOrder(Placed)
  <2>1. TransferCommits
    BY DEF TransferNext, transferVars, ExportPackage, Damage, TransferDeletes, RefuseOrDryRun, TransferFails, MemberEnters, NoTransfer
  <2>2. home' = [rows |-> Staying \cup Placed, holdings |-> PreparedHoldings(package.holdings)] /\ package.intact
    BY <2>1 DEF TransferCommits, TransferInv, PackageOK
  <2>3. /\ n \in Nat /\ DOMAIN old = 1 .. n /\ DOMAIN new = 1 .. n
        /\ \A i \in 1 .. n : new[i] \in Placed /\ Face(new[i]) = Face(Exported(old[i]))
        /\ \A p \in Placed : p.key \in Nat /\ p.id \in Int /\ p.id > MaxNewcomer
        /\ \A p \in Placed, r \in Staying : p.day = r.day => r.key < p.key
    BY <2>2, PlacedInOrder
  <2>4. \A r \in home.rows : r.id \in Int /\ r.id <= MaxNewcomer
    BY DEF TransferInv, HomeOK
  <2>5. home'.rows \ home.rows = Placed
    <3>1. \A p \in Placed : p \notin home.rows
      BY <2>3, <2>4, TransferAssumption
    <3>2. Staying \in SUBSET home.rows
      BY DEF Staying
    <3> QED
      BY <2>2, <3>1, <3>2
  <2>6. {[account |-> h.account, name |-> h.name] : h \in home'.holdings} = source.holdings
    <3> DEFINE Linked(h) == [account |-> h.account, name |-> h.name, user |-> LinkedTo(h.name)]
               Bare(h) == [account |-> h.account, name |-> h.name]
    <3>1. home'.holdings = {Linked(h) : h \in source.holdings}
      BY <2>2 DEF PreparedHoldings, TransferInv, PackageOK
    <3>2. \A h \in source.holdings : Bare(h) = h
      BY DEF TransferInv, SourceOK
    <3>3. \A h \in source.holdings : Bare(Linked(h)) = Bare(h)
      OBVIOUS
    <3> HIDE DEF Linked, Bare
    <3>4. {Bare(h) : h \in home'.holdings} = source.holdings
      BY <3>1, <3>2, <3>3
    <3> QED
      BY <3>4 DEF Bare
  <2> HIDE DEF n, old, new
  <2>7. [i \in DOMAIN new |-> Face(new[i])] = [i \in DOMAIN old |-> Face(Exported(old[i]))]
    BY <2>3
  <2>8. \A r \in home.rows \ transfer.deleted : r \in home'.rows /\ \A i \in DOMAIN new : new[i].day = r.day => r.key < new[i].key
    BY <2>2, <2>3 DEF Staying
  <2> QED
    BY <2>5, <2>6, <2>7, <2>8 DEF new, old
<1> QED
  BY <1>1, TransferInitial, TransferStep, PTL DEF TransferSpec, AppliedIsExported
===========================================================================
