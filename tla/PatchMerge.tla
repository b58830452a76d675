---------------------------- MODULE PatchMerge ----------------------------
(***************************************************************************)
(* Optimistic field-level merging of concurrent edits of ONE ledger row (a *)
(* Transaction or a Holding), backend/app/services/merge.py, with every    *)
(* other writer of such a row:                                             *)
(*                                                                         *)
(*  - PATCH requests of the household's members, which lock the row        *)
(*    (SELECT ... FOR UPDATE), validate the payload and call               *)
(*    merge_patch_or_raise with the base_version the client last saw;      *)
(*  - the legacy-owner remap, which locks the row and calls the same merge *)
(*    with the row's own version as its base;                              *)
(*  - the workbook importer, which loads the holdings WITHOUT a lock and   *)
(*    later writes the changed columns and "its" version + 1, unlogged;    *)
(*  - deletion, and the migration package's replacement of all rows.       *)
(*                                                                         *)
(* A row keeps its primary key (a UUID) for life, so a deleted row never   *)
(* comes back.  The patch log is the table EntityPatchLog restricted to    *)
(* the row.                                                                *)
(***************************************************************************)
EXTENDS Integers, FiniteSets

CONSTANTS Client,        \* browser sessions that edit the row
          Importer,      \* running workbook imports; {} for a transaction row
          Field,         \* the patchable columns
          OwnerField,    \* owner_user_id and owner_name
          Value,         \* values of a column
          NoOne,         \* the row lock is free
          ValidRow(_),   \* the cross-field checks of the PATCH handler
          MaxVersion     \* bound on the versions explored

ASSUME ConstAssumption ==
    /\ NoOne \notin Client
    /\ Value # {}
    /\ OwnerField \subseteq Field
    /\ MaxVersion \in Nat \ {0}

\* The checks concern flow_type, installment_months and category_id only:
\* a row that differs in its owner columns is as valid.
ASSUME ValidIgnoresOwner ==
    \A r, s \in [Field -> Value] :
        (ValidRow(r) /\ \A f \in Field \ OwnerField : r[f] = s[f]) => ValidRow(s)

VARIABLES
    live,      \* the row exists
    version,   \* its version column
    val,       \* its other columns
    log,       \* its EntityPatchLog rows: [res, fields]
    view,      \* view[c]: version of the row c last loaded, 0 if none
    touched,   \* history: columns others changed since c loaded the row
    holder,    \* the session that holds the row lock
    cache,     \* cache[c]: the row as c's request loaded it, or NoCopy
    snap,      \* snap[i]: the row as import i loaded it, or NoCopy
    overrun    \* history: an import wrote over a version it had not loaded

vars == <<live, version, val, log, view, touched, holder, cache, snap, overrun>>

Row == [Field -> Value]
Version == 0 .. MaxVersion
LogEntry == [res : Version, fields : SUBSET Field]
Copy == [version : Version, val : Row]
NoCopy == [version |-> 0, val |-> [f \in Field |-> CHOOSE v \in Value : TRUE]]

Init ==
    /\ live = TRUE
    /\ version = 1
    /\ val \in {r \in Row : ValidRow(r)}
    /\ log = {}
    /\ view = [c \in Client |-> 0]
    /\ touched = [c \in Client |-> {}]
    /\ holder = NoOne
    /\ cache = [c \in Client |-> NoCopy]
    /\ snap = [i \in Importer |-> NoCopy]
    /\ overrun = FALSE

---------------------------------------------------------------------------
(* merge.py                                                                *)

\* changed_fields_since: what the log says of the versions above base.
LoggedSince(base) == {e \in log : e.res > base}
ChangedSince(base) == UNION {e.fields : e \in LoggedSince(base)}
CoveredSince(base) == {e.res : e \in LoggedSince(base)}

\* effective_patch: the patched columns whose value really differs.
EffectiveFields(row, fields, new) == {f \in fields : row[f] # new[f]}

Merge(row, fields, new) == [f \in Field |-> IF f \in fields THEN new[f] ELSE row[f]]

\* Mutant: a complete log is enough, overlapping columns are not looked at.
MutantNoOverlapCheck(base, current, fields) ==
    \/ base > current
    \/ base < current /\ (base + 1 .. current) \ CoveredSince(base) # {}

\* The reasons to raise MergeConflictError for a non-empty effective patch.
MergeConflict(base, current, fields) ==
    \/ base > current
    \/ base < current /\ \/ (base + 1 .. current) \ CoveredSince(base) # {}
                         \/ fields \cap ChangedSince(base) # {}

---------------------------------------------------------------------------
(* Columns changed by one committed write, as seen by every other client.  *)
TouchAll(fields) == [d \in Client |-> touched[d] \cup fields]

\* A request that has loaded the row, and its end (commit or rollback).
Loaded(c) == cache[c].version > 0
EndRequest(c) == holder' = NoOne /\ cache' = [cache EXCEPT ![c] = NoCopy]

\* A client loads the row (list endpoints, or the reply of its own patch).
LoadRow(c) ==
    /\ live /\ ~ Loaded(c)
    /\ view' = [view EXCEPT ![c] = version]
    /\ touched' = [touched EXCEPT ![c] = {}]
    /\ UNCHANGED <<live, version, val, log, holder, cache, snap, overrun>>

\* select(...).with_for_update(): waits for the lock, then loads the row as
\* it is committed at that moment.
LockRow(c) ==
    /\ live /\ holder = NoOne /\ ~ Loaded(c)
    /\ holder' = c
    /\ cache' = [cache EXCEPT ![c] = [version |-> version, val |-> val]]
    /\ UNCHANGED <<live, version, val, log, view, touched, snap, overrun>>

\* A validation error, or an IntegrityError at commit: rolled back.
PatchRejected(c) ==
    /\ Loaded(c) /\ EndRequest(c)
    /\ UNCHANGED <<live, version, val, log, view, touched, snap, overrun>>

\* Nothing to change: the reply still carries the current row.
PatchNoop(c) ==
    /\ Loaded(c) /\ view[c] > 0 /\ EndRequest(c)
    /\ view' = [view EXCEPT ![c] = version]
    /\ touched' = [touched EXCEPT ![c] = {}]
    /\ UNCHANGED <<live, version, val, log, snap, overrun>>

\* 409: the client keeps its view until it loads the row again.
PatchConflict(c, fields, new) ==
    LET eff == EffectiveFields(cache[c].val, fields, new)
    IN  /\ Loaded(c) /\ view[c] > 0
        /\ ValidRow(Merge(cache[c].val, fields, new))
        /\ eff # {}
        /\ MergeConflict(view[c], cache[c].version, eff)
        /\ EndRequest(c)
        /\ UNCHANGED <<live, version, val, log, view, touched, snap, overrun>>

\* The merge succeeds: the changed columns, version + 1 and the log row are
\* committed together and the reply refreshes the client's view.
PatchApply(c, fields, new) ==
    LET eff == EffectiveFields(cache[c].val, fields, new)
    IN  /\ Loaded(c) /\ view[c] > 0
        /\ cache[c].version < MaxVersion
        /\ ValidRow(Merge(cache[c].val, fields, new))
        /\ eff # {}
        /\ ~ MergeConflict(view[c], cache[c].version, eff)
        /\ version' = cache[c].version + 1
        /\ val' = Merge(val, eff, new)
        /\ log' = log \cup {[res |-> cache[c].version + 1, fields |-> eff]}
        /\ view' = [view EXCEPT ![c] = cache[c].version + 1]
        /\ touched' = [TouchAll(eff) EXCEPT ![c] = {}]
        /\ EndRequest(c)
        /\ UNCHANGED <<live, snap, overrun>>

\* Mutant: the remap bumps the version but logs no columns.
MutantRemapUnlogged(c, new) ==
    LET eff == EffectiveFields(cache[c].val, OwnerField, new)
    IN  /\ Loaded(c)
        /\ cache[c].version < MaxVersion
        /\ eff # {}
        /\ version' = cache[c].version + 1
        /\ val' = Merge(val, eff, new)
        /\ log' = log \cup {[res |-> cache[c].version + 1, fields |-> {}]}
        /\ touched' = TouchAll(eff)
        /\ EndRequest(c)
        /\ UNCHANGED <<live, view, snap, overrun>>

\* remap_legacy_owner on this row: the base is the locked row's own version,
\* so the merge cannot conflict; the reply does not carry the row.
RemapOwner(c, new) ==
    LET eff == EffectiveFields(cache[c].val, OwnerField, new)
    IN  /\ Loaded(c)
        /\ cache[c].version < MaxVersion
        /\ eff # {}
        /\ version' = cache[c].version + 1
        /\ val' = Merge(val, eff, new)
        /\ log' = log \cup {[res |-> cache[c].version + 1, fields |-> eff]}
        /\ touched' = TouchAll(eff)
        /\ EndRequest(c)
        /\ UNCHANGED <<live, view, snap, overrun>>

\* delete_transaction, bulk_delete_transactions, delete_holding: the DELETE
\* waits for the row lock; log rows stay.
DeleteRow ==
    /\ live /\ holder = NoOne
    /\ live' = FALSE
    /\ UNCHANGED <<version, val, log, view, touched, holder, cache, snap, overrun>>

\* The migration package deletes every row and every log row of the household
\* and inserts new rows under new ids.
ReplaceRows ==
    /\ live /\ holder = NoOne
    /\ live' = FALSE
    /\ log' = {}
    /\ UNCHANGED <<version, val, view, touched, holder, cache, snap, overrun>>

---------------------------------------------------------------------------
(* importer._apply_holdings                                                *)

\* select(Holding) without FOR UPDATE: a copy that may be stale when used.
ImportLoad(i) ==
    /\ live /\ snap[i].version = 0
    /\ snap' = [snap EXCEPT ![i] = [version |-> version, val |-> val]]
    /\ UNCHANGED <<live, version, val, log, view, touched, holder, cache, overrun>>

\* The commit writes the columns that differ from the COPY, and the copy's
\* version + 1, and logs nothing.  It waits for the row lock.  An import of a
\* row deleted meanwhile fails as a whole (ImportAbort).
ImportWrite(i, new) ==
    LET eff == EffectiveFields(snap[i].val, Field, new)
    IN  /\ live /\ holder = NoOne
        /\ snap[i].version \in 1 .. MaxVersion - 1
        /\ eff # {}
        /\ version' = snap[i].version + 1
        /\ val' = Merge(val, eff, new)
        /\ touched' = TouchAll({f \in eff : val[f] # new[f]})
        /\ overrun' = (overrun \/ snap[i].version # version)
        /\ snap' = [snap EXCEPT ![i] = NoCopy]
        /\ UNCHANGED <<live, log, view, holder, cache>>

\* The workbook changes nothing of this row, or the import lock was lost and
\* the import rolled back.
ImportAbort(i) ==
    /\ snap[i].version # 0
    /\ snap' = [snap EXCEPT ![i] = NoCopy]
    /\ UNCHANGED <<live, version, val, log, view, touched, holder, cache, overrun>>

---------------------------------------------------------------------------
ClientStep(c) ==
    \/ LoadRow(c)
    \/ LockRow(c)
    \/ PatchRejected(c)
    \/ PatchNoop(c)
    \/ \E fields \in SUBSET Field, new \in Row :
         PatchConflict(c, fields, new) \/ PatchApply(c, fields, new)
    \/ \E new \in Row : RemapOwner(c, new)

ImportStep(i) ==
    \/ ImportLoad(i)
    \/ \E new \in Row : ImportWrite(i, new)
    \/ ImportAbort(i)

Next ==
    \/ \E c \in Client : ClientStep(c)
    \/ \E i \in Importer : ImportStep(i)
    \/ DeleteRow
    \/ ReplaceRows

Spec == Init /\ [][Next]_vars

---------------------------------------------------------------------------
(* Properties                                                              *)

\* Every variable has its type.
TypeOK ==
    /\ live \in BOOLEAN
    /\ version \in Version
    /\ val \in Row
    /\ log \in SUBSET LogEntry
    /\ view \in [Client -> Version]
    /\ touched \in [Client -> SUBSET Field]
    /\ holder \in Client \cup {NoOne}
    /\ cache \in [Client -> Copy]
    /\ snap \in [Importer -> Copy]
    /\ overrun \in BOOLEAN

\* The columns a step changes.
Changed == {f \in Field : val'[f] # val[f]}

\* A patch that is accepted (client c's view moves with the row) changes no
\* column that somebody else changed after c loaded the row: merge.py accepts
\* a stale base only for columns nobody touched since.  Stated for behaviours
\* in which no import has written over a version it had not loaded.
NoSilentOverwrite ==
    [][\A c \in Client :
          (/\ ~ overrun
           /\ Loaded(c)
           /\ version' # version
           /\ view'[c] = version') => Changed \cap touched[c] = {}]_vars

\* The same claim for every behaviour, imports included: the comment at
\* merge.py:68 says that a version advanced by the import path makes a stale
\* patch "fail closed to avoid silent overwrite".
StalePatchFailsClosed ==
    [][\A c \in Client :
          (/\ Loaded(c)
           /\ version' # version
           /\ view'[c] = version') => Changed \cap touched[c] = {}]_vars

\* Log rows and versions agree: at most one log row per version, none above
\* the row's version, and the columns changed since a client's load are all
\* named by the log unless some version in between is missing from it.
LogExplainsVersions ==
    ~ overrun =>
        /\ \A e, g \in log : e.res = g.res => e = g
        /\ \A e \in log : e.res <= version
        /\ \A c \in Client :
             (live /\ view[c] > 0 /\ view[c] + 1 .. version \subseteq CoveredSince(view[c]))
                => touched[c] \subseteq ChangedSince(view[c])

\* Each committed change of the row moves its version forward by exactly one,
\* as long as no import overran: two different contents never share a version,
\* which is what base_version relies on.
VersionNamesContent ==
    [][(val' # val /\ ~ overrun') => version' = version + 1]_vars

\* The cross-field checks (an installment only on an expense, a category of
\* the transaction's flow type) hold of every committed row, although two
\* clients may each patch one of the columns involved from a stale view.
\* Rows the importer rewrites (holdings) have no such checks.
RowStaysValid == Importer = {} => ValidRow(val)
===========================================================================
