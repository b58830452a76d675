----------------------------- MODULE Categories -----------------------------
(***************************************************************************)
(* Categories and the transactions that refer to them                      *)
(* (backend/app/api/routes/categories.py, create and patch in              *)
(* transactions.py).                                                       *)
(*                                                                         *)
(* Every handler reads first and commits later; what it has read may be    *)
(* gone by then.  The database holds the unique name of a category, the    *)
(* unique source_ref of a transaction and the foreign key between them.    *)
(***************************************************************************)
EXTENDS Integers, FiniteSets

CONSTANTS Editor,    \* requests
          MaxCat,    \* bound: categories ever created
          MaxEntry,  \* bound: transactions ever created
          Flow, Major, Minor, Ref,
          Null       \* no category, no reference, no value

ASSUME CategoriesAssumption ==
    /\ MaxCat \in Nat /\ MaxEntry \in Nat
    /\ Null \notin Flow \cup Major \cup Minor \cup Ref

VARIABLES cats,      \* [flow, major, minor] per category
          entries,   \* [flow, cat, ref] per transaction
          made,      \* numbers of categories and transactions begun
          ask,       \* the requests
          answered   \* history: the transactions answered for a source_ref

categoryVars == <<cats, entries, made, ask, answered>>

Cat == 1 .. MaxCat
Entry == 1 .. MaxEntry
Gone == [flow |-> Null]
Asking == [step |-> "rest"]

Cats == {c \in Cat : cats[c] # Gone}
Entries == {e \in Entry : entries[e] # Gone}
Named(flow, major, minor) == {c \in Cats : cats[c] = [flow |-> flow, major |-> major, minor |-> minor]}
Usage(c) == {e \in Entries : entries[e].cat = c}
WithRef(ref) == {e \in Entries : ref # Null /\ entries[e].ref = ref}

CategoriesInit ==
    /\ \E flow \in Flow, major \in Major, minor \in Minor :
          cats = [c \in Cat |-> IF c = 1 THEN [flow |-> flow, major |-> major, minor |-> minor] ELSE Gone]
    /\ entries = [e \in Entry |-> Gone]
    /\ made = [cats |-> 1, entries |-> 0]
    /\ ask = [q \in Editor |-> Asking]
    /\ answered = [ref \in Ref |-> {}]

\* No patch holds one of these rows.
Unlocked(S) == \A p \in Editor : ask[p].step = "patch" => ask[p].entry \notin S

Answered(q) == ask' = [ask EXCEPT ![q] = Asking]
Ask(q, request) == ask[q] = Asking /\ ask' = [ask EXCEPT ![q] = request]
AnswersRow(e) == answered' = [ref \in Ref |-> IF entries'[e].ref = ref THEN answered[ref] \cup {e} ELSE answered[ref]]

---------------------------------------------------------------------------
(* Categories                                                              *)

\* create_category: the name is free when it is read; the index decides at commit.
CreateCategory(q, flow, major, minor) ==
    /\ made.cats < MaxCat
    /\ Named(flow, major, minor) = {}
    /\ Ask(q, [step |-> "category", cat |-> made.cats + 1, name |-> [flow |-> flow, major |-> major, minor |-> minor]])
    /\ made' = [made EXCEPT !.cats = @ + 1]
    /\ UNCHANGED <<cats, entries, answered>>

\* patch_category
PatchCategory(q, c, major, minor) ==
    /\ c \in Cats
    /\ Named(cats[c].flow, major, minor) \subseteq {c}
    /\ Ask(q, [step |-> "rename", group |-> {c}, name |-> [d \in {c} |-> [cats[c] EXCEPT !.major = major, !.minor = minor]]])
    /\ UNCHANGED <<cats, entries, made, answered>>

\* rename_major_category_group
RenameMajor(q, flow, old, new) ==
    LET group == {c \in Cats : cats[c].flow = flow /\ cats[c].major = old}
    IN  /\ group # {}
        /\ \A c \in group : Named(flow, new, cats[c].minor) \subseteq group
        /\ Ask(q, [step |-> "rename", group |-> group, name |-> [c \in group |-> [cats[c] EXCEPT !.major = new]]])
        /\ UNCHANGED <<cats, entries, made, answered>>

Unique(t) == \A c, d \in Cat : t[c] = t[d] /\ t[c] # Gone => c = d

\* One commit for all of them: it fails as a whole on a duplicate name or when
\* one of the rows is no longer there.
CommitCategories(q) ==
    LET written == IF ask[q].step = "category"
                   THEN [cats EXCEPT ![ask[q].cat] = ask[q].name]
                   ELSE [c \in Cat |-> IF c \in ask[q].group THEN ask[q].name[c] ELSE cats[c]]
        possible == Unique(written) /\ (ask[q].step = "rename" => ask[q].group \subseteq Cats)
    IN  /\ ask[q].step \in {"category", "rename"}
        /\ cats' = IF possible THEN written ELSE cats
        /\ Answered(q)
        /\ UNCHANGED <<entries, made, answered>>

\* delete_category: counted first, deleted later.
DeleteCategory(q, c) ==
    /\ c \in Cats /\ Usage(c) = {}
    /\ Ask(q, [step |-> "delete", cat |-> c])
    /\ UNCHANGED <<cats, entries, made, answered>>

\* The mapper and the foreign key's ON DELETE SET NULL empty what refers to it,
\* once no patch holds those rows.
CommitDelete(q) ==
    /\ ask[q].step = "delete"
    /\ Unlocked(Usage(ask[q].cat))
    /\ cats' = [cats EXCEPT ![ask[q].cat] = Gone]
    /\ entries' = [e \in Entry |-> IF e \in Usage(ask[q].cat) THEN [entries[e] EXCEPT !.cat = Null] ELSE entries[e]]
    /\ Answered(q)
    /\ UNCHANGED <<made, answered>>

---------------------------------------------------------------------------
(* Transactions                                                            *)

\* _ensure_category_flow_matches
FlowMatches(c, flow) == c # Null => c \in Cats /\ cats[c].flow = flow

\* create_transaction up to the commit.
CreateEntry(q, flow, c, ref) ==
    /\ made.entries < MaxEntry
    /\ WithRef(ref) = {}
    /\ FlowMatches(c, flow)
    /\ Ask(q, [step |-> "create", entry |-> made.entries + 1, row |-> [flow |-> flow, cat |-> c, ref |-> ref]])
    /\ made' = [made EXCEPT !.entries = @ + 1]
    /\ UNCHANGED <<cats, entries, answered>>

\* A request that repeats a source_ref, or the content of a recent row, is
\* answered with that row.
Replay(e) ==
    /\ e \in Entries
    /\ UNCHANGED <<cats, entries, made, ask>>
    /\ AnswersRow(e)

\* The foreign key fails when the category is gone by then.
KeyHolds(row) == row.cat = Null \/ row.cat \in Cats

MutantNoIndex(ref) == FALSE

\* IntegrityError on uq_transaction_source_ref: another request won.
SourceRefTaken(ref) == WithRef(ref) # {}

CommitCreate(q) ==
    LET row == ask[q].row
    IN  /\ ask[q].step = "create"
        /\ IF SourceRefTaken(row.ref)
           THEN UNCHANGED entries /\ \E e \in WithRef(row.ref) : AnswersRow(e)
           ELSE IF KeyHolds(row)
           THEN entries' = [entries EXCEPT ![ask[q].entry] = row] /\ AnswersRow(ask[q].entry)
           ELSE UNCHANGED <<entries, answered>>
        /\ Answered(q)
        /\ UNCHANGED <<cats, made>>

MutantGivenOnly(q, e, change) ==
    /\ e \in Entries
    /\ "cat" \in DOMAIN change => FlowMatches(change.cat, IF "flow" \in DOMAIN change THEN change.flow ELSE entries[e].flow)
    /\ Unlocked({e})
    /\ Ask(q, [step |-> "patch", entry |-> e, row |-> [f \in DOMAIN entries[e] |-> IF f \in DOMAIN change THEN change[f] ELSE entries[e][f]]])
    /\ UNCHANGED <<cats, entries, made, answered>>

\* patch_transaction: the row is locked, and the flow and category it will have
\* are compared, whether they are in the patch or kept.
PatchEntry(q, e, change) ==
    LET row == [f \in DOMAIN entries[e] |-> IF f \in DOMAIN change THEN change[f] ELSE entries[e][f]]
    IN  /\ e \in Entries
        /\ FlowMatches(row.cat, row.flow)
        /\ Unlocked({e})
        /\ Ask(q, [step |-> "patch", entry |-> e, row |-> row])
        /\ UNCHANGED <<cats, entries, made, answered>>

CommitPatch(q) ==
    /\ ask[q].step = "patch"
    /\ entries' = IF KeyHolds(ask[q].row) THEN [entries EXCEPT ![ask[q].entry] = ask[q].row] ELSE entries
    /\ Answered(q)
    /\ UNCHANGED <<cats, made, answered>>

DeleteEntry(e) ==
    /\ e \in Entries
    /\ Unlocked({e})
    /\ entries' = [entries EXCEPT ![e] = Gone]
    /\ UNCHANGED <<cats, made, ask, answered>>

CategoriesNext ==
    \/ \E q \in Editor :
          \/ CommitCategories(q) \/ CommitDelete(q) \/ CommitCreate(q) \/ CommitPatch(q)
          \/ \E c \in Cat : DeleteCategory(q, c)
          \/ \E flow \in Flow, major \in Major, minor \in Minor : CreateCategory(q, flow, major, minor)
          \/ \E c \in Cat, major \in Major, minor \in Minor : PatchCategory(q, c, major, minor)
          \/ \E flow \in Flow, old, new \in Major : old # new /\ RenameMajor(q, flow, old, new)
          \/ \E flow \in Flow, c \in Cat \cup {Null}, ref \in Ref \cup {Null} : CreateEntry(q, flow, c, ref)
          \/ \E e \in Entry, flow \in Flow, c \in Cat \cup {Null} :
                \/ PatchEntry(q, e, [flow |-> flow])
                \/ PatchEntry(q, e, [cat |-> c])
                \/ PatchEntry(q, e, [flow |-> flow, cat |-> c])
    \/ \E e \in Entry : Replay(e) \/ DeleteEntry(e)

CategoriesSpec == CategoriesInit /\ [][CategoriesNext]_categoryVars

---------------------------------------------------------------------------
(* Properties                                                              *)

\* A transaction's category exists and has the transaction's flow, however
\* patches of one field, creations and deletions overlap.
FlowAgrees == \A e \in Entries : FlowMatches(entries[e].cat, entries[e].flow)

\* Whoever repeats a create with one source_ref is always shown the same row,
\* as long as that row is there.
RefAnsweredOnce ==
    \A ref \in Ref : Cardinality({e \in answered[ref] \cap Entries : entries[e].ref = ref}) <= 1
===========================================================================
