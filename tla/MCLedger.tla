----------------------------- MODULE MCLedger -----------------------------
(***************************************************************************)
(* The order of the ledger, its categories and the edits of one            *)
(* transaction.  None reads what another writes, so a behaviour follows    *)
(* one of them: two writers of the order, a reader and one writer, the     *)
(* categories, or the row under its concurrent patches (which imports      *)
(* never rewrite).                                                         *)
(***************************************************************************)
EXTENDS LedgerOrder, Categories, MCPatchMerge

CONSTANT Helper   \* the second writer, which rests while the reader pages

VARIABLE part

allVars == <<ledgerVars, categoryVars, vars, part>>

MCInit ==
    /\ part \in {"writing", "reading", "categories", "patching"}
    /\ LedgerInit /\ CategoriesInit /\ Init
    /\ part \in {"categories", "patching"} => created = 0
    /\ part # "patching" => val = [f \in Field |-> 0]
    /\ part # "categories" => cats[1] = [flow |-> "in", major |-> "A", minor |-> "m"]

Ordering ==
    /\ part \in {"writing", "reading"}
    /\ LedgerNext
    /\ part = "writing" => reader' = reader
    /\ part = "reading" => w'[Helper] = Resting
    /\ UNCHANGED <<categoryVars, vars, part>>

Categorising == part = "categories" /\ CategoriesNext /\ UNCHANGED <<ledgerVars, vars, part>>

Patching == part = "patching" /\ Next /\ UNCHANGED <<ledgerVars, categoryVars, part>>

MCNext == Ordering \/ Categorising \/ Patching

MCSpec == MCInit /\ [][MCNext]_allVars

\* Editors and clients are the same model values.
MCSymmetry == Permutations(Editor)
===========================================================================
