----------------------------- MODULE MCImports -----------------------------
(***************************************************************************)
(* The three ways data comes into a household in bulk: workbooks, packages *)
(* of another installation, and screenshots; and the edits of one holding   *)
(* that an import rewrites meanwhile.  They meet at the import lease       *)
(* (ImportLock); here a behaviour follows one of them.                     *)
(***************************************************************************)
EXTENDS WorkbookImport, LedgerTransfer, TossImport, MCPatchMerge

VARIABLE part

importVars == <<workbookVars, transferVars, tossVars, vars, part>>

MCInit ==
    /\ part \in {"workbook", "package", "reading", "review", "holding"}
    /\ WorkbookInit /\ TransferInit /\ TossInit /\ Init
    /\ part # "holding" => val = [f \in Field |-> 0]
    /\ part # "package" => source = [rows |-> {}, holdings |-> {}] /\ named = [p \in Person |-> "Kim"]

Workbooks == part = "workbook" /\ WorkbookNext /\ UNCHANGED <<transferVars, tossVars, vars, part>>
Packages == part = "package" /\ TransferNext /\ UNCHANGED <<workbookVars, tossVars, vars, part>>
Screenshots ==
    /\ part \in {"reading", "review"}
    /\ TossNext
    /\ IF part = "reading" THEN <<preview, apply>>' = <<preview, apply>> ELSE lines' = lines
    /\ UNCHANGED <<workbookVars, transferVars, vars, part>>

Edits == part = "holding" /\ Next /\ UNCHANGED <<workbookVars, transferVars, tossVars, part>>

MCNext == Workbooks \/ Packages \/ Screenshots \/ Edits

MCSpec == MCInit /\ [][MCNext]_importVars

MCOwnerKey == [name \in OwnerName |-> IF name = "Kim" THEN "kim" ELSE name]

\* Two stocks, priced and by sum, one without a price, a pension, a building.
MCCell ==
    {[sheet |-> "stock", name |-> "A", quantity |-> 2, cost |-> 3, total |-> 0],
     [sheet |-> "stock", name |-> "B", quantity |-> 2, cost |-> 0, total |-> 6],
     [sheet |-> "stock", name |-> "C", quantity |-> 2, cost |-> 0, total |-> 0],
     [sheet |-> "pension", name |-> "A", quantity |-> 0, cost |-> 0, total |-> 6],
     [sheet |-> "estate", name |-> "A", quantity |-> 1, cost |-> 0, total |-> 9]}

\* Reviewers and clients are the same model values.
MCSymmetry == Permutations(Content) \cup Permutations(Shown) \cup Permutations(Reviewer)
===========================================================================
