--------------------------- MODULE MCPatchMerge ---------------------------
(***************************************************************************)
(* Instances of PatchMerge: a transaction row, whose columns carry the     *)
(* cross-field checks and which imports never rewrite, and a holding row,  *)
(* which imports do rewrite.                                               *)
(***************************************************************************)
EXTENDS PatchMerge, TLC

ClientSymmetry == Permutations(Client)

\* A transaction row: flow (0 = expense), inst (0 = no installment), owner.
TxField == {"flow", "inst", "owner"}
OwnerOnly == {"owner"}

\* patch_transaction: an installment only on an expense.
TxValidRow(r) == r["inst"] # 0 => r["flow"] = 0

\* A holding row has no cross-field check.
HoldingField == {"quantity", "owner"}
AnyRow(r) == TRUE
===========================================================================
