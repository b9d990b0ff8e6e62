--------------------------- MODULE MCReceiptVault ---------------------------
(***************************************************************************)
(* Instances of ReceiptVault: two receipts of one swap, two without one.   *)
(***************************************************************************)
EXTENDS ReceiptVault

CONSTANTS r1, r2, r3, r4, x1

SwapMC == [r \in Receipt |-> IF r \in {r1, r2} THEN x1 ELSE NoSwap]
=============================================================================
