----------------------------- MODULE MCDefence -----------------------------
(***************************************************************************)
(* Instances of Defence: the receipts that may reach the maker's vault.    *)
(***************************************************************************)
EXTENDS Defence

CONSTANTS maker, a, e1

\* A receipt of the grievance, and one for its evidence hash made out to
\* another accuser.
ReceiptMC == {[accuser |-> x, accused |-> maker, evidence |-> e1] : x \in {a, maker}}

\* The other daemon is never accused and looks nothing up.
ArrivalsMC == {maker} \X ReceiptMC
=============================================================================
