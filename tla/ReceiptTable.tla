---------------------------- MODULE ReceiptTable ----------------------------
(***************************************************************************)
(* What a receipt vault promises: it holds only receipts that somebody     *)
(* emitted, at most one per evidence and per swap, and never loses one.    *)
(***************************************************************************)
CONSTANTS Receipt, SameSwap(_, _), EvidenceOf(_)

VARIABLES emitted, stored

Clash(r, s) == EvidenceOf(r) = EvidenceOf(s) \/ SameSwap(r, s)

Init == emitted = {} /\ stored = {}

Emit(r) == emitted' = emitted \cup {r} /\ UNCHANGED stored

Store(r) ==
    /\ r \in emitted
    /\ \A s \in stored : ~Clash(r, s)
    /\ stored' = stored \cup {r}
    /\ UNCHANGED emitted

Next == \E r \in Receipt : Emit(r) \/ Store(r)

Spec == Init /\ [][Next]_<<emitted, stored>>
=============================================================================
