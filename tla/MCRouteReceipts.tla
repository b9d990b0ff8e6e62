--------------------------- MODULE MCRouteReceipts ---------------------------
(***************************************************************************)
(* Instances of RouteReceipts: two traced submissions whose routes have    *)
(* different second hops, an untraced one where it matters, and a vanilla  *)
(* onion.                                                                  *)
(***************************************************************************)
EXTENDS RouteReceipts

CONSTANTS s1, s2, s3, v1, m1, m2

SecondHopMC == [s \in Submission |-> IF s = s1 THEN m1 ELSE m2]
=============================================================================
