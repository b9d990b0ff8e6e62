---------------------------- MODULE MCDiscovery ----------------------------
(***************************************************************************)
(* Instances of Discovery: one maker, an onboarding run for one of its two *)
(* keys, and ads under both keys.                                          *)
(***************************************************************************)
EXTENDS Discovery

CONSTANTS maker, r1, r2, k1, k2

OperatorMC == [r \in Run |-> maker]
KeyMC == [r \in Run |-> IF r = r1 THEN k1 ELSE k2]
AdsMC == {[operator |-> maker, key |-> k1, at |-> 1, accepted |-> TRUE],
          [operator |-> maker, key |-> k2, at |-> 2, accepted |-> TRUE],
          [operator |-> maker, key |-> k1, at |-> 3, accepted |-> FALSE]}
=============================================================================
