----------------------------- MODULE MCCoinSwap -----------------------------
(***************************************************************************)
(* Instances of CoinSwap: three nodes, onions that differ in the coin they *)
(* spend, its value, the node at which they fail and how they were queued. *)
(***************************************************************************)
EXTENDS CoinSwap, TLC

CONSTANTS o1, o2, o3, k1, k2

\* o1 and o3 are two onions for one coin; o2 spends the other.
SpendsMC == [o \in Onion |-> IF o = o2 THEN k2 ELSE k1]
ValueMC == [k \in Coin |-> IF k = k1 THEN 1 ELSE 2]
SameValueMC == [k \in Coin |-> 1]
PeelsMC == [o \in Onion |-> IF o = o2 THEN {0} ELSE Hop]
PeelsEverywhereMC == [o \in Onion |-> Hop]
HopFeeMC == [o \in Onion |-> [i \in Hop |-> 3]]
=============================================================================
