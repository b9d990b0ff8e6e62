--------------------------- MODULE MCTakerRoutes ---------------------------
(***************************************************************************)
(* Instances of TakerRoutes: four or five makers with ads of a few kinds, a *)
(* picked route and one from a directory, two coins.                       *)
(***************************************************************************)
EXTENDS TakerRoutes

CONSTANTS m1, m2, m3, m4, m5, p, d, c1, c2

\* Words are below 16, so fees above 7 are refused and 14 makes sums wrap.
Rank == [m \in Maker |-> CASE m = m1 -> 1 [] m = m2 -> 2 [] m = m3 -> 3 [] m = m4 -> 4
                        [] m = m5 -> 5]
Ad(m, kind) ==
    CASE kind = 1 -> [tor |-> m, fee |-> 1, key |-> m, stake |-> 1]
      [] kind = 2 -> [tor |-> m, fee |-> 3, key |-> m, stake |-> 2]
      [] kind = 3 -> [tor |-> m, fee |-> 14, key |-> m, stake |-> 1]
      [] kind = 4 -> [tor |-> m, fee |-> 0, key |-> Nobody, stake |-> 1]
      [] kind = 5 -> [tor |-> m, fee |-> 1, key |-> m1, stake |-> 2]
      [] kind = 6 -> [tor |-> Nobody, fee |-> 1, key |-> m, stake |-> 2]
      [] kind = 7 -> [tor |-> m, fee |-> 11, key |-> Nobody, stake |-> 3]

\* The last has a picked route that does not wrap beside routes that do.
KindsMC == {
    <<1, 1, 1, 2>>, <<2, 2, 2, 6>>, <<1, 1, 3, 3>>, <<1, 1, 2, 5>>,
    <<1, 1, 4, 6>>, <<4, 4, 4, 6>>, <<1, 1, 6, 6>>, <<1, 1, 2, 7, 7>>}
MarketsMC ==
    {[m \in {x \in Maker : Rank[x] <= Len(k)} |-> Ad(m, k[Rank[m]])] : k \in KindsMC}

Entry(m, fee, key) == [tor |-> m, fee |-> fee, key |-> key]
DirectoriesMC == {
    [amount |-> 4, hops |-> <<Entry(m1, 1, m1), Entry(m2, 1, m2), Entry(m3, 1, m3)>>],
    [amount |-> 3, hops |-> <<Entry(m1, 1, m1), Entry(m2, 1, m2), Entry(m3, 1, m3)>>],
    [amount |-> 4, hops |-> <<Entry(m1, 1, m1), Entry(m2, 14, m2), Entry(m3, 2, m3)>>],
    [amount |-> 4, hops |-> <<Entry(m1, 1, m1), Entry(m2, 1, BadKey), Entry(m3, 1, m3)>>],
    [amount |-> 4, hops |-> <<Entry(m1, 1, m1), Entry(m2, 1, m2)>>]}

SourcesMC == [a \in Attempt |-> IF a = d THEN {"directory"} ELSE {"pathfind", "self"}]
TriggerMC == [a \in Attempt |-> a = p]
WaitMC == [a \in Attempt |-> a = d]
VaultMC == [a \in Attempt |-> a = p]
AmountsMC == [a \in Attempt |-> {3, 4}]
CoinMC == [c \in Coin |-> IF c = c1 THEN [value |-> 4, blind |-> 1, spendKey |-> 2]
                                     ELSE [value |-> 3, blind |-> 2, spendKey |-> 1]]
Draw(a, b, c, e, f, g, h) ==
    [skInput |-> a, skSend |-> b, s0 |-> c, s1 |-> e, k0 |-> f, k1 |-> g, mask |-> h]
DrawsMC == {Draw(1, 2, 2, 1, 0, 2, 1)}
=============================================================================
