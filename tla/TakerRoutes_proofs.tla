------------------------- MODULE TakerRoutes_proofs -------------------------
(***************************************************************************)
(* Proofs about a taker's route.  What it is told: an error means that no  *)
(* onion is under way, an empty queue that its own has gone, and a filed   *)
(* grievance that its case is in the court.  What it pays: what its route  *)
(* asks, on a route that no cheaper one beats and that every later check   *)
(* lets through, with an onion that the right keys always peel.  For any   *)
(* makers, coins, fees, keys and draws, and whatever the two connections   *)
(* do.                                                                     *)
(***************************************************************************)
EXTENDS TakerRoutes, TLAPS, SequenceTheorems

-----------------------------------------------------------------------------
(* Scalars.                                                                *)

\* An integer is its remainder and a multiple of the order.
LEMMA Division ==
    ASSUME NEW x \in Int
    PROVE  /\ x % Order \in Scalar
           /\ \E q \in Int : x = q * Order + (x % Order)
<1>1. x % Order \in Scalar
  BY OrderAssumption DEF Scalar
<1>2. x = (x \div Order) * Order + (x % Order) /\ x \div Order \in Int
  BY OrderAssumption
<1> QED
  BY <1>1, <1>2

\* There is one remainder only.
LEMMA Remainder ==
    ASSUME NEW x \in Int, NEW q \in Int, NEW r \in Scalar, x = q * Order + r
    PROVE  x % Order = r
<1> DEFINE s == x % Order
<1>1. PICK p \in Int : x = p * Order + s
  BY Division
<1>2. s \in 0..Order-1 /\ r \in 0..Order-1 /\ Order \in Int /\ Order > 0
  BY Division, OrderAssumption DEF Scalar
<1> HIDE DEF s
<1>3. (p - q) * Order = r - s
  BY <1>1, <1>2
<1>4. CASE p - q >= 1
  <2>1. (p - q) * Order >= Order
    BY <1>2, <1>4
  <2> QED
    BY <1>2, <1>3, <2>1
<1>5. CASE p - q <= -1
  <2>1. (q - p) * Order >= Order
    BY <1>2, <1>5
  <2>2. (q - p) * Order = s - r
    BY <1>1, <1>2
  <2> QED
    BY <1>2, <2>1, <2>2
<1>6. CASE p = q
  BY <1>1, <1>2, <1>6 DEF s
<1> QED
  BY <1>4, <1>5, <1>6

\* To reduce before a sum or after it is the same.
LEMMA ModPlus ==
    ASSUME NEW x \in Int, NEW y \in Int
    PROVE  ((x % Order) + y) % Order = (x + y) % Order
<1> DEFINE r == x % Order
           z == r + y
           s == z % Order
<1>1. r \in Int /\ z \in Int /\ Order \in Int
  BY Division, OrderAssumption DEF Scalar
<1>2. PICK p \in Int : x = p * Order + r
  BY Division
<1> HIDE DEF z
<1>3. PICK q \in Int : z = q * Order + s
  BY <1>1, Division
<1>4. s \in Scalar /\ s \in Int
  BY <1>1, Division DEF Scalar
<1> HIDE DEF s, r
<1>5. x + y = (p + q) * Order + s
  BY <1>1, <1>2, <1>3, <1>4 DEF z
<1>6. (x + y) % Order = s
  BY <1>4, <1>5, Remainder
<1> QED
  BY <1>6 DEF s, r, z

LEMMA Reduced == ASSUME NEW x \in Scalar PROVE x % Order = x /\ x \in Int
<1>1. x \in Int /\ x = 0 * Order + x /\ 0 \in Int
  BY OrderAssumption DEF Scalar
<1> QED
  BY <1>1, Remainder

\* What is added and then reduced is added to what was reduced.
LEMMA PlusReduced ==
    ASSUME NEW x \in Int, NEW y \in Int
    PROVE  (x + (y % Order)) % Order = (x + y) % Order
<1> DEFINE r == y % Order
<1>0. ((y % Order) + x) % Order = (y + x) % Order
  BY ModPlus
<1>1. r \in Int /\ ((r + x) % Order) = ((y + x) % Order)
  BY <1>0, Division, OrderAssumption DEF Scalar
<1>2. x + r = r + x /\ x + y = y + x
  BY <1>1
<1> QED
  BY <1>1, <1>2


-----------------------------------------------------------------------------
(* Package onion: what is left when some hops have peeled.  Each hop's pad *)
(* of a payload is one it can make; whoever has another key makes another. *)

\* A function on 1..n is a sequence of n.
LEMMA Counted ==
    ASSUME NEW n \in Nat, NEW S, NEW f \in [1..n -> S]
    PROVE  /\ f \in Seq(S) /\ Len(f) = n
           /\ n > 0 => f # <<>> /\ Tail(f) = [j \in 1..n - 1 |-> f[j + 1]]
<1>1. f \in Seq(S)
  OBVIOUS
<1>2. Len(f) = n
  BY <1>1
<1>3. n > 0 => f # <<>>
  BY <1>1, <1>2
<1>4. n > 0 => Tail(f) = [j \in 1..n - 1 |-> f[j + 1]]
  <2> SUFFICES ASSUME n > 0 PROVE Tail(f) = [j \in 1..n - 1 |-> f[j + 1]]
    OBVIOUS
  <2>1. Tail(f) \in Seq(S) /\ Len(Tail(f)) = n - 1
    BY <1>1, <1>2, <1>3
  <2>2. DOMAIN Tail(f) = 1..n - 1 /\ Tail(f) = [j \in DOMAIN Tail(f) |-> Tail(f)[j]]
    BY <2>1, LenProperties
  <2>3. \A j \in 1..n - 1 : Tail(f)[j] = f[j + 1]
    BY <1>1, <1>2, <1>3
  <2> QED
    BY <2>2, <2>3
<1> QED
  BY <1>1, <1>2, <1>3, <1>4

\* The pads around payload j of what s nodes have left, of the layers from the
\* given one on.
Around(hops, s, j, from) == {Pad(i + s, hops[i + s].key, j - i) : i \in from..j}

\* An onion for the hops after s of them have peeled theirs.
Remaining(hops, s) ==
    [pubKey |-> IF s < Len(hops) THEN s + 1 ELSE 0,
     payloads |-> [j \in 1..Len(hops) - s |->
         [text |-> Layer(hops, j + s), pads |-> Around(hops, s, j, 1)]]]

\* The same once hop s + 1 has taken its pads away.
Reads(hops, s) ==
    [j \in 1..Len(hops) - s |->
         [text |-> Layer(hops, j + s), pads |-> Around(hops, s, j, 2)]]

LEMMA NewIsWhole ==
    ASSUME NEW hops, Len(hops) \in Nat \ {0}
    PROVE  New(hops) = Remaining(hops, 0)
<1>1. \A j \in 1..Len(hops) : /\ Layer(hops, j) = Layer(hops, j + 0)
         /\ {Pad(i, hops[i].key, j - i) : i \in 1..j} = Around(hops, 0, j, 1)
  BY DEF Around
<1>2. Len(hops) - 0 = Len(hops) /\ 0 < Len(hops) /\ 0 + 1 = 1
  OBVIOUS
<1>3. New(hops).payloads = Remaining(hops, 0).payloads
  BY <1>1, <1>2 DEF New, Remaining
<1> QED
  BY <1>2, <1>3 DEF New, Remaining

LEMMA RemainingShape ==
    ASSUME NEW hops, Len(hops) \in Nat, NEW s \in Nat, s < Len(hops)
    PROVE  /\ Remaining(hops, s).pubKey = s + 1
           /\ Len(Remaining(hops, s).payloads) = Len(hops) - s
           /\ Remaining(hops, s).payloads # <<>>
           /\ \A j \in 1..Len(hops) - s : Remaining(hops, s).payloads[j] =
                [text |-> Layer(hops, j + s), pads |-> Around(hops, s, j, 1)]
<1> DEFINE n == Len(hops) - s
           f == Remaining(hops, s).payloads
<1>1. n \in Nat /\ n > 0
  OBVIOUS
<1>2. DOMAIN f = 1..n /\ f = [j \in 1..n |-> f[j]]
  BY DEF Remaining
<1>3. Remaining(hops, s).pubKey = s + 1
  BY DEF Remaining
<1>4. \A j \in 1..n : f[j] = [text |-> Layer(hops, j + s), pads |-> Around(hops, s, j, 1)]
  BY DEF Remaining
<1> HIDE DEF f, n
<1>5. f \in [1..n -> {f[j] : j \in 1..n}]
  BY <1>2
<1>6. Len(f) = n /\ f # <<>>
  BY <1>1, <1>5, Counted
<1> QED
  BY <1>3, <1>4, <1>6 DEF f, n

LEMMA Streamed ==
    ASSUME NEW t, NEW P, NEW pad
    PROVE  XORKeyStream([text |-> t, pads |-> P], pad) =
           [text |-> t, pads |-> (P \ {pad}) \cup ({pad} \ P)]
<1> DEFINE Q == (P \ {pad}) \cup ({pad} \ P)
<1>1. XORKeyStream([text |-> t, pads |-> P], pad) = [[text |-> t, pads |-> P] EXCEPT !.pads = Q]
  BY DEF XORKeyStream
<1> HIDE DEF Q
<1>2. [[text |-> t, pads |-> P] EXCEPT !.pads = Q] = [text |-> t, pads |-> Q]
  OBVIOUS
<1> QED
  BY <1>1, <1>2 DEF Q

\* Whoever has the key of hop s + 1 takes exactly that hop's pads away.
LEMMA RightKeyOpens ==
    ASSUME NEW hops, Len(hops) \in Nat, NEW s \in Nat, s < Len(hops)
    PROVE  Opened(Remaining(hops, s), hops[s + 1].key) = Reads(hops, s)
<1> DEFINE n == Len(hops) - s
           key == hops[s + 1].key
<1>1. n \in Nat \ {0}
  OBVIOUS
<1>2. ASSUME NEW j \in 1..n
      PROVE  LET pad == Pad(s + 1, key, j - 1)
                 P == Around(hops, s, j, 1)
             IN (P \ {pad}) \cup ({pad} \ P) = Around(hops, s, j, 2)
  <2> DEFINE pad == Pad(s + 1, key, j - 1)
  <2>1. pad \in Around(hops, s, j, 1)
    <3>1. 1 \in 1..j /\ pad = Pad(1 + s, hops[1 + s].key, j - 1)
      BY <1>1
    <3> QED
      BY <3>1 DEF Around
  <2>2. \A i \in 2..j : Pad(i + s, hops[i + s].key, j - i) # pad
    BY DEF Pad
  <2>3. \A i \in 1..j : i = 1 \/ i \in 2..j
    OBVIOUS
  <2>4. \A i \in 2..j : i \in 1..j
    OBVIOUS
  <2>5. Pad(1 + s, hops[1 + s].key, j - 1) = pad
    OBVIOUS
  <2> HIDE DEF pad
  <2>6. Around(hops, s, j, 1) = Around(hops, s, j, 2) \cup {pad}
    BY <2>1, <2>3, <2>4, <2>5 DEF Around
  <2>7. pad \notin Around(hops, s, j, 2)
    BY <2>2 DEF Around
  <2>8. (Around(hops, s, j, 1) \ {pad}) \cup ({pad} \ Around(hops, s, j, 1)) = Around(hops, s, j, 2)
    BY <2>6, <2>7
  <2> QED
    BY <2>8 DEF pad
<1>3. ASSUME NEW j \in 1..n
      PROVE  XORKeyStream(Remaining(hops, s).payloads[j], Pad(s + 1, key, j - 1)) =
             [text |-> Layer(hops, j + s), pads |-> Around(hops, s, j, 2)]
  <2>1. Remaining(hops, s).payloads[j] = [text |-> Layer(hops, j + s), pads |-> Around(hops, s, j, 1)]
    BY RemainingShape
  <2> QED
    BY <1>2, <2>1, Streamed
<1>4. Remaining(hops, s).pubKey = s + 1 /\ Len(Remaining(hops, s).payloads) = n
  BY RemainingShape
<1> QED
  BY <1>3, <1>4 DEF Opened, Reads

\* Nobody else reads the first payload.
LEMMA KeyThatPeels ==
    ASSUME NEW hops, Len(hops) \in Nat, NEW s \in Nat, s < Len(hops), NEW key
    PROVE  /\ Peels(Remaining(hops, s), key) <=> key = hops[s + 1].key
           /\ PeeledHop(Remaining(hops, s), key) = Layer(hops, s + 1)
<1> DEFINE whole == Remaining(hops, s)
           pad == Pad(s + 1, key, 0)
           own == Pad(s + 1, hops[s + 1].key, 0)
<1>1. Len(hops) - s \in Nat \ {0} /\ 1 \in 1..Len(hops) - s /\ 1 + s = s + 1 /\ 1 - 1 = 0
  OBVIOUS
<1>2. /\ whole.pubKey = s + 1 /\ Len(whole.payloads) = Len(hops) - s /\ whole.payloads # <<>>
  BY RemainingShape
<1>3. whole.payloads[1] = [text |-> Layer(hops, s + 1), pads |-> {own}]
  <2>1. Around(hops, s, 1, 1) = {own}
    BY <1>1 DEF Around
  <2>2. whole.payloads[1] = [text |-> Layer(hops, 1 + s), pads |-> Around(hops, s, 1, 1)]
    BY <1>1, RemainingShape
  <2> QED
    BY <1>1, <2>1, <2>2
<1>4. Opened(whole, key)[1] = [text |-> Layer(hops, s + 1), pads |-> ({own} \ {pad}) \cup ({pad} \ {own})]
  <2>1. Opened(whole, key)[1] = XORKeyStream(whole.payloads[1], Pad(whole.pubKey, key, 1 - 1))
    BY <1>1, <1>2 DEF Opened
  <2>2. Opened(whole, key)[1] = XORKeyStream([text |-> Layer(hops, s + 1), pads |-> {own}], pad)
    BY <1>1, <1>2, <1>3, <2>1
  <2> HIDE DEF own, pad, whole
  <2> QED
    BY <2>2, Streamed
<1>5. own = pad <=> key = hops[s + 1].key
  BY DEF Pad
<1> HIDE DEF own, pad, whole
<1>6. Opened(whole, key)[1].pads = {} <=> own = pad
  BY <1>4
<1> QED
  BY <1>2, <1>4, <1>5, <1>6 DEF Peels, PeeledHop, whole

\* A peeled onion is the onion of the hops that are left.
LEMMA PeelsToTheNext ==
    ASSUME NEW hops, Len(hops) \in Nat, NEW s \in Nat, s < Len(hops)
    PROVE  PeeledOnion(Remaining(hops, s), hops[s + 1].key) = Remaining(hops, s + 1)
<1> DEFINE whole == Remaining(hops, s)
           n == Len(hops) - s
           R == Reads(hops, s)
           P == {R[j] : j \in 1..n}
<1>1. n \in Nat /\ n > 0
  OBVIOUS
<1>2. Opened(whole, hops[s + 1].key) = R
  BY RightKeyOpens
<1>3. PeeledHop(whole, hops[s + 1].key) = Layer(hops, s + 1)
  BY KeyThatPeels
<1>4. DOMAIN R = 1..n /\ R = [j \in 1..n |-> R[j]]
  BY DEF Reads
<1>5. Tail(R) = [j \in 1..n - 1 |-> R[j + 1]]
  <2> HIDE DEF R, n
  <2>1. R \in [1..n -> P]
    BY <1>4
  <2> QED
    BY <1>1, <2>1, Counted
<1>6. ASSUME NEW j \in 1..n - 1
      PROVE  R[j + 1] = [text |-> Layer(hops, j + (s + 1)), pads |-> Around(hops, s + 1, j, 1)]
  <2>1. j + 1 \in 1..n /\ (j + 1) + s = j + (s + 1) /\ j \in Int
    BY <1>1
  <2>2. Around(hops, s, j + 1, 2) = Around(hops, s + 1, j, 1)
    <3>1. ASSUME NEW i \in 2..j + 1
          PROVE  Pad(i + s, hops[i + s].key, (j + 1) - i) \in Around(hops, s + 1, j, 1)
      <4>1. i + s = (i - 1) + (s + 1) /\ (j + 1) - i = j - (i - 1) /\ i - 1 \in 1..j
        BY <2>1
      <4> QED
        BY <4>1 DEF Around
    <3>2. ASSUME NEW i \in 1..j
          PROVE  Pad(i + (s + 1), hops[i + (s + 1)].key, j - i) \in Around(hops, s, j + 1, 2)
      <4>1. i + (s + 1) = (i + 1) + s /\ j - i = (j + 1) - (i + 1) /\ i + 1 \in 2..j + 1
        BY <2>1
      <4> QED
        BY <4>1 DEF Around
    <3>3. Around(hops, s, j + 1, 2) \subseteq Around(hops, s + 1, j, 1)
      BY <3>1 DEF Around
    <3>4. Around(hops, s + 1, j, 1) \subseteq Around(hops, s, j + 1, 2)
      BY <3>2 DEF Around
    <3> QED
      BY <3>3, <3>4
  <2>3. R[j + 1] = [text |-> Layer(hops, (j + 1) + s), pads |-> Around(hops, s, j + 1, 2)]
    BY <2>1 DEF Reads
  <2> QED
    BY <2>1, <2>2, <2>3
<1>7. PeeledOnion(whole, hops[s + 1].key) =
        [pubKey |-> Layer(hops, s + 1).next, payloads |-> [j \in 1..n - 1 |-> R[j + 1]]]
  BY <1>2, <1>3, <1>5 DEF PeeledOnion
<1>8. Layer(hops, s + 1).next = IF s + 1 < Len(hops) THEN (s + 1) + 1 ELSE 0
  BY DEF Layer
<1>9. n - 1 = Len(hops) - (s + 1)
  OBVIOUS
<1> DEFINE T == [j \in 1..n - 1 |-> R[j + 1]]
<1>10. T = Remaining(hops, s + 1).payloads
  BY <1>6, <1>9 DEF Remaining
<1>11. Remaining(hops, s + 1) = [pubKey |-> IF s + 1 < Len(hops) THEN (s + 1) + 1 ELSE 0,
                                 payloads |-> Remaining(hops, s + 1).payloads]
  BY DEF Remaining
<1>12. PeeledOnion(whole, hops[s + 1].key) = [pubKey |-> Layer(hops, s + 1).next, payloads |-> T]
  BY <1>7
<1> HIDE DEF T, whole
<1> QED
  BY <1>8, <1>10, <1>11, <1>12 DEF whole

-----------------------------------------------------------------------------
(* mln_build.go and mln_peel.go: the sums that go along with an onion.     *)

\* Of three hops, those up to the given one.
Upto(x, s) ==
    (IF s >= 1 THEN x[1] ELSE 0) + (IF s >= 2 THEN x[2] ELSE 0) + (IF s >= 3 THEN x[3] ELSE 0)

LEMMA UptoNext ==
    ASSUME NEW x, x[1] \in Int, x[2] \in Int, x[3] \in Int, NEW s \in 0..2
    PROVE  /\ Upto(x, 0) = 0 /\ Upto(x, s) \in Int /\ Upto(x, s + 1) = Upto(x, s) + x[s + 1]
           /\ Upto(x, 3) = x[1] + x[2] + x[3]
<1>1. s = 0 \/ s = 1 \/ s = 2
  OBVIOUS
<1> QED
  BY <1>1 DEF Upto

WalletCoin == [value : Nat, blind : Scalar, spendKey : Scalar]
Drawn == [skInput : Scalar, skSend : Scalar, s0 : Scalar, s1 : Scalar,
         k0 : Scalar, k1 : Scalar, mask : Scalar]

KernelBlinds(coin, outVal, draw) == <<draw.k0, draw.k1, LastKernelBlind(coin, outVal, draw)>>
StealthBlinds(coin, draw) == <<draw.s0, draw.s1, LastStealthBlind(coin, draw)>>

\* What is left after s nodes have peeled.
CarriedAt(fees, keys, coin, outVal, draw, s) ==
    [onion |-> Remaining(BuildHops(fees, keys, coin, outVal, draw), s),
     commit |-> Commitment(coin.value - Upto(fees, s),
         (BlindSwitch(coin.blind, coin.value) + Upto(KernelBlinds(coin, outVal, draw), s)) % Order),
     stealth |-> (StealthBase(coin, draw) + Upto(StealthBlinds(coin, draw), s)) % Order]

LEMMA ScalarsBuilt ==
    ASSUME NEW coin \in WalletCoin, NEW outVal \in Int, NEW draw \in Drawn
    PROVE  /\ BlindSwitch(coin.blind, coin.value) \in Scalar /\ BlindSwitch(draw.mask, outVal) \in Scalar
           /\ LastKernelBlind(coin, outVal, draw) \in Scalar
           /\ StealthBase(coin, draw) \in Scalar /\ LastStealthBlind(coin, draw) \in Scalar
<1>1. \A x \in Int, y \in Int : Plus(x, y) \in Scalar /\ Minus(x, y) \in Scalar
  BY Division DEF Plus, Minus
<1>2. \A x \in Scalar : x \in Int
  BY OrderAssumption DEF Scalar
<1>3. /\ coin.value \in Int /\ coin.blind \in Scalar /\ coin.spendKey \in Scalar
      /\ draw.skInput \in Scalar /\ draw.skSend \in Scalar /\ draw.s0 \in Scalar /\ draw.s1 \in Scalar
      /\ draw.k0 \in Scalar /\ draw.k1 \in Scalar /\ draw.mask \in Scalar
  BY DEF WalletCoin, Drawn
<1>4. 2 * coin.value \in Int /\ 2 * outVal \in Int
  BY <1>3
<1>5. BlindSwitch(coin.blind, coin.value) \in Scalar /\ BlindSwitch(draw.mask, outVal) \in Scalar
  BY <1>1, <1>2, <1>3, <1>4 DEF BlindSwitch
<1>6. LastKernelBlind(coin, outVal, draw) \in Scalar
  BY <1>1, <1>2, <1>3, <1>5 DEF LastKernelBlind
<1>7. StealthBase(coin, draw) \in Scalar
  BY <1>1, <1>2, <1>3 DEF StealthBase
<1>8. LastStealthBlind(coin, draw) \in Scalar
  BY <1>1, <1>2, <1>3, <1>7 DEF LastStealthBlind
<1> QED
  BY <1>5, <1>6, <1>7, <1>8

HopsAre(hops, fees, keys, coin, outVal, draw) ==
    /\ Len(hops) = 3
    /\ \A i \in 1..3 :
          /\ hops[i].key = keys[i] /\ hops[i].fee = fees[i]
          /\ hops[i].kernelBlind = KernelBlinds(coin, outVal, draw)[i]
          /\ hops[i].stealthBlind = StealthBlinds(coin, draw)[i]
          /\ hops[i].output = IF i < 3 THEN NoOutput
               ELSE [value |-> outVal, sender |-> draw.skSend,
                     commitment |-> Commitment(outVal, BlindSwitch(draw.mask, outVal))]

LEMMA HopsBuilt ==
    ASSUME NEW fees, NEW keys, NEW coin, NEW outVal, NEW draw
    PROVE  HopsAre(BuildHops(fees, keys, coin, outVal, draw), fees, keys, coin, outVal, draw)
<1> DEFINE hops == BuildHops(fees, keys, coin, outVal, draw)
<1>1. DOMAIN hops = 1..3 /\ hops = [i \in 1..3 |-> hops[i]]
  BY DEF BuildHops
<1>2. Len(hops) = 3
  <2> HIDE DEF hops
  <2>1. hops \in [1..3 -> {hops[i] : i \in 1..3}]
    BY <1>1
  <2> QED
    BY <2>1, Counted
<1>3. \A i \in 1..3 :
        /\ hops[i].key = keys[i] /\ hops[i].fee = fees[i]
        /\ hops[i].kernelBlind = KernelBlinds(coin, outVal, draw)[i]
        /\ hops[i].stealthBlind = StealthBlinds(coin, draw)[i]
        /\ hops[i].output = IF i < 3 THEN NoOutput
             ELSE [value |-> outVal, sender |-> draw.skSend,
                   commitment |-> Commitment(outVal, BlindSwitch(draw.mask, outVal))]
  BY DEF BuildHops, KernelBlinds, StealthBlinds
<1> QED
  BY <1>2, <1>3 DEF HopsAre

LEMMA CarriedFirst ==
    ASSUME NEW fees, fees[1] \in Nat, fees[2] \in Nat, fees[3] \in Nat, NEW keys,
           NEW coin \in WalletCoin, NEW outVal \in Int, NEW draw \in Drawn
    PROVE  BuildOnion(fees, keys, coin, outVal, draw) = CarriedAt(fees, keys, coin, outVal, draw, 0)
<1> DEFINE hops == BuildHops(fees, keys, coin, outVal, draw)
           b == BlindSwitch(coin.blind, coin.value)
           z == StealthBase(coin, draw)
<1>1. New(hops) = Remaining(hops, 0)
  <2>1. HopsAre(hops, fees, keys, coin, outVal, draw)
    BY HopsBuilt
  <2> HIDE DEF hops
  <2>2. Len(hops) \in Nat \ {0}
    BY <2>1 DEF HopsAre
  <2> QED
    BY <2>2, NewIsWhole
<1>2. \A x : Upto(x, 0) = 0
  BY DEF Upto
<1>3. b \in Scalar /\ z \in Scalar
  BY ScalarsBuilt
<1>4. coin.value - 0 = coin.value /\ coin.value \in Int
  BY DEF WalletCoin
<1> HIDE DEF b, z, hops
<1>5. (b + 0) % Order = b /\ (z + 0) % Order = z
  <2>1. b + 0 = b /\ z + 0 = z
    BY <1>3, Reduced
  <2> QED
    BY <1>3, <2>1, Reduced
<1> QED
  BY <1>1, <1>2, <1>4, <1>5 DEF BuildOnion, CarriedAt, b, z, hops

\* A node with the layer's key makes of it what the next node is to get.
LEMMA CarriedNext ==
    ASSUME NEW fees, fees[1] \in Nat, fees[2] \in Nat, fees[3] \in Nat, NEW keys,
           NEW coin \in WalletCoin, NEW outVal \in Int, NEW draw \in Drawn,
           NEW s \in 0..2, NEW key, key = keys[s + 1]
    PROVE  PeelStep(CarriedAt(fees, keys, coin, outVal, draw, s), key) =
           CarriedAt(fees, keys, coin, outVal, draw, s + 1)
<1> DEFINE hops == BuildHops(fees, keys, coin, outVal, draw)
           b == BlindSwitch(coin.blind, coin.value)
           z == StealthBase(coin, draw)
           K == KernelBlinds(coin, outVal, draw)
           S == StealthBlinds(coin, draw)
           now == CarriedAt(fees, keys, coin, outVal, draw, s)
           layer == Layer(hops, s + 1)
<1>0. HopsAre(hops, fees, keys, coin, outVal, draw)
  BY HopsBuilt
<1>20. now.onion = Remaining(hops, s)
  BY DEF CarriedAt
<1> HIDE DEF hops, now
<1>1. Len(hops) \in Nat /\ s < Len(hops) /\ s \in Nat /\ s + 1 \in 1..3
  BY <1>0 DEF HopsAre
<1>21. Len(hops) = 3
  BY <1>0 DEF HopsAre
<1>2. hops[s + 1].key = key
  BY <1>0, <1>1 DEF HopsAre
<1>3. PeeledOnion(now.onion, key) = Remaining(hops, s + 1)
  BY <1>1, <1>2, <1>20, PeelsToTheNext
<1>4. PeeledHop(now.onion, key) = layer
  BY <1>1, <1>20, KeyThatPeels
<1>5. layer.fee = fees[s + 1] /\ layer.kernelBlind = K[s + 1] /\ layer.stealthBlind = S[s + 1]
  BY <1>0, <1>1 DEF HopsAre, Layer
<1>6. b \in Int /\ z \in Int /\ \A i \in 1..3 : K[i] \in Int /\ S[i] \in Int
  <2>1. \A x \in Scalar : x \in Int
    BY Reduced
  <2>2. draw.k0 \in Scalar /\ draw.k1 \in Scalar /\ draw.s0 \in Scalar /\ draw.s1 \in Scalar
    BY DEF Drawn
  <2> QED
    <3>1. /\ K = <<draw.k0, draw.k1, LastKernelBlind(coin, outVal, draw)>>
          /\ S = <<draw.s0, draw.s1, LastStealthBlind(coin, draw)>>
      BY DEF KernelBlinds, StealthBlinds
    <3>2. /\ b \in Scalar /\ z \in Scalar
          /\ LastKernelBlind(coin, outVal, draw) \in Scalar /\ LastStealthBlind(coin, draw) \in Scalar
      BY ScalarsBuilt
    <3> HIDE DEF b, z, K, S
    <3> QED
      BY <2>1, <2>2, <3>1, <3>2
<1>7. coin.value \in Int
  BY DEF WalletCoin
<1>8. /\ now.commit.value = coin.value - Upto(fees, s)
      /\ now.commit.blind = (b + Upto(K, s)) % Order
      /\ now.stealth = (z + Upto(S, s)) % Order
  BY DEF CarriedAt, Commitment, now
<1> HIDE DEF b, z, K, S, layer
<1>9. now.commit.value - fees[s + 1] = coin.value - Upto(fees, s + 1)
  BY <1>7, <1>8, UptoNext
<1>10. Plus(now.commit.blind, K[s + 1]) = (b + Upto(K, s + 1)) % Order
  <2>0. K[1] \in Int /\ K[2] \in Int /\ K[3] \in Int
    BY <1>6
  <2>1. Upto(K, s) \in Int /\ Upto(K, s + 1) = Upto(K, s) + K[s + 1] /\ K[s + 1] \in Int
    BY <1>1, <1>6, <2>0, UptoNext
  <2> DEFINE u == Upto(K, s)
             k == K[s + 1]
  <2>2. u \in Int /\ k \in Int /\ Upto(K, s + 1) = u + k
    BY <2>1
  <2> HIDE DEF u, k
  <2>3. b + u \in Int /\ b + (u + k) = (b + u) + k
    BY <1>6, <2>2
  <2>4. (((b + u) % Order) + k) % Order = ((b + u) + k) % Order
    BY <2>2, <2>3, ModPlus
  <2> QED
    BY <1>8, <2>2, <2>3, <2>4 DEF Plus, u, k
<1>11. Plus(now.stealth, S[s + 1]) = (z + Upto(S, s + 1)) % Order
  <2>0. S[1] \in Int /\ S[2] \in Int /\ S[3] \in Int
    BY <1>6
  <2>1. Upto(S, s) \in Int /\ Upto(S, s + 1) = Upto(S, s) + S[s + 1] /\ S[s + 1] \in Int
    BY <1>1, <1>6, <2>0, UptoNext
  <2> DEFINE u == Upto(S, s)
             k == S[s + 1]
  <2>2. u \in Int /\ k \in Int /\ Upto(S, s + 1) = u + k
    BY <2>1
  <2> HIDE DEF u, k
  <2>3. z + u \in Int /\ z + (u + k) = (z + u) + k
    BY <1>6, <2>2
  <2>4. (((z + u) % Order) + k) % Order = ((z + u) + k) % Order
    BY <2>2, <2>3, ModPlus
  <2> QED
    BY <1>8, <2>2, <2>3, <2>4 DEF Plus, u, k
<1>12. PeelStep(now, key) =
         [onion |-> Remaining(hops, s + 1),
          commit |-> Commitment(coin.value - Upto(fees, s + 1), (b + Upto(K, s + 1)) % Order),
          stealth |-> (z + Upto(S, s + 1)) % Order]
  BY <1>3, <1>4, <1>5, <1>9, <1>10, <1>11 DEF PeelStep, PeelCommitStep, PeelStealthStep
<1> QED
  BY <1>12 DEF CarriedAt, now, b, z, K, S, hops

\* Three blinds of which the last was chosen for it bring a sum where it is to be.
Reached(x, y, p, q) == (x + (p + q + Minus(Minus(Minus(y, x), p), q))) % Order

LEMMA MeetsIts ==
    ASSUME NEW x \in Scalar, NEW y \in Scalar, NEW p \in Scalar, NEW q \in Scalar
    PROVE  Reached(x, y, p, q) = y
<1>1. x \in Int /\ y \in Int /\ p \in Int /\ q \in Int
  BY Reduced
<1>2. Minus(Minus(y, x), p) = (y - x - p) % Order
  <2> DEFINE w == y - x
             n == 0 - p
  <2>1. w \in Int /\ n \in Int
    BY <1>1
  <2> HIDE DEF w, n
  <2>2. ((w % Order) + n) % Order = (w + n) % Order
    BY <2>1, ModPlus
  <2>3. (w % Order) \in Int
    BY <2>1, Division, OrderAssumption DEF Scalar
  <2>4. (w % Order) + n = (w % Order) - p /\ w + n = w - p
    BY <1>1, <2>1, <2>3 DEF n
  <2> QED
    BY <2>2, <2>4 DEF Minus, w
<1>3. Minus(Minus(Minus(y, x), p), q) = (y - x - p - q) % Order
  <2> DEFINE w == y - x - p
             n == 0 - q
  <2>1. w \in Int /\ n \in Int
    BY <1>1
  <2> HIDE DEF w, n
  <2>2. ((w % Order) + n) % Order = (w + n) % Order
    BY <2>1, ModPlus
  <2>3. (w % Order) \in Int
    BY <2>1, Division, OrderAssumption DEF Scalar
  <2>4. (w % Order) + n = (w % Order) - q /\ w + n = w - q
    BY <1>1, <2>1, <2>3 DEF n
  <2> QED
    BY <1>2, <2>2, <2>4 DEF Minus, w
<1> DEFINE l == y - x - p - q
           d == x + p + q
<1>4. l \in Int /\ d \in Int /\ d + l = y
  BY <1>1
<1>5. x + (p + q + (l % Order)) = d + (l % Order)
  <2>1. (l % Order) \in Int
    BY <1>4, Division, OrderAssumption DEF Scalar
  <2> HIDE DEF l
  <2> QED
    BY <1>1, <2>1
<1> HIDE DEF d, l
<1>6. (d + (l % Order)) % Order = (d + l) % Order
  BY <1>4, PlusReduced
<1> QED
  BY <1>3, <1>4, <1>5, <1>6, Reduced DEF l, Reached

\* After the third hop the sums are those of the output.
LEMMA CarriedLast ==
    ASSUME NEW fees, fees[1] \in Nat, fees[2] \in Nat, fees[3] \in Nat, NEW keys,
           NEW coin \in WalletCoin, NEW outVal \in Int, NEW draw \in Drawn,
           coin.value - (fees[1] + fees[2] + fees[3]) = outVal
    PROVE  /\ CarriedAt(fees, keys, coin, outVal, draw, 3).commit =
              Commitment(outVal, BlindSwitch(draw.mask, outVal))
           /\ CarriedAt(fees, keys, coin, outVal, draw, 3).stealth = draw.skSend
<1> DEFINE b == BlindSwitch(coin.blind, coin.value)
           y == BlindSwitch(draw.mask, outVal)
           z == StealthBase(coin, draw)
           K == KernelBlinds(coin, outVal, draw)
           S == StealthBlinds(coin, draw)
<1>1. draw.k0 \in Scalar /\ draw.k1 \in Scalar /\ draw.s0 \in Scalar /\ draw.s1 \in Scalar /\ draw.skSend \in Scalar
  BY DEF Drawn
<1>2. b \in Scalar /\ y \in Scalar /\ z \in Scalar
  BY ScalarsBuilt
<1>3. /\ Upto(K, 3) = draw.k0 + draw.k1 + Minus(Minus(Minus(y, b), draw.k0), draw.k1)
      /\ Upto(S, 3) = draw.s0 + draw.s1 + Minus(Minus(Minus(draw.skSend, z), draw.s0), draw.s1)
  BY DEF Upto, KernelBlinds, StealthBlinds, LastKernelBlind, LastStealthBlind
<1>4. Upto(fees, 3) = fees[1] + fees[2] + fees[3]
  BY DEF Upto
<1> HIDE DEF b, y, z, K, S
<1>5. Reached(b, y, draw.k0, draw.k1) = y /\ Reached(z, draw.skSend, draw.s0, draw.s1) = draw.skSend
  BY <1>1, <1>2, MeetsIts
<1>6. (b + Upto(K, 3)) % Order = y /\ (z + Upto(S, 3)) % Order = draw.skSend
  BY <1>3, <1>5 DEF Reached
<1> QED
  BY <1>4, <1>6 DEF CarriedAt, b, y, z, K, S

\* At each node the onion is kept if and only if the node has the layer's key.
LEMMA CarriedIsKept ==
    ASSUME NEW fees, fees[1] \in Nat, fees[2] \in Nat, fees[3] \in Nat, NEW keys,
           NEW coin \in WalletCoin, NEW outVal \in Nat, NEW draw \in Drawn,
           coin.value - (fees[1] + fees[2] + fees[3]) = outVal,
           NEW s \in 0..2, NEW key
    PROVE  KeptByPeel(CarriedAt(fees, keys, coin, outVal, draw, s), key, s = 2) <=> key = keys[s + 1]
<1> DEFINE hops == BuildHops(fees, keys, coin, outVal, draw)
           now == CarriedAt(fees, keys, coin, outVal, draw, s)
           out == [value |-> outVal, sender |-> draw.skSend,
                   commitment |-> Commitment(outVal, BlindSwitch(draw.mask, outVal))]
<1>0. HopsAre(hops, fees, keys, coin, outVal, draw)
  BY HopsBuilt
<1>20. now.onion = Remaining(hops, s)
  BY DEF CarriedAt
<1> HIDE DEF hops, now
<1>1. Len(hops) \in Nat /\ s < Len(hops) /\ s \in Nat /\ s + 1 \in 1..3
  BY <1>0 DEF HopsAre
<1>21. Len(hops) = 3
  BY <1>0 DEF HopsAre
<1>22. /\ Peels(now.onion, key) <=> key = hops[s + 1].key
       /\ PeeledHop(now.onion, key) = Layer(hops, s + 1)
  BY <1>1, <1>20, KeyThatPeels
<1>2. Peels(now.onion, key) <=> key = keys[s + 1]
  BY <1>0, <1>1, <1>22 DEF HopsAre
<1>3. PeeledHop(now.onion, key).output = IF s + 1 < 3 THEN NoOutput ELSE out
  BY <1>0, <1>1, <1>22 DEF HopsAre, Layer
<1>4. out # NoOutput
  <2>1. BlindSwitch(draw.mask, outVal) \in Scalar /\ draw.skSend \in Scalar
    <3>1. outVal \in Int /\ draw.skSend \in Scalar
      BY DEF Drawn
    <3> QED
      BY <3>1, ScalarsBuilt
  <2>2. out \in [value : Int, sender : Scalar, commitment : [value : Int, blind : Scalar]]
    BY <2>1 DEF Commitment
  <2> HIDE DEF out
  <2> QED
    BY <2>2, OutputAssumption
<1>5. ASSUME s = 2, key = keys[s + 1]
      PROVE  out.commitment = PeelStep(now, key).commit /\ out.sender = PeelStep(now, key).stealth
  BY <1>5, CarriedNext, CarriedLast DEF now
<1>6. out.value >= 0
  OBVIOUS
<1>7. s = 2 <=> ~(s + 1 < 3)
  OBVIOUS
<1> HIDE DEF out
<1> QED
  BY <1>2, <1>3, <1>4, <1>5, <1>6, <1>7 DEF KeptByPeel, now

-----------------------------------------------------------------------------
(* What a client is told.                                                  *)

\* The variables that say how far an attempt has come.
ToldTypeOK ==
    /\ client \in [Attempt -> Client] /\ wire \in [Attempt -> Wire]
    /\ DOMAIN onion = Attempt
    /\ \A a \in Attempt : onion[a] # NoOnion =>
          /\ DOMAIN onion[a] = {"stage", "coin", "queued", "replaced", "etc"}
          /\ onion[a].stage \in 0..3 /\ onion[a].replaced \in BOOLEAN
    /\ unsure \subseteq Attempt
    /\ filing \in [Attempt -> {"none", "sent", "filed", "error"}]

\* Where the call of an attempt is, where its client is, and whether an onion
\* was made of it, go together; a client that is told nothing of an onion has
\* met a break.
Correspond ==
    \A a \in Attempt :
        /\ client[a] \in {"idle", "routed"} => wire[a] = "none" /\ onion[a] = NoOnion
        /\ wire[a] \in {"sidecar", "engine"} => onion[a] = NoOnion
        /\ wire[a] = "accepted" => onion[a] # NoOnion
        /\ wire[a] # "none" => client[a] \in {"posted", "refused"}
        /\ client[a] = "refused" /\ wire[a] # "none" => a \in unsure
        /\ wire[a] = "error" /\ a \notin unsure => onion[a] = NoOnion
        /\ client[a] = "posted" => wire[a] # "none"
        /\ client[a] \in {"accepted", "waiting", "done", "cleared"} => onion[a] # NoOnion

\* An onion that is not in the queue of coinswapd was sent away, broadcast, or
\* given up for another.
Unqueued ==
    \A a \in Attempt : onion[a] # NoOnion /\ ~onion[a].queued =>
        remote \/ onion[a].stage = 3 \/ onion[a].replaced

TInv == ToldTypeOK /\ Correspond /\ Unqueued /\ RefusedIsNotQueued /\ ClearedIsGone

LEMMA NewOnion ==
    ASSUME NEW s, NEW c, NEW q, NEW r, NEW e
    PROVE  [stage |-> s, coin |-> c, queued |-> q, replaced |-> r, etc |-> e] # NoOnion
<1> DEFINE o == [stage |-> s, coin |-> c, queued |-> q, replaced |-> r, etc |-> e]
<1>1. "etc" \in DOMAIN o /\ "etc" \notin DOMAIN NoOnion
  BY DEF NoOnion
<1> QED
  BY <1>1


\* Where the onion of an attempt is.
Made(a) == onion[a] # NoOnion
Gone(a) == onion[a].stage = 3 \/ onion[a].replaced

LEMMA GoneSame ==
    ASSUME UNCHANGED onion, NEW a
    PROVE  (Made(a)' = Made(a)) /\ (Gone(a)' = Gone(a))
BY DEF Made, Gone

\* A step of an attempt's client or call, with all onions as they are.
LEMMA TalkInv ==
    ASSUME TInv, NEW a \in Attempt, UNCHANGED <<remote, onion>>,
           filing' \in [Attempt -> {"none", "sent", "filed", "error"}],
           NEW s \in Client, NEW w \in Wire, ClientAt(a, s), WireAt(a, w),
           unsure \subseteq unsure', unsure' \subseteq unsure \cup {a},
           s \in {"idle", "routed"} => w = "none" /\ ~Made(a),
           w \in {"sidecar", "engine"} => ~Made(a),
           w = "accepted" => Made(a),
           w # "none" => s \in {"posted", "refused"},
           s = "refused" /\ w # "none" => a \in unsure',
           w = "error" /\ a \notin unsure' => ~Made(a),
           s = "posted" => w # "none",
           s \in {"accepted", "waiting", "done", "cleared"} => Made(a),
           s = "refused" /\ a \notin unsure' => ~Made(a),
           s = "cleared" /\ ~remote => Gone(a)
    PROVE  TInv'
<1>1. ToldTypeOK'
  BY DEF TInv, ToldTypeOK, ClientAt, WireAt
<1>2. /\ client'[a] = s /\ wire'[a] = w
      /\ \A b \in Attempt : b # a => client'[b] = client[b] /\ wire'[b] = wire[b]
  BY DEF TInv, ToldTypeOK, ClientAt, WireAt
<1>3. Correspond'
  BY <1>2 DEF TInv, Correspond, Made
<1>4. Unqueued'
  BY DEF TInv, Unqueued
<1>5. RefusedIsNotQueued' /\ ClearedIsGone'
  BY <1>2 DEF TInv, RefusedIsNotQueued, ClearedIsGone, Made, Gone
<1> QED
  BY <1>1, <1>3, <1>4, <1>5 DEF TInv

LEMMA TalkStep ==
    ASSUME TInv, NEW a \in Attempt,
           \/ \E source \in Sources[a] : NoRoute(a, source) \/ BuildRoute(a, source)
           \/ Execute(a) \/ Answer(a) \/ GiveUp(a) \/ RunBatch(a) \/ PollStatus(a) \/ WaitFails(a)
           \/ HandleSwap(a) \/ Break(a) \/ Refuse(a)
    PROVE  TInv'
<1>1. /\ UNCHANGED <<remote, onion, filing>>
      /\ filing' \in [Attempt -> {"none", "sent", "filed", "error"}]
  BY DEF NoRoute, BuildRoute, Execute, Answer, GiveUp, RunBatch, PollStatus, WaitFails, HandleSwap,
         Break, Refuse, grievance, TInv, ToldTypeOK
<1>2. /\ UNCHANGED wire => WireAt(a, wire[a])
      /\ UNCHANGED client => ClientAt(a, client[a])
      /\ client[a] \in Client /\ wire[a] \in Wire
  BY DEF TInv, ToldTypeOK, WireAt, ClientAt
<1>3. ASSUME NEW source, NoRoute(a, source) \/ BuildRoute(a, source) PROVE TInv'
  BY <1>1, <1>2, <1>3, TalkInv DEF NoRoute, BuildRoute, TInv, Correspond, Made, Client
<1>4. CASE Execute(a)
  BY <1>1, <1>2, <1>4, TalkInv DEF Execute, TInv, Correspond, Made, Client, Wire
<1>5. CASE Answer(a)
  BY <1>1, <1>2, <1>5, TalkInv DEF Answer, TInv, Correspond, Made, Client, Wire
<1>6. CASE GiveUp(a)
  BY <1>1, <1>2, <1>6, TalkInv DEF GiveUp, TInv, Correspond, Made, Client, Wire
<1>7. CASE RunBatch(a)
  BY <1>1, <1>2, <1>7, TalkInv DEF RunBatch, AfterBatch, TInv, Correspond, Made, Client
<1>8. CASE PollStatus(a)
  BY <1>1, <1>2, <1>8, TalkInv DEF PollStatus, Pending, TInv, Correspond, Unqueued, Made, Gone, Client
<1>9. CASE WaitFails(a)
  BY <1>1, <1>2, <1>9, TalkInv DEF WaitFails, TInv, Correspond, Made, Client
<1>10. CASE HandleSwap(a)
  BY <1>1, <1>2, <1>10, TalkInv DEF HandleSwap, TInv, Correspond, Made, Wire
<1>11. CASE Break(a)
  BY <1>1, <1>2, <1>11, TalkInv DEF Break, TInv, Correspond, Made, Wire
<1>12. CASE Refuse(a)
  BY <1>1, <1>2, <1>12, TalkInv DEF Refuse, TInv, Correspond, Made, Wire
<1> QED
  BY <1>3, <1>4, <1>5, <1>6, <1>7, <1>8, <1>9, <1>10, <1>11, <1>12


\* An onion that gives way to another, and one that is peeled, is an onion yet.
LEMMA WayOnion ==
    ASSUME NEW o, DOMAIN o = {"stage", "coin", "queued", "replaced", "etc"},
           NEW w, w = [o EXCEPT !.queued = FALSE, !.replaced = TRUE]
    PROVE  /\ w # NoOnion /\ DOMAIN w = DOMAIN o
           /\ w.stage = o.stage /\ w.queued = FALSE /\ w.replaced = TRUE
<1>1. DOMAIN w = DOMAIN o
  OBVIOUS
<1>2. DOMAIN NoOnion = {"stage", "coin"}
  BY DEF NoOnion
<1> QED
  BY <1>1, <1>2

\* What coinswapd does to the onions of others when it takes a's request.
GivesWay(x) ==
    onion'[x] = onion[x] \/ (Made(x) /\ onion'[x] = [onion[x] EXCEPT !.queued = FALSE, !.replaced = TRUE])

LEMMA AcceptInv ==
    ASSUME TInv, NEW a \in Attempt, wire[a] = "engine", UNCHANGED <<remote, client, filing>>,
           DOMAIN onion' = Attempt,
           \A x \in Attempt : x # a => GivesWay(x),
           NEW w \in {"accepted", "error"}, WireAt(a, w),
           \/ /\ ~Made(a)'
              /\ w = "error" /\ unsure' = unsure
           \/ /\ Made(a)' /\ w = "accepted" /\ unsure' = unsure
           \/ /\ Made(a)' /\ w = "error" /\ unsure' = unsure \cup {a},
           Made(a)' => /\ DOMAIN onion'[a] = {"stage", "coin", "queued", "replaced", "etc"}
                       /\ onion'[a].stage = 0 /\ onion'[a].replaced \in BOOLEAN
                       /\ onion'[a].queued = ~remote
    PROVE  TInv'
<1>1. ~Made(a) /\ client[a] \in {"posted", "refused"} /\ (client[a] = "refused" => a \in unsure)
  BY DEF TInv, Correspond, Made
<1>2. \A b \in Attempt : b # a =>
         /\ Made(b)' <=> Made(b)
         /\ Made(b) => /\ DOMAIN onion'[b] = {"stage", "coin", "queued", "replaced", "etc"}
                       /\ onion'[b].stage = onion[b].stage /\ onion'[b].replaced \in BOOLEAN
                       /\ Gone(b) => Gone(b)'
                       /\ ~onion'[b].queued => ~onion[b].queued \/ onion'[b].replaced
  <2> SUFFICES ASSUME NEW b \in Attempt, b # a
               PROVE  /\ Made(b)' <=> Made(b)
                      /\ Made(b) => /\ DOMAIN onion'[b] = {"stage", "coin", "queued", "replaced", "etc"}
                                    /\ onion'[b].stage = onion[b].stage /\ onion'[b].replaced \in BOOLEAN
                                    /\ Gone(b) => Gone(b)'
                                    /\ ~onion'[b].queued => ~onion[b].queued \/ onion'[b].replaced
    OBVIOUS
  <2>1. Made(b) => /\ DOMAIN onion[b] = {"stage", "coin", "queued", "replaced", "etc"}
                   /\ onion[b].replaced \in BOOLEAN
    BY DEF Made, TInv, ToldTypeOK
  <2>2. CASE onion'[b] = onion[b]
    BY <2>1, <2>2 DEF Made, Gone
  <2>3. CASE Made(b) /\ onion'[b] = [onion[b] EXCEPT !.queued = FALSE, !.replaced = TRUE]
    <3>1. /\ onion'[b] # NoOnion /\ DOMAIN onion'[b] = DOMAIN onion[b]
          /\ onion'[b].stage = onion[b].stage /\ onion'[b].queued = FALSE /\ onion'[b].replaced = TRUE
      BY <2>1, <2>3, WayOnion
    <3> QED
      BY <2>1, <2>3, <3>1 DEF Made, Gone
  <2> QED
    BY <2>2, <2>3 DEF GivesWay
<1>3. wire'[a] = w /\ \A b \in Attempt : b # a => wire'[b] = wire[b]
  BY DEF TInv, ToldTypeOK, WireAt
<1>4. ToldTypeOK'
  <2>1. wire' \in [Attempt -> Wire] /\ unsure' \subseteq Attempt
    BY DEF TInv, ToldTypeOK, WireAt, Wire
  <2>2. ASSUME NEW b \in Attempt, onion'[b] # NoOnion
        PROVE  /\ DOMAIN onion'[b] = {"stage", "coin", "queued", "replaced", "etc"}
               /\ onion'[b].stage \in 0..3 /\ onion'[b].replaced \in BOOLEAN
    <3>1. CASE b = a
      <4>1. Made(a)'
        BY <2>2, <3>1 DEF Made
      <4>2. /\ DOMAIN onion'[a] = {"stage", "coin", "queued", "replaced", "etc"}
            /\ onion'[a].stage = 0 /\ onion'[a].replaced \in BOOLEAN
        BY <4>1
      <4> QED
        BY <3>1, <4>2
    <3>2. CASE b # a
      <4>1. Made(b) /\ onion[b].stage \in 0..3
        BY <1>2, <2>2, <3>2 DEF Made, TInv, ToldTypeOK
      <4> QED
        BY <1>2, <3>2, <4>1
    <3> QED
      BY <3>1, <3>2
  <2>3. /\ client' \in [Attempt -> Client] /\ filing' \in [Attempt -> {"none", "sent", "filed", "error"}]
        /\ DOMAIN onion' = Attempt
    BY DEF TInv, ToldTypeOK
  <2> QED
    BY <2>1, <2>2, <2>3 DEF ToldTypeOK
<1>5. Correspond'
  BY <1>1, <1>2, <1>3 DEF TInv, Correspond, Made
<1>6. Unqueued'
  BY <1>2 DEF TInv, Unqueued, Made, Gone, ToldTypeOK
<1>7. RefusedIsNotQueued' /\ ClearedIsGone'
  BY <1>1, <1>2 DEF TInv, RefusedIsNotQueued, ClearedIsGone, Made, Gone
<1> QED
  BY <1>4, <1>5, <1>6, <1>7 DEF TInv

LEMMA AcceptStep == ASSUME TInv, NEW a \in Attempt, Accept(a) PROVE TInv'
<1>1. wire[a] = "engine" /\ UNCHANGED <<remote, client, filing>> /\ ~Made(a)
  BY DEF Accept, grievance, TInv, Correspond, Made
<1>2. ASSUME NEW c, NEW draw, Queue(a, c, draw),
             \/ WireAt(a, "accepted") /\ UNCHANGED unsure
             \/ WireAt(a, "error") /\ unsure' = unsure \cup {a}
      PROVE  TInv'
  <2> DEFINE e == OnionFor(request[a], c, draw)
  <2>1. /\ DOMAIN onion' = Attempt /\ \A x \in Attempt : x # a => GivesWay(x)
        /\ onion'[a] = [stage |-> 0, coin |-> c, queued |-> ~remote, replaced |-> FALSE, etc |-> e]
    BY <1>2 DEF Queue, Beside, GivesWay, Made
  <2> HIDE DEF e
  <2>2. /\ Made(a)' /\ DOMAIN onion'[a] = {"stage", "coin", "queued", "replaced", "etc"}
        /\ onion'[a].stage = 0 /\ onion'[a].replaced \in BOOLEAN /\ onion'[a].queued = ~remote
    BY <2>1, NewOnion DEF Made
  <2> QED
    BY <1>1, <1>2, <2>1, <2>2, AcceptInv
<1>3. ASSUME NEW c, WireAt(a, "error"), UNCHANGED unsure,
             UNCHANGED onion \/ onion' = [x \in Attempt |-> Beside(x, c)]
      PROVE  TInv'
  <2>1. DOMAIN onion' = Attempt /\ ~Made(a)' /\ \A x \in Attempt : x # a => GivesWay(x)
    BY <1>1, <1>3 DEF Beside, GivesWay, Made, TInv, ToldTypeOK
  <2> QED
    BY <1>1, <1>3, <2>1, AcceptInv
<1> QED
  BY <1>2, <1>3 DEF Accept

LEMMA PeelStepInv == ASSUME TInv, NEW a \in Attempt, Peel(a) PROVE TInv'
<1>1. /\ Made(a) /\ onion[a].stage \in 0..3 /\ onion[a].stage < 3 /\ ~onion[a].replaced
      /\ DOMAIN onion[a] = {"stage", "coin", "queued", "replaced", "etc"}
      /\ UNCHANGED <<remote, client, wire, unsure, filing>>
  BY DEF Peel, Made, TInv, ToldTypeOK, grievance
<1>2. DOMAIN onion = Attempt
  BY DEF TInv, ToldTypeOK
<1>3. /\ DOMAIN onion'[a] = DOMAIN onion[a]
      /\ onion'[a].stage = onion[a].stage + 1 /\ onion'[a].replaced = onion[a].replaced
      /\ onion'[a].queued = (onion[a].queued /\ onion[a].stage < 2)
  BY <1>1, <1>2 DEF Peel
<1>10. DOMAIN NoOnion = {"stage", "coin"}
  BY DEF NoOnion
<1>4. /\ Made(a)' /\ DOMAIN onion'[a] = {"stage", "coin", "queued", "replaced", "etc"}
      /\ onion'[a].stage = onion[a].stage + 1 /\ onion'[a].replaced = onion[a].replaced
      /\ onion'[a].queued = (onion[a].queued /\ onion[a].stage < 2)
  BY <1>1, <1>3, <1>10 DEF Made
<1>5. DOMAIN onion' = Attempt /\ \A b \in Attempt : b # a => onion'[b] = onion[b]
  BY <1>2 DEF Peel
<1>6. ToldTypeOK'
  <2>1. onion[a].stage + 1 \in 0..3 /\ onion[a].replaced \in BOOLEAN
    BY <1>1 DEF TInv, ToldTypeOK, Made
  <2>2. /\ client' \in [Attempt -> Client] /\ wire' \in [Attempt -> Wire]
        /\ unsure' \subseteq Attempt /\ filing' \in [Attempt -> {"none", "sent", "filed", "error"}]
    BY <1>1 DEF TInv, ToldTypeOK
  <2>3. ASSUME NEW b \in Attempt, onion'[b] # NoOnion
        PROVE  /\ DOMAIN onion'[b] = {"stage", "coin", "queued", "replaced", "etc"}
               /\ onion'[b].stage \in 0..3 /\ onion'[b].replaced \in BOOLEAN
    BY <1>4, <1>5, <2>1, <2>3 DEF TInv, ToldTypeOK
  <2> QED
    BY <1>5, <2>2, <2>3 DEF ToldTypeOK
<1>7. Correspond'
  BY <1>1, <1>4, <1>5 DEF TInv, Correspond, Made
<1>8. Unqueued'
  <2> SUFFICES ASSUME NEW b \in Attempt, onion'[b] # NoOnion, ~onion'[b].queued
               PROVE  remote \/ onion'[b].stage = 3 \/ onion'[b].replaced
    BY <1>1 DEF Unqueued
  <2>1. CASE b = a
    <3>1. onion[a].stage < 2 => ~onion[a].queued
      BY <1>4, <2>1
    <3>2. onion[a].stage < 2 \/ onion[a].stage + 1 = 3
      BY <1>1
    <3>3. ~onion[a].queued => remote
      BY <1>1 DEF TInv, Unqueued, Made
    <3> QED
      BY <1>4, <2>1, <3>1, <3>2, <3>3
  <2>2. CASE b # a
    BY <1>5, <2>2 DEF TInv, Unqueued
  <2> QED
    BY <2>1, <2>2
<1>9. RefusedIsNotQueued' /\ ClearedIsGone'
  BY <1>1, <1>4, <1>5 DEF TInv, RefusedIsNotQueued, ClearedIsGone, Made
<1> QED
  BY <1>6, <1>7, <1>8, <1>9 DEF TInv


LEMMA FilingStep ==
    ASSUME TInv, NEW a \in Attempt,
           ReceiptStored(a) \/ FileGrievance(a) \/ Mine(a) \/ StopWaiting(a)
    PROVE  TInv'
<1>1. UNCHANGED <<remote, client, wire, onion, unsure>>
  BY DEF ReceiptStored, FileGrievance, Mine, StopWaiting
<1>2. filing' \in [Attempt -> {"none", "sent", "filed", "error"}]
  BY DEF ReceiptStored, FileGrievance, Mine, Told, StopWaiting, TInv, ToldTypeOK
<1>3. ToldTypeOK'
  BY <1>1, <1>2 DEF TInv, ToldTypeOK
<1>4. Correspond' /\ Unqueued' /\ RefusedIsNotQueued' /\ ClearedIsGone'
  BY <1>1 DEF TInv, Correspond, Unqueued, RefusedIsNotQueued, ClearedIsGone
<1> QED
  BY <1>3, <1>4 DEF TInv

LEMMA InitTInv == Init => TInv
<1> SUFFICES ASSUME Init PROVE TInv
  OBVIOUS
<1>1. ToldTypeOK
  BY DEF Init, ToldTypeOK, Client, Wire
<1>2. Correspond /\ Unqueued /\ RefusedIsNotQueued /\ ClearedIsGone
  BY DEF Init, Correspond, Unqueued, RefusedIsNotQueued, ClearedIsGone
<1> QED
  BY <1>1, <1>2 DEF TInv

LEMMA StepTInv == TInv /\ [Next]_vars => TInv'
<1> SUFFICES ASSUME TInv, [Next]_vars PROVE TInv'
  OBVIOUS
<1>1. CASE UNCHANGED vars
  BY <1>1 DEF vars, TInv, ToldTypeOK, Correspond, Unqueued, RefusedIsNotQueued, ClearedIsGone
<1>2. CASE Next
  BY <1>2, TalkStep, AcceptStep, PeelStepInv, FilingStep DEF Next
<1> QED
  BY <1>1, <1>2

LEMMA InductiveTInv == Spec => []TInv
BY InitTInv, StepTInv, PTL DEF Spec

\* A refused client has no onion under way, although queueing is two writes that
\* may fail one by one and the onion may go to another node; the answers that do
\* not tell, among them the one after a deletion that failed, are set apart in
\* `unsure` (SubmitRoute, acceptOnionAndSetMLNRoute).
THEOREM RefusalsAreTrue == Spec => []RefusedIsNotQueued
<1>1. TInv => RefusedIsNotQueued
  BY DEF TInv
<1> QED
  BY <1>1, InductiveTInv, PTL

\* An empty queue reported to a client means that its own onion was broadcast
\* or given up for another of the same coin, whoever else uses the engine
\* (-wait-batch, GetRouteStatus).
THEOREM EmptyQueueIsTrue == Spec => []ClearedIsGone
<1>1. TInv => ClearedIsGone
  BY DEF TInv
<1> QED
  BY <1>1, InductiveTInv, PTL

\* What grievance file reports as filed is a case in the court, also after
\* tries that timed out with their transactions pending (RunFile, WaitMined).
THEOREM FilingsAreTrue == Spec => []FiledIsOpen
<1> DEFINE I == TInv /\ FiledIsOpen
<1>1. Init => I
  BY InitTInv DEF Init, FiledIsOpen
<1>2. I /\ [Next]_vars => I'
  <2> SUFFICES ASSUME I, [Next]_vars PROVE FiledIsOpen'
    BY StepTInv
  <2>1. filing \in [Attempt -> {"none", "sent", "filed", "error"}]
    BY DEF TInv, ToldTypeOK
  <2>2. CASE UNCHANGED <<filing, court>>
    BY <2>2 DEF FiledIsOpen
  <2>3. ASSUME NEW a \in Attempt, FileGrievance(a) \/ StopWaiting(a) PROVE FiledIsOpen'
    BY <2>1, <2>3 DEF FileGrievance, StopWaiting, FiledIsOpen
  <2>4. ASSUME NEW a \in Attempt, Mine(a) PROVE FiledIsOpen'
    BY <2>1, <2>4 DEF Mine, Told, FiledIsOpen
  <2>5. ASSUME NEW a \in Attempt, ReceiptStored(a) PROVE UNCHANGED <<filing, court>>
    BY <2>5 DEF ReceiptStored
  <2>6. ASSUME NEW a \in Attempt,
               \/ \E source \in Sources[a] : NoRoute(a, source) \/ BuildRoute(a, source)
               \/ Execute(a) \/ Answer(a) \/ GiveUp(a) \/ RunBatch(a) \/ PollStatus(a) \/ WaitFails(a)
               \/ HandleSwap(a) \/ Break(a) \/ Refuse(a) \/ Accept(a) \/ Peel(a)
        PROVE  UNCHANGED <<filing, court>>
    BY <2>6 DEF NoRoute, BuildRoute, Execute, Answer, GiveUp, RunBatch, PollStatus, WaitFails,
                HandleSwap, Break, Refuse, Accept, Peel, grievance
  <2> QED
    BY <2>2, <2>3, <2>4, <2>5, <2>6 DEF Next, vars
<1>3. I => FiledIsOpen
  OBVIOUS
<1> QED
  BY <1>1, <1>2, <1>3, PTL DEF Spec

-----------------------------------------------------------------------------
(* What a route is worth.                                                  *)

Fees(route) == [i \in 1..3 |-> route[i].fee]

\* A request is what its client built of one of its sources, in the market of the run.
Requests ==
    /\ market \in Markets /\ remote \in BOOLEAN
    /\ DOMAIN request = Attempt
    /\ \A a \in Attempt : request[a] = NoRequest \/
         \E source \in Sources[a] :
             \E r \in Routes(source), dest \in Destinations, amt \in Amounts[a] :
                 request[a] = [source |-> source, route |-> r, destination |-> dest,
                               amount |-> amt, meta |-> Vault[a]]

Posted == \A a \in Attempt : wire[a] # "none" => request[a].destination # "" /\ request[a].amount > 0

\* An onion is the one built for its request and its coin, less what has been peeled.
Onions ==
    \A a \in Attempt : Made(a) =>
        /\ request[a] # NoRequest
        /\ onion[a].coin \in Spendable /\ CoinOf[onion[a].coin].value = request[a].amount
        /\ FeesFit(request[a].route) /\ TrueFee(request[a].route) < request[a].amount
        /\ \E draw \in Draws : onion[a].etc =
              CarriedAt(Fees(request[a].route), KeysOf(request[a].route), CoinOf[onion[a].coin],
                        OutVal(request[a]), draw, onion[a].stage)

Filings ==
    /\ rows \subseteq {a \in Attempt : Vault[a]} /\ court \subseteq rows
    /\ txs \in [Attempt -> 0..MaxFilings]
    /\ \A a \in Attempt : txs[a] > 0 => a \in rows

PInv == TInv /\ Requests /\ Posted /\ Onions /\ Filings

LEMMA PickedRoute ==
    ASSUME NEW mk \in Markets, NEW t \in Triples(filterMakersWithTor(mk))
    PROVE  /\ RouteOf(mk, t) \in [1..3 -> Hop]
           /\ \A i \in 1..3 : /\ t[i] \in filterMakersWithTor(mk) /\ t[i] \in Maker
                              /\ RouteOf(mk, t)[i].tor # Nobody
                              /\ RouteOf(mk, t)[i].fee = mk[t[i]].fee
                              /\ RouteOf(mk, t)[i].key = mk[t[i]].key
                              /\ RouteOf(mk, t)[i].operator = t[i]
<1>1. \A i \in 1..3 : t[i] \in filterMakersWithTor(mk)
  BY DEF Triples
<1>2. ASSUME NEW i \in 1..3
      PROVE  /\ t[i] \in Maker /\ mk[t[i]].tor # Nobody
             /\ [tor |-> mk[t[i]].tor, fee |-> mk[t[i]].fee, key |-> mk[t[i]].key, operator |-> t[i]] \in Hop
  <2>1. t[i] \in DOMAIN mk /\ mk[t[i]].tor # Nobody
    BY <1>1 DEF filterMakersWithTor
  <2> QED
    BY <2>1, TakerAssumption
<1>3. \A i \in 1..3 : RouteOf(mk, t)[i] =
        [tor |-> mk[t[i]].tor, fee |-> mk[t[i]].fee, key |-> mk[t[i]].key, operator |-> t[i]]
  BY DEF RouteOf
<1>4. RouteOf(mk, t) \in [1..3 -> Hop]
  BY <1>2 DEF RouteOf
<1> QED
  BY <1>1, <1>2, <1>3, <1>4

LEMMA WrittenRoute ==
    ASSUME NEW d \in Directories, ValidateDirectory(d)
    PROVE  /\ DirectoryRoute(d) \in [1..3 -> Hop]
           /\ d.amount \in Nat /\ d.amount > 0
           /\ \A i \in 1..3 : /\ DirectoryRoute(d)[i].tor # Nobody
                              /\ DirectoryRoute(d)[i].fee = d.hops[i].fee
                              /\ DirectoryRoute(d)[i].key = d.hops[i].key
                              /\ DirectoryRoute(d)[i].key \in Maker
<1>1. Len(d.hops) = 3
  BY DEF ValidateDirectory
<1>2. d.amount \in Nat /\ \A i \in 1..3 :
        [tor |-> d.hops[i].tor, fee |-> d.hops[i].fee, key |-> d.hops[i].key, operator |-> Nobody] \in Hop
  BY <1>1, TakerAssumption
<1>3. DirectoryRoute(d) \in [1..3 -> Hop]
  BY <1>2 DEF DirectoryRoute
<1> QED
  BY <1>2, <1>3 DEF DirectoryRoute, ValidateDirectory

LEMMA PicksAreTriples ==
    ASSUME NEW mk
    PROVE  /\ PickRoute(mk) \subseteq Triples(filterMakersWithTor(mk))
           /\ PickRouteSelfMiddle(mk, Self) \subseteq Triples(filterMakersWithTor(mk))
BY DEF PickRoute, PickRouteSelfMiddle, Best

\* A request has a route of three hops, wherever its client had it from.
LEMMA RequestTyped ==
    ASSUME Requests, NEW a \in Attempt, request[a] # NoRequest
    PROVE  /\ request[a].route \in [1..3 -> Hop] /\ request[a].amount \in Nat
           /\ request[a].meta = Vault[a]
<1>1. PICK source \in Sources[a] :
         \E r \in Routes(source), dest \in Destinations, amt \in Amounts[a] :
             request[a] = [source |-> source, route |-> r, destination |-> dest,
                           amount |-> amt, meta |-> Vault[a]]
  BY DEF Requests
<1>2. PICK r \in Routes(source), dest \in Destinations, amt \in Amounts[a] :
             request[a] = [source |-> source, route |-> r, destination |-> dest,
                           amount |-> amt, meta |-> Vault[a]]
  BY <1>1
<1>3. source \in {"pathfind", "self", "directory"}
  BY TakerAssumption
<1>4. r \in [1..3 -> Hop]
  <2>1. CASE source = "pathfind" \/ source = "self"
    <3>1. PICK t \in Triples(filterMakersWithTor(market)) : r = RouteOf(market, t)
      BY <1>2, <2>1, PicksAreTriples DEF Routes
    <3> QED
      BY <3>1, PickedRoute DEF Requests
  <2>2. CASE source = "directory"
    <3>1. PICK d \in Directories : ValidateDirectory(d) /\ r = DirectoryRoute(d)
      BY <1>2, <2>2 DEF Routes
    <3> QED
      BY <3>1, WrittenRoute
  <2> QED
    BY <1>3, <2>1, <2>2
<1>5. amt \in Nat
  BY TakerAssumption
<1> QED
  BY <1>2, <1>4, <1>5

\* Where the sum of fees fits a word, the wrapped sum is the sum.
LEMMA FeesTyped ==
    ASSUME NEW route \in [1..3 -> Hop]
    PROVE  /\ route[1].fee \in Nat /\ route[2].fee \in Nat /\ route[3].fee \in Nat
           /\ TrueFee(route) \in Nat
           /\ FeesFit(route) => FeeSum(route) = TrueFee(route)
<1>1. \A i \in 1..3 : route[i].fee \in 0..Word-1
  BY DEF Hop
<1>2. route[1].fee \in Nat /\ route[2].fee \in Nat /\ route[3].fee \in Nat
  BY <1>1, TakerAssumption
<1>3. TrueFee(route) \in Nat
  BY <1>2 DEF TrueFee
<1> DEFINE f == TrueFee(route)
<1> HIDE DEF f
<1>4. f \in Nat /\ f < Word => f % Word = f
  BY TakerAssumption
<1> QED
  BY <1>2, <1>3, <1>4 DEF FeesFit, FeeSum, f

\* What is known of a made onion, for the lemmas about onions.
LEMMA OnionTyped ==
    ASSUME Requests, Onions, NEW a \in Attempt, Made(a)
    PROVE  /\ request[a].route \in [1..3 -> Hop] /\ request[a].amount \in Nat
           /\ OutVal(request[a]) \in Nat
           /\ CoinOf[onion[a].coin] \in WalletCoin
           /\ OutVal(request[a]) = CoinOf[onion[a].coin].value - TrueFee(request[a].route)
           /\ Draws \subseteq Drawn
<1>1. /\ request[a] # NoRequest /\ onion[a].coin \in Spendable
      /\ CoinOf[onion[a].coin].value = request[a].amount
      /\ FeesFit(request[a].route) /\ TrueFee(request[a].route) < request[a].amount
  BY DEF Onions
<1>2. request[a].route \in [1..3 -> Hop] /\ request[a].amount \in Nat
  BY <1>1, RequestTyped
<1>3. TrueFee(request[a].route) \in Nat /\ FeeSum(request[a].route) = TrueFee(request[a].route)
  BY <1>1, <1>2, FeesTyped
<1>4. CoinOf[onion[a].coin] \in WalletCoin /\ Draws \subseteq Drawn
  BY <1>1, TakerAssumption DEF WalletCoin, Drawn
<1>5. OutVal(request[a]) = request[a].amount - TrueFee(request[a].route)
  BY <1>3 DEF OutVal
<1> QED
  BY <1>1, <1>2, <1>3, <1>4, <1>5

LEMMA OnionsSame ==
    ASSUME Onions, UNCHANGED <<request, onion>>
    PROVE  Onions'
<1>1. \A a : (Made(a)' = Made(a)) /\ onion'[a] = onion[a] /\ request'[a] = request[a]
  BY DEF Made
<1> QED
  BY <1>1 DEF Onions

LEMMA RequestsSame ==
    ASSUME Requests, UNCHANGED <<market, remote, request>>
    PROVE  Requests'
<1>1. \A source : Routes(source)' = Routes(source)
  BY DEF Routes
<1> QED
  BY <1>1 DEF Requests

\* Steps that leave requests, onions and filings alone, and post nothing that is empty.
LEMMA PaidTalkStep ==
    ASSUME PInv, NEW a \in Attempt,
           \/ \E source \in Sources[a] : NoRoute(a, source)
           \/ Execute(a) \/ Answer(a) \/ GiveUp(a) \/ RunBatch(a) \/ PollStatus(a) \/ WaitFails(a)
           \/ HandleSwap(a) \/ Break(a) \/ Refuse(a)
    PROVE  Requests' /\ Posted' /\ Onions' /\ Filings'
<1>1. UNCHANGED <<market, remote, request, onion, rows, txs, court>>
  BY DEF NoRoute, Execute, Answer, GiveUp, RunBatch, PollStatus, WaitFails, HandleSwap, Break,
         Refuse, grievance
<1>2. Requests' /\ Onions' /\ Filings'
  <2>1. Filings'
    BY <1>1 DEF PInv, Filings
  <2> QED
    BY <1>1, <2>1, OnionsSame, RequestsSame DEF PInv
<1>3. \/ UNCHANGED wire
      \/ /\ \E w : WireAt(a, w)
         /\ \/ wire[a] # "none" \/ WireAt(a, "none")
            \/ request[a].destination # "" /\ request[a].amount > 0
  BY DEF NoRoute, Execute, Answer, GiveUp, RunBatch, PollStatus, WaitFails, HandleSwap, Break,
         Refuse
<1>4. wire \in [Attempt -> Wire]
  BY DEF PInv, TInv, ToldTypeOK
<1>5. Posted'
  BY <1>1, <1>3, <1>4 DEF PInv, Posted, WireAt
<1> QED
  BY <1>2, <1>5

LEMMA PaidBuildStep ==
    ASSUME PInv, NEW a \in Attempt, NEW source \in Sources[a], BuildRoute(a, source)
    PROVE  Requests' /\ Posted' /\ Onions' /\ Filings'
<1>1. /\ UNCHANGED <<market, remote, wire, onion, rows, txs, court>>
      /\ wire[a] = "none" /\ ~Made(a)
  BY DEF BuildRoute, grievance, PInv, TInv, Correspond, Made
<1>2. PICK r \in Routes(source), dest \in Destinations, amt \in Amounts[a] :
         request' = [request EXCEPT ![a] = [source |-> source, route |-> r,
                        destination |-> dest, amount |-> amt, meta |-> Vault[a]]]
  BY DEF BuildRoute
<1> DEFINE new == [source |-> source, route |-> r, destination |-> dest, amount |-> amt,
                   meta |-> Vault[a]]
<1>3. /\ DOMAIN request' = Attempt /\ request'[a] = new
      /\ \A b \in Attempt : b # a => request'[b] = request[b]
  BY <1>2 DEF PInv, Requests
<1>4. \A x : Routes(x)' = Routes(x)
  BY <1>1 DEF Routes
<1>5. Requests'
  <2>1. market' \in Markets /\ remote' \in BOOLEAN
    BY <1>1 DEF PInv, Requests
  <2> SUFFICES ASSUME NEW b \in Attempt
               PROVE  request'[b] = NoRequest \/
                        \E so \in Sources[b] : \E ro \in Routes(so)', de \in Destinations, am \in Amounts[b] :
                            request'[b] = [source |-> so, route |-> ro, destination |-> de,
                                           amount |-> am, meta |-> Vault[b]]
    BY <1>3, <2>1 DEF Requests
  <2>2. CASE b = a
    BY <1>3, <1>4, <2>2
  <2>3. CASE b # a
    BY <1>3, <1>4, <2>3 DEF PInv, Requests
  <2> QED
    BY <2>2, <2>3
<1>6. Posted'
  BY <1>1, <1>3 DEF PInv, Posted
<1>7. Onions'
  <2> SUFFICES ASSUME NEW b \in Attempt, Made(b)'
               PROVE  /\ Made(b) /\ request'[b] = request[b] /\ onion'[b] = onion[b]
    BY DEF Onions, PInv
  <2>1. Made(b) /\ onion'[b] = onion[b]
    BY <1>1 DEF Made
  <2>2. b # a
    BY <1>1, <2>1
  <2> QED
    BY <1>3, <2>1, <2>2
<1>8. Filings'
  BY <1>1 DEF PInv, Filings
<1> QED
  BY <1>5, <1>6, <1>7, <1>8

LEMMA OnionGivesWay ==
    ASSUME TInv, NEW b \in Attempt, GivesWay(b)
    PROVE  /\ Made(b)' <=> Made(b)
           /\ Made(b) => /\ onion'[b].coin = onion[b].coin /\ onion'[b].etc = onion[b].etc
                         /\ onion'[b].stage = onion[b].stage
<1>1. CASE onion'[b] = onion[b]
  BY <1>1 DEF Made
<1>2. CASE Made(b) /\ onion'[b] = [onion[b] EXCEPT !.queued = FALSE, !.replaced = TRUE]
  <2>1. DOMAIN onion[b] = {"stage", "coin", "queued", "replaced", "etc"}
    BY <1>2 DEF TInv, ToldTypeOK, Made
  <2>2. onion'[b] # NoOnion
    BY <1>2, <2>1, WayOnion
  <2>3. onion'[b].coin = onion[b].coin /\ onion'[b].etc = onion[b].etc /\ onion'[b].stage = onion[b].stage
    BY <1>2, <2>1
  <2> QED
    BY <1>2, <2>2, <2>3 DEF Made
<1> QED
  BY <1>1, <1>2 DEF GivesWay

LEMMA PaidAcceptStep ==
    ASSUME PInv, NEW a \in Attempt, Accept(a)
    PROVE  Requests' /\ Posted' /\ Onions' /\ Filings'
<1>1. /\ UNCHANGED <<market, remote, request, rows, txs, court>>
      /\ wire[a] = "engine" /\ Buildable(request[a]) /\ ~Made(a)
  BY DEF Accept, grievance, PInv, TInv, Correspond, Made
<1>2. Requests' /\ Filings'
  <2>1. Filings'
    BY <1>1 DEF PInv, Filings
  <2> QED
    BY <1>1, <2>1, RequestsSame DEF PInv
<1>3. Posted'
  <2>1. \E w : WireAt(a, w)
    BY DEF Accept
  <2> QED
    BY <1>1, <2>1 DEF PInv, Posted, WireAt, TInv, ToldTypeOK
<1>4. /\ \A b \in Attempt : b # a => GivesWay(b)
      /\ \/ ~Made(a)'
         \/ \E c \in CoinsFor(request[a].amount), draw \in Draws :
              onion'[a] = [stage |-> 0, coin |-> c, queued |-> ~remote, replaced |-> FALSE,
                           etc |-> OnionFor(request[a], c, draw)]
  <2>1. CASE \E c \in CoinsFor(request[a].amount), draw \in Draws : Queue(a, c, draw)
    BY <2>1 DEF Queue, Beside, GivesWay, Made
  <2>2. CASE \/ UNCHANGED onion
             \/ \E c \in CoinsFor(request[a].amount) : onion' = [x \in Attempt |-> Beside(x, c)]
    BY <1>1, <2>2 DEF Beside, GivesWay, Made
  <2> QED
    BY <2>1, <2>2 DEF Accept
<1>5. Onions'
  <2> SUFFICES ASSUME NEW b \in Attempt, Made(b)'
               PROVE  /\ request[b] # NoRequest
                      /\ onion'[b].coin \in Spendable
                      /\ CoinOf[onion'[b].coin].value = request[b].amount
                      /\ FeesFit(request[b].route) /\ TrueFee(request[b].route) < request[b].amount
                      /\ \E draw \in Draws : onion'[b].etc =
                            CarriedAt(Fees(request[b].route), KeysOf(request[b].route),
                                      CoinOf[onion'[b].coin], OutVal(request[b]), draw,
                                      onion'[b].stage)
    BY <1>1 DEF Onions
  <2>1. CASE b # a
    <3>1. /\ Made(b) /\ onion'[b].coin = onion[b].coin /\ onion'[b].etc = onion[b].etc
          /\ onion'[b].stage = onion[b].stage
      BY <1>4, <2>1, OnionGivesWay DEF PInv
    <3> QED
      BY <3>1 DEF PInv, Onions
  <2>2. CASE b = a
    <3> DEFINE req == request[a]
    <3>1. PICK c \in CoinsFor(req.amount), draw \in Draws :
              onion'[a] = [stage |-> 0, coin |-> c, queued |-> ~remote, replaced |-> FALSE,
                           etc |-> OnionFor(req, c, draw)]
      BY <1>4, <2>2
    <3>2. /\ onion'[a].coin = c /\ onion'[a].etc = OnionFor(req, c, draw) /\ onion'[a].stage = 0
      BY <3>1
    <3>3. c \in Spendable /\ CoinOf[c].value = req.amount
      BY DEF CoinsFor
    <3>4. req # NoRequest
      <4>1. req.amount > 0
        BY <1>1 DEF PInv, Posted
      <4>2. NoRequest.amount = 0
        BY DEF NoRequest
      <4> QED
        BY <4>1, <4>2
    <3>5. req.route \in [1..3 -> Hop] /\ req.amount \in Nat
      BY <3>4, RequestTyped DEF PInv
    <3>6. FeesFit(req.route) /\ OutVal(req) > 0
      BY <1>1 DEF Buildable, Validate, ValidateSwapRequest
    <3>7. /\ TrueFee(req.route) \in Nat /\ FeeSum(req.route) = TrueFee(req.route)
          /\ req.route[1].fee \in Nat /\ req.route[2].fee \in Nat /\ req.route[3].fee \in Nat
      BY <3>5, <3>6, FeesTyped
    <3>8. TrueFee(req.route) < req.amount /\ OutVal(req) \in Int
      BY <3>5, <3>6, <3>7 DEF OutVal
    <3>9. CoinOf[c] \in WalletCoin /\ draw \in Drawn
      BY <3>3, TakerAssumption DEF WalletCoin, Drawn
    <3>10. OnionFor(req, c, draw) =
             CarriedAt(Fees(req.route), KeysOf(req.route), CoinOf[c], OutVal(req), draw, 0)
      <4>1. Fees(req.route)[1] \in Nat /\ Fees(req.route)[2] \in Nat /\ Fees(req.route)[3] \in Nat
        BY <3>7 DEF Fees
      <4>2. OnionFor(req, c, draw) =
              BuildOnion(Fees(req.route), KeysOf(req.route), CoinOf[c], OutVal(req), draw)
        BY DEF OnionFor, Fees
      <4> QED
        BY <3>8, <3>9, <4>1, <4>2, CarriedFirst
    <3> QED
      BY <2>2, <3>2, <3>3, <3>4, <3>6, <3>8, <3>10
  <2> QED
    BY <2>1, <2>2
<1> QED
  BY <1>2, <1>3, <1>5

\* At each stage the next node takes the onion exactly if it has the key of its layer.
LEMMA NextKeeps ==
    ASSUME Requests, Onions, NEW a \in Attempt, Made(a), onion[a].stage \in 0..2
    PROVE  Kept(a) <=> NextNode(a) = KeysOf(request[a].route)[onion[a].stage + 1]
<1> DEFINE route == request[a].route
           coin == CoinOf[onion[a].coin]
           outVal == OutVal(request[a])
<1>1. PICK draw \in Draws : onion[a].etc =
              CarriedAt(Fees(route), KeysOf(route), coin, outVal, draw, onion[a].stage)
  BY DEF Onions
<1>2. /\ route \in [1..3 -> Hop] /\ outVal \in Nat /\ coin \in WalletCoin /\ draw \in Drawn
      /\ outVal = coin.value - TrueFee(route)
  BY OnionTyped
<1>3. /\ Fees(route)[1] \in Nat /\ Fees(route)[2] \in Nat /\ Fees(route)[3] \in Nat
      /\ coin.value - (Fees(route)[1] + Fees(route)[2] + Fees(route)[3]) = outVal
  <2>1. route[1].fee \in Nat /\ route[2].fee \in Nat /\ route[3].fee \in Nat
    BY <1>2, FeesTyped
  <2>2. Fees(route)[1] = route[1].fee /\ Fees(route)[2] = route[2].fee /\ Fees(route)[3] = route[3].fee
    BY DEF Fees
  <2> QED
    BY <1>2, <2>1, <2>2 DEF TrueFee
<1> DEFINE s == onion[a].stage
           key == NextNode(a)
<1>4. s \in 0..2
  OBVIOUS
<1>5. Kept(a) <=> KeptByPeel(CarriedAt(Fees(route), KeysOf(route), coin, outVal, draw, s), key, s = 2)
  BY <1>1 DEF Kept
<1> HIDE DEF coin, outVal, s, key
<1>6. KeptByPeel(CarriedAt(Fees(route), KeysOf(route), coin, outVal, draw, s), key, s = 2)
        <=> key = KeysOf(route)[s + 1]
  BY <1>2, <1>3, <1>4, CarriedIsKept
<1> QED
  BY <1>5, <1>6 DEF s, key

LEMMA PaidPeelStep ==
    ASSUME PInv, NEW a \in Attempt, Peel(a)
    PROVE  Requests' /\ Posted' /\ Onions' /\ Filings'
<1>1. /\ UNCHANGED <<market, remote, request, wire, rows, txs, court>>
      /\ Made(a) /\ onion[a].stage \in 0..2 /\ Kept(a)
      /\ DOMAIN onion[a] = {"stage", "coin", "queued", "replaced", "etc"}
      /\ DOMAIN onion = Attempt
  BY DEF Peel, grievance, PInv, TInv, ToldTypeOK, Made
<1>2. Requests' /\ Filings' /\ Posted'
  <2>1. Filings' /\ Posted'
    BY <1>1 DEF PInv, Filings, Posted
  <2> QED
    BY <1>1, <2>1, RequestsSame DEF PInv
<1>3. /\ onion'[a].stage = onion[a].stage + 1 /\ onion'[a].coin = onion[a].coin
      /\ onion'[a].etc = PeelStep(onion[a].etc, NextNode(a))
      /\ \A b \in Attempt : b # a => onion'[b] = onion[b]
  BY <1>1 DEF Peel
<1>4. ASSUME NEW b \in Attempt, Made(b)' PROVE Made(b)
  BY <1>1, <1>3, <1>4 DEF Made
<1> DEFINE route == request[a].route
           coin == CoinOf[onion[a].coin]
           outVal == OutVal(request[a])
           s == onion[a].stage
<1>5. PICK draw \in Draws : onion[a].etc = CarriedAt(Fees(route), KeysOf(route), coin, outVal, draw, s)
  BY <1>1 DEF PInv, Onions
<1>6. NextNode(a) = KeysOf(route)[s + 1]
  BY <1>1, NextKeeps DEF PInv
<1>7. /\ route \in [1..3 -> Hop] /\ outVal \in Nat /\ coin \in WalletCoin /\ draw \in Drawn
  BY <1>1, OnionTyped DEF PInv
<1>8. onion'[a].etc = CarriedAt(Fees(route), KeysOf(route), coin, outVal, draw, s + 1)
  <2>1. Fees(route)[1] \in Nat /\ Fees(route)[2] \in Nat /\ Fees(route)[3] \in Nat
    BY <1>7, FeesTyped DEF Fees
  <2>2. s \in 0..2 /\ outVal \in Int
    BY <1>1, <1>7
  <2>3. onion'[a].etc = PeelStep(CarriedAt(Fees(route), KeysOf(route), coin, outVal, draw, s), NextNode(a))
    BY <1>3, <1>5
  <2> HIDE DEF route, coin, outVal, s
  <2> QED
    BY <1>6, <1>7, <2>1, <2>2, <2>3, CarriedNext
<1>9. Onions'
  <2> SUFFICES ASSUME NEW b \in Attempt, Made(b)'
               PROVE  /\ request[b] # NoRequest
                      /\ onion'[b].coin \in Spendable
                      /\ CoinOf[onion'[b].coin].value = request[b].amount
                      /\ FeesFit(request[b].route) /\ TrueFee(request[b].route) < request[b].amount
                      /\ \E d \in Draws : onion'[b].etc =
                            CarriedAt(Fees(request[b].route), KeysOf(request[b].route),
                                      CoinOf[onion'[b].coin], OutVal(request[b]), d,
                                      onion'[b].stage)
    BY <1>1 DEF Onions
  <2>1. Made(b)
    BY <1>4
  <2>2. CASE b = a
    BY <1>3, <1>8, <2>1, <2>2 DEF PInv, Onions
  <2>3. CASE b # a
    BY <1>3, <2>1, <2>3 DEF PInv, Onions
  <2> QED
    BY <2>2, <2>3
<1> QED
  BY <1>2, <1>9

LEMMA PaidFilingStep ==
    ASSUME PInv, NEW a \in Attempt,
           ReceiptStored(a) \/ FileGrievance(a) \/ Mine(a) \/ StopWaiting(a)
    PROVE  Requests' /\ Posted' /\ Onions' /\ Filings'
<1>1. UNCHANGED <<market, remote, request, wire, onion>>
  BY DEF ReceiptStored, FileGrievance, Mine, StopWaiting
<1>2. Requests' /\ Posted' /\ Onions'
  <2>1. Posted'
    BY <1>1 DEF PInv, Posted
  <2> QED
    BY <1>1, <2>1, OnionsSame, RequestsSame DEF PInv
<1>3. Filings
  BY DEF PInv
<1>4. CASE ReceiptStored(a)
  <2>1. Vault[a]
    <3>1. Made(a) /\ request[a].meta
      BY <1>4 DEF ReceiptStored, Made
    <3>2. request[a] # NoRequest
      BY <3>1 DEF PInv, Onions
    <3> QED
      BY <3>1, <3>2, RequestTyped DEF PInv
  <2>2. rows' = rows \cup {a} /\ UNCHANGED <<txs, court>>
    BY <1>4 DEF ReceiptStored
  <2> QED
    BY <1>2, <1>3, <2>1, <2>2 DEF Filings
<1>5. CASE FileGrievance(a)
  <2>1. /\ a \in rows /\ txs[a] < MaxFilings /\ txs' = [txs EXCEPT ![a] = @ + 1]
        /\ UNCHANGED <<rows, court>>
    BY <1>5 DEF FileGrievance
  <2>2. MaxFilings \in Nat
    BY TakerAssumption
  <2>3. txs' \in [Attempt -> 0..MaxFilings]
    BY <1>3, <2>1, <2>2 DEF Filings
  <2>4. \A b \in Attempt : b # a => txs'[b] = txs[b]
    BY <1>3, <2>1 DEF Filings
  <2> QED
    BY <1>2, <1>3, <2>1, <2>3, <2>4 DEF Filings
<1>6. CASE Mine(a)
  <2>1. /\ txs[a] > 0 /\ txs' = [txs EXCEPT ![a] = @ - 1] /\ UNCHANGED rows
        /\ court' \subseteq court \cup {a}
    BY <1>6 DEF Mine
  <2>2. MaxFilings \in Nat
    BY TakerAssumption
  <2>3. txs' \in [Attempt -> 0..MaxFilings] /\ a \in rows
    BY <1>3, <2>1, <2>2 DEF Filings
  <2>4. \A b \in Attempt : b # a => txs'[b] = txs[b]
    BY <1>3, <2>1 DEF Filings
  <2> QED
    BY <1>2, <1>3, <2>1, <2>3, <2>4 DEF Filings
<1>7. CASE StopWaiting(a)
  BY <1>2, <1>3, <1>7 DEF StopWaiting, Filings
<1> QED
  BY <1>4, <1>5, <1>6, <1>7

LEMMA InitPInv == Init => PInv
<1> SUFFICES ASSUME Init PROVE PInv
  OBVIOUS
<1>1. Requests
  BY DEF Init, Requests
<1>2. Posted /\ Onions
  BY DEF Init, Posted, Onions, Made
<1>3. Filings
  BY TakerAssumption DEF Init, Filings
<1> QED
  BY <1>1, <1>2, <1>3, InitTInv DEF PInv

LEMMA StepPInv == PInv /\ [Next]_vars => PInv'
<1> SUFFICES ASSUME PInv, [Next]_vars PROVE PInv'
  OBVIOUS
<1>1. TInv'
  BY StepTInv DEF PInv
<1>2. CASE UNCHANGED vars
  <2>1. Requests' /\ Onions'
    BY <1>2, OnionsSame, RequestsSame DEF PInv, vars
  <2>2. Posted' /\ Filings'
    BY <1>2 DEF PInv, Posted, Filings, vars
  <2> QED
    BY <1>1, <2>1, <2>2 DEF PInv
<1>3. CASE Next
  <2>1. Requests' /\ Posted' /\ Onions' /\ Filings'
    BY <1>3, PaidTalkStep, PaidBuildStep, PaidAcceptStep, PaidPeelStep, PaidFilingStep DEF Next
  <2> QED
    BY <1>1, <2>1 DEF PInv
<1> QED
  BY <1>2, <1>3

LEMMA InductivePInv == Spec => []PInv
BY InitPInv, StepPInv, PTL DEF Spec

\* A coin is worth the fees its route promises and an output that is not empty,
\* and at every node the commitment has paid the hops before it, no less and no
\* more, whatever the words add up to (addFee, buildOnionFromMLNRoute,
\* peelCommitStep).
THEOREM CoinsAreWellSpent == Spec => []OnionPaysItsCoin
<1>1. PInv => OnionPaysItsCoin
  <2> SUFFICES ASSUME PInv, NEW a \in Attempt, Made(a)
               PROVE  LET route == request[a].route
                          taken == TrueFee([i \in 1..3 |->
                                      [fee |-> IF i <= onion[a].stage THEN route[i].fee ELSE 0]])
                      IN /\ onion[a].etc.commit.value = CoinOf[onion[a].coin].value - taken
                         /\ CoinOf[onion[a].coin].value > TrueFee(route)
    BY DEF OnionPaysItsCoin, Made
  <2> DEFINE route == request[a].route
             s == onion[a].stage
             coin == CoinOf[onion[a].coin]
             taken == TrueFee([i \in 1..3 |-> [fee |-> IF i <= s THEN route[i].fee ELSE 0]])
  <2>1. PICK draw \in Draws : onion[a].etc =
                CarriedAt(Fees(route), KeysOf(route), coin, OutVal(request[a]), draw, s)
    BY DEF PInv, Onions
  <2>2. onion[a].etc.commit.value = coin.value - Upto(Fees(route), s)
    BY <2>1 DEF CarriedAt, Commitment
  <2>3. s \in 0..3
    BY DEF PInv, TInv, ToldTypeOK, Made
  <2>4. taken = Upto(Fees(route), s)
    <3>1. taken = (IF 1 <= s THEN route[1].fee ELSE 0) + (IF 2 <= s THEN route[2].fee ELSE 0)
                    + (IF 3 <= s THEN route[3].fee ELSE 0)
      BY DEF TrueFee
    <3> HIDE DEF taken, route, s
    <3> QED
      BY <2>3, <3>1 DEF Upto, Fees
  <2>5. /\ coin.value = request[a].amount /\ TrueFee(route) < request[a].amount
        /\ TrueFee(route) \in Nat /\ request[a].amount \in Nat
    BY OnionTyped, FeesTyped DEF PInv, Onions
  <2>6. coin.value > TrueFee(route)
    BY <2>5
  <2> QED
    BY <2>2, <2>4, <2>6
<1> QED
  BY <1>1, InductivePInv, PTL

\* With the keys their nodes have, each node in turn reads its layer and the last
\* one finds its output at the sums, for any blinds that were drawn and any order
\* of the group (onion.New and Peel, buildOnionFromMLNRoute, peelOnions).
THEOREM SoundRoutesPeel == Spec => []SoundRoutePeels
<1>1. PInv => SoundRoutePeels
  <2> SUFFICES ASSUME PInv, NEW a \in Attempt, Made(a), onion[a].stage < 3,
                      \A i \in 1..3 : ResolvedKey(request[a].route[i]) = request[a].route[i].tor
               PROVE  Kept(a)
    BY DEF SoundRoutePeels, Made
  <2>1. onion[a].stage \in 0..2
    BY DEF PInv, TInv, ToldTypeOK, Made
  <2>2. NextNode(a) = KeysOf(request[a].route)[onion[a].stage + 1]
    BY <2>1 DEF NextNode, KeysOf
  <2> QED
    BY <2>1, <2>2, NextKeeps DEF PInv
<1> QED
  BY <1>1, InductivePInv, PTL

\* What mixnetdir.Validate lets through, the sidecar and coinswapd let through too:
\* only the destination or a missing coin stops it.
THEOREM DirectoriesPass == Spec => []DirectoryRoutePasses
<1>1. PInv => DirectoryRoutePasses
  <2> SUFFICES ASSUME PInv, NEW a \in Attempt, NEW d \in Directories,
                      request[a].source = "directory", ~Vault[a], ValidateDirectory(d),
                      request[a].route = DirectoryRoute(d), request[a].amount = d.amount,
                      request[a].destination = "mweb", CoinsFor(d.amount) # {}
               PROVE  Buildable(request[a])
    BY DEF DirectoryRoutePasses
  <2> DEFINE route == request[a].route
  <2>1. request[a] # NoRequest
    <3>1. NoRequest.source = "none"
      BY DEF NoRequest
    <3> QED
      BY <3>1
  <2>2. ~request[a].meta /\ route \in [1..3 -> Hop]
    BY <2>1, RequestTyped DEF PInv
  <2>3. /\ d.amount \in Nat /\ d.amount > 0
        /\ \A i \in 1..3 : route[i].tor # Nobody /\ route[i].key \in Maker
        /\ \A i \in 1..3 : route[i].fee = d.hops[i].fee
    BY WrittenRoute
  <2>4. TrueFee(route) = TrueFee(d.hops)
    BY <2>3 DEF TrueFee
  <2>5. FeesFit(route) /\ TrueFee(route) < d.amount
    BY <2>4 DEF ValidateDirectory, FeesFit
  <2>6. TrueFee(route) \in Nat /\ FeeSum(route) = TrueFee(route)
    BY <2>2, <2>5, FeesTyped
  <2>7. Validate(request[a])
    BY <2>2, <2>3, <2>5, <2>6 DEF Validate, ValidateSwapRequest, validateTorHops
  <2>8. OutVal(request[a]) > 0
    BY <2>3, <2>5, <2>6 DEF OutVal
  <2>9. \A i \in 1..3 : KeysOf(route)[i] # Nobody
    BY <2>3, TakerAssumption DEF KeysOf, ResolvedKey
  <2> QED
    BY <2>7, <2>8, <2>9 DEF Buildable
<1> QED
  BY <1>1, InductivePInv, PTL

\* A picked route whose fees do not wrap is the least of all there are, whatever
\* the others add up to: its sum is the least of the wrapped sums, and a wrapped
\* sum is never more than the true one.
LEMMA PickedIsLeast ==
    ASSUME NEW mk \in Markets, NEW t \in PickRoute(mk), FeesFit(RouteOf(mk, t)),
           NEW u \in Triples(filterMakersWithTor(mk))
    PROVE  TrueFee(RouteOf(mk, t)) <= TrueFee(RouteOf(mk, u))
<1>1. t \in Triples(filterMakersWithTor(mk))
  BY PicksAreTriples
<1>2. ASSUME NEW x \in Triples(filterMakersWithTor(mk))
      PROVE  /\ RouteOf(mk, x) \in [1..3 -> Hop] /\ TrueFee(RouteOf(mk, x)) \in Nat
             /\ WrappedFee(mk, x) = TrueFee(RouteOf(mk, x)) % Word
  <2>1. RouteOf(mk, x) \in [1..3 -> Hop]
    BY PickedRoute
  <2>2. TrueFee(RouteOf(mk, x)) \in Nat
    BY <2>1, FeesTyped
  <2>3. WrappedFee(mk, x) = TrueFee(RouteOf(mk, x)) % Word
    BY PickedRoute DEF WrappedFee, TrueFee
  <2> QED
    BY <2>1, <2>2, <2>3
<1>3. /\ WrappedFee(mk, t) <= Word \div 2 - 1
      /\ \/ WrappedFee(mk, t) <= WrappedFee(mk, u)
         \/ ~(WrappedFee(mk, u) <= Word \div 2 - 1)
  BY DEF PickRoute, Best
<1>4. Word \div 2 - 1 \in Int /\ Word \in Nat /\ Word > 0
  BY TakerAssumption
<1>5. WrappedFee(mk, t) = TrueFee(RouteOf(mk, t))
  BY <1>1, <1>2, FeesTyped DEF FeeSum
<1>6. /\ WrappedFee(mk, u) <= TrueFee(RouteOf(mk, u)) /\ WrappedFee(mk, u) \in Nat
      /\ TrueFee(RouteOf(mk, u)) \in Nat /\ TrueFee(RouteOf(mk, t)) \in Nat
  <2>1. \A n \in Nat : n % Word \in Nat /\ n % Word <= n
    BY <1>4
  <2> QED
    BY <1>1, <1>2, <2>1
<1> QED
  BY <1>3, <1>4, <1>5, <1>6

\* When the sidecar refuses a picked route that has its keys and whose fees do
\* not wrap, the amount is too small for any three makers that were there:
\* PickRoute has missed none, whatever other makers ask or leave out (PickRoute
\* against ValidateSwapRequest).
THEOREM RefusedIsUnaffordable == Spec => []NoAffordableRouteMissed
<1>1. PInv => NoAffordableRouteMissed
  <2> DEFINE T == Triples(filterMakersWithTor(market))
  <2> SUFFICES ASSUME PInv, NEW a \in Attempt,
                      request[a].source = "pathfind", wire[a] = "error",
                      ~ValidateSwapRequest(request[a]),
                      FeesFit(request[a].route),
                      \A i \in 1..3 : request[a].route[i].key \in Maker,
                      NEW u \in T
               PROVE  TrueFee(RouteOf(market, u)) > request[a].amount
    BY DEF NoAffordableRouteMissed
  <2> DEFINE route == request[a].route
  <2>1. request[a] # NoRequest
    <3>1. NoRequest.source = "none"
      BY DEF NoRequest
    <3> QED
      BY <3>1
  <2>2. PICK source \in Sources[a] :
           \E r \in Routes(source), dest \in Destinations, amt \in Amounts[a] :
               request[a] = [source |-> source, route |-> r, destination |-> dest,
                             amount |-> amt, meta |-> Vault[a]]
    BY <2>1 DEF PInv, Requests
  <2>3. route \in Routes("pathfind")
    BY <2>2
  <2>4. PICK t \in PickRoute(market) : route = RouteOf(market, t)
    BY <2>3 DEF Routes
  <2>5. market \in Markets /\ t \in T
    BY PicksAreTriples DEF PInv, Requests
  <2>6. \A i \in 1..3 : route[i].tor # Nobody /\ route[i].operator # Nobody
    BY <2>4, <2>5, PickedRoute, TakerAssumption
  <2>7. request[a].destination # "" /\ request[a].amount > 0
    BY DEF PInv, Posted
  <2>8. ~(TrueFee(route) <= request[a].amount)
    BY <2>6, <2>7 DEF ValidateSwapRequest, validateTorHops
  <2>9. TrueFee(route) <= TrueFee(RouteOf(market, u))
    BY <2>4, <2>5, PickedIsLeast
  <2>10. /\ request[a].amount \in Nat /\ TrueFee(route) \in Nat
         /\ TrueFee(RouteOf(market, u)) \in Nat
    BY <2>1, <2>5, RequestTyped, PickedRoute, FeesTyped DEF PInv
  <2> QED
    BY <2>8, <2>9, <2>10
<1> QED
  BY <1>1, InductivePInv, PTL

\* The types of a client's state: routes of three hops, onions with a layer for
\* each hop to come, receipts only for vaults, and cases only with a receipt.
THEOREM TakerTypeCorrect == Spec => []TypeOK
<1>1. PInv => TypeOK
  <2> SUFFICES ASSUME PInv PROVE TypeOK
    OBVIOUS
  <2>1. \A a \in Attempt : request[a].route = <<>> \/ request[a].route \in [1..3 -> Hop]
    <3> SUFFICES ASSUME NEW a \in Attempt, request[a] = NoRequest PROVE request[a].route = <<>>
      BY RequestTyped DEF PInv
    <3>1. NoRequest.route = <<>>
      BY DEF NoRequest
    <3> QED
      BY <3>1
  <2>2. ASSUME NEW a \in Attempt, onion[a] # NoOnion
        PROVE  onion[a].coin \in Spendable /\ Len(onion[a].etc.onion.payloads) = 3 - onion[a].stage
    <3>1. Made(a) /\ onion[a].stage \in 0..3
      BY <2>2 DEF Made, PInv, TInv, ToldTypeOK
    <3> DEFINE s == onion[a].stage
    <3>2. PICK draw \in Draws : onion[a].etc =
              CarriedAt(Fees(request[a].route), KeysOf(request[a].route), CoinOf[onion[a].coin],
                        OutVal(request[a]), draw, s)
      BY <3>1 DEF PInv, Onions
    <3> DEFINE hops == BuildHops(Fees(request[a].route), KeysOf(request[a].route),
                                 CoinOf[onion[a].coin], OutVal(request[a]), draw)
    <3>3. onion[a].etc.onion = Remaining(hops, s)
      BY <3>2 DEF CarriedAt
    <3>4. HopsAre(hops, Fees(request[a].route), KeysOf(request[a].route),
                  CoinOf[onion[a].coin], OutVal(request[a]), draw)
      BY HopsBuilt
    <3> HIDE DEF hops
    <3>5. Len(hops) = 3
      BY <3>4 DEF HopsAre
    <3>6. Len(Remaining(hops, s).payloads) = 3 - s
      <4> DEFINE n == 3 - s
                 f == Remaining(hops, s).payloads
      <4>1. n \in Nat
        BY <3>1
      <4>2. DOMAIN f = 1..n /\ f = [j \in 1..n |-> f[j]]
        BY <3>5 DEF Remaining
      <4> HIDE DEF f, n
      <4>3. f \in [1..n -> {f[j] : j \in 1..n}]
        BY <4>2
      <4>4. Len(f) = n
        BY <4>1, <4>3, Counted
      <4> QED
        BY <4>4 DEF f, n
    <3>7. onion[a].coin \in Spendable
      BY <3>1 DEF PInv, Onions
    <3> QED
      BY <3>3, <3>6, <3>7
  <2> QED
    BY <2>1, <2>2 DEF TypeOK, PInv, TInv, ToldTypeOK, Requests, Filings
<1> QED
  BY <1>1, InductivePInv, PTL
=============================================================================
