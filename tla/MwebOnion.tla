------------------------------ MODULE MwebOnion ------------------------------
(***************************************************************************)
(* research/coinswapd: how mln_build.go makes an onion for three mix nodes *)
(* and what is left of it after each of them has peeled its layer.         *)
(*                                                                         *)
(* A key stream is named by the two keys that agree on it.  A payload is   *)
(* its text with the pads it was XORed with, and a pad is a stream and the *)
(* place in that stream: the same pad twice is no pad.  Places count       *)
(* payloads, not bytes, for both sides go through them in the same order.  *)
(*                                                                         *)
(* A commitment is the value and the blind it commits to, a public key its *)
(* secret, and scalars live in a group of Order elements.                  *)
(***************************************************************************)
EXTENDS Integers, Sequences

CONSTANTS
    Order,    \* the order of the curve's group
    NoOutput

ASSUME OrderAssumption == Order \in Nat \ {0}

Scalar == 0..Order-1
Plus(x, y) == (x + y) % Order
Minus(x, y) == (x - y) % Order

-----------------------------------------------------------------------------
(* Package onion.                                                          *)

Pad(ephemeral, key, place) == [ephemeral |-> ephemeral, key |-> key, place |-> place]

XORKeyStream(payload, pad) ==
    [payload EXCEPT !.pads = (@ \ {pad}) \cup ({pad} \ @)]

\* Each layer carries the public key of the next; the last one carries zeroes.
Layer(hops, i) ==
    [next |-> IF i < Len(hops) THEN i + 1 ELSE 0,
     kernelBlind |-> hops[i].kernelBlind, stealthBlind |-> hops[i].stealthBlind,
     fee |-> hops[i].fee, output |-> hops[i].output]

\* Mutant: every layer is encrypted from the start of the stream.
NewFromStart(hops) ==
    [pubKey |-> 1,
     payloads |-> [j \in 1..Len(hops) |->
         [text |-> Layer(hops, j), pads |-> {Pad(i, hops[i].key, 0) : i \in 1..j}]]]

\* Payload j is encrypted for hop j and for every hop before it; the stream of
\* hop i has gone through the payloads from i on.
New(hops) ==
    [pubKey |-> 1,
     payloads |-> [j \in 1..Len(hops) |->
         [text |-> Layer(hops, j), pads |-> {Pad(i, hops[i].key, j - i) : i \in 1..j}]]]

\* What the holder of a key makes of the payloads.
Opened(onion, key) ==
    [j \in 1..Len(onion.payloads) |->
        XORKeyStream(onion.payloads[j], Pad(onion.pubKey, key, j - 1))]

\* A payload that is still encrypted has no version byte of its own, so Peel
\* fails, or what it reads fails a later check.
Peels(onion, key) == onion.payloads # <<>> /\ Opened(onion, key)[1].pads = {}
PeeledHop(onion, key) == Opened(onion, key)[1].text

\* Mutant: the payload that was read stays in front.
PeeledWhole(onion, key) ==
    [pubKey |-> PeeledHop(onion, key).next, payloads |-> Opened(onion, key)]

PeeledOnion(onion, key) ==
    [pubKey |-> PeeledHop(onion, key).next, payloads |-> Tail(Opened(onion, key))]

-----------------------------------------------------------------------------
(* mln_build.go and mln_peel.go.  A coin has a value, a blind and a spend  *)
(* key; draw holds what rand.Read and CreateOutput chose.                  *)

Commitment(value, blind) == [value |-> value, blind |-> blind]

\* A layer has an output or none.
ASSUME OutputAssumption ==
    NoOutput \notin [value : Int, sender : Scalar, commitment : [value : Int, blind : Scalar]]

\* mw.BlindSwitch: the blind of a switch commitment depends on the value too.
BlindSwitch(blind, value) == Plus(blind, 2 * value)

\* The last kernel blind makes the sum of all meet the output's commitment.
LastKernelBlind(coin, outVal, draw) ==
    Minus(Minus(Minus(BlindSwitch(draw.mask, outVal), BlindSwitch(coin.blind, coin.value)),
                draw.k0), draw.k1)

\* inputStealthBase: the output key without the input key.
StealthBase(coin, draw) == Minus(coin.spendKey, draw.skInput)

\* The last stealth blind makes the sum of all meet the output's sender key.
LastStealthBlind(coin, draw) ==
    Minus(Minus(Minus(draw.skSend, StealthBase(coin, draw)), draw.s0), draw.s1)

\* fees and keys are those of the route's hops, and the output is the last's.
BuildHops(fees, keys, coin, outVal, draw) ==
    [i \in 1..3 |->
        [key |-> keys[i], fee |-> fees[i],
         kernelBlind |-> <<draw.k0, draw.k1, LastKernelBlind(coin, outVal, draw)>>[i],
         stealthBlind |-> <<draw.s0, draw.s1, LastStealthBlind(coin, draw)>>[i],
         output |-> IF i < 3 THEN NoOutput
                    ELSE [value |-> outVal, sender |-> draw.skSend,
                          commitment |-> Commitment(outVal, BlindSwitch(draw.mask, outVal))]]]

\* buildOnionFromMLNRoute, with the commitment and the stealth sum from which
\* performSwap starts.
BuildOnion(fees, keys, coin, outVal, draw) ==
    [onion |-> New(BuildHops(fees, keys, coin, outVal, draw)),
     commit |-> Commitment(coin.value, BlindSwitch(coin.blind, coin.value)),
     stealth |-> StealthBase(coin, draw)]

\* peelCommitStep and peelStealthStep.
PeelCommitStep(commit, hop) ==
    Commitment(commit.value - hop.fee, Plus(commit.blind, hop.kernelBlind))
PeelStealthStep(stealth, hop) == Plus(stealth, hop.stealthBlind)

\* One onion in peelOnions, at the node with this key.
PeelStep(etc, key) ==
    LET hop == PeeledHop(etc.onion, key)
    IN [onion |-> PeeledOnion(etc.onion, key),
        commit |-> PeelCommitStep(etc.commit, hop),
        stealth |-> PeelStealthStep(etc.stealth, hop)]

\* It is kept when it peels, has an output at the last node only, and that
\* output is what the sums say; a range proof shows that a value is not negative.
KeptByPeel(etc, key, lastNode) ==
    /\ Peels(etc.onion, key)
    /\ LET output == PeeledHop(etc.onion, key).output
       IN /\ lastNode <=> output # NoOutput
          /\ lastNode => /\ output.commitment = PeelStep(etc, key).commit
                         /\ output.sender = PeelStep(etc, key).stealth
                         /\ output.value >= 0
=============================================================================
