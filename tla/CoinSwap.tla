------------------------------ MODULE CoinSwap ------------------------------
(***************************************************************************)
(* research/coinswapd: the CoinSwap round over a chain of mix nodes.       *)
(* Node 0 keeps the onions in its database and starts a round; each node   *)
(* peels its layer and passes the rest on by swap_forward, the last node   *)
(* turns the round around, and swap_backward carries outputs and kernels   *)
(* back to node 0, which broadcasts one aggregated transaction.            *)
(*                                                                         *)
(* An onion is a name.  Its commitment after hop i is the pair (onion, i), *)
(* so a set of onions stands for a set of commitments, and a sum of        *)
(* commitments, blinds or excesses is the set of onions summed.            *)
(***************************************************************************)
EXTENDS Integers, FiniteSets, FiniteSetsExt

CONSTANTS
    N,            \* mix nodes on the route; the MLN routes have three
    Onion, Coin,  \* an onion spends one MWEB coin: Spends[o]
    Spends, Value,
    PeelsAt,      \* the nodes at which an onion peels, verifies and fits the route
    HopFee,       \* the fee an onion leaves at each node
    OutputCost, KernelCost,
    Routed,       \* onions built by mweb_submitRoute; the others come by swap_swap
    MaxCalls,     \* bound: calls between nodes under way at once
    MaxFaults     \* bound: lost calls, crashes and failed writes or broadcasts

Hop == 0..N-1
Last == N - 1

ASSUME CoinSwapAssumption ==
    /\ N \in Nat /\ N >= 2
    /\ IsFiniteSet(Onion)
    /\ Spends \in [Onion -> Coin]
    /\ Value \in [Coin -> Nat \ {0}]
    /\ PeelsAt \in [Onion -> SUBSET Hop]
    /\ HopFee \in [Onion -> [Hop -> Nat]]
    /\ OutputCost \in Nat /\ KernelCost \in Nat \ {0}
    /\ Routed \subseteq Onion
    /\ MaxCalls \in Nat /\ MaxFaults \in Nat

VARIABLES
    db,       \* bucket coinswap-onions of node 0: at most one onion per coin
    amounts,  \* bucket coinswap-onion-amounts: 0 when not recorded
    onions,   \* s.onions of every node, in memory
    calls,    \* swap_forward and swap_backward calls not yet delivered
    sent,     \* transactions handed to the network
    unspent,  \* the MWEB coin database: coins on chain and not spent
    fate,     \* history: what became of each onion's submission
    faults

vars == <<db, amounts, onions, calls, sent, unspent, fate, faults>>

Call == [kind : {"swap_forward", "swap_backward"}, to : Hop, tag : Nat,
         onions : SUBSET Onion, outputs : SUBSET Onion, kernels : [Hop -> SUBSET Onion]]

TypeOK ==
    /\ db \subseteq Onion /\ \A o, x \in db : Spends[o] = Spends[x] => o = x
    /\ amounts \in [Coin -> Nat]
    /\ onions \in [Hop -> SUBSET Onion]
    /\ calls \subseteq Call
    /\ sent \subseteq [inputs : SUBSET Onion, outputs : SUBSET Onion]
    /\ unspent \subseteq Coin
    /\ fate \in [Onion -> {"fresh", "acked", "void"}]
    /\ faults \in Nat

Init ==
    /\ db = {}
    /\ amounts = [c \in Coin |-> 0]
    /\ onions = [i \in Hop |-> {}]
    /\ calls = {}
    /\ sent = {}
    /\ unspent = Coin
    /\ fate = [o \in Onion |-> "fresh"]
    /\ faults = 0

CoinsOf(S) == {Spends[o] : o \in S}
WasSent(o) == \E tx \in sent : o \in tx.inputs
Fault == faults < MaxFaults /\ faults' = faults + 1

-----------------------------------------------------------------------------
(* Node 0's queue.                                                         *)

\* Mutant: keyed by the onion, not by the coin it spends.
SavedBeside(o) == db \cup {o}

\* acceptOnionLocked: an onion whose coin is not unspent fails validateOnion;
\* the database key is the input commitment, so a coin's older onion goes.
Saved(o) == {x \in db : Spends[x] # Spends[o]} \cup {o}

\* History: o is answered with f, and an older onion for its coin is void.
Answered(o, f) ==
    fate' = [x \in Onion |-> IF x = o THEN f
                             ELSE IF fate[x] = "acked" /\ Spends[x] = Spends[o] THEN "void"
                             ELSE fate[x]]

\* swap_swap: no amount is recorded, and one recorded before stays.
Swap(o) ==
    /\ o \notin Routed
    /\ Spends[o] \in unspent
    /\ db' = Saved(o)
    /\ Answered(o, "acked")
    /\ UNCHANGED <<amounts, onions, calls, sent, unspent, faults>>

\* mweb_submitRoute builds a new onion.  The amount is a second database write.
\* If that fails the onion is taken back; a crash between the two, or a second
\* failure, leaves it without its amount.  An older onion for the coin is gone.
SubmitRoute(o) ==
    /\ o \in Routed /\ fate[o] = "fresh"
    /\ Spends[o] \in unspent
    /\ \/ /\ db' = Saved(o)
          /\ amounts' = [amounts EXCEPT ![Spends[o]] = Value[Spends[o]]]
          /\ Answered(o, "acked")
          /\ UNCHANGED <<onions, faults>>
       \/ /\ Fault
          /\ db' = Saved(o) \ {o}
          /\ amounts' = [amounts EXCEPT ![Spends[o]] = 0]
          /\ Answered(o, "void")
          /\ UNCHANGED onions
       \/ /\ Fault
          /\ db' = Saved(o)
          /\ Answered(o, "void")
          /\ \E kept \in {onions[0], {}} : onions' = [onions EXCEPT ![0] = kept]
          /\ UNCHANGED amounts
    /\ UNCHANGED <<calls, sent, unspent>>

\* deleteOnion for every onion of S, by coin.
WithoutCoins(C) == {o \in db : Spends[o] \notin C}
AmountsWithout(C) == [c \in Coin |-> IF c \in C THEN 0 ELSE amounts[c]]

-----------------------------------------------------------------------------
(* Peeling, and the calls from node to node.                               *)

Message(kind, to, tag, S, outs, kernels) ==
    [kind |-> kind, to |-> to, tag |-> tag, onions |-> S, outputs |-> outs, kernels |-> kernels]

\* rpc.Dial and client.Call in a goroutine; the tag tells twins apart.
Send(inflight, kind, to, S, outs, kernels) ==
    /\ Cardinality(inflight) < MaxCalls
    /\ \E tag \in 1..MaxCalls :
        /\ \A t \in 1..tag : Message(kind, to, t, S, outs, kernels) \in inflight <=> t < tag
        /\ calls' = inflight \cup {Message(kind, to, tag, S, outs, kernels)}

NoKernels == [j \in Hop |-> {}]

NodeFee(i, S) == MapThenSumSet(LAMBDA o : HopFee[o][i], S)

\* A node's share of the output weight, rounded up, and its own kernel.
CostShare(nOutputs) == (nOutputs * OutputCost + N - 1) \div N + KernelCost

\* Outputs so far: the users', one fee output of each later node, and those
\* still to come of this node and the earlier ones.
HopFeesCover(i, S, outs) ==
    NodeFee(i, S) >= CostShare(Cardinality(outs) + (Last - i) + i + 1)

\* Mutant: the onions are deleted before the broadcast succeeds.
DeleteThenSend(S, outs) ==
    /\ db' = WithoutCoins(CoinsOf(S))
    /\ amounts' = AmountsWithout(CoinsOf(S))
    /\ \/ Fault /\ UNCHANGED sent
       \/ sent' = sent \cup {[inputs |-> S, outputs |-> outs]} /\ UNCHANGED faults

\* finalize: broadcast, then delete the spent onions one by one.  A failed
\* write leaves the rest queued, the first of them perhaps without its amount.
Finalize(S, outs) ==
    \/ /\ Fault \/ (~(CoinsOf(S) \subseteq unspent) /\ UNCHANGED faults)
       /\ UNCHANGED <<db, amounts, sent>>
    \/ /\ sent' = sent \cup {[inputs |-> S, outputs |-> outs]}
       /\ \E D \in SUBSET S, B \in SUBSET S :
            /\ IF D = S THEN B = {} /\ UNCHANGED faults
                        ELSE Cardinality(B \ D) <= 1 /\ Fault
            /\ db' = WithoutCoins(CoinsOf(D))
            /\ amounts' = AmountsWithout(CoinsOf(D \cup B))

\* backward(): with this node's kernel added the round goes one node back.
BackwardFrom(i, S, inflight, outs, kernels) ==
    LET all == [kernels EXCEPT ![i] = S]
    IN /\ onions' = [onions EXCEPT ![i] = S]
       /\ \/ /\ ~HopFeesCover(i, S, outs)
             /\ calls' = inflight
             /\ UNCHANGED <<db, amounts, sent, faults>>
          \/ /\ HopFeesCover(i, S, outs) /\ i # 0
             /\ Send(inflight, "swap_backward", i - 1, S, outs, all)
             /\ UNCHANGED <<db, amounts, sent, faults>>
          \/ /\ HopFeesCover(i, S, outs) /\ i = 0
             /\ calls' = inflight
             /\ Finalize(S, outs)

\* Mutant: one malformed onion empties the batch.
AllOrNothing(i, S) == {o \in S : \A x \in S : i \in PeelsAt[x]}

\* peelOnions: what fails to peel, to verify or to fit the route is dropped.
Peeled(i, S) == {o \in S : i \in PeelsAt[o]}

\* forward(): peel, then call the next node, or turn around at the last.
ForwardFrom(i, S, inflight) ==
    IF i = Last
    THEN BackwardFrom(i, Peeled(i, S), inflight, Peeled(i, S), NoKernels)
    ELSE /\ onions' = [onions EXCEPT ![i] = Peeled(i, S)]
         /\ Send(inflight, "swap_forward", i + 1, Peeled(i, S), {}, NoKernels)
         /\ UNCHANGED <<db, amounts, sent, faults>>

-----------------------------------------------------------------------------
(* A round.                                                                *)

\* Mutant: onions without a recorded amount are ignored.
SameWhereRecorded(S) ==
    \A o, x \in {z \in S : amounts[Spends[z]] # 0} : amounts[Spends[o]] = amounts[Spends[x]]

SameDenomination(S) ==
    \/ \A o \in S : amounts[Spends[o]] = 0
    \/ /\ \A o \in S : amounts[Spends[o]] # 0
       /\ \A o, x \in S : amounts[Spends[o]] = amounts[Spends[x]]

Valid == {o \in db : Spends[o] \in unspent}

\* performSwap at node 0: invalid onions are deleted, and what is left starts
\* a round unless it is refused.
StartRound ==
    /\ db' = Valid
    /\ amounts' = AmountsWithout(CoinsOf(db \ Valid))
    /\ db # {} => Valid # {}
    /\ SameDenomination(Valid)
    /\ onions' = [onions EXCEPT ![0] = Peeled(0, Valid)]
    /\ Send(calls, "swap_forward", 1, Peeled(0, Valid), {}, NoKernels)

RefuseRound(kept) ==
    /\ db' = Valid
    /\ amounts' = AmountsWithout(CoinsOf(db \ Valid))
    /\ (db # {} /\ Valid = {}) \/ ~SameDenomination(Valid)
    /\ onions' = [onions EXCEPT ![0] = kept]
    /\ UNCHANGED calls

\* mweb_runBatch, at any time; a refusal is an answer to the caller.
RunBatch ==
    /\ StartRound \/ RefuseRound(Valid)
    /\ UNCHANGED <<sent, unspent, fate, faults>>

\* The main loop at midnight: a refusal ends the process, which is restarted.
\* The calls of an earlier day have long been delivered or lost.
Midnight ==
    /\ calls = {}
    /\ StartRound \/ RefuseRound({})
    /\ UNCHANGED <<sent, unspent, fate, faults>>

Forward(c) ==
    /\ c.kind = "swap_forward"
    /\ ForwardFrom(c.to, c.onions, calls \ {c})
    /\ UNCHANGED <<unspent, fate>>

\* Mutant: the later kernels are not summed.
OutputsKnown(i, S, c) == S \subseteq c.outputs

\* The commitments and excesses sum up: the onions still held here that the
\* next node also used are those of the outputs and of every later kernel.
Balanced(i, S, c) ==
    /\ S = c.outputs
    /\ \A j \in (i + 1)..Last : c.kernels[j] = c.outputs

\* Backward: onions the later nodes dropped are dropped here, and the
\* invariants are checked before the round goes on.
Backward(c) ==
    LET S == onions[c.to] \cap c.onions
    IN /\ c.kind = "swap_backward"
       /\ IF Balanced(c.to, S, c)
          THEN BackwardFrom(c.to, S, calls \ {c}, c.outputs, c.kernels)
          ELSE /\ onions' = [onions EXCEPT ![c.to] = S]
               /\ calls' = calls \ {c}
               /\ UNCHANGED <<db, amounts, sent, faults>>
       /\ UNCHANGED <<unspent, fate>>

-----------------------------------------------------------------------------
(* Failures, and the chain.                                                *)

\* A call is lost, or the peer cannot be reached: logged and never repeated.
Lose(c) ==
    /\ Fault
    /\ calls' = calls \ {c}
    /\ UNCHANGED <<db, amounts, onions, sent, unspent, fate>>

\* A node stops and starts again: only the database survives.
Crash(i) ==
    /\ Fault
    /\ onions' = [onions EXCEPT ![i] = {}]
    /\ UNCHANGED <<db, amounts, calls, sent, unspent, fate>>

\* A broadcast transaction is mined while its inputs are still unspent.
Confirm(tx) ==
    /\ CoinsOf(tx.inputs) \subseteq unspent
    /\ unspent' = unspent \ CoinsOf(tx.inputs)
    /\ UNCHANGED <<db, amounts, onions, calls, sent, fate, faults>>

\* The owner spends the coin some other way.
SpendElsewhere(k) ==
    /\ unspent' = unspent \ {k}
    /\ UNCHANGED <<db, amounts, onions, calls, sent, fate, faults>>

Next ==
    \/ \E o \in Onion : Swap(o) \/ SubmitRoute(o)
    \/ RunBatch \/ Midnight
    \/ \E c \in calls : Forward(c) \/ Backward(c) \/ Lose(c)
    \/ \E i \in Hop : Crash(i)
    \/ \E tx \in sent : Confirm(tx)
    \/ \E k \in Coin : SpendElsewhere(k)

Spec == Init /\ [][Next]_vars

\* Midnight comes every day, calls are delivered unless lost, and the network
\* mines what was broadcast.
Fairness ==
    /\ WF_vars(Midnight)
    /\ WF_vars(\E c \in calls : Forward(c) \/ Backward(c))

FairSpec == Spec /\ Fairness

-----------------------------------------------------------------------------

\* Nobody's coin is spent without its output, and no output appears without
\* its coin: every broadcast transaction pays exactly the onions it spends,
\* whatever rounds, losses and restarts preceded it (the commitment and
\* stealth invariants of Backward, and finalize).
CoinsPreserved == \A tx \in sent : tx.inputs = tx.outputs

\* An acknowledged onion leaves node 0's queue only if its coin is in a
\* broadcast transaction, is no longer unspent, or got another onion
\* (performSwap's cleanup and finalize's deletions).
KeptUntilBroadcast ==
    [][\A o \in Onion : fate[o] = "acked" /\ o \in db /\ o \notin db' =>
          \/ Spends[o] \notin unspent
          \/ \E tx \in sent' : Spends[o] \in CoinsOf(tx.inputs)
          \/ fate'[o] = "void"]_vars

\* One value per aggregated transaction as soon as one of its onions was
\* accepted with an amount and its coin was not broadcast before
\* (requireSameDenomination).
WasBroadcast(k) == \E tx \in sent : k \in CoinsOf(tx.inputs)
OneDenomination ==
    [][\A tx \in sent' \ sent :
          (\E o \in tx.inputs \cap Routed : fate[o] = "acked" /\ ~WasBroadcast(Spends[o])) =>
             \A o, x \in tx.inputs : Value[Spends[o]] = Value[Spends[x]]]_vars

\* A sound, queued onion is eventually broadcast, replaced or made void by its
\* owner, even when the onions mixed with it are malformed.
Sound(o) == PeelsAt[o] = Hop
SoundOnionsAreBroadcast ==
    \A o \in Onion : Sound(o) =>
        (o \in db ~> WasSent(o) \/ Spends[o] \notin unspent)
=============================================================================
