--------------------------- MODULE CoinSwap_proofs ---------------------------
(***************************************************************************)
(* Proofs about CoinSwap, for any number of nodes, onions and coins: its   *)
(* type invariant, that no transaction takes a coin without paying it out, *)
(* that node 0 keeps an acknowledged onion until it is broadcast, and that *)
(* batches of onions accepted with their amounts have one denomination.    *)
(***************************************************************************)
EXTENDS CoinSwap, TLAPS

IInv == TypeOK /\ CoinsPreserved

LEMMA HopFacts == /\ 0 \in Hop /\ Last \in Hop /\ Last # 0
                  /\ \A i \in Hop : i # 0 => i - 1 \in Hop
                  /\ \A i \in Hop : i # Last => i + 1 \in Hop /\ i + 1 # 0
                  /\ 1 \in Hop
BY CoinSwapAssumption, SMT DEF Hop, Last

\* Deleting onions by coin keeps the database well formed.
LEMMA Deletions ==
    ASSUME TypeOK, NEW C
    PROVE  /\ WithoutCoins(C) \subseteq db
           /\ AmountsWithout(C) \in [Coin -> Nat]
BY DEF TypeOK, WithoutCoins, AmountsWithout

\* A call that is sent is well formed, and the others are unchanged.
LEMMA SendTyped ==
    ASSUME NEW inflight, inflight \subseteq Call, NEW kind \in {"swap_forward", "swap_backward"},
           NEW to \in Hop, NEW S \in SUBSET Onion, NEW outs \in SUBSET Onion,
           NEW kernels \in [Hop -> SUBSET Onion],
           Send(inflight, kind, to, S, outs, kernels)
    PROVE  calls' \subseteq Call
<1>1. PICK tag \in 1..MaxCalls :
          calls' = inflight \cup {Message(kind, to, tag, S, outs, kernels)}
    BY DEF Send
<1>2. tag \in Nat
    BY CoinSwapAssumption, SMT
<1>3. Message(kind, to, tag, S, outs, kernels) \in Call
    BY <1>2 DEF Message, Call
<1> QED BY <1>1, <1>3

LEMMA FinalizeStep ==
    ASSUME TypeOK, CoinsPreserved, NEW S \in SUBSET Onion, Finalize(S, S)
    PROVE  /\ db' \subseteq db
           /\ amounts' \in [Coin -> Nat]
           /\ sent' \subseteq [inputs : SUBSET Onion, outputs : SUBSET Onion]
           /\ faults' \in Nat
           /\ CoinsPreserved'
           /\ \A o \in db \ db' : \E tx \in sent' : Spends[o] \in CoinsOf(tx.inputs)
<1>1. CASE /\ Fault \/ (~(CoinsOf(S) \subseteq unspent) /\ UNCHANGED faults)
           /\ UNCHANGED <<db, amounts, sent>>
    BY <1>1 DEF TypeOK, Fault, CoinsPreserved
<1>2. CASE /\ sent' = sent \cup {[inputs |-> S, outputs |-> S]}
           /\ \E D \in SUBSET S, B \in SUBSET S :
                /\ IF D = S THEN B = {} /\ UNCHANGED faults
                            ELSE Cardinality(B \ D) <= 1 /\ Fault
                /\ db' = WithoutCoins(CoinsOf(D))
                /\ amounts' = AmountsWithout(CoinsOf(D \cup B))
  <2>1. PICK D \in SUBSET S, B \in SUBSET S :
                /\ IF D = S THEN B = {} /\ UNCHANGED faults
                            ELSE Cardinality(B \ D) <= 1 /\ Fault
                /\ db' = WithoutCoins(CoinsOf(D))
                /\ amounts' = AmountsWithout(CoinsOf(D \cup B))
      BY <1>2
  <2>2. /\ db' \subseteq db /\ amounts' \in [Coin -> Nat]
      BY <2>1, Deletions
  <2>3. faults' \in Nat
      BY <2>1 DEF TypeOK, Fault
  <2>4. /\ sent' \subseteq [inputs : SUBSET Onion, outputs : SUBSET Onion]
        /\ CoinsPreserved'
      BY <1>2 DEF TypeOK, CoinsPreserved
  <2>5. ASSUME NEW o \in db \ db'
        PROVE  \E tx \in sent' : Spends[o] \in CoinsOf(tx.inputs)
    <3>1. Spends[o] \in CoinsOf(D)
        BY <2>1, <2>5 DEF WithoutCoins
    <3>2. Spends[o] \in CoinsOf(S)
        BY <3>1 DEF CoinsOf
    <3>3. [inputs |-> S, outputs |-> S] \in sent'
        BY <1>2
    <3> QED BY <3>2, <3>3
  <2> QED BY <2>2, <2>3, <2>4, <2>5
<1> QED BY <1>1, <1>2 DEF Finalize

\* What a node's step leaves of the database, and what it broadcasts.
Kept ==
    /\ db' \subseteq db
    /\ amounts' \in [Coin -> Nat]
    /\ onions' \in [Hop -> SUBSET Onion]
    /\ calls' \subseteq Call
    /\ sent' \subseteq [inputs : SUBSET Onion, outputs : SUBSET Onion]
    /\ faults' \in Nat
    /\ CoinsPreserved'
    /\ \A o \in db \ db' : \E tx \in sent' : Spends[o] \in CoinsOf(tx.inputs)

LEMMA BackwardFromStep ==
    ASSUME TypeOK, CoinsPreserved, NEW i \in Hop, NEW S \in SUBSET Onion,
           NEW inflight, inflight \subseteq Call, NEW outs, outs = S,
           NEW kernels \in [Hop -> SUBSET Onion],
           BackwardFrom(i, S, inflight, outs, kernels)
    PROVE  Kept
<1> DEFINE all == [kernels EXCEPT ![i] = S]
<1>1. /\ onions' = [onions EXCEPT ![i] = S]
      /\ \/ calls' = inflight /\ UNCHANGED <<db, amounts, sent, faults>>
         \/ /\ i # 0 /\ Send(inflight, "swap_backward", i - 1, S, outs, all)
            /\ UNCHANGED <<db, amounts, sent, faults>>
         \/ calls' = inflight /\ Finalize(S, outs)
    BY DEF BackwardFrom
<1>2. onions' \in [Hop -> SUBSET Onion]
    BY <1>1 DEF TypeOK
<1>3. CASE calls' = inflight /\ UNCHANGED <<db, amounts, sent, faults>>
    BY <1>2, <1>3 DEF Kept, TypeOK, CoinsPreserved
<1>4. CASE /\ i # 0 /\ Send(inflight, "swap_backward", i - 1, S, outs, all)
           /\ UNCHANGED <<db, amounts, sent, faults>>
  <2>1. all \in [Hop -> SUBSET Onion]
      OBVIOUS
  <2>2. i - 1 \in Hop /\ "swap_backward" \in {"swap_forward", "swap_backward"}
      BY <1>4, HopFacts
  <2> HIDE DEF all
  <2>3. calls' \subseteq Call
      BY <1>4, <2>1, <2>2, SendTyped
  <2> QED BY <1>2, <1>4, <2>3 DEF Kept, TypeOK, CoinsPreserved
<1>5. CASE calls' = inflight /\ Finalize(S, outs)
  <2>1. Finalize(S, S)
      BY <1>5
  <2> QED BY <1>2, <1>5, <2>1, FinalizeStep DEF Kept
<1> QED BY <1>1, <1>3, <1>4, <1>5

LEMMA NoKernelsTyped == NoKernels \in [Hop -> SUBSET Onion]
BY DEF NoKernels

LEMMA ForwardFromStep ==
    ASSUME TypeOK, CoinsPreserved, NEW i \in Hop, NEW S \in SUBSET Onion,
           NEW inflight, inflight \subseteq Call, ForwardFrom(i, S, inflight)
    PROVE  Kept
<1> DEFINE P == Peeled(i, S)
<1>1. P \in SUBSET Onion
    BY DEF Peeled
<1>2. CASE i = Last
  <2>1. BackwardFrom(i, P, inflight, P, NoKernels)
      BY <1>2 DEF ForwardFrom
  <2> HIDE DEF P
  <2> QED BY <1>1, <2>1, NoKernelsTyped, BackwardFromStep
<1>3. CASE i # Last
  <2>1. /\ onions' = [onions EXCEPT ![i] = P]
        /\ Send(inflight, "swap_forward", i + 1, P, {}, NoKernels)
        /\ UNCHANGED <<db, amounts, sent, faults>>
      BY <1>3 DEF ForwardFrom
  <2>2. i + 1 \in Hop /\ "swap_forward" \in {"swap_forward", "swap_backward"}
      BY <1>3, HopFacts
  <2> HIDE DEF P
  <2>3. calls' \subseteq Call
      BY <1>1, <2>1, <2>2, NoKernelsTyped, SendTyped
  <2> QED BY <1>1, <2>1, <2>3 DEF Kept, TypeOK, CoinsPreserved
<1> QED BY <1>2, <1>3

LEMMA CallTyped ==
    ASSUME TypeOK, NEW c \in calls
    PROVE  /\ c.to \in Hop /\ c.onions \in SUBSET Onion /\ c.outputs \in SUBSET Onion
           /\ c.kernels \in [Hop -> SUBSET Onion]
           /\ calls \ {c} \subseteq Call
BY DEF TypeOK, Call

LEMMA DeliveryStep ==
    ASSUME TypeOK, CoinsPreserved, NEW c \in calls, Forward(c) \/ Backward(c)
    PROVE  Kept
<1>1. CASE Forward(c)
  <2>1. ForwardFrom(c.to, c.onions, calls \ {c})
      BY <1>1 DEF Forward
  <2> QED BY <2>1, CallTyped, ForwardFromStep
<1>2. CASE Backward(c)
  <2> DEFINE S == onions[c.to] \cap c.onions
  <2>1. S \in SUBSET Onion
      BY CallTyped DEF TypeOK
  <2>2. CASE Balanced(c.to, S, c)
    <3>1. BackwardFrom(c.to, S, calls \ {c}, c.outputs, c.kernels)
        BY <1>2, <2>2 DEF Backward
    <3>2. c.outputs = S
        BY <2>2 DEF Balanced
    <3> HIDE DEF S
    <3> QED BY <2>1, <3>1, <3>2, CallTyped, BackwardFromStep
  <2>3. CASE ~Balanced(c.to, S, c)
    <3>1. /\ onions' = [onions EXCEPT ![c.to] = S]
          /\ calls' = calls \ {c}
          /\ UNCHANGED <<db, amounts, sent, faults>>
        BY <1>2, <2>3 DEF Backward
    <3> HIDE DEF S
    <3> QED BY <2>1, <3>1, CallTyped DEF Kept, TypeOK, CoinsPreserved
  <2> QED BY <2>2, <2>3
<1> QED BY <1>1, <1>2

-----------------------------------------------------------------------------
(* The steps that start a round.                                           *)

LEMMA RoundStep ==
    ASSUME TypeOK, NEW kept \in SUBSET Onion, StartRound \/ RefuseRound(kept)
    PROVE  /\ db' = Valid
           /\ amounts' \in [Coin -> Nat]
           /\ onions' \in [Hop -> SUBSET Onion]
           /\ calls' \subseteq Call
<1>1. db' = Valid /\ amounts' \in [Coin -> Nat]
    BY Deletions DEF StartRound, RefuseRound
<1>2. CASE StartRound
  <2> DEFINE P == Peeled(0, Valid)
  <2>1. P \in SUBSET Onion
      BY DEF Peeled, Valid, TypeOK
  <2>2. onions' = [onions EXCEPT ![0] = P] /\ Send(calls, "swap_forward", 1, P, {}, NoKernels)
      BY <1>2 DEF StartRound
  <2> HIDE DEF P
  <2>3. onions' \in [Hop -> SUBSET Onion]
      BY <2>1, <2>2 DEF TypeOK
  <2>4. calls \subseteq Call /\ 1 \in Hop /\ "swap_forward" \in {"swap_forward", "swap_backward"}
      BY HopFacts DEF TypeOK
  <2>5. calls' \subseteq Call
      BY <2>1, <2>2, <2>4, NoKernelsTyped, SendTyped
  <2> QED BY <1>1, <2>3, <2>5
<1>3. CASE RefuseRound(kept)
    BY <1>1, <1>3 DEF RefuseRound, TypeOK
<1> QED BY <1>2, <1>3

LEMMA ValidTyped == ASSUME TypeOK PROVE Valid \in SUBSET Onion
BY DEF TypeOK, Valid

\* The two ways a round is started, as one.
LEMMA BatchStep ==
    ASSUME TypeOK, RunBatch \/ Midnight
    PROVE  /\ db' = Valid
           /\ amounts' \in [Coin -> Nat]
           /\ onions' \in [Hop -> SUBSET Onion]
           /\ calls' \subseteq Call
           /\ UNCHANGED <<sent, unspent, fate, faults>>
<1>1. UNCHANGED <<sent, unspent, fate, faults>>
    BY DEF RunBatch, Midnight
<1>2. PICK kept \in SUBSET Onion : StartRound \/ RefuseRound(kept)
    BY ValidTyped DEF RunBatch, Midnight
<1> QED BY <1>1, <1>2, RoundStep

-----------------------------------------------------------------------------
(* The steps that queue an onion.                                          *)

LEMMA SavedTyped ==
    ASSUME TypeOK, NEW o \in Onion
    PROVE  /\ Saved(o) \subseteq Onion
           /\ \A x, y \in Saved(o) : Spends[x] = Spends[y] => x = y
BY DEF TypeOK, Saved

LEMMA AnsweredTyped ==
    ASSUME TypeOK, NEW o \in Onion, NEW f \in {"acked", "void"}, Answered(o, f)
    PROVE  /\ fate' \in [Onion -> {"fresh", "acked", "void"}]
           /\ fate'[o] = f
           /\ \A x \in Onion : x # o /\ fate[x] = "acked" /\ Spends[x] = Spends[o]
                                  => fate'[x] = "void"
BY DEF TypeOK, Answered

LEMMA QueueStep ==
    ASSUME IInv, NEW o \in Onion, Swap(o) \/ SubmitRoute(o)
    PROVE  /\ IInv'
           /\ \A x \in db \ db' : fate[x] = "acked" => fate'[x] = "void"
<1> USE DEF IInv
<1>1. CASE Swap(o)
  <2>1. /\ db' = Saved(o) /\ Answered(o, "acked")
        /\ UNCHANGED <<amounts, onions, calls, sent, unspent, faults>>
      BY <1>1 DEF Swap
  <2>2. IInv'
      BY <2>1, SavedTyped, AnsweredTyped DEF TypeOK, CoinsPreserved
  <2>3. ASSUME NEW x \in db \ db' PROVE x # o /\ Spends[x] = Spends[o]
      BY <2>1, <2>3 DEF Saved
  <2> QED BY <2>1, <2>2, <2>3, AnsweredTyped DEF TypeOK
<1>2. CASE SubmitRoute(o)
  <2>1. /\ db' \in {Saved(o), Saved(o) \ {o}}
        /\ \/ db' = Saved(o) /\ Answered(o, "acked")
           \/ Answered(o, "void")
        /\ UNCHANGED <<calls, sent, unspent>>
        /\ faults' \in Nat
      BY <1>2 DEF SubmitRoute, Fault, TypeOK
  <2>2. amounts' \in [Coin -> Nat]
      BY <1>2, CoinSwapAssumption DEF SubmitRoute, TypeOK
  <2>3. onions' \in [Hop -> SUBSET Onion]
    <3>1. \A kept \in {onions[0], {}} :
             [onions EXCEPT ![0] = kept] \in [Hop -> SUBSET Onion]
        BY HopFacts DEF TypeOK
    <3>2. UNCHANGED onions \/ \E kept \in {onions[0], {}} : onions' = [onions EXCEPT ![0] = kept]
        BY <1>2 DEF SubmitRoute
    <3> QED BY <3>1, <3>2 DEF TypeOK
  <2>4. fate' \in [Onion -> {"fresh", "acked", "void"}]
      BY <2>1, AnsweredTyped
  <2>5. IInv'
      BY <2>1, <2>2, <2>3, <2>4, SavedTyped DEF TypeOK, CoinsPreserved
  <2>6. ASSUME NEW x \in db \ db', fate[x] = "acked" PROVE fate'[x] = "void"
    <3>1. x \in Onion /\ (x = o \/ Spends[x] = Spends[o])
        BY <2>1, <2>6 DEF Saved, TypeOK
    <3>2. CASE x = o
        BY <2>1, <2>6, <3>2, AnsweredTyped DEF Saved
    <3>3. CASE x # o
        BY <2>1, <2>6, <3>1, <3>3, AnsweredTyped
    <3> QED BY <3>2, <3>3
  <2> QED BY <2>5, <2>6
<1> QED BY <1>1, <1>2

-----------------------------------------------------------------------------

LEMMA Initially == Init => IInv
<1> SUFFICES ASSUME Init PROVE IInv
    OBVIOUS
<1>1. sent = {} /\ calls = {} /\ db = {}
    BY DEF Init
<1>2. TypeOK
    BY <1>1 DEF Init, TypeOK
<1> QED BY <1>1, <1>2 DEF IInv, CoinsPreserved

\* A database that only shrinks stays well formed.
LEMMA KeptTyped ==
    ASSUME IInv, Kept, UNCHANGED fate, unspent' \subseteq unspent
    PROVE  IInv'
BY DEF IInv, Kept, TypeOK

LEMMA Inductive == IInv /\ [Next]_vars => IInv'
<1> SUFFICES ASSUME IInv, [Next]_vars PROVE IInv'
    OBVIOUS
<1>1. ASSUME NEW o \in Onion, Swap(o) \/ SubmitRoute(o) PROVE IInv'
    BY <1>1, QueueStep
<1>2. CASE RunBatch \/ Midnight
  <2>1. Valid \subseteq db
      BY DEF Valid
  <2> QED BY <1>2, <2>1, BatchStep DEF IInv, TypeOK, CoinsPreserved
<1>3. ASSUME NEW c \in calls, Forward(c) \/ Backward(c) PROVE IInv'
  <2>1. UNCHANGED <<unspent, fate>>
      BY <1>3 DEF Forward, Backward
  <2>2. Kept
      BY <1>3, DeliveryStep DEF IInv
  <2> QED BY <2>1, <2>2, KeptTyped
<1>4. ASSUME NEW c \in calls, Lose(c) PROVE IInv'
    BY <1>4 DEF IInv, Lose, Fault, TypeOK, CoinsPreserved
<1>5. ASSUME NEW i \in Hop, Crash(i) PROVE IInv'
    BY <1>5 DEF IInv, Crash, Fault, TypeOK, CoinsPreserved
<1>6. ASSUME NEW tx \in sent, Confirm(tx) PROVE IInv'
    BY <1>6 DEF IInv, Confirm, TypeOK, CoinsPreserved
<1>7. ASSUME NEW k \in Coin, SpendElsewhere(k) PROVE IInv'
    BY <1>7 DEF IInv, SpendElsewhere, TypeOK, CoinsPreserved
<1>8. CASE UNCHANGED vars
    BY <1>8 DEF IInv, vars, TypeOK, CoinsPreserved
<1> QED BY <1>1, <1>2, <1>3, <1>4, <1>5, <1>6, <1>7, <1>8 DEF Next

LEMMA Invariance == Spec => []IInv
BY Initially, Inductive, PTL DEF Spec

\* The queue, the memory of the nodes, the calls and the transactions keep
\* their shape, and no coin has two onions in the queue.
THEOREM TypeCorrect == Spec => []TypeOK
<1>1. IInv => TypeOK
    BY DEF IInv
<1> QED BY <1>1, Invariance, PTL

\* Whatever is lost, interleaved or restarted, every transaction node 0
\* broadcasts pays out exactly the onions whose coins it spends.
THEOREM NobodyLosesACoin == Spec => []CoinsPreserved
<1>1. IInv => CoinsPreserved
    BY DEF IInv
<1> QED BY <1>1, Invariance, PTL

KeepsAcked ==
    \A o \in Onion : fate[o] = "acked" /\ o \in db /\ o \notin db' =>
        \/ Spends[o] \notin unspent
        \/ \E tx \in sent' : Spends[o] \in CoinsOf(tx.inputs)
        \/ fate'[o] = "void"

LEMMA KeepsAckedStep == IInv /\ [Next]_vars => [KeepsAcked]_vars
<1> SUFFICES ASSUME IInv, Next PROVE KeepsAcked
    OBVIOUS
<1>1. ASSUME NEW o \in Onion, Swap(o) \/ SubmitRoute(o) PROVE KeepsAcked
    BY <1>1, QueueStep DEF KeepsAcked
<1>2. CASE RunBatch \/ Midnight
    BY <1>2, BatchStep DEF KeepsAcked, Valid, IInv
<1>3. ASSUME NEW c \in calls, Forward(c) \/ Backward(c) PROVE KeepsAcked
    BY <1>3, DeliveryStep DEF KeepsAcked, Kept, IInv
<1>4. CASE UNCHANGED db
    BY <1>4 DEF KeepsAcked
<1>5. \/ \E o \in Onion : Swap(o) \/ SubmitRoute(o)
      \/ RunBatch \/ Midnight
      \/ \E c \in calls : Forward(c) \/ Backward(c)
      \/ UNCHANGED db
    BY DEF Next, Lose, Crash, Confirm, SpendElsewhere
<1> QED BY <1>1, <1>2, <1>3, <1>4, <1>5

\* Node 0 gives up an acknowledged onion only for a broadcast transaction, a
\* coin that is gone, or a newer onion.
THEOREM QueueIsKept == Spec => KeptUntilBroadcast
<1>1. IInv /\ [Next]_vars => [KeepsAcked]_vars
    BY KeepsAckedStep
<1>2. [][KeepsAcked]_vars => KeptUntilBroadcast
    BY PTL DEF KeptUntilBroadcast, KeepsAcked
<1> QED BY <1>1, <1>2, Invariance, PTL DEF Spec

-----------------------------------------------------------------------------
(* One value per transaction.                                              *)

\* An onion accepted with its amount, whose coin was not broadcast.
Vouched(o) == o \in Routed /\ fate[o] = "acked" /\ ~WasBroadcast(Spends[o])

Uniform(S) == (\E o \in S : Vouched(o)) => \A o, x \in S : Value[Spends[o]] = Value[Spends[x]]

\* The amount of a vouched onion stays recorded while it is queued, so the
\* test at the start of a round sees it; and an onion not yet submitted is
\* nowhere, so a round's onions are not vouched for later.
AmountsInv ==
    /\ \A k \in Coin : amounts[k] \in {0, Value[k]}
    /\ \A o \in db : Vouched(o) => amounts[Spends[o]] # 0
    /\ \A o \in Routed : fate[o] = "fresh" => o \notin db /\ \A c \in calls : o \notin c.onions
    /\ \A c \in calls : Uniform(c.onions)

DInv == IInv /\ AmountsInv

\* Onions of a round are vouched for no longer than they were at its start.
LEMMA UniformStays ==
    ASSUME NEW S, NEW T \in SUBSET S, Uniform(S), sent \subseteq sent',
           \A o \in T \cap Routed : fate'[o] = "acked" => fate[o] = "acked"
    PROVE  Uniform(T)'
BY DEF Uniform, Vouched, WasBroadcast

\* The messages of a node's step.
LEMMA SendCalls ==
    ASSUME NEW inflight, NEW kind, NEW to, NEW S, NEW outs, NEW kernels,
           Send(inflight, kind, to, S, outs, kernels)
    PROVE  \A d \in calls' : d \in inflight \/ d.onions = S
BY DEF Send, Message

\* What a node's step with the onions of S does to calls, transactions and queue.
Passed(S, inflight) ==
    /\ \A d \in calls' : d \in inflight \/ d.onions \subseteq S
    /\ sent \subseteq sent' /\ \A tx \in sent' \ sent : tx.inputs \subseteq S
    /\ db' \subseteq db
    /\ \A k \in Coin : amounts'[k] = amounts[k] \/ (amounts'[k] = 0 /\ WasBroadcast(k)')

LEMMA FinalizePassed ==
    ASSUME TypeOK, NEW S \in SUBSET Onion, Finalize(S, S), NEW inflight, calls' = inflight
    PROVE  Passed(S, inflight)
<1>1. CASE UNCHANGED <<db, amounts, sent>>
  BY <1>1 DEF Passed
<1>2. CASE /\ sent' = sent \cup {[inputs |-> S, outputs |-> S]}
           /\ \E D \in SUBSET S, B \in SUBSET S :
                /\ db' = WithoutCoins(CoinsOf(D))
                /\ amounts' = AmountsWithout(CoinsOf(D \cup B))
  <2>1. PICK D \in SUBSET S, B \in SUBSET S :
                /\ db' = WithoutCoins(CoinsOf(D))
                /\ amounts' = AmountsWithout(CoinsOf(D \cup B))
    BY <1>2
  <2>2. ASSUME NEW k \in Coin, amounts'[k] # amounts[k]
        PROVE  amounts'[k] = 0 /\ WasBroadcast(k)'
    <3>1. k \in CoinsOf(D \cup B) /\ amounts'[k] = 0
      BY <2>1, <2>2 DEF AmountsWithout
    <3>2. k \in CoinsOf(S) /\ [inputs |-> S, outputs |-> S] \in sent'
      BY <1>2, <3>1 DEF CoinsOf
    <3> QED
      BY <3>1, <3>2 DEF WasBroadcast
  <2>3. db' \subseteq db
    BY <2>1 DEF WithoutCoins
  <2> QED
    BY <1>2, <2>2, <2>3 DEF Passed
<1> QED
  BY <1>1, <1>2 DEF Finalize

LEMMA BackwardPassed ==
    ASSUME TypeOK, NEW i, NEW S \in SUBSET Onion, NEW inflight, NEW outs, outs = S, NEW kernels,
           BackwardFrom(i, S, inflight, outs, kernels)
    PROVE  Passed(S, inflight)
<1>1. CASE UNCHANGED <<db, amounts, sent>> /\ calls' = inflight
  BY <1>1 DEF Passed
<1>2. CASE /\ UNCHANGED <<db, amounts, sent>>
           /\ Send(inflight, "swap_backward", i - 1, S, outs, [kernels EXCEPT ![i] = S])
  <2>1. \A d \in calls' : d \in inflight \/ d.onions = S
    BY <1>2, SendCalls
  <2> QED
    BY <1>2, <2>1 DEF Passed
<1>3. CASE calls' = inflight /\ Finalize(S, outs)
  BY <1>3, FinalizePassed
<1> QED
  BY <1>1, <1>2, <1>3 DEF BackwardFrom

LEMMA DeliveryPassed ==
    ASSUME TypeOK, NEW c \in calls, Forward(c) \/ Backward(c)
    PROVE  Passed(c.onions, calls)
<1>0. c.onions \in SUBSET Onion
  BY CallTyped
<1>1. CASE Forward(c)
  <2> DEFINE P == Peeled(c.to, c.onions)
  <2>1. P \subseteq c.onions
    BY DEF Peeled
  <2>2. CASE c.to = Last
    <3>1. BackwardFrom(c.to, P, calls \ {c}, P, NoKernels)
      BY <1>1, <2>2 DEF Forward, ForwardFrom
    <3> HIDE DEF P
    <3>2. Passed(P, calls \ {c})
      BY <1>0, <2>1, <3>1, BackwardPassed
    <3> QED
      BY <2>1, <3>2 DEF Passed
  <2>3. CASE c.to # Last
    <3>1. /\ Send(calls \ {c}, "swap_forward", c.to + 1, P, {}, NoKernels)
          /\ UNCHANGED <<db, amounts, sent>>
      BY <1>1, <2>3 DEF Forward, ForwardFrom
    <3> HIDE DEF P
    <3>2. \A d \in calls' : d \in calls \ {c} \/ d.onions = P
      BY <3>1, SendCalls
    <3> QED
      BY <2>1, <3>1, <3>2 DEF Passed
  <2> QED
    BY <2>2, <2>3
<1>2. CASE Backward(c)
  <2> DEFINE S == onions[c.to] \cap c.onions
  <2>1. CASE Balanced(c.to, S, c)
    <3>1. BackwardFrom(c.to, S, calls \ {c}, c.outputs, c.kernels) /\ c.outputs = S
      BY <1>2, <2>1 DEF Backward, Balanced
    <3>2. S \in SUBSET Onion /\ S \subseteq c.onions
      BY <1>0
    <3> HIDE DEF S
    <3>3. Passed(S, calls \ {c})
      BY <3>1, <3>2, BackwardPassed
    <3> QED
      BY <3>2, <3>3 DEF Passed
  <2>2. CASE ~Balanced(c.to, S, c)
    BY <1>2, <2>2 DEF Backward, Passed
  <2> QED
    BY <2>1, <2>2
<1> QED
  BY <1>1, <1>2

LEMMA PassedInv ==
    ASSUME DInv, NEW c \in calls, Forward(c) \/ Backward(c)
    PROVE  AmountsInv'
<1>1. Passed(c.onions, calls) /\ UNCHANGED fate
  BY DeliveryPassed DEF DInv, IInv, Forward, Backward
<1>2. \A o : Vouched(o)' => Vouched(o)
  BY <1>1 DEF Passed, Vouched, WasBroadcast
<1>3. \A k \in Coin : amounts'[k] \in {0, Value[k]}
  BY <1>1 DEF Passed, DInv, AmountsInv
<1>4. ASSUME NEW o \in db', Vouched(o)' PROVE amounts'[Spends[o]] # 0
  <2>1. o \in db /\ Vouched(o) /\ Spends[o] \in Coin /\ ~WasBroadcast(Spends[o])'
    BY <1>1, <1>2, <1>4, CoinSwapAssumption DEF Passed, DInv, IInv, TypeOK, Vouched
  <2> QED
    BY <1>1, <2>1 DEF Passed, DInv, AmountsInv
<1>5. ASSUME NEW d \in calls' PROVE Uniform(d.onions)'
  <2>1. PICK e \in calls : d.onions \subseteq e.onions
    BY <1>1 DEF Passed
  <2> QED
    BY <1>1, <2>1, UniformStays DEF Passed, DInv, AmountsInv
<1>6. \A o \in Routed : fate'[o] = "fresh" => o \notin db' /\ \A d \in calls' : o \notin d.onions
  BY <1>1 DEF Passed, DInv, AmountsInv
<1> QED
  BY <1>3, <1>4, <1>5, <1>6 DEF AmountsInv

\* The test of the denominations at the start of a round.
LEMMA RoundDenomination ==
    ASSUME DInv, NEW kept, StartRound \/ RefuseRound(kept), UNCHANGED <<sent, fate>>
    PROVE  AmountsInv'
<1>1. /\ db' = Valid /\ amounts' = AmountsWithout(CoinsOf(db \ Valid)) /\ Valid \subseteq db
      /\ db \subseteq Onion
  BY DEF StartRound, RefuseRound, Valid, DInv, IInv, TypeOK
<1>2. \A o : Vouched(o)' <=> Vouched(o)
  BY DEF Vouched, WasBroadcast
<1>3. \A o \in Valid : Spends[o] \in Coin /\ amounts'[Spends[o]] = amounts[Spends[o]]
  BY <1>1, CoinSwapAssumption DEF AmountsWithout, CoinsOf, Valid
<1>4. \A k \in Coin : amounts'[k] \in {0, Value[k]}
  BY <1>1 DEF AmountsWithout, DInv, AmountsInv
<1>5. \A o \in db' : Vouched(o)' => amounts'[Spends[o]] # 0
  BY <1>1, <1>2, <1>3 DEF DInv, AmountsInv
<1>6. \A d \in calls' : d \in calls \/ (StartRound /\ d.onions = Peeled(0, Valid))
  <2>1. CASE StartRound
    <3> DEFINE P == Peeled(0, Valid)
    <3>1. Send(calls, "swap_forward", 1, P, {}, NoKernels)
      BY <2>1 DEF StartRound
    <3> HIDE DEF P
    <3>2. \A d \in calls' : d \in calls \/ d.onions = P
      BY <3>1, SendCalls
    <3> QED
      BY <2>1, <3>2 DEF P
  <2> QED
    BY <2>1 DEF RefuseRound
<1>7. ASSUME StartRound, NEW o \in Valid, Vouched(o)
      PROVE  \A x, y \in Valid : Value[Spends[x]] = Value[Spends[y]]
  <2>1. amounts[Spends[o]] # 0
    BY <1>1, <1>7 DEF DInv, AmountsInv
  <2>2. /\ \A x \in Valid : amounts[Spends[x]] # 0
        /\ \A x, y \in Valid : amounts[Spends[x]] = amounts[Spends[y]]
    BY <1>7, <2>1 DEF StartRound, SameDenomination
  <2>3. \A x \in Valid : amounts[Spends[x]] = Value[Spends[x]]
    BY <1>3, <2>2 DEF DInv, AmountsInv
  <2> QED
    BY <2>2, <2>3
<1>8. ASSUME NEW d \in calls' PROVE Uniform(d.onions)'
  <2>1. CASE d \in calls
    BY <2>1, UniformStays DEF DInv, AmountsInv
  <2>2. CASE StartRound /\ d.onions = Peeled(0, Valid)
    BY <1>2, <1>7, <2>2 DEF Uniform, Peeled
  <2> QED
    BY <1>6, <1>8, <2>1, <2>2
<1>9. \A o \in Routed : fate'[o] = "fresh" => o \notin db' /\ \A d \in calls' : o \notin d.onions
  BY <1>1, <1>6 DEF Peeled, DInv, AmountsInv
<1> QED
  BY <1>4, <1>5, <1>8, <1>9 DEF AmountsInv

\* Submitting records the amount together with the promise.
LEMMA QueueAmounts ==
    ASSUME DInv, NEW o \in Onion, Swap(o) \/ SubmitRoute(o)
    PROVE  AmountsInv'
<1>0. /\ db \subseteq Onion /\ amounts \in [Coin -> Nat] /\ Spends[o] \in Coin
      /\ fate \in [Onion -> {"fresh", "acked", "void"}]
      /\ \A k \in Coin : Value[k] \in Nat \ {0}
      /\ \A x \in Onion : Spends[x] \in Coin
  BY CoinSwapAssumption DEF DInv, IInv, TypeOK
<1>1. /\ UNCHANGED <<sent, calls>> /\ db' \subseteq Saved(o)
      /\ \A x \in Onion : x # o => fate'[x] \in {fate[x], "void"}
      /\ fate'[o] # "fresh"
  BY <1>0 DEF Swap, SubmitRoute, Answered
<1>2. \A x \in Onion : x # o /\ Vouched(x)' => Vouched(x)
  BY <1>0, <1>1 DEF Vouched, WasBroadcast
<1>3. ASSUME NEW k \in Coin
      PROVE  /\ amounts'[k] \in {0, Value[k]}
             /\ k # Spends[o] => amounts'[k] = amounts[k]
  BY <1>0 DEF Swap, SubmitRoute, DInv, AmountsInv
<1>4. Vouched(o)' => amounts'[Spends[o]] # 0
  <2>1. CASE Swap(o)
    BY <2>1 DEF Swap, Vouched
  <2>2. CASE SubmitRoute(o)
    <3>1. CASE fate'[o] = "void"
      BY <3>1 DEF Vouched
    <3>2. CASE amounts' = [amounts EXCEPT ![Spends[o]] = Value[Spends[o]]]
      BY <1>0, <3>2
    <3> QED
      BY <1>0, <2>2, <3>1, <3>2 DEF SubmitRoute, Answered
  <2> QED
    BY <2>1, <2>2
<1>5. ASSUME NEW x \in db', Vouched(x)' PROVE amounts'[Spends[x]] # 0
  <2>1. CASE x = o
    BY <1>4, <1>5, <2>1
  <2>2. CASE x # o
    <3>1. x \in db /\ Spends[x] # Spends[o] /\ x \in Onion
      BY <1>0, <1>1, <1>5, <2>2 DEF Saved
    <3> QED
      BY <1>0, <1>2, <1>3, <1>5, <2>2, <3>1 DEF DInv, AmountsInv
  <2> QED
    BY <2>1, <2>2
<1>6. ASSUME NEW c \in calls' PROVE Uniform(c.onions)'
  <2>1. c \in calls /\ c.onions \subseteq Onion
    BY <1>1, <1>6, CallTyped DEF DInv, IInv
  <2>2. \A x \in c.onions \cap Routed : fate'[x] = "acked" => fate[x] = "acked"
    <3>1. CASE Swap(o)
      BY <1>0, <1>1, <2>1, <3>1 DEF Swap
    <3>2. CASE SubmitRoute(o)
      BY <1>0, <1>1, <2>1, <3>2 DEF SubmitRoute, DInv, AmountsInv
    <3> QED
      BY <3>1, <3>2
  <2> QED
    BY <1>1, <2>1, <2>2, UniformStays DEF DInv, AmountsInv
<1>7. \A x \in Routed : fate'[x] = "fresh" => x \notin db' /\ \A c \in calls' : x \notin c.onions
  BY <1>0, <1>1, CoinSwapAssumption DEF DInv, AmountsInv, Saved
<1> QED
  BY <1>3, <1>5, <1>6, <1>7 DEF AmountsInv

LEMMA DenominationStep == DInv /\ [Next]_vars => DInv'
<1> SUFFICES ASSUME DInv, [Next]_vars PROVE AmountsInv'
  BY Inductive DEF DInv
<1>1. ASSUME NEW o \in Onion, Swap(o) \/ SubmitRoute(o) PROVE AmountsInv'
  BY <1>1, QueueAmounts
<1>2. CASE RunBatch \/ Midnight
  <2>1. UNCHANGED <<sent, fate>> /\ \E kept : StartRound \/ RefuseRound(kept)
    BY <1>2 DEF RunBatch, Midnight
  <2> QED
    BY <2>1, RoundDenomination
<1>3. ASSUME NEW c \in calls, Forward(c) \/ Backward(c) PROVE AmountsInv'
  BY <1>3, PassedInv
<1>4. CASE calls' \subseteq calls /\ UNCHANGED <<db, amounts, sent, fate>>
  BY <1>4 DEF DInv, AmountsInv, Uniform, Vouched, WasBroadcast
<1> QED
  BY <1>1, <1>2, <1>3, <1>4 DEF Next, Lose, Crash, Confirm, SpendElsewhere, vars

\* A transaction that contains an onion accepted with its amount mixes coins
\* of one value only (requireSameDenomination), although the amounts live in a
\* bucket of their own, written and deleted beside the onions.
THEOREM BatchesAreUniform == Spec => OneDenomination
<1> DEFINE D == \A tx \in sent' \ sent :
                  (\E o \in tx.inputs \cap Routed : fate[o] = "acked" /\ ~WasBroadcast(Spends[o])) =>
                     \A o, x \in tx.inputs : Value[Spends[o]] = Value[Spends[x]]
<1>1. Init => DInv
  <2> SUFFICES ASSUME Init PROVE AmountsInv
    BY Initially DEF DInv
  <2> QED
    BY DEF Init, AmountsInv
<1>2. ASSUME DInv, [Next]_vars PROVE D
  <2>1. ASSUME NEW c \in calls, Forward(c) \/ Backward(c), NEW tx \in sent' \ sent
        PROVE  Uniform(tx.inputs)
    <3>1. tx.inputs \subseteq c.onions /\ Uniform(c.onions)
      BY <1>2, <2>1, DeliveryPassed DEF Passed, DInv, IInv, AmountsInv
    <3> QED
      BY <3>1 DEF Uniform
  <2>2. CASE UNCHANGED sent
    BY <2>2
  <2>3. CASE \E c \in calls : Forward(c) \/ Backward(c)
    BY <2>1, <2>3 DEF Uniform, Vouched
  <2> QED
    BY <1>2, <2>2, <2>3 DEF Next, Swap, SubmitRoute, RunBatch, Midnight, Lose, Crash, Confirm, SpendElsewhere, vars
<1>3. DInv /\ [Next]_vars => [D]_vars
  BY <1>2
<1> QED
  BY <1>1, <1>3, DenominationStep, PTL DEF Spec, OneDenomination
=============================================================================
