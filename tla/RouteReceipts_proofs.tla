------------------------ MODULE RouteReceipts_proofs ------------------------
(***************************************************************************)
(* Proofs about RouteReceipts for any number of submissions and makers:    *)
(* receipts tell of calls that failed, the vault's rows are final, and     *)
(* orderly submissions accuse the maker that was called.                   *)
(***************************************************************************)
EXTENDS RouteReceipts, TLAPS

\* Two receipts in the vault have two swap ids (the unique index on swap_id).
RowPerSwap == \A r, q \in rows : r.swap = q.swap => r = q

\* What a failure puts into the slot is typed, and tells of the call.
LEMMA RecordFailureFacts ==
    ASSUME TypeOK, NEW c \in Call, RecordFailure(c)
    PROVE  /\ failed' \subseteq Call /\ failed \subseteq failed' /\ c \in failed'
           /\ receipt' \in Receipt \cup {NoReceipt}
           /\ \/ receipt' = receipt
              \/ receipt' = ReceiptOf(c) /\ c.operator # NoMaker
  BY DEF RecordFailure, ReceiptOf, TypeOK, Call, Receipt

\* The batch that forward() sends is a call, if a route is known.
LEMMA BatchIsCall ==
    ASSUME TypeOK, peer # NoMaker
    PROVE  Batch \in Call
  BY DEF TypeOK, Batch, Call

\* SendBatch adds at most the batch.
LEMMA SendBatchFacts ==
    ASSUME TypeOK, SendBatch
    PROVE  /\ calls' \subseteq Call
           /\ \A c \in calls' : c \in calls \/ (c = Batch /\ peer # NoMaker)
  BY BatchIsCall DEF SendBatch, TypeOK

\* Every variable keeps its type in every reachable state.
THEOREM TypeCorrect == Spec => []TypeOK
<1>1. Init => TypeOK
  BY RouteAssumption DEF Init, TypeOK, Step
<1>2. TypeOK /\ [Next]_vars => TypeOK'
  <2> SUFFICES ASSUME TypeOK, [Next]_vars PROVE TypeOK'
    OBVIOUS
  <2>1. ASSUME NEW s \in Submission, SetOperators(s) PROVE TypeOK'
    BY <2>1, RouteAssumption DEF SetOperators, Moves, TypeOK, Step, Disturbs
  <2>2. ASSUME NEW s \in Submission, SetRouteMeta(s) PROVE TypeOK'
    BY <2>2 DEF SetRouteMeta, Moves, TypeOK, Step
  <2>3. ASSUME NEW s \in Submission, RefuseRoute(s) PROVE TypeOK'
    BY <2>3 DEF RefuseRoute, Moves, TypeOK, Step, service, Disturbs
  <2>4. ASSUME NEW s \in Submission, AcceptRoute(s) PROVE TypeOK'
    BY <2>4, RouteAssumption DEF AcceptRoute, Moves, TypeOK, Step, Onion
  <2>5. ASSUME NEW s \in Submission, TriggerBatch(s) PROVE TypeOK'
    <3>1. step' \in [Submission -> Step]
      BY <2>5 DEF TriggerBatch, Moves, TypeOK, Step
    <3>2. CASE SendBatch /\ UNCHANGED <<receipt, failed>>
      BY <2>5, <3>1, <3>2, SendBatchFacts DEF TriggerBatch, TypeOK, Disturbs
    <3>3. CASE peer # NoMaker /\ RecordFailure(Batch) /\ UNCHANGED calls
      BY <2>5, <3>1, <3>3, BatchIsCall, RecordFailureFacts DEF TriggerBatch, TypeOK, Disturbs
    <3>4. CASE UNCHANGED <<calls, receipt, failed>>
      BY <2>5, <3>1, <3>4 DEF TriggerBatch, TypeOK, Disturbs
    <3> QED
      BY <2>5, <3>2, <3>3, <3>4 DEF TriggerBatch
  <2>6. ASSUME NEW s \in Submission, Poll(s) PROVE TypeOK'
    <3>1. receipt \in Receipt
      BY <2>6 DEF Poll, TypeOK
    <3> QED
      BY <2>6, <3>1 DEF Poll, SaveReceipt, Moves, TypeOK, Step, service
  <2>7. ASSUME NEW s \in Submission, GiveUp(s) PROVE TypeOK'
    BY <2>7 DEF GiveUp, Moves, TypeOK, Step, service
  <2>8. ASSUME NEW v \in Vanilla, Swap(v) PROVE TypeOK'
    BY <2>8 DEF Swap, TypeOK, Onion
  <2>9. ASSUME NEW o \in queue, LeaveQueue(o) PROVE TypeOK'
    BY <2>9 DEF LeaveQueue, TypeOK
  <2>10. ASSUME NEW c \in calls, CallSucceeds(c) PROVE TypeOK'
    BY <2>10 DEF CallSucceeds, TypeOK
  <2>11. ASSUME NEW c \in calls, CallFails(c) PROVE TypeOK'
    <3>1. c \in Call
      BY DEF TypeOK
    <3> QED
      BY <2>11, <3>1, RecordFailureFacts DEF CallFails, TypeOK
  <2>12. CASE Midnight
    BY <2>12, SendBatchFacts DEF Midnight, TypeOK, Disturbs
  <2>13. CASE Restart
    BY <2>13, RouteAssumption DEF Restart, TypeOK, Step
  <2>14. CASE UNCHANGED vars
    BY <2>14 DEF vars, TypeOK
  <2> QED
    BY <2>1, <2>2, <2>3, <2>4, <2>5, <2>6, <2>7, <2>8, <2>9, <2>10, <2>11,
       <2>12, <2>13, <2>14 DEF Next
<1> QED
  BY <1>1, <1>2, PTL DEF Spec

-----------------------------------------------------------------------------

\* How a step changes what can be read of receipts: the slot is emptied, kept
\* or given the receipt of a call of the service, and the vault grows by the
\* slot's receipt or not at all.
LEMMA ReceiptSteps ==
    ASSUME TypeOK, [Next]_vars
    PROVE  /\ failed \subseteq failed'
           /\ \/ receipt' \in {receipt, NoReceipt}
              \/ \E c \in failed' : /\ receipt' = ReceiptOf(c) /\ c.operator # NoMaker
                                    /\ c \in calls \/ (c = Batch /\ (~disorder' => NobodySubmits))
           /\ rows' = rows \/ (receipt # NoReceipt /\ SaveReceipt(receipt))
<1>1. ASSUME NEW c \in calls, CallFails(c)
      PROVE  /\ failed \subseteq failed' /\ c \in failed' /\ rows' = rows
             /\ receipt' = receipt \/ (receipt' = ReceiptOf(c) /\ c.operator # NoMaker)
  BY <1>1, RecordFailureFacts DEF CallFails, TypeOK
<1>2. ASSUME NEW s \in Submission, TriggerBatch(s)
      PROVE  /\ failed \subseteq failed' /\ rows' = rows /\ (~disorder' => NobodySubmits)
             /\ \/ receipt' = receipt
                \/ receipt' = ReceiptOf(Batch) /\ Batch.operator # NoMaker /\ Batch \in failed'
  BY <1>2, BatchIsCall, RecordFailureFacts DEF TriggerBatch, Disturbs
<1>3. ASSUME NEW s \in Submission, Poll(s)
      PROVE  failed' = failed /\ receipt' = receipt /\ receipt # NoReceipt /\ SaveReceipt(receipt)
  BY <1>3 DEF Poll, service
<1>4. CASE Restart
  BY <1>4 DEF Restart
<1>5. CASE UNCHANGED <<failed, receipt, rows>>
  BY <1>5
<1> QED
  BY <1>1, <1>2, <1>3, <1>4, <1>5 DEF Next, vars, service, SetOperators, SetRouteMeta,
     RefuseRoute, AcceptRoute, GiveUp, Swap, LeaveQueue, CallSucceeds, Midnight

\* Every receipt in the slot or in the vault tells of a call that failed, with
\* the route that call was sent under.
THEOREM ReceiptsTellOfFailures == Spec => []ReceiptsAreFailures
<1>1. Init => ReceiptsAreFailures
  BY DEF Init, ReceiptsAreFailures, Receipts
<1>2. TypeOK /\ ReceiptsAreFailures /\ [Next]_vars => ReceiptsAreFailures'
  <2> SUFFICES ASSUME TypeOK, ReceiptsAreFailures, [Next]_vars, NEW r \in Receipts'
               PROVE  \E c \in failed' : /\ r.swap = c.swap /\ r.accused = c.operator
                                         /\ r.nextHop = c.to /\ r.onions = c.onions
    BY DEF ReceiptsAreFailures
  <2>1. failed \subseteq failed'
    BY ReceiptSteps
  <2>2. CASE r \in Receipts
    BY <2>1, <2>2 DEF ReceiptsAreFailures
  <2>3. CASE r \notin Receipts
    <3>1. r = receipt' /\ \E c \in failed' : receipt' = ReceiptOf(c)
      BY <2>3, ReceiptSteps DEF Receipts, SaveReceipt
    <3> QED
      BY <3>1 DEF ReceiptOf
  <2> QED
    BY <2>2, <2>3
<1> QED
  BY <1>1, <1>2, TypeCorrect, PTL DEF Spec

\* The vault never changes or loses a receipt, and a swap id never names two.
THEOREM RowsAreFinal == Spec => FiledOnce
<1>1. Init => RowPerSwap
  BY DEF Init, RowPerSwap
<1>2. TypeOK /\ RowPerSwap /\ [Next]_vars => RowPerSwap' /\ rows \subseteq rows'
  BY ReceiptSteps DEF RowPerSwap, SaveReceipt
<1>3. RowPerSwap' => \A r, q \in rows' : r.swap = q.swap => r = q
  BY DEF RowPerSwap
<1> QED
  BY <1>1, <1>2, <1>3, TypeCorrect, PTL DEF Spec, FiledOnce

-----------------------------------------------------------------------------

\* At most one submission is under way, and the operators stored are those of
\* its route, or else those of the pinned peers; calls copied them like that.
Aligned ==
    /\ \A s, x \in Submission : Submitting(s) /\ Submitting(x) => s = x
    /\ \A s \in Submission : Submitting(s) => operator \in {SecondHop[s], NoMaker}
    /\ NobodySubmits => operator \in {peer, NoMaker}
    /\ \A c \in calls : c.operator \in {c.to, NoMaker}

\* A submission that moves on changes nothing for the others.
LEMMA MovesOne ==
    ASSUME TypeOK, NEW s \in Submission, NEW to \in Step, Moves(s, to)
    PROVE  /\ \A x \in Submission \ {s} : Submitting(x)' = Submitting(x)
           /\ Submitting(s)' = (to \in {"operators", "metadata"})
  BY DEF Moves, Submitting, TypeOK

\* Disorder is remembered.
LEMMA DisorderStays ==
    ASSUME [Next]_vars, disorder
    PROVE  disorder'
  BY DEF Next, vars, SetOperators, SetRouteMeta, RefuseRoute, AcceptRoute, TriggerBatch,
     Poll, GiveUp, Swap, LeaveQueue, CallSucceeds, CallFails, Midnight, Restart, Disturbs

\* An orderly step keeps operators and peers aligned.
LEMMA AlignedStep ==
    ASSUME TypeOK, Aligned, [Next]_vars, ~disorder'
    PROVE  Aligned'
<1> USE DEF Aligned, NobodySubmits
<1>1. ASSUME NEW s \in Submission, SetOperators(s) PROVE Aligned'
  <2>1. /\ \A x \in Submission : Submitting(x)' => x = s
        /\ Submitting(s)'
    BY <1>1, MovesOne DEF SetOperators, Step, Disturbs
  <2> QED
    BY <1>1, <2>1 DEF SetOperators
<1>2. ASSUME NEW s \in Submission, SetRouteMeta(s) PROVE Aligned'
  <2>1. Submitting(s) /\ \A x \in Submission : Submitting(x)' <=> Submitting(x)
    BY <1>2, MovesOne DEF SetRouteMeta, Step, Submitting
  <2> QED
    BY <1>2, <2>1 DEF SetRouteMeta
<1>3. ASSUME NEW s \in Submission, AcceptRoute(s) PROVE Aligned'
  <2>1. Submitting(s)
    BY <1>3 DEF AcceptRoute, Submitting
  <2>2. \A x \in Submission : ~Submitting(x)'
    BY <1>3, <2>1, MovesOne DEF AcceptRoute, Step
  <2> QED
    BY <1>3, <2>1, <2>2 DEF AcceptRoute
<1>4. ASSUME NEW s \in Submission, TriggerBatch(s) PROVE Aligned'
  <2>1. NobodySubmits /\ \A x \in Submission : ~Submitting(x)'
    BY <1>4, MovesOne DEF TriggerBatch, Step, Disturbs
  <2>2. \A c \in calls' : c \in calls \/ c = Batch
    BY <1>4, SendBatchFacts DEF TriggerBatch
  <2> QED
    BY <1>4, <2>1, <2>2 DEF TriggerBatch, Batch
<1>5. ASSUME NEW s \in Submission, Poll(s) \/ GiveUp(s) PROVE Aligned'
  <2>1. \A x \in Submission : Submitting(x)' = Submitting(x)
    BY <1>5, MovesOne DEF Poll, GiveUp, Step, Submitting
  <2> QED
    BY <1>5, <2>1 DEF Poll, GiveUp, service
<1>6. ASSUME NEW v \in Vanilla, Swap(v) PROVE Aligned'
  BY <1>6 DEF Swap, Submitting
<1>7. ASSUME NEW o \in queue, LeaveQueue(o) PROVE Aligned'
  BY <1>7 DEF LeaveQueue, Submitting
<1>8. ASSUME NEW c \in calls, CallSucceeds(c) \/ CallFails(c) PROVE Aligned'
  BY <1>8 DEF CallSucceeds, CallFails, Submitting
<1>9. CASE Midnight
  <2>1. NobodySubmits /\ \A x \in Submission : ~Submitting(x)'
    BY <1>9 DEF Midnight, Submitting, Disturbs
  <2>2. \A c \in calls' : c \in calls \/ c = Batch
    BY <1>9, SendBatchFacts DEF Midnight
  <2> QED
    BY <1>9, <2>1, <2>2 DEF Midnight, Batch
<1>10. CASE Restart
  <2>1. \A x \in Submission : ~Submitting(x)'
    BY <1>10 DEF Restart, Submitting
  <2> QED
    BY <1>10, <2>1 DEF Restart
<1>11. ASSUME NEW s \in Submission, RefuseRoute(s) PROVE Aligned'
  <2>1. Submitting(s) /\ operator \in {NoMaker, peer}
    BY <1>11 DEF RefuseRoute, Submitting, Disturbs
  <2>2. \A x \in Submission : ~Submitting(x)'
    BY <1>11, <2>1, MovesOne DEF RefuseRoute, Step
  <2> QED
    BY <1>11, <2>1, <2>2 DEF RefuseRoute, service
<1>12. CASE UNCHANGED vars
  BY <1>12 DEF vars, Submitting
<1> QED
  BY <1>1, <1>2, <1>3, <1>4, <1>5, <1>6, <1>7, <1>8, <1>9, <1>10, <1>11, <1>12
     DEF Next

\* As long as submissions are orderly, every receipt accuses the operator of
\* the very maker whose call failed.
THEOREM OrderlyAccusesTheCalled == Spec => []OrderlyFault
<1> DEFINE Inv == ~disorder => Aligned /\ FaultOfTheDownstream
<1>1. Init => Inv
  BY DEF Init, Aligned, Submitting, NobodySubmits, FaultOfTheDownstream, Receipts
<1>2. TypeOK /\ Inv /\ [Next]_vars => Inv'
  <2> SUFFICES ASSUME TypeOK, Aligned, FaultOfTheDownstream, [Next]_vars, ~disorder'
               PROVE  FaultOfTheDownstream'
    BY AlignedStep, DisorderStays
  <2>1. Receipts' \subseteq Receipts \cup {receipt'}
    BY ReceiptSteps DEF Receipts, SaveReceipt
  <2>2. ASSUME NEW c \in failed', receipt' = ReceiptOf(c), c.operator # NoMaker,
               c \in calls \/ (c = Batch /\ NobodySubmits)
        PROVE  receipt'.accused = receipt'.nextHop
    BY <2>2 DEF ReceiptOf, Aligned, Batch
  <2>3. receipt' \in Receipts \cup {NoReceipt} \/ receipt'.accused = receipt'.nextHop
    BY <2>2, ReceiptSteps DEF Receipts
  <2>4. receipt' = NoReceipt => Receipts' \subseteq Receipts
    BY ReceiptSteps DEF Receipts, SaveReceipt
  <2> QED
    BY <2>1, <2>3, <2>4 DEF FaultOfTheDownstream
<1>3. Inv => OrderlyFault
  BY DEF OrderlyFault
<1> QED
  BY <1>1, <1>2, <1>3, TypeCorrect, PTL DEF Spec
=============================================================================
