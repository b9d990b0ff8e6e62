---------------------------- MODULE RouteReceipts ----------------------------
(***************************************************************************)
(* research/coinswapd at node 0, mln-cli forger and receiptstore: which    *)
(* maker a failed swap_forward accuses, and what reaches the taker's vault.*)
(*                                                                         *)
(* mweb_submitRoute stores the operators of a route, then its LitVM        *)
(* metadata, then builds the onion, then pins the peers and queues: each   *)
(* step locks the service anew.  Whatever is stored when a batch starts is *)
(* what its receipt will say.                                              *)
(*                                                                         *)
(* Node 0 calls only the second hop of a route, so a route is that maker:  *)
(* the same name stands for its node (URL and swap key) and its operator.  *)
(* CoinSwap models the queue and the rounds in full; here onions enter and *)
(* leave a set.                                                            *)
(***************************************************************************)
EXTENDS Naturals, FiniteSets

CONSTANTS
    Submission,   \* runs of the forger; each has an onion and a swap id of its own
    Traced,       \* submissions with epochId, accuser and swapId
    SecondHop,    \* the maker after node 0 on a submission's route
    Vanilla,      \* onions that come by swap_swap
    Maker, NoMaker, NoSwap, NoReceipt,
    Directory,    \* the maker after node 0 before any route, or NoMaker
    MaxCalls,     \* bound: swap_forward calls under way
    MaxFailures   \* bound: different calls that fail

ASSUME RouteAssumption ==
    /\ Traced \subseteq Submission
    /\ SecondHop \in [Submission -> Maker]
    /\ Directory \in Maker \cup {NoMaker}
    /\ NoMaker \notin Maker /\ NoSwap \notin Submission

VARIABLES
    peer,         \* mlnPeers, or the configured nodes: the maker node 0 calls
    operator,     \* mlnPeerOperators: that maker's operator, NoMaker when zero
    swap,         \* mlnSwapID, with mlnEpochID and mlnAccuser: NoSwap when empty
    queue,        \* onions in the database
    calls,        \* swap_forward calls under way, with what forward() copied
    receipt,      \* lastReceiptJSON: one slot
    step,         \* how far each submission and its forger run have come
    rows,         \* hop_receipts in the taker's vault
    failed,       \* history: the calls that failed
    disorder      \* history: submissions overlapped, or a batch fell in the middle
                  \* of one, or one was refused that had stored other operators

vars == <<peer, operator, swap, queue, calls, receipt, step, rows, failed, disorder>>
service == <<peer, operator, swap, queue, calls, receipt, failed>>

Onion == Submission \cup Vanilla
Step == {"idle", "operators", "metadata", "accepted", "polling", "done"}
Call == [to : Maker, operator : Maker \cup {NoMaker},
         swap : Traced \cup {NoSwap}, onions : SUBSET Onion]
Receipt == [swap : Traced, accused : Maker, nextHop : Maker, onions : SUBSET Onion]

TypeOK ==
    /\ peer \in Maker \cup {NoMaker} /\ operator \in Maker \cup {NoMaker}
    /\ swap \in Traced \cup {NoSwap}
    /\ queue \subseteq Onion
    /\ calls \subseteq Call /\ failed \subseteq Call
    /\ receipt \in Receipt \cup {NoReceipt}
    /\ rows \subseteq Receipt
    /\ step \in [Submission -> Step]
    /\ disorder \in BOOLEAN

Init ==
    /\ peer = Directory /\ operator = NoMaker /\ swap = NoSwap
    /\ queue = {} /\ calls = {} /\ receipt = NoReceipt
    /\ step = [s \in Submission |-> "idle"]
    /\ rows = {} /\ failed = {}
    /\ disorder = FALSE

Submitting(s) == step[s] \in {"operators", "metadata"}
NobodySubmits == \A s \in Submission : ~Submitting(s)
Disturbs(it) == disorder' = (disorder \/ it)
Moves(s, to) == step' = [step EXCEPT ![s] = to]

-----------------------------------------------------------------------------
(* mweb_submitRoute, and swap_swap.                                        *)

\* PeerOperatorsFromRequest returns zero addresses without an epochId.
SetOperators(s) ==
    /\ step[s] = "idle"
    /\ Disturbs(~NobodySubmits)
    /\ operator' = IF s \in Traced THEN SecondHop[s] ELSE NoMaker
    /\ Moves(s, "operators")
    /\ UNCHANGED <<peer, swap, queue, calls, receipt, rows, failed>>

SetRouteMeta(s) ==
    /\ step[s] = "operators"
    /\ swap' = IF s \in Traced THEN s ELSE NoSwap
    /\ Moves(s, "metadata")
    /\ UNCHANGED <<peer, operator, queue, calls, receipt, rows, failed, disorder>>

\* No swap key for a hop, no wallet key, no coin of the exact amount, or an
\* onion that cannot be built: an error, and what was stored stays.
RefuseRoute(s) ==
    /\ step[s] = "metadata"
    /\ Moves(s, "done")
    /\ Disturbs(operator \notin {NoMaker, peer})
    /\ UNCHANGED <<service, rows>>

\* Mutant: peers that are known stay pinned.
AcceptUnpinned(s) ==
    /\ step[s] = "metadata"
    /\ peer' = IF peer = NoMaker THEN SecondHop[s] ELSE peer
    /\ queue' = queue \cup {s} /\ Moves(s, "accepted")
    /\ UNCHANGED <<operator, swap, calls, receipt, rows, failed, disorder>>

\* acceptOnionAndSetMLNRoute pins the peers first; the onion may be invalid or
\* a database write may fail after that.
AcceptRoute(s) ==
    /\ step[s] = "metadata"
    /\ peer' = SecondHop[s]
    /\ \/ queue' = queue \cup {s} /\ Moves(s, "accepted")
       \/ queue' = queue /\ Moves(s, "done")
    /\ UNCHANGED <<operator, swap, calls, receipt, rows, failed, disorder>>

\* A vanilla onion drops the metadata, even when it is then refused, and
\* leaves the peers pinned.
Swap(v) ==
    /\ operator' = NoMaker /\ swap' = NoSwap
    /\ queue' \in {queue, queue \cup {v}}
    /\ UNCHANGED <<peer, calls, receipt, step, rows, failed, disorder>>

\* Broadcast, no longer valid, or replaced: see CoinSwap.
LeaveQueue(o) ==
    /\ queue' = queue \ {o}
    /\ UNCHANGED <<peer, operator, swap, calls, receipt, step, rows, failed, disorder>>

-----------------------------------------------------------------------------
(* A batch, its call to the second hop, and the receipt of its failure.    *)

\* Mutant: the metadata is read when the call fails, not when it is sent.
ReceiptNow(c) ==
    [swap |-> swap, accused |-> operator, nextHop |-> c.to, onions |-> c.onions]

ReceiptOf(c) ==
    [swap |-> c.swap, accused |-> c.operator, nextHop |-> c.to, onions |-> c.onions]

\* Mutant: no check that the route carried LitVM metadata.
RecordAlways(c) ==
    /\ failed' = failed \cup {c} /\ Cardinality(failed') <= MaxFailures
    /\ receipt' = ReceiptOf(c)

\* recordSwapForwardFailure: without a swap id, the operator's address and an
\* onion there is no receipt, and the slot keeps what it had.
RecordFailure(c) ==
    /\ failed' = failed \cup {c} /\ Cardinality(failed') <= MaxFailures
    /\ receipt' = LET r == ReceiptOf(c)
                  IN IF r.swap = NoSwap \/ r.accused = NoMaker \/ r.onions = {}
                     THEN receipt ELSE r

\* forward() under the lock of performSwap.  An onion that does not peel is
\* never sent: it counts as gone from the queue.
Batch == [to |-> peer, operator |-> operator, swap |-> swap, onions |-> queue]

\* Nobody is called when no route is known.
SendBatch ==
    \/ peer = NoMaker /\ UNCHANGED calls
    \/ /\ peer # NoMaker /\ Cardinality(calls) < MaxCalls
       /\ calls' = calls \cup {Batch}

\* forger -trigger-batch: it goes on to poll when it has a vault.  When the
\* batch is refused, or the second hop cannot be dialled, it stops.
TriggerBatch(s) ==
    /\ step[s] = "accepted"
    /\ Disturbs(~NobodySubmits)
    /\ \/ /\ SendBatch
          /\ Moves(s, IF s \in Traced THEN "polling" ELSE "done")
          /\ UNCHANGED <<receipt, failed>>
       \/ /\ peer # NoMaker
          /\ RecordFailure(Batch)
          /\ Moves(s, "done") /\ UNCHANGED calls
       \/ /\ Moves(s, "done") /\ UNCHANGED <<calls, receipt, failed>>
    /\ UNCHANGED <<peer, operator, swap, queue, rows>>

\* A batch that succeeds in the main loop; one that fails there is a Restart.
Midnight ==
    /\ SendBatch
    /\ Disturbs(~NobodySubmits)
    /\ UNCHANGED <<peer, operator, swap, queue, receipt, step, rows, failed>>

\* The goroutine of forward() gets its answer.
CallSucceeds(c) ==
    /\ calls' = calls \ {c}
    /\ UNCHANGED <<peer, operator, swap, queue, receipt, step, rows, failed, disorder>>

CallFails(c) ==
    /\ calls' = calls \ {c}
    /\ RecordFailure(c)
    /\ UNCHANGED <<peer, operator, swap, queue, step, rows, disorder>>

\* Only the database survives, and requests under way get an error.
Restart ==
    /\ peer' = Directory /\ operator' = NoMaker /\ swap' = NoSwap
    /\ calls' = {} /\ receipt' = NoReceipt
    /\ step' = [s \in Submission |-> IF Submitting(s) THEN "done" ELSE step[s]]
    /\ UNCHANGED <<queue, rows, failed, disorder>>

-----------------------------------------------------------------------------
(* The forger polls, and the vault keeps what it finds.                    *)

\* The evidence hash covers the accused and the hash of the payload, which is
\* encrypted for the node called; epoch and accuser are the same throughout.
Evidence(r) == <<r.accused, r.nextHop, r.onions>>

\* Mutant: a later receipt of the swap takes the row over.
SaveReplacing(r) == rows' = {q \in rows : q.swap # r.swap} \cup {r}

\* evidence_hash is the primary key and a conflict on it changes nothing;
\* swap_id is unique too and a conflict on that one is an error.
SaveReceipt(r) ==
    IF \E q \in rows : Evidence(q) = Evidence(r) \/ q.swap = r.swap
    THEN UNCHANGED rows
    ELSE rows' = rows \cup {r}

\* pollAppendixReceipt takes the first receipt it sees, whoever's it is.
Poll(s) ==
    /\ step[s] = "polling" /\ receipt # NoReceipt
    /\ SaveReceipt(receipt)
    /\ Moves(s, "done")
    /\ UNCHANGED <<service, disorder>>

\* No batch was asked for, onions stayed pending, or no receipt came in time.
GiveUp(s) ==
    /\ step[s] \in {"accepted", "polling"}
    /\ Moves(s, "done")
    /\ UNCHANGED <<service, rows, disorder>>

Next ==
    \/ \E s \in Submission :
          SetOperators(s) \/ SetRouteMeta(s) \/ RefuseRoute(s) \/ AcceptRoute(s)
            \/ TriggerBatch(s) \/ Poll(s) \/ GiveUp(s)
    \/ \E v \in Vanilla : Swap(v)
    \/ \E o \in queue : LeaveQueue(o)
    \/ \E c \in calls : CallSucceeds(c) \/ CallFails(c)
    \/ Midnight \/ Restart

Spec == Init /\ [][Next]_vars

-----------------------------------------------------------------------------

Receipts == rows \cup ({receipt} \ {NoReceipt})

\* Every receipt, in the slot or in the vault, tells of one call that failed,
\* with the route that call was sent under, whatever was submitted, cleared or
\* restarted between the send and the failure (forward's copies).
ReceiptsAreFailures ==
    \A r \in Receipts : \E c \in failed :
        /\ r.swap = c.swap /\ r.accused = c.operator
        /\ r.nextHop = c.to /\ r.onions = c.onions

\* What can be filed under a swap id stays what it was, and one id never names
\* two receipts (GetBySwapID reads one row; SaveReceipt is idempotent).
FiledOnce ==
    [][/\ rows \subseteq rows'
       /\ \A r, q \in rows' : r.swap = q.swap => r = q]_vars

\* A receipt accuses the operator of the maker whose call failed: operators
\* align with the pinned peers (main.go, mlnPeerOperators).
FaultOfTheDownstream == \A r \in Receipts : r.accused = r.nextHop

\* They do as long as submissions come one at a time, no batch falls between a
\* submission's metadata and its peers, and none is refused in between that
\* would have changed the route (SubmitRoute, forward).
OrderlyFault == ~disorder => FaultOfTheDownstream
=============================================================================
