----------------------------- MODULE TakerRoutes -----------------------------
(***************************************************************************)
(* The taker's way from verified makers to a delivered output: mln-cli     *)
(* picks a route (pathfind, mixnetdir) and posts it (forger), mln-sidecar  *)
(* checks it and calls coinswapd, coinswapd spends a wallet coin of exactly*)
(* the amount on an onion, and the three nodes peel it.  If a hop fails, a *)
(* receipt lets mln-cli file a grievance.                                  *)
(*                                                                         *)
(* Every request crosses two connections.  Either may break, and the side  *)
(* that waits gives up on its own clock while the other side goes on.      *)
(*                                                                         *)
(* A maker's name stands for its node's URL, its swap key and its operator *)
(* address.  CoinSwap models the rounds of many onions, RouteReceipts what *)
(* a receipt says; here the path of one onion is followed in full.         *)
(***************************************************************************)
EXTENDS MwebOnion, FiniteSets

CONSTANTS
    Word,         \* 2^64 in the code: unsigned words are below it
    Maker, Nobody, BadKey,
    Markets,      \* what the scout may have verified: maker -> ad
    Self,         \* the taker's own maker, for -self-included
    Directories,  \* hop lists an operator may have written
    Attempt,      \* runs of the client; the sources, the flags and the amounts of each
    Sources, TriggerBatch, WaitPendingZero, Vault, Amounts,
    Destinations,
    Coin, CoinOf, Spendable,     \* wallet coins, and those whose spend key is found
    PubkeyMap,    \* nodes whose swap key coinswapd knows from its map file
    Draws,        \* what rand.Read may give
    MaxFilings    \* bound: openGrievance transactions waiting for one receipt

Hop == [tor : Maker \cup {Nobody}, fee : 0..Word-1,
        key : Maker \cup {Nobody, BadKey}, operator : Maker \cup {Nobody}]

ASSUME TakerAssumption ==
    /\ Word \in Nat /\ Word >= 2 /\ MaxFilings \in Nat
    /\ Nobody \notin Maker
    /\ \A mk \in Markets : \A m \in DOMAIN mk :
          /\ m \in Maker /\ mk[m].stake \in Nat
          /\ [tor |-> mk[m].tor, fee |-> mk[m].fee, key |-> mk[m].key, operator |-> m] \in Hop
    /\ \A d \in Directories :
          /\ d.amount \in Nat
          /\ \A i \in 1..Len(d.hops) :
                [tor |-> d.hops[i].tor, fee |-> d.hops[i].fee, key |-> d.hops[i].key,
                 operator |-> Nobody] \in Hop
    /\ Sources \in [Attempt -> SUBSET {"pathfind", "self", "directory"}]
    /\ Vault \in [Attempt -> BOOLEAN]
    /\ \A a \in Attempt : Amounts[a] \subseteq Nat
    /\ Spendable \subseteq Coin
    /\ \A c \in Coin : CoinOf[c] \in [value : Nat, blind : Scalar, spendKey : Scalar]
    /\ Draws \subseteq [skInput : Scalar, skSend : Scalar, s0 : Scalar, s1 : Scalar,
                        k0 : Scalar, k1 : Scalar, mask : Scalar]

VARIABLES
    market,   \* verified makers with their ads
    remote,   \* -mln-submit-remote: the onion goes to hop 0, not into this database
    request,  \* the route, destination, amount and metadata of each attempt
    client,   \* how far each client has come
    wire,     \* where its call to mweb_submitRoute is
    onion,    \* the onion made for it, and how far that one has come
    unsure,   \* history: attempts whose error does not tell whether the onion is kept
    rows,     \* attempts with a receipt in the vault
    filing,   \* grievance file, per attempt
    txs,      \* openGrievance transactions sent and not mined, per attempt
    court     \* attempts whose receipt is a case in the court

vars == <<market, remote, request, client, wire, onion, unsure, rows, filing, txs, court>>
grievance == <<rows, filing, txs, court>>

NoRequest == [source |-> "none", route |-> <<>>, destination |-> "", amount |-> 0, meta |-> FALSE]
NoOnion == [stage |-> 0, coin |-> Nobody]
Client == {"idle", "routed", "posted", "accepted", "waiting", "done", "cleared", "refused", "failed"}
Ended == {"done", "cleared", "refused", "failed"}
Wire == {"none", "sidecar", "engine", "accepted", "error"}

TypeOK ==
    /\ market \in Markets /\ remote \in BOOLEAN
    /\ \A a \in Attempt : request[a].route = <<>> \/ request[a].route \in [1..3 -> Hop]
    /\ client \in [Attempt -> Client] /\ wire \in [Attempt -> Wire]
    /\ \A a \in Attempt : onion[a] # NoOnion =>
          /\ onion[a].coin \in Spendable
          /\ Len(onion[a].etc.onion.payloads) = 3 - onion[a].stage
    /\ unsure \subseteq Attempt /\ rows \subseteq {a \in Attempt : Vault[a]}
    /\ filing \in [Attempt -> {"none", "sent", "filed", "error"}]
    /\ txs \in [Attempt -> 0..MaxFilings] /\ court \subseteq rows

Init ==
    /\ market \in Markets /\ remote \in BOOLEAN
    /\ request = [a \in Attempt |-> NoRequest]
    /\ client = [a \in Attempt |-> "idle"]
    /\ wire = [a \in Attempt |-> "none"]
    /\ onion = [a \in Attempt |-> NoOnion]
    /\ unsure = {} /\ rows = {} /\ court = {}
    /\ filing = [a \in Attempt |-> "none"]
    /\ txs = [a \in Attempt |-> 0]

ClientAt(a, s) == client' = [client EXCEPT ![a] = s]
WireAt(a, s) == wire' = [wire EXCEPT ![a] = s]

-----------------------------------------------------------------------------
(* Package pathfind.  The fee sums wrap, and the search for the least one  *)
(* starts from half the largest word.                                      *)

filterMakersWithTor(mk) == {m \in DOMAIN mk : mk[m].tor # Nobody}
Triples(M) == {t \in [1..3 -> M] : \A i, j \in 1..3 : i # j => t[i] # t[j]}
WrappedFee(mk, t) == (mk[t[1]].fee + mk[t[2]].fee + mk[t[3]].fee) % Word
StakeSum(mk, t) == mk[t[1]].stake + mk[t[2]].stake + mk[t[3]].stake

\* Mutant: stake before fees.
BestByStake(mk, T) ==
    {t \in T : /\ WrappedFee(mk, t) <= Word \div 2 - 1
               /\ \A u \in T : StakeSum(mk, u) <= StakeSum(mk, t)}

\* Least fee, then most stake; the draw decides among what is left.
Best(mk, T) ==
    LET payable == {t \in T : WrappedFee(mk, t) <= Word \div 2 - 1}
        cheapest == {t \in payable : \A u \in payable : WrappedFee(mk, t) <= WrappedFee(mk, u)}
    IN {t \in cheapest : \A u \in cheapest : StakeSum(mk, u) <= StakeSum(mk, t)}

PickRoute(mk) == Best(mk, Triples(filterMakersWithTor(mk)))

PickRouteSelfMiddle(mk, self) ==
    Best(mk, {t \in Triples(filterMakersWithTor(mk)) : t[2] = self})

RouteOf(mk, t) ==
    [i \in 1..3 |-> [tor |-> mk[t[i]].tor, fee |-> mk[t[i]].fee,
                     key |-> mk[t[i]].key, operator |-> t[i]]]

-----------------------------------------------------------------------------
(* The checks of a hop list and of a route, in the order of the pipeline.  *)

TrueFee(route) == route[1].fee + route[2].fee + route[3].fee
FeeSum(route) == TrueFee(route) % Word

\* addFee at every hop.
FeesFit(route) == TrueFee(route) < Word

\* Mutant: a sum that takes all of the amount is let through.
ValidateUpTo(d) ==
    /\ Len(d.hops) = 3 /\ d.amount > 0
    /\ \A i \in 1..3 : d.hops[i].tor # Nobody /\ d.hops[i].key \in Maker /\ d.hops[i].fee > 0
    /\ FeesFit(d.hops) /\ TrueFee(d.hops) <= d.amount

\* mixnetdir.Validate, and loadMLNDirectoryPeers with the same rules in coinswapd.
ValidateDirectory(d) ==
    /\ Len(d.hops) = 3 /\ d.amount > 0
    /\ \A i \in 1..3 : d.hops[i].tor # Nobody /\ d.hops[i].key \in Maker /\ d.hops[i].fee > 0
    /\ FeesFit(d.hops) /\ TrueFee(d.hops) < d.amount

\* ToPathfindRoute: no operator.
DirectoryRoute(d) ==
    [i \in 1..3 |-> [tor |-> d.hops[i].tor, fee |-> d.hops[i].fee,
                     key |-> d.hops[i].key, operator |-> Nobody]]

\* What Execute refuses before it posts anything.
validateTorHops(route) == \A i \in 1..3 : route[i].tor # Nobody

\* Mutant: the sum is compared as it wraps.
ValidateWrapped(req) ==
    /\ req.destination # "" /\ req.amount > 0
    /\ validateTorHops(req.route)
    /\ FeeSum(req.route) <= req.amount
    /\ \/ \A i \in 1..3 : req.route[i].key = Nobody
       \/ \A i \in 1..3 : req.route[i].key \in Maker
    /\ req.meta => \A i \in 1..3 : req.route[i].operator # Nobody

\* ValidateSwapRequest of the sidecar: keys on all hops or on none, operators
\* when there is metadata.
ValidateSwapRequest(req) ==
    /\ req.destination # "" /\ req.amount > 0
    /\ validateTorHops(req.route)
    /\ FeesFit(req.route) /\ TrueFee(req.route) <= req.amount
    /\ \/ \A i \in 1..3 : req.route[i].key = Nobody
       \/ \A i \in 1..3 : req.route[i].key \in Maker
    /\ req.meta => \A i \in 1..3 : req.route[i].operator # Nobody

\* mlnroute.Validate, with which coinswapd checks the request again: same rules.
Validate(req) == ValidateSwapRequest(req)

-----------------------------------------------------------------------------
(* mln-cli: pathfind or route from-directory, then forger.                 *)

Routes(source) ==
    CASE source = "pathfind" -> {RouteOf(market, t) : t \in PickRoute(market)}
      [] source = "self" -> {RouteOf(market, t) : t \in PickRouteSelfMiddle(market, Self)}
      [] source = "directory" -> {DirectoryRoute(d) : d \in {x \in Directories : ValidateDirectory(x)}}

\* Too few makers, none cheap enough, or no directory that is valid.
NoRoute(a, source) ==
    /\ client[a] = "idle"
    /\ Routes(source) = {}
    /\ ClientAt(a, "failed")
    /\ UNCHANGED <<market, remote, request, wire, onion, unsure, grievance>>

BuildRoute(a, source) ==
    /\ client[a] = "idle"
    /\ \E r \in Routes(source), dest \in Destinations, amt \in Amounts[a] :
         request' = [request EXCEPT ![a] = [source |-> source, route |-> r,
                        destination |-> dest, amount |-> amt, meta |-> Vault[a]]]
    /\ ClientAt(a, "routed")
    /\ UNCHANGED <<market, remote, wire, onion, unsure, grievance>>

\* ExecuteWithBatchOptions up to the POST of SubmitRoute.
Execute(a) ==
    /\ client[a] = "routed"
    /\ IF request[a].destination # "" /\ request[a].amount > 0 /\ validateTorHops(request[a].route)
       THEN ClientAt(a, "posted") /\ WireAt(a, "sidecar")
       ELSE ClientAt(a, "failed") /\ UNCHANGED wire
    /\ UNCHANGED <<market, remote, request, onion, unsure, grievance>>

\* The answer of the sidecar: ok, or an error with a status of 400 or 502.
Answer(a) ==
    /\ client[a] = "posted" /\ wire[a] \in {"accepted", "error"}
    /\ WireAt(a, "none")
    /\ ClientAt(a, IF wire[a] = "accepted" THEN "accepted" ELSE "refused")
    /\ UNCHANGED <<market, remote, request, onion, unsure, grievance>>

\* The deadline of the run or of the HTTP client; what is under way goes on.
GiveUp(a) ==
    /\ client[a] = "posted"
    /\ ClientAt(a, "refused")
    /\ unsure' = unsure \cup {a}
    /\ UNCHANGED <<market, remote, request, wire, onion, grievance>>

\* The onions coinswapd has in its own database.
Pending == {a \in Attempt : onion[a] # NoOnion /\ onion[a].queued}

AfterBatch(a) == IF WaitPendingZero[a] THEN "waiting" ELSE "done"

\* mweb_runBatch answers when the call to the next hop is dialled, or fails.
RunBatch(a) ==
    /\ client[a] = "accepted"
    /\ \/ ClientAt(a, AfterBatch(a))
       \/ TriggerBatch[a] /\ ClientAt(a, "failed")
    /\ UNCHANGED <<market, remote, request, wire, onion, unsure, grievance>>

\* Mutant: an error of the status call is read as an empty queue.
ClearedOrUnknown(a) ==
    /\ client[a] = "waiting"
    /\ ClientAt(a, "cleared")
    /\ UNCHANGED <<market, remote, request, wire, onion, unsure, grievance>>

\* GetRouteStatus until pendingOnions is 0; until then nothing changes.
PollStatus(a) ==
    /\ client[a] = "waiting" /\ Pending = {}
    /\ ClientAt(a, "cleared")
    /\ UNCHANGED <<market, remote, request, wire, onion, unsure, grievance>>

\* A status call fails, or the wait is over.
WaitFails(a) ==
    /\ client[a] = "waiting"
    /\ ClientAt(a, "failed")
    /\ UNCHANGED <<market, remote, request, wire, onion, unsure, grievance>>

-----------------------------------------------------------------------------
(* mln-sidecar and coinswapd.                                              *)

HandleSwap(a) ==
    /\ wire[a] = "sidecar"
    /\ WireAt(a, IF ValidateSwapRequest(request[a]) THEN "engine" ELSE "error")
    /\ UNCHANGED <<market, remote, request, client, onion, unsure, grievance>>

\* A connection breaks before coinswapd has the call, or after it answered.
Break(a) ==
    /\ wire[a] \in {"sidecar", "engine", "accepted"}
    /\ WireAt(a, "error")
    /\ unsure' = unsure \cup {a}
    /\ UNCHANGED <<market, remote, request, client, onion, grievance>>

\* ResolveX25519PubKeys: the key of the request, or the one in the map.
ResolvedKey(hop) ==
    IF hop.key # Nobody THEN hop.key
    ELSE IF hop.tor \in PubkeyMap THEN hop.tor ELSE Nobody
KeysOf(route) == [i \in 1..3 |-> ResolvedKey(route[i])]

Spent(c) == \E a \in Attempt : onion[a] # NoOnion /\ onion[a].coin = c /\ onion[a].stage = 3

\* pickCoinExactAmount: a coin that is queued already is taken again.
CoinsFor(amount) == {c \in Spendable : ~Spent(c) /\ CoinOf[c].value = amount}

OutVal(req) == req.amount - FeeSum(req.route)

\* What SubmitRoute and buildOnionFromMLNRoute ask of a request.
Buildable(req) ==
    /\ Validate(req)
    /\ \A i \in 1..3 : KeysOf(req.route)[i] # Nobody
    /\ CoinsFor(req.amount) # {}
    /\ OutVal(req) > 0
    /\ req.destination = "mweb"

OnionFor(req, c, draw) ==
    BuildOnion([i \in 1..3 |-> req.route[i].fee], KeysOf(req.route), CoinOf[c],
               OutVal(req), draw)

Refuse(a) ==
    /\ wire[a] = "engine" /\ ~Buildable(request[a])
    /\ WireAt(a, "error")
    /\ UNCHANGED <<market, remote, request, client, onion, unsure, grievance>>

\* The onion of attempt x once an onion for coin c is stored.
Beside(x, c) ==
    IF onion[x] # NoOnion /\ onion[x].coin = c /\ onion[x].stage < 3
    THEN [onion[x] EXCEPT !.queued = FALSE, !.replaced = TRUE]
    ELSE onion[x]

\* The new onion takes the place of one for the same coin.
Queue(a, c, draw) ==
    onion' = [x \in Attempt |->
        IF x = a THEN [stage |-> 0, coin |-> c, queued |-> ~remote, replaced |-> FALSE,
                       etc |-> OnionFor(request[a], c, draw)]
        ELSE Beside(x, c)]

\* Mutant: the error of the second write leaves the onion in the queue.
AcceptWithoutUndo(a) ==
    /\ wire[a] = "engine" /\ Buildable(request[a])
    /\ \E c \in CoinsFor(request[a].amount), draw \in Draws : Queue(a, c, draw)
    /\ \/ WireAt(a, "accepted")
       \/ ~remote /\ WireAt(a, "error")
    /\ UNCHANGED <<market, remote, request, client, unsure, grievance>>

\* acceptOnionAndSetMLNRoute, or swapSwapRemote.  The onion is stored; or it is
\* stored and the answer is an error all the same, because hop 0 kept the onion
\* of a call that failed, or because the amount could not be written and the
\* onion could not be deleted again either, which nobody looks at.  Or nothing
\* of it is stored: the first write or the call fails, or the second write fails
\* and the onion is deleted, after it took the place of an older one.
Accept(a) ==
    /\ wire[a] = "engine" /\ Buildable(request[a])
    /\ \E c \in CoinsFor(request[a].amount) :
         \/ /\ \E draw \in Draws : Queue(a, c, draw)
            /\ \/ WireAt(a, "accepted") /\ UNCHANGED unsure
               \/ WireAt(a, "error") /\ unsure' = unsure \cup {a}
         \/ /\ WireAt(a, "error") /\ UNCHANGED unsure
            /\ \/ UNCHANGED onion
               \/ ~remote /\ onion' = [x \in Attempt |-> Beside(x, c)]
    /\ UNCHANGED <<market, remote, request, client, grievance>>

\* The node of the next hop peels: its swap key is that of its URL's maker.
NextNode(a) == request[a].route[onion[a].stage + 1].tor
Kept(a) == KeptByPeel(onion[a].etc, NextNode(a), onion[a].stage = 2)

\* A batch reaches the next hop.  After the third the outputs go back, node 0
\* broadcasts and deletes, and the coin is spent.
Peel(a) ==
    /\ onion[a] # NoOnion /\ onion[a].stage < 3 /\ ~onion[a].replaced
    /\ ~Spent(onion[a].coin)
    /\ Kept(a)
    /\ onion' = [onion EXCEPT ![a].etc = PeelStep(@, NextNode(a)),
                              ![a].stage = @ + 1,
                              ![a].queued = @ /\ onion[a].stage < 2]
    /\ UNCHANGED <<market, remote, request, client, wire, unsure, grievance>>

-----------------------------------------------------------------------------
(* A hop fails, and mln-cli grievance file.                                *)

\* forward() could not call the second hop, and a client with a vault polls for
\* the last receipt: after its batch, and after its wait if it was to wait.
ReceiptStored(a) ==
    /\ onion[a] # NoOnion /\ onion[a].stage = 1 /\ onion[a].queued
    /\ request[a].meta
    /\ \E b \in Attempt : Vault[b] /\ TriggerBatch[b] /\ client[b] \in {"done", "cleared"}
    /\ rows' = rows \cup {a}
    /\ UNCHANGED <<market, remote, request, client, wire, onion, unsure, filing, txs, court>>

\* RunFile with the receipt of the swap id and the key of its accuser; without
\* the one or with another key nothing is sent.
FileGrievance(a) ==
    /\ filing[a] \in {"none", "error"} /\ a \in rows /\ client[a] \in Ended
    /\ txs[a] < MaxFilings
    /\ txs' = [txs EXCEPT ![a] = @ + 1]
    /\ filing' = [filing EXCEPT ![a] = "sent"]
    /\ UNCHANGED <<market, remote, request, client, wire, onion, unsure, rows, court>>

\* Mutant: a mined transaction counts, whatever its status.
ToldAnyhow(a, status) == filing' = [filing EXCEPT ![a] = "filed"]

Told(a, status) == filing' = [filing EXCEPT ![a] = IF status THEN "filed" ELSE "error"]

\* One account's transactions are mined in order, and WaitMined waits for the
\* last.  openGrievance reverts for a case that is there already, and for makers
\* and bonds the court does not take.
Mine(a) ==
    /\ txs[a] > 0 /\ txs' = [txs EXCEPT ![a] = @ - 1]
    /\ \E status \in BOOLEAN :
         /\ status => a \notin court
         /\ court' = IF status THEN court \cup {a} ELSE court
         /\ IF filing[a] = "sent" /\ txs[a] = 1 THEN Told(a, status) ELSE UNCHANGED filing
    /\ UNCHANGED <<market, remote, request, client, wire, onion, unsure, rows>>

\* Two minutes without a receipt of the transaction.
StopWaiting(a) ==
    /\ filing[a] = "sent"
    /\ filing' = [filing EXCEPT ![a] = "error"]
    /\ UNCHANGED <<market, remote, request, client, wire, onion, unsure, rows, txs, court>>

Next ==
    \E a \in Attempt :
         \/ \E source \in Sources[a] : NoRoute(a, source) \/ BuildRoute(a, source)
         \/ Execute(a) \/ Answer(a) \/ GiveUp(a)
         \/ RunBatch(a) \/ PollStatus(a) \/ WaitFails(a)
         \/ HandleSwap(a) \/ Break(a) \/ Refuse(a) \/ Accept(a) \/ Peel(a)
         \/ ReceiptStored(a) \/ FileGrievance(a) \/ Mine(a) \/ StopWaiting(a)

Spec == Init /\ [][Next]_vars

-----------------------------------------------------------------------------

\* A taker's coin is worth the fees its route's makers were promised and an
\* output that is not empty, at every node and whatever the words add up to
\* (addFee, buildOnionFromMLNRoute, peelCommitStep).
OnionPaysItsCoin ==
    \A a \in Attempt : onion[a] # NoOnion =>
        LET route == request[a].route
            taken == TrueFee([i \in 1..3 |->
                        [fee |-> IF i <= onion[a].stage THEN route[i].fee ELSE 0]])
        IN /\ onion[a].etc.commit.value = CoinOf[onion[a].coin].value - taken
           /\ CoinOf[onion[a].coin].value > TrueFee(route)

\* An onion whose hops were given the keys their nodes have is never dropped:
\* each node in turn reads its layer, and the sums meet the output whatever was
\* drawn (onion.New and Peel, buildOnionFromMLNRoute, peelOnions).
SoundRoutePeels ==
    \A a \in Attempt :
        (/\ onion[a] # NoOnion /\ onion[a].stage < 3
         /\ \A i \in 1..3 : ResolvedKey(request[a].route[i]) = request[a].route[i].tor)
            => Kept(a)

\* A route from a valid directory, sent with the directory's amount and without
\* a vault, passes every later check: what can stop it is the destination or
\* a coin (mixnetdir.Validate against the sidecar and coinswapd).
DirectoryRoutePasses ==
    \A a \in Attempt, d \in Directories :
        (/\ request[a].source = "directory" /\ ~Vault[a] /\ client[a] \notin {"idle", "failed"}
         /\ ValidateDirectory(d)
         /\ request[a].route = DirectoryRoute(d) /\ request[a].amount = d.amount
         /\ request[a].destination = "mweb")
            => Buildable(request[a]) \/ CoinsFor(d.amount) = {}

\* A picked route that the sidecar refuses, with keys on all hops and fees that
\* do not wrap, means that the amount is too small for any three makers, also
\* where other makers have no keys and their fees wrap (PickRoute against
\* ValidateSwapRequest).
NoAffordableRouteMissed ==
    \A a \in Attempt :
        (/\ request[a].source = "pathfind" /\ wire[a] = "error" /\ a \notin unsure
         /\ ~ValidateSwapRequest(request[a])
         /\ FeesFit(request[a].route)
         /\ \A i \in 1..3 : request[a].route[i].key \in Maker)
            => \A t \in Triples(filterMakersWithTor(market)) :
                  TrueFee(RouteOf(market, t)) > request[a].amount

\* A client that was told of an error has no onion under way, unless a
\* connection broke or the client gave up, hop 0 kept the onion of a failed
\* call, or neither the amount nor the deletion could be written: then its coin
\* may be spent although the client knows nothing of it (SubmitRoute,
\* acceptOnionAndSetMLNRoute's compensation).
RefusedIsNotQueued ==
    \A a \in Attempt : client[a] = "refused" /\ a \notin unsure => onion[a] = NoOnion

\* -wait-batch reports an empty queue only when the client's own onion has left
\* it: broadcast, or given up for another onion of the same coin.
ClearedIsGone ==
    \A a \in Attempt : client[a] = "cleared" /\ ~remote =>
        onion[a] # NoOnion /\ (onion[a].stage = 3 \/ onion[a].replaced)

\* grievance file says that it filed only when the case is in the court, also
\* after an earlier try that was not waited for (RunFile, WaitMined).
FiledIsOpen == \A a \in Attempt : filing[a] = "filed" => a \in court
=============================================================================
