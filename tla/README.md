# Verification of the MLN stack

Formal models, model-checking runs and machine-checked proofs for this
repository: the privacy mix of Litecoin MWEB coins (`research/coinswapd`), its
judicial layer on the LitVM chain (`contracts`), and the daemons and clients
around them (`mlnd`, `mln-judge`, `mln-cli`, `mln-sidecar`).

## 1. The system

| Component | State | Operations | Talks to |
|---|---|---|---|
| Registry contract (`contracts/src/MwixnetRegistry.sol`) | stake, freeze bit, maker key hash, exit time, court address, native balance | deposit, registerMaker, withdraw, requestWithdrawal, withdrawStake; for the court: slashStake, freezeStake, unfreezeStake | reads two views of the court; pays accounts |
| Grievance court (`contracts/src/GrievanceCourt.sol`, `EvidenceLib.sol`) | cases (phase, deadline, bond), open-case counter, withdrawal lock | openGrievance, defendGrievance, resolveGrievance, adjudicateGrievance, receive | calls the registry; pays accounts |
| CoinSwap engine (`research/coinswapd/{swap,db,swap_denom,main}.go`) | onion database (two buckets, node 0), `s.onions` in memory, calls under way | swap_swap, swap_forward, swap_backward, the midnight loop, performSwap, finalize | the next and previous node; the Litecoin network |
| Route submission and receipts (`mweb_service.go`, `mlnroute/`, `litvmreceipt/`, `mln_directory.go`) | pinned peers, operators, metadata of the last route, last receipt | mweb_submitRoute, mweb_runBatch, mweb_getRouteStatus, mweb_getLastReceipt | the engine's state; polled by takers |
| Onion cryptography (`onion/`, `mln_peel.go`, `mln_build.go`, `mln_wallet.go`) | none | build, peel, verify; coin choice | |
| Receipt vault and bridge (`mlnd/pkg/receiptstore`, `mlnd/internal/bridge`) | SQLite table; offset and partial line of each file | tail a file, parse, insert, look up | files written beside coinswapd |
| Maker daemon (`mlnd/internal/litvm`) | subscription, pending waits | defend a grievance, resolve an own one after its deadline | the chain, the vault |
| Judge daemon (`mln-judge`) | subscription | rule on contested cases | the chain |
| Maker advertisement (`mlnd/internal/nostr`, `mlnd/pkg/makerad`) | cached relay connections, failure counters, backoff times | build and publish an ad every interval | Nostr relays |
| Dashboard, operations log (`mlnd/internal/{dashboard,opslog}`) | ring of records | append, read | |
| Taker client (`mln-cli/internal/{scout,pathfind,mixnetdir,takerflow,forger}`) | settings, vault file | collect and verify ads, choose a route, submit, poll, store receipts | relays, chain, sidecar |
| Onboarding and filing (`mln-cli/internal/{registry,grievance}`) | none | deposit and register; open a case from the vault | the chain |
| Sidecar (`mln-sidecar`) | none (a mock keeps a balance) | check a route, translate HTTP to JSON-RPC | coinswapd |
| Desktop application (`mln-cli/desktop`) | settings | forms over the taker client and the registry client | both |
| Node list (`research/coinswapd/config`) | none | fetch a PGP-signed list of nodes at start | a web server |

What is hard in it:

- **Judicial layer.** Several cases against one maker are decided in any order
  by silence (`resolveGrievance`) or verdict (`adjudicateGrievance`), while the
  maker registers, asks to leave and leaves. A freeze bit, a counter, two kinds
  of time lock and two contract balances must stay in step, and every case must
  be able to end. *Correct means:* the bit and the counter say what the cases
  say; stake under accusation leaves only by an upheld case; exits keep
  cooldown and locks; no token is lost, created or paid twice.
- **CoinSwap rounds.** Three processes, asynchronous calls that are logged and
  never repeated, memory overwritten by the next round, a database written by
  several transactions. *Correct means:* a transaction that is broadcast pays
  exactly what it spends, an accepted onion is not forgotten, values are not
  mixed, and a sound onion gets through although another is malformed.
- **Routes and receipts.** Peers, operators and metadata are set at different
  moments of a submission and read at another; one slot for the last receipt.
  *Correct means:* a receipt accuses the operator that did not answer.
- **Daemons.** Live subscriptions without backfill, a vault that is asked once, a
  deadline race, a few retries of transactions whose fate is unknown, and one
  process whose parts end each other. *Correct means:* a maker with the evidence
  in its vault is not slashed while its daemon is up; an opened case is closed.
- **Vault and bridge.** Truncated files, partial lines, restarts, two unique
  keys. *Correct means:* a receipt written to the file ends up in the table.
- **Discovery.** Ads under several keys, a registry read field by field while it
  changes, two transactions of one plan, statuses nobody looks at. *Correct
  means:* listed makers were valid, valid makers are listed, a key is not
  overwritten by accident.
- **A taker's route.** Fees in words that wrap, four validators with slightly
  different rules, two connections that may break with the other side going on,
  a stream cipher whose offsets must agree at every hop. *Correct means:* the
  output is what the coin is worth less the fees promised, and what the taker is
  told is what happened.
- **Advertisement.** Relays that hang, a budget of time they share, backoff that
  is updated on several paths. *Correct means:* a relay that answers keeps a
  fresh ad.

The hazards are listed one by one, with the source line and the property that
watches each, in `PROJECT.json`.

## 2. Modules

| Module | Models | Kind |
|---|---|---|
| `LitVMChain` | block time, native balances, payments (external: the chain) | base |
| `MwixnetRegistry` | the registry; court-only entry points are parts of court actions | component |
| `GrievanceCourt` | the court composed with the registry; `Spec`, safety, liveness | composition |
| `StakeCustody` | what the two promise, without clocks, counters and bits | abstract |
| `MCGrievanceCourt` | history variables and sums over accounts for TLC | model checking |
| `GrievanceCourt_proofs` | type, books, both accounts, solvency of makers, stake at risk; `GrievanceCourt` implements `StakeCustody`; leavers serve their time | proofs |
| `CoinSwap` | node 0's queue and the round over N nodes | component |
| `MCCoinSwap` | instances: onions, coins, values, malformed layers | model checking |
| `CoinSwap_proofs` | type, coins preserved, queue kept, one value per transaction | proofs |
| `RouteReceipts` | route, metadata and receipt slot of node 0, the forger's run, the vault's table | component |
| `MCRouteReceipts` | instances: routes with different second hops | model checking |
| `RouteReceipts_proofs` | type, receipts, rows, and whom orderly submissions accuse | proofs |
| `Defence` | the daemons of maker, accuser and judge, over `GrievanceCourt` | composition |
| `ReceiptTable` | what the vault promises: a set of whole receipts, one per evidence and swap | abstract |
| `ReceiptVault` | files, the bridge that tails them, the table's two unique keys | component |
| `ReceiptVault_proofs` | type, offsets, rows; `ReceiptVault` implements `ReceiptTable` | proofs |
| `Defence_proofs` | type, receipts in defences, and what silence of the accused is due to | proofs |
| `Discovery` | `maker onboard` and `scout`, over `GrievanceCourt` | composition |
| `Discovery_proofs` | type, onboarding's registrations and keys, the scout's verdicts | proofs |
| `MwebOnion` | layers, key streams and blinds: making an onion and peeling it | operators |
| `TakerRoutes` | a taker's route from ads to output, and its grievance; uses `MwebOnion` | component |
| `TakerRoutes_proofs` | type, what an onion pays and that it peels, what validators pass, and what the taker is told | proofs |
| `Broadcaster` | rounds of publication over a list of relays | component |
| `Broadcaster_proofs` | the budget that the relays of a round share | proofs |
| `MCDefence`, `MCReceiptVault`, `MCDiscovery`, `MCTakerRoutes`, `MCBroadcaster` | instances | model checking |

### 2.1 The judicial layer

A call to a contract is one transaction, so each external function is one
action whose guards are its `require`s and `revert`s. The sender is a parameter:
`onlyOwner`, `onlyGrievanceCourt`, `NotAccused` and `NotJudge` are the roles of
the actions, not guards. A payment (`Paid`) needs a solvent payer and a payee
that does not revert (`Refusing` are contracts whose receive hook does); the
bounty, the burn and the bond of a verdict are all in the one action. The
registry calls two views of the court: `RequestWithdrawal` and `WithdrawStake`
take their answers as parameters. A grievance id hashes accuser, accused, epoch
and evidence hash; it is the record `Case`, so one id can be opened once. Calls
that re-enter a contract from a receive hook are not modelled. Gas, events and
the uint256 width are left out: amounts are bounded by the tokens that exist.
The state at the start is the one after both constructors (`Deploy.s.sol`), with
the court not yet wired.

| Action | Code |
|---|---|
| `Deposit`, `RegisterMaker`, `Withdraw`, `RequestWithdrawal`, `WithdrawStake`, `SetGrievanceCourt` | functions of the same name |
| `OpenGrievance`, `DefendGrievance`, `ResolveGrievance`, `AdjudicateGrievance`, `Receive` | functions of the same name |
| `FinalizeSlash` | `_finalizeSlash` with `slashStake`, `_refundBond` |
| `FinalizeExonerate` | `_finalizeExonerate` with `_forfeitBondToAccused` |
| `NextBlock` | a block with a later timestamp |

`StakeCustody` is the promise: an owner is a depositor, a maker, or leaving; stake
leaves only while no accusation is undecided, or by an upheld one; an accusation
that was never answered cannot be dismissed; each is decided once. The mapping
sends phases to four sets of cases, and registration and exit time to standing.

### 2.2 The CoinSwap engine

An onion is a name that spends a coin. Its commitment after hop *i* is the pair
(onion, *i*), and a sum of commitments, excesses or stealth keys is the set of
onions summed: random blinds make two different sums equal with negligible
probability, so `commitSum == kernelExcess` holds exactly if the onions still
matched here are those of the outputs and of every later kernel (`Balanced`).
Fees stay numbers, because the fee test is a branch.

| Action | Code |
|---|---|
| `Swap` | `Swap` / `acceptOnionLocked` / `saveOnion` |
| `SubmitRoute` | `SubmitRoute` / `acceptOnionAndSetMLNRoute`, with its two database writes and the ways they fail |
| `RunBatch`, `Midnight` | `RunBatch`, the main loop; both call `performSwap`, which is `StartRound` or `RefuseRound` |
| `Forward` | `Forward`, `forward`, `peelOnions`; at the last node the turn into `backward` |
| `Backward` | `Backward`, `backward`; at node 0 `finalize` with its broadcast and deletions |
| `Lose`, `Crash` | a failed call that is only logged; a restart that keeps the database |
| `Confirm`, `SpendElsewhere` | the chain (external) |

`fate` is history: what the submitter of an onion was told, and whether another
onion for the coin made it void. Left out: two onions whose peeled commitments
collide, undecodable payloads (they act like a lost call), single-node routes
(N >= 2; MLN and directory routes have three hops), the developer flag that
clears the queue, and `submitRemote` processes, which keep no queue. `rpc.Dial`
of an HTTP URL does not connect, so an unreachable peer is a lost call. At
midnight no call of the day before is under way: the servers time out after 30 s.
A refused round at midnight ends the process (the main loop returns); the model
restarts it. `mweb_runBatch` may be called at any time, also in the middle of a
round.

### 2.3 Routes and receipts

`mweb_submitRoute` is four actions, because the code takes and releases the lock
of the service for each: another submission, a vanilla `swap_swap`, a batch or a
failed call may come between any two.

| Action | Code |
|---|---|
| `SetOperators`, `SetRouteMeta` | `setMLNPeerOperators` with `PeerOperatorsFromRequest`, `setMLNRouteMeta` |
| `RefuseRoute`, `AcceptRoute` | the checks of `SubmitRoute`; `acceptOnionAndSetMLNRoute`, which pins the peers before it saves |
| `Swap`, `LeaveQueue` | `Swap` with `clearVanillaSwapMetaLocked`; whatever deletes an onion (in full in `CoinSwap`) |
| `TriggerBatch`, `Midnight` | the forger's `-trigger-batch` with `performSwap` and `forward`; the main loop |
| `CallSucceeds`, `CallFails` | the goroutine of `forward`, with `recordSwapForwardFailure` |
| `Poll`, `GiveUp` | `pollAppendixReceipt` with `PersistLastReceiptHTTP` and `SaveReceipt`; timeouts and errors |
| `Restart` | the process ends, also by an error of the midnight batch |

Node 0 calls the second hop and nobody else, so of a route only that maker
matters, and one name stands for its node and its operator. A receipt is what it
says: swap id, accused, node called, onions; the evidence hash is the last three,
since the payload is encrypted for the node called, and epoch and accuser are the
taker's own throughout. `failed` is history, and so is `disorder`: whether
submissions overlapped, a batch fell in the middle of one, or one was refused
that had stored other operators. A submission's onion spends a coin
of its own; calls that carry the same batch count as one. Left out: takers with
`submitRemote`, which send the onion away and forward nothing, other nodes'
receipts (their metadata is never set), a change of the configured nodes while
no route is pinned, and receipts inside a submit or batch answer, which only the
test sidecars give. What a poll returns may be the receipt of another swap: the
model has that behaviour, and the vault then keeps it under its own swap id.

### 2.4 The daemons

`Defence` adds three kinds of process to the contracts. A process that runs is
subscribed; a log it is not subscribed to is gone. Logs of the defence watcher
and of the judge are handled one after another to the end (`Free`), cases of the
accuser watcher in a goroutine each. Whatever a handler reads, it reads in an
action of its own, so blocks and transactions come between.

| Action | Code |
|---|---|
| `Start`, `Crash` | `main` of mlnd and mln-judge; the errgroup that ends the process with its first error |
| `OpenCase`, `Contest` | the logs of `openGrievance` and `defendGrievance` as the three subscriptions get them |
| `TakeLog`, `CheckDeadline`, `SubmitDefend` | `Watcher.Start`, `handleReceiptFound` with `ValidateReceiptForGrievance`, `ChainTimeBeforeDeadline`, `BuildDefenseData`, `SubmitDefend` |
| `WaitAndResolve`, `ReadPhase`, `SubmitResolve` | `waitAndResolve`, `submitResolveLoop`, `SubmitResolve` |
| `HandleContested`, `SubmitVerdict` | `handleContested` with `UnpackDefenseV1` |
| `Mine`, `LoseTx`, `ByHand`, `Block` | the chain: transactions are mined in any order, may be dropped, and anybody may use the contracts by hand |
| `Ingest` | the bridge stores a receipt (in full in `ReceiptVault`) |

`Attempt` is one try of a transaction: its estimate reverts; the node takes it; the
call fails, with the transaction taken or not, and `Retry` gives three tries in
all; or the error is one that `isRetryableSubmitErr` (`retryable` in the judge)
does not try again, because the account is short of funds or the text speaks of a
revert: then the work is given up at once, with the cause `final`. Such an error
depends on the account and the node, so it may come at any try and is bounded by
nothing. `dropped` is history: every piece of work that was given up, with the
cause. Blocks do not wait for the daemons: the deadline may pass with a log unread,
between two steps of a handler or with the defence in the pool, and
`SilenceHasACause` allows for a deadline that passed while the daemon was at the
case (`InHand`), and for three calls that failed (`OutOfTries`). What it denies is
that a case is lost by silence with nothing in hand and no cause on record. Receipts carry no
epoch, since each operator's case has one.
Left out: gas prices, `MLND_*` parsing (its results are the sets `Defending`,
`Resolving`, ...), other transactions of the same accounts.

### 2.5 The vault and its bridge

A line of a receipt file is two halves and an end: the first half has the fields
that are hashed, the second the signature and swap id. So half a line, two halves
of different receipts, and a line that appears piece by piece are all states of
the model, and a wrong offset makes one of them. `Stat`, `Read` and `SaveLine`
are `tailFile` cut where the file may change or the process end; `SaveReceipt` is
the table with `evidence_hash` as key and `swap_id` unique where there is one. `Fairness` lets the
ticker come back to every file. `ReceiptTable` is the promise: only what was
emitted whole is stored, one row per evidence and per swap, for good.

The properties hold under a hypothesis, `Rewrites = FALSE`: a truncated file does
not reach its old offset again before the bridge has looked at it. `tailFile`
compares lengths only, so such a file is read from the middle; with
`Rewrites = TRUE` TLC finds each of the three properties of `Vault` violated. The code
makes no promise about it. `RowsAreKept` and `VaultTypeCorrect` say what is left
without the hypothesis: the table keeps its keys and its rows, but a row may be
made of two receipts.

### 2.6 Discovery and onboarding

`Discovery` runs `maker onboard` and `scout` beside the contracts, whose `Next`
is everybody else. Each `eth_call` is an action (`ReadMakerState`, `VerifyMaker`):
four answers may describe four different states. `RunOnboard` decides once from
what was read, `SendLegacyTx` and `Mine` send and mine in nonce order, and a run
waits for each transaction without looking at its status. The scout chooses the
newest ad of an operator before it asks the registry (`Collect`, `Latest`), and
`ListMaker` applies `decideMakerVerified` to the answers. Ads that are rejected by
themselves (signature, content, chain, deployment) are `accepted = FALSE`. A call
that fails rejects the operator as well (`VerifyMaker`'s error in `Run`), so
`StandingMakerListed` is about the answers of the registry.
`undermined`, `rebound`, `silent`, `held`, `everValid` and `struckOff` are history.
The dashboard's copy of the policy is `VerifyMakerOnChain`.

### 2.7 A taker's route

`TakerRoutes` follows one onion per attempt through five programs. `BuildRoute`
picks a route (`Best` over `Triples`, with fees that wrap at `Word`) or takes one
from a directory; `Execute` posts it; `HandleSwap`, `Refuse` and `Accept` are
the sidecar's and coinswapd's decision; `Peel` is one hop after another.
Both connections may `Break` at any moment, and the client may `GiveUp`: what is
under way goes on. `Accept` has the ways in which an onion is stored and its client
told so or told of an error, and those in which it is not. The two database writes
may fail; when the second does, the onion is deleted again, with the older onion
whose place it took, and the error of that deletion is ignored
(`acceptOnionAndSetMLNRoute`); and hop 0 may keep the onion of a call that failed,
for takers with `-submit-remote`. `unsure` is history: the attempts whose error does not tell whether
the onion is kept, which are those two and the ones whose connection broke or whose
client gave up. `RefusedIsNotQueued` is about all other errors.
`ReceiptStored`, `FileGrievance`, `Mine`, `Told` and `StopWaiting` are the
receipt of a failed hop and `grievance file`, tried again after a timeout.

`MwebOnion` is the data. A key stream is named by the keys that agree on it, and
a payload is its text with the set of pads it was XORed with, so XORing twice with
one pad removes it and with two different ones does not. Blinds are numbers
modulo `Order`; `BuildOnion` and `PeelStep` are the sums of `mln_build.go` and
`peelOnions`. Encodings and the owner's signature are left out, and range proofs
are taken to be sound.

What the model shows and no property forbids: the pathfinder asks a maker neither
for a swap key nor for a fee, so a route of its own may be refused by the engine;
three fees that wrap to a small sum are preferred to an honest route and refused by
the sidecar, which is why `NoAffordableRouteMissed` asks that the sum of the picked
route does not wrap (other makers' sums may);
fees equal to the amount pass the sidecar and `mlnroute` and are refused by
`buildOnionFromMLNRoute`; with `-submit-remote`, or after somebody else's batch,
`pendingOnions = 0` says nothing about the taker's onion; with `-wait-batch` a
timeout returns before the receipt is polled for.

### 2.8 Advertisement

A round of `Broadcaster` is a walk over the relays: `Skipped`, `Reuse`, `Connect`,
`ConnectFails`, `Publish` and `PublishFails` are the branches of `ensureRelay` and
`Publish`, `EndRound` and `Tick` those of `Run`. A refusal takes no time, a relay
that hangs takes what it is given: at most 30 s for a connection, the rest of the
round's 45 s for a publication. The ticker's channel holds one tick. When a round
ends, connections made under its context may close. `LoadBroadcasterFromEnv`
decides whether there are rounds at all, `BuildMakerAdEvent` and `ParseAd`
whether scouts can read what is published.

What the model shows: a relay that hangs on publications starves all relays
behind it as long as it does so; a connection that succeeds clears the failure
count, so publications that fail always back off 2 s; with the default interval
of 30 minutes every backoff is over before the next round; an ad without a
fee range or with a colon in the chain id is published too.

## 3. Runs

| Run | Question | Bounds |
|---|---|---|
| `Accusers` | freeze bit, counter, solvency, bonds, exits and `StakeCustody`, with a maker accused by another account and by itself | 2 accounts, 6 blocks of time, deposits 1 and 3, a donation, 50 % slash, 50 % bounty |
| `PartialWithdrawDisabled` | *violated*: see findings | 3 accounts, 6 blocks |
| `Rounds` | coins preserved, queue kept, one value per transaction | 3 nodes, 3 onions on 2 coins of different value, two of them routed and the third vanilla for the coin of one, 2 calls at once, 1 fault |
| `SoundOnions` | a sound onion gets through | one onion fails at node 1, 1 fault |
| `Receipts` | receipts speak of the call as it was sent, and accuse the maker called after orderly submissions; the vault's rows are final | 2 submissions and a vanilla onion, 1 call at once, 2 different failures |
| `FaultOfTheDownstream` | *violated*: see findings | 2 submissions that may overlap or be refused |
| `Defence` | why a case is lost by silence, and why one stays open | a maker, an accuser, a judge; 1 end of a process, 3 faults, 3 blocks, a receipt that matches and one that does not |
| `Vault` | the tail implements the table, and what is written gets there | 4 receipts, two of one swap and two without a swap id; 1 file of 6 symbols, 1 truncation, 1 restart, 1 failed insert |
| `Discovery` | why a registration reverts, a key is replaced, a maker is listed or rejected | 1 maker, 1 run, 2 keys, 3 ads, 1 accuser, 2 blocks |
| `DashboardAgreesWithScout` | *violated*: see findings | as `Discovery` |
| `TakerRoutes` | from ads to output and grievance: fees, layers, validators, refusals, answers | up to 5 makers in 8 markets, 5 directories, 2 attempts, 2 coins, words below 16, scalars modulo 3, 2 filings at once |
| `Broadcaster` | a relay that answers keeps a fresh ad | 3 relays, the last of which answers, 5 environments, 1 restart |

Why the bounds are enough to be of use.

- *Contracts.* Two simultaneous cases are the smallest number at which the
  counter and the freeze bit can disagree, and a self-accusing maker the smallest
  at which payer and payee coincide; deposits of 1 and 3 with MinStake 2 give
  makers that a slash strikes off and makers it does not; windows of 1 and 2 let
  every deadline, lock and cooldown pass within 6 blocks.
- *Engine.* Two onions for one coin, with and without a recorded amount, give overwriting, two calls at once give
  overlapping rounds, and one fault is enough for each failure to strike at each
  point; the proofs drop all of these bounds for the safety properties but
  `OneDenomination`.
- *Receipts.* Two routes with different second hops are the fewest that can be
  confused, and two failures the fewest that compete for a swap id.
- *Daemons.* Three faults are the fewest that use up three tries, and one end of a
  process strikes at each point of each handler. Errors that are not tried again
  are not bounded. Receipts reach only the maker's vault (`Arrivals`), since the
  accuser is never accused in this run; the proofs have any.
- *Vault.* Six symbols hold two lines, so a chunk may end anywhere in a line that
  follows another; a receipt of the same swap makes the second unique key bite, and
  two without a swap id must both be stored.
- *Discovery.* One run with both transactions, beside deposits, accusations,
  verdicts, exits and key changes by hand; three ads give a newer ad under the
  wrong key, and one that is newest but rejected.
- *Taker.* Fees of 14 in words below 16 wrap with any others; amounts 3 and 4
  leave an output, none, or less than none; two attempts compete for one coin. The
  sums of blinds are linear in what is drawn, so one draw with distinct values
  in a group of three already tells a wrong sum from a right one. The market of five
  has a sum that fits beside sums that wrap and hops without a key.
- *Relays.* Two relays that fail or hang as they like before one that answers are
  the fewest that can use up a round between them.

Deadlock checking is off: time ends at `MaxTime`, clients and bounded faults come
to an end, and an engine whose coins are all spent has nothing to do.

**Fairness.** `SoundOnions` assumes that midnight comes and that a call is
delivered unless it is lost; `Lose` and `Crash` happen at most `MaxFaults` times.
It uses onions without recorded amounts and with sufficient fees: an onion
without amount among recorded ones, or fees that do not cover the cost, stop every
round until somebody repairs the queue, and the repository has no code that does.
`DefenceFairness` lets blocks come, pending transactions be mined, and each
goroutine go on; it does not start a process, and says nothing of transactions by
hand. So `DaemonsCloseCases` gets by without assuming that somebody resolves or
rules: it names the causes for which nobody may. `Vault` lets the ticker fire and a
scan go on; strong fairness of `Stat` means that no file is left out of the scans
for ever. `Broadcaster` lets calls end when their context does and ticks come.

## 4. Findings

1. `registerMaker(bytes32(0))` un-registers a maker, and `withdraw` then pays at
   once, although PRODUCT_SPEC says that a registered maker leaves only through
   the exit queue (run `PartialWithdrawDisabled`). Stake under accusation is not
   affected: the freeze bit blocks both calls (`StakeAtRisk`, proved).
2. `main.go` says the operators align with the pinned peers, and the threat model
   that a receipt attributes the fault to the downstream operator. `SubmitRoute`
   stores operators and metadata before it checks the rest of the request and
   before it pins the peers: a submission that overlaps another or is refused
   makes the next failed call accuse a maker that was never called (run
   `FaultOfTheDownstream`). With orderly submissions the claim holds
   (`OrderlyFault`, proved).
3. The dashboard's check of a maker has "same semantics as mln-cli scout"
   according to its comment, but does not read the exit queue: a maker that is
   leaving sees itself as verified while takers reject it (run
   `DashboardAgreesWithScout`).

Three smaller divergences met while modelling, which no run states: the
interface's comment has exits wait until the time *exceeds* the lock, and the
code lets them go at the lock; the user stories have the accused defend within
the window, and the contract accepts a late defence while nobody has resolved
(mlnd does not send one); the default grievance bond is 10^18 wei while its
comment says 0.1 ether (`mln-cli/internal/grievance/file.go:187`).

One thing about the engine's queue: `deleteOnion` is two writes, keyed by coin. If
the second fails after a broadcast, a route resubmitted for that coin during the
round waits on without its amount, and the check of values no longer sees it. Its
coin is spent, so no transaction with it can be mined; `OneDenomination` speaks of
onions whose coin was not broadcast before.

## 5. Proofs

All theorems hold for every value of the constants that satisfies the named
assumptions of the modules (`ChainAssumption`, `RegistryAssumption`,
`CourtAssumption`, `CoinSwapAssumption`, `RouteAssumption`, `DefenceAssumption`,
`DiscoveryAssumption`, `OrderAssumption`, `OutputAssumption`, `TakerAssumption`,
`VaultAssumption`, `BroadcasterAssumption`): sets disjoint, amounts natural numbers,
percentages at most 10000, finite sets where something is counted or summed, hops
and coins of the right shape. Two theorems have a hypothesis of their own:
`OffsetsMatch` and `TableImplemented` have `~Rewrites` (2.5).

| Theorem | Says | Argument |
|---|---|---|
| `TypeCorrect` (court) | `[]TypeOK` | payments are guarded by solvency; a slash takes at most the stake (`BasisPart` of at most 10000 is at most the amount) |
| `FreezesAreRight`, `CountsAreRight` | `[]FrozenIffAccused`, `[]CountIsLiveCases` | inductive together: the unfreeze test reads the counter, and the counter is the cardinality of the live cases, of which a step adds or removes one |
| `MakersSolvent` | `[]MakersMeetMinStake` | needs the books: a withdrawal requires an unregistered address, a slash below the minimum strikes off |
| `AccusedStakeStays` | `StakeAtRisk` | from `FrozenIffAccused`: withdrawals need the freeze bit clear |
| `RegistryIsSolvent`, `BondsAreHeld` | `[]RegistrySolvent`, `[]CourtHoldsLiveBonds` | inductive as they stand (with `TypeOK`): a payment and the stake or bond it settles change one summand by the same amount (`SumUpdate`); the sums are over finite sets |
| `CustodyImplemented` | `ImplementsCustody` | one abstract step, or a stutter, per concrete action under the invariants above |
| `LeaversServeTheirTime` | `ExitServesItsTime` (of `MCSpec`, which adds history variables to `Spec`) | inductive `ExitInv`: unlock times count from the request, locks from the last verdict; the count is right by `CountsAreRight` |
| `TypeCorrect` (engine) | `[]TypeOK` | the queue is keyed by coin, so it holds one onion per coin |
| `NobodyLosesACoin` | `[]CoinsPreserved` | a turn at the last node passes on as outputs the onions it peeled; node 0 broadcasts only what `Balanced` equates with the outputs |
| `QueueIsKept` | `KeptUntilBroadcast` | each action's deletions are of invalid coins, of coins in the broadcast, or of a coin that gets another onion |
| `BatchesAreUniform` | `OneDenomination` | inductive `AmountsInv`: the amount of an onion accepted with one stays recorded until its coin is broadcast, so the test at the start of a round sees it; an onion not yet submitted is in no round, and later nodes only drop onions |
| `TypeCorrect` (receipts) | `[]TypeOK` | a receipt is made only of a call with a swap id and an operator |
| `ReceiptsTellOfFailures` | `[]ReceiptsAreFailures` | inductive: the slot gets the receipt of the call that just failed, the vault what is in the slot |
| `RowsAreFinal` | `FiledOnce` | `RowPerSwap` is inductive: a row is added only if its swap id is new |
| `OrderlyAccusesTheCalled` | `[]OrderlyFault` | strengthened by `Aligned`: while there was no disorder at most one submission is under way, its operators are stored while it is, and those of the pinned peers otherwise; calls under way copied them so |
| `DefenceTypeCorrect` | `[]DefenceTypeOK` | what a daemon sends to the contracts anybody may send (`CourtStep`), so the court's type lemmas apply |
| `DaemonsSendReceipts` | `[]SentWithReceipt` | tasks and transactions carry the receipt that was looked up, or the calldata that was read |
| `SilenceExplained` | `SilenceHasACause`, at any speed of the daemons and with any number of failed calls | inductive `Duty`: every open case of an operator that auto-defends is in hand (log unread, handler under way or transaction pending) or has a cause on record; as many tries failed as there were faults, at most |
| `DiscoveryTypeCorrect` | `[]DiscoveryTypeOK` | the contracts' `IInv` is carried along (`MineCourt`), with whose transaction is in which outbox |
| `RevertsAreExplained` | `[]RevertHasACause` | inductive `Sound`: for a run whose maker was not undermined the stake it read is a lower bound of the stake, a freeze or an exit it did not see is still absent, and while its deposit is under way stake and deposit together reach the minimum |
| `KeysAreKept` | `UnforcedKeepsKeys` | inductive `KeyKnown`: unless rebound, the key is the one read, or none, and after the plan the run's own, or none, until its last transaction is mined |
| `ListedMakersWereValid` | `ListedWasValid` | inductive `InvalidSeen`: a maker bound to the chosen key and never valid is frozen or leaving, so it cannot change its key (`InvalidStays`, from `MakersMeetMinStake`); once seen unfrozen it is leaving, and is seen leaving |
| `StandingMakersAreListed` | `StandingMakerListed` | inductive `StandingSeen`; the chosen key is the only one that can be newest, and no answer of the registry speaks against it |
| `RefusalsAreTrue`, `EmptyQueueIsTrue`, `FilingsAreTrue` | `[]RefusedIsNotQueued`, `[]ClearedIsGone`, `[]FiledIsOpen` | inductive together with `Correspond` (where a client is decides whether its call, the answer and its onion exist) and `Unqueued` (an onion leaves the queue only with the batch, by its broadcast or for another onion) |
| `TakerTypeCorrect`, `CoinsAreWellSpent`, `SoundRoutesPeel`, `DirectoriesPass`, `RefusedIsUnaffordable` | `[]TypeOK`, `[]OnionPaysItsCoin`, `[]SoundRoutePeels`, `[]DirectoryRoutePasses`, `[]NoAffordableRouteMissed` | inductive `PInv`: every onion is, layer by layer, the one that was built for its request and coin less what was peeled (`Onions`, `CarriedAt`), and every request is one the client can make (`Requests`). A hop with the right key takes off the pads that were put on for it and finds its layer (`RightKeyOpens`, `PeelsToTheNext`), and the blinds that are left sum to the output's (`MeetsIts`). A picked route is a least one by its wrapped sum (`PickedIsLeast`), which for a sum that fits is its fee, so one that the sidecar finds too dear is no dearer than any other three |
| `VaultTypeCorrect`, `RowsAreKept` | `[]TypeOK`; the two unique keys, and rows that only come | inductive as they stand; they do not need `~Rewrites` |
| `OffsetsMatch`, `TableImplemented` | `[]OffsetMatchesPartial`, `ImplementsTable` | inductive `VInv`: files are lines of receipts that were written, the last maybe cut (`WellWritten`); what is held with what is read on is the file from the start of a line (`HeldAndRead`), so every line split off is one written receipt (`LinesAreWhole`) and the new rest is the rest of the file (`RestFromLine`); a save then maps to `Store` of that receipt, the end of a line to `Emit` |
| `HangsAreShared` | `[]OneHangIsSurvived` | inductive `BInv`: until a relay takes all of it the round has 45 seconds left, or 15 and one relay that hung on its connection; the relays of the list are distinct |

`TypeOK` of the engine is inductive as it stands. Every safety property that a run
checks is stated by a theorem. Only model-checked: liveness
(`SoundOnionsAreBroadcast`, `DaemonsCloseCases`, `WrittenIsStored`,
`SteadyRelayStaysFresh`), which with fairness and `ENABLED` is out of the prover's
reach, and the three violations of section 4, which are behaviours.

The library's induction theorems cannot be instantiated here. What needs induction
over data (a sum over a finite set, the order of line ends in a file of any length)
is proved from a least counterexample: the natural numbers are well-founded
(`LeastOf`), so if a set of some size or position failed, a least one would, and it
is the step from the one before (`OrderedExists`, the sums in
`GrievanceCourt_proofs`). An onion has three hops, so nothing about one needs it.

## 6. Plan

1. Properties that relate components and that no module states yet: what
   `Defence` files from the vault is what `ReceiptVault` stored, and what the vault
   stores is what `RouteReceipts` recorded.
2. The safety halves of the liveness properties, as theorems: what the way of a
   sound onion, of a case or of a written receipt has gained is never lost again
   but for the causes the property names.

**Not modelled.** The dashboard's HTTP views and the ring of the operations log,
the desktop application, environment parsing beyond what decides whether a part
runs, the PGP-signed node list, balances, the mock bridge and RPC stub that tests
use, and the developer flag of coinswapd: they keep no state that a property could
be about, or are not part of a deployment. Wire formats are abstracted to what is
parsed or not, and cryptographic proofs are taken to be sound.
