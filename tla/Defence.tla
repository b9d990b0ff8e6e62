------------------------------ MODULE Defence ------------------------------
(***************************************************************************)
(* The daemons of the judicial layer, composed with the contracts: mlnd's  *)
(* defence watcher and accuser watcher (one process per operator) and the  *)
(* judge's mln-judge.  Each sees only the logs emitted while it is         *)
(* subscribed, keeps its work in memory, reads the chain and the vault at  *)
(* moments of its own, and sends transactions without waiting for them.    *)
(***************************************************************************)
EXTENDS GrievanceCourt, Sequences

CONSTANTS
    Daemons,           \* accounts whose owners run mlnd, as operator and as accuser
    Judge,             \* the mln-judge process
    Defending,         \* daemons with auto-defend on and no dry run
    Resolving,         \* daemons with auto-resolve on and no dry run
    AutoAdjudicate,    \* the judge's daemon rules by itself, and no dry run
    VerdictExonerate,  \* the verdict the judge's daemon is configured with
    Receipt,           \* bound: the receipts there are
    Arrivals,          \* bound: the vaults they may reach, (daemon, receipt)
    MaxFaults,         \* bound: failed calls to the node and lost transactions
    MaxCrashes         \* bound: ends of a process

ASSUME DefenceAssumption ==
    /\ Daemons \subseteq Address /\ Judge \notin Address
    /\ Defending \subseteq Daemons /\ Resolving \subseteq Daemons
    /\ AutoAdjudicate \in BOOLEAN /\ VerdictExonerate \in BOOLEAN
    /\ Receipt \subseteq [accuser : Address, accused : Address, evidence : Evidence]
    /\ Arrivals \subseteq Daemons \X Receipt
    /\ MaxFaults \in Nat /\ MaxCrashes \in Nat
    /\ Refusing = {}  \* the accounts of daemons and command line users are key pairs

VARIABLES
    running,   \* processes that run, subscribed
    logs,      \* log queue of each subscription, oldest first
    tasks,     \* work in memory: the case a handler is at, the goroutines that wait
    pool,      \* transactions sent and neither mined nor lost
    vault,     \* the receipts in each operator's database
    faults, crashes,
    dropped    \* history: (role, case, cause) of every piece of work given up

processVars == <<running, logs, tasks>>
daemonVars == <<processVars, pool, vault, faults, crashes, dropped>>
defenceVars == <<vars, daemonVars>>

Process == Daemons \cup {Judge}
Role == {"defend", "resolve", "rule"}
Opaque == [version |-> 0]
Data == {[version |-> 1, receipt |-> r] : r \in Receipt} \cup {Opaque}
Task == [role : Role, case : Case, step : {"poll", "phase", "head", "send"},
         tries : 0..2, data : Data]
Tx == [role : Role, case : Case, data : Data]
Log == [case : Case, data : Data]
Cause == {"down", "noReceipt", "mismatch", "noHead", "late", "refused", "gaveUp",
          "final", "notOpen", "noTx", "unreadable", "txLost", "off"}

DefenceTypeOK ==
    /\ TypeOK
    /\ running \subseteq Process
    /\ logs \in [Process -> Seq(Log)]
    /\ tasks \in [Process -> SUBSET Task]
    /\ pool \subseteq Tx
    /\ vault \in [Daemons -> SUBSET Receipt]
    /\ faults \in 0..MaxFaults /\ crashes \in 0..MaxCrashes
    /\ dropped \subseteq Role \X Case \X Cause

\* The contracts are deployed and wired, and every maker is registered with
\* the minimum stake; the daemons' owners have not started them yet.
DefenceInit ==
    /\ now = 1
    /\ grievanceCourt = Court
    /\ stake = [m \in Address |-> IF m \in Makers THEN MinStake ELSE 0]
    /\ balance = [a \in Account |-> IF a \in Address THEN Funds
                    ELSE IF a = Registry THEN MinStake * Cardinality(Makers) ELSE 0]
    /\ makerNostrKeyHash \in [Address -> KeyHashes \cup {NoKey}]
    /\ \A m \in Address : Registered(m) <=> m \in Makers
    /\ stakeFrozen = [m \in Address |-> FALSE]
    /\ exitUnlockTime = [m \in Address |-> 0]
    /\ grievances = [c \in Case |-> NoGrievance]
    /\ openGrievanceCountAgainst = [m \in Address |-> 0]
    /\ withdrawalLockUntil = [m \in Address |-> 0]
    /\ donated = 0
    /\ running = {}
    /\ logs = [p \in Process |-> <<>>]
    /\ tasks = [p \in Process |-> {}]
    /\ pool = {}
    /\ vault = [d \in Daemons |-> {}]
    /\ faults = 0 /\ crashes = 0
    /\ dropped = {}

-----------------------------------------------------------------------------
(* Work in memory.                                                         *)

NewTask(role, c, step, data) ==
    [role |-> role, case |-> c, step |-> step, tries |-> 0, data |-> data]

Add(p, t) == tasks' = [tasks EXCEPT ![p] = @ \cup {t}]
Replace(p, t, u) == tasks' = [tasks EXCEPT ![p] = (@ \ {t}) \cup {u}]
Remove(p, t) == tasks' = [tasks EXCEPT ![p] = @ \ {t}]
GiveUp(role, c, cause) == dropped' = dropped \cup {<<role, c, cause>>}

\* A log is handled to its end before the next one is read.
Free(p) == ~\E t \in tasks[p] : t.role \in {"defend", "rule"}

\* Unread logs and unfinished tasks, as they are lost with the process.
UnreadCases(p) == {logs[p][i].case : i \in 1..Len(logs[p])}
Undone(p) ==
    {<<t.role, t.case, "down">> : t \in tasks[p]} \cup
    {<<IF p = Judge THEN "rule" ELSE "defend", c, "down">> : c \in UnreadCases(p)}

Fault == faults < MaxFaults /\ faults' = faults + 1

-----------------------------------------------------------------------------
(* The chain as the daemons see it.                                        *)

Acceptable(tx) ==
    LET g == grievances[tx.case]
    IN \/ tx.role = "defend" /\ g.phase = "Open"
       \/ tx.role = "resolve" /\ g.phase = "Open" /\ now >= g.deadline
       \/ tx.role = "rule" /\ g.phase = "Contested"

\* A log reaches the subscription of p, if p is subscribed.
Notify(p, c, data) ==
    [logs EXCEPT ![p] = IF p \in running THEN Append(@, [case |-> c, data |-> data]) ELSE @]

\* openGrievance: its log goes to the accused's watcher and to the accuser's,
\* which starts a goroutine that waits for the deadline.
OpenCase(c, bond) ==
    LET waits == c.accuser \in Resolving \cap running
    IN /\ OpenGrievance(c, bond)
       /\ logs' = Notify(c.accused, c, Opaque)
       /\ IF waits THEN Add(c.accuser, NewTask("resolve", c, "poll", Opaque))
                   ELSE UNCHANGED tasks
       /\ dropped' = dropped
            \cup (IF c.accused \in running THEN {} ELSE {<<"defend", c, "down">>})
            \cup (IF waits THEN {} ELSE {<<"resolve", c, "down">>})
       /\ UNCHANGED <<running, pool, vault, faults, crashes>>

\* The log of a defence, with its calldata, goes to the judge.
Contest(c, data) ==
    /\ DefendGrievance(c)
    /\ logs' = Notify(Judge, c, data)
    /\ dropped' = IF Judge \in running THEN dropped
                  ELSE dropped \cup {<<"rule", c, "down">>}
    /\ UNCHANGED <<running, tasks, vault, faults, crashes>>

\* A pending transaction enters a block and takes effect, or reverts.
Mine(tx) ==
    /\ tx \in pool
    /\ pool' = pool \ {tx}
    /\ \/ tx.role = "defend" /\ Contest(tx.case, tx.data)
       \/ /\ \/ tx.role = "resolve" /\ ResolveGrievance(tx.case)
             \/ tx.role = "rule" /\ AdjudicateGrievance(tx.case, VerdictExonerate)
             \/ ~Acceptable(tx) /\ UNCHANGED vars
          /\ UNCHANGED <<processVars, vault, faults, crashes, dropped>>

\* The network forgets a transaction; its sender does not look again.
LoseTx(tx) ==
    /\ tx \in pool /\ Fault
    /\ pool' = pool \ {tx}
    /\ GiveUp(tx.role, tx.case, "txLost")
    /\ UNCHANGED <<vars, processVars, vault, crashes>>

\* What owners do by hand: anybody resolves, the maker answers with data of
\* its own making, the judge rules.
ByHand(c) ==
    \/ ResolveGrievance(c) /\ UNCHANGED daemonVars
    \/ Contest(c, Opaque) /\ UNCHANGED pool
    \/ \E e \in BOOLEAN : AdjudicateGrievance(c, e) /\ UNCHANGED daemonVars

\* Blocks do not wait for the daemons.
Block == NextBlock /\ UNCHANGED daemonVars

-----------------------------------------------------------------------------
(* Processes.                                                              *)

\* Subscribes to new logs; what was emitted before is not asked for.
Start(p) ==
    /\ p \notin running
    /\ running' = running \cup {p}
    /\ UNCHANGED <<vars, logs, tasks, pool, vault, faults, crashes, dropped>>

\* A signal, a broken subscription, or an error of any other part of mlnd
\* (one errgroup) ends the process; logs unread and work undone are lost.
Crash(p) ==
    /\ p \in running /\ crashes < MaxCrashes
    /\ crashes' = crashes + 1
    /\ running' = running \ {p}
    /\ logs' = [logs EXCEPT ![p] = <<>>]
    /\ tasks' = [tasks EXCEPT ![p] = {}]
    /\ dropped' = dropped \cup Undone(p)
    /\ UNCHANGED <<vars, pool, vault, faults>>

\* A receipt reaches the database of an operator, one per evidence hash.
Ingest(d, r) ==
    /\ <<d, r>> \in Arrivals
    /\ \A s \in vault[d] : s.evidence # r.evidence
    /\ vault' = [vault EXCEPT ![d] = @ \cup {r}]
    /\ UNCHANGED <<vars, processVars, pool, faults, crashes, dropped>>

-----------------------------------------------------------------------------
(* Sending a transaction.                                                  *)

\* Mutant: a failed call is not tried again.
RetryNever(p, t, again, cause) == Remove(p, t) /\ GiveUp(t.role, t.case, cause)

\* Mutant: one try too many.
RetryFour(p, t, again, cause) ==
    IF t.tries + 1 < 4
    THEN Replace(p, t, [again EXCEPT !.tries = t.tries + 1]) /\ UNCHANGED dropped
    ELSE Remove(p, t) /\ GiveUp(t.role, t.case, cause)

\* After an error that another try may cure: from task `again`, three in all.
Retry(p, t, again, cause) ==
    IF t.tries + 1 < 3
    THEN Replace(p, t, [again EXCEPT !.tries = t.tries + 1]) /\ UNCHANGED dropped
    ELSE Remove(p, t) /\ GiveUp(t.role, t.case, cause)

\* One try: the estimate reverts; the node takes the transaction; the call
\* fails, with the transaction taken or not; or the error is one that no other
\* try cures (isRetryableSubmitErr, retryable): the account is short of funds,
\* or the text speaks of a revert.  It depends on the account and the node, not
\* on their luck, so it counts as no fault.
Attempt(p, t, again) ==
    LET tx == [role |-> t.role, case |-> t.case, data |-> t.data]
    IN \/ /\ ~Acceptable(tx)
          /\ Remove(p, t) /\ GiveUp(t.role, t.case, "refused")
          /\ UNCHANGED <<pool, faults>>
       \/ /\ Acceptable(tx)
          /\ Remove(p, t) /\ pool' = pool \cup {tx}
          /\ UNCHANGED <<dropped, faults>>
       \/ /\ Fault
          /\ pool' = pool \/ (Acceptable(tx) /\ pool' = pool \cup {tx})
          /\ Retry(p, t, again, "gaveUp")
       \/ /\ Remove(p, t) /\ GiveUp(t.role, t.case, "final")
          /\ UNCHANGED <<pool, faults>>

-----------------------------------------------------------------------------
(* The defence watcher.                                                    *)

\* Mutant: any receipt with the evidence hash is good enough.
MatchesHash(c, r) == r.evidence = c.evidence

\* The stored receipt is about this grievance: same parties and evidence.
ValidateReceiptForGrievance(c, r) ==
    r.accused = c.accused /\ r.accuser = c.accuser /\ r.evidence = c.evidence

BuildDefenseData(r) == [version |-> 1, receipt |-> r]

\* The next log is looked up in the vault, once; without a matching receipt,
\* or with auto-defend off, the case is left to the operator.
TakeLog(d) ==
    LET c == Head(logs[d]).case
        found == {r \in vault[d] : r.evidence = c.evidence}
        good == {r \in found : ValidateReceiptForGrievance(c, r)}
    IN /\ d \in running /\ Free(d) /\ logs[d] # <<>>
       /\ logs' = [logs EXCEPT ![d] = Tail(@)]
       /\ IF good # {} /\ d \in Defending
          THEN /\ \E r \in good : Add(d, NewTask("defend", c, "head", BuildDefenseData(r)))
               /\ UNCHANGED dropped
          ELSE /\ GiveUp("defend", c, IF found = {} THEN "noReceipt"
                                      ELSE IF good = {} THEN "mismatch" ELSE "off")
               /\ UNCHANGED tasks
       /\ UNCHANGED <<vars, running, pool, vault, faults, crashes>>

ChainTimeBeforeDeadline(c) == now < grievances[c].deadline

\* The head is read once: late, or unreadable, means no defence.
CheckDeadline(d, t) ==
    /\ t.role = "defend" /\ t.step = "head"
    /\ \/ /\ ChainTimeBeforeDeadline(t.case)
          /\ Replace(d, t, [t EXCEPT !.step = "send"])
          /\ UNCHANGED <<dropped, faults>>
       \/ /\ ~ChainTimeBeforeDeadline(t.case)
          /\ Remove(d, t) /\ GiveUp("defend", t.case, "late") /\ UNCHANGED faults
       \/ Fault /\ Remove(d, t) /\ GiveUp("defend", t.case, "noHead")
    /\ UNCHANGED <<vars, running, logs, pool, vault, crashes>>

SubmitDefend(d, t) ==
    /\ t.role = "defend" /\ t.step = "send"
    /\ Attempt(d, t, t)
    /\ UNCHANGED <<vars, running, logs, vault, crashes>>

-----------------------------------------------------------------------------
(* The accuser watcher: one goroutine per case.                            *)

\* Mutant: the head is looked at once.
PollOnce(d, t) ==
    /\ t.role = "resolve" /\ t.step = "poll"
    /\ IF now >= grievances[t.case].deadline
       THEN Replace(d, t, [t EXCEPT !.step = "phase"])
       ELSE Remove(d, t)
    /\ UNCHANGED <<vars, running, logs, pool, vault, faults, crashes, dropped>>

\* Polls the head until the deadline; a head that cannot be read is polled
\* again.
WaitAndResolve(d, t) ==
    /\ t.role = "resolve" /\ t.step = "poll"
    /\ now >= grievances[t.case].deadline
    /\ Replace(d, t, [t EXCEPT !.step = "phase"])
    /\ UNCHANGED <<vars, running, logs, pool, vault, faults, crashes, dropped>>

\* Before a try the head and the phase are read; an answer other than Open
\* is an error like any other, tried again.
ReadPhase(d, t) ==
    /\ t.role = "resolve" /\ t.step = "phase"
    /\ \/ /\ grievances[t.case].phase = "Open"
          /\ Replace(d, t, [t EXCEPT !.step = "send"])
          /\ UNCHANGED <<dropped, faults>>
       \/ grievances[t.case].phase # "Open" /\ Retry(d, t, t, "notOpen") /\ UNCHANGED faults
       \/ Fault /\ Retry(d, t, t, "gaveUp")
    /\ UNCHANGED <<vars, running, logs, pool, vault, crashes>>

SubmitResolve(d, t) ==
    /\ t.role = "resolve" /\ t.step = "send"
    /\ Attempt(d, t, [t EXCEPT !.step = "phase"])
    /\ UNCHANGED <<vars, running, logs, vault, crashes>>

-----------------------------------------------------------------------------
(* The judge's daemon.                                                     *)

\* Only a version 1 tuple is read; whose receipt it is, is not checked.
UnpackDefenseV1(data) == data.version = 1

\* The defence is fetched, once, and read; a verdict is sent only when told to,
\* and only if the chain id can be read, once.
HandleContested ==
    LET lg == Head(logs[Judge])
        task == NewTask("rule", lg.case, "send", lg.data)
    IN /\ Judge \in running /\ Free(Judge) /\ logs[Judge] # <<>>
       /\ logs' = [logs EXCEPT ![Judge] = Tail(@)]
       /\ \/ /\ UnpackDefenseV1(lg.data) /\ AutoAdjudicate
             /\ Add(Judge, task) /\ UNCHANGED <<dropped, faults>>
          \/ /\ ~(UnpackDefenseV1(lg.data) /\ AutoAdjudicate)
             /\ GiveUp("rule", lg.case, IF AutoAdjudicate THEN "unreadable" ELSE "off")
             /\ UNCHANGED <<tasks, faults>>
          \/ Fault /\ GiveUp("rule", lg.case, "noTx") /\ UNCHANGED tasks
       /\ UNCHANGED <<vars, running, pool, vault, crashes>>

SubmitVerdict(t) ==
    /\ t.role = "rule"
    /\ Attempt(Judge, t, t)
    /\ UNCHANGED <<vars, running, logs, vault, crashes>>

-----------------------------------------------------------------------------

DaemonStep(d) ==
    \/ TakeLog(d)
    \/ \E t \in tasks[d] : CheckDeadline(d, t) \/ SubmitDefend(d, t)
                           \/ WaitAndResolve(d, t) \/ ReadPhase(d, t) \/ SubmitResolve(d, t)

JudgeStep == HandleContested \/ \E t \in tasks[Judge] : SubmitVerdict(t)

DefenceNext ==
    \/ \E c \in Case, bond \in Bonds : OpenCase(c, bond)
    \/ \E tx \in pool : Mine(tx) \/ LoseTx(tx)
    \/ \E c \in Case : ByHand(c)
    \/ Block
    \/ \E p \in Process : Start(p) \/ Crash(p)
    \/ \E d \in Daemons, r \in Receipt : Ingest(d, r)
    \/ \E d \in Daemons : DaemonStep(d)
    \/ JudgeStep

DefenceSpec == DefenceInit /\ [][DefenceNext]_defenceVars

\* Blocks come and hold the transactions that are not lost; a goroutine that
\* can go on does.
DefenceFairness ==
    /\ WF_defenceVars(Block)
    /\ \A role \in Role, c \in Case :
          WF_defenceVars(\E tx \in pool : tx.role = role /\ tx.case = c /\ Mine(tx))
    /\ \A d \in Daemons :
          /\ WF_defenceVars(TakeLog(d))
          /\ \A c \in Case :
               /\ WF_defenceVars(\E t \in tasks[d] : t.case = c /\ (CheckDeadline(d, t) \/ SubmitDefend(d, t)))
               /\ WF_defenceVars(\E t \in tasks[d] : t.case = c /\ (WaitAndResolve(d, t) \/ ReadPhase(d, t) \/ SubmitResolve(d, t)))
    /\ WF_defenceVars(JudgeStep)

FairDefence == DefenceSpec /\ DefenceFairness

-----------------------------------------------------------------------------

Because(role, c, causes) == \E cause \in causes : <<role, c, cause>> \in dropped

\* Three calls failed, and the work was given up after a third try.
OutOfTries(role, c) == faults >= 3 /\ Because(role, c, {"gaveUp"})

\* The accused's daemon is still at it: the log unread, the handler under way,
\* or the defence pending.
InHand(c) ==
    LET d == c.accused
    IN \/ d \in running /\ (c \in UnreadCases(d) \/ \E t \in tasks[d] : t.role = "defend" /\ t.case = c)
       \/ \E tx \in pool : tx.role = "defend" /\ tx.case = c

\* A case against an operator that auto-defends is lost by silence only
\* because its daemon did not run when the log came or lost it, the vault had
\* no receipt of this grievance when it was looked up, the head could not be
\* read, an error was final, three calls failed, the network lost the
\* transaction, or the deadline came while the defence was still in hand
\* (watcher.go, defender.go).  However slow the daemon and however many calls
\* fail, no work on an open case disappears otherwise.
SilenceHasACause ==
    [][\A c \in Case :
          /\ c.accused \in Defending
          /\ grievances[c].phase = "Open" /\ grievances'[c].phase = "ResolvedSlash"
          => \/ Because("defend", c, {"down", "noReceipt", "mismatch", "noHead", "late", "final", "txLost"})
             \/ OutOfTries("defend", c)
             \/ InHand(c) /\ ~ChainTimeBeforeDeadline(c)]_defenceVars

\* The daemons rule only where the case was answered with a receipt: a verdict
\* is sent for calldata the judge could read, and a defence only with the
\* receipt of that grievance (ValidateReceiptForGrievance, handleContested).
SentWithReceipt ==
    \A tx \in pool :
        /\ tx.role = "defend" => tx.data.receipt = tx.case
        /\ tx.role = "rule" => tx.data.version = 1

\* A case nobody answers ends, unless the accuser's daemon did not run, met a
\* final error or three failed calls, or the network lost its transaction; and
\* an answered one ends, unless the judge's daemon did not run, could not fetch
\* or read the defence, is not told to rule, met such errors, or its
\* transaction was lost.
DaemonsCloseCases ==
    \A c \in Case :
        /\ grievances[c].phase = "Open" ~>
              \/ grievances[c].phase # "Open"
              \/ Because("resolve", c, {"down", "final", "txLost"}) \/ OutOfTries("resolve", c)
        /\ grievances[c].phase = "Contested" ~>
              \/ Resolved(c)
              \/ Because("rule", c, {"down", "noTx", "unreadable", "off", "final", "txLost"})
              \/ OutOfTries("rule", c)
=============================================================================
