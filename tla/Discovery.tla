----------------------------- MODULE Discovery -----------------------------
(***************************************************************************)
(* mln-cli's two clients of the registry, composed with the contracts: the *)
(* maker's `maker onboard`, which reads the maker's entry, plans, and      *)
(* sends up to two transactions; and the taker's `scout`, which collects   *)
(* maker ads from relays and checks the newest of an operator against the  *)
(* registry.  Both read an entry with one eth_call per field, and between  *)
(* any two of them anybody else's transaction may be mined.                *)
(***************************************************************************)
EXTENDS GrievanceCourt, Sequences

CONSTANTS
    Run,         \* runs of `maker onboard`
    Operator,    \* the maker whose key a run signs with
    Key,         \* the Nostr key a run binds
    Forced,      \* runs with -force-reregister
    Executing,   \* runs with -execute; the others are dry
    Ads          \* bound: the maker ads relays may deliver

ASSUME DiscoveryAssumption ==
    /\ Operator \in [Run -> Makers] /\ Key \in [Run -> KeyHashes]
    /\ Forced \subseteq Run /\ Executing \subseteq Run
    /\ Ads \subseteq [operator : Makers, key : KeyHashes, at : Nat, accepted : BOOLEAN]
    /\ IsFiniteSet(Ads)

VARIABLES
    step,        \* how far each onboarding run has come
    plan,        \* what a run has read, and the deposit it plans
    outbox,      \* transactions of each maker's account, in nonce order
    scout,       \* the scout's step, the operator, the key of the ad it chose,
                 \* what it has read; and the keys it should choose (history)
    undermined,  \* history: runs whose maker lost stake, was frozen or asked to
                 \* leave since the run's first read
    rebound,     \* history: runs whose maker was given a key since then
    silent,      \* history: runs whose registration reverted
    held,        \* history: in every state of the scouting the operator was valid
                 \* under a key of its newest ad
    everValid,   \* history: in some state it was valid under the chosen key
    struckOff    \* history: it lost its registration while frozen or leaving

onboardVars == <<step, plan, outbox, undermined, rebound, silent>>
scoutVars == <<scout, held, everValid, struckOff>>
discoveryVars == <<vars, onboardVars, scoutVars>>

Field == {"stake", "hash", "frozen", "exit"}
Blank == [stake |-> 0, hash |-> NoKey, frozen |-> FALSE, exit |-> 0]

\* What the registry's views answer about m; minStake never changes.
Entry(m) == [stake |-> stake[m], hash |-> makerNostrKeyHash[m],
             frozen |-> stakeFrozen[m], exit |-> exitUnlockTime[m]]

Seen == [stake : Nat, hash : KeyHashes \cup {NoKey}, frozen : BOOLEAN, exit : Nat]
RunStep == Field \cup {"plan", "deposit", "depositWait", "register", "registerWait",
                       "done", "ended"}
Tx == [run : Run, kind : {"deposit", "register"}]
ScoutStep == Field \cup {"idle", "decide", "listed", "rejected"}

DiscoveryTypeOK ==
    /\ TypeOK
    /\ step \in [Run -> RunStep]
    /\ plan \in [Run -> [seen : Seen, deposit : Nat]]
    /\ outbox \in [Makers -> Seq(Tx)]
    /\ scout \in [step : ScoutStep, operator : Makers, key : KeyHashes \cup {NoKey},
                  newest : SUBSET KeyHashes, seen : Seen]
    /\ undermined \subseteq Run /\ rebound \subseteq Run /\ silent \subseteq Run
    /\ held \in BOOLEAN /\ everValid \in BOOLEAN /\ struckOff \in BOOLEAN

NoPlan == [seen |-> Blank, deposit |-> 0]
NotScouting(result, m) ==
    [step |-> result, operator |-> m, key |-> NoKey, newest |-> {}, seen |-> Blank]
Scouting == scout.step \in Field \cup {"decide"}

DiscoveryInit ==
    /\ Init
    /\ step = [r \in Run |-> "stake"]
    /\ plan = [r \in Run |-> NoPlan]
    /\ outbox = [m \in Makers |-> <<>>]
    /\ scout \in {NotScouting("idle", m) : m \in Makers}
    /\ undermined = {} /\ rebound = {} /\ silent = {}
    /\ held = FALSE /\ everValid = FALSE /\ struckOff = FALSE

-----------------------------------------------------------------------------
(* History, taken along by every step.                                     *)

\* The policy of decideMakerVerified, for a maker with this entry.
Verified(entry, key) ==
    /\ entry.hash = key /\ entry.exit = 0 /\ ~entry.frozen /\ entry.stake >= MinStake

Valid(m, keys) == \E k \in keys : Verified(Entry(m), k)

Undermines(m) ==
    \/ stake'[m] < stake[m] \/ (stakeFrozen'[m] /\ ~stakeFrozen[m])
    \/ (exitUnlockTime'[m] # 0 /\ exitUnlockTime[m] = 0)

Rebinds(m) == makerNostrKeyHash'[m] \notin {makerNostrKeyHash[m], NoKey}

StruckOff(m) ==
    /\ Registered(m) /\ makerNostrKeyHash'[m] = NoKey
    /\ stakeFrozen[m] \/ InExitQueue(m)

Sent(r) == \E i \in 1..Len(outbox[Operator[r]]) : outbox[Operator[r]][i].run = r
Active(r) == step[r] \notin {"stake", "done", "ended"} \/ Sent(r)

\* A transaction that is mined, or a block, beside the clients.
Remember ==
    /\ UNCHANGED scout
    /\ undermined' = undermined \cup {r \in Run : Active(r) /\ Undermines(Operator[r])}
    /\ rebound' = rebound \cup {r \in Run : Active(r) /\ Rebinds(Operator[r])}
    /\ held' = (held /\ Valid(scout.operator, scout.newest)')
    /\ everValid' = (everValid \/ (Scouting /\ Valid(scout.operator, {scout.key})'))
    /\ struckOff' = (struckOff \/ (Scouting /\ StruckOff(scout.operator)))

\* A step of a run that mines nothing.
Local == UNCHANGED <<vars, undermined, rebound, silent, scoutVars>>

-----------------------------------------------------------------------------
(* mln-cli maker onboard.                                                  *)

After(f) == CASE f = "stake" -> "hash" [] f = "hash" -> "frozen"
              [] f = "frozen" -> "exit" [] f = "exit" -> "plan"

\* One eth_call; an error ends the run.
ReadMakerState(r) ==
    /\ step[r] \in Field
    /\ \/ /\ plan' = [plan EXCEPT ![r].seen[step[r]] = Entry(Operator[r])[step[r]]]
          /\ step' = [step EXCEPT ![r] = After(@)]
       \/ step' = [step EXCEPT ![r] = "ended"] /\ UNCHANGED plan
    /\ UNCHANGED outbox /\ Local

\* Mutant: a maker with more than the minimum is paid back.
MissingSigned(seen) == MinStake - seen.stake

Missing(seen) == IF seen.stake < MinStake THEN MinStake - seen.stake ELSE 0
Already(r, seen) == seen.hash = Key[r] /\ seen.stake >= MinStake
Foreign(r, seen) == seen.hash \notin {NoKey, Key[r]} /\ r \notin Forced

\* Mutant: a frozen stake is overlooked.
PlanFrozen(r, seen) ==
    IF seen.exit # 0 THEN "ended"
    ELSE IF Already(r, seen) THEN "done"
    ELSE IF Foreign(r, seen) THEN "ended"
    ELSE IF r \notin Executing THEN "done"
    ELSE IF Missing(seen) > 0 THEN "deposit" ELSE "register"

\* Mutant: another key is overwritten without being asked to.
PlanForced(r, seen) ==
    IF seen.exit # 0 \/ seen.frozen THEN "ended"
    ELSE IF Already(r, seen) \/ r \notin Executing THEN "done"
    ELSE IF Missing(seen) > 0 THEN "deposit" ELSE "register"

\* What RunOnboard decides to do next from what it has read; it stops with an
\* error where it must not register.
Decision(r, seen) ==
    IF seen.exit # 0 \/ seen.frozen THEN "ended"
    ELSE IF Already(r, seen) THEN "done"
    ELSE IF Foreign(r, seen) THEN "ended"
    ELSE IF r \notin Executing THEN "done"
    ELSE IF Missing(seen) > 0 THEN "deposit" ELSE "register"

\* The balance is looked at once, before the first transaction.
RunOnboard(r) ==
    LET deposit == Missing(plan[r].seen)
        next == Decision(r, plan[r].seen)
        poor == next \in {"deposit", "register"} /\ balance[Operator[r]] < deposit
    IN /\ step[r] = "plan"
       /\ step' = [step EXCEPT ![r] = IF poor THEN "ended" ELSE next]
       /\ plan' = [plan EXCEPT ![r] = [NoPlan EXCEPT !.deposit = deposit]]
       /\ UNCHANGED outbox /\ Local

\* The node takes the transaction, also when its estimate says that it will
\* revert; or it refuses it, and the run ends with the error.
SendLegacyTx(r, kind) ==
    LET m == Operator[r]
    IN /\ step[r] = kind
       /\ \/ /\ outbox' = [outbox EXCEPT ![m] = Append(@, [run |-> r, kind |-> kind])]
             /\ step' = [step EXCEPT ![r] = IF kind = "deposit" THEN "depositWait" ELSE "registerWait"]
          \/ step' = [step EXCEPT ![r] = "ended"] /\ UNCHANGED outbox
       /\ UNCHANGED plan /\ Local

\* The operator interrupts a run; what it has sent is sent.
Interrupt(r) ==
    /\ step[r] \in {"depositWait", "registerWait"}
    /\ step' = [step EXCEPT ![r] = "ended"]
    /\ UNCHANGED <<plan, outbox>> /\ Local

\* A transaction takes effect or reverts; a run that waits for it goes on
\* either way, because it does not look at the status.  A deposit that cannot
\* be paid waits, and those behind it.
Mine(m) ==
    LET tx == Head(outbox[m])
        effect == IF tx.kind = "deposit" THEN Deposit(m, plan[tx.run].deposit)
                                         ELSE RegisterMaker(m, Key[tx.run])
        accepted == \/ tx.kind = "deposit"
                    \/ ~InExitQueue(m) /\ stake[m] >= MinStake /\ ~stakeFrozen[m]
        waited == [from |-> IF tx.kind = "deposit" THEN "depositWait" ELSE "registerWait",
                   to |-> IF tx.kind = "deposit" THEN "register" ELSE "done"]
    IN /\ outbox[m] # <<>>
       /\ outbox' = [outbox EXCEPT ![m] = Tail(@)]
       /\ IF accepted THEN effect /\ UNCHANGED <<now, courtVars>> ELSE UNCHANGED vars
       /\ silent' = IF ~accepted /\ step[tx.run] = "registerWait" THEN silent \cup {tx.run} ELSE silent
       /\ step' = [step EXCEPT ![tx.run] = IF @ = waited.from THEN waited.to ELSE @]
       /\ Remember /\ UNCHANGED plan

-----------------------------------------------------------------------------
(* mln-cli scout.                                                          *)

\* Mutant: the ad that arrived first is kept.
AnyAd(ads) == ads

\* The newest ad; of several with one created_at the first to arrive.
Latest(ads) == {ad \in ads : \A other \in ads : other.at <= ad.at}

\* The key of an ad that is newer than every ad under another key.
NewestKeys(ads) ==
    {k \in KeyHashes : \E ad \in ads : ad.key = k /\ \A o \in ads : o.key # k => o.at < ad.at}

\* Relays deliver some ads; those with a bad signature or content, or for
\* another chain or deployment, are rejected at once (accepted = FALSE).
Collect(m, delivered) ==
    LET good == {ad \in delivered : ad.operator = m /\ ad.accepted}
    IN /\ ~Scouting
       /\ \E ad \in Latest(good) :
             /\ scout' = [step |-> "hash", operator |-> m, key |-> ad.key,
                          newest |-> NewestKeys(good), seen |-> Blank]
             /\ everValid' = Valid(m, {ad.key})
       /\ held' = Valid(m, NewestKeys(good)) /\ struckOff' = FALSE
       /\ UNCHANGED <<vars, onboardVars>>

Following(f) == CASE f = "hash" -> "stake" [] f = "stake" -> "frozen"
              [] f = "frozen" -> "exit" [] f = "exit" -> "decide"

\* The operator is done with; what is known of it is dropped.
Ends(result) ==
    /\ scout' = NotScouting(result, scout.operator)
    /\ held' = FALSE /\ everValid' = FALSE /\ struckOff' = FALSE

\* One eth_call of VerifyMaker; an error rejects the operator unread.
VerifyMaker ==
    /\ scout.step \in Field
    /\ \/ /\ scout' = [scout EXCEPT !.seen[scout.step] = Entry(scout.operator)[scout.step],
                                    !.step = Following(scout.step)]
          /\ UNCHANGED <<held, everValid, struckOff>>
       \/ Ends("rejected")
    /\ UNCHANGED <<vars, onboardVars>>

\* Mutant: makers in the exit queue are listed.
DecideLeaving(seen, key) == seen.hash = key /\ ~seen.frozen /\ seen.stake >= MinStake

DecideMakerVerified(seen, key) == Verified(seen, key)

ListMaker ==
    /\ scout.step = "decide"
    /\ Ends(IF DecideMakerVerified(scout.seen, scout.key) THEN "listed" ELSE "rejected")
    /\ UNCHANGED <<vars, onboardVars>>

\* What the maker's own dashboard says of an entry.
VerifyMakerOnChain(entry, key) ==
    entry.hash = key /\ ~entry.frozen /\ entry.stake >= MinStake

-----------------------------------------------------------------------------

\* Transactions of anybody, and blocks.
Chain == Next /\ Remember /\ UNCHANGED <<step, plan, outbox, silent>>

DiscoveryNext ==
    \/ Chain
    \/ \E m \in Makers : Mine(m)
    \/ \E r \in Run :
          \/ ReadMakerState(r) \/ RunOnboard(r) \/ Interrupt(r)
          \/ \E kind \in {"deposit", "register"} : SendLegacyTx(r, kind)
    \/ \E m \in Makers, delivered \in SUBSET Ads : Collect(m, delivered)
    \/ VerifyMaker \/ ListMaker

DiscoverySpec == DiscoveryInit /\ [][DiscoveryNext]_discoveryVars

-----------------------------------------------------------------------------

\* onboard does not look at the status of its registration.  Still, one that
\* it sent reverts only if, after the run began to read, the maker lost stake,
\* was frozen or asked to leave: the four answers, read one by one, the
\* deposit in between and the nonce order leave no other way (RunOnboard).
RevertHasACause == silent \subseteq undermined

\* Without -force-reregister a run replaces a key other than its own only if
\* that key was bound after the run began to read (RunOnboard).
UnforcedKeepsKeys ==
    [][\A r \in Run : \A m \in Makers :
          /\ outbox[m] # <<>> /\ outbox'[m] = Tail(outbox[m]) /\ Head(outbox[m]).run = r
          /\ makerNostrKeyHash[m] # makerNostrKeyHash'[m] /\ Registered(m)
          => r \in Forced \/ r \in rebound]_discoveryVars

\* A maker that the scout lists satisfied the whole policy at one moment of
\* the scouting, although the fields were read at four; except for one that
\* lost its registration meanwhile, by a verdict or by leaving (VerifyMaker).
ListedWasValid ==
    [][scout.step = "decide" /\ scout'.step = "listed"
          => everValid \/ struckOff]_discoveryVars

\* A maker that stays valid under its key all the time, and whose newest ad is
\* under that key, is not rejected for what the registry answered; for a call
\* that fails it is, which the reason of the rejection tells (Run of scout,
\* VerifyMaker).
StandingMakerListed ==
    [][scout.step = "decide" /\ scout'.step = "rejected" => ~held]_discoveryVars

\* The dashboard's registryOk for a maker is the scout's verdict on it
\* (VerifyMakerOnChain of mlnd, decideMakerVerified of mln-cli).
DashboardAgreesWithScout ==
    \A m \in Makers, k \in KeyHashes :
        VerifyMakerOnChain(Entry(m), k) <=> DecideMakerVerified(Entry(m), k)
=============================================================================
