-------------------------- MODULE MwixnetRegistry --------------------------
(***************************************************************************)
(* contracts/src/MwixnetRegistry.sol: stake, maker registration, the       *)
(* timelocked exit queue, and the freeze / slash entry points reserved to  *)
(* the grievance court.  The court's two view functions are parameters of  *)
(* the actions that call them; GrievanceCourt.tla supplies the answers.    *)
(***************************************************************************)
EXTENDS LitVMChain

CONSTANTS
    NoKey,           \* bytes32(0)
    KeyHashes,       \* the non-zero Nostr key hashes makers bind
    MinStake,
    CooldownPeriod,
    Amounts          \* bound: the values deposited and withdrawn

ASSUME RegistryAssumption ==
    /\ NoKey \notin KeyHashes
    /\ MinStake \in Nat
    /\ CooldownPeriod \in Nat
    /\ Amounts \subseteq Nat

VARIABLES
    grievanceCourt,      \* Zero until the owner wires the court
    stake,
    stakeFrozen,
    makerNostrKeyHash,
    exitUnlockTime       \* 0 when not in the exit queue

registryVars ==
    <<grievanceCourt, stake, stakeFrozen, makerNostrKeyHash, exitUnlockTime>>

RegistryTypeOK ==
    /\ grievanceCourt \in {Zero, Court}
    /\ stake \in [Address -> Nat]
    /\ stakeFrozen \in [Address -> BOOLEAN]
    /\ makerNostrKeyHash \in [Address -> KeyHashes \cup {NoKey}]
    /\ exitUnlockTime \in [Address -> Nat]

RegistryInit ==
    /\ grievanceCourt = Zero
    /\ stake = [m \in Address |-> 0]
    /\ stakeFrozen = [m \in Address |-> FALSE]
    /\ makerNostrKeyHash = [m \in Address |-> NoKey]
    /\ exitUnlockTime = [m \in Address |-> 0]

Registered(m) == makerNostrKeyHash[m] # NoKey
InExitQueue(m) == exitUnlockTime[m] # 0

\* The owner wires the judicial contract, once.
SetGrievanceCourt ==
    /\ grievanceCourt = Zero
    /\ grievanceCourt' = Court
    /\ UNCHANGED <<balance, stake, stakeFrozen, makerNostrKeyHash, exitUnlockTime>>

Deposit(m, amount) ==
    /\ balance[m] >= amount
    /\ stake' = [stake EXCEPT ![m] = @ + amount]
    /\ balance' = Paid(balance, m, Registry, amount)
    /\ UNCHANGED <<grievanceCourt, stakeFrozen, makerNostrKeyHash, exitUnlockTime>>

\* The hash is not checked: NoKey is accepted and clears the registration.
RegisterMaker(m, keyHash) ==
    /\ ~InExitQueue(m)
    /\ stake[m] >= MinStake
    /\ ~stakeFrozen[m]
    /\ makerNostrKeyHash' = [makerNostrKeyHash EXCEPT ![m] = keyHash]
    /\ UNCHANGED <<balance, grievanceCourt, stake, stakeFrozen, exitUnlockTime>>

Withdraw(m, amount) ==
    /\ ~Registered(m)
    /\ ~stakeFrozen[m]
    /\ stake[m] >= amount
    /\ CanPay(Registry, m, amount)
    /\ stake' = [stake EXCEPT ![m] = @ - amount]
    /\ balance' = Paid(balance, Registry, m, amount)
    /\ UNCHANGED <<grievanceCourt, stakeFrozen, makerNostrKeyHash, exitUnlockTime>>

RequestWithdrawal(m, openCount, lockUntil) ==
    /\ Registered(m)
    /\ ~InExitQueue(m)
    /\ grievanceCourt # Zero
    /\ openCount = 0
    /\ now >= lockUntil
    /\ ~stakeFrozen[m]
    /\ exitUnlockTime' = [exitUnlockTime EXCEPT ![m] = now + CooldownPeriod]
    /\ UNCHANGED <<balance, grievanceCourt, stake, stakeFrozen, makerNostrKeyHash>>

WithdrawStake(m, openCount, lockUntil) ==
    /\ InExitQueue(m)
    /\ now >= exitUnlockTime[m]
    /\ ~stakeFrozen[m]
    /\ grievanceCourt # Zero => openCount = 0 /\ now >= lockUntil
    /\ CanPay(Registry, m, stake[m])
    /\ stake' = [stake EXCEPT ![m] = 0]
    /\ makerNostrKeyHash' = [makerNostrKeyHash EXCEPT ![m] = NoKey]
    /\ exitUnlockTime' = [exitUnlockTime EXCEPT ![m] = 0]
    /\ balance' = Paid(balance, Registry, m, stake[m])
    /\ UNCHANGED <<grievanceCourt, stakeFrozen>>

-----------------------------------------------------------------------------
(* Entry points only the court may call; they are parts of its actions.    *)

\* Mutant: the freeze is forgotten.
FreezeNothing(m) == grievanceCourt = Court /\ UNCHANGED stakeFrozen

FreezeStake(m) ==
    /\ grievanceCourt = Court
    /\ stakeFrozen' = [stakeFrozen EXCEPT ![m] = TRUE]

UnfreezeStake(m) ==
    /\ grievanceCourt = Court
    /\ stakeFrozen' = [stakeFrozen EXCEPT ![m] = FALSE]

\* What slashStake removes from m when asked for `requested`.
Slashed(m, requested) == IF requested > stake[m] THEN stake[m] ELSE requested

\* Mutant: the wrong denominator.
PerMillePart(amount, bps) == (amount * bps) \div 1000

\* A fraction of an amount in basis points, rounded down.
BasisPart(amount, bps) == (amount * bps) \div 10000

\* Mutant: a slash never costs the registration.
SlashKeepsMaker(m, requested) ==
    /\ grievanceCourt = Court
    /\ stake' = [stake EXCEPT ![m] = @ - Slashed(m, requested)]
    /\ UNCHANGED <<makerNostrKeyHash, exitUnlockTime>>

\* Stake drops; a maker left below MinStake loses registration and queue
\* place.  A slash of nothing returns before that test.
SlashStake(m, requested) ==
    LET amount == Slashed(m, requested)
        dropped == amount # 0 /\ Registered(m) /\ stake[m] - amount < MinStake
    IN /\ grievanceCourt = Court
       /\ stake' = [stake EXCEPT ![m] = @ - amount]
       /\ makerNostrKeyHash' =
            IF dropped THEN [makerNostrKeyHash EXCEPT ![m] = NoKey] ELSE makerNostrKeyHash
       /\ exitUnlockTime' =
            IF dropped THEN [exitUnlockTime EXCEPT ![m] = 0] ELSE exitUnlockTime

\* Mutant: the remainder is never burned.
PaidWithoutBurn(bal, m, requested, accuser, bountyBps) ==
    Paid(bal, Registry, accuser, BasisPart(Slashed(m, requested), bountyBps))

\* The balances after slashStake pays the accuser's bounty and burns the rest.
SlashPaid(bal, m, requested, accuser, bountyBps) ==
    LET amount == Slashed(m, requested)
        bounty == BasisPart(amount, bountyBps)
    IN Paid(Paid(bal, Registry, accuser, bounty), Registry, Zero, amount - bounty)
=============================================================================
