--------------------------- MODULE GrievanceCourt ---------------------------
(***************************************************************************)
(* contracts/src/GrievanceCourt.sol composed with the registry it drives:  *)
(* the judicial layer.  A grievance is named by (accuser, accused,         *)
(* evidence), where `evidence` stands for the pair (epochId, evidenceHash) *)
(* that the grievance id hashes with the two addresses.                    *)
(***************************************************************************)
EXTENDS MwixnetRegistry, FiniteSets

CONSTANTS
    Makers,            \* bound: the addresses that call the registry and are accused
    Accusers,          \* bound: the addresses that open cases; they may be makers
    Bonds,             \* bound: the values sent with openGrievance
    Evidence,          \* the (epochId, evidenceHash) pairs accusers commit to
    ChallengeWindow,
    GrievanceBondMin,
    SlashBps,
    BountyBps,         \* burnBps is 10000 - BountyBps, forced by the constructor
    SlashingWindow,
    Donations          \* bound: amounts sent to the court's bare receive()

ASSUME CourtAssumption ==
    /\ Makers \subseteq Address /\ Accusers \subseteq Address
    /\ Bonds \subseteq Nat
    /\ ChallengeWindow \in Nat
    /\ GrievanceBondMin \in Nat
    /\ SlashBps \in Nat /\ SlashBps <= 10000
    /\ BountyBps \in Nat /\ BountyBps <= 10000
    /\ SlashingWindow \in Nat
    /\ Donations \subseteq Nat
    /\ IsFiniteSet(Address)
    /\ IsFiniteSet(Makers) /\ IsFiniteSet(Accusers) /\ IsFiniteSet(Evidence)

VARIABLES
    grievances,                 \* phase, deadline and bond of every case
    openGrievanceCountAgainst,
    withdrawalLockUntil,
    donated                     \* history: what receive() has been sent

courtVars == <<grievances, openGrievanceCountAgainst, withdrawalLockUntil, donated>>
vars == <<now, balance, registryVars, courtVars>>

Case == [accuser : Accusers, accused : Makers, evidence : Evidence]
Phase == {"None", "Open", "Contested", "ResolvedSlash", "ResolvedExonerate"}
NoGrievance == [phase |-> "None", deadline |-> 0, bondAmount |-> 0]

Live(c) == grievances[c].phase \in {"Open", "Contested"}
Resolved(c) == grievances[c].phase \in {"ResolvedSlash", "ResolvedExonerate"}
LiveAgainst(m) == {c \in Case : c.accused = m /\ Live(c)}

TypeOK ==
    /\ now \in Nat \ {0}
    /\ balance \in [Account -> Nat]
    /\ RegistryTypeOK
    /\ grievances \in [Case -> [phase : Phase, deadline : Nat, bondAmount : Nat]]
    /\ openGrievanceCountAgainst \in [Address -> Nat]
    /\ withdrawalLockUntil \in [Address -> Nat]
    /\ donated \in Nat

Init ==
    /\ ChainInit
    /\ RegistryInit
    /\ grievances = [c \in Case |-> NoGrievance]
    /\ openGrievanceCountAgainst = [m \in Address |-> 0]
    /\ withdrawalLockUntil = [m \in Address |-> 0]
    /\ donated = 0

-----------------------------------------------------------------------------

\* Cases are opened early enough for their window to close by MaxTime (bound).
OpenGrievance(c, bond) ==
    /\ now + ChallengeWindow <= MaxTime
    /\ bond >= GrievanceBondMin
    /\ balance[c.accuser] >= bond
    /\ grievances[c].phase = "None"
    /\ grievances' = [grievances EXCEPT ![c] =
          [phase |-> "Open", deadline |-> now + ChallengeWindow, bondAmount |-> bond]]
    /\ FreezeStake(c.accused)
    /\ openGrievanceCountAgainst' = [openGrievanceCountAgainst EXCEPT ![c.accused] = @ + 1]
    /\ balance' = Paid(balance, c.accuser, Court, bond)
    /\ UNCHANGED <<now, grievanceCourt, stake, makerNostrKeyHash, exitUnlockTime,
                   withdrawalLockUntil, donated>>

InPhaseNow(c, p) ==
    [grievances EXCEPT ![c] =
        [phase |-> p, deadline |-> @.deadline, bondAmount |-> @.bondAmount]]

\* Sent by the accused; the deadline is not consulted.
DefendGrievance(c) ==
    /\ grievances[c].phase = "Open"
    /\ grievances' = InPhaseNow(c, "Contested")
    /\ UNCHANGED <<now, balance, registryVars, openGrievanceCountAgainst,
                   withdrawalLockUntil, donated>>

Later(s, t) == IF s > t THEN s ELSE t

\* Mutant: the lock ends with the verdict.
LockUntilNow(m) ==
    withdrawalLockUntil' = [withdrawalLockUntil EXCEPT ![m] = Later(@, now)]

BumpWithdrawalLock(m) ==
    withdrawalLockUntil' =
        [withdrawalLockUntil EXCEPT ![m] = Later(@, now + SlashingWindow)]

\* Mutant: one verdict clears the whole count.
ClearOpenAgainst(m) ==
    /\ openGrievanceCountAgainst[m] # 0
    /\ openGrievanceCountAgainst' = [openGrievanceCountAgainst EXCEPT ![m] = 0]

DecrementOpenAgainst(m) ==
    /\ openGrievanceCountAgainst[m] # 0
    /\ openGrievanceCountAgainst' = [openGrievanceCountAgainst EXCEPT ![m] = @ - 1]

\* Mutant: any verdict lifts the freeze.
UnfreezeAlways(m) == UnfreezeStake(m)

\* The count is read after it was decremented.
UnfreezeIfLast(m) ==
    IF openGrievanceCountAgainst'[m] = 0 THEN UnfreezeStake(m) ELSE UNCHANGED stakeFrozen

SlashRequest(m) == BasisPart(stake[m], SlashBps)

\* Stake is slashed and the accuser receives bounty and bond.  A payment the
\* accuser's hook refuses reverts the whole transaction.
FinalizeSlash(c) ==
    LET m == c.accused
        cut == Slashed(m, SlashRequest(m))
        bounty == BasisPart(cut, BountyBps)
        bond == grievances[c].bondAmount
        afterSlash == SlashPaid(balance, m, SlashRequest(m), c.accuser, BountyBps)
    IN /\ BumpWithdrawalLock(m)
       /\ grievances' = InPhaseNow(c, "ResolvedSlash")
       /\ DecrementOpenAgainst(m)
       /\ SlashStake(m, SlashRequest(m))
       /\ balance[Registry] >= cut /\ balance[Court] >= bond
       /\ bounty # 0 \/ bond # 0 => c.accuser \notin Refusing
       /\ UnfreezeIfLast(m)
       /\ balance' = Paid(afterSlash, Court, c.accuser, bond)
       /\ UNCHANGED <<now, grievanceCourt, donated>>

\* The accuser's bond is forfeited to the accused.
FinalizeExonerate(c) ==
    LET m == c.accused
        bond == grievances[c].bondAmount
    IN /\ BumpWithdrawalLock(m)
       /\ grievances' = InPhaseNow(c, "ResolvedExonerate")
       /\ DecrementOpenAgainst(m)
       /\ UnfreezeIfLast(m)
       /\ bond # 0 => CanPay(Court, m, bond)
       /\ balance' = Paid(balance, Court, m, bond)
       /\ UNCHANGED <<now, grievanceCourt, stake, makerNostrKeyHash, exitUnlockTime, donated>>

\* Mutant: the phase is not checked.
ResolveAnyPhase(c) == now >= grievances[c].deadline /\ FinalizeSlash(c)

\* Anyone may finalize a case whose accused stayed silent past the deadline.
ResolveGrievance(c) ==
    /\ grievances[c].phase = "Open"
    /\ now >= grievances[c].deadline
    /\ FinalizeSlash(c)

\* Mutant: the judge rules before the accused has answered.
AdjudicateUnanswered(c, exonerateAccused) ==
    /\ Live(c)
    /\ IF exonerateAccused THEN FinalizeExonerate(c) ELSE FinalizeSlash(c)

\* The judge rules on a contested case.
AdjudicateGrievance(c, exonerateAccused) ==
    /\ grievances[c].phase = "Contested"
    /\ IF exonerateAccused THEN FinalizeExonerate(c) ELSE FinalizeSlash(c)

Receive(a, amount) ==
    /\ balance[a] >= amount
    /\ balance' = Paid(balance, a, Court, amount)
    /\ donated' = donated + amount
    /\ UNCHANGED <<now, registryVars, grievances, openGrievanceCountAgainst,
                   withdrawalLockUntil>>

-----------------------------------------------------------------------------

\* A transaction of account m to the registry.
RegistryCall(m) ==
    /\ \/ \E amount \in Amounts : Deposit(m, amount)
       \/ \E keyHash \in KeyHashes \cup {NoKey} : RegisterMaker(m, keyHash)
       \/ \E amount \in Amounts : Withdraw(m, amount)
       \/ RequestWithdrawal(m, openGrievanceCountAgainst[m], withdrawalLockUntil[m])
       \/ WithdrawStake(m, openGrievanceCountAgainst[m], withdrawalLockUntil[m])
    /\ UNCHANGED <<now, courtVars>>

\* A transaction to the court about case c.
CourtCall(c) ==
    \/ \E bond \in Bonds : OpenGrievance(c, bond)
    \/ DefendGrievance(c)
    \/ ResolveGrievance(c)
    \/ \E exonerateAccused \in BOOLEAN : AdjudicateGrievance(c, exonerateAccused)

WireCourt == SetGrievanceCourt /\ UNCHANGED <<now, courtVars>>

NextBlock == Tick /\ UNCHANGED <<balance, registryVars, courtVars>>

Next ==
    \/ WireCourt
    \/ \E m \in Makers : RegistryCall(m)
    \/ \E c \in Case : CourtCall(c)
    \/ \E a \in Address, amount \in Donations : Receive(a, amount)
    \/ NextBlock

Spec == Init /\ [][Next]_vars

-----------------------------------------------------------------------------
(* Safety.                                                                 *)

\* The registry's freeze bit, set and cleared by two calls from the court,
\* says exactly whether a case against the address is undecided
\* (freezeStake / unfreezeStake against openGrievance and _finalize*).
FrozenIffAccused == \A m \in Address : stakeFrozen[m] <=> LiveAgainst(m) # {}

\* openGrievanceCountAgainst, kept by ++ and by _decrementOpenAgainst, is the
\* number of cases against the address in phase Open or Contested.
CountIsLiveCases ==
    \A m \in Address : openGrievanceCountAgainst[m] = Cardinality(LiveAgainst(m))

\* A registered maker holds at least MinStake after any mix of slashes and
\* exits, and only registered makers are in the exit queue.
MakersMeetMinStake ==
    \A m \in Address :
        /\ Registered(m) => stake[m] >= MinStake
        /\ InExitQueue(m) => Registered(m)

\* While a case against m is undecided, m's stake shrinks only by the verdict
\* that upholds one of those cases, and by no more than SlashBps of it.
StakeAtRisk ==
    [][\A m \in Address : LiveAgainst(m) # {} /\ stake'[m] < stake[m] =>
          /\ \E c \in LiveAgainst(m) : grievances'[c].phase = "ResolvedSlash"
          /\ stake[m] - stake'[m] <= SlashRequest(m)]_vars

-----------------------------------------------------------------------------
(* The abstract view.                                                      *)

standing ==
    [m \in Address |-> IF ~Registered(m) THEN "depositor"
                       ELSE IF InExitQueue(m) THEN "leaving" ELSE "maker"]

InPhase(p) == {c \in Case : grievances[c].phase = p}

Custody == INSTANCE StakeCustody WITH
    Owners <- Address, Cases <- Case,
    bonded <- stake, pending <- InPhase("Open"), contested <- InPhase("Contested"),
    upheld <- InPhase("ResolvedSlash"), dismissed <- InPhase("ResolvedExonerate")

\* The contracts implement StakeCustody: freeze bits, counters, deadlines,
\* locks and payments refine "no stake leaves an accused owner's hands".
ImplementsCustody == Custody!Spec
=============================================================================
