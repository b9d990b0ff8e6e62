----------------------- MODULE GrievanceCourt_proofs -----------------------
(***************************************************************************)
(* Proofs about the judicial layer for every set of addresses, every       *)
(* number of cases and every value of the economic parameters: its books,  *)
(* the custody it implements (StakeCustody), the time a maker serves before*)
(* it leaves, and the sums that both contracts' accounts come to.          *)
(***************************************************************************)
EXTENDS MCGrievanceCourt, TLAPS, FiniteSetTheorems, WellFoundedInduction

\* A basis-point fraction of an amount, rounded down, is part of that amount
\* (slashBps of a stake, bountyBps of a slash).
LEMMA BasisPoints ==
    ASSUME NEW x \in Nat, NEW bps \in Nat, bps <= 10000
    PROVE  BasisPart(x, bps) \in 0..x
<1>1. x * bps \in Nat
  OBVIOUS
<1>2. x * bps <= x * 10000
  <2>1. x * (10000 - bps) >= 0
    OBVIOUS
  <2>2. x * (10000 - bps) = x * 10000 - x * bps
    OBVIOUS
  <2>3. QED
    BY <1>1, <2>1, <2>2
<1> DEFINE y == x * bps
<1> HIDE DEF y
<1>3. y \in Nat /\ y <= x * 10000
  BY <1>1, <1>2 DEF y
<1>4. y \div 10000 \in 0..x
  BY <1>3
<1>5. QED
  BY <1>4 DEF y, BasisPart

\* A payment the sender can afford keeps every balance a natural number and
\* takes from nobody else.
LEMMA PaidType ==
    ASSUME NEW bal \in [Account -> Nat], NEW from \in Account, NEW to \in Account,
           NEW amount \in Nat, bal[from] >= amount
    PROVE  /\ Paid(bal, from, to, amount) \in [Account -> Nat]
           /\ \A x \in Account \ {from} : Paid(bal, from, to, amount)[x] >= bal[x]
           /\ from # to => Paid(bal, from, to, amount)[from] = bal[from] - amount
BY DEF Paid

\* The names of cases are well-typed and there are finitely many.
LEMMA CaseType ==
    ASSUME NEW c \in Case
    PROVE  c.accuser \in Address /\ c.accused \in Address /\ c.accused \in Makers
BY CourtAssumption DEF Case

LEMMA CaseFinite == IsFiniteSet(Case)
<1> DEFINE P == (Accusers \X Makers) \X Evidence
           f == [p \in P |-> [accuser |-> p[1][1], accused |-> p[1][2], evidence |-> p[2]]]
<1>1. IsFiniteSet(P)
  <2>1. IsFiniteSet(Accusers \X Makers)
    BY CourtAssumption, FS_Product
  <2>2. QED
    BY <2>1, CourtAssumption, FS_Product
<1>2. f \in Surjection(P, Case)
  <2>1. f \in [P -> Case]
    BY DEF Case
  <2>2. ASSUME NEW c \in Case  PROVE \E p \in P : f[p] = c
    <3>1. <<<<c.accuser, c.accused>>, c.evidence>> \in P
      BY DEF Case
    <3>2. f[<<<<c.accuser, c.accused>>, c.evidence>>] = c
      BY <3>1 DEF Case
    <3>3. QED
      BY <3>1, <3>2
  <2> HIDE DEF f, P
  <2>3. QED
    BY <2>1, <2>2 DEF Surjection
<1>3. QED
  BY <1>1, <1>2, FS_Surjection

-----------------------------------------------------------------------------
(* Type correctness.                                                       *)

LEMMA CutType ==
    ASSUME TypeOK, NEW m \in Address
    PROVE  /\ SlashRequest(m) \in 0..stake[m]
           /\ Slashed(m, SlashRequest(m)) = SlashRequest(m)
           /\ BasisPart(SlashRequest(m), BountyBps) \in 0..SlashRequest(m)
<1>1. stake[m] \in Nat
  BY DEF TypeOK, RegistryTypeOK
<1>2. SlashRequest(m) \in 0..stake[m]
  <2>1. SlashBps \in Nat /\ SlashBps <= 10000
    BY CourtAssumption
  <2>2. BasisPart(stake[m], SlashBps) \in 0..stake[m]
    BY <1>1, <2>1, BasisPoints
  <2>3. QED
    BY <2>2 DEF SlashRequest
<1>3. Slashed(m, SlashRequest(m)) = SlashRequest(m)
  BY <1>1, <1>2 DEF Slashed
<1>4. BasisPart(SlashRequest(m), BountyBps) \in 0..SlashRequest(m)
  <2>1. BountyBps \in Nat /\ BountyBps <= 10000 /\ SlashRequest(m) \in Nat
    BY <1>1, <1>2, CourtAssumption
  <2>2. QED
    BY <2>1, BasisPoints
<1>5. QED
  BY <1>2, <1>3, <1>4

LEMMA InitType == Init => TypeOK
BY ChainAssumption DEF Init, ChainInit, RegistryInit, TypeOK, RegistryTypeOK, NoGrievance, Phase, Account

\* A transaction to the registry preserves the types.
LEMMA RegistryType ==
    ASSUME TypeOK, NEW m \in Makers, RegistryCall(m)
    PROVE  TypeOK'
<1> USE DEF TypeOK, RegistryTypeOK, courtVars
<1>0. /\ m \in Address /\ m \in Account /\ Registry \in Account
      /\ Amounts \subseteq Nat /\ CooldownPeriod \in Nat
  BY CourtAssumption, RegistryAssumption DEF Account
<1>1. CASE \E amount \in Amounts : Deposit(m, amount)
  <2>1. PICK amount \in Amounts : Deposit(m, amount)
    BY <1>1
  <2>2. balance' \in [Account -> Nat]
    BY <2>1, <1>0, PaidType DEF Deposit
  <2>3. QED
    BY <2>1, <2>2, <1>0 DEF Deposit, RegistryCall
<1>2. CASE \E keyHash \in KeyHashes \cup {NoKey} : RegisterMaker(m, keyHash)
  BY <1>2, <1>0 DEF RegisterMaker, RegistryCall
<1>3. CASE \E amount \in Amounts : Withdraw(m, amount)
  <2>1. PICK amount \in Amounts : Withdraw(m, amount)
    BY <1>3
  <2>2. balance' \in [Account -> Nat]
    BY <2>1, <1>0, PaidType DEF Withdraw, CanPay
  <2>3. QED
    BY <2>1, <2>2, <1>0 DEF Withdraw, RegistryCall
<1>4. CASE RequestWithdrawal(m, openGrievanceCountAgainst[m], withdrawalLockUntil[m])
  BY <1>4, <1>0 DEF RequestWithdrawal, RegistryCall
<1>5. CASE WithdrawStake(m, openGrievanceCountAgainst[m], withdrawalLockUntil[m])
  <2>1. balance' \in [Account -> Nat]
    BY <1>5, <1>0, PaidType DEF WithdrawStake, CanPay
  <2>2. QED
    BY <1>5, <2>1, <1>0 DEF WithdrawStake, RegistryCall
<1>6. QED
  BY <1>1, <1>2, <1>3, <1>4, <1>5 DEF RegistryCall

\* Both verdicts preserve the types; in particular no payment overdraws.
LEMMA SlashType ==
    ASSUME TypeOK, NEW c \in Case, FinalizeSlash(c)
    PROVE  TypeOK'
<1> USE DEF TypeOK, RegistryTypeOK
<1> DEFINE m == c.accused
           cut == SlashRequest(m)
           bounty == BasisPart(cut, BountyBps)
           bond == grievances[c].bondAmount
           b1 == Paid(balance, Registry, c.accuser, bounty)
           b2 == Paid(b1, Registry, Zero, cut - bounty)
<1>1. m \in Address /\ c.accuser \in Address
  BY CaseType
<1>2. /\ cut \in Nat /\ cut <= stake[m] /\ Slashed(m, cut) = cut
      /\ bounty \in Nat /\ bounty <= cut /\ bond \in Nat /\ stake[m] \in Nat
  BY <1>1, CutType
<1> HIDE DEF cut, bounty, bond
<1>3. {Registry, Court, Zero, c.accuser} \subseteq Account
  BY <1>1 DEF Account
<1>d. Registry # c.accuser /\ Court # c.accuser /\ Court # Registry /\ Zero # Registry
  BY <1>1, ChainAssumption
<1>4. balance[Registry] >= cut /\ balance[Court] >= bond
  BY <1>2 DEF FinalizeSlash, cut, bond
<1>5. b1 \in [Account -> Nat] /\ b1[Court] >= bond /\ b1[Registry] = balance[Registry] - bounty
  <2>1. balance \in [Account -> Nat] /\ balance[Registry] >= bounty
    BY <1>2, <1>3, <1>4
  <2>2. /\ b1 \in [Account -> Nat]
        /\ \A x \in Account \ {Registry} : b1[x] >= balance[x]
        /\ b1[Registry] = balance[Registry] - bounty
    BY <1>2, <1>3, <1>d, <2>1, PaidType
  <2> HIDE DEF b1
  <2>3. b1[Court] >= balance[Court]
    BY <2>2, <1>3, <1>d
  <2>4. QED
    BY <1>2, <1>3, <1>4, <2>1, <2>2, <2>3
<1> HIDE DEF b1
<1>6. b2 \in [Account -> Nat] /\ b2[Court] >= bond
  <2>1. cut - bounty \in Nat /\ b1[Registry] >= cut - bounty
    BY <1>2, <1>3, <1>4, <1>5
  <2>2. /\ b2 \in [Account -> Nat]
        /\ \A x \in Account \ {Registry} : b2[x] >= b1[x]
    BY <1>3, <1>5, <2>1, PaidType
  <2> HIDE DEF b2
  <2>3. b2[Court] >= b1[Court]
    BY <2>2, <1>3, <1>d
  <2>4. QED
    BY <1>2, <1>3, <1>5, <2>2, <2>3
<1> HIDE DEF b2
<1>7. balance' \in [Account -> Nat]
  <2>1. balance' = Paid(b2, Court, c.accuser, bond)
    BY <1>2 DEF FinalizeSlash, SlashPaid, cut, bounty, bond, b1, b2
  <2>2. QED
    BY <2>1, <1>2, <1>3, <1>6, PaidType
<1>8. RegistryTypeOK'
  <2>1. stake' = [stake EXCEPT ![m] = @ - cut]
    BY <1>2 DEF FinalizeSlash, SlashStake, cut
  <2>2. stake' \in [Address -> Nat]
    BY <2>1, <1>1, <1>2
  <2>3. QED
    BY <2>2, <1>1 DEF FinalizeSlash, SlashStake, UnfreezeIfLast, UnfreezeStake
<1>9. /\ grievances' \in [Case -> [phase : Phase, deadline : Nat, bondAmount : Nat]]
      /\ openGrievanceCountAgainst' \in [Address -> Nat]
      /\ withdrawalLockUntil' \in [Address -> Nat]
  <2>1. now + SlashingWindow \in Nat
    BY CourtAssumption
  <2>2. withdrawalLockUntil' \in [Address -> Nat]
    BY <1>1, <2>1 DEF FinalizeSlash, BumpWithdrawalLock, Later
  <2>3. openGrievanceCountAgainst' \in [Address -> Nat]
    <3>1. /\ openGrievanceCountAgainst[m] # 0
          /\ openGrievanceCountAgainst' = [openGrievanceCountAgainst EXCEPT ![m] = @ - 1]
      BY DEF FinalizeSlash, DecrementOpenAgainst
    <3>2. openGrievanceCountAgainst[m] \in Nat \ {0}
      BY <1>1, <3>1
    <3>3. QED
      BY <1>1, <3>1, <3>2
  <2>4. grievances' \in [Case -> [phase : Phase, deadline : Nat, bondAmount : Nat]]
    BY DEF FinalizeSlash, InPhaseNow, Phase
  <2>5. QED
    BY <2>2, <2>3, <2>4
<1>10. QED
  BY <1>7, <1>8, <1>9 DEF FinalizeSlash

LEMMA ExonerateType ==
    ASSUME TypeOK, NEW c \in Case, FinalizeExonerate(c)
    PROVE  TypeOK'
<1> USE DEF TypeOK, RegistryTypeOK
<1> DEFINE m == c.accused
           bond == grievances[c].bondAmount
<1>1. m \in Address /\ m \in Account /\ Court \in Account /\ bond \in Nat
  BY CaseType DEF Account
<1>2. balance' \in [Account -> Nat]
  <2>1. balance[Court] >= bond
    BY <1>1 DEF FinalizeExonerate, CanPay, Account
  <2>2. QED
    BY <2>1, <1>1, PaidType DEF FinalizeExonerate
<1>3. RegistryTypeOK'
  BY <1>1 DEF FinalizeExonerate, UnfreezeIfLast, UnfreezeStake
<1>4. /\ grievances' \in [Case -> [phase : Phase, deadline : Nat, bondAmount : Nat]]
      /\ openGrievanceCountAgainst' \in [Address -> Nat]
      /\ withdrawalLockUntil' \in [Address -> Nat]
  <2>1. now + SlashingWindow \in Nat
    BY CourtAssumption
  <2>2. withdrawalLockUntil' \in [Address -> Nat]
    BY <1>1, <2>1 DEF FinalizeExonerate, BumpWithdrawalLock, Later
  <2>3. openGrievanceCountAgainst' \in [Address -> Nat]
    <3>1. /\ openGrievanceCountAgainst[m] # 0
          /\ openGrievanceCountAgainst' = [openGrievanceCountAgainst EXCEPT ![m] = @ - 1]
      BY DEF FinalizeExonerate, DecrementOpenAgainst
    <3>2. openGrievanceCountAgainst[m] \in Nat \ {0}
      BY <1>1, <3>1
    <3>3. QED
      BY <1>1, <3>1, <3>2
  <2>4. grievances' \in [Case -> [phase : Phase, deadline : Nat, bondAmount : Nat]]
    BY DEF FinalizeExonerate, InPhaseNow, Phase
  <2>5. QED
    BY <2>2, <2>3, <2>4
<1>5. QED
  BY <1>2, <1>3, <1>4 DEF FinalizeExonerate

LEMMA CourtType ==
    ASSUME TypeOK, NEW c \in Case, CourtCall(c)
    PROVE  TypeOK'
<1>1. CASE \E bond \in Bonds : OpenGrievance(c, bond)
  <2> USE DEF TypeOK, RegistryTypeOK
  <2>1. PICK bond \in Bonds : OpenGrievance(c, bond)
    BY <1>1
  <2>2. /\ c.accuser \in Address /\ c.accused \in Address /\ bond \in Nat
        /\ c.accuser \in Account /\ Court \in Account
    BY CaseType, CourtAssumption DEF Account
  <2>3. balance' \in [Account -> Nat]
    BY <2>1, <2>2, PaidType DEF OpenGrievance
  <2>4. RegistryTypeOK'
    BY <2>1, <2>2 DEF OpenGrievance, FreezeStake
  <2>5. [phase |-> "Open", deadline |-> now + ChallengeWindow, bondAmount |-> bond]
          \in [phase : Phase, deadline : Nat, bondAmount : Nat]
    BY <2>2, CourtAssumption DEF Phase
  <2>6. grievances' \in [Case -> [phase : Phase, deadline : Nat, bondAmount : Nat]]
    BY <2>1, <2>5 DEF OpenGrievance
  <2>7. openGrievanceCountAgainst' \in [Address -> Nat]
    BY <2>1, <2>2 DEF OpenGrievance
  <2>8. QED
    BY <2>1, <2>3, <2>4, <2>6, <2>7 DEF OpenGrievance
<1>2. CASE DefendGrievance(c)
  BY <1>2 DEF TypeOK, RegistryTypeOK, DefendGrievance, InPhaseNow, registryVars, Phase
<1>3. CASE FinalizeSlash(c)
  BY <1>3, SlashType
<1>4. CASE FinalizeExonerate(c)
  BY <1>4, ExonerateType
<1>5. QED
  BY <1>1, <1>2, <1>3, <1>4 DEF CourtCall, ResolveGrievance, AdjudicateGrievance

LEMMA StepType == TypeOK /\ [Next]_vars => TypeOK'
<1> SUFFICES ASSUME TypeOK, [Next]_vars  PROVE TypeOK'
  OBVIOUS
<1>1. CASE WireCourt
  BY <1>1 DEF TypeOK, RegistryTypeOK, WireCourt, SetGrievanceCourt, courtVars
<1>2. CASE \E m \in Makers : RegistryCall(m)
  BY <1>2, RegistryType
<1>3. CASE \E c \in Case : CourtCall(c)
  BY <1>3, CourtType
<1>4. CASE \E a \in Address, amount \in Donations : Receive(a, amount)
  <2>1. PICK a \in Address, amount \in Donations : Receive(a, amount)
    BY <1>4
  <2>2. a \in Account /\ Court \in Account /\ amount \in Nat
    BY CourtAssumption DEF Account
  <2>3. balance' \in [Account -> Nat]
    BY <2>1, <2>2, PaidType DEF Receive, TypeOK
  <2>4. QED
    BY <2>1, <2>2, <2>3 DEF Receive, TypeOK, RegistryTypeOK, registryVars
<1>5. CASE NextBlock
  BY <1>5 DEF TypeOK, RegistryTypeOK, NextBlock, Tick, registryVars, courtVars
<1>6. CASE UNCHANGED vars
  BY <1>6 DEF TypeOK, RegistryTypeOK, vars, registryVars, courtVars
<1>7. QED
  BY <1>1, <1>2, <1>3, <1>4, <1>5, <1>6 DEF Next

\* Every reachable state is well typed: balances, stakes and counters never
\* go negative (every payment of _finalizeSlash and withdrawStake is covered).
THEOREM TypeCorrect == Spec => []TypeOK
BY InitType, StepType, PTL DEF Spec

-----------------------------------------------------------------------------
(* The freeze bit, the counter and the maker status: an inductive          *)
(* invariant.  Each conjunct needs the others: the bit is cleared when the *)
(* counter reads 0, so it is right only if the counter is.                 *)

IInv == TypeOK /\ FrozenIffAccused /\ CountIsLiveCases /\ MakersMeetMinStake

\* The docket of every address is finite, and is empty exactly when it counts 0.
LEMMA DocketFinite ==
    ASSUME NEW m
    PROVE  /\ IsFiniteSet(LiveAgainst(m))
           /\ Cardinality(LiveAgainst(m)) = 0 <=> LiveAgainst(m) = {}
           /\ Cardinality(LiveAgainst(m)) \in Nat
<1>1. LiveAgainst(m) \in SUBSET Case
  BY DEF LiveAgainst
<1>2. QED
  BY <1>1, CaseFinite, FS_Subset, FS_EmptySet, FS_CardinalityType

\* A step that leaves every case in or out of the live phases keeps the docket.
LEMMA DocketSame ==
    ASSUME \A c \in Case : Live(c)' <=> Live(c), NEW m
    PROVE  LiveAgainst(m)' = LiveAgainst(m)
BY DEF LiveAgainst

\* Opening c adds it to the docket of its accused only.
LEMMA DocketOpen ==
    ASSUME TypeOK, NEW c \in Case, NEW bond, OpenGrievance(c, bond)
    PROVE  /\ c \notin LiveAgainst(c.accused)
           /\ LiveAgainst(c.accused)' = LiveAgainst(c.accused) \cup {c}
           /\ \A m : m # c.accused => LiveAgainst(m)' = LiveAgainst(m)
<1>1. ~Live(c)
  BY DEF OpenGrievance, Live
<1>2. Live(c)'
  BY DEF OpenGrievance, Live, TypeOK
<1>3. \A d \in Case \ {c} : Live(d)' <=> Live(d)
  BY DEF OpenGrievance, Live, TypeOK
<1>4. QED
  BY <1>1, <1>2, <1>3 DEF LiveAgainst

\* A verdict on c removes it from the docket of its accused only.
LEMMA DocketClose ==
    ASSUME TypeOK, NEW c \in Case, Live(c),
           NEW p \in {"ResolvedSlash", "ResolvedExonerate"}, grievances' = InPhaseNow(c, p)
    PROVE  /\ c \in LiveAgainst(c.accused)
           /\ LiveAgainst(c.accused)' = LiveAgainst(c.accused) \ {c}
           /\ \A m : m # c.accused => LiveAgainst(m)' = LiveAgainst(m)
<1>1. ~Live(c)'
  BY DEF InPhaseNow, Live, TypeOK
<1>2. \A d \in Case \ {c} : Live(d)' <=> Live(d)
  BY DEF InPhaseNow, Live, TypeOK
<1>3. QED
  BY <1>1, <1>2 DEF LiveAgainst

LEMMA DocketDefend ==
    ASSUME TypeOK, NEW c \in Case, DefendGrievance(c), NEW m
    PROVE  LiveAgainst(m)' = LiveAgainst(m)
<1>1. \A d \in Case : Live(d)' <=> Live(d)
  BY DEF DefendGrievance, InPhaseNow, Live, TypeOK
<1>2. QED
  BY <1>1, DocketSame

LEMMA InitInv == Init => IInv
<1> SUFFICES ASSUME Init  PROVE IInv
  OBVIOUS
<1>1. \A m : LiveAgainst(m) = {}
  BY DEF Init, LiveAgainst, Live, NoGrievance
<1>2. QED
  BY <1>1, InitType, FS_EmptySet
     DEF IInv, Init, RegistryInit, FrozenIffAccused, CountIsLiveCases,
         MakersMeetMinStake, Registered, InExitQueue

\* The bookkeeping of a verdict: counter and bit follow the docket.
LEMMA VerdictBooks ==
    ASSUME IInv, NEW c \in Case, Live(c),
           NEW p \in {"ResolvedSlash", "ResolvedExonerate"}, grievances' = InPhaseNow(c, p),
           DecrementOpenAgainst(c.accused), UnfreezeIfLast(c.accused)
    PROVE  FrozenIffAccused' /\ CountIsLiveCases'
<1> DEFINE a == c.accused
<1>0. a \in Address /\ TypeOK
  BY CaseType DEF IInv
<1>1. /\ c \in LiveAgainst(a)
      /\ LiveAgainst(a)' = LiveAgainst(a) \ {c}
      /\ \A m : m # a => LiveAgainst(m)' = LiveAgainst(m)
  BY <1>0, DocketClose
<1>2. Cardinality(LiveAgainst(a))' = Cardinality(LiveAgainst(a)) - 1
  BY <1>1, DocketFinite, FS_RemoveElement
<1>3. openGrievanceCountAgainst[a] = Cardinality(LiveAgainst(a))
  BY <1>0 DEF IInv, CountIsLiveCases
<1>4. openGrievanceCountAgainst'[a] = Cardinality(LiveAgainst(a))'
  BY <1>0, <1>2, <1>3 DEF DecrementOpenAgainst, TypeOK
<1>5. CountIsLiveCases'
  <2> SUFFICES ASSUME NEW m \in Address
               PROVE  openGrievanceCountAgainst'[m] = Cardinality(LiveAgainst(m))'
    BY DEF CountIsLiveCases
  <2>1. CASE m = a
    BY <2>1, <1>4
  <2>2. CASE m # a
    <3>1. LiveAgainst(m)' = LiveAgainst(m)
      BY <2>2, <1>1
    <3>2. openGrievanceCountAgainst'[m] = openGrievanceCountAgainst[m]
      BY <2>2, <1>0 DEF DecrementOpenAgainst, TypeOK
    <3>3. QED
      BY <3>1, <3>2 DEF IInv, CountIsLiveCases
  <2>3. QED
    BY <2>1, <2>2
<1>6. FrozenIffAccused'
  <2> SUFFICES ASSUME NEW m \in Address
               PROVE  stakeFrozen'[m] <=> LiveAgainst(m)' # {}
    BY DEF FrozenIffAccused
  <2>0. stakeFrozen \in [Address -> BOOLEAN] /\ (stakeFrozen[m] <=> LiveAgainst(m) # {})
    BY <1>0 DEF IInv, FrozenIffAccused, TypeOK, RegistryTypeOK
  <2>1. CASE m = a /\ openGrievanceCountAgainst'[a] = 0
    <3>1. IsFiniteSet(LiveAgainst(a) \ {c})
      BY DocketFinite, FS_RemoveElement
    <3>2. LiveAgainst(a)' = {}
      BY <2>1, <3>1, <1>1, <1>4, FS_EmptySet
    <3>3. stakeFrozen'[m] = FALSE
      BY <2>0, <2>1 DEF UnfreezeIfLast, UnfreezeStake
    <3>4. QED
      BY <2>1, <3>2, <3>3
  <2>2. CASE m = a /\ openGrievanceCountAgainst'[a] # 0
    <3>1. LiveAgainst(a)' # {}
      BY <2>2, <1>4, FS_EmptySet
    <3>2. stakeFrozen' = stakeFrozen
      BY <2>2 DEF UnfreezeIfLast
    <3>3. QED
      BY <2>0, <2>2, <3>1, <3>2, <1>1
  <2>3. CASE m # a
    <3>1. LiveAgainst(m)' = LiveAgainst(m)
      BY <2>3, <1>1
    <3>2. stakeFrozen'[m] = stakeFrozen[m]
      BY <2>0, <2>3 DEF UnfreezeIfLast, UnfreezeStake
    <3>3. QED
      BY <2>0, <3>1, <3>2
  <2>4. QED
    BY <2>1, <2>2, <2>3
<1>7. QED
  BY <1>5, <1>6

\* When neither the docket, the counter nor the bit moves, the books balance.
LEMMA BooksSame ==
    ASSUME IInv, UNCHANGED <<grievances, openGrievanceCountAgainst, stakeFrozen>>
    PROVE  FrozenIffAccused' /\ CountIsLiveCases'
<1>1. \A m : LiveAgainst(m)' = LiveAgainst(m)
  BY DEF LiveAgainst, Live
<1>2. QED
  BY <1>1 DEF IInv, FrozenIffAccused, CountIsLiveCases

\* Deposits, registrations and exits keep makers at MinStake.
LEMMA RegistryMakers ==
    ASSUME IInv, NEW m \in Makers, RegistryCall(m)
    PROVE  MakersMeetMinStake'
<1> USE DEF MakersMeetMinStake, Registered, InExitQueue
<1>0. /\ m \in Address /\ TypeOK /\ RegistryTypeOK /\ MakersMeetMinStake
      /\ Amounts \subseteq Nat /\ MinStake \in Nat
  BY CourtAssumption, RegistryAssumption DEF IInv, TypeOK
<1>1. CASE \E amount \in Amounts : Deposit(m, amount)
  BY <1>0, <1>1 DEF Deposit, RegistryTypeOK
<1>2. CASE \E keyHash \in KeyHashes \cup {NoKey} : RegisterMaker(m, keyHash)
  BY <1>0, <1>2 DEF RegisterMaker, RegistryTypeOK
<1>3. CASE \E amount \in Amounts : Withdraw(m, amount)
  BY <1>0, <1>3 DEF Withdraw, RegistryTypeOK
<1>4. CASE RequestWithdrawal(m, openGrievanceCountAgainst[m], withdrawalLockUntil[m])
  BY <1>0, <1>4 DEF RequestWithdrawal, RegistryTypeOK
<1>5. CASE WithdrawStake(m, openGrievanceCountAgainst[m], withdrawalLockUntil[m])
  BY <1>0, <1>5 DEF WithdrawStake, RegistryTypeOK
<1>6. QED
  BY <1>1, <1>2, <1>3, <1>4, <1>5 DEF RegistryCall

LEMMA RegistryInv ==
    ASSUME IInv, NEW m \in Makers, RegistryCall(m)
    PROVE  IInv'
<1>1. TypeOK'
  BY RegistryType DEF IInv
<1>2. UNCHANGED <<grievances, openGrievanceCountAgainst, stakeFrozen>>
  BY DEF RegistryCall, courtVars, Deposit, RegisterMaker, Withdraw, RequestWithdrawal,
         WithdrawStake
<1>3. QED
  BY <1>1, <1>2, BooksSame, RegistryMakers DEF IInv

\* A slash strikes off the maker it leaves short.
LEMMA SlashMakers ==
    ASSUME IInv, NEW m \in Address, SlashStake(m, SlashRequest(m))
    PROVE  MakersMeetMinStake'
<1> USE DEF MakersMeetMinStake, Registered, InExitQueue
<1> DEFINE cut == SlashRequest(m)
<1>0. /\ TypeOK /\ RegistryTypeOK /\ MakersMeetMinStake /\ MinStake \in Nat
      /\ NoKey \notin KeyHashes
  BY RegistryAssumption DEF IInv, TypeOK
<1>1. cut \in Nat /\ cut <= stake[m] /\ Slashed(m, cut) = cut /\ stake[m] \in Nat
  BY <1>0, CutType DEF RegistryTypeOK
<1> HIDE DEF cut
<1>2. stake' = [stake EXCEPT ![m] = @ - cut]
  BY <1>1 DEF SlashStake, cut
<1>3. CASE cut # 0 /\ Registered(m) /\ stake[m] - cut < MinStake
  <2>1. /\ makerNostrKeyHash' = [makerNostrKeyHash EXCEPT ![m] = NoKey]
        /\ exitUnlockTime' = [exitUnlockTime EXCEPT ![m] = 0]
    BY <1>1, <1>3 DEF SlashStake, cut
  <2>2. QED
    BY <1>0, <1>1, <1>2, <2>1 DEF RegistryTypeOK
<1>4. CASE ~(cut # 0 /\ Registered(m) /\ stake[m] - cut < MinStake)
  <2>1. makerNostrKeyHash' = makerNostrKeyHash /\ exitUnlockTime' = exitUnlockTime
    BY <1>1, <1>4 DEF SlashStake, cut
  <2>2. QED
    BY <1>0, <1>1, <1>2, <1>4, <2>1 DEF RegistryTypeOK
<1>5. QED
  BY <1>3, <1>4

LEMMA OpenInv ==
    ASSUME IInv, NEW c \in Case, NEW bond \in Bonds, OpenGrievance(c, bond)
    PROVE  FrozenIffAccused' /\ CountIsLiveCases' /\ MakersMeetMinStake'
<1> DEFINE a == c.accused
<1>0. a \in Address /\ TypeOK
  BY CaseType DEF IInv
<1>1. /\ c \notin LiveAgainst(a)
      /\ LiveAgainst(a)' = LiveAgainst(a) \cup {c}
      /\ \A m : m # a => LiveAgainst(m)' = LiveAgainst(m)
  BY <1>0, DocketOpen
<1>2. Cardinality(LiveAgainst(a))' = Cardinality(LiveAgainst(a)) + 1
  BY <1>1, DocketFinite, FS_AddElement
<1>3. openGrievanceCountAgainst' = [openGrievanceCountAgainst EXCEPT ![a] = @ + 1]
  BY DEF OpenGrievance
<1>4. CountIsLiveCases'
  <2> SUFFICES ASSUME NEW m \in Address
               PROVE  openGrievanceCountAgainst'[m] = Cardinality(LiveAgainst(m))'
    BY DEF CountIsLiveCases
  <2>1. openGrievanceCountAgainst[m] = Cardinality(LiveAgainst(m))
    BY DEF IInv, CountIsLiveCases
  <2>2. CASE m = a
    BY <1>0, <1>2, <1>3, <2>1, <2>2 DEF TypeOK
  <2>3. CASE m # a
    BY <1>0, <1>1, <1>3, <2>1, <2>3 DEF TypeOK
  <2>4. QED
    BY <2>2, <2>3
<1>5. FrozenIffAccused'
  BY <1>0, <1>1 DEF OpenGrievance, FreezeStake, IInv, FrozenIffAccused, TypeOK, RegistryTypeOK
<1>6. MakersMeetMinStake'
  BY DEF OpenGrievance, IInv, MakersMeetMinStake, Registered, InExitQueue
<1>7. QED
  BY <1>4, <1>5, <1>6

LEMMA CourtInv ==
    ASSUME IInv, NEW c \in Case, CourtCall(c)
    PROVE  IInv'
<1>0. TypeOK /\ TypeOK'
  BY CourtType DEF IInv
<1>1. CASE \E bond \in Bonds : OpenGrievance(c, bond)
  BY <1>0, <1>1, OpenInv DEF IInv
<1>2. CASE DefendGrievance(c)
  <2>1. \A m : LiveAgainst(m)' = LiveAgainst(m)
    BY <1>0, <1>2, DocketDefend
  <2>2. QED
    BY <1>0, <1>2, <2>1 DEF DefendGrievance, registryVars, IInv, FrozenIffAccused,
         CountIsLiveCases, MakersMeetMinStake, Registered, InExitQueue
<1>3. CASE Live(c) /\ FinalizeSlash(c)
  <2>1. FrozenIffAccused' /\ CountIsLiveCases'
    BY <1>3, VerdictBooks DEF FinalizeSlash
  <2>2. SlashStake(c.accused, SlashRequest(c.accused))
    BY <1>3 DEF FinalizeSlash
  <2>3. MakersMeetMinStake'
    BY <2>2, CaseType, SlashMakers
  <2>4. QED
    BY <1>0, <2>1, <2>3 DEF IInv
<1>4. CASE Live(c) /\ FinalizeExonerate(c)
  <2>1. FrozenIffAccused' /\ CountIsLiveCases'
    BY <1>4, VerdictBooks DEF FinalizeExonerate
  <2>2. MakersMeetMinStake'
    BY <1>4 DEF FinalizeExonerate, IInv, MakersMeetMinStake, Registered, InExitQueue
  <2>3. QED
    BY <1>0, <2>1, <2>2 DEF IInv
<1>5. QED
  BY <1>1, <1>2, <1>3, <1>4 DEF CourtCall, ResolveGrievance, AdjudicateGrievance, Live

LEMMA StepInv == IInv /\ [Next]_vars => IInv'
<1> SUFFICES ASSUME IInv, [Next]_vars  PROVE IInv'
  OBVIOUS
<1>0. TypeOK'
  BY StepType DEF IInv
<1>1. CASE \E m \in Makers : RegistryCall(m)
  BY <1>1, RegistryInv
<1>2. CASE \E c \in Case : CourtCall(c)
  BY <1>2, CourtInv
<1>3. CASE UNCHANGED <<stake, stakeFrozen, makerNostrKeyHash, exitUnlockTime, grievances,
                       openGrievanceCountAgainst>>
  <2>1. MakersMeetMinStake'
    BY <1>3 DEF IInv, MakersMeetMinStake, Registered, InExitQueue
  <2>2. QED
    BY <1>0, <1>3, <2>1, BooksSame DEF IInv
<1>4. QED
  BY <1>1, <1>2, <1>3 DEF Next, WireCourt, SetGrievanceCourt, NextBlock, Receive, vars,
     registryVars, courtVars

LEMMA Inductive == Spec => []IInv
BY InitInv, StepInv, PTL DEF Spec

\* The freeze bit of an address is on exactly while a case against it is
\* undecided, however openings and verdicts interleave (_unfreezeIfLast).
THEOREM FreezesAreRight == Spec => []FrozenIffAccused
<1>1. IInv => FrozenIffAccused
  BY DEF IInv
<1> QED
  BY <1>1, Inductive, PTL

\* The counter that withdrawals and unfreezing look at is the number of
\* undecided cases (openGrievance, _decrementOpenAgainst).
THEOREM CountsAreRight == Spec => []CountIsLiveCases
<1>1. IInv => CountIsLiveCases
  BY DEF IInv
<1> QED
  BY <1>1, Inductive, PTL

\* Every registered maker holds MinStake, and the exit queue holds only makers.
THEOREM MakersSolvent == Spec => []MakersMeetMinStake
<1>1. IInv => MakersMeetMinStake
  BY DEF IInv
<1>2. QED
  BY <1>1, Inductive, PTL

-----------------------------------------------------------------------------
(* Stake under accusation.                                                 *)

\* Only verdicts and, for owners with an empty docket, exits lower a stake.
LEMMA RegistryRisk ==
    ASSUME IInv, NEW n \in Makers, RegistryCall(n), NEW m \in Address, LiveAgainst(m) # {}
    PROVE  stake'[m] >= stake[m]
<1>0. /\ n \in Address /\ RegistryTypeOK /\ stakeFrozen[m]
      /\ Amounts \subseteq Nat /\ stake[m] \in Nat
  BY CourtAssumption, RegistryAssumption DEF IInv, TypeOK, RegistryTypeOK, FrozenIffAccused
<1>1. CASE \E amount \in Amounts : Deposit(n, amount)
  BY <1>0, <1>1 DEF Deposit, RegistryTypeOK
<1>2. CASE UNCHANGED stake
  BY <1>0, <1>2
<1>3. CASE \E amount \in Amounts : Withdraw(n, amount)
  BY <1>0, <1>3 DEF Withdraw, RegistryTypeOK
<1>4. CASE WithdrawStake(n, openGrievanceCountAgainst[n], withdrawalLockUntil[n])
  BY <1>0, <1>4 DEF WithdrawStake, RegistryTypeOK
<1>5. QED
  BY <1>1, <1>2, <1>3, <1>4 DEF RegistryCall, RegisterMaker, RequestWithdrawal

LEMMA SlashRisk ==
    ASSUME IInv, NEW c \in Case, Live(c), FinalizeSlash(c), NEW m \in Address,
           stake'[m] < stake[m]
    PROVE  /\ c \in LiveAgainst(m)
           /\ grievances'[c].phase = "ResolvedSlash"
           /\ stake[m] - stake'[m] <= SlashRequest(m)
<1> DEFINE a == c.accused
           cut == SlashRequest(a)
<1>0. a \in Address /\ TypeOK /\ stake \in [Address -> Nat]
  BY CaseType DEF IInv, TypeOK, RegistryTypeOK
<1>1. cut \in Nat /\ cut <= stake[a] /\ Slashed(a, cut) = cut
  BY <1>0, CutType
<1> HIDE DEF cut
<1>2. stake' = [stake EXCEPT ![a] = @ - cut]
  BY <1>1 DEF FinalizeSlash, SlashStake, cut
<1>3. m = a /\ stake[m] - stake'[m] = cut
  BY <1>0, <1>1, <1>2
<1>4. c \in LiveAgainst(m)
  BY <1>3 DEF LiveAgainst
<1>5. grievances'[c].phase = "ResolvedSlash"
  BY <1>0 DEF FinalizeSlash, InPhaseNow, TypeOK
<1>6. QED
  BY <1>0, <1>1, <1>3, <1>4, <1>5 DEF cut

\* While a case against m is undecided its stake can only be cut by the verdict
\* that upholds one of those cases, by at most SlashBps of it.
THEOREM AccusedStakeStays == Spec => StakeAtRisk
<1> DEFINE AtRisk(m) == LiveAgainst(m) # {} /\ stake'[m] < stake[m] =>
               /\ \E c \in LiveAgainst(m) : grievances'[c].phase = "ResolvedSlash"
               /\ stake[m] - stake'[m] <= SlashRequest(m)
<1>1. IInv /\ [Next]_vars => \A m \in Address : AtRisk(m)
  <2> SUFFICES ASSUME IInv, [Next]_vars, NEW m \in Address,
                      LiveAgainst(m) # {}, stake'[m] < stake[m]
               PROVE  AtRisk(m)
    OBVIOUS
  <2>0. stake[m] \in Nat
    BY DEF IInv, TypeOK, RegistryTypeOK
  <2>1. CASE \E n \in Makers : RegistryCall(n)
    <3>1. stake'[m] >= stake[m]
      BY <2>1, RegistryRisk
    <3>2. stake' \in [Address -> Nat]
      BY StepType DEF IInv, TypeOK, RegistryTypeOK
    <3>3. QED
      BY <2>0, <3>1, <3>2
  <2>2. CASE \E c \in Case : Live(c) /\ FinalizeSlash(c)
    BY <2>2, SlashRisk
  <2>3. CASE UNCHANGED stake
    BY <2>0, <2>3
  <2>4. QED
    BY <2>1, <2>2, <2>3 DEF Next, WireCourt, SetGrievanceCourt, NextBlock, Receive, vars,
       registryVars, CourtCall, OpenGrievance, DefendGrievance, ResolveGrievance,
       AdjudicateGrievance, FinalizeExonerate, Live
<1>2. QED
  BY <1>1, Inductive, PTL DEF Spec, StakeAtRisk

-----------------------------------------------------------------------------
(* The two contracts implement StakeCustody: every initial state and every *)
(* step of GrievanceCourt maps to an initial state and to a step, or a     *)
(* stutter, of the abstract custodian.                                     *)

\* An owner whose freeze bit is off has no undecided case in the abstract view.
LEMMA ClearView ==
    ASSUME IInv, NEW m \in Address, ~stakeFrozen[m]
    PROVE  Custody!Clear(m)
BY DEF IInv, FrozenIffAccused, LiveAgainst, Live, Custody!Clear, Custody!Undecided, InPhase

\* Moving one case to phase p moves it between the phase sets and nothing else.
LEMMA PhaseMove ==
    ASSUME TypeOK, NEW c \in Case, NEW p,
           \E g : g.phase = p /\ grievances' = [grievances EXCEPT ![c] = g]
    PROVE  \A r : InPhase(r)' = IF r = p THEN InPhase(r) \cup {c} ELSE InPhase(r) \ {c}
BY DEF TypeOK, InPhase

LEMMA VerdictMove ==
    ASSUME TypeOK, NEW c \in Case, NEW p, grievances' = InPhaseNow(c, p)
    PROVE  \A r : InPhase(r)' = IF r = p THEN InPhase(r) \cup {c} ELSE InPhase(r) \ {c}
BY PhaseMove DEF InPhaseNow

\* The phase sets are disjoint.
LEMMA PhaseOf ==
    ASSUME NEW c \in Case, NEW r
    PROVE  c \in InPhase(r) <=> grievances[c].phase = r
BY DEF InPhase

LEMMA StandingType ==
    ASSUME TypeOK
    PROVE  standing \in [Address -> {"depositor", "maker", "leaving"}]
BY DEF standing

LEMMA StandingSame ==
    ASSUME UNCHANGED <<makerNostrKeyHash, exitUnlockTime>>
    PROVE  standing' = standing
BY DEF standing, Registered, InExitQueue

LEMMA DocketView ==
    ASSUME UNCHANGED grievances
    PROVE  UNCHANGED Custody!docket
BY DEF Custody!docket, InPhase

LEMMA InitView == Init => Custody!Init
<1> SUFFICES ASSUME Init  PROVE Custody!Init
  OBVIOUS
<1>1. \A r \in {"Open", "Contested", "ResolvedSlash", "ResolvedExonerate"} : InPhase(r) = {}
  BY DEF Init, InPhase, NoGrievance
<1>2. standing = [m \in Address |-> "depositor"]
  BY DEF Init, RegistryInit, standing, Registered
<1>3. QED
  BY <1>1, <1>2 DEF Init, RegistryInit, Custody!Init

-----------------------------------------------------------------------------

\* Each registry transaction is one abstract step of its sender.
LEMMA RegistryView ==
    ASSUME IInv, NEW m \in Makers, RegistryCall(m)
    PROVE  Custody!Add(m) \/ Custody!Enlist(m) \/ Custody!Take(m)
           \/ Custody!Leave(m) \/ Custody!Depart(m)
<1>0. /\ m \in Address /\ TypeOK /\ Amounts \subseteq Nat /\ NoKey \notin KeyHashes
      /\ stake \in [Address -> Nat] /\ stakeFrozen \in [Address -> BOOLEAN]
      /\ makerNostrKeyHash \in [Address -> KeyHashes \cup {NoKey}]
      /\ exitUnlockTime \in [Address -> Nat] /\ now \in Nat \ {0} /\ CooldownPeriod \in Nat
  BY CourtAssumption, RegistryAssumption DEF IInv, TypeOK, RegistryTypeOK
<1>a. standing \in [Address -> {"depositor", "maker", "leaving"}]
  BY <1>0, StandingType
<1>b. UNCHANGED Custody!docket
  BY DocketView DEF RegistryCall, courtVars
<1>c. InExitQueue(m) => Registered(m)
  BY <1>0 DEF IInv, MakersMeetMinStake
<1>1. CASE \E amount \in Amounts : Deposit(m, amount)
  <2>1. standing' = standing
    BY <1>1, StandingSame DEF Deposit
  <2>2. stake'[m] >= stake[m] /\ stake' = [stake EXCEPT ![m] = stake'[m]]
    BY <1>0, <1>1 DEF Deposit
  <2>3. QED
    BY <1>b, <2>1, <2>2 DEF Custody!Add
<1>2. CASE \E keyHash \in KeyHashes \cup {NoKey} : RegisterMaker(m, keyHash)
  <2>1. PICK keyHash \in KeyHashes \cup {NoKey} : RegisterMaker(m, keyHash)
    BY <1>2
  <2>2. Custody!Clear(m) /\ stake[m] >= MinStake /\ stake' = stake
    BY <2>1, <1>0, ClearView DEF RegisterMaker
  <2>3. standing[m] # "leaving"
    BY <2>1, <1>0 DEF RegisterMaker, standing
  <2>4. standing' = [standing EXCEPT ![m] = IF keyHash = NoKey THEN "depositor" ELSE "maker"]
    BY <2>1, <1>0 DEF RegisterMaker, standing, Registered, InExitQueue
  <2>5. QED
    BY <1>b, <2>2, <2>3, <2>4 DEF Custody!Enlist
<1>3. CASE \E amount \in Amounts : Withdraw(m, amount)
  <2>1. PICK amount \in Amounts : Withdraw(m, amount)
    BY <1>3
  <2>2. Custody!Clear(m) /\ standing[m] = "depositor" /\ standing' = standing
    BY <2>1, <1>0, ClearView, StandingSame DEF Withdraw, standing
  <2>3. stake[m] - amount \in 0..stake[m] /\ stake' = [stake EXCEPT ![m] = stake[m] - amount]
    BY <2>1, <1>0 DEF Withdraw
  <2>4. QED
    BY <1>b, <2>2, <2>3 DEF Custody!Take
<1>4. CASE RequestWithdrawal(m, openGrievanceCountAgainst[m], withdrawalLockUntil[m])
  <2>1. Custody!Clear(m) /\ standing[m] = "maker" /\ stake' = stake
    BY <1>4, <1>0, ClearView DEF RequestWithdrawal, standing
  <2>2. now + CooldownPeriod # 0
    BY <1>0
  <2>3. standing' = [standing EXCEPT ![m] = "leaving"]
    BY <1>4, <1>0, <2>2 DEF RequestWithdrawal, standing, Registered, InExitQueue
  <2>4. QED
    BY <1>b, <2>1, <2>3 DEF Custody!Leave
<1>5. CASE WithdrawStake(m, openGrievanceCountAgainst[m], withdrawalLockUntil[m])
  <2>1. Custody!Clear(m) /\ standing[m] = "leaving"
    BY <1>5, <1>0, <1>c, ClearView DEF WithdrawStake, standing
  <2>2. standing' = [standing EXCEPT ![m] = "depositor"]
    BY <1>5, <1>0 DEF WithdrawStake, standing, Registered, InExitQueue
  <2>3. QED
    BY <1>5, <1>b, <2>1, <2>2 DEF WithdrawStake, Custody!Depart
<1>6. QED
  BY <1>1, <1>2, <1>3, <1>4, <1>5 DEF RegistryCall

LEMMA SlashView ==
    ASSUME IInv, NEW c \in Case, Live(c), FinalizeSlash(c)
    PROVE  Custody!Uphold(c)
<1> DEFINE m == c.accused
           cut == SlashRequest(m)
           left == stake[m] - cut
<1>0. /\ m \in Address /\ TypeOK /\ stake \in [Address -> Nat] /\ stake[m] \in Nat
      /\ makerNostrKeyHash \in [Address -> KeyHashes \cup {NoKey}]
      /\ exitUnlockTime \in [Address -> Nat] /\ MinStake \in Nat
  BY CaseType, RegistryAssumption DEF IInv, TypeOK, RegistryTypeOK
<1>1. cut \in Nat /\ cut <= stake[m] /\ Slashed(m, cut) = cut
  BY <1>0, CutType
<1> HIDE DEF cut
<1>2. left \in 0..stake[m] /\ stake' = [stake EXCEPT ![m] = left]
  BY <1>0, <1>1 DEF FinalizeSlash, SlashStake, cut
<1>3. /\ Registered(m) => stake[m] >= MinStake
      /\ InExitQueue(m) => Registered(m)
  BY <1>0 DEF IInv, MakersMeetMinStake
<1>4. standing' = [standing EXCEPT ![m] = IF left < MinStake THEN "depositor" ELSE @]
  <2>1. CASE cut # 0 /\ Registered(m) /\ left < MinStake
    <3>1. /\ makerNostrKeyHash' = [makerNostrKeyHash EXCEPT ![m] = NoKey]
          /\ exitUnlockTime' = [exitUnlockTime EXCEPT ![m] = 0]
      BY <1>1, <2>1 DEF FinalizeSlash, SlashStake, cut
    <3>2. QED
      BY <1>0, <2>1, <3>1 DEF standing, Registered, InExitQueue
  <2>2. CASE ~(cut # 0 /\ Registered(m) /\ left < MinStake)
    <3>1. makerNostrKeyHash' = makerNostrKeyHash /\ exitUnlockTime' = exitUnlockTime
      BY <1>1, <2>2 DEF FinalizeSlash, SlashStake, cut
    <3>2. standing' = standing
      BY <3>1, StandingSame
    <3>3. left < MinStake => standing[m] = "depositor"
      BY <1>0, <1>1, <1>3, <2>2 DEF standing
    <3>4. QED
      BY <1>0, <3>2, <3>3, StandingType
  <2>3. QED
    BY <2>1, <2>2
<1>5. \A r : InPhase(r)' =
        IF r = "ResolvedSlash" THEN InPhase(r) \cup {c} ELSE InPhase(r) \ {c}
  BY <1>0, VerdictMove DEF FinalizeSlash
<1>6. c \in InPhase("Open") \cup InPhase("Contested")
  BY PhaseOf DEF Live
<1>7. c \notin InPhase("ResolvedExonerate")
  BY <1>6, PhaseOf
<1>8. QED
  BY <1>2, <1>4, <1>5, <1>6, <1>7 DEF Custody!Uphold, Custody!Undecided

LEMMA CourtView ==
    ASSUME IInv, NEW c \in Case, CourtCall(c)
    PROVE  Custody!Accuse(c) \/ Custody!Answer(c) \/ Custody!Uphold(c) \/ Custody!Dismiss(c)
<1>0. TypeOK
  BY DEF IInv
<1>1. CASE \E bond \in Bonds : OpenGrievance(c, bond)
  <2>1. PICK bond \in Bonds : OpenGrievance(c, bond)
    BY <1>1
  <2>2. \A r : InPhase(r)' = IF r = "Open" THEN InPhase(r) \cup {c} ELSE InPhase(r) \ {c}
    <3>1. \E g : g.phase = "Open" /\ grievances' = [grievances EXCEPT ![c] = g]
      BY <2>1 DEF OpenGrievance
    <3>2. QED
      BY <1>0, <3>1, PhaseMove
  <2>3. \A r \in {"Open", "Contested", "ResolvedSlash", "ResolvedExonerate"} : c \notin InPhase(r)
    BY <2>1, PhaseOf DEF OpenGrievance
  <2>4. standing' = standing /\ stake' = stake
    BY <2>1, StandingSame DEF OpenGrievance
  <2>5. QED
    BY <2>2, <2>3, <2>4 DEF Custody!Accuse, Custody!Undecided, Custody!Decided
<1>2. CASE DefendGrievance(c)
  <2>1. \A r : InPhase(r)' =
          IF r = "Contested" THEN InPhase(r) \cup {c} ELSE InPhase(r) \ {c}
    BY <1>0, <1>2, VerdictMove DEF DefendGrievance
  <2>2. c \in InPhase("Open") /\ c \notin InPhase("ResolvedSlash")
        /\ c \notin InPhase("ResolvedExonerate")
    BY <1>2, PhaseOf DEF DefendGrievance
  <2>3. standing' = standing /\ stake' = stake
    BY <1>2, StandingSame DEF DefendGrievance, registryVars
  <2>4. QED
    BY <2>1, <2>2, <2>3 DEF Custody!Answer
<1>3. CASE Live(c) /\ FinalizeSlash(c)
  BY <1>3, SlashView
<1>4. CASE grievances[c].phase = "Contested" /\ FinalizeExonerate(c)
  <2>1. \A r : InPhase(r)' =
          IF r = "ResolvedExonerate" THEN InPhase(r) \cup {c} ELSE InPhase(r) \ {c}
    BY <1>0, <1>4, VerdictMove DEF FinalizeExonerate
  <2>2. c \in InPhase("Contested") /\ c \notin InPhase("Open") /\ c \notin InPhase("ResolvedSlash")
    BY <1>4, PhaseOf
  <2>3. standing' = standing /\ stake' = stake
    BY <1>4, StandingSame DEF FinalizeExonerate
  <2>4. QED
    BY <2>1, <2>2, <2>3 DEF Custody!Dismiss
<1>5. QED
  BY <1>1, <1>2, <1>3, <1>4 DEF CourtCall, ResolveGrievance, AdjudicateGrievance, Live

LEMMA StepView ==
    ASSUME IInv, [Next]_vars
    PROVE  [Custody!Next]_Custody!custodyVars
<1>1. CASE \E m \in Makers : RegistryCall(m)
  BY <1>1, RegistryView, CourtAssumption DEF Custody!Next
<1>2. CASE \E c \in Case : CourtCall(c)
  BY <1>2, CourtView DEF Custody!Next
<1>3. CASE UNCHANGED <<stake, makerNostrKeyHash, exitUnlockTime, grievances>>
  BY <1>3, StandingSame, DocketView DEF Custody!custodyVars, Custody!docket
<1>4. QED
  BY <1>1, <1>2, <1>3 DEF Next, WireCourt, SetGrievanceCourt, NextBlock, Receive, vars,
     registryVars, courtVars

\* The contracts implement the abstract custodian: no stake leaves the hands of
\* an accused owner, and each accusation gets exactly one verdict.
THEOREM CustodyImplemented == Spec => ImplementsCustody
<1>1. IInv /\ [Next]_vars => [Custody!Next]_Custody!custodyVars
  BY StepView
<1>2. QED
  BY <1>1, InitView, Inductive, PTL DEF Spec, ImplementsCustody, Custody!Spec

-----------------------------------------------------------------------------
(* Leaving.                                                                *)

\* The unlock time of an address in the queue counts from its request, and its
\* lock from the last verdict against it.
ExitInv ==
    /\ requestedAt \in [Address -> Nat] /\ resolvedAt \in [Case -> Nat]
    /\ \A m \in Address : InExitQueue(m) =>
          grievanceCourt # Zero /\ exitUnlockTime[m] >= requestedAt[m] + CooldownPeriod
    /\ \A c \in Case : Resolved(c) =>
          withdrawalLockUntil[c.accused] >= resolvedAt[c] + SlashingWindow

ExitIInv == IInv /\ ExitInv

\* What the history variables become.
LEMMA HistoryType ==
    ASSUME ExitIInv, Chronicle
    PROVE  /\ requestedAt' \in [Address -> Nat] /\ resolvedAt' \in [Case -> Nat]
           /\ \A m \in Address : requestedAt'[m] =
                 IF ~InExitQueue(m) /\ InExitQueue(m)' THEN now ELSE requestedAt[m]
           /\ \A c \in Case : resolvedAt'[c] =
                 IF ~Resolved(c) /\ Resolved(c)' THEN now ELSE resolvedAt[c]
BY DEF Chronicle, ExitIInv, ExitInv, IInv, TypeOK

\* An exit queue that nobody enters, and cases that nobody decides.
LEMMA ExitSame ==
    ASSUME ExitIInv, Chronicle, UNCHANGED <<grievances, withdrawalLockUntil>>,
           grievanceCourt # Zero => grievanceCourt' # Zero,
           \A m \in Address : exitUnlockTime'[m] \in {0, exitUnlockTime[m]}
    PROVE  ExitInv'
<1>1. \A c \in Case : Resolved(c)' <=> Resolved(c)
  BY DEF Resolved
<1>2. \A m \in Address : InExitQueue(m)' => InExitQueue(m) /\ exitUnlockTime'[m] = exitUnlockTime[m]
  BY DEF InExitQueue
<1> QED
  BY <1>1, <1>2, HistoryType DEF ExitIInv, ExitInv

LEMMA ExitRegistry ==
    ASSUME ExitIInv, Chronicle, NEW n \in Makers, RegistryCall(n)
    PROVE  ExitInv'
<1>0. /\ n \in Address /\ exitUnlockTime \in [Address -> Nat] /\ now \in Nat /\ CooldownPeriod \in Nat
      /\ UNCHANGED <<grievances, withdrawalLockUntil>>
  BY CourtAssumption, RegistryAssumption
     DEF ExitIInv, IInv, TypeOK, RegistryTypeOK, RegistryCall, courtVars
<1>1. CASE RequestWithdrawal(n, openGrievanceCountAgainst[n], withdrawalLockUntil[n])
  <2>1. /\ ~InExitQueue(n) /\ grievanceCourt # Zero /\ grievanceCourt' = grievanceCourt
        /\ exitUnlockTime'[n] = now + CooldownPeriod
        /\ \A m \in Address \ {n} : exitUnlockTime'[m] = exitUnlockTime[m]
    BY <1>0, <1>1 DEF RequestWithdrawal
  <2>2. \A c \in Case : Resolved(c)' <=> Resolved(c)
    BY <1>0 DEF Resolved
  <2>3. ASSUME NEW m \in Address, InExitQueue(m)'
        PROVE  grievanceCourt' # Zero /\ exitUnlockTime'[m] >= requestedAt'[m] + CooldownPeriod
    <3>1. CASE m = n
      BY <1>0, <2>1, <2>3, <3>1, HistoryType
    <3>2. CASE m # n
      <4>1. InExitQueue(m) /\ exitUnlockTime'[m] = exitUnlockTime[m]
        BY <2>1, <2>3, <3>2 DEF InExitQueue
      <4> QED
        BY <2>1, <2>3, <4>1, HistoryType DEF ExitIInv, ExitInv
    <3> QED
      BY <3>1, <3>2
  <2> QED
    BY <1>0, <2>2, <2>3, HistoryType DEF ExitIInv, ExitInv
<1>2. CASE WithdrawStake(n, openGrievanceCountAgainst[n], withdrawalLockUntil[n])
  BY <1>0, <1>2, ExitSame DEF WithdrawStake
<1>3. CASE UNCHANGED <<grievanceCourt, exitUnlockTime>>
  BY <1>0, <1>3, ExitSame
<1> QED
  BY <1>1, <1>2, <1>3 DEF RegistryCall, Deposit, RegisterMaker, Withdraw

\* A verdict locks its accused for a window.
LEMMA ExitVerdict ==
    ASSUME ExitIInv, Chronicle, NEW c \in Case, FinalizeSlash(c) \/ FinalizeExonerate(c)
    PROVE  ExitInv'
<1>0. /\ c.accused \in Address /\ now \in Nat /\ SlashingWindow \in Nat
      /\ withdrawalLockUntil \in [Address -> Nat] /\ exitUnlockTime \in [Address -> Nat]
      /\ \A d \in Case : d.accused \in Address
  BY CaseType, CourtAssumption DEF ExitIInv, IInv, TypeOK, RegistryTypeOK
<1>1. /\ BumpWithdrawalLock(c.accused) /\ grievanceCourt' = grievanceCourt
      /\ \E p \in Phase : grievances' = InPhaseNow(c, p)
  BY DEF FinalizeSlash, FinalizeExonerate, Phase
<1>2. /\ withdrawalLockUntil'[c.accused] >= now + SlashingWindow
      /\ \A m \in Address : withdrawalLockUntil'[m] >= withdrawalLockUntil[m]
      /\ withdrawalLockUntil' \in [Address -> Nat]
  BY <1>0, <1>1 DEF BumpWithdrawalLock, Later
<1>3. \A d \in Case \ {c} : Resolved(d)' <=> Resolved(d)
  BY <1>1 DEF Resolved, InPhaseNow, ExitIInv, IInv, TypeOK
<1>4. \A m \in Address : exitUnlockTime'[m] \in {0, exitUnlockTime[m]}
  BY <1>0 DEF FinalizeSlash, FinalizeExonerate, SlashStake
<1>5. ASSUME NEW m \in Address, InExitQueue(m)'
      PROVE  grievanceCourt' # Zero /\ exitUnlockTime'[m] >= requestedAt'[m] + CooldownPeriod
  <2>1. InExitQueue(m) /\ exitUnlockTime'[m] = exitUnlockTime[m]
    BY <1>4, <1>5 DEF InExitQueue
  <2> QED
    BY <1>1, <1>5, <2>1, HistoryType DEF ExitIInv, ExitInv
<1>6. ASSUME NEW d \in Case, Resolved(d)'
      PROVE  withdrawalLockUntil'[d.accused] >= resolvedAt'[d] + SlashingWindow
  <2>1. CASE Resolved(d)
    <3>1. resolvedAt'[d] = resolvedAt[d] /\ resolvedAt[d] \in Nat
      BY <2>1, HistoryType DEF ExitIInv, ExitInv
    <3> QED
      BY <1>0, <1>2, <2>1, <3>1 DEF ExitIInv, ExitInv
  <2>2. CASE ~Resolved(d)
    <3>1. d = c /\ resolvedAt'[d] = now
      BY <1>3, <1>6, <2>2, HistoryType
    <3> QED
      BY <1>2, <3>1
  <2> QED
    BY <2>1, <2>2
<1> QED
  BY <1>5, <1>6, HistoryType DEF ExitInv

LEMMA ExitStep == ExitIInv /\ [MCNext]_mcVars => ExitIInv'
<1> SUFFICES ASSUME ExitIInv, [MCNext]_mcVars PROVE ExitInv'
  BY StepInv DEF ExitIInv, MCNext, mcVars
<1>1. CASE UNCHANGED mcVars
  BY <1>1 DEF mcVars, vars, registryVars, courtVars, history, ExitIInv, ExitInv, InExitQueue, Resolved
<1>2. CASE Next /\ Chronicle
  <2>1. CASE \E n \in Makers : RegistryCall(n)
    BY <1>2, <2>1, ExitRegistry
  <2>2. CASE \E c \in Case : FinalizeSlash(c) \/ FinalizeExonerate(c)
    BY <1>2, <2>2, ExitVerdict
  <2>3. CASE \E c \in Case : DefendGrievance(c) \/ \E bond \in Bonds : OpenGrievance(c, bond)
    <3>1. PICK c \in Case, p \in {"Open", "Contested"} :
             /\ \A d \in Case \ {c} : grievances'[d] = grievances[d]
             /\ grievances'[c].phase = p
             /\ UNCHANGED <<grievanceCourt, exitUnlockTime, withdrawalLockUntil>>
      BY <2>3 DEF DefendGrievance, OpenGrievance, InPhaseNow, registryVars, ExitIInv, IInv, TypeOK
    <3>2. \A d \in Case : Resolved(d)' => Resolved(d)
      BY <3>1 DEF Resolved
    <3> QED
      BY <1>2, <3>1, <3>2, HistoryType DEF ExitIInv, ExitInv, InExitQueue
  <2>4. CASE /\ UNCHANGED <<exitUnlockTime, grievances, withdrawalLockUntil>>
             /\ grievanceCourt' = grievanceCourt \/ grievanceCourt' = Court
    BY <1>2, <2>4, ExitSame, ChainAssumption
  <2> QED
    BY <1>2, <2>1, <2>2, <2>3, <2>4 DEF Next, WireCourt, SetGrievanceCourt, NextBlock, Receive, vars,
       registryVars, courtVars, CourtCall, ResolveGrievance, AdjudicateGrievance
<1> QED
  BY <1>1, <1>2 DEF MCNext

\* Only withdrawStake lets an address leave, and it looks at the clock, the
\* count and the lock.
LEMMA LeavingServes ==
    ASSUME ExitIInv, MCNext, NEW m \in Address, Left(m)
    PROVE  /\ now >= requestedAt[m] + CooldownPeriod
           /\ \A c \in Case : c.accused = m =>
                 ~Live(c) /\ (Resolved(c) => now >= resolvedAt[c] + SlashingWindow)
<1>0. /\ exitUnlockTime[m] # 0 /\ exitUnlockTime'[m] = 0 /\ UNCHANGED grievances
      /\ exitUnlockTime \in [Address -> Nat] /\ now \in Nat /\ TypeOK /\ IInv
  BY DEF Left, InExitQueue, ExitIInv, IInv, TypeOK, RegistryTypeOK
<1>1. \A c \in Case : Live(c) => ~(FinalizeSlash(c) \/ FinalizeExonerate(c))
  BY <1>0 DEF FinalizeSlash, FinalizeExonerate, InPhaseNow, Live, TypeOK
<1>2. \E n \in Makers : RegistryCall(n)
  BY <1>0, <1>1 DEF MCNext, Next, WireCourt, SetGrievanceCourt, NextBlock, Receive, registryVars,
     CourtCall, OpenGrievance, DefendGrievance, ResolveGrievance, AdjudicateGrievance, Live
<1>3. PICK n \in Makers : RegistryCall(n)
  BY <1>2
<1>4. n \in Address /\ CooldownPeriod \in Nat /\ SlashingWindow \in Nat
  BY CourtAssumption, RegistryAssumption
<1>5. n = m /\ WithdrawStake(m, openGrievanceCountAgainst[m], withdrawalLockUntil[m])
  <2>1. CASE RequestWithdrawal(n, openGrievanceCountAgainst[n], withdrawalLockUntil[n])
    <3>1. exitUnlockTime'[n] = now + CooldownPeriod /\ now # 0
      BY <1>0, <1>4, <2>1 DEF RequestWithdrawal, TypeOK
    <3>2. n # m
      BY <1>0, <1>4, <3>1
    <3> QED
      BY <1>0, <2>1, <3>2 DEF RequestWithdrawal
  <2>2. CASE WithdrawStake(n, openGrievanceCountAgainst[n], withdrawalLockUntil[n])
    BY <1>0, <2>2 DEF WithdrawStake
  <2> QED
    BY <1>0, <1>3, <2>1, <2>2 DEF RegistryCall, Deposit, RegisterMaker, Withdraw
<1>6. /\ now >= exitUnlockTime[m] /\ grievanceCourt # Zero
      /\ openGrievanceCountAgainst[m] = 0 /\ now >= withdrawalLockUntil[m]
  BY <1>0, <1>5 DEF WithdrawStake, ExitIInv, ExitInv, InExitQueue
<1>7. LiveAgainst(m) = {}
  BY <1>0, <1>6, DocketFinite DEF IInv, CountIsLiveCases
<1>8. /\ requestedAt[m] \in Nat /\ exitUnlockTime[m] >= requestedAt[m] + CooldownPeriod
      /\ exitUnlockTime[m] \in Nat
  BY <1>0 DEF ExitIInv, ExitInv, InExitQueue
<1>9. ASSUME NEW c \in Case, c.accused = m, Resolved(c) PROVE now >= resolvedAt[c] + SlashingWindow
  <2>1. /\ withdrawalLockUntil[m] >= resolvedAt[c] + SlashingWindow
        /\ resolvedAt[c] \in Nat /\ withdrawalLockUntil[m] \in Nat
    BY <1>0, <1>9 DEF ExitIInv, ExitInv, TypeOK
  <2> QED
    BY <1>0, <1>4, <1>6, <2>1
<1> QED
  BY <1>0, <1>4, <1>6, <1>7, <1>8, <1>9 DEF LiveAgainst

\* A maker leaves a cooldown after it asked to, with no case undecided, and a
\* slashing window after every verdict, whatever happens in between (withdrawStake).
THEOREM LeaversServeTheirTime == MCSpec => ExitServesItsTime
<1> DEFINE Served(m) == Left(m) =>
          /\ now >= requestedAt[m] + CooldownPeriod
          /\ \A c \in Case : c.accused = m =>
                /\ ~Live(c)
                /\ Resolved(c) => now >= resolvedAt[c] + SlashingWindow
<1>1. MCInit => ExitIInv
  BY InitInv DEF MCInit, Init, RegistryInit, ExitIInv, ExitInv, InExitQueue, Resolved, NoGrievance
<1>2. ExitIInv /\ [MCNext]_mcVars => [\A m \in Address : Served(m)]_mcVars
  BY LeavingServes
<1> QED
  BY <1>1, <1>2, ExitStep, PTL DEF MCSpec, ExitServesItsTime

-----------------------------------------------------------------------------
(* Sums over the accounts.  SumFunction is a fold, and a fold a recursive  *)
(* function on the subsets of its domain; what holds of it is proved from  *)
(* a set, and a number of elements, that would be the first to break it.   *)

\* it adds up f over every subset of S, one chosen element after the other.
Adds(f, S, it) ==
    it = [s \in SUBSET S |->
            IF s = {} THEN 0
            ELSE LET x == CHOOSE x \in s : TRUE IN f[x] + it[s \ {x}]]

\* Every set of naturals that is not empty has a least element.
LEMMA LeastOf ==
    ASSUME NEW T, T \subseteq Nat, T # {}
    PROVE  \E n \in T : \A k \in T : n <= k
<1>1. PICK n \in T : \A k \in T : ~(<<k, n>> \in OpToRel(<, Nat))
  BY NatLessThanWellFounded, WFMin
<1>2. ASSUME NEW k \in T PROVE n <= k
  <2>1. <<k, n>> \in Nat \X Nat /\ k \in Nat /\ n \in Nat
    OBVIOUS
  <2>2. ~(k < n)
    BY <1>1, <2>1 DEF OpToRel
  <2> QED
    BY <2>1, <2>2
<1> QED
  BY <1>2

Chosen(s) == CHOOSE x \in s : TRUE
AddsAt(f, it, s) == it[s] = IF s = {} THEN 0 ELSE f[Chosen(s)] + it[s \ {Chosen(s)}]

LEMMA ChosenIn == ASSUME NEW s, s # {} PROVE Chosen(s) \in s
BY DEF Chosen

\* sets of at most n elements
LEMMA Level ==
    ASSUME NEW S, IsFiniteSet(S), NEW f \in [S -> Int], NEW n \in Nat
    PROVE  \E it \in [SUBSET S -> Int] :
               \A s \in SUBSET S : Cardinality(s) <= n => AddsAt(f, it, s)
<1> DEFINE H(m) == \E it \in [SUBSET S -> Int] :
                       \A s \in SUBSET S : Cardinality(s) <= m => AddsAt(f, it, s)
           Bad == {m \in Nat : ~H(m)}
<1>0. \A s \in SUBSET S : Cardinality(s) \in Nat /\ IsFiniteSet(s)
  BY FS_Subset, FS_CardinalityType
<1>1. H(0)
  <2> DEFINE z == [s \in SUBSET S |-> 0]
  <2>1. z \in [SUBSET S -> Int]
    OBVIOUS
  <2>2. ASSUME NEW s \in SUBSET S, Cardinality(s) <= 0 PROVE AddsAt(f, z, s)
    <3>1. s = {}
      BY <1>0, <2>2, FS_EmptySet
    <3> QED
      BY <3>1 DEF AddsAt
  <2> QED
    BY <2>1, <2>2
<1>2. ASSUME NEW m \in Nat, H(m) PROVE H(m + 1)
  <2>1. PICK it \in [SUBSET S -> Int] : \A s \in SUBSET S : Cardinality(s) <= m => AddsAt(f, it, s)
    BY <1>2
  <2> DEFINE next == [s \in SUBSET S |-> IF s = {} THEN 0 ELSE f[Chosen(s)] + it[s \ {Chosen(s)}]]
  <2>2. next \in [SUBSET S -> Int]
    BY ChosenIn
  <2>3. ASSUME NEW s \in SUBSET S, Cardinality(s) <= m PROVE next[s] = it[s]
    BY <2>1, <2>3 DEF AddsAt
  <2>4. ASSUME NEW s \in SUBSET S, Cardinality(s) <= m + 1 PROVE AddsAt(f, next, s)
    <3>1. CASE s = {}
      BY <3>1 DEF AddsAt
    <3>2. CASE s # {}
      <4> DEFINE t == s \ {Chosen(s)}
      <4>1. t \in SUBSET S /\ Cardinality(t) = Cardinality(s) - 1
        BY <1>0, <3>2, ChosenIn, FS_RemoveElement
      <4>2. Cardinality(t) <= m
        BY <1>0, <2>4, <4>1
      <4>3. next[t] = it[t]
        BY <2>3, <4>1, <4>2
      <4> QED
        BY <3>2, <4>3 DEF AddsAt
    <3> QED
      BY <3>1, <3>2
  <2> QED
    BY <2>2, <2>4
<1> HIDE DEF H
<1>3. Bad = {}
  <2> SUFFICES ASSUME Bad # {} PROVE FALSE
    OBVIOUS
  <2>1. PICK m \in Bad : \A k \in Bad : m <= k
    BY LeastOf
  <2>2. m # 0
    BY <1>1
  <2>3. m - 1 \in Nat /\ m - 1 \notin Bad
    BY <2>1, <2>2
  <2> QED
    BY <1>2, <2>1, <2>3
<1>4. H(n)
  BY <1>3
<1> QED
  BY <1>4 DEF H

LEMMA SumExists ==
    ASSUME NEW S, IsFiniteSet(S), NEW f \in [S -> Int]
    PROVE  \E it \in [SUBSET S -> Int] : Adds(f, S, it)
<1>1. PICK it \in [SUBSET S -> Int] :
               \A s \in SUBSET S : Cardinality(s) <= Cardinality(S) => AddsAt(f, it, s)
  BY Level, FS_CardinalityType
<1>2. \A s \in SUBSET S : AddsAt(f, it, s)
  BY <1>1, FS_Subset
<1>3. Adds(f, S, it)
  BY <1>2 DEF Adds, AddsAt, Chosen
<1> QED
  BY <1>3

\* The sum of a function is what such a function says of the whole domain.
LEMMA SumIs ==
    ASSUME NEW S, IsFiniteSet(S), NEW f \in [S -> Int]
    PROVE  \E it : (\A s \in SUBSET S : AddsAt(f, it, s)) /\ SumFunction(f) = it[S]
<1> DEFINE i == CHOOSE it : Adds(f, S, it)
<1>1. Adds(f, S, i)
  BY SumExists
<1>2. SumFunction(f) = i[S]
  BY DEF SumFunction, SumFunctionOnSet, FoldFunctionOnSet, MapThenFoldSet, Adds
<1>3. \A s \in SUBSET S : AddsAt(f, i, s)
  BY <1>1 DEF Adds, AddsAt, Chosen
<1> QED
  BY <1>2, <1>3

\* If f and g differ at x only, what two such functions say differs by as much
\* for every set with x in it.
LEMMA SumsDiffer ==
    ASSUME NEW S, IsFiniteSet(S), NEW f \in [S -> Int], NEW g \in [S -> Int], NEW x \in S,
           \A y \in S \ {x} : g[y] = f[y],
           NEW i, \A s \in SUBSET S : AddsAt(f, i, s),
           NEW j, \A s \in SUBSET S : AddsAt(g, j, s)
    PROVE  i[S] \in Int /\ j[S] = i[S] + g[x] - f[x]
<1> DEFINE By(s) == IF x \in s THEN g[x] - f[x] ELSE 0
           Good(s) == i[s] \in Int /\ j[s] = i[s] + By(s)
           Bad == {n \in Nat : \E s \in SUBSET S : Cardinality(s) = n /\ ~Good(s)}
<1>0. \A s \in SUBSET S : Cardinality(s) \in Nat /\ IsFiniteSet(s)
  BY FS_Subset, FS_CardinalityType
<1>1. Bad = {}
  <2> SUFFICES ASSUME Bad # {} PROVE FALSE
    OBVIOUS
  <2>1. PICK n \in Bad : \A k \in Bad : n <= k
    BY LeastOf
  <2>6. n \in Nat /\ \A k \in Nat : k < n => k \notin Bad
    BY <2>1
  <2>2. PICK s \in SUBSET S : Cardinality(s) = n /\ ~Good(s)
    BY <2>1
  <2>3. AddsAt(f, i, s) /\ AddsAt(g, j, s)
    BY <2>2
  <2>4. CASE s = {}
    BY <2>2, <2>3, <2>4 DEF AddsAt
  <2>5. CASE s # {}
    <3> DEFINE c == Chosen(s)
               t == s \ {c}
    <3>1. c \in s /\ c \in S /\ t \in SUBSET S /\ Cardinality(t) = Cardinality(s) - 1
      BY <1>0, <2>5, ChosenIn, FS_RemoveElement
    <3>2. Cardinality(t) \in Nat /\ Cardinality(t) < n
      BY <1>0, <2>2, <3>1
    <3>3. Cardinality(t) \notin Bad
      BY <2>6, <3>2
    <3>4. Good(t)
      BY <3>1, <3>2, <3>3
    <3>5. i[s] = f[c] + i[t] /\ j[s] = g[c] + j[t]
      BY <2>3, <2>5 DEF AddsAt
    <3>6. f[c] \in Int /\ g[c] \in Int /\ f[x] \in Int /\ g[x] \in Int
      BY <3>1
    <3> HIDE DEF c
    <3>7. CASE c = x
      <4>1. By(t) = 0 /\ By(s) = g[c] - f[c]
        BY <3>1, <3>7
      <4> QED
        BY <2>2, <3>4, <3>5, <3>6, <4>1
    <3>8. CASE c # x
      <4>1. By(t) = By(s) /\ g[c] = f[c] /\ By(s) \in Int
        BY <3>1, <3>6, <3>8
      <4> QED
        BY <2>2, <3>4, <3>5, <3>6, <4>1
    <3> QED
      BY <3>7, <3>8
  <2> QED
    BY <2>4, <2>5
<1>2. Good(S)
  BY <1>0, <1>1
<1> QED
  BY <1>2

LEMMA SumUpdate ==
    ASSUME NEW S, IsFiniteSet(S), NEW f \in [S -> Int], NEW g \in [S -> Int], NEW x \in S,
           \A y \in S \ {x} : g[y] = f[y]
    PROVE  SumFunction(f) \in Int /\ SumFunction(g) = SumFunction(f) + g[x] - f[x]
<1>1. PICK i : (\A s \in SUBSET S : AddsAt(f, i, s)) /\ SumFunction(f) = i[S]
  BY SumIs
<1>2. PICK j : (\A s \in SUBSET S : AddsAt(g, j, s)) /\ SumFunction(g) = j[S]
  BY SumIs
<1> QED
  BY <1>1, <1>2, SumsDiffer

\* A sum is an integer, and that of zeroes is zero.
LEMMA SumType ==
    ASSUME NEW S, IsFiniteSet(S), NEW f \in [S -> Int]
    PROVE  SumFunction(f) \in Int
<1>1. PICK i : (\A s \in SUBSET S : AddsAt(f, i, s)) /\ SumFunction(f) = i[S]
  BY SumIs
<1>2. CASE S = {}
  <2>1. AddsAt(f, i, {})
    BY <1>1, <1>2
  <2> QED
    BY <1>1, <1>2, <2>1 DEF AddsAt
<1>3. CASE S # {}
  <2>1. PICK x \in S : TRUE
    BY <1>3
  <2> QED
    BY <2>1, SumUpdate
<1> QED
  BY <1>2, <1>3

LEMMA SumZero ==
    ASSUME NEW S, IsFiniteSet(S), NEW f \in [S -> Int], \A x \in S : f[x] = 0
    PROVE  SumFunction(f) = 0
<1>1. PICK i : (\A s \in SUBSET S : AddsAt(f, i, s)) /\ SumFunction(f) = i[S]
  BY SumIs
<1> DEFINE Bad == {n \in Nat : \E s \in SUBSET S : Cardinality(s) = n /\ i[s] # 0}
<1>2. \A s \in SUBSET S : Cardinality(s) \in Nat /\ IsFiniteSet(s)
  BY FS_Subset, FS_CardinalityType
<1>3. Bad = {}
  <2> SUFFICES ASSUME Bad # {} PROVE FALSE
    OBVIOUS
  <2>1. PICK n \in Bad : \A k \in Bad : n <= k
    BY LeastOf
  <2>2. n \in Nat /\ \A k \in Nat : k < n => k \notin Bad
    BY <2>1
  <2>3. PICK s \in SUBSET S : Cardinality(s) = n /\ i[s] # 0
    BY <2>1
  <2>4. AddsAt(f, i, s)
    BY <1>1
  <2>5. s # {}
    BY <2>3, <2>4 DEF AddsAt
  <2> DEFINE c == Chosen(s)
             t == s \ {c}
  <2>6. c \in s /\ c \in S /\ t \in SUBSET S /\ Cardinality(t) = Cardinality(s) - 1
    BY <1>2, <2>5, ChosenIn, FS_RemoveElement
  <2>7. Cardinality(t) \in Nat /\ Cardinality(t) < n
    BY <1>2, <2>3, <2>6
  <2>8. Cardinality(t) \notin Bad
    BY <2>2, <2>7
  <2>9. i[t] = 0
    BY <2>6, <2>7, <2>8
  <2>10. i[s] = f[c] + i[t]
    BY <2>4, <2>5 DEF AddsAt
  <2> QED
    BY <2>3, <2>6, <2>9, <2>10
<1> QED
  BY <1>1, <1>2, <1>3


-----------------------------------------------------------------------------
(* The accounts of the two contracts.                                      *)

\* One stake changes and the registry's account with it.
LEMMA StakeMove ==
    ASSUME TypeOK, RegistrySolvent, NEW m \in Address, NEW v \in Nat,
           stake' \in [Address -> Nat], stake'[m] = v,
           \A y \in Address \ {m} : stake'[y] = stake[y],
           balance'[Registry] - balance[Registry] = v - stake[m],
           balance'[Registry] \in Int
    PROVE  RegistrySolvent'
<1>1. stake \in [Address -> Int] /\ stake' \in [Address -> Int] /\ IsFiniteSet(Address)
  BY CourtAssumption DEF TypeOK, RegistryTypeOK
<1>2. /\ SumFunction(stake) \in Int
      /\ SumFunction(stake') = SumFunction(stake) + stake'[m] - stake[m]
  BY <1>1, SumUpdate
<1>3. stake'[m] \in Int /\ stake[m] \in Int
  BY <1>1
<1> QED
  BY <1>2, <1>3 DEF RegistrySolvent

\* One case changes and the court's account with it.
LEMMA BondMove ==
    ASSUME TypeOK, TypeOK', CourtHoldsLiveBonds, NEW c \in Case,
           \A d \in Case \ {c} : grievances'[d] = grievances[d],
           balance'[Court] - donated' = balance[Court] - donated + heldBonds'[c] - heldBonds[c]
    PROVE  CourtHoldsLiveBonds'
<1>1. heldBonds \in [Case -> Int] /\ heldBonds' \in [Case -> Int]
  BY DEF TypeOK, heldBonds
<1>2. \A d \in Case \ {c} : heldBonds'[d] = heldBonds[d]
  BY DEF heldBonds, Live
<1>3. SumFunction(heldBonds) \in Int
      /\ SumFunction(heldBonds') = SumFunction(heldBonds) + heldBonds'[c] - heldBonds[c]
  BY <1>1, <1>2, CaseFinite, SumUpdate
<1>4. /\ balance[Court] \in Int /\ balance'[Court] \in Int /\ donated \in Int /\ donated' \in Int
      /\ heldBonds[c] \in Int /\ heldBonds'[c] \in Int
  BY <1>1 DEF TypeOK, Account
<1> QED
  BY <1>3, <1>4 DEF CourtHoldsLiveBonds

Solvent == RegistrySolvent /\ CourtHoldsLiveBonds

LEMMA HeldSame == ASSUME UNCHANGED grievances PROVE heldBonds' = heldBonds
BY DEF heldBonds, Live

LEMMA RegistryKeepsBooks ==
    ASSUME TypeOK, Solvent, NEW m \in Makers, RegistryCall(m)
    PROVE  Solvent'
<1>1. /\ m \in Address /\ m \in Account /\ Registry \in Account /\ Court \in Account /\ m # Registry /\ m # Court
      /\ Registry # Court /\ balance \in [Account -> Int] /\ stake \in [Address -> Nat]
      /\ Amounts \subseteq Nat
  BY CourtAssumption, ChainAssumption, RegistryAssumption DEF Account, TypeOK, RegistryTypeOK
<1>2. UNCHANGED <<grievances, donated>>
  BY DEF RegistryCall, courtVars
<1>3. ASSUME balance'[Court] = balance[Court] PROVE CourtHoldsLiveBonds'
  BY <1>2, <1>3, HeldSame DEF Solvent, CourtHoldsLiveBonds
<1>4. ASSUME NEW amount \in Amounts, Deposit(m, amount) PROVE Solvent'
  <2>1. /\ balance'[Registry] = balance[Registry] + amount
        /\ balance'[Court] = balance[Court]
    BY <1>1, <1>4 DEF Paid, Deposit
  <2>4. balance'[Registry] - balance[Registry] = (stake[m] + amount) - stake[m] /\ balance'[Registry] \in Int
    BY <1>1, <2>1
  <2>2. /\ stake[m] + amount \in Nat /\ stake' \in [Address -> Nat] /\ stake'[m] = stake[m] + amount
        /\ \A y \in Address \ {m} : stake'[y] = stake[y]
    BY <1>1, <1>4 DEF Deposit
  <2>3. RegistrySolvent'
    BY <1>1, <2>2, <2>4, StakeMove DEF Solvent
  <2> QED
    BY <1>3, <2>1, <2>3 DEF Solvent
<1>5. ASSUME NEW amount \in Amounts, Withdraw(m, amount) PROVE Solvent'
  <2>1. /\ balance'[Registry] = balance[Registry] - amount
        /\ balance'[Court] = balance[Court]
    BY <1>1, <1>5 DEF Paid, Withdraw
  <2>4. balance'[Registry] - balance[Registry] = (stake[m] - amount) - stake[m] /\ balance'[Registry] \in Int
    BY <1>1, <2>1
  <2>2. /\ stake[m] - amount \in Nat /\ stake' \in [Address -> Nat] /\ stake'[m] = stake[m] - amount
        /\ \A y \in Address \ {m} : stake'[y] = stake[y]
    BY <1>1, <1>5 DEF Withdraw
  <2>3. RegistrySolvent'
    BY <1>1, <2>2, <2>4, StakeMove DEF Solvent
  <2> QED
    BY <1>3, <2>1, <2>3 DEF Solvent
<1>6. CASE WithdrawStake(m, openGrievanceCountAgainst[m], withdrawalLockUntil[m])
  <2>1. /\ balance'[Registry] = balance[Registry] - stake[m]
        /\ balance'[Court] = balance[Court]
    BY <1>1, <1>6 DEF Paid, WithdrawStake
  <2>4. balance'[Registry] - balance[Registry] = 0 - stake[m] /\ balance'[Registry] \in Int
    BY <1>1, <2>1
  <2>2. /\ stake' \in [Address -> Nat] /\ stake'[m] = 0
        /\ \A y \in Address \ {m} : stake'[y] = stake[y]
    BY <1>1, <1>6 DEF WithdrawStake
  <2>3. RegistrySolvent'
    BY <1>1, <2>2, <2>4, StakeMove DEF Solvent
  <2> QED
    BY <1>3, <2>1, <2>3 DEF Solvent
<1>7. CASE UNCHANGED <<balance, stake>>
  BY <1>3, <1>7 DEF Solvent, RegistrySolvent
<1> QED
  BY <1>4, <1>5, <1>6, <1>7 DEF RegistryCall, RegisterMaker, RequestWithdrawal

\* Bounty and burn are together what the slash takes off the stake, and the
\* bond of the case goes to one side.
LEMMA VerdictKeepsBooks ==
    ASSUME TypeOK, TypeOK', Solvent, NEW c \in Case, Live(c),
           FinalizeSlash(c) \/ FinalizeExonerate(c)
    PROVE  Solvent'
<1> DEFINE m == c.accused
           a == c.accuser
           bond == grievances[c].bondAmount
           cut == SlashRequest(m)
           bounty == BasisPart(cut, BountyBps)
<1>1. /\ m \in Address /\ a \in Address /\ m \in Account /\ a \in Account
      /\ Registry \in Account /\ Court \in Account /\ Zero \in Account
      /\ m # Registry /\ m # Court /\ a # Registry /\ a # Court /\ Zero # Registry /\ Zero # Court
      /\ Registry # Court /\ balance \in [Account -> Int] /\ stake[m] \in Nat /\ bond \in Int
  BY CaseType, ChainAssumption DEF Account, TypeOK, RegistryTypeOK
<1>2. /\ cut \in Int /\ stake[m] - cut \in Nat /\ Slashed(m, cut) = cut
      /\ bounty \in Int
  BY <1>1, CutType
<1>3. heldBonds[c] = bond /\ heldBonds'[c] = 0 /\ donated' = donated
      /\ \A d \in Case \ {c} : grievances'[d] = grievances[d]
  BY DEF FinalizeSlash, FinalizeExonerate, InPhaseNow, heldBonds, Live, TypeOK
<1>4. ASSUME balance'[Court] = balance[Court] - bond PROVE CourtHoldsLiveBonds'
  <2>1. balance[Court] \in Int /\ donated \in Int
    BY <1>1 DEF TypeOK
  <2>2. balance'[Court] - donated' = balance[Court] - donated + heldBonds'[c] - heldBonds[c]
    BY <1>1, <1>3, <1>4, <2>1
  <2> QED
    BY <1>3, <2>2, BondMove DEF Solvent
<1>5. CASE FinalizeSlash(c)
  <2> DEFINE b1 == Paid(balance, Registry, a, bounty)
             b2 == Paid(b1, Registry, Zero, cut - bounty)
  <2>1. balance' = Paid(b2, Court, a, bond)
    BY <1>2, <1>5 DEF FinalizeSlash, SlashPaid
  <2>2. /\ stake' \in [Address -> Nat] /\ stake'[m] = stake[m] - cut
        /\ \A y \in Address \ {m} : stake'[y] = stake[y]
    <3>1. stake' = [stake EXCEPT ![m] = stake[m] - cut] /\ stake \in [Address -> Nat]
      BY <1>1, <1>2, <1>5 DEF FinalizeSlash, SlashStake, TypeOK, RegistryTypeOK
    <3> HIDE DEF m, cut
    <3> QED
      BY <1>1, <1>2, <3>1
  <2> HIDE DEF bond, cut, bounty, m, a
  <2>3. b1 \in [Account -> Int] /\ b1[Registry] = balance[Registry] - bounty /\ b1[Court] = balance[Court]
    <3>1. /\ a \in Account /\ Registry \in Account /\ Registry # a /\ bounty \in Int
          /\ balance \in [Account -> Int]
      BY <1>1, <1>2
    <3>2. Court \in Account /\ Court # Registry /\ Court # a
      BY <1>1
    <3> QED
      BY <3>1, <3>2 DEF Paid
  <2> HIDE DEF b1
  <2>4. b2 \in [Account -> Int] /\ b2[Registry] = balance[Registry] - cut /\ b2[Court] = balance[Court]
    <3>1. cut - bounty \in Int
      BY <1>2
    <3>2. b2 \in [Account -> Int] /\ b2[Registry] = b1[Registry] - (cut - bounty) /\ b2[Court] = b1[Court]
      BY <1>1, <2>3, <3>1 DEF Paid
    <3> QED
      BY <1>1, <1>2, <2>3, <3>2
  <2> HIDE DEF b2
  <2>5. balance'[Registry] = balance[Registry] - cut /\ balance'[Court] = balance[Court] - bond
    BY <1>1, <2>1, <2>4 DEF Paid
  <2>6. /\ balance'[Registry] - balance[Registry] = (stake[m] - cut) - stake[m]
        /\ balance'[Registry] \in Int
    BY <1>1, <1>2, <2>5
  <2>7. RegistrySolvent'
    BY <1>1, <1>2, <2>2, <2>6, StakeMove DEF Solvent
  <2> QED
    BY <1>4, <2>5, <2>7 DEF Solvent
<1>6. CASE FinalizeExonerate(c)
  <2>1. balance' = Paid(balance, Court, m, bond) /\ stake' = stake
    BY <1>6 DEF FinalizeExonerate
  <2> HIDE DEF bond, m
  <2>2. balance'[Registry] = balance[Registry] /\ balance'[Court] = balance[Court] - bond
    BY <1>1, <2>1 DEF Paid
  <2> QED
    BY <1>4, <2>1, <2>2 DEF Solvent, RegistrySolvent
<1> QED
  BY <1>5, <1>6

LEMMA CourtKeepsBooks ==
    ASSUME TypeOK, TypeOK', Solvent, NEW c \in Case, CourtCall(c)
    PROVE  Solvent'
<1>1. ASSUME NEW bond \in Bonds, OpenGrievance(c, bond) PROVE Solvent'
  <2>1. /\ c.accuser \in Account /\ Registry \in Account /\ Court \in Account /\ bond \in Int
        /\ c.accuser # Registry /\ c.accuser # Court /\ Registry # Court
        /\ balance \in [Account -> Int] /\ donated \in Int
    BY CaseType, CourtAssumption, ChainAssumption DEF Account, TypeOK
  <2>2. balance'[Registry] = balance[Registry] /\ balance'[Court] = balance[Court] + bond
    BY <1>1, <2>1 DEF Paid, OpenGrievance
  <2>3. /\ stake' = stake /\ donated' = donated
        /\ heldBonds[c] = 0 /\ heldBonds'[c] = bond
        /\ \A d \in Case \ {c} : grievances'[d] = grievances[d]
    BY <1>1 DEF OpenGrievance, heldBonds, Live, TypeOK
  <2>4. balance'[Court] - donated' = balance[Court] - donated + heldBonds'[c] - heldBonds[c]
    BY <2>1, <2>2, <2>3
  <2>5. CourtHoldsLiveBonds'
    BY <2>3, <2>4, BondMove DEF Solvent
  <2> QED
    BY <2>2, <2>3, <2>5 DEF Solvent, RegistrySolvent
<1>2. CASE DefendGrievance(c)
  <2>1. /\ UNCHANGED <<balance, stake, donated>> /\ heldBonds'[c] = heldBonds[c]
        /\ \A d \in Case \ {c} : grievances'[d] = grievances[d]
    BY <1>2 DEF DefendGrievance, InPhaseNow, heldBonds, Live, TypeOK, registryVars
  <2>2. /\ heldBonds[c] \in Int /\ balance[Court] \in Int /\ donated \in Int
    BY DEF heldBonds, TypeOK, Account
  <2>3. CourtHoldsLiveBonds'
    BY <2>1, <2>2, BondMove DEF Solvent
  <2> QED
    BY <2>1, <2>3 DEF Solvent, RegistrySolvent
<1>3. CASE ResolveGrievance(c) \/ \E exonerateAccused \in BOOLEAN : AdjudicateGrievance(c, exonerateAccused)
  BY <1>3, VerdictKeepsBooks DEF ResolveGrievance, AdjudicateGrievance, Live
<1> QED
  BY <1>1, <1>2, <1>3 DEF CourtCall

LEMMA ReceiveKeepsBooks ==
    ASSUME TypeOK, Solvent, NEW a \in Address, NEW amount \in Donations, Receive(a, amount)
    PROVE  Solvent'
<1>1. /\ a \in Account /\ Registry \in Account /\ Court \in Account /\ amount \in Int
      /\ a # Registry /\ a # Court /\ Registry # Court
      /\ balance \in [Account -> Int] /\ donated \in Int
  BY CourtAssumption, ChainAssumption DEF Account, TypeOK
<1>2. balance'[Registry] = balance[Registry] /\ balance'[Court] = balance[Court] + amount
  BY <1>1 DEF Paid, Receive
<1>3. UNCHANGED <<stake, heldBonds>> /\ donated' = donated + amount
  BY HeldSame DEF Receive, registryVars
<1>4. SumFunction(heldBonds) \in Int
  <2>1. heldBonds \in [Case -> Int]
    BY DEF heldBonds, TypeOK
  <2> QED
    BY <2>1, CaseFinite, SumType
<1> QED
  BY <1>1, <1>2, <1>3, <1>4 DEF Solvent, RegistrySolvent, CourtHoldsLiveBonds

LEMMA InitSolvent == Init => Solvent
<1> SUFFICES ASSUME Init PROVE Solvent
  OBVIOUS
<1>1. balance[Registry] = 0 /\ balance[Court] = 0 /\ donated = 0
  BY ChainAssumption DEF Init, ChainInit, Account
<1>2. stake \in [Address -> Int] /\ \A m \in Address : stake[m] = 0
  BY DEF Init, RegistryInit
<1>3. heldBonds \in [Case -> Int] /\ \A c \in Case : heldBonds[c] = 0
  BY DEF Init, heldBonds, Live, NoGrievance
<1>4. SumFunction(stake) = 0 /\ SumFunction(heldBonds) = 0
  BY <1>2, <1>3, CourtAssumption, CaseFinite, SumZero
<1> QED
  BY <1>1, <1>4 DEF Solvent, RegistrySolvent, CourtHoldsLiveBonds

LEMMA StepSolvent == TypeOK /\ TypeOK' /\ Solvent /\ [Next]_vars => Solvent'
<1> SUFFICES ASSUME TypeOK, TypeOK', Solvent, [Next]_vars PROVE Solvent'
  OBVIOUS
<1>1. CASE UNCHANGED <<balance, stake, grievances, donated>>
  BY <1>1, HeldSame DEF Solvent, RegistrySolvent, CourtHoldsLiveBonds
<1>2. CASE \E m \in Makers : RegistryCall(m)
  BY <1>2, RegistryKeepsBooks
<1>3. CASE \E c \in Case : CourtCall(c)
  BY <1>3, CourtKeepsBooks
<1>4. CASE \E a \in Address, amount \in Donations : Receive(a, amount)
  BY <1>4, ReceiveKeepsBooks
<1> QED
  BY <1>1, <1>2, <1>3, <1>4 DEF Next, WireCourt, SetGrievanceCourt, NextBlock, vars,
     registryVars, courtVars

LEMMA AccountsBalance == Spec => []Solvent
BY InitSolvent, StepSolvent, TypeCorrect, PTL DEF Spec

\* The registry's account is the sum of the stakes it has recorded, whoever
\* deposits, leaves or is slashed, in whatever order (MwixnetRegistry.sol).
THEOREM RegistryIsSolvent == Spec => []RegistrySolvent
<1>1. Solvent => RegistrySolvent
  BY DEF Solvent
<1> QED
  BY <1>1, AccountsBalance, PTL

\* The court's account is the sum of the bonds of undecided cases and of what
\* it was sent, so every bond is paid out once (GrievanceCourt.sol).
THEOREM BondsAreHeld == Spec => []CourtHoldsLiveBonds
<1>1. Solvent => CourtHoldsLiveBonds
  BY DEF Solvent
<1> QED
  BY <1>1, AccountsBalance, PTL
=============================================================================
