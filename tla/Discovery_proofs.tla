-------------------------- MODULE Discovery_proofs --------------------------
(***************************************************************************)
(* Proofs about onboarding and scouting, each of which reads the registry  *)
(* field by field while it changes: for any makers, keys, ads and number   *)
(* of runs, and any transactions of others in between.                     *)
(***************************************************************************)
EXTENDS Discovery, GrievanceCourt_proofs

-----------------------------------------------------------------------------
(* The contracts under the clients' transactions.                          *)

\* A maker's deposit of any amount keeps the books and the registration rule.
LEMMA DepositInv ==
    ASSUME IInv, NEW m \in Makers, NEW amount \in Nat, Deposit(m, amount), UNCHANGED <<now, courtVars>>
    PROVE  IInv'
<1>1. m \in Address /\ m \in Account /\ Registry \in Account /\ MinStake \in Nat
  BY CourtAssumption, RegistryAssumption DEF Account
<1>2. TypeOK'
  <2>1. balance' \in [Account -> Nat]
    BY <1>1, PaidType DEF Deposit, IInv, TypeOK
  <2>2. stake' \in [Address -> Nat]
    BY <1>1 DEF Deposit, IInv, TypeOK, RegistryTypeOK
  <2> QED
    BY <2>1, <2>2 DEF Deposit, IInv, TypeOK, RegistryTypeOK, courtVars
<1>3. FrozenIffAccused' /\ CountIsLiveCases'
  BY BooksSame DEF Deposit, courtVars
<1>4. MakersMeetMinStake'
  BY <1>1 DEF Deposit, IInv, TypeOK, RegistryTypeOK, MakersMeetMinStake, Registered, InExitQueue
<1> QED
  BY <1>2, <1>3, <1>4 DEF IInv

-----------------------------------------------------------------------------
(* Types of the clients.                                                   *)

OnboardTypeOK ==
    /\ step \in [Run -> RunStep]
    /\ plan \in [Run -> [seen : Seen, deposit : Nat]]
    /\ outbox \in [Makers -> Seq(Tx)]
    /\ \A m \in Makers : \A i \in 1..Len(outbox[m]) : Operator[outbox[m][i].run] = m

\* What the views answer is typed.
LEMMA EntryType ==
    ASSUME TypeOK, NEW m \in Makers
    PROVE  /\ Entry(m) \in Seen /\ m \in Address
           /\ Entry(m).stake = stake[m] /\ Entry(m).hash = makerNostrKeyHash[m]
           /\ Entry(m).frozen = stakeFrozen[m] /\ Entry(m).exit = exitUnlockTime[m]
BY CourtAssumption DEF Entry, Seen, TypeOK, RegistryTypeOK

\* The transaction at the head of a maker's outbox is one of that maker's run.
LEMMA HeadType ==
    ASSUME OnboardTypeOK, NEW m \in Makers, outbox[m] # <<>>
    PROVE  /\ Head(outbox[m]).run \in Run /\ Operator[Head(outbox[m]).run] = m
           /\ Head(outbox[m]).kind \in {"deposit", "register"}
           /\ Tail(outbox[m]) \in Seq(Tx) /\ Tail(outbox[m]) # outbox[m]
           /\ Len(Tail(outbox[m])) = Len(outbox[m]) - 1 /\ Len(outbox[m]) \in Nat \ {0}
           /\ \A i \in 1..Len(outbox[m]) - 1 : Tail(outbox[m])[i] = outbox[m][i + 1]
           /\ Sent(Head(outbox[m]).run)
<1> DEFINE s == outbox[m]
<1>1. s \in Seq(Tx) /\ s # <<>> /\ \A i \in 1..Len(s) : Operator[s[i].run] = m
  BY DEF OnboardTypeOK
<1>2. /\ Len(s) \in Nat \ {0} /\ Head(s) = s[1] /\ Tail(s) \in Seq(Tx)
      /\ Len(Tail(s)) = Len(s) - 1 /\ s[1] \in Tx
      /\ \A i \in 1..Len(s) - 1 : Tail(s)[i] = s[i + 1]
  BY <1>1
<1>3. Head(s).run \in Run /\ Head(s).kind \in {"deposit", "register"}
  BY <1>2 DEF Tx
<1>4. Tail(s) # s
  <2>1. Len(Tail(s)) # Len(s)
    BY <1>2
  <2> HIDE DEF s
  <2> QED
    BY <2>1
<1>5. Operator[Head(s).run] = m
  BY <1>1, <1>2
<1>6. Sent(Head(s).run)
  BY <1>2, <1>5 DEF Sent
<1> QED
  BY <1>2, <1>3, <1>4, <1>5, <1>6

\* The contracts' part of a transaction of a maker's run.
LEMMA MineCourt ==
    ASSUME IInv, OnboardTypeOK, NEW m \in Makers, Mine(m)
    PROVE  IInv'
<1> DEFINE tx == Head(outbox[m])
<1>1. tx.run \in Run /\ plan[tx.run].deposit \in Nat /\ Key[tx.run] \in KeyHashes
  BY HeadType, DiscoveryAssumption DEF Mine, OnboardTypeOK
<1>2. CASE UNCHANGED vars
  BY <1>2, StepInv DEF vars
<1>3. CASE Deposit(m, plan[tx.run].deposit) /\ UNCHANGED <<now, courtVars>>
  BY <1>1, <1>3, DepositInv
<1>4. CASE RegisterMaker(m, Key[tx.run]) /\ UNCHANGED <<now, courtVars>>
  <2>1. RegistryCall(m)
    BY <1>1, <1>4 DEF RegistryCall
  <2> QED
    BY <2>1, RegistryInv
<1> QED
  BY <1>2, <1>3, <1>4 DEF Mine

LEMMA CourtInvStep ==
    ASSUME IInv, OnboardTypeOK, [DiscoveryNext]_discoveryVars
    PROVE  IInv'
<1>1. CASE [Next]_vars
  BY <1>1, StepInv
<1>2. ASSUME NEW m \in Makers, Mine(m) PROVE IInv'
  BY <1>2, MineCourt
<1> QED
  BY <1>1, <1>2 DEF DiscoveryNext, discoveryVars, Chain, ReadMakerState, RunOnboard, Interrupt,
     SendLegacyTx, Local, Collect, VerifyMaker, ListMaker

-----------------------------------------------------------------------------
(* What an onboarding run knows.                                           *)

\* A run reads one field.
LEMMA ReadType ==
    ASSUME OnboardTypeOK, TypeOK, NEW r \in Run, step[r] \in Field,
           plan' = [plan EXCEPT ![r].seen[step[r]] = Entry(Operator[r])[step[r]]]
    PROVE  /\ plan' \in [Run -> [seen : Seen, deposit : Nat]]
           /\ \A q \in Run \ {r} : plan'[q] = plan[q]
           /\ \A f \in Field \ {step[r]} : plan'[r].seen[f] = plan[r].seen[f]
           /\ plan'[r].seen[step[r]] = Entry(Operator[r])[step[r]]
<1> DEFINE e == Entry(Operator[r])
<1>1. e \in Seen
  BY EntryType, DiscoveryAssumption
<1>2. plan[r] \in [seen : Seen, deposit : Nat] /\ plan \in [Run -> [seen : Seen, deposit : Nat]]
  BY DEF OnboardTypeOK
<1> HIDE DEF e
<1>3. plan' = [plan EXCEPT ![r].seen[step[r]] = e[step[r]]]
  BY DEF e
<1> DEFINE p == [plan[r] EXCEPT !.seen[step[r]] = e[step[r]]]
<1>4. /\ p.seen = [plan[r].seen EXCEPT ![step[r]] = e[step[r]]] /\ p.deposit = plan[r].deposit
      /\ p = [plan[r] EXCEPT !.seen = p.seen]
  BY <1>2
<1>5. /\ p.seen \in Seen /\ p.seen[step[r]] = e[step[r]]
      /\ \A f \in Field \ {step[r]} : p.seen[f] = plan[r].seen[f]
  <2>1. plan[r].seen \in Seen /\ p.seen = [plan[r].seen EXCEPT ![step[r]] = e[step[r]]]
    BY <1>2, <1>4
  <2> HIDE DEF p
  <2>2. CASE step[r] = "stake"
    BY <1>1, <2>1, <2>2 DEF Seen, Field
  <2>3. CASE step[r] = "hash"
    BY <1>1, <2>1, <2>3 DEF Seen, Field
  <2>4. CASE step[r] = "frozen"
    BY <1>1, <2>1, <2>4 DEF Seen, Field
  <2>5. CASE step[r] = "exit"
    BY <1>1, <2>1, <2>5 DEF Seen, Field
  <2> QED
    BY <2>2, <2>3, <2>4, <2>5 DEF Field
<1>6. p \in [seen : Seen, deposit : Nat] /\ plan' = [plan EXCEPT ![r] = p]
  <2>1. p \in [seen : Seen, deposit : Nat]
    BY <1>2, <1>4, <1>5
  <2>2. plan' = [plan EXCEPT ![r] = p]
    BY <1>3
  <2> QED
    BY <2>1, <2>2
<1> HIDE DEF p
<1> QED
  BY <1>2, <1>5, <1>6 DEF e

\* The mined transaction leaves the outbox, and only its maker's outbox changes.
LEMMA MineType ==
    ASSUME OnboardTypeOK, NEW m \in Makers, Mine(m)
    PROVE  OnboardTypeOK'
<1> DEFINE tx == Head(outbox[m])
<1>1. /\ tx.run \in Run /\ Tail(outbox[m]) \in Seq(Tx) /\ Len(outbox[m]) \in Nat \ {0}
      /\ Len(Tail(outbox[m])) = Len(outbox[m]) - 1
      /\ \A i \in 1..Len(outbox[m]) - 1 : Tail(outbox[m])[i] = outbox[m][i + 1]
  BY HeadType DEF Mine
<1>2. step' \in [Run -> RunStep]
  BY <1>1 DEF Mine, OnboardTypeOK, RunStep
<1>3. outbox' \in [Makers -> Seq(Tx)] /\ outbox'[m] = Tail(outbox[m])
  BY <1>1 DEF Mine, OnboardTypeOK
<1>4. \A n \in Makers : n # m => outbox'[n] = outbox[n]
  BY DEF Mine, OnboardTypeOK
<1>5. ASSUME NEW n \in Makers, NEW i \in 1..Len(outbox'[n])
      PROVE  Operator[outbox'[n][i].run] = n
  <2>1. CASE n = m
    <3>1. i \in 1..Len(outbox[m]) - 1 /\ i + 1 \in 1..Len(outbox[m])
      BY <1>1, <1>3, <1>5, <2>1
    <3>2. outbox'[n][i] = outbox[m][i + 1]
      BY <1>1, <1>3, <2>1, <3>1
    <3> QED
      BY <2>1, <3>1, <3>2 DEF OnboardTypeOK
  <2>2. CASE n # m
    BY <1>4, <1>5, <2>2 DEF OnboardTypeOK
  <2> QED
    BY <2>1, <2>2
<1> QED
  BY <1>2, <1>3, <1>5 DEF Mine, OnboardTypeOK

\* A sent transaction goes to the end of its maker's outbox.
LEMMA SendType ==
    ASSUME OnboardTypeOK, NEW r \in Run, NEW kind \in {"deposit", "register"}, SendLegacyTx(r, kind)
    PROVE  /\ OnboardTypeOK'
           /\ \A n \in Makers : outbox'[n] = outbox[n] \/
                 /\ n = Operator[r] /\ Len(outbox'[n]) = Len(outbox[n]) + 1
                 /\ \A i \in 1..Len(outbox[n]) : outbox'[n][i] = outbox[n][i]
                 /\ outbox'[n][Len(outbox[n]) + 1].run = r
<1> DEFINE m == Operator[r]
           tx == [run |-> r, kind |-> kind]
<1>1. m \in Makers /\ tx \in Tx /\ tx.run = r /\ outbox[m] \in Seq(Tx)
  BY DiscoveryAssumption DEF Tx, OnboardTypeOK
<1>2. step' \in [Run -> RunStep] /\ plan' = plan
  BY DEF SendLegacyTx, OnboardTypeOK, RunStep
<1>3. CASE outbox' = outbox
  BY <1>2, <1>3 DEF OnboardTypeOK
<1>4. CASE outbox' = [outbox EXCEPT ![m] = Append(@, tx)]
  <2>1. /\ outbox'[m] = Append(outbox[m], tx) /\ outbox' \in [Makers -> Seq(Tx)]
        /\ \A n \in Makers : n # m => outbox'[n] = outbox[n]
    BY <1>1, <1>4 DEF OnboardTypeOK
  <2>2. /\ Len(outbox'[m]) = Len(outbox[m]) + 1 /\ Len(outbox[m]) \in Nat
        /\ \A i \in 1..Len(outbox[m]) : outbox'[m][i] = outbox[m][i]
        /\ outbox'[m][Len(outbox[m]) + 1] = tx
    <3> HIDE DEF tx, m
    <3> QED
      BY <1>1, <2>1
  <2>3. ASSUME NEW n \in Makers, NEW i \in 1..Len(outbox'[n])
        PROVE  Operator[outbox'[n][i].run] = n
    <3>1. CASE n # m
      BY <2>1, <2>3, <3>1 DEF OnboardTypeOK
    <3>2. CASE n = m /\ i \in 1..Len(outbox[m])
      BY <2>2, <3>2 DEF OnboardTypeOK
    <3>3. CASE n = m /\ i = Len(outbox[m]) + 1
      BY <1>1, <2>2, <3>3
    <3> QED
      BY <2>2, <2>3, <3>1, <3>2, <3>3
  <2> QED
    BY <1>1, <1>2, <2>1, <2>2, <2>3 DEF OnboardTypeOK
<1> QED
  BY <1>3, <1>4 DEF SendLegacyTx

LEMMA OnboardTypeStep ==
    ASSUME OnboardTypeOK, TypeOK, [DiscoveryNext]_discoveryVars
    PROVE  OnboardTypeOK'
<1>1. CASE UNCHANGED <<step, plan, outbox>>
  BY <1>1 DEF OnboardTypeOK
<1>2. ASSUME NEW m \in Makers, Mine(m) PROVE OnboardTypeOK'
  BY <1>2, MineType
<1>3. ASSUME NEW r \in Run, ReadMakerState(r) PROVE OnboardTypeOK'
  <2>1. step' \in [Run -> RunStep]
    BY <1>3 DEF ReadMakerState, OnboardTypeOK, RunStep, Field, After
  <2>2. plan' \in [Run -> [seen : Seen, deposit : Nat]]
    BY <1>3, ReadType DEF ReadMakerState, OnboardTypeOK
  <2> QED
    BY <1>3, <2>1, <2>2 DEF ReadMakerState, OnboardTypeOK
<1>4. ASSUME NEW r \in Run, RunOnboard(r) PROVE OnboardTypeOK'
  <2>1. plan[r].seen \in Seen /\ MinStake \in Nat
    BY RegistryAssumption DEF OnboardTypeOK
  <2>2. Missing(plan[r].seen) \in Nat /\ Blank \in Seen
    BY <2>1 DEF Missing, Seen, Blank
  <2>3. Decision(r, plan[r].seen) \in RunStep
    BY DEF Decision, RunStep
  <2>4. [NoPlan EXCEPT !.deposit = Missing(plan[r].seen)] \in [seen : Seen, deposit : Nat]
    BY <2>2 DEF NoPlan
  <2> QED
    BY <1>4, <2>3, <2>4 DEF RunOnboard, OnboardTypeOK, RunStep
<1>5. ASSUME NEW r \in Run, Interrupt(r) PROVE OnboardTypeOK'
  BY <1>5 DEF Interrupt, OnboardTypeOK, RunStep
<1>6. ASSUME NEW r \in Run, NEW kind \in {"deposit", "register"}, SendLegacyTx(r, kind)
      PROVE OnboardTypeOK'
  BY <1>6, SendType
<1> QED
  BY <1>1, <1>2, <1>3, <1>4, <1>5, <1>6 DEF DiscoveryNext, discoveryVars, onboardVars, Chain,
     Collect, VerifyMaker, ListMaker

-----------------------------------------------------------------------------
(* A run whose maker was not undermined still knows what it needs to: what *)
(* it read is a lower bound for the stake, and the freeze and the exit     *)
(* have not come back.                                                     *)

Committed(r) == step[r] \in {"deposit", "depositWait", "register", "registerWait"}

Sound(r) ==
    LET m == Operator[r]
    IN /\ step[r] \in {"hash", "frozen", "exit", "plan"} => plan[r].seen.stake <= stake[m]
       /\ step[r] \in {"exit", "plan"} /\ ~plan[r].seen.frozen => ~stakeFrozen[m]
       /\ step[r] = "plan" /\ plan[r].seen.exit = 0 => exitUnlockTime[m] = 0
       /\ Committed(r) => ~stakeFrozen[m] /\ exitUnlockTime[m] = 0
       /\ step[r] \in {"deposit", "depositWait"} => stake[m] + plan[r].deposit >= MinStake
       /\ step[r] \in {"register", "registerWait"} => stake[m] >= MinStake

KeyKnown(r) ==
    LET m == Operator[r]
    IN /\ step[r] \in {"frozen", "exit", "plan"} => makerNostrKeyHash[m] \in {plan[r].seen.hash, NoKey}
       /\ Committed(r) \/ Sent(r) => makerNostrKeyHash[m] \in {Key[r], NoKey}

RunsAreSound == \A r \in Run : r \in undermined \/ Sound(r)
KeysAreKnown == \A r \in Run : r \in Forced \/ r \in rebound \/ KeyKnown(r)

\* A run that does not move stays sound unless its maker is undermined.
LEMMA SoundStays ==
    ASSUME OnboardTypeOK, TypeOK, TypeOK', NEW r \in Run, Sound(r), UNCHANGED <<step[r], plan[r]>>,
           Active(r) => ~Undermines(Operator[r])
    PROVE  Sound(r)'
<1> DEFINE m == Operator[r]
<1>1. CASE Active(r)
  <2>1. /\ stake[m] \in Nat /\ stake'[m] \in Nat /\ MinStake \in Nat
        /\ plan[r].seen.stake \in Nat /\ plan[r].deposit \in Nat
        /\ exitUnlockTime'[m] \in Nat /\ stakeFrozen'[m] \in BOOLEAN
    <3>1. m \in Address /\ MinStake \in Nat
      BY DiscoveryAssumption, CourtAssumption, RegistryAssumption
    <3>2. plan[r] \in [seen : Seen, deposit : Nat]
      BY DEF OnboardTypeOK
    <3>3. plan[r].seen.stake \in Nat /\ plan[r].deposit \in Nat
      BY <3>2 DEF Seen
    <3> QED
      BY <3>1, <3>3 DEF TypeOK, RegistryTypeOK
  <2>2. /\ stake'[m] >= stake[m] /\ (stakeFrozen'[m] => stakeFrozen[m])
        /\ (exitUnlockTime[m] = 0 => exitUnlockTime'[m] = 0)
    BY <1>1, <2>1, TypeOK DEF Undermines, TypeOK, RegistryTypeOK
  <2> QED
    BY <2>1, <2>2 DEF Sound, Committed
<1>2. CASE ~Active(r)
  BY <1>2 DEF Active, Sound, Committed
<1> QED
  BY <1>1, <1>2

\* The same for its key.
LEMMA KeyStays ==
    ASSUME NEW r \in Run, KeyKnown(r), UNCHANGED <<step[r], plan[r]>>, Sent(r)' => Sent(r),
           Active(r) => ~Rebinds(Operator[r])
    PROVE  KeyKnown(r)'
<1>1. CASE Active(r)
  BY <1>1 DEF KeyKnown, Rebinds, Committed
<1>2. CASE ~Active(r)
  BY <1>2 DEF KeyKnown, Active, Committed
<1> QED
  BY <1>1, <1>2

\* Sending adds to what a run has sent, mining takes away.
LEMMA SentOnly ==
    ASSUME OnboardTypeOK, NEW r \in Run,
           \/ UNCHANGED outbox
           \/ \E m \in Makers : Mine(m)
           \/ \E q \in Run \ {r} : \E kind \in {"deposit", "register"} : SendLegacyTx(q, kind)
    PROVE  Sent(r)' => Sent(r)
<1> DEFINE n == Operator[r]
<1>0. n \in Makers /\ outbox[n] \in Seq(Tx)
  BY DiscoveryAssumption DEF OnboardTypeOK
<1>1. CASE UNCHANGED outbox
  BY <1>1 DEF Sent
<1>2. ASSUME NEW m \in Makers, Mine(m), Sent(r)' PROVE Sent(r)
  <2>1. CASE n # m
    <3>1. outbox'[n] = outbox[n]
      BY <1>0, <1>2, <2>1 DEF Mine, OnboardTypeOK
    <3> QED
      BY <1>2, <3>1 DEF Sent
  <2>2. CASE n = m
    <3>1. /\ outbox'[n] = Tail(outbox[n]) /\ Len(outbox[n]) \in Nat \ {0}
          /\ Len(outbox'[n]) = Len(outbox[n]) - 1
          /\ \A i \in 1..Len(outbox[n]) - 1 : outbox'[n][i] = outbox[n][i + 1]
      <4>1. outbox'[n] = Tail(outbox[n])
        BY <1>0, <1>2, <2>2 DEF Mine, OnboardTypeOK
      <4>2. /\ Len(outbox[m]) \in Nat \ {0} /\ Len(Tail(outbox[m])) = Len(outbox[m]) - 1
            /\ \A i \in 1..Len(outbox[m]) - 1 : Tail(outbox[m])[i] = outbox[m][i + 1]
        BY <1>2, HeadType DEF Mine
      <4> HIDE DEF n
      <4> QED
        BY <4>1, <4>2, <2>2
    <3>2. PICK i \in 1..Len(outbox'[n]) : outbox'[n][i].run = r
      BY <1>2 DEF Sent
    <3>3. i + 1 \in 1..Len(outbox[n]) /\ outbox[n][i + 1].run = r
      BY <3>1, <3>2
    <3> QED
      BY <3>3 DEF Sent
  <2> QED
    BY <2>1, <2>2
<1>3. ASSUME NEW q \in Run \ {r}, NEW kind \in {"deposit", "register"}, SendLegacyTx(q, kind), Sent(r)'
      PROVE  Sent(r)
  <2>1. CASE outbox'[n] = outbox[n]
    BY <1>3, <2>1 DEF Sent
  <2>2. CASE /\ Len(outbox'[n]) = Len(outbox[n]) + 1
             /\ \A i \in 1..Len(outbox[n]) : outbox'[n][i] = outbox[n][i]
             /\ outbox'[n][Len(outbox[n]) + 1].run = q
    <3>1. PICK i \in 1..Len(outbox'[n]) : outbox'[n][i].run = r
      BY <1>3 DEF Sent
    <3>2. i \in 1..Len(outbox[n]) /\ outbox[n][i].run = r
      BY <1>0, <1>3, <2>2, <3>1
    <3> QED
      BY <3>2 DEF Sent
  <2> QED
    BY <1>0, <1>3, <2>1, <2>2, SendType
<1> QED
  BY <1>1, <1>2, <1>3

-----------------------------------------------------------------------------
(* The steps of the runs.                                                  *)

OnboardInv ==
    IInv /\ OnboardTypeOK /\ RevertHasACause /\ RunsAreSound /\ KeysAreKnown

\* Steps that leave the runs alone, or only watch them.
LEMMA WatchedStep ==
    ASSUME OnboardInv, TypeOK', NEW r \in Run, UNCHANGED <<step[r], plan[r]>>, Sent(r)' => Sent(r),
           \/ Remember
           \/ UNCHANGED <<vars, undermined, rebound>>
    PROVE  /\ r \in undermined' \/ Sound(r)'
           /\ r \in Forced \/ r \in rebound' \/ KeyKnown(r)'
<1> DEFINE m == Operator[r]
<1>0. m \in Address /\ TypeOK
  BY DiscoveryAssumption, CourtAssumption DEF OnboardInv, IInv
<1>1. CASE UNCHANGED <<vars, undermined, rebound>>
  <2>1. ~Undermines(m) /\ ~Rebinds(m)
    BY <1>0, <1>1 DEF Undermines, Rebinds, vars, registryVars, TypeOK, RegistryTypeOK
  <2> QED
    BY <1>1, <2>1, SoundStays, KeyStays DEF OnboardInv, IInv, RunsAreSound, KeysAreKnown
<1>2. CASE Remember
  <2>1. undermined \subseteq undermined' /\ rebound \subseteq rebound'
    BY <1>2 DEF Remember
  <2>2. r \notin undermined' => ~(Active(r) /\ Undermines(m))
    BY <1>2 DEF Remember
  <2>3. r \notin rebound' => ~(Active(r) /\ Rebinds(m))
    BY <1>2 DEF Remember
  <2>4. r \in undermined' \/ Sound(r)'
    BY <2>1, <2>2, SoundStays DEF OnboardInv, IInv, RunsAreSound
  <2>5. r \in Forced \/ r \in rebound' \/ KeyKnown(r)'
    BY <2>1, <2>3, KeyStays DEF OnboardInv, IInv, KeysAreKnown
  <2> QED
    BY <2>4, <2>5
<1> QED
  BY <1>1, <1>2

LEMMA ReadStep ==
    ASSUME OnboardInv, NEW r \in Run, ReadMakerState(r)
    PROVE  /\ r \in undermined' \/ Sound(r)'
           /\ r \in Forced \/ r \in rebound' \/ KeyKnown(r)'
<1> DEFINE m == Operator[r]
<1>0. /\ TypeOK /\ m \in Address /\ m \in Makers /\ step \in [Run -> RunStep]
      /\ stake[m] \in Nat /\ stakeFrozen[m] \in BOOLEAN
      /\ step[r] \in Field /\ OnboardTypeOK
      /\ UNCHANGED <<vars, undermined, rebound, outbox>>
  <2>1. m \in Makers /\ m \in Address
    BY DiscoveryAssumption, CourtAssumption
  <2>2. TypeOK /\ OnboardTypeOK /\ step \in [Run -> RunStep]
    BY DEF OnboardInv, IInv, OnboardTypeOK
  <2>3. stake[m] \in Nat /\ stakeFrozen[m] \in BOOLEAN
    BY <2>1, <2>2 DEF TypeOK, RegistryTypeOK
  <2> QED
    BY <2>1, <2>2, <2>3 DEF ReadMakerState, Local
<1>1. CASE step' = [step EXCEPT ![r] = "ended"] /\ UNCHANGED plan
  <2>1. Sound(r)'
    BY <1>0, <1>1 DEF Sound, Committed
  <2>2. KeyKnown(r) => KeyKnown(r)'
    BY <1>0, <1>1 DEF KeyKnown, Committed, Sent, vars, registryVars
  <2> QED
    BY <1>0, <2>1, <2>2 DEF OnboardInv, KeysAreKnown
<1>2. CASE /\ plan' = [plan EXCEPT ![r].seen[step[r]] = Entry(Operator[r])[step[r]]]
           /\ step' = [step EXCEPT ![r] = After(@)]
  <2>1. /\ \A f \in Field \ {step[r]} : plan'[r].seen[f] = plan[r].seen[f]
        /\ plan'[r].seen[step[r]] = Entry(m)[step[r]]
        /\ step'[r] = After(step[r])
    BY <1>0, <1>2, ReadType
  <2>2. /\ Entry(m).stake = stake[m] /\ Entry(m).hash = makerNostrKeyHash[m]
        /\ Entry(m).frozen = stakeFrozen[m] /\ Entry(m).exit = exitUnlockTime[m]
    BY DEF Entry
  <2>3. UNCHANGED <<stake, stakeFrozen, makerNostrKeyHash, exitUnlockTime, outbox>>
    BY <1>0 DEF vars, registryVars
  <2>4. CASE step[r] = "stake"
    <3>1. step'[r] = "hash" /\ plan'[r].seen.stake = stake'[m]
      BY <2>1, <2>2, <2>3, <2>4 DEF After
    <3> QED
      BY <1>0, <2>3, <2>4, <3>1 DEF Sound, KeyKnown, Committed, OnboardInv, KeysAreKnown, Sent
  <2>5. CASE step[r] = "hash"
    <3>1. /\ step'[r] = "frozen" /\ plan'[r].seen.hash = makerNostrKeyHash'[m]
          /\ plan'[r].seen.stake = plan[r].seen.stake
      BY <2>1, <2>2, <2>3, <2>5 DEF After, Field
    <3> QED
      BY <1>0, <2>3, <2>5, <3>1
         DEF Sound, KeyKnown, Committed, OnboardInv, RunsAreSound, KeysAreKnown, Sent
  <2>6. CASE step[r] = "frozen"
    <3>1. /\ step'[r] = "exit" /\ plan'[r].seen.frozen = stakeFrozen'[m]
          /\ plan'[r].seen.stake = plan[r].seen.stake /\ plan'[r].seen.hash = plan[r].seen.hash
      BY <2>1, <2>2, <2>3, <2>6 DEF After, Field
    <3> QED
      BY <1>0, <2>3, <2>6, <3>1
         DEF Sound, KeyKnown, Committed, OnboardInv, RunsAreSound, KeysAreKnown, Sent
  <2>7. CASE step[r] = "exit"
    <3>1. /\ step'[r] = "plan" /\ plan'[r].seen.exit = exitUnlockTime'[m]
          /\ plan'[r].seen.stake = plan[r].seen.stake /\ plan'[r].seen.hash = plan[r].seen.hash
          /\ plan'[r].seen.frozen = plan[r].seen.frozen
      BY <2>1, <2>2, <2>3, <2>7 DEF After, Field
    <3> QED
      BY <1>0, <2>3, <2>7, <3>1
         DEF Sound, KeyKnown, Committed, OnboardInv, RunsAreSound, KeysAreKnown, Sent
  <2> QED
    BY <1>0, <2>4, <2>5, <2>6, <2>7 DEF Field
<1> QED
  BY <1>1, <1>2 DEF ReadMakerState

LEMMA PlanStep ==
    ASSUME OnboardInv, NEW r \in Run, RunOnboard(r)
    PROVE  /\ r \in undermined' \/ Sound(r)'
           /\ r \in Forced \/ r \in rebound' \/ KeyKnown(r)'
<1> DEFINE m == Operator[r]
           seen == plan[r].seen
<1>0. /\ TypeOK /\ m \in Address /\ step \in [Run -> RunStep] /\ step[r] = "plan"
      /\ stake[m] \in Nat /\ MinStake \in Nat /\ plan \in [Run -> [seen : Seen, deposit : Nat]]
      /\ UNCHANGED <<vars, undermined, rebound, outbox>>
      /\ step'[r] \in {"ended", Decision(r, seen)}
      /\ plan'[r].deposit = Missing(seen)
  <2>1. m \in Address /\ MinStake \in Nat
    BY DiscoveryAssumption, CourtAssumption, RegistryAssumption
  <2>2. TypeOK /\ step \in [Run -> RunStep] /\ plan \in [Run -> [seen : Seen, deposit : Nat]]
    BY DEF OnboardInv, IInv, OnboardTypeOK
  <2>3. stake[m] \in Nat
    BY <2>1, <2>2 DEF TypeOK, RegistryTypeOK
  <2>4. plan'[r].deposit = Missing(seen)
    BY <2>2 DEF RunOnboard, NoPlan
  <2> QED
    BY <2>1, <2>2, <2>3, <2>4 DEF RunOnboard, Local
<1>1. seen.stake \in Nat /\ seen.frozen \in BOOLEAN
  BY <1>0 DEF Seen
<1>2. UNCHANGED <<stake, stakeFrozen, makerNostrKeyHash, exitUnlockTime, outbox>>
  BY <1>0 DEF vars, registryVars
<1>3. CASE step'[r] \in {"ended", "done"}
  <2>1. Sound(r)'
    BY <1>3 DEF Sound, Committed
  <2>2. KeyKnown(r) => KeyKnown(r)'
    BY <1>0, <1>2, <1>3 DEF KeyKnown, Committed, Sent
  <2> QED
    BY <1>0, <2>1, <2>2 DEF OnboardInv, KeysAreKnown
<1>4. CASE step'[r] \in {"deposit", "register"}
  <2>1. /\ seen.exit = 0 /\ ~seen.frozen /\ ~Foreign(r, seen)
        /\ step'[r] = "deposit" <=> Missing(seen) > 0
    BY <1>0, <1>4 DEF Decision
  <2>2. Sound(r) => Sound(r)'
    <3>1. CASE step'[r] = "deposit"
      BY <1>0, <1>1, <1>2, <2>1, <3>1 DEF Sound, Committed, Missing
    <3>2. CASE step'[r] = "register"
      BY <1>0, <1>1, <1>2, <2>1, <3>2 DEF Sound, Committed, Missing
    <3> QED
      BY <1>4, <3>1, <3>2
  <2>3. r \in Forced \/ (KeyKnown(r) => KeyKnown(r)')
    BY <1>0, <1>2, <1>4, <2>1 DEF KeyKnown, Foreign, Committed
  <2> QED
    BY <1>0, <2>2, <2>3 DEF OnboardInv, RunsAreSound, KeysAreKnown
<1>5. Decision(r, seen) \in {"ended", "done", "deposit", "register"}
  BY DEF Decision
<1> QED
  BY <1>0, <1>3, <1>4, <1>5

LEMMA SendStep ==
    ASSUME OnboardInv, NEW r \in Run, NEW kind \in {"deposit", "register"}, SendLegacyTx(r, kind)
    PROVE  /\ r \in undermined' \/ Sound(r)'
           /\ r \in Forced \/ r \in rebound' \/ KeyKnown(r)'
<1>1. /\ step \in [Run -> RunStep] /\ step[r] = kind /\ plan' = plan
      /\ step'[r] \in {"ended", IF kind = "deposit" THEN "depositWait" ELSE "registerWait"}
      /\ UNCHANGED <<undermined, rebound, stake, stakeFrozen, makerNostrKeyHash, exitUnlockTime>>
  BY DEF OnboardInv, OnboardTypeOK, SendLegacyTx, Local, vars, registryVars
<1>2. Sound(r) => Sound(r)'
  BY <1>1 DEF Sound, Committed
<1>3. KeyKnown(r) => KeyKnown(r)'
  BY <1>1 DEF KeyKnown, Committed
<1> QED
  BY <1>1, <1>2, <1>3 DEF OnboardInv, RunsAreSound, KeysAreKnown

LEMMA InterruptStep ==
    ASSUME OnboardInv, NEW r \in Run, Interrupt(r)
    PROVE  /\ r \in undermined' \/ Sound(r)'
           /\ r \in Forced \/ r \in rebound' \/ KeyKnown(r)'
<1>1. /\ step \in [Run -> RunStep] /\ step'[r] = "ended" /\ Committed(r)
      /\ UNCHANGED <<rebound, makerNostrKeyHash>>
  BY DEF OnboardInv, OnboardTypeOK, Interrupt, Local, vars, registryVars, Committed
<1>2. Sound(r)'
  BY <1>1 DEF Sound, Committed
<1>3. KeyKnown(r) => KeyKnown(r)'
  BY <1>1 DEF KeyKnown, Committed
<1> QED
  BY <1>1, <1>2, <1>3 DEF OnboardInv, KeysAreKnown

\* The run that waits for the mined transaction goes on: after a deposit it
\* has the minimum, and after a registration it is done.
LEMMA MinedStep ==
    ASSUME OnboardInv, TypeOK', NEW m \in Makers, Mine(m), NEW r \in Run, step'[r] # step[r]
    PROVE  /\ r \in undermined' \/ Sound(r)'
           /\ r \in Forced \/ r \in rebound' \/ KeyKnown(r)'
<1> DEFINE tx == Head(outbox[m])
<1>1. /\ tx.run \in Run /\ Operator[tx.run] = m /\ tx.kind \in {"deposit", "register"} /\ Sent(tx.run)
      /\ m \in Address
  BY HeadType, CourtAssumption DEF Mine, OnboardInv
<1>2. r = tx.run /\ UNCHANGED plan /\ Remember
  BY <1>1 DEF Mine, OnboardInv, OnboardTypeOK
<1>3. step'[r] = IF step[r] = (IF tx.kind = "deposit" THEN "depositWait" ELSE "registerWait")
                 THEN (IF tx.kind = "deposit" THEN "register" ELSE "done") ELSE step[r]
  BY <1>1, <1>2 DEF Mine, OnboardInv, OnboardTypeOK
<1>4. KeyKnown(r) /\ r \notin rebound' => KeyKnown(r)'
  <2>1. Active(r)
    BY <1>1, <1>2 DEF Active
  <2>2. r \notin rebound' => ~Rebinds(m)
    BY <1>2, <2>1, <1>1 DEF Remember
  <2> QED
    BY <1>1, <1>2, <1>3, <2>2 DEF KeyKnown, Rebinds, Committed
<1>5. r \in undermined' \/ Sound(r)'
  <2>1. CASE tx.kind = "register"
    BY <1>3, <2>1 DEF Sound, Committed
  <2>2. CASE tx.kind = "deposit"
    <3>1. step[r] = "depositWait" /\ step'[r] = "register"
      BY <1>3, <2>2
    <3>2. Deposit(m, plan[r].deposit)
      BY <1>2, <2>2 DEF Mine
    <3>3. stake'[m] = stake[m] + plan[r].deposit /\ UNCHANGED <<stakeFrozen, exitUnlockTime>>
      BY <1>1, <3>2 DEF Deposit, OnboardInv, IInv, TypeOK, RegistryTypeOK
    <3>4. r \in undermined \/ Sound(r)
      BY DEF OnboardInv, RunsAreSound
    <3> QED
      BY <1>1, <1>2, <3>1, <3>3, <3>4 DEF Sound, Committed, Remember
  <2> QED
    BY <1>1, <2>1, <2>2
<1>6. rebound \subseteq rebound'
  BY <1>2 DEF Remember
<1> QED
  BY <1>4, <1>5, <1>6 DEF OnboardInv, KeysAreKnown

\* A registration that reverts was refused for a reason the run was sound against.
LEMMA RevertStep ==
    ASSUME OnboardInv, [DiscoveryNext]_discoveryVars
    PROVE  RevertHasACause'
<1>1. ASSUME NEW m \in Makers, Mine(m) PROVE RevertHasACause'
  <2> DEFINE r == Head(outbox[m]).run
  <2>1. r \in Run /\ Operator[r] = m /\ undermined \subseteq undermined'
    BY <1>1, HeadType DEF Mine, Remember, OnboardInv
  <2>2. CASE silent' = silent
    BY <2>1, <2>2 DEF OnboardInv, RevertHasACause
  <2>3. CASE silent' # silent
    <3>1. /\ silent' = silent \cup {r} /\ step[r] = "registerWait"
          /\ ~(~InExitQueue(m) /\ stake[m] >= MinStake /\ ~stakeFrozen[m])
      BY <1>1, <2>3 DEF Mine
    <3>2. ~Sound(r)
      BY <2>1, <3>1 DEF Sound, Committed, InExitQueue
    <3> QED
      BY <2>1, <3>1, <3>2 DEF OnboardInv, RevertHasACause, RunsAreSound
  <2> QED
    BY <2>2, <2>3
<1>2. CASE silent' = silent /\ undermined \subseteq undermined'
  BY <1>2 DEF OnboardInv, RevertHasACause
<1> QED
  BY <1>1, <1>2 DEF DiscoveryNext, discoveryVars, onboardVars, Chain, Remember, ReadMakerState,
     RunOnboard, Interrupt, SendLegacyTx, Local, Collect, VerifyMaker, ListMaker

LEMMA OnboardStep ==
    ASSUME OnboardInv, [DiscoveryNext]_discoveryVars
    PROVE  OnboardInv'
<1>1. IInv' /\ OnboardTypeOK' /\ TypeOK'
  BY CourtInvStep, OnboardTypeStep DEF OnboardInv, IInv
<1>2. RevertHasACause'
  BY RevertStep
<1>3. ASSUME NEW r \in Run
      PROVE  /\ r \in undermined' \/ Sound(r)'
             /\ r \in Forced \/ r \in rebound' \/ KeyKnown(r)'
  <2> DEFINE Goal == /\ r \in undermined' \/ Sound(r)'
                     /\ r \in Forced \/ r \in rebound' \/ KeyKnown(r)'
  <2>1. ASSUME UNCHANGED <<step, plan, outbox>>, Remember \/ UNCHANGED <<vars, undermined, rebound>>
        PROVE  Goal
    BY <1>1, <2>1, WatchedStep, SentOnly DEF OnboardInv
  <2>2. ASSUME NEW m \in Makers, Mine(m) PROVE Goal
    <3>1. CASE step'[r] # step[r]
      BY <1>1, <2>2, <3>1, MinedStep
    <3>2. CASE step'[r] = step[r]
      BY <1>1, <2>2, <3>2, WatchedStep, SentOnly DEF OnboardInv, Mine
    <3> QED
      BY <3>1, <3>2
  <2>3. ASSUME NEW q \in Run, ReadMakerState(q) \/ RunOnboard(q) \/ Interrupt(q)
        PROVE  Goal
    <3>1. CASE q = r
      BY <2>3, <3>1, ReadStep, PlanStep, InterruptStep
    <3>2. CASE q # r
      <4>1. UNCHANGED <<vars, undermined, rebound, outbox>> /\ step'[r] = step[r]
        BY <2>3, <3>2 DEF ReadMakerState, RunOnboard, Interrupt, Local, OnboardInv, OnboardTypeOK
      <4>2. plan'[r] = plan[r]
        <5>1. CASE plan' = plan
          BY <5>1
        <5>2. CASE RunOnboard(q)
          BY <3>2, <5>2 DEF RunOnboard, OnboardInv, OnboardTypeOK
        <5>3. CASE ReadMakerState(q) /\ plan' # plan
          BY <3>2, <5>3, ReadType DEF ReadMakerState, OnboardInv, IInv
        <5> QED
          BY <2>3, <5>1, <5>2, <5>3 DEF Interrupt
      <4> QED
        BY <1>1, <4>1, <4>2, WatchedStep, SentOnly DEF OnboardInv
    <3> QED
      BY <3>1, <3>2
  <2>4. ASSUME NEW q \in Run, NEW kind \in {"deposit", "register"}, SendLegacyTx(q, kind)
        PROVE  Goal
    <3>1. CASE q = r
      BY <2>4, <3>1, SendStep
    <3>2. CASE q # r
      <4>1. /\ UNCHANGED <<vars, undermined, rebound, plan>> /\ step'[r] = step[r]
            /\ Sent(r)' => Sent(r)
        <5>1. Sent(r)' => Sent(r)
          BY <2>4, <3>2, SentOnly DEF OnboardInv
        <5> QED
          BY <2>4, <3>2, <5>1 DEF SendLegacyTx, Local, OnboardInv, OnboardTypeOK
      <4> QED
        BY <1>1, <4>1, WatchedStep
    <3> QED
      BY <3>1, <3>2
  <2> QED
    BY <2>1, <2>2, <2>3, <2>4 DEF DiscoveryNext, discoveryVars, onboardVars, Chain,
       Collect, VerifyMaker, ListMaker
<1> QED
  BY <1>1, <1>2, <1>3 DEF OnboardInv, RunsAreSound, KeysAreKnown

LEMMA OnboardInit == DiscoveryInit => OnboardInv
<1> SUFFICES ASSUME DiscoveryInit PROVE OnboardInv
  OBVIOUS
<1>1. IInv
  BY InitInv DEF DiscoveryInit
<1>2. OnboardTypeOK
  <2>1. NoPlan \in [seen : Seen, deposit : Nat]
    BY DEF NoPlan, Blank, Seen
  <2>2. outbox \in [Makers -> Seq(Tx)] /\ \A m \in Makers : Len(outbox[m]) = 0
    BY DEF DiscoveryInit
  <2> QED
    BY <2>1, <2>2 DEF DiscoveryInit, OnboardTypeOK, RunStep, Field
<1>3. \A r \in Run : Sound(r) /\ KeyKnown(r)
  <2> SUFFICES ASSUME NEW r \in Run PROVE Sound(r) /\ KeyKnown(r)
    OBVIOUS
  <2>1. step[r] = "stake" /\ outbox[Operator[r]] = <<>>
    BY DiscoveryAssumption DEF DiscoveryInit
  <2>2. ~Sent(r)
    BY <2>1 DEF Sent
  <2> QED
    BY <2>1, <2>2 DEF Sound, KeyKnown, Committed
<1> QED
  BY <1>1, <1>2, <1>3 DEF OnboardInv, RevertHasACause, RunsAreSound, KeysAreKnown, DiscoveryInit

LEMMA OnboardAlways == DiscoverySpec => []OnboardInv
BY OnboardInit, OnboardStep, PTL DEF DiscoverySpec

\* `maker onboard` takes a mined registration for a good one without looking
\* at its status.  The registration reverts only if the maker lost stake, was
\* frozen or asked to leave while the run was under way (RunOnboard).
THEOREM RevertsAreExplained == DiscoverySpec => []RevertHasACause
<1>1. OnboardInv => RevertHasACause
  BY DEF OnboardInv
<1> QED
  BY <1>1, OnboardAlways, PTL

\* Without -force-reregister a run overwrites another key only if that key
\* was bound while the run was under way (RunOnboard).
THEOREM KeysAreKept == DiscoverySpec => UnforcedKeepsKeys
<1> DEFINE Kept(r, m) ==
       /\ outbox[m] # <<>> /\ outbox'[m] = Tail(outbox[m]) /\ Head(outbox[m]).run = r
       /\ makerNostrKeyHash[m] # makerNostrKeyHash'[m] /\ Registered(m)
       => r \in Forced \/ r \in rebound
<1>1. ASSUME OnboardInv, [DiscoveryNext]_discoveryVars, NEW r \in Run, NEW m \in Makers
      PROVE  Kept(r, m)
  <2> SUFFICES ASSUME outbox[m] # <<>>, outbox'[m] = Tail(outbox[m]), Head(outbox[m]).run = r,
                      makerNostrKeyHash[m] # makerNostrKeyHash'[m], Registered(m), KeyKnown(r)
               PROVE  FALSE
    BY <1>1 DEF OnboardInv, KeysAreKnown
  <2>1. /\ Tail(outbox[m]) # outbox[m] /\ Operator[r] = m /\ Sent(r) /\ m \in Address
        /\ Head(outbox[m]).kind \in {"deposit", "register"}
    BY <1>1, HeadType, CourtAssumption DEF OnboardInv
  <2>2. outbox' # outbox /\ makerNostrKeyHash' # makerNostrKeyHash
    BY <2>1
  <2>3. PICK n \in Makers : Mine(n)
    BY <1>1, <2>2 DEF DiscoveryNext, discoveryVars, onboardVars, vars, registryVars, Chain,
       ReadMakerState, RunOnboard, Interrupt, SendLegacyTx, Local, Collect, VerifyMaker, ListMaker
  <2>4. n = m
    BY <1>1, <2>1, <2>3 DEF Mine, OnboardInv, OnboardTypeOK
  <2>5. RegisterMaker(m, Key[r])
    BY <2>1, <2>2, <2>3, <2>4 DEF Mine, Deposit, vars, registryVars
  <2>6. makerNostrKeyHash'[m] = Key[r]
    BY <1>1, <2>1, <2>5 DEF RegisterMaker, OnboardInv, IInv, TypeOK, RegistryTypeOK
  <2> QED
    BY <2>1, <2>6 DEF KeyKnown, Registered
<1>2. OnboardInv /\ [DiscoveryNext]_discoveryVars
         => [\A r \in Run : \A m \in Makers : Kept(r, m)]_discoveryVars
  BY <1>1
<1> QED
  BY <1>2, OnboardAlways, PTL DEF DiscoverySpec, UnforcedKeepsKeys

-----------------------------------------------------------------------------
(* What the scout knows.                                                   *)

\* How far the scout has come.
Asked(f) ==
    CASE f = "hash" -> scout.step \in {"stake", "frozen", "exit", "decide"}
      [] f = "stake" -> scout.step \in {"frozen", "exit", "decide"}
      [] f = "frozen" -> scout.step \in {"exit", "decide"}
      [] f = "exit" -> scout.step = "decide"

ScoutTypeOK ==
    /\ scout \in [step : ScoutStep, operator : Makers, key : KeyHashes \cup {NoKey},
                  newest : SUBSET KeyHashes, seen : Seen]
    /\ Scouting => scout.key \in KeyHashes /\ scout.newest \subseteq {scout.key}

\* As long as the operator has stayed valid, every answer so far was good.
StandingSeen ==
    Scouting /\ held =>
        /\ Verified(Entry(scout.operator), scout.key)
        /\ Asked("hash") => scout.seen.hash = scout.key
        /\ Asked("stake") => scout.seen.stake >= MinStake
        /\ Asked("frozen") => ~scout.seen.frozen
        /\ Asked("exit") => scout.seen.exit = 0

\* An operator that was never valid under the key it is bound to keeps that
\* key, since a frozen or leaving maker cannot change it; and once it was seen
\* unfrozen it is leaving.
InvalidSeen ==
    LET m == scout.operator
    IN Scouting /\ ~everValid /\ ~struckOff =>
        /\ ~Verified(Entry(m), scout.key)
        /\ Asked("hash") /\ scout.seen.hash = scout.key =>
              /\ makerNostrKeyHash[m] = scout.key
              /\ Asked("frozen") /\ ~scout.seen.frozen => exitUnlockTime[m] # 0
              /\ Asked("exit") /\ ~scout.seen.frozen => scout.seen.exit # 0

ScoutInv == IInv /\ OnboardTypeOK /\ ScoutTypeOK /\ StandingSeen /\ InvalidSeen

\* The newest ad's key is the one the scout takes, if a single key has it.
LEMMA NewestIsChosen ==
    ASSUME NEW ads \in SUBSET Ads, NEW ad \in Latest(ads)
    PROVE  /\ NewestKeys(ads) \subseteq {ad.key} /\ ad.key \in KeyHashes
           /\ NewestKeys(ads) \in SUBSET KeyHashes
<1>1. ad \in ads /\ \A o \in ads : o.at <= ad.at /\ o.at \in Nat
  BY DiscoveryAssumption DEF Latest
<1>2. ad.key \in KeyHashes /\ ad.at \in Nat
  BY <1>1, DiscoveryAssumption
<1>3. ASSUME NEW k \in NewestKeys(ads), k # ad.key PROVE FALSE
  <2>1. PICK other \in ads : other.key = k /\ \A o \in ads : o.key # k => o.at < other.at
    BY DEF NewestKeys
  <2>2. ad.at < other.at /\ other.at <= ad.at /\ other.at \in Nat
    BY <1>1, <1>3, <2>1
  <2> QED
    BY <1>2, <2>2
<1> QED
  BY <1>2, <1>3 DEF NewestKeys

\* A maker in the books that is not valid keeps its key and its place in the
\* exit queue, unless it is struck off.
LEMMA InvalidStays ==
    ASSUME IInv, NEW m \in Makers, Registered(m), stakeFrozen[m] \/ InExitQueue(m),
           ~StruckOff(m), Next \/ Mine(m)
    PROVE  /\ makerNostrKeyHash'[m] = makerNostrKeyHash[m]
           /\ InExitQueue(m) => exitUnlockTime'[m] # 0
<1>0. /\ m \in Address /\ makerNostrKeyHash'[m] # NoKey
      /\ makerNostrKeyHash \in [Address -> KeyHashes \cup {NoKey}] /\ exitUnlockTime \in [Address -> Nat]
  BY CourtAssumption DEF StruckOff, IInv, TypeOK, RegistryTypeOK
<1>1. CASE UNCHANGED <<makerNostrKeyHash, exitUnlockTime>>
  BY <1>1 DEF InExitQueue
<1>2. ASSUME NEW n \in Makers, NEW key \in KeyHashes \cup {NoKey}, RegisterMaker(n, key)
      PROVE  UNCHANGED <<makerNostrKeyHash[m], exitUnlockTime>>
  BY <1>0, <1>2 DEF RegisterMaker, InExitQueue
<1>3. ASSUME NEW n \in Makers, RegistryCall(n)
      PROVE  /\ makerNostrKeyHash'[m] = makerNostrKeyHash[m]
             /\ InExitQueue(m) => exitUnlockTime'[m] # 0
  <2>1. CASE WithdrawStake(n, openGrievanceCountAgainst[n], withdrawalLockUntil[n])
    BY <1>0, <2>1 DEF WithdrawStake, InExitQueue
  <2>2. CASE RequestWithdrawal(n, openGrievanceCountAgainst[n], withdrawalLockUntil[n])
    BY <1>0, <2>2 DEF RequestWithdrawal, InExitQueue
  <2>3. CASE \E key \in KeyHashes \cup {NoKey} : RegisterMaker(n, key)
    BY <1>2, <2>3 DEF InExitQueue
  <2> QED
    BY <1>1, <1>3, <2>1, <2>2, <2>3 DEF RegistryCall, Deposit, Withdraw
<1>4. ASSUME NEW c \in Case, FinalizeSlash(c)
      PROVE  /\ makerNostrKeyHash'[m] = makerNostrKeyHash[m]
             /\ InExitQueue(m) => exitUnlockTime'[m] # 0
  <2>1. SlashStake(c.accused, SlashRequest(c.accused))
    BY <1>4 DEF FinalizeSlash
  <2>2. CASE UNCHANGED <<makerNostrKeyHash, exitUnlockTime>>
    BY <1>1, <2>2
  <2>3. CASE /\ makerNostrKeyHash' = [makerNostrKeyHash EXCEPT ![c.accused] = NoKey]
             /\ exitUnlockTime' = [exitUnlockTime EXCEPT ![c.accused] = 0]
    BY <1>0, <2>3 DEF InExitQueue
  <2> QED
    BY <2>1, <2>2, <2>3 DEF SlashStake
<1>5. ASSUME Mine(m) PROVE UNCHANGED <<makerNostrKeyHash, exitUnlockTime>>
  BY <1>5 DEF Mine, Deposit, vars, registryVars
<1> QED
  BY <1>1, <1>3, <1>4, <1>5 DEF Next, WireCourt, SetGrievanceCourt, NextBlock, Receive, vars,
     registryVars, CourtCall, OpenGrievance, DefendGrievance, ResolveGrievance,
     AdjudicateGrievance, FinalizeExonerate

\* A transaction or a block beside the scout.
LEMMA ScoutRemembers ==
    ASSUME ScoutInv, TypeOK', Remember, Next \/ \E m \in Makers : Mine(m)
    PROVE  ScoutTypeOK' /\ StandingSeen' /\ InvalidSeen'
<1> DEFINE m == scout.operator
<1>1. ScoutTypeOK' /\ UNCHANGED scout
  BY DEF ScoutInv, ScoutTypeOK, Remember, Scouting
<1>2. m \in Makers /\ m \in Address /\ IInv /\ NoKey \notin KeyHashes /\ TypeOK
  BY CourtAssumption, RegistryAssumption DEF ScoutInv, ScoutTypeOK, IInv
<1>3. StandingSeen'
  <2> SUFFICES ASSUME Scouting, held' PROVE StandingSeen'
    BY <1>1 DEF StandingSeen, Scouting
  <2>1. held /\ Valid(m, scout.newest)' /\ scout.newest \subseteq {scout.key}
    BY DEF Remember, ScoutInv, ScoutTypeOK
  <2>2. Verified(Entry(m), scout.key)'
    BY <1>1, <2>1 DEF Valid
  <2> QED
    BY <1>1, <2>1, <2>2 DEF ScoutInv, StandingSeen, Asked
<1>4. InvalidSeen'
  <2> SUFFICES ASSUME Scouting, ~everValid', ~struckOff' PROVE InvalidSeen'
    BY <1>1 DEF InvalidSeen, Scouting
  <2>1. /\ ~everValid /\ ~struckOff /\ ~StruckOff(m) /\ ~Valid(m, {scout.key})'
        /\ scout.key \in KeyHashes
    BY DEF Remember, ScoutInv, ScoutTypeOK
  <2>2. ~Verified(Entry(m), scout.key)' /\ ~Verified(Entry(m), scout.key)
    BY <1>1, <2>1 DEF Valid, ScoutInv, InvalidSeen
  <2>3. ASSUME Asked("hash"), scout.seen.hash = scout.key
        PROVE  /\ makerNostrKeyHash'[m] = scout.key
               /\ InExitQueue(m) => exitUnlockTime'[m] # 0
    <3>1. makerNostrKeyHash[m] = scout.key /\ Registered(m)
      BY <1>2, <2>1, <2>3 DEF ScoutInv, InvalidSeen, Registered
    <3>2. stake[m] >= MinStake
      BY <1>2, <3>1 DEF IInv, MakersMeetMinStake
    <3>3. stakeFrozen[m] \/ InExitQueue(m)
      BY <2>2, <3>1, <3>2 DEF Verified, Entry, InExitQueue
    <3>4. CASE Next \/ Mine(m)
      BY <1>2, <2>1, <3>1, <3>3, <3>4, InvalidStays
    <3>5. ASSUME NEW n \in Makers, Mine(n), n # m
          PROVE  /\ makerNostrKeyHash'[m] = makerNostrKeyHash[m]
                 /\ exitUnlockTime' = exitUnlockTime
      BY <1>2, <3>5 DEF Mine, Deposit, RegisterMaker, vars, registryVars, TypeOK, RegistryTypeOK
    <3> QED
      BY <3>1, <3>4, <3>5 DEF InExitQueue
  <2> QED
    BY <1>1, <2>1, <2>2, <2>3 DEF ScoutInv, InvalidSeen, Asked, InExitQueue
<1> QED
  BY <1>1, <1>3, <1>4

LEMMA CollectStep ==
    ASSUME ScoutInv, NEW m \in Makers, NEW delivered \in SUBSET Ads, Collect(m, delivered)
    PROVE  ScoutTypeOK' /\ StandingSeen' /\ InvalidSeen'
<1> DEFINE good == {ad \in delivered : ad.operator = m /\ ad.accepted}
<1>1. PICK ad \in Latest(good) :
         /\ scout' = [step |-> "hash", operator |-> m, key |-> ad.key,
                      newest |-> NewestKeys(good), seen |-> Blank]
         /\ everValid' = Valid(m, {ad.key})
  BY DEF Collect
<1>2. /\ NewestKeys(good) \subseteq {ad.key} /\ ad.key \in KeyHashes
      /\ NewestKeys(good) \in SUBSET KeyHashes
  BY <1>1, NewestIsChosen
<1>3. /\ scout'.step = "hash" /\ scout'.operator = m /\ scout'.key = ad.key
      /\ scout'.newest = NewestKeys(good) /\ held' = Valid(m, NewestKeys(good))
      /\ UNCHANGED vars
  BY <1>1 DEF Collect
<1>4. ScoutTypeOK'
  <2>1. Blank \in Seen
    BY DEF Blank, Seen
  <2> QED
    BY <1>1, <1>2, <2>1 DEF ScoutTypeOK, ScoutStep, Field
<1>5. UNCHANGED <<stake, makerNostrKeyHash, stakeFrozen, exitUnlockTime>>
  BY <1>3 DEF vars, registryVars
<1>6. \A k : Verified(Entry(m), k)' <=> Verified(Entry(m), k)
  BY <1>5 DEF Verified, Entry
<1>7. StandingSeen'
  BY <1>2, <1>3, <1>6 DEF StandingSeen, Asked, Valid
<1>8. InvalidSeen'
  BY <1>1, <1>3, <1>6 DEF InvalidSeen, Asked, Valid
<1> QED
  BY <1>4, <1>7, <1>8

\* The scout is done with an operator.
LEMMA EndsStep ==
    ASSUME ScoutInv, NEW result \in {"idle", "listed", "rejected"}, Ends(result)
    PROVE  ScoutTypeOK' /\ StandingSeen' /\ InvalidSeen'
<1>1. scout' = NotScouting(result, scout.operator) /\ scout.operator \in Makers /\ Blank \in Seen
  BY DEF Ends, ScoutInv, ScoutTypeOK, Blank, Seen
<1>2. scout'.step = result /\ ~Scouting'
  BY <1>1 DEF NotScouting, Scouting, Field
<1>3. ScoutTypeOK'
  BY <1>1, <1>2 DEF ScoutTypeOK, NotScouting, ScoutStep
<1> QED
  BY <1>2, <1>3 DEF StandingSeen, InvalidSeen

\* One field is read of an entry that is what the invariant says it is.
LEMMA VerifyStep ==
    ASSUME ScoutInv, VerifyMaker
    PROVE  ScoutTypeOK' /\ StandingSeen' /\ InvalidSeen'
<1> DEFINE m == scout.operator
           f == scout.step
<1>1. CASE Ends("rejected")
  BY <1>1, EndsStep
<1>2. CASE /\ scout' = [scout EXCEPT !.seen[scout.step] = Entry(scout.operator)[scout.step],
                                     !.step = Following(scout.step)]
           /\ UNCHANGED <<held, everValid, struckOff>>
  <2>1. /\ m \in Makers /\ f \in Field /\ scout.seen \in Seen
        /\ Entry(m) \in Seen /\ scout.key \in KeyHashes /\ Scouting
        /\ scout \in [step : ScoutStep, operator : Makers, key : KeyHashes \cup {NoKey},
                      newest : SUBSET KeyHashes, seen : Seen]
    BY EntryType DEF VerifyMaker, ScoutInv, ScoutTypeOK, IInv, Scouting
  <2>2. UNCHANGED <<stake, makerNostrKeyHash, stakeFrozen, exitUnlockTime>>
    BY DEF VerifyMaker, vars, registryVars
  <2> DEFINE e == Entry(m)
             seen == [scout.seen EXCEPT ![f] = e[f]]
  <2>3. scout' = [scout EXCEPT !.seen = seen, !.step = Following(f)]
    BY <1>2, <2>1
  <2> HIDE DEF seen
  <2>4. /\ scout'.step = Following(f) /\ scout'.operator = m /\ scout'.key = scout.key
        /\ scout'.newest = scout.newest /\ scout'.seen = seen
    BY <2>1, <2>3
  <2>5. \A k : Verified(Entry(m), k)' <=> Verified(Entry(m), k)
    BY <2>2, <2>4 DEF Verified, Entry
  <2>6. /\ seen \in Seen /\ seen[f] = e[f]
        /\ \A g \in Field \ {f} : seen[g] = scout.seen[g]
    <3>1. e \in Seen
      BY <2>1
    <3> HIDE DEF e
    <3>2. CASE f = "stake"
      BY <2>1, <3>1, <3>2 DEF Seen, Field, seen
    <3>3. CASE f = "hash"
      BY <2>1, <3>1, <3>3 DEF Seen, Field, seen
    <3>4. CASE f = "frozen"
      BY <2>1, <3>1, <3>4 DEF Seen, Field, seen
    <3>5. CASE f = "exit"
      BY <2>1, <3>1, <3>5 DEF Seen, Field, seen
    <3> QED
      BY <2>1, <3>2, <3>3, <3>4, <3>5 DEF Field
  <2>7. ScoutTypeOK'
    <3>1. Following(f) \in ScoutStep
      BY <2>1 DEF Following, ScoutStep, Field
    <3>2. scout' \in [step : ScoutStep, operator : Makers, key : KeyHashes \cup {NoKey},
                      newest : SUBSET KeyHashes, seen : Seen]
      BY <2>1, <2>3, <2>6, <3>1
    <3> QED
      BY <2>1, <2>4, <3>2 DEF ScoutInv, ScoutTypeOK
  <2>8. /\ e.stake = stake[m] /\ e.hash = makerNostrKeyHash[m]
        /\ e.frozen = stakeFrozen[m] /\ e.exit = exitUnlockTime[m]
    BY DEF Entry
  <2>9. NoKey # scout.key /\ (Registered(m) => stake[m] >= MinStake)
    BY <2>1, RegistryAssumption, CourtAssumption DEF ScoutInv, IInv, MakersMeetMinStake
  <2>10. CASE f = "hash"
    <3>1. scout'.step = "stake" /\ seen.hash = makerNostrKeyHash[m]
      BY <2>4, <2>6, <2>8, <2>10 DEF Following
    <3>2. StandingSeen'
      BY <1>2, <2>1, <2>2, <2>5, <2>4, <2>8, <3>1 DEF StandingSeen, Asked, ScoutInv, Verified
    <3>3. InvalidSeen'
      BY <1>2, <2>1, <2>2, <2>5, <2>4, <2>8, <3>1 DEF InvalidSeen, Asked, ScoutInv
    <3> QED
      BY <2>7, <3>2, <3>3
  <2>11. CASE f = "stake"
    <3>1. scout'.step = "frozen" /\ seen.stake = stake[m] /\ seen.hash = scout.seen.hash
      BY <2>4, <2>6, <2>8, <2>11 DEF Following, Field
    <3>2. StandingSeen'
      BY <1>2, <2>1, <2>2, <2>5, <2>4, <2>8, <2>11, <3>1 DEF StandingSeen, Asked, ScoutInv, Verified
    <3>3. InvalidSeen'
      BY <1>2, <2>1, <2>2, <2>5, <2>4, <2>8, <2>11, <3>1 DEF InvalidSeen, Asked, ScoutInv
    <3> QED
      BY <2>7, <3>2, <3>3
  <2>12. CASE f = "frozen"
    <3>1. /\ scout'.step = "exit" /\ seen.frozen = stakeFrozen[m]
          /\ seen.hash = scout.seen.hash /\ seen.stake = scout.seen.stake
      BY <2>4, <2>6, <2>8, <2>12 DEF Following, Field
    <3>2. StandingSeen'
      BY <1>2, <2>1, <2>2, <2>5, <2>4, <2>8, <2>12, <3>1 DEF StandingSeen, Asked, ScoutInv, Verified
    <3>3. InvalidSeen'
      <4> SUFFICES ASSUME ~everValid, ~struckOff, seen.hash = scout.key
                   PROVE  /\ makerNostrKeyHash[m] = scout.key
                          /\ ~seen.frozen => exitUnlockTime[m] # 0
        BY <1>2, <2>1, <2>2, <2>5, <2>4, <3>1 DEF InvalidSeen, Asked, ScoutInv
      <4>1. makerNostrKeyHash[m] = scout.key /\ ~Verified(e, scout.key)
        BY <2>1, <2>12, <3>1 DEF InvalidSeen, Asked, ScoutInv
      <4> QED
        BY <2>8, <2>9, <3>1, <4>1 DEF Verified, Registered
    <3> QED
      BY <2>7, <3>2, <3>3
  <2>13. CASE f = "exit"
    <3>1. /\ scout'.step = "decide" /\ seen.exit = exitUnlockTime[m]
          /\ seen.hash = scout.seen.hash /\ seen.stake = scout.seen.stake
          /\ seen.frozen = scout.seen.frozen
      BY <2>4, <2>6, <2>8, <2>13 DEF Following, Field
    <3>2. StandingSeen'
      BY <1>2, <2>1, <2>2, <2>5, <2>4, <2>8, <2>13, <3>1 DEF StandingSeen, Asked, ScoutInv, Verified
    <3>3. InvalidSeen'
      BY <1>2, <2>1, <2>2, <2>5, <2>4, <2>8, <2>13, <3>1 DEF InvalidSeen, Asked, ScoutInv
    <3> QED
      BY <2>7, <3>2, <3>3
  <2> QED
    BY <2>1, <2>10, <2>11, <2>12, <2>13 DEF Field
<1> QED
  BY <1>1, <1>2 DEF VerifyMaker

LEMMA ScoutStill ==
    ASSUME ScoutInv, UNCHANGED vars, UNCHANGED scoutVars
    PROVE  ScoutTypeOK' /\ StandingSeen' /\ InvalidSeen'
<1>1. UNCHANGED <<stake, makerNostrKeyHash, stakeFrozen, exitUnlockTime, scout, held, everValid, struckOff>>
  BY DEF vars, registryVars, scoutVars
<1>2. ScoutTypeOK'
  BY <1>1 DEF ScoutInv, ScoutTypeOK, Scouting
<1>3. StandingSeen'
  BY <1>1 DEF ScoutInv, StandingSeen, Scouting, Asked, Verified, Entry
<1>4. InvalidSeen'
  BY <1>1 DEF ScoutInv, InvalidSeen, Scouting, Asked, Verified, Entry
<1> QED
  BY <1>2, <1>3, <1>4

LEMMA ScoutingStep ==
    ASSUME ScoutInv, [DiscoveryNext]_discoveryVars
    PROVE  ScoutInv'
<1>1. IInv' /\ OnboardTypeOK' /\ TypeOK'
  BY CourtInvStep, OnboardTypeStep DEF ScoutInv, IInv
<1>2. CASE Remember /\ (Next \/ \E m \in Makers : Mine(m))
  BY <1>1, <1>2, ScoutRemembers DEF ScoutInv
<1>3. CASE \E m \in Makers, delivered \in SUBSET Ads : Collect(m, delivered)
  BY <1>1, <1>3, CollectStep DEF ScoutInv
<1>4. CASE VerifyMaker
  BY <1>1, <1>4, VerifyStep DEF ScoutInv
<1>5. CASE ListMaker
  BY <1>1, <1>5, EndsStep DEF ScoutInv, ListMaker
<1>6. CASE UNCHANGED vars /\ UNCHANGED scoutVars
  BY <1>1, <1>6, ScoutStill DEF ScoutInv
<1> QED
  BY <1>2, <1>3, <1>4, <1>5, <1>6 DEF DiscoveryNext, discoveryVars, Chain, Mine, ReadMakerState,
     RunOnboard, Interrupt, SendLegacyTx, Local

LEMMA ScoutInit == DiscoveryInit => ScoutInv
<1> SUFFICES ASSUME DiscoveryInit PROVE ScoutInv
  OBVIOUS
<1>1. IInv /\ OnboardTypeOK
  BY OnboardInit DEF OnboardInv
<1>2. PICK m \in Makers : scout = NotScouting("idle", m)
  BY DEF DiscoveryInit
<1>3. ~Scouting /\ Blank \in Seen
  BY <1>2 DEF NotScouting, Scouting, Field, Blank, Seen
<1> QED
  BY <1>1, <1>2, <1>3
     DEF ScoutInv, ScoutTypeOK, StandingSeen, InvalidSeen, NotScouting, ScoutStep

LEMMA ScoutAlways == DiscoverySpec => []ScoutInv
BY ScoutInit, ScoutingStep, PTL DEF DiscoverySpec

\* Every deciding step is a ListMaker.
LEMMA OnlyListMakerDecides ==
    ASSUME [DiscoveryNext]_discoveryVars, scout.step = "decide",
           scout'.step \in {"listed", "rejected"}
    PROVE  /\ scout'.step = "listed" <=> Verified(scout.seen, scout.key)
           /\ Scouting /\ \A f \in Field : Asked(f)
<1>1. scout' # scout
  OBVIOUS
<1>2. ListMaker
  BY <1>1 DEF DiscoveryNext, discoveryVars, scoutVars, Chain, Remember, Mine, ReadMakerState, RunOnboard,
     Interrupt, SendLegacyTx, Local, Collect, VerifyMaker, Scouting, Field
<1> QED
  BY <1>2 DEF ListMaker, Ends, NotScouting, DecideMakerVerified, Scouting, Asked, Field

\* Four answers read at four moments add up to one moment at which the listed
\* maker was valid, unless it was struck off meanwhile (VerifyMaker).
THEOREM ListedMakersWereValid == DiscoverySpec => ListedWasValid
<1>1. ScoutInv /\ [DiscoveryNext]_discoveryVars
         => [scout.step = "decide" /\ scout'.step = "listed" => everValid \/ struckOff]_discoveryVars
  <2> SUFFICES ASSUME ScoutInv, [DiscoveryNext]_discoveryVars,
                      scout.step = "decide", scout'.step = "listed", ~everValid, ~struckOff
               PROVE  FALSE
    OBVIOUS
  <2>1. Verified(scout.seen, scout.key) /\ Scouting /\ \A f \in Field : Asked(f)
    BY OnlyListMakerDecides
  <2> QED
    BY <2>1 DEF Verified, ScoutInv, InvalidSeen, Field
<1> QED
  BY <1>1, ScoutAlways, PTL DEF DiscoverySpec, ListedWasValid

\* A maker that stays valid under the key of its newest ad is not rejected for
\* what the registry answered, whatever else is mined meanwhile (Run of scout,
\* VerifyMaker).
THEOREM StandingMakersAreListed == DiscoverySpec => StandingMakerListed
<1>1. ScoutInv /\ [DiscoveryNext]_discoveryVars
         => [scout.step = "decide" /\ scout'.step = "rejected" => ~held]_discoveryVars
  <2> SUFFICES ASSUME ScoutInv, [DiscoveryNext]_discoveryVars,
                      scout.step = "decide", scout'.step = "rejected", held
               PROVE  FALSE
    OBVIOUS
  <2>1. ~Verified(scout.seen, scout.key) /\ Scouting /\ \A f \in Field : Asked(f)
    BY OnlyListMakerDecides
  <2> QED
    BY <2>1 DEF Verified, ScoutInv, StandingSeen, Field
<1> QED
  BY <1>1, ScoutAlways, PTL DEF DiscoverySpec, StandingMakerListed

-----------------------------------------------------------------------------

HistoryTypeOK ==
    /\ undermined \subseteq Run /\ rebound \subseteq Run /\ silent \subseteq Run
    /\ held \in BOOLEAN /\ everValid \in BOOLEAN /\ struckOff \in BOOLEAN

LEMMA HistoryStep ==
    ASSUME HistoryTypeOK, ScoutInv, [DiscoveryNext]_discoveryVars
    PROVE  HistoryTypeOK'
<1>1. CASE Remember /\ UNCHANGED silent
  BY <1>1 DEF Remember, HistoryTypeOK
<1>2. ASSUME NEW m \in Makers, Mine(m) PROVE HistoryTypeOK'
  <2>1. Head(outbox[m]).run \in Run
    BY <1>2, HeadType DEF Mine, ScoutInv
  <2>2. silent' \subseteq Run /\ Remember
    BY <1>2, <2>1 DEF Mine, HistoryTypeOK
  <2> QED
    BY <2>2 DEF Remember, HistoryTypeOK
<1>3. ASSUME NEW m \in Makers, NEW delivered \in SUBSET Ads, Collect(m, delivered) PROVE HistoryTypeOK'
  BY <1>3 DEF Collect, onboardVars, HistoryTypeOK, Valid
<1>4. CASE UNCHANGED <<undermined, rebound, silent>> /\ UNCHANGED scoutVars
  BY <1>4 DEF scoutVars, HistoryTypeOK
<1>5. CASE VerifyMaker \/ ListMaker
  BY <1>5 DEF VerifyMaker, ListMaker, Ends, onboardVars, HistoryTypeOK
<1> QED
  BY <1>1, <1>2, <1>3, <1>4, <1>5 DEF DiscoveryNext, discoveryVars, onboardVars, Chain,
     ReadMakerState, RunOnboard, Interrupt, SendLegacyTx, Local

\* Every variable of the composition is typed in every reachable state.
THEOREM DiscoveryTypeCorrect == DiscoverySpec => []DiscoveryTypeOK
<1>1. DiscoveryInit => HistoryTypeOK
  BY DEF DiscoveryInit, HistoryTypeOK
<1>2. HistoryTypeOK /\ ScoutInv /\ [DiscoveryNext]_discoveryVars => HistoryTypeOK'
  BY HistoryStep
<1>3. HistoryTypeOK /\ ScoutInv => DiscoveryTypeOK
  BY DEF HistoryTypeOK, ScoutInv, ScoutTypeOK, OnboardTypeOK, IInv, DiscoveryTypeOK
<1> QED
  BY <1>1, <1>2, <1>3, ScoutAlways, PTL DEF DiscoverySpec
=============================================================================
