------------------------- MODULE Broadcaster_proofs -------------------------
(***************************************************************************)
(* Proof, for a list of relays of any length, that one relay that hangs on *)
(* its connection does not cost the others their turn.                     *)
(***************************************************************************)
EXTENDS Broadcaster, TLAPS

\* The list names each relay once.
LEMMA Places ==
    /\ Len(Relays) \in Nat
    /\ \A i \in 1..Len(Relays) : Relays[i] \in Relay
    /\ \A i, j \in 1..Len(Relays) : Relays[i] = Relays[j] => i = j
<1>1. Relays \in Seq(Relay)
  BY BroadcasterAssumption
<1>2. Len(Relays) \in Nat /\ \A i \in 1..Len(Relays) : Relays[i] \in Relay
  BY <1>1
<1> QED
  BY <1>2, BroadcasterAssumption

\* The variables the argument is about.
BudgetTypeOK ==
    /\ turn \in 0..Len(Relays) + 1
    /\ step \in {"ensure", "publish"}
    /\ left \in Nat
    /\ lines \in [Relay -> {"none", "skipped", "ok", "error"}]
    /\ hung \in [Relay -> {"no", "connect", "publish"}]

\* A relay whose turn has not come is not reported.
Unreported == \A i \in 1..Len(Relays) : turn # 0 /\ i >= turn => lines[Relays[i]] = "none"

\* Relays before the i-th that hung on their connection.
Hung(i) == \E j \in 1..i-1 : hung[Relays[j]] = "connect"

\* Unless the time was used up, it is whole before the first relay hangs on a
\* connection, and 15 seconds are left after that; one that is connected has
\* hung at most now.
Budget ==
    turn \in 1..Len(Relays) =>
        \/ StarvedAt(turn)
        \/ left = 45 \/ (left = 15 /\ (Hung(turn) \/ (step = "publish" /\ hung[Relays[turn]] = "connect")))

BInv == BudgetTypeOK /\ Unreported /\ Budget /\ OneHangIsSurvived

LEMMA TimeLess ==
    ASSUME NEW t \in Nat, NEW d \in Nat
    PROVE  Less(t, d) = (IF t > d THEN t - d ELSE 0) /\ Less(t, d) \in Nat
BY DEF Less

\* At the start of a round nothing has hung.
LEMMA RoundInv ==
    ASSUME turn' \in {0, 1}, step' = "ensure", left' = PublishTime,
           lines' = [r \in Relay |-> "none"], hung' = [r \in Relay |-> "no"]
    PROVE  BInv'
<1>1. BudgetTypeOK'
  BY Places DEF BudgetTypeOK, PublishTime
<1>2. Unreported' /\ OneHangIsSurvived'
  BY Places DEF Unreported, OneHangIsSurvived
<1>3. Budget'
  BY DEF Budget, PublishTime
<1> QED
  BY <1>1, <1>2, <1>3 DEF BInv


\* Relays that had their turn stay as they are: what is said of them holds on.
LEMMA EarlierSame ==
    ASSUME BInv, InRound, NEW i \in 1..Len(Relays), i <= turn,
           \A j \in 1..Len(Relays) : j # turn => hung'[Relays[j]] = hung[Relays[j]]
    PROVE  StarvedAt(i)' = StarvedAt(i) /\ Hung(i)' = Hung(i)
<1>1. \A j \in 1..i-1 : hung'[Relays[j]] = hung[Relays[j]]
  BY Places DEF InRound, BInv, BudgetTypeOK
<1> QED
  BY <1>1 DEF StarvedAt, Hung

\* The relay whose turn it is is connected to.
LEMMA EnsureInv ==
    ASSUME BInv, InRound, step = "ensure", turn' = turn, step' = "publish", lines' = lines,
           NEW d \in {0, ConnectTime(left)}, left > d, left' = Less(left, d),
           IF d = 0 THEN hung' = hung ELSE hung' = [hung EXCEPT ![Relays[turn]] = "connect"]
    PROVE  BInv'
<1>1. turn \in 1..Len(Relays) /\ left \in Nat /\ Relays[turn] \in Relay
  BY Places DEF InRound, BInv, BudgetTypeOK
<1>2. ConnectTime(left) = (IF left < 30 THEN left ELSE 30) /\ d \in Nat
  BY <1>1 DEF ConnectTime
<1>3. BudgetTypeOK'
  BY <1>1, <1>2, TimeLess DEF BInv, BudgetTypeOK
<1>4. \A j \in 1..Len(Relays) : j # turn => hung'[Relays[j]] = hung[Relays[j]]
  BY <1>1, Places DEF BInv, BudgetTypeOK
<1>5. Unreported'
  BY DEF BInv, Unreported
<1>6. OneHangIsSurvived'
  <2> SUFFICES ASSUME NEW i \in 1..Len(Relays), Relays[i] \in Steady, lines[Relays[i]] = "error"
               PROVE  StarvedAt(i)'
    BY DEF OneHangIsSurvived
  <2>1. i <= turn
    BY <1>1 DEF BInv, Unreported
  <2> QED
    BY <1>4, <2>1, EarlierSame DEF BInv, OneHangIsSurvived
<1>7. Budget'
  <2>1. StarvedAt(turn)' = StarvedAt(turn) /\ Hung(turn)' = Hung(turn)
    BY <1>1, <1>4, EarlierSame
  <2>2. StarvedAt(turn) \/ left = 45 \/ (left = 15 /\ Hung(turn))
    BY <1>1 DEF BInv, Budget
  <2>3. CASE d = 0
    <3>1. left' = left
      BY <1>1, <2>3, TimeLess
    <3> QED
      BY <2>1, <2>2, <3>1 DEF Budget, StarvedAt, Hung
  <2>4. CASE d # 0 /\ ~StarvedAt(turn)
    <3>1. d = ConnectTime(left) /\ left > d
      BY <2>4
    <3>2. left = 45 /\ d = 30
      BY <1>1, <1>2, <2>2, <2>4, <3>1
    <3>3. left' = 15
      BY <3>2, TimeLess
    <3>4. hung'[Relays[turn]] = "connect"
      BY <1>1, <2>4 DEF BInv, BudgetTypeOK
    <3> QED
      BY <3>3, <3>4 DEF Budget
  <2>5. CASE StarvedAt(turn)
    BY <2>1, <2>5 DEF Budget, StarvedAt
  <2> QED
    BY <2>3, <2>4, <2>5
<1> QED
  BY <1>3, <1>5, <1>6, <1>7 DEF BInv

\* The relay whose turn it is is done with.  Where time passed, it hung.
LEMMA LineInv ==
    ASSUME BInv, InRound, NEW status \in {"skipped", "ok", "error"}, Line(status),
           NEW d \in Nat, left' = Less(left, d), NEW where \in {"connect", "publish"},
           IF d = 0 THEN hung' = hung ELSE hung' = [hung EXCEPT ![Relays[turn]] = where],
           d # 0 => \/ where = "publish"
                    \/ where = "connect" /\ step = "ensure" /\ d = ConnectTime(left),
           status = "error" /\ Relays[turn] \in Steady => left = 0
    PROVE  BInv'
<1>1. turn \in 1..Len(Relays) /\ left \in Nat /\ Relays[turn] \in Relay
  BY Places DEF InRound, BInv, BudgetTypeOK
<1>2. /\ lines' = [lines EXCEPT ![Relays[turn]] = status]
      /\ turn' = turn + 1 /\ step' = "ensure"
  BY DEF Line, Here
<1>3. ConnectTime(left) = IF left < 30 THEN left ELSE 30
  BY DEF ConnectTime
<1>4. BudgetTypeOK'
  <2>1. left' \in Nat
    BY <1>1, TimeLess
  <2>2. lines' \in [Relay -> {"none", "skipped", "ok", "error"}]
    BY <1>2 DEF BInv, BudgetTypeOK
  <2>3. hung' \in [Relay -> {"no", "connect", "publish"}]
    BY DEF BInv, BudgetTypeOK
  <2>4. turn' \in 0..Len(Relays) + 1
    BY <1>1, <1>2, Places
  <2> QED
    BY <1>2, <2>1, <2>2, <2>3, <2>4 DEF BudgetTypeOK
<1>5. /\ \A j \in 1..Len(Relays) : j # turn => /\ hung'[Relays[j]] = hung[Relays[j]]
                                               /\ lines'[Relays[j]] = lines[Relays[j]]
      /\ lines'[Relays[turn]] = status
      /\ hung'[Relays[turn]] = IF d = 0 THEN hung[Relays[turn]] ELSE where
  BY <1>1, <1>2, Places DEF BInv, BudgetTypeOK
<1>6. Unreported'
  BY <1>1, <1>2, <1>5, Places DEF BInv, Unreported
<1>7. \A i \in 1..Len(Relays) : i <= turn => StarvedAt(i)' = StarvedAt(i) /\ Hung(i)' = Hung(i)
  BY <1>5, EarlierSame
<1>8. StarvedAt(turn) \/ left = 45 \/ left = 15
  BY <1>1 DEF BInv, Budget
<1>9. OneHangIsSurvived'
  <2> SUFFICES ASSUME NEW i \in 1..Len(Relays), Relays[i] \in Steady, lines'[Relays[i]] = "error"
               PROVE  StarvedAt(i)'
    BY DEF OneHangIsSurvived
  <2>1. CASE i = turn
    BY <1>1, <1>5, <1>7, <1>8, <2>1
  <2>2. CASE i # turn
    <3>1. lines[Relays[i]] = "error" /\ i <= turn
      BY <1>1, <1>5, <2>2 DEF BInv, Unreported
    <3> QED
      BY <1>7, <3>1 DEF BInv, OneHangIsSurvived
  <2> QED
    BY <2>1, <2>2
<1>10. Budget'
  <2>0. PICK k \in 1..Len(Relays) : k = turn
    BY <1>1
  <2>1. turn' = k + 1 /\ k + 1 \in Nat /\ \A j : j \in 1..(k + 1) - 1 <=> j \in 1..k - 1 \/ j = k
    BY <1>2, <2>0
  <2>2. StarvedAt(k)' = StarvedAt(k) /\ Hung(k)' = Hung(k)
    BY <1>7, <2>0
  <2> SUFFICES ASSUME ~StarvedAt(k + 1)'
               PROVE  left' = 45 \/ (left' = 15 /\ Hung(k + 1)')
    BY <2>1 DEF Budget, StarvedAt, Hung
  <2>3. /\ ~StarvedAt(k) /\ hung'[Relays[k]] # "publish"
        /\ ~(hung'[Relays[k]] = "connect" /\ Hung(k))
        /\ hung'[Relays[k]] = "connect" \/ Hung(k) => Hung(k + 1)'
    BY <2>1, <2>2 DEF StarvedAt, Hung
  <2>4. left = 45 \/ (left = 15 /\ (Hung(k) \/ (step = "publish" /\ hung[Relays[k]] = "connect")))
    BY <2>0, <2>3 DEF BInv, Budget
  <2>5. CASE d = 0
    <3>1. left' = left
      BY <1>1, <2>5, TimeLess
    <3> QED
      BY <1>5, <2>0, <2>3, <2>4, <2>5, <3>1
  <2>6. CASE d # 0
    <3>1. where = "connect" /\ step = "ensure" /\ d = ConnectTime(left)
      BY <1>5, <2>0, <2>3, <2>6
    <3>2. hung'[Relays[k]] = "connect" /\ ~Hung(k)
      BY <1>5, <2>0, <2>3, <2>6, <3>1
    <3>3. left = 45 /\ d = 30
      BY <1>3, <2>4, <3>1, <3>2
    <3>4. left' = 15
      BY <3>3, TimeLess
    <3> QED
      BY <2>3, <3>2, <3>4
  <2> QED
    BY <2>5, <2>6
<1> QED
  BY <1>4, <1>6, <1>9, <1>10 DEF BInv

LEMMA StepBInv == BInv /\ [Next]_vars => BInv'
<1> SUFFICES ASSUME BInv, [Next]_vars PROVE BInv'
  OBVIOUS
<1>1. left \in Nat /\ ConnectTime(left) \in Nat /\ Less(left, 0) = left
  BY TimeLess DEF BInv, BudgetTypeOK, ConnectTime
<1>2. ASSUME UNCHANGED <<turn, step, left, lines, hung>> PROVE BInv'
  BY <1>2 DEF BInv, BudgetTypeOK, Unreported, Budget, StarvedAt, Hung, OneHangIsSurvived
<1>3. CASE UNCHANGED vars
  BY <1>2, <1>3 DEF vars, daemon
<1>4. CASE Skipped
  BY <1>1, <1>4, LineInv DEF Skipped
<1>5. CASE Reuse
  <2>1. /\ InRound /\ step = "ensure" /\ step' = "publish"
        /\ UNCHANGED <<turn, left, lines, hung>>
    BY <1>5 DEF Reuse
  <2>2. BudgetTypeOK' /\ Unreported' /\ OneHangIsSurvived'
    BY <2>1 DEF BInv, BudgetTypeOK, Unreported, OneHangIsSurvived, StarvedAt
  <2>3. Budget'
    BY <2>1 DEF BInv, Budget, StarvedAt, Hung
  <2> QED
    BY <2>2, <2>3 DEF BInv
<1>6. ASSUME NEW d \in {0, ConnectTime(left)}, Connect(d)
      PROVE  BInv'
  BY <1>6, EnsureInv DEF Connect, Elapse, Hangs, Here
<1>7. ASSUME NEW d \in {0, ConnectTime(left)}, ConnectFails(d)
      PROVE  BInv'
  <2>1. d \in Nat /\ InRound /\ step = "ensure" /\ Line("error") /\ left' = Less(left, d)
    BY <1>1, <1>7 DEF ConnectFails, Elapse
  <2>2. /\ Relays[turn] \in Steady => left = 0
        /\ IF d = 0 THEN hung' = hung ELSE hung' = [hung EXCEPT ![Relays[turn]] = "connect"]
    BY <1>7 DEF ConnectFails, Hangs, Here
  <2> QED
    BY <2>1, <2>2, LineInv
<1>8. CASE Publish
  BY <1>1, <1>8, LineInv DEF Publish
<1>9. ASSUME NEW d \in {0, left}, PublishFails(d)
      PROVE  BInv'
  <2>1. d \in Nat /\ InRound /\ Line("error") /\ left' = Less(left, d)
    BY <1>1, <1>9 DEF PublishFails, Elapse
  <2>2. /\ Relays[turn] \in Steady => left = 0
        /\ IF d = 0 THEN hung' = hung ELSE hung' = [hung EXCEPT ![Relays[turn]] = "publish"]
    BY <1>9 DEF PublishFails, Hangs, Here
  <2> QED
    BY <2>1, <2>2, LineInv
<1>10. CASE EndRound
  <2>1. turn = Len(Relays) + 1 /\ turn' = 0 /\ UNCHANGED <<step, left, lines, hung>>
    BY <1>10 DEF EndRound
  <2>2. BudgetTypeOK' /\ Unreported' /\ OneHangIsSurvived' /\ Budget'
    BY <2>1, Places DEF BInv, BudgetTypeOK, Unreported, OneHangIsSurvived, StarvedAt, Budget
  <2> QED
    BY <2>2 DEF BInv
<1>11. CASE Tick \/ Restart
  BY <1>11, RoundInv DEF Tick, Restart, NewRound
<1> QED
  BY <1>3, <1>4, <1>5, <1>6, <1>7, <1>8, <1>9, <1>10, <1>11 DEF Next, Run

\* In a list of any length, with any relays that fail or hang before it, a
\* relay that answers is reported as failing only after two relays hung on
\* their connection or one on the publication (Publish, ensureRelay).
THEOREM HangsAreShared == Spec => []OneHangIsSurvived
<1>1. Init => BInv
  <2> SUFFICES ASSUME Init PROVE BInv
    OBVIOUS
  <2>1. turn \in {0, 1}
    BY DEF Init, FirstTurn
  <2>2. BudgetTypeOK /\ Unreported /\ OneHangIsSurvived /\ Budget
    BY <2>1, Places DEF Init, BudgetTypeOK, Unreported, OneHangIsSurvived, Budget, PublishTime
  <2> QED
    BY <2>2 DEF BInv
<1>2. BInv => OneHangIsSurvived
  BY DEF BInv
<1> QED
  BY <1>1, <1>2, StepBInv, PTL DEF Spec

=============================================================================
