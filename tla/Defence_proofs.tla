--------------------------- MODULE Defence_proofs ---------------------------
(***************************************************************************)
(* Proofs about the daemons: what they send, and why a case against an     *)
(* operator that defends itself is lost by silence, for any accounts, any  *)
(* receipts and any number of processes.                                   *)
(***************************************************************************)
EXTENDS Defence, GrievanceCourt_proofs

-----------------------------------------------------------------------------
(* Types.                                                                  *)

\* Owners of daemons are accounts, and the judge is none of them.
LEMMA Parties ==
    /\ Daemons \subseteq Process /\ Judge \in Process /\ Judge \notin Daemons
    /\ \A c \in Case : c.accused # Judge /\ c.accuser # Judge
    /\ Opaque \in Data
    /\ \A r \in Receipt : BuildDefenseData(r) \in Data
BY DefenceAssumption, CaseType DEF Process, Data, BuildDefenseData

LEMMA DefenceInitType == DefenceInit => DefenceTypeOK
<1> SUFFICES ASSUME DefenceInit PROVE DefenceTypeOK
  OBVIOUS
<1>1. TypeOK
  <2>1. Cardinality(Makers) \in Nat /\ MinStake \in Nat /\ Funds \in Nat
    BY CourtAssumption, RegistryAssumption, ChainAssumption, FS_CardinalityType
  <2>2. MinStake * Cardinality(Makers) \in Nat
    BY <2>1
  <2>3. balance \in [Account -> Nat]
    BY <2>1, <2>2 DEF DefenceInit
  <2>4. RegistryTypeOK
    BY <2>1 DEF DefenceInit, RegistryTypeOK
  <2> QED
    BY <2>3, <2>4 DEF DefenceInit, TypeOK, NoGrievance, Phase
<1>2. /\ running \subseteq Process
      /\ logs \in [Process -> Seq(Log)]
      /\ tasks \in [Process -> SUBSET Task]
      /\ pool \subseteq Tx
      /\ vault \in [Daemons -> SUBSET Receipt]
      /\ dropped \subseteq Role \X Case \X Cause
  BY DEF DefenceInit
<1>3. faults \in 0..MaxFaults /\ crashes \in 0..MaxCrashes
  BY DefenceAssumption DEF DefenceInit
<1> QED
  BY <1>1, <1>2, <1>3 DEF DefenceTypeOK

\* What the daemons do to the contracts, anybody may do.
LEMMA CourtStep ==
    ASSUME DefenceTypeOK, DefenceNext
    PROVE  [Next]_vars
<1>1. \A tx \in pool : tx.case \in Case
  BY DEF DefenceTypeOK, Tx
<1>2. \A c \in Case : CourtCall(c) => Next
  BY DEF Next
<1>3. CASE \E c \in Case, bond \in Bonds : OpenCase(c, bond)
  BY <1>3, <1>2 DEF OpenCase, CourtCall
<1>4. CASE \E tx \in pool : Mine(tx) \/ LoseTx(tx)
  <2> PICK tx \in pool : Mine(tx) \/ LoseTx(tx)
    BY <1>4
  <2>1. VerdictExonerate \in BOOLEAN
    BY DefenceAssumption
  <2> QED
    BY <1>1, <1>2, <2>1 DEF Mine, LoseTx, Contest, CourtCall
<1>5. CASE \E c \in Case : ByHand(c)
  BY <1>5, <1>2 DEF ByHand, Contest, CourtCall
<1>6. CASE Block
  BY <1>6 DEF Block, Next
<1>7. CASE \E p \in Process : Start(p) \/ Crash(p)
  BY <1>7 DEF Start, Crash
<1>8. CASE \E d \in Daemons, r \in Receipt : Ingest(d, r)
  BY <1>8 DEF Ingest
<1>9. CASE \E d \in Daemons : DaemonStep(d)
  BY <1>9 DEF DaemonStep, TakeLog, CheckDeadline, SubmitDefend, WaitAndResolve, ReadPhase, SubmitResolve
<1>10. CASE JudgeStep
  BY <1>10 DEF JudgeStep, HandleContested, SubmitVerdict
<1> QED
  BY <1>3, <1>4, <1>5, <1>6, <1>7, <1>8, <1>9, <1>10 DEF DefenceNext

\* A log that reaches a subscription is typed.
LEMMA NotifyType ==
    ASSUME DefenceTypeOK, NEW p, NEW c \in Case, NEW data \in Data,
           logs' = Notify(p, c, data)
    PROVE  logs' \in [Process -> Seq(Log)]
<1>1. [case |-> c, data |-> data] \in Log
  BY DEF Log
<1>2. ASSUME p \in Process
      PROVE  logs[p] \in Seq(Log) /\ Append(logs[p], [case |-> c, data |-> data]) \in Seq(Log)
  BY <1>1, <1>2 DEF DefenceTypeOK
<1> QED
  BY <1>2 DEF DefenceTypeOK, Notify

\* The parts of a log.
LEMMA LogType ==
    ASSUME NEW s \in Seq(Log)
    PROVE  /\ \A i \in 1..Len(s) : s[i].case \in Case
           /\ s # <<>> => /\ Head(s).case \in Case /\ Head(s).data \in Data
                         /\ Tail(s) \in Seq(Log)
<1>1. \A l \in Log : l.case \in Case /\ l.data \in Data
  BY DEF Log
<1>2. \A i \in 1..Len(s) : s[i] \in Log
  OBVIOUS
<1>3. s # <<>> => Head(s) \in Log /\ Tail(s) \in Seq(Log)
  OBVIOUS
<1> QED
  BY <1>1, <1>2, <1>3

\* The parts of a task; a step forward and a try more keep it one.
LEMMA TaskType ==
    ASSUME NEW t \in Task
    PROVE  /\ t.role \in Role /\ t.case \in Case /\ t.data \in Data
           /\ t.tries \in 0..2
           /\ \A s \in {"poll", "phase", "head", "send"} : [t EXCEPT !.step = s] \in Task
           /\ \A n \in 0..2 : [t EXCEPT !.tries = n] \in Task
BY DEF Task

\* What is given up is typed.
LEMMA GiveUpType ==
    ASSUME DefenceTypeOK, NEW role \in Role, NEW c \in Case, NEW cause \in Cause,
           GiveUp(role, c, cause)
    PROVE  dropped' \subseteq Role \X Case \X Cause
<1>1. <<role, c, cause>> \in Role \X Case \X Cause
  OBVIOUS
<1> QED
  BY <1>1 DEF DefenceTypeOK, GiveUp

\* Changes of the work in memory are typed.
LEMMA TasksType ==
    ASSUME DefenceTypeOK, NEW p \in Process, NEW t, NEW u \in Task,
           Add(p, u) \/ Replace(p, t, u) \/ Remove(p, t)
    PROVE  tasks' \in [Process -> SUBSET Task]
BY DEF DefenceTypeOK, Add, Replace, Remove

LEMMA RetryType ==
    ASSUME DefenceTypeOK, NEW p \in Process, NEW t \in tasks[p], NEW again \in Task,
           NEW cause \in Cause, Retry(p, t, again, cause)
    PROVE  tasks' \in [Process -> SUBSET Task] /\ dropped' \subseteq Role \X Case \X Cause
<1>1. t \in Task
  BY DEF DefenceTypeOK
<1>2. CASE t.tries + 1 < 3
  <2>1. [again EXCEPT !.tries = t.tries + 1] \in Task
    BY <1>1, <1>2 DEF Task
  <2> QED
    BY <1>2, <2>1, TasksType DEF Retry, DefenceTypeOK
<1>3. CASE ~(t.tries + 1 < 3)
  <2>1. Remove(p, t) /\ GiveUp(t.role, t.case, cause)
    BY <1>3 DEF Retry
  <2> QED
    BY <1>1, <2>1, TaskType, TasksType, GiveUpType
<1> QED
  BY <1>2, <1>3

LEMMA AttemptType ==
    ASSUME DefenceTypeOK, NEW p \in Process, NEW t \in tasks[p], NEW again \in Task,
           Attempt(p, t, again)
    PROVE  /\ tasks' \in [Process -> SUBSET Task] /\ pool' \subseteq Tx
           /\ dropped' \subseteq Role \X Case \X Cause
           /\ faults' \in 0..MaxFaults
<1> DEFINE tx == [role |-> t.role, case |-> t.case, data |-> t.data]
<1>1. t \in Task /\ tx \in Tx
  BY DEF DefenceTypeOK, Task, Tx
<1>2. pool' \subseteq Tx
  BY <1>1 DEF Attempt, DefenceTypeOK
<1>3. faults' \in 0..MaxFaults
  BY DefenceAssumption DEF Attempt, Fault, DefenceTypeOK
<1>4. CASE Retry(p, t, again, "gaveUp")
  BY <1>2, <1>3, <1>4, RetryType DEF Cause
<1>5. CASE Remove(p, t) /\ (\/ \E cause \in {"refused", "final"} : GiveUp(t.role, t.case, cause)
                            \/ UNCHANGED dropped)
  <2>1. {"refused", "final"} \subseteq Cause
    BY DEF Cause
  <2>2. tasks' \in [Process -> SUBSET Task]
    BY <1>1, <1>5, TasksType
  <2>3. dropped' \subseteq Role \X Case \X Cause
    BY <1>1, <1>5, <2>1, TaskType, GiveUpType DEF DefenceTypeOK
  <2> QED
    BY <1>2, <1>3, <2>2, <2>3
<1> QED
  BY <1>4, <1>5 DEF Attempt

LEMMA DefenceStepType == DefenceTypeOK /\ [DefenceNext]_defenceVars => DefenceTypeOK'
<1> SUFFICES ASSUME DefenceTypeOK, [DefenceNext]_defenceVars PROVE DefenceTypeOK'
  OBVIOUS
<1> DEFINE Mem == /\ running' \subseteq Process
                  /\ logs' \in [Process -> Seq(Log)]
                  /\ tasks' \in [Process -> SUBSET Task]
                  /\ pool' \subseteq Tx
                  /\ vault' \in [Daemons -> SUBSET Receipt]
                  /\ faults' \in 0..MaxFaults /\ crashes' \in 0..MaxCrashes
                  /\ dropped' \subseteq Role \X Case \X Cause
<1>1. TypeOK'
  BY CourtStep, StepType DEF DefenceTypeOK, defenceVars
<1> SUFFICES Mem
  BY <1>1 DEF DefenceTypeOK
<1> USE DEF DefenceTypeOK
<1>2. CASE UNCHANGED defenceVars
  BY <1>2 DEF defenceVars, daemonVars, processVars
<1>3. ASSUME NEW c \in Case, NEW bond \in Bonds, OpenCase(c, bond)
      PROVE  Mem
  <2>1. c.accused \in Address /\ c.accuser \in Address
    BY CaseType
  <2>2. logs' \in [Process -> Seq(Log)]
    BY <1>3, NotifyType, Parties DEF OpenCase
  <2>3. tasks' \in [Process -> SUBSET Task]
    <3>1. NewTask("resolve", c, "poll", Opaque) \in Task
      BY Parties DEF NewTask, Task, Role
    <3>2. CASE Add(c.accuser, NewTask("resolve", c, "poll", Opaque))
      BY <3>1, <3>2 DEF Add
    <3> QED
      BY <1>3, <3>2 DEF OpenCase
  <2>4. dropped' \subseteq Role \X Case \X Cause
    BY <1>3 DEF OpenCase, Role, Cause
  <2> QED
    BY <1>3, <2>2, <2>3, <2>4 DEF OpenCase
<1>4. ASSUME NEW c \in Case, NEW data \in Data, Contest(c, data), pool' \subseteq Tx
      PROVE  Mem
  <2>1. logs' \in [Process -> Seq(Log)]
    BY <1>4, NotifyType, Parties DEF Contest
  <2>2. dropped' \subseteq Role \X Case \X Cause
    BY <1>4 DEF Contest, Role, Cause
  <2> QED
    BY <1>4, <2>1, <2>2 DEF Contest
<1>5. ASSUME NEW tx \in pool, Mine(tx)
      PROVE  Mem
  <2>1. tx \in Tx /\ tx.case \in Case /\ tx.data \in Data
    BY DEF Tx
  <2>2. CASE Contest(tx.case, tx.data)
    BY <2>1, <2>2, <1>4, <1>5 DEF Mine
  <2>3. CASE UNCHANGED <<processVars, vault, faults, crashes, dropped>>
    BY <2>3, <1>5 DEF Mine, processVars
  <2> QED
    BY <1>5, <2>2, <2>3 DEF Mine
<1>6. ASSUME NEW tx \in pool, LoseTx(tx)
      PROVE  Mem
  <2>1. tx.role \in Role /\ tx.case \in Case
    BY DEF Tx
  <2> QED
    BY <1>6, <2>1, DefenceAssumption DEF LoseTx, Fault, GiveUp, processVars, Cause
<1>7. ASSUME NEW c \in Case, ByHand(c)
      PROVE  Mem
  <2>1. CASE Contest(c, Opaque) /\ UNCHANGED pool
    BY <2>1, <1>4, Parties
  <2> QED
    BY <1>7, <2>1 DEF ByHand, daemonVars, processVars
<1>8. CASE Block
  BY <1>8 DEF Block, daemonVars, processVars
<1>9. ASSUME NEW p \in Process, Start(p)
      PROVE  Mem
  BY <1>9 DEF Start
<1>10. ASSUME NEW p \in Process, Crash(p)
      PROVE  Mem
  <2>1. Undone(p) \subseteq Role \X Case \X Cause
    <3>1. \A c \in UnreadCases(p) : c \in Case
      BY LogType DEF UnreadCases
    <3> QED
      BY <3>1 DEF Undone, Role, Cause, Task
  <2> QED
    BY <1>10, <2>1, DefenceAssumption DEF Crash
<1>11. ASSUME NEW d \in Daemons, NEW r \in Receipt, Ingest(d, r)
      PROVE  Mem
  BY <1>11 DEF Ingest, processVars
<1>12. ASSUME NEW d \in Daemons, TakeLog(d)
      PROVE  Mem
  <2> DEFINE c == Head(logs[d]).case
  <2>1. d \in Process /\ logs[d] \in Seq(Log) /\ logs[d] # <<>>
    BY <1>12, Parties DEF TakeLog
  <2>2. c \in Case /\ Tail(logs[d]) \in Seq(Log)
    BY <2>1, LogType
  <2>3. logs' \in [Process -> Seq(Log)]
    BY <1>12, <2>1, <2>2 DEF TakeLog
  <2>4. ASSUME NEW r \in vault[d] PROVE NewTask("defend", c, "head", BuildDefenseData(r)) \in Task
    <3>1. r \in Receipt
      OBVIOUS
    <3> QED
      BY <3>1, <2>2, Parties DEF NewTask, Task, Role
  <2>5. tasks' \in [Process -> SUBSET Task] /\ dropped' \subseteq Role \X Case \X Cause
    <3>1. CASE \E r \in vault[d] : Add(d, NewTask("defend", c, "head", BuildDefenseData(r))) /\ UNCHANGED dropped
      BY <3>1, <2>1, <2>4 DEF Add
    <3>2. CASE UNCHANGED tasks /\ \E cause \in Cause : GiveUp("defend", c, cause)
      BY <3>2, <2>2 DEF GiveUp, Role
    <3> QED
      BY <1>12, <3>1, <3>2 DEF TakeLog, Cause
  <2> QED
    BY <1>12, <2>3, <2>5 DEF TakeLog
<1>13. ASSUME NEW d \in Daemons, NEW t \in tasks[d], CheckDeadline(d, t)
      PROVE  Mem
  <2>1. d \in Process /\ t \in Task /\ t.case \in Case /\ [t EXCEPT !.step = "send"] \in Task
    BY Parties, TaskType
  <2>2. tasks' \in [Process -> SUBSET Task]
    BY <1>13, <2>1, TasksType DEF CheckDeadline
  <2> QED
    BY <1>13, <2>1, <2>2, DefenceAssumption DEF CheckDeadline, GiveUp, Fault, Role, Cause
<1>14. ASSUME NEW d \in Daemons, NEW t \in tasks[d], SubmitDefend(d, t)
      PROVE  Mem
  <2>1. d \in Process /\ t \in Task
    BY Parties
  <2> QED
    BY <1>14, <2>1, AttemptType DEF SubmitDefend
<1>15. ASSUME NEW d \in Daemons, NEW t \in tasks[d], WaitAndResolve(d, t)
      PROVE  Mem
  <2>1. d \in Process /\ t \in Task /\ [t EXCEPT !.step = "phase"] \in Task
    BY Parties, TaskType
  <2> QED
    BY <1>15, <2>1, TasksType DEF WaitAndResolve
<1>16. ASSUME NEW d \in Daemons, NEW t \in tasks[d], ReadPhase(d, t)
      PROVE  Mem
  <2>1. d \in Process /\ t \in Task /\ [t EXCEPT !.step = "send"] \in Task
    BY Parties, TaskType
  <2>2. CASE Replace(d, t, [t EXCEPT !.step = "send"]) /\ UNCHANGED <<dropped, faults>>
    BY <1>16, <2>1, <2>2, TasksType DEF ReadPhase
  <2>3. CASE Retry(d, t, t, "notOpen") /\ UNCHANGED faults
    BY <1>16, <2>1, <2>3, RetryType DEF ReadPhase, Cause
  <2>4. CASE Fault /\ Retry(d, t, t, "gaveUp")
    BY <1>16, <2>1, <2>4, RetryType, DefenceAssumption DEF ReadPhase, Cause, Fault
  <2> QED
    BY <1>16, <2>2, <2>3, <2>4 DEF ReadPhase
<1>17. ASSUME NEW d \in Daemons, NEW t \in tasks[d], SubmitResolve(d, t)
      PROVE  Mem
  <2>1. d \in Process /\ t \in Task /\ [t EXCEPT !.step = "phase"] \in Task
    BY Parties, TaskType
  <2> QED
    BY <1>17, <2>1, AttemptType DEF SubmitResolve
<1>18. ASSUME HandleContested
      PROVE  Mem
  <2> DEFINE lg == Head(logs[Judge])
             task == NewTask("rule", lg.case, "send", lg.data)
  <2>1. lg.case \in Case /\ lg.data \in Data
    <3>1. logs[Judge] \in Seq(Log) /\ logs[Judge] # <<>>
      BY <1>18, Parties DEF HandleContested
    <3> QED
      BY <3>1, LogType
  <2>2. task \in Task
    BY <2>1 DEF NewTask, Task, Role
  <2>3. logs' \in [Process -> Seq(Log)]
    BY <1>18, Parties DEF HandleContested
  <2>4. tasks' \in [Process -> SUBSET Task]
    BY <1>18, <2>2, Parties DEF HandleContested, Add
  <2>5. dropped' \subseteq Role \X Case \X Cause
    BY <1>18, <2>1 DEF HandleContested, GiveUp, Role, Cause
  <2>6. faults' \in 0..MaxFaults
    BY <1>18, DefenceAssumption DEF HandleContested, Fault
  <2> QED
    BY <1>18, <2>3, <2>4, <2>5, <2>6 DEF HandleContested
<1>19. ASSUME NEW t \in tasks[Judge], SubmitVerdict(t)
      PROVE  Mem
  <2>1. t \in Task
    BY Parties
  <2> QED
    BY <1>19, <2>1, Parties, AttemptType DEF SubmitVerdict
<1> QED
  BY <1>2, <1>3, <1>5, <1>6, <1>7, <1>8, <1>9, <1>10, <1>11, <1>12, <1>13, <1>14, <1>15, <1>16,
     <1>17, <1>18, <1>19 DEF DefenceNext, DaemonStep, JudgeStep

\* The daemons beside the contracts keep every variable typed.
THEOREM DefenceTypeCorrect == DefenceSpec => []DefenceTypeOK
BY DefenceInitType, DefenceStepType, PTL DEF DefenceSpec

-----------------------------------------------------------------------------
(* What is sent.                                                           *)

\* Work in memory towards a defence holds the receipt of its case, towards a
\* verdict data the judge could read.
Receipted ==
    \A p \in Process : \A t \in tasks[p] :
        /\ t.role = "defend" => t.data.receipt = t.case
        /\ t.role = "rule" => t.data.version = 1

\* A receipt that names a case's parties and evidence is that case.
LEMMA ReceiptOfCase ==
    ASSUME NEW r \in Receipt, NEW c \in Case, ValidateReceiptForGrievance(c, r)
    PROVE  r = c
<1>1. r \in [accuser : Address, accused : Address, evidence : Evidence]
  BY DefenceAssumption
<1> QED
  BY <1>1 DEF Case, ValidateReceiptForGrievance

\* A step that only adds good work to the memory of p, and sends nothing.
LEMMA MemoryReceipted ==
    ASSUME DefenceTypeOK, Receipted, SentWithReceipt, NEW p \in Process, pool' \subseteq pool,
           \A q \in Process : q # p => tasks'[q] \subseteq tasks[q],
           \A u \in tasks'[p] : \/ u \in tasks[p]
                                \/ /\ u.role = "defend" => u.data.receipt = u.case
                                   /\ u.role = "rule" => u.data.version = 1
    PROVE  Receipted' /\ SentWithReceipt'
<1>1. Receipted'
  BY DEF Receipted
<1>2. SentWithReceipt'
  BY DEF SentWithReceipt
<1> QED
  BY <1>1, <1>2

\* A try of t: a task and a transaction with the role, the case and the data
\* of t.
LEMMA AttemptReceipted ==
    ASSUME DefenceTypeOK, Receipted, SentWithReceipt, NEW p \in Process, NEW t \in tasks[p],
           NEW s \in {"poll", "phase", "head", "send"}, Attempt(p, t, [t EXCEPT !.step = s])
    PROVE  Receipted' /\ SentWithReceipt'
<1> DEFINE again == [t EXCEPT !.step = s]
           tx == [role |-> t.role, case |-> t.case, data |-> t.data]
<1>1. t \in Task
  BY DEF DefenceTypeOK
<1>2. /\ t.role = "defend" => t.data.receipt = t.case
      /\ t.role = "rule" => t.data.version = 1
  BY DEF Receipted
<1>3. pool' \subseteq pool \cup {tx}
  BY DEF Attempt
<1>4. SentWithReceipt'
  BY <1>2, <1>3 DEF SentWithReceipt
<1>5. \A q \in Process : q # p => tasks'[q] = tasks[q]
  BY DEF Attempt, Retry, Remove, Replace, DefenceTypeOK
<1>6. tasks'[p] \subseteq tasks[p] \cup {[again EXCEPT !.tries = t.tries + 1]}
  BY DEF Attempt, Retry, Remove, Replace, DefenceTypeOK
<1>7. LET u == [again EXCEPT !.tries = t.tries + 1]
      IN u.role = t.role /\ u.case = t.case /\ u.data = t.data
  BY <1>1 DEF Task
<1>8. Receipted'
  BY <1>2, <1>5, <1>6, <1>7 DEF Receipted
<1> QED
  BY <1>4, <1>8

LEMMA ReceiptedStep ==
    ASSUME DefenceTypeOK, Receipted, SentWithReceipt, [DefenceNext]_defenceVars
    PROVE  Receipted' /\ SentWithReceipt'
<1> DEFINE Good == Receipted' /\ SentWithReceipt'
<1>1. ASSUME UNCHANGED tasks, pool' \subseteq pool
      PROVE  Good
  BY <1>1 DEF Receipted, SentWithReceipt
<1>2. CASE UNCHANGED defenceVars
  BY <1>1, <1>2 DEF defenceVars, daemonVars, processVars
<1>3. ASSUME NEW c \in Case, NEW bond \in Bonds, OpenCase(c, bond)
      PROVE  Good
  <2> DEFINE u == NewTask("resolve", c, "poll", Opaque)
  <2>1. CASE UNCHANGED tasks
    BY <1>1, <1>3, <2>1 DEF OpenCase
  <2>2. CASE c.accuser \in Daemons /\ Add(c.accuser, u)
    <3>1. u.role = "resolve"
      BY DEF NewTask
    <3>2. /\ \A q \in Process : q # c.accuser => tasks'[q] = tasks[q]
          /\ tasks'[c.accuser] = tasks[c.accuser] \cup {u}
      BY <2>2, Parties DEF Add, DefenceTypeOK
    <3> HIDE DEF u
    <3> QED
      BY <1>3, <2>2, <3>1, <3>2, Parties, MemoryReceipted DEF OpenCase
  <2> QED
    BY <1>3, <2>1, <2>2, DefenceAssumption DEF OpenCase
<1>4. ASSUME NEW tx \in pool, Mine(tx) \/ LoseTx(tx)
      PROVE  Good
  BY <1>1, <1>4 DEF Mine, LoseTx, Contest, processVars
<1>5. ASSUME NEW c \in Case, ByHand(c)
      PROVE  Good
  BY <1>1, <1>5 DEF ByHand, Contest, daemonVars, processVars
<1>6. CASE Block
  BY <1>1, <1>6 DEF Block, daemonVars, processVars
<1>7. ASSUME NEW p \in Process, Start(p)
      PROVE  Good
  BY <1>1, <1>7 DEF Start
<1>8. ASSUME NEW p \in Process, Crash(p)
      PROVE  Good
  <2>1. /\ \A q \in Process : q # p => tasks'[q] = tasks[q]
        /\ tasks'[p] = {} /\ pool' = pool
    BY <1>8 DEF Crash, DefenceTypeOK
  <2> QED
    BY <2>1, MemoryReceipted
<1>9. ASSUME NEW d \in Daemons, NEW r \in Receipt, Ingest(d, r)
      PROVE  Good
  BY <1>1, <1>9 DEF Ingest, processVars
<1>10. ASSUME NEW d \in Daemons, TakeLog(d)
       PROVE  Good
  <2> DEFINE c == Head(logs[d]).case
  <2>1. CASE UNCHANGED tasks
    BY <1>1, <1>10, <2>1 DEF TakeLog
  <2>2. ASSUME NEW r \in vault[d], ValidateReceiptForGrievance(c, r),
               Add(d, NewTask("defend", c, "head", BuildDefenseData(r)))
        PROVE  Good
    <3> DEFINE u == NewTask("defend", c, "head", BuildDefenseData(r))
    <3>1. d \in Process /\ c \in Case /\ r \in Receipt
      BY <1>10, Parties, LogType DEF TakeLog, DefenceTypeOK
    <3>2. u.role = "defend" /\ u.case = c /\ u.data.receipt = c
      BY <2>2, <3>1, ReceiptOfCase DEF NewTask, BuildDefenseData
    <3>3. /\ \A q \in Process : q # d => tasks'[q] = tasks[q]
          /\ tasks'[d] = tasks[d] \cup {u}
      BY <2>2, <3>1 DEF Add, DefenceTypeOK
    <3> HIDE DEF u
    <3> QED
      BY <1>10, <3>1, <3>2, <3>3, MemoryReceipted DEF TakeLog
  <2> QED
    BY <1>10, <2>1, <2>2 DEF TakeLog
<1>11. ASSUME NEW d \in Daemons, NEW t \in tasks[d], NEW s \in {"poll", "phase", "head", "send"},
              \/ UNCHANGED tasks \/ Remove(d, t) \/ Replace(d, t, [t EXCEPT !.step = s])
              \/ t.tries + 1 < 3 /\ Replace(d, t, [t EXCEPT !.tries = t.tries + 1]),
              UNCHANGED pool
       PROVE  Good
  <2>1. d \in Process /\ t \in Task
    BY Parties DEF DefenceTypeOK
  <2>2. \A q \in Process : q # d => tasks'[q] = tasks[q]
    BY <1>11, <2>1 DEF DefenceTypeOK, Remove, Replace
  <2>3. /\ t.role = "defend" => t.data.receipt = t.case
        /\ t.role = "rule" => t.data.version = 1
    BY <2>1 DEF Receipted
  <2>4. \A u \in {[t EXCEPT !.step = s], [t EXCEPT !.tries = t.tries + 1]} :
           u.role = t.role /\ u.case = t.case /\ u.data = t.data
    BY <2>1 DEF Task
  <2>5. tasks'[d] \subseteq tasks[d] \cup {[t EXCEPT !.step = s], [t EXCEPT !.tries = t.tries + 1]}
    BY <1>11, <2>1 DEF DefenceTypeOK, Remove, Replace
  <2> QED
    BY <1>11, <2>1, <2>2, <2>3, <2>4, <2>5, MemoryReceipted
<1>12. ASSUME NEW d \in Daemons, NEW t \in tasks[d],
              CheckDeadline(d, t) \/ WaitAndResolve(d, t) \/ ReadPhase(d, t)
       PROVE  Good
  BY <1>11, <1>12 DEF CheckDeadline, WaitAndResolve, ReadPhase, Retry
<1>13. ASSUME NEW d \in Daemons, NEW t \in tasks[d], SubmitDefend(d, t) \/ SubmitResolve(d, t)
       PROVE  Good
  <2>1. d \in Process /\ t \in Task
    BY Parties DEF DefenceTypeOK
  <2>2. t.step = "send" => t = [t EXCEPT !.step = "send"]
    BY <2>1 DEF Task
  <2> QED
    BY <1>13, <2>1, <2>2, AttemptReceipted DEF SubmitDefend, SubmitResolve
<1>14. CASE HandleContested
  <2> DEFINE lg == Head(logs[Judge])
             u == NewTask("rule", lg.case, "send", lg.data)
  <2>1. CASE UNCHANGED tasks
    BY <1>1, <1>14, <2>1 DEF HandleContested
  <2>2. CASE UnpackDefenseV1(lg.data) /\ Add(Judge, u)
    <3>1. u.role = "rule" /\ u.data.version = 1
      BY <2>2 DEF NewTask, UnpackDefenseV1
    <3>2. /\ \A q \in Process : q # Judge => tasks'[q] = tasks[q]
          /\ tasks'[Judge] = tasks[Judge] \cup {u}
      BY <2>2, Parties DEF Add, DefenceTypeOK
    <3> HIDE DEF u
    <3> QED
      BY <1>14, <3>1, <3>2, Parties, MemoryReceipted DEF HandleContested
  <2> QED
    BY <1>14, <2>1, <2>2 DEF HandleContested
<1>15. ASSUME NEW t \in tasks[Judge], SubmitVerdict(t)
       PROVE  Good
  <2>1. t \in Task
    BY Parties DEF DefenceTypeOK
  <2>2. t.step \in {"poll", "phase", "head", "send"} /\ [t EXCEPT !.step = t.step] = t
    BY <2>1 DEF Task
  <2>3. Attempt(Judge, t, [t EXCEPT !.step = t.step])
    BY <1>15, <2>2 DEF SubmitVerdict
  <2> QED
    BY <2>2, <2>3, Parties, AttemptReceipted
<1> QED
  BY <1>2, <1>3, <1>4, <1>5, <1>6, <1>7, <1>8, <1>9, <1>10, <1>12, <1>13, <1>14, <1>15
     DEF DefenceNext, DaemonStep, JudgeStep

\* Whatever is pending from a daemon was sent on the strength of a receipt of
\* that case, or of data the judge could read (handleReceiptFound,
\* handleContested), for any number of daemons, logs, crashes and failures.
THEOREM DaemonsSendReceipts == DefenceSpec => []SentWithReceipt
<1> DEFINE I == DefenceTypeOK /\ Receipted /\ SentWithReceipt
<1>1. DefenceInit => I
  BY DefenceInitType DEF DefenceInit, Receipted, SentWithReceipt
<1>2. I /\ [DefenceNext]_defenceVars => I'
  BY ReceiptedStep, DefenceStepType
<1> QED
  BY <1>1, <1>2, PTL DEF DefenceSpec

-----------------------------------------------------------------------------
(* Silence.  A case that is open is in the hands of the accused's daemon,  *)
(* or there is an excuse on record, however slow the daemon and however    *)
(* many calls fail.                                                        *)

Excuse(c) ==
    \/ Because("defend", c, {"down", "noReceipt", "mismatch", "noHead", "late", "final", "txLost"})
    \/ OutOfTries("defend", c)

\* Only running processes have work, and only about cases against their owner.
Addressed ==
    \A p \in Process :
        /\ p \notin running => logs[p] = <<>> /\ tasks[p] = {}
        /\ p # Judge => \A c \in UnreadCases(p) : c.accused = p
        /\ \A t \in tasks[p] : t.role = "defend" => t.case.accused = p

\* Every try but the first of a defence follows a failure.
Tried == \A p \in Process : \A t \in tasks[p] : t.role = "defend" => t.tries <= faults

OpenNow(c) == grievances[c].phase = "Open"

Answered == \A c \in Case : c.accused \in Defending /\ OpenNow(c) => InHand(c) \/ Excuse(c)

Duty == Addressed /\ Tried /\ Answered

\* What is on record stays there.
LEMMA ExcuseStands ==
    ASSUME faults \in Nat, faults' \in Nat, faults' >= faults, dropped \subseteq dropped',
           NEW c, Excuse(c)
    PROVE  Excuse(c)'
BY DEF Excuse, OutOfTries, Because

\* Nothing is opened, and no case slips out of hand.
LEMMA Carried ==
    ASSUME DefenceTypeOK, Duty, faults' \in Nat, faults' >= faults, dropped \subseteq dropped',
           \A c \in Case : OpenNow(c)' => OpenNow(c),
           \A c \in Case : OpenNow(c)' /\ c.accused \in Defending /\ InHand(c)
                              => InHand(c)' \/ Excuse(c)'
    PROVE  Answered'
<1>1. faults \in Nat
  BY DefenceAssumption DEF DefenceTypeOK
<1>2. \A c \in Case : Excuse(c) => Excuse(c)'
  BY <1>1, ExcuseStands
<1> QED
  BY <1>2 DEF Duty, Answered

\* What a subscription holds after a log came, and after one was read.
LEMMA UnreadNotify ==
    ASSUME DefenceTypeOK, NEW q, NEW c \in Case, NEW data \in Data, logs' = Notify(q, c, data),
           NEW p \in Process
    PROVE  UnreadCases(p)' = IF p = q /\ q \in running THEN UnreadCases(p) \cup {c}
                             ELSE UnreadCases(p)
<1> DEFINE l == [case |-> c, data |-> data]
<1>1. logs[p] \in Seq(Log) /\ l \in Log /\ l.case = c
  BY DEF DefenceTypeOK, Log
<1>2. CASE p = q /\ q \in running
  <2>1. logs'[p] = Append(logs[p], l)
    BY <1>2 DEF Notify, DefenceTypeOK
  <2>2. /\ Len(Append(logs[p], l)) = Len(logs[p]) + 1 /\ Len(logs[p]) \in Nat
        /\ \A i \in 1..Len(logs[p]) : Append(logs[p], l)[i] = logs[p][i]
        /\ Append(logs[p], l)[Len(logs[p]) + 1] = l
    BY <1>1
  <2> HIDE DEF l
  <2> QED
    BY <1>1, <1>2, <2>1, <2>2 DEF UnreadCases
<1>3. CASE ~(p = q /\ q \in running)
  BY <1>3 DEF Notify, DefenceTypeOK, UnreadCases
<1> QED
  BY <1>2, <1>3

LEMMA UnreadTake ==
    ASSUME DefenceTypeOK, NEW d \in Process, logs[d] # <<>>,
           logs' = [logs EXCEPT ![d] = Tail(@)], NEW p \in Process
    PROVE  IF p = d THEN UnreadCases(d) = UnreadCases(d)' \cup {Head(logs[d]).case}
           ELSE UnreadCases(p)' = UnreadCases(p)
<1>1. CASE p = d
  <2> DEFINE s == logs[d]
  <2>1. s \in Seq(Log) /\ logs'[d] = Tail(s)
    BY DEF DefenceTypeOK
  <2>2. /\ Len(s) \in Nat \ {0} /\ Len(Tail(s)) = Len(s) - 1 /\ Head(s) = s[1]
        /\ \A i \in 1..Len(s) - 1 : Tail(s)[i] = s[i + 1]
    BY <2>1
  <2>3. \A i \in 2..Len(s) : i - 1 \in 1..Len(s) - 1 /\ s[i] = Tail(s)[i - 1]
    BY <2>2
  <2>4. UnreadCases(d) = {s[i].case : i \in 1..Len(s)}
    BY DEF UnreadCases
  <2>5. UnreadCases(d)' = {Tail(s)[i].case : i \in 1..Len(s) - 1}
    BY <2>1, <2>2 DEF UnreadCases
  <2> HIDE DEF s
  <2>6. UnreadCases(d) \subseteq UnreadCases(d)' \cup {Head(s).case}
    BY <2>2, <2>3, <2>4, <2>5
  <2>7. UnreadCases(d)' \cup {Head(s).case} \subseteq UnreadCases(d)
    BY <2>2, <2>4, <2>5
  <2> QED
    BY <1>1, <2>6, <2>7 DEF s
<1>2. CASE p # d
  BY <1>2 DEF DefenceTypeOK, UnreadCases
<1> QED
  BY <1>1, <1>2

\* A verdict closes its case and touches no other.
LEMMA Verdict ==
    ASSUME DefenceTypeOK, NEW c \in Case,
           ResolveGrievance(c) \/ \E e \in BOOLEAN : AdjudicateGrievance(c, e)
    PROVE  /\ now' = now /\ ~OpenNow(c)'
           /\ \A x \in Case : x # c => grievances'[x] = grievances[x]
<1>1. PICK p \in {"ResolvedSlash", "ResolvedExonerate"} : grievances' = InPhaseNow(c, p)
  BY DEF ResolveGrievance, AdjudicateGrievance, FinalizeSlash, FinalizeExonerate
<1>2. now' = now
  BY DEF ResolveGrievance, AdjudicateGrievance, FinalizeSlash, FinalizeExonerate
<1> QED
  BY <1>1, <1>2 DEF InPhaseNow, OpenNow, DefenceTypeOK, TypeOK

\* The same processes, work and transactions: cases are in the same hands.
LEMMA SameHands ==
    ASSUME UNCHANGED processVars, pool' = pool, NEW c
    PROVE  InHand(c)' = InHand(c) /\ UnreadCases(c)' = UnreadCases(c)
BY DEF processVars, InHand, UnreadCases

LEMMA DutyInit == ASSUME DefenceInit PROVE Duty
<1>1. \A p \in Process : logs[p] = <<>> /\ tasks[p] = {} /\ UnreadCases(p) = {}
  BY DEF DefenceInit, UnreadCases
<1>2. \A c \in Case : ~OpenNow(c)
  BY DEF DefenceInit, OpenNow, NoGrievance
<1> QED
  BY <1>1, <1>2 DEF Duty, Addressed, Tried, Answered

LEMMA Counts ==
    ASSUME DefenceTypeOK
    PROVE  faults \in Nat /\ \A q \in Process : \A t \in tasks[q] : t.tries \in 0..2 /\ t.tries \in Nat
<1>1. faults \in Nat
  BY DefenceAssumption DEF DefenceTypeOK
<1>2. \A q \in Process : \A t \in tasks[q] : t \in Task
  BY DEF DefenceTypeOK
<1>3. \A t \in Task : t.tries \in 0..2 /\ t.tries \in Nat
  BY DEF Task
<1> QED
  BY <1>1, <1>2, <1>3

\* Work that is not about a defence disturbs nothing.
LEMMA OtherWork ==
    ASSUME DefenceTypeOK, Duty, UNCHANGED <<running, grievances>>,
           \A q \in Process : \A t : t.role = "defend" => (t \in tasks'[q] <=> t \in tasks[q]),
           \A q \in Process : q \notin running => logs'[q] = logs[q] /\ tasks'[q] \subseteq tasks[q],
           \A q \in Process : q # Judge => UnreadCases(q)' = UnreadCases(q),
           \A tx : tx.role = "defend" => (tx \in pool' <=> tx \in pool),
           faults' \in Nat, faults' >= faults, dropped \subseteq dropped'
    PROVE  Duty'
<1>1. Addressed'
  BY DEF Duty, Addressed
<1>2. Tried'
  <2>1. faults \in Nat /\ \A q \in Process : \A t \in tasks[q] : t.tries \in Nat
    BY Counts
  <2> QED
    BY <2>1 DEF Duty, Tried
<1>3. \A c \in Case : InHand(c)' <=> InHand(c)
  <2> SUFFICES ASSUME NEW c \in Case PROVE InHand(c)' <=> InHand(c)
    OBVIOUS
  <2>1. c.accused # Judge /\ (c.accused \in running => c.accused \in Process)
    BY Parties DEF DefenceTypeOK
  <2> QED
    BY <2>1 DEF InHand
<1>4. Answered'
  BY <1>3, Carried DEF OpenNow
<1> QED
  BY <1>1, <1>2, <1>4 DEF Duty

\* A step about a task of role resolve or rule.
LEMMA OtherTask ==
    ASSUME DefenceTypeOK, Duty, NEW p \in Process, NEW t \in tasks[p], t.role # "defend",
           \/ Remove(p, t)
           \/ \E s \in {"poll", "phase", "head", "send"} : Replace(p, t, [t EXCEPT !.step = s])
           \/ \E s \in {"poll", "phase", "head", "send"}, n \in 0..2 :
                 Replace(p, t, [[t EXCEPT !.step = s] EXCEPT !.tries = n]),
           pool' \subseteq pool \cup {[role |-> t.role, case |-> t.case, data |-> t.data]},
           pool \subseteq pool',
           UNCHANGED <<vars, running, logs>>,
           faults' \in Nat, faults' >= faults, dropped \subseteq dropped'
    PROVE  Duty'
<1>1. t \in Task /\ p \in running
  BY DEF DefenceTypeOK, Duty, Addressed
<1>2. \A q \in Process : q # p => tasks'[q] = tasks[q]
  BY DEF Remove, Replace, DefenceTypeOK
<1>3. PICK u : u.role = t.role /\ (tasks'[p] = tasks[p] \ {t} \/ tasks'[p] = (tasks[p] \ {t}) \cup {u})
  BY <1>1 DEF Remove, Replace, DefenceTypeOK, Task
<1>4. \A q \in Process : \A x : x.role = "defend" => (x \in tasks'[q] <=> x \in tasks[q])
  BY <1>2, <1>3
<1>5. \A q \in Process : UnreadCases(q)' = UnreadCases(q)
  BY DEF UnreadCases
<1>6. UNCHANGED <<now, grievances>>
  BY DEF vars, courtVars
<1>7. \A tx : tx.role = "defend" => (tx \in pool' <=> tx \in pool)
  OBVIOUS
<1> QED
  BY <1>1, <1>2, <1>4, <1>5, <1>6, <1>7, OtherWork

\* A try of a transaction that is no defence.
LEMMA OtherAttempt ==
    ASSUME DefenceTypeOK, Duty, NEW p \in Process, NEW t \in tasks[p], t.role # "defend",
           NEW s \in {"poll", "phase", "head", "send"}, Attempt(p, t, [t EXCEPT !.step = s]),
           UNCHANGED <<vars, running, logs>>
    PROVE  Duty'
<1> DEFINE again == [t EXCEPT !.step = s]
           tx == [role |-> t.role, case |-> t.case, data |-> t.data]
<1>1. t.tries \in 0..2 /\ faults \in Nat
  BY Counts
<1>2. pool' = pool \/ pool' = pool \cup {tx}
  BY DEF Attempt
<1>3. faults' = faults \/ faults' = faults + 1
  BY DEF Attempt, Fault
<1>4. Remove(p, t) \/ (t.tries + 1 < 3 /\ Replace(p, t, [again EXCEPT !.tries = t.tries + 1]))
  BY DEF Attempt, Retry
<1>5. t.tries + 1 < 3 => t.tries + 1 \in 0..2
  BY <1>1
<1>6. dropped \subseteq dropped'
  BY DEF Attempt, Retry, GiveUp
<1>7. faults' \in Nat /\ faults' >= faults
  BY <1>1, <1>3
<1>8. \/ Remove(p, t)
      \/ \E s1 \in {"poll", "phase", "head", "send"}, n \in 0..2 :
            Replace(p, t, [[t EXCEPT !.step = s1] EXCEPT !.tries = n])
  BY <1>4, <1>5
<1> HIDE DEF again
<1> QED
  BY <1>2, <1>6, <1>7, <1>8, OtherTask

LEMMA DutyOther ==
    ASSUME DefenceTypeOK, Duty,
           \/ \E d \in Daemons : \E t \in tasks[d] :
                 WaitAndResolve(d, t) \/ ReadPhase(d, t) \/ SubmitResolve(d, t)
           \/ \E t \in tasks[Judge] : SubmitVerdict(t)
    PROVE  Duty'
<1>1. faults \in Nat
  BY DefenceAssumption DEF DefenceTypeOK
<1>2. ASSUME NEW d \in Daemons, NEW t \in tasks[d], WaitAndResolve(d, t) \/ ReadPhase(d, t)
      PROVE  Duty'
  <2>1. d \in Process /\ t.tries \in 0..2 /\ t.role # "defend"
    BY <1>2, Parties, TaskType DEF DefenceTypeOK, WaitAndResolve, ReadPhase
  <2>2. UNCHANGED <<vars, running, logs, pool>>
    BY <1>2 DEF WaitAndResolve, ReadPhase
  <2>3. faults' \in Nat /\ faults' >= faults /\ dropped \subseteq dropped'
    BY <1>1, <1>2 DEF WaitAndResolve, ReadPhase, Retry, GiveUp, Fault
  <2>4. \/ Remove(d, t) \/ Replace(d, t, [t EXCEPT !.step = "phase"])
        \/ Replace(d, t, [t EXCEPT !.step = "send"])
        \/ t.tries + 1 < 3 /\ Replace(d, t, [t EXCEPT !.tries = t.tries + 1])
    BY <1>2 DEF WaitAndResolve, ReadPhase, Retry
  <2>5. t.tries + 1 < 3 => t.tries + 1 \in 0..2
    BY <2>1
  <2>6. t.step \in {"poll", "phase", "head", "send"} /\ [t EXCEPT !.step = t.step] = t
    BY <2>1 DEF DefenceTypeOK, Task
  <2>7. \/ Remove(d, t)
        \/ \E s \in {"poll", "phase", "head", "send"} : Replace(d, t, [t EXCEPT !.step = s])
        \/ \E s \in {"poll", "phase", "head", "send"}, n \in 0..2 :
              Replace(d, t, [[t EXCEPT !.step = s] EXCEPT !.tries = n])
    <3>1. CASE t.tries + 1 < 3 /\ Replace(d, t, [t EXCEPT !.tries = t.tries + 1])
      <4>1. Replace(d, t, [[t EXCEPT !.step = t.step] EXCEPT !.tries = t.tries + 1])
        BY <2>6, <3>1
      <4> QED
        BY <2>5, <2>6, <3>1, <4>1
    <3> QED
      BY <2>4, <3>1
  <2> QED
    BY <2>1, <2>2, <2>3, <2>7, OtherTask
<1>3. ASSUME NEW d \in Daemons, NEW t \in tasks[d], SubmitResolve(d, t)
      PROVE  Duty'
  BY <1>3, Parties, OtherAttempt DEF SubmitResolve
<1>4. ASSUME NEW t \in tasks[Judge], SubmitVerdict(t)
      PROVE  Duty'
  <2>1. t \in Task
    BY Parties DEF DefenceTypeOK
  <2>2. t.step \in {"poll", "phase", "head", "send"} /\ [t EXCEPT !.step = t.step] = t
    BY <2>1 DEF Task
  <2>3. Attempt(Judge, t, [t EXCEPT !.step = t.step])
    BY <1>4, <2>2 DEF SubmitVerdict
  <2> QED
    BY <1>4, <2>2, <2>3, Parties, OtherAttempt DEF SubmitVerdict
<1> QED
  BY <1>2, <1>3, <1>4

\* Steps that leave the processes and what is pending alone.
LEMMA DutyAside ==
    ASSUME DefenceTypeOK, Duty, UNCHANGED <<grievances, processVars, pool, faults, dropped>>
    PROVE  Duty'
<1>1. \A q \in Process : UnreadCases(q)' = UnreadCases(q)
  BY DEF UnreadCases, processVars
<1> QED
  BY <1>1, Counts, OtherWork DEF processVars

LEMMA DutyBlock ==
    ASSUME DefenceTypeOK, Duty, Block
    PROVE  Duty'
<1>1. UNCHANGED <<processVars, pool, faults, dropped, grievances>>
  BY DEF Block, NextBlock, Tick, daemonVars, courtVars
<1> QED
  BY <1>1, DutyAside

\* A new case comes to the accused's daemon, or finds it down.
LEMMA DutyOpen ==
    ASSUME DefenceTypeOK, Duty, NEW c \in Case, NEW bond \in Bonds, OpenCase(c, bond)
    PROVE  Duty'
<1> DEFINE u == NewTask("resolve", c, "poll", Opaque)
<1>1. /\ grievances[c].phase = "None"
      /\ \A x \in Case : x # c => grievances'[x] = grievances[x]
      /\ grievances'[c].phase = "Open"
  BY DEF OpenCase, OpenGrievance, DefenceTypeOK, TypeOK
<1>2. faults \in Nat
  BY DefenceAssumption DEF DefenceTypeOK
<1>3. /\ UNCHANGED <<running, pool, faults>> /\ dropped \subseteq dropped'
      /\ c.accused \notin running => <<"defend", c, "down">> \in dropped'
  BY DEF OpenCase
<1>4. \A q \in Process : UnreadCases(q)' = IF q = c.accused /\ c.accused \in running
                                           THEN UnreadCases(q) \cup {c} ELSE UnreadCases(q)
  BY Parties, UnreadNotify DEF OpenCase
<1>5. \A q \in Process : /\ tasks'[q] \subseteq tasks[q] \cup {u}
                         /\ tasks[q] \subseteq tasks'[q]
                         /\ q \notin running => tasks'[q] = tasks[q] /\ logs'[q] = logs[q]
  <2>1. UNCHANGED tasks \/ (c.accuser \in running /\ Add(c.accuser, u))
    BY DEF OpenCase
  <2>2. \A q \in Process : /\ tasks'[q] \subseteq tasks[q] \cup {u}
                           /\ tasks[q] \subseteq tasks'[q]
                           /\ q \notin running => tasks'[q] = tasks[q]
    BY <2>1 DEF Add, DefenceTypeOK
  <2>3. \A q \in Process : q \notin running => logs'[q] = logs[q]
    BY DEF OpenCase, Notify, DefenceTypeOK
  <2> QED
    BY <2>2, <2>3
<1>6. u.role = "resolve"
  BY DEF NewTask
<1> HIDE DEF u
<1>7. \A q \in Process : \A t : t.role = "defend" => (t \in tasks'[q] <=> t \in tasks[q])
  BY <1>5, <1>6
<1>8. Addressed'
  BY <1>3, <1>4, <1>5, <1>7 DEF Duty, Addressed
<1>9. Tried'
  BY <1>3, <1>7 DEF Duty, Tried
<1>10. \A x \in Case : x # c => (InHand(x)' <=> InHand(x))
  <2> SUFFICES ASSUME NEW x \in Case, x # c PROVE InHand(x)' <=> InHand(x)
    OBVIOUS
  <2>1. x.accused \in running => x.accused \in Process
    BY DEF DefenceTypeOK
  <2>2. CASE x.accused \in running
    <3>1. x \in UnreadCases(x.accused)' <=> x \in UnreadCases(x.accused)
      BY <1>4, <2>1, <2>2
    <3> QED
      BY <1>3, <1>7, <2>1, <2>2, <3>1 DEF InHand
  <2>3. CASE x.accused \notin running
    BY <1>3, <2>3 DEF InHand
  <2> QED
    BY <2>2, <2>3
<1>11. Answered'
  <2> SUFFICES ASSUME NEW x \in Case, x.accused \in Defending, OpenNow(x)'
               PROVE  InHand(x)' \/ Excuse(x)'
    BY DEF Answered
  <2>1. CASE x = c
    <3>1. CASE c.accused \in running
      <4>1. c.accused \in Process /\ c \in UnreadCases(c.accused)'
        BY <1>4, <3>1 DEF DefenceTypeOK
      <4> QED
        BY <1>3, <2>1, <3>1, <4>1 DEF InHand
    <3>2. CASE c.accused \notin running
      BY <1>3, <2>1, <3>2 DEF Excuse, Because
    <3> QED
      BY <3>1, <3>2
  <2>2. CASE x # c
    <3>1. OpenNow(x) /\ (Excuse(x) => Excuse(x)')
      BY <1>1, <1>2, <1>3, <2>2, ExcuseStands DEF OpenNow
    <3> QED
      BY <1>10, <2>2, <3>1 DEF Duty, Answered
  <2> QED
    BY <2>1, <2>2
<1> QED
  BY <1>8, <1>9, <1>11 DEF Duty

\* A case that is closed or answered is nobody's duty any more; others stay
\* with whoever has them, also when the transaction that did it is spent.
LEMMA DutyClose ==
    ASSUME DefenceTypeOK, Duty, NEW c \in Case, ~OpenNow(c)',
           \A x \in Case : x # c => grievances'[x] = grievances[x],
           UNCHANGED <<running, tasks, faults>>,
           \A q \in Process : q # Judge => UnreadCases(q)' = UnreadCases(q),
           \A q \in Process : q \notin running => logs'[q] = logs[q],
           pool' \subseteq pool, \A tx \in pool : tx.case # c => tx \in pool',
           dropped \subseteq dropped'
    PROVE  Duty'
<1>1. Addressed' /\ Tried'
  BY DEF Duty, Addressed, Tried
<1>2. ASSUME NEW x \in Case, x # c PROVE InHand(x)' <=> InHand(x)
  <2>1. x.accused # Judge /\ (x.accused \in running => x.accused \in Process)
    BY Parties DEF DefenceTypeOK
  <2> QED
    BY <1>2, <2>1 DEF InHand
<1>3. Answered'
  BY <1>2, Counts, Carried DEF OpenNow
<1> QED
  BY <1>1, <1>3 DEF Duty

LEMMA DutyContest ==
    ASSUME DefenceTypeOK, Duty, NEW c \in Case, NEW data \in Data, Contest(c, data),
           pool' \subseteq pool, \A tx \in pool : tx.case # c => tx \in pool'
    PROVE  Duty'
<1>1. /\ now' = now /\ ~OpenNow(c)'
      /\ \A x \in Case : x # c => grievances'[x] = grievances[x]
  BY DEF Contest, DefendGrievance, InPhaseNow, OpenNow, DefenceTypeOK, TypeOK
<1>2. \A q \in Process : q # Judge => UnreadCases(q)' = UnreadCases(q)
  BY UnreadNotify DEF Contest
<1>3. \A q \in Process : q \notin running => logs'[q] = logs[q]
  BY DEF Contest, Notify, DefenceTypeOK
<1>4. UNCHANGED <<running, tasks, faults>> /\ dropped \subseteq dropped'
  BY DEF Contest
<1> QED
  BY <1>1, <1>2, <1>3, <1>4, DutyClose

LEMMA DutyVerdict ==
    ASSUME DefenceTypeOK, Duty, NEW c \in Case,
           ResolveGrievance(c) \/ \E e \in BOOLEAN : AdjudicateGrievance(c, e),
           UNCHANGED <<processVars, faults, dropped>>,
           pool' \subseteq pool, \A tx \in pool : tx.case # c => tx \in pool'
    PROVE  Duty'
<1>1. \A q \in Process : UnreadCases(q)' = UnreadCases(q)
  BY DEF UnreadCases, processVars
<1> QED
  BY <1>1, Verdict, DutyClose DEF processVars

LEMMA DutyMine ==
    ASSUME DefenceTypeOK, Duty, NEW tx \in pool, Mine(tx)
    PROVE  Duty'
<1>1. tx.case \in Case /\ tx.data \in Data /\ VerdictExonerate \in BOOLEAN
  BY DefenceAssumption DEF DefenceTypeOK, Tx
<1>2. pool' = pool \ {tx}
  BY DEF Mine
<1>3. CASE Contest(tx.case, tx.data)
  BY <1>1, <1>2, <1>3, DutyContest
<1>4. CASE /\ ResolveGrievance(tx.case) \/ AdjudicateGrievance(tx.case, VerdictExonerate)
           /\ UNCHANGED <<processVars, vault, faults, crashes, dropped>>
  BY <1>1, <1>2, <1>4, DutyVerdict
<1>5. CASE /\ ~Acceptable(tx) /\ UNCHANGED vars
           /\ UNCHANGED <<processVars, vault, faults, crashes, dropped>>
  <2>1. UNCHANGED <<now, grievances>>
    BY <1>5 DEF vars, courtVars
  <2>2. \A q \in Process : UnreadCases(q)' = UnreadCases(q)
    BY <1>5 DEF UnreadCases, processVars
  <2>3. CASE tx.role = "defend"
    <3>1. ~OpenNow(tx.case)'
      BY <1>5, <2>1, <2>3 DEF Acceptable, OpenNow
    <3> QED
      BY <1>1, <1>2, <1>5, <2>1, <2>2, <3>1, DutyClose DEF processVars
  <2>4. CASE tx.role # "defend"
    BY <1>2, <1>5, <2>1, <2>2, <2>4, Counts, OtherWork DEF processVars
  <2> QED
    BY <2>3, <2>4
<1> QED
  BY <1>3, <1>4, <1>5 DEF Mine

LEMMA DutyLose ==
    ASSUME DefenceTypeOK, Duty, NEW tx \in pool, LoseTx(tx)
    PROVE  Duty'
<1>1. /\ UNCHANGED <<now, grievances, processVars>> /\ faults' = faults + 1
      /\ pool' = pool \ {tx} /\ dropped' = dropped \cup {<<tx.role, tx.case, "txLost">>}
  BY DEF LoseTx, Fault, GiveUp, vars, courtVars
<1>2. Addressed'
  BY <1>1 DEF Duty, Addressed, UnreadCases, processVars
<1>3. Tried'
  BY <1>1, Counts DEF Duty, Tried, processVars
<1>4. ASSUME NEW x \in Case
      PROVE  InHand(x) => InHand(x)' \/ Excuse(x)'
  BY <1>1 DEF InHand, UnreadCases, Excuse, Because, processVars
<1>5. Answered'
  BY <1>1, <1>4, Counts, Carried DEF OpenNow
<1> QED
  BY <1>2, <1>3, <1>5 DEF Duty

LEMMA DutyStart ==
    ASSUME DefenceTypeOK, Duty, NEW p \in Process, Start(p)
    PROVE  Duty'
<1>1. /\ p \notin running /\ running' = running \cup {p}
      /\ UNCHANGED <<now, grievances, logs, tasks, pool, faults, dropped>>
  BY DEF Start, vars, courtVars
<1>2. /\ tasks[p] = {} /\ logs[p] = <<>> /\ UnreadCases(p) = {}
      /\ \A q \in Process : UnreadCases(q)' = UnreadCases(q)
  BY <1>1 DEF Duty, Addressed, UnreadCases
<1>3. Addressed' /\ Tried'
  BY <1>1, <1>2 DEF Duty, Addressed, Tried
<1>4. ASSUME NEW c \in Case PROVE InHand(c)' <=> InHand(c)
  BY <1>1, <1>2 DEF InHand, UnreadCases
<1>5. Answered'
  BY <1>1, <1>4, Counts, Carried DEF OpenNow
<1> QED
  BY <1>3, <1>5 DEF Duty

\* Whatever a process had in hand when it ended is on record.
LEMMA DutyCrash ==
    ASSUME DefenceTypeOK, Duty, NEW p \in Process, Crash(p)
    PROVE  Duty'
<1>1. /\ running' = running \ {p} /\ UNCHANGED <<now, grievances, pool, faults>>
      /\ dropped' = dropped \cup Undone(p)
  BY DEF Crash, vars, courtVars
<1>2. /\ logs'[p] = <<>> /\ tasks'[p] = {}
      /\ \A q \in Process : q # p => logs'[q] = logs[q] /\ tasks'[q] = tasks[q]
  BY DEF Crash, DefenceTypeOK
<1>3. /\ UnreadCases(p)' = {}
      /\ \A q \in Process : q # p => UnreadCases(q)' = UnreadCases(q)
  BY <1>2 DEF UnreadCases
<1>4. Addressed' /\ Tried'
  BY <1>1, <1>2, <1>3 DEF Duty, Addressed, Tried
<1>6. ASSUME NEW c \in Case, InHand(c) PROVE InHand(c)' \/ Excuse(c)'
  <2>1. c.accused # Judge /\ (c.accused \in running => c.accused \in Process)
    BY Parties DEF DefenceTypeOK
  <2>2. CASE c.accused # p
    BY <1>1, <1>2, <1>3, <1>6, <2>1, <2>2 DEF InHand
  <2>3. CASE c.accused = p /\ (c \in UnreadCases(p) \/ \E t \in tasks[p] : t.role = "defend" /\ t.case = c)
    <3>1. <<"defend", c, "down">> \in Undone(p)
      BY <2>1, <2>3 DEF Undone
    <3> QED
      BY <1>1, <3>1 DEF Excuse, Because
  <2>4. CASE \E tx \in pool : tx.role = "defend" /\ tx.case = c
    BY <1>1, <2>4 DEF InHand
  <2> QED
    BY <1>6, <2>2, <2>3, <2>4 DEF InHand
<1>7. Answered'
  BY <1>1, <1>6, Counts, Carried DEF OpenNow
<1> QED
  BY <1>4, <1>7 DEF Duty

\* A log that is read becomes work, or an excuse.
LEMMA DutyTakeLog ==
    ASSUME DefenceTypeOK, Duty, NEW d \in Daemons, TakeLog(d)
    PROVE  Duty'
<1>0. PICK c : c = Head(logs[d]).case
  OBVIOUS
<1>1. /\ d \in Process /\ d # Judge /\ d \in running /\ logs[d] # <<>>
      /\ logs' = [logs EXCEPT ![d] = Tail(@)]
      /\ UNCHANGED <<now, grievances, running, pool, faults>>
  BY Parties DEF TakeLog, vars, courtVars
<1>2. /\ UnreadCases(d) = UnreadCases(d)' \cup {c}
      /\ \A q \in Process : q # d => UnreadCases(q)' = UnreadCases(q) /\ logs'[q] = logs[q]
  BY <1>0, <1>1, UnreadTake DEF DefenceTypeOK
<1>3. c.accused = d
  BY <1>1, <1>2 DEF Duty, Addressed
<1>4. /\ dropped \subseteq dropped'
      /\ \/ /\ \E u : u.role = "defend" /\ u.case = c /\ u.tries = 0 /\ Add(d, u)
         \/ /\ UNCHANGED tasks
            /\ d \notin Defending \/ Excuse(c)'
  <2>1. ASSUME NEW r \in vault[d], Add(d, NewTask("defend", c, "head", BuildDefenseData(r)))
        PROVE  \E u : u.role = "defend" /\ u.case = c /\ u.tries = 0 /\ Add(d, u)
    BY <2>1 DEF NewTask
  <2>2. ASSUME NEW cause \in {"noReceipt", "mismatch"}, GiveUp("defend", c, cause)
        PROVE  Excuse(c)'
    BY <2>2 DEF GiveUp, Excuse, Because
  <2> QED
    BY <1>0, <2>1, <2>2 DEF TakeLog, GiveUp
<1>5. /\ \A q \in Process : q # d => tasks'[q] = tasks[q]
      /\ tasks[d] \subseteq tasks'[d]
      /\ \A t \in tasks'[d] : t \in tasks[d] \/ (t.case = c /\ t.tries = 0)
  BY <1>1, <1>4 DEF Add, DefenceTypeOK
<1>6. Addressed'
  BY <1>1, <1>2, <1>3, <1>5 DEF Duty, Addressed
<1>7. Tried'
  BY <1>1, <1>5, Counts DEF Duty, Tried
<1>9. ASSUME NEW x \in Case, x.accused \in Defending, InHand(x) PROVE InHand(x)' \/ Excuse(x)'
  <2>1. x.accused \in running => x.accused \in Process
    BY DEF DefenceTypeOK
  <2>2. CASE x = c
    <3>1. CASE \E u : u.role = "defend" /\ u.case = c /\ Add(d, u)
      <4>1. \E u \in tasks'[d] : u.role = "defend" /\ u.case = c
        BY <1>1, <3>1 DEF Add, DefenceTypeOK
      <4> QED
        BY <1>1, <1>3, <2>2, <4>1 DEF InHand
    <3> QED
      BY <1>3, <1>4, <1>9, <2>2, <3>1
  <2>3. CASE x # c
    BY <1>1, <1>2, <1>5, <1>9, <2>1, <2>3 DEF InHand
  <2> QED
    BY <2>2, <2>3
<1>10. Answered'
  BY <1>1, <1>4, <1>9, Counts, Carried DEF OpenNow
<1> QED
  BY <1>6, <1>7, <1>10 DEF Duty

\* One piece of a daemon's defence: it stays in hand, or there is an excuse, or
\* its case is not open.
LEMMA DutyDefend ==
    ASSUME DefenceTypeOK, Duty, NEW d \in Daemons, NEW t \in tasks[d], t.role = "defend",
           UNCHANGED <<now, grievances, running, logs>>,
           \A q \in Process : q # d => tasks'[q] = tasks[q],
           tasks[d] \ {t} \subseteq tasks'[d],
           \A u \in tasks'[d] : u \in tasks[d] \/ (u.role = "defend" /\ u.case = t.case /\ u.tries <= faults'),
           pool \subseteq pool',
           \A tx \in pool' : tx \in pool \/ tx.case = t.case,
           faults' \in Nat, faults' >= faults, dropped \subseteq dropped',
           \/ \E u \in tasks'[d] : u.role = "defend" /\ u.case = t.case
           \/ \E tx \in pool' : tx.role = "defend" /\ tx.case = t.case
           \/ Excuse(t.case)' \/ ~OpenNow(t.case)
    PROVE  Duty'
<1>1. d \in Process /\ d # Judge /\ t.case.accused = d /\ d \in running
  BY Parties DEF Duty, Addressed
<1>2. \A q \in Process : UnreadCases(q)' = UnreadCases(q)
  BY DEF UnreadCases
<1>3. InHand(t.case)
  BY <1>1 DEF InHand
<1>4. Addressed'
  BY <1>1, <1>2 DEF Duty, Addressed
<1>5. Tried'
  BY <1>1, Counts DEF Duty, Tried
<1>7. ASSUME NEW x \in Case, OpenNow(x)', InHand(x) PROVE InHand(x)' \/ Excuse(x)'
  <2>1. x.accused \in running => x.accused \in Process
    BY DEF DefenceTypeOK
  <2>2. CASE x = t.case
    BY <1>1, <1>7, <2>2 DEF InHand, OpenNow
  <2>3. CASE x # t.case
    BY <1>1, <1>2, <1>7, <2>1, <2>3 DEF InHand
  <2> QED
    BY <2>2, <2>3
<1>8. Answered'
  BY <1>7, Carried DEF OpenNow
<1> QED
  BY <1>4, <1>5, <1>8 DEF Duty

LEMMA DutyCheckDeadline ==
    ASSUME DefenceTypeOK, Duty, NEW d \in Daemons, NEW t \in tasks[d], CheckDeadline(d, t)
    PROVE  Duty'
<1>1. d \in Process /\ t \in Task /\ t.role = "defend" /\ t.case \in Case /\ d \in running /\ t.case.accused = d
  BY Parties, TaskType DEF CheckDeadline, Duty, Addressed, DefenceTypeOK
<1>2. UNCHANGED <<now, grievances, running, logs, pool>> /\ dropped \subseteq dropped'
  BY DEF CheckDeadline, vars, courtVars, GiveUp
<1>3. faults' \in Nat /\ faults' >= faults /\ t.tries <= faults
  BY <1>1, Counts DEF CheckDeadline, Fault, Duty, Tried
<1> DEFINE u == [t EXCEPT !.step = "send"]
<1>4. u.role = "defend" /\ u.case = t.case /\ u.tries = t.tries
  BY <1>1 DEF Task
<1>5. t.tries \in Nat /\ faults \in Nat
  BY <1>1, Counts
<1>6. CASE Replace(d, t, u)
  <2>1. /\ \A q \in Process : q # d => tasks'[q] = tasks[q]
        /\ tasks'[d] = (tasks[d] \ {t}) \cup {u}
    BY <1>1, <1>6 DEF Replace, DefenceTypeOK
  <2> HIDE DEF u
  <2>2. \A x \in tasks'[d] : x \in tasks[d] \/ (x.role = "defend" /\ x.case = t.case /\ x.tries <= faults')
    BY <1>3, <1>4, <1>5, <2>1
  <2>3. \E x \in tasks'[d] : x.role = "defend" /\ x.case = t.case
    BY <1>4, <2>1
  <2> QED
    BY <1>1, <1>2, <1>3, <2>1, <2>2, <2>3, DutyDefend
<1>7. CASE Remove(d, t) /\ \E cause \in {"late", "noHead"} : GiveUp("defend", t.case, cause)
  <2>1. /\ \A q \in Process : q # d => tasks'[q] = tasks[q]
        /\ tasks'[d] = tasks[d] \ {t}
    BY <1>1, <1>7 DEF Remove, DefenceTypeOK
  <2>2. Excuse(t.case)'
    BY <1>7 DEF GiveUp, Excuse, Because
  <2> QED
    BY <1>1, <1>2, <1>3, <1>7, <2>1, <2>2, DutyDefend
<1> QED
  BY <1>6, <1>7 DEF CheckDeadline

\* A defence is given up when its case is not open, for a final error, or after
\* a third failure.
LEMMA DutySubmitDefend ==
    ASSUME DefenceTypeOK, Duty, NEW d \in Daemons, NEW t \in tasks[d], SubmitDefend(d, t)
    PROVE  Duty'
<1> DEFINE tx == [role |-> t.role, case |-> t.case, data |-> t.data]
           u == [t EXCEPT !.tries = t.tries + 1]
<1>1. d \in Process /\ t \in Task /\ t.role = "defend" /\ Attempt(d, t, t)
  BY Parties DEF SubmitDefend, DefenceTypeOK
<1>2. UNCHANGED <<now, grievances, running, logs>>
  BY DEF SubmitDefend, vars, courtVars
<1>3. t.tries \in Nat /\ faults \in Nat /\ t.tries <= faults
  BY <1>1, Counts DEF Duty, Tried
<1>4. tx.role = "defend" /\ tx.case = t.case /\ u.role = "defend" /\ u.case = t.case
  BY <1>1 DEF Task
<1>5. u.tries = t.tries + 1
  BY <1>1 DEF Task
<1>6. CASE ~Acceptable(tx) /\ Remove(d, t) /\ GiveUp(t.role, t.case, "refused") /\ UNCHANGED <<pool, faults>>
  <2>1. ~OpenNow(t.case)
    BY <1>4, <1>6 DEF Acceptable, OpenNow
  <2>2. /\ \A q \in Process : q # d => tasks'[q] = tasks[q]
        /\ tasks'[d] = tasks[d] \ {t}
    BY <1>1, <1>6 DEF Remove, DefenceTypeOK
  <2>3. dropped \subseteq dropped'
    BY <1>6 DEF GiveUp
  <2> QED
    BY <1>1, <1>2, <1>3, <1>6, <2>1, <2>2, <2>3, DutyDefend
<1>7. CASE Remove(d, t) /\ pool' = pool \cup {tx} /\ UNCHANGED <<dropped, faults>>
  <2>1. /\ \A q \in Process : q # d => tasks'[q] = tasks[q]
        /\ tasks'[d] = tasks[d] \ {t}
    BY <1>1, <1>7 DEF Remove, DefenceTypeOK
  <2> HIDE DEF tx
  <2> QED
    BY <1>1, <1>2, <1>3, <1>4, <1>7, <2>1, DutyDefend
<1>8. CASE Remove(d, t) /\ GiveUp(t.role, t.case, "final") /\ UNCHANGED <<pool, faults>>
  <2>1. Excuse(t.case)' /\ dropped \subseteq dropped'
    BY <1>1, <1>8 DEF GiveUp, Excuse, Because
  <2>2. /\ \A q \in Process : q # d => tasks'[q] = tasks[q]
        /\ tasks'[d] = tasks[d] \ {t}
    BY <1>1, <1>8 DEF Remove, DefenceTypeOK
  <2> QED
    BY <1>1, <1>2, <1>3, <1>8, <2>1, <2>2, DutyDefend
<1>9. CASE Fault /\ (pool' = pool \/ pool' = pool \cup {tx}) /\ Retry(d, t, t, "gaveUp")
  <2>1. faults' = faults + 1 /\ faults' \in Nat /\ faults' >= faults
    BY <1>3, <1>9 DEF Fault
  <2> HIDE DEF tx
  <2>2. pool \subseteq pool' /\ \A x \in pool' : x \in pool \/ x.case = t.case
    BY <1>4, <1>9
  <2>3. CASE t.tries + 1 < 3
    <3>1. Replace(d, t, u) /\ UNCHANGED dropped
      BY <1>9, <2>3 DEF Retry
    <3>2. /\ \A q \in Process : q # d => tasks'[q] = tasks[q]
          /\ tasks'[d] = (tasks[d] \ {t}) \cup {u}
      BY <1>1, <3>1 DEF Replace, DefenceTypeOK
    <3> HIDE DEF u
    <3>3. \A x \in tasks'[d] : x \in tasks[d] \/ (x.role = "defend" /\ x.case = t.case /\ x.tries <= faults')
      BY <1>3, <1>4, <1>5, <2>1, <3>2
    <3>4. \E x \in tasks'[d] : x.role = "defend" /\ x.case = t.case
      BY <1>4, <3>2
    <3> QED
      BY <1>1, <1>2, <2>1, <2>2, <3>1, <3>2, <3>3, <3>4, DutyDefend
  <2>4. CASE ~(t.tries + 1 < 3)
    <3>1. Remove(d, t) /\ GiveUp(t.role, t.case, "gaveUp")
      BY <1>9, <2>4 DEF Retry
    <3>2. faults' >= 3
      BY <1>3, <2>1, <2>4
    <3>3. Excuse(t.case)' /\ dropped \subseteq dropped'
      BY <1>1, <3>1, <3>2 DEF GiveUp, Excuse, OutOfTries, Because
    <3>4. /\ \A q \in Process : q # d => tasks'[q] = tasks[q]
          /\ tasks'[d] = tasks[d] \ {t}
      BY <1>1, <3>1 DEF Remove, DefenceTypeOK
    <3> QED
      BY <1>1, <1>2, <2>1, <2>2, <3>3, <3>4, DutyDefend
  <2> QED
    BY <2>3, <2>4
<1> QED
  BY <1>1, <1>6, <1>7, <1>8, <1>9 DEF Attempt

LEMMA DutyContested ==
    ASSUME DefenceTypeOK, Duty, HandleContested
    PROVE  Duty'
<1> DEFINE lg == Head(logs[Judge])
           u == NewTask("rule", lg.case, "send", lg.data)
<1>1. /\ Judge \in running /\ logs[Judge] # <<>> /\ logs' = [logs EXCEPT ![Judge] = Tail(@)]
      /\ UNCHANGED <<now, grievances, running, pool>> /\ dropped \subseteq dropped'
      /\ UNCHANGED tasks \/ Add(Judge, u)
  BY DEF HandleContested, vars, courtVars, GiveUp
<1>2. faults' \in Nat /\ faults' >= faults
  BY Counts DEF HandleContested, Fault
<1>3. u.role = "rule"
  BY DEF NewTask
<1> HIDE DEF u
<1>4. \A q \in Process : \A t : t.role = "defend" => (t \in tasks'[q] <=> t \in tasks[q])
  BY <1>1, <1>3, Parties DEF Add, DefenceTypeOK
<1>5. \A q \in Process : q # Judge => /\ UnreadCases(q)' = UnreadCases(q)
                                      /\ logs'[q] = logs[q] /\ tasks'[q] = tasks[q]
  BY <1>1, UnreadTake, Parties DEF Add, DefenceTypeOK
<1> QED
  BY <1>1, <1>2, <1>4, <1>5, OtherWork

\* An open case is slashed by nothing but a resolution after its deadline.
LEMMA SlashedLate ==
    ASSUME TypeOK, [Next]_vars, NEW c \in Case,
           grievances[c].phase = "Open", grievances'[c].phase = "ResolvedSlash"
    PROVE  now >= grievances[c].deadline
<1>1. PICK x \in Case : CourtCall(x)
  BY DEF Next, WireCourt, RegistryCall, Receive, NextBlock, vars, courtVars
<1>2. ASSUME NEW bond \in Bonds, OpenGrievance(x, bond) PROVE FALSE
  BY <1>2 DEF OpenGrievance, TypeOK
<1>3. ASSUME DefendGrievance(x) PROVE FALSE
  BY <1>3 DEF DefendGrievance, InPhaseNow, TypeOK
<1>4. ASSUME NEW e \in BOOLEAN, AdjudicateGrievance(x, e) PROVE FALSE
  <2>1. PICK p : grievances' = InPhaseNow(x, p) /\ grievances[x].phase = "Contested"
    BY <1>4 DEF AdjudicateGrievance, FinalizeSlash, FinalizeExonerate
  <2> QED
    BY <2>1 DEF InPhaseNow, TypeOK
<1>5. CASE ResolveGrievance(x)
  <2>1. grievances' = InPhaseNow(x, "ResolvedSlash") /\ now >= grievances[x].deadline
    BY <1>5 DEF ResolveGrievance, FinalizeSlash
  <2>2. x = c
    BY <2>1 DEF InPhaseNow, TypeOK
  <2> QED
    BY <2>1, <2>2
<1> QED
  BY <1>1, <1>2, <1>3, <1>4, <1>5 DEF CourtCall

LEMMA DutyStep ==
    ASSUME DefenceTypeOK, Duty, [DefenceNext]_defenceVars
    PROVE  Duty'
<1>1. CASE UNCHANGED defenceVars
  BY <1>1, DutyAside DEF defenceVars, daemonVars, vars, courtVars
<1>2. ASSUME NEW c \in Case, ByHand(c)
      PROVE  Duty'
  <2>1. CASE Contest(c, Opaque) /\ UNCHANGED pool
    BY <2>1, DutyContest, Parties
  <2> QED
    BY <1>2, <2>1, DutyVerdict DEF ByHand, daemonVars
<1>3. ASSUME NEW d \in Daemons, NEW r \in Receipt, Ingest(d, r)
      PROVE  Duty'
  BY <1>3, DutyAside DEF Ingest, vars, courtVars
<1> QED
  BY <1>1, <1>2, <1>3, DutyOpen, DutyMine, DutyLose, DutyBlock, DutyStart, DutyCrash, DutyTakeLog,
     DutyCheckDeadline, DutySubmitDefend, DutyOther, DutyContested
     DEF DefenceNext, DaemonStep, JudgeStep

\* A maker that auto-defends loses a case by silence only for a recorded cause
\* or because the deadline came while its daemon was still at it: for any
\* number of cases, daemons, crashes and failed calls, whatever the speed of
\* the daemons, no interleaving of logs, handlers, retries and blocks adds a
\* cause (watcher.go, defender.go).
THEOREM SilenceExplained == DefenceSpec => SilenceHasACause
<1> DEFINE I == DefenceTypeOK /\ Duty
           Explained == \A c \in Case :
               /\ c.accused \in Defending
               /\ grievances[c].phase = "Open" /\ grievances'[c].phase = "ResolvedSlash"
               => \/ Because("defend", c, {"down", "noReceipt", "mismatch", "noHead", "late", "final", "txLost"})
                  \/ OutOfTries("defend", c)
                  \/ InHand(c) /\ ~ChainTimeBeforeDeadline(c)
<1>1. DefenceInit => I
  BY DefenceInitType, DutyInit
<1>2. I /\ [DefenceNext]_defenceVars => I'
  BY DutyStep, DefenceStepType
<1>3. I /\ [DefenceNext]_defenceVars => [Explained]_defenceVars
  <2> SUFFICES ASSUME I, [DefenceNext]_defenceVars, NEW c \in Case, c.accused \in Defending,
                      grievances[c].phase = "Open", grievances'[c].phase = "ResolvedSlash"
               PROVE  Excuse(c) \/ (InHand(c) /\ ~ChainTimeBeforeDeadline(c))
    BY DEF Excuse
  <2>1. [Next]_vars
    BY CourtStep DEF defenceVars
  <2>2. now >= grievances[c].deadline
    BY <2>1, SlashedLate DEF DefenceTypeOK
  <2>3. ~ChainTimeBeforeDeadline(c)
    BY <2>2 DEF ChainTimeBeforeDeadline, DefenceTypeOK, TypeOK
  <2> QED
    BY <2>3 DEF Duty, Answered, OpenNow
<1> QED
  BY <1>1, <1>2, <1>3, PTL DEF DefenceSpec, SilenceHasACause

=============================================================================
