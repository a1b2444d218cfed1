------------------------ MODULE ScanScheduler_proofs ------------------------
(***************************************************************************)
(* The scan scheduler for any number of requests, tasks and faults: the    *)
(* progress shown is that of a scan at work, and the scan queue is left    *)
(* without a task that looks at it in three ways only.                     *)
(***************************************************************************)
EXTENDS ScanScheduler, TLAPS

LEMMA RecordTypes ==
  /\ NoTask \in TaskRecord /\ NoTask.pc = "free"
  /\ \A pc \in TaskPc : /\ Message(pc) \in TaskRecord
                        /\ Message(pc).pc = pc
  /\ Idle \in Handler
BY DEF NoTask, TaskRecord, TaskPc, Message, Idle, Handler

(***************************************************************************)
(* What one step does to the tasks                                         *)
(***************************************************************************)

\* Task t goes to pc and no other task moves.
Moves(t, pc) ==
  /\ task' \in [Task -> TaskRecord]
  /\ task'[t].pc = pc
  /\ \A s \in Task \ {t} : task'[s] = task[s]

LEMMA TaskMoves ==
  ASSUME TypeOK, NEW t \in Task
  PROVE  /\ \A pc \in TaskPc : TaskGoto(t, pc) => Moves(t, pc)
         /\ \A pc \in TaskPc :
              task' = [task EXCEPT ![t] = Message(pc)] => Moves(t, pc)
         /\ End(t) => Moves(t, "free")
<1>1. ASSUME NEW pc \in TaskPc, TaskGoto(t, pc) PROVE Moves(t, pc)
  BY <1>1 DEF TypeOK, TaskGoto, TaskRecord, Moves
<1>2. ASSUME NEW pc \in TaskPc, task' = [task EXCEPT ![t] = Message(pc)]
      PROVE  Moves(t, pc)
  BY <1>2, RecordTypes DEF TypeOK, Moves
<1>3. ASSUME End(t) PROVE Moves(t, "free")
  BY <1>3, RecordTypes DEF TypeOK, End, Moves
<1> QED BY <1>1, <1>2, <1>3

\* What a step of trigger_scan or execute_scan does, by the place of the task.
Trigger(t) ==
  \/ task[t].pc = "trigger" /\ debounce /\ Moves(t, "free") /\ UNCHANGED queue
  \/ task[t].pc = "ops" /\ ops /\ Moves(t, "push") /\ UNCHANGED queue
  \/ task[t].pc = "progress" /\ progress /\ Moves(t, "push") /\ UNCHANGED queue
  \/ task[t].pc = "push" /\ Moves(t, "free") /\ queue' = queue + 1
  \/ /\ task[t].pc \in {"trigger", "ops", "progress", "start"}
     /\ \E pc \in {"ops", "progress", "start", "scan"} : Moves(t, pc)
     /\ UNCHANGED queue

LEMMA TriggerSteps ==
  ASSUME TypeOK, NEW t \in Task,
         CheckDebounce(t) \/ CheckOps(t) \/ CheckProgress(t) \/ PushBack(t) \/ SendScan(t)
  PROVE  TypeOK' /\ UNCHANGED <<library, progress, died>> /\ Trigger(t)
<1>0. queue \in Nat /\ queue + 1 \in Nat
  BY DEF TypeOK
<1>1. CASE CheckDebounce(t)
  <2>1. Trigger(t) /\ task' \in [Task -> TaskRecord]
    BY <1>1, TaskMoves DEF CheckDebounce, keyVars, Trigger, TaskPc, Moves
  <2> QED BY <1>1, <2>1 DEF CheckDebounce, keyVars, TypeOK
<1>2. CASE CheckOps(t)
  <2>1. Trigger(t) /\ task' \in [Task -> TaskRecord]
    BY <1>2, TaskMoves DEF CheckOps, keyVars, Trigger, TaskPc, Moves
  <2> QED BY <1>2, <2>1 DEF CheckOps, keyVars, TypeOK
<1>3. CASE CheckProgress(t)
  <2>1. Trigger(t) /\ task' \in [Task -> TaskRecord]
    BY <1>3, TaskMoves DEF CheckProgress, keyVars, Trigger, TaskPc, Moves
  <2> QED BY <1>3, <2>1 DEF CheckProgress, keyVars, TypeOK
<1>4. CASE PushBack(t)
  <2>1. Trigger(t) /\ task' \in [Task -> TaskRecord]
    BY <1>4, TaskMoves DEF PushBack, Trigger, TaskPc, Moves
  <2> QED BY <1>0, <1>4, <2>1 DEF PushBack, TypeOK
<1>5. CASE SendScan(t)
  <2>1. Trigger(t) /\ task' \in [Task -> TaskRecord]
    BY <1>5, TaskMoves DEF SendScan, keyVars, Trigger, TaskPc, Moves
  <2> QED BY <1>5, <2>1 DEF SendScan, keyVars, TypeOK
<1> QED BY <1>1, <1>2, <1>3, <1>4, <1>5

\* Where execute_scan is when it begins, and before it ends.
AtWork == {"scan", "announce", "walk", "clear", "record", "pop", "forward"}

Scan(t) ==
  /\ task[t].pc \in AtWork
  /\ \/ task[t].pc = "scan" /\ ~ library /\ Moves(t, "free") /\ UNCHANGED queue
     \/ task[t].pc = "pop" /\ queue = 0 /\ Moves(t, "free") /\ UNCHANGED queue
     \/ /\ \E pc \in (AtWork \cup {"trigger"}) \ {"scan"} : Moves(t, pc)
        /\ queue' \in {queue, queue - 1}
  /\ \/ progress' = FALSE
     \/ progress' = progress /\ (Announced(t) => task'[t].pc \in {"walk", "clear"})
     \/ task'[t].pc = "walk"

LEMMA ScanSteps ==
  ASSUME TypeOK, NEW t \in Task,
         \/ Begin(t) \/ Announce(t) \/ SaveItems(t) \/ ClearProgress(t)
         \/ RecordCompletion(t) \/ PopQueue(t) \/ Forward(t) \/ Report(t) \/ Fail(t)
  PROVE  TypeOK' /\ UNCHANGED <<library, died>> /\ Scan(t)
<1>0. queue \in Nat /\ (queue > 0 => queue - 1 \in Nat) /\ (~ queue > 0 => queue = 0)
  BY DEF TypeOK
<1>1. CASE Begin(t)
  <2>1. Scan(t) /\ task' \in [Task -> TaskRecord]
    BY <1>1, TaskMoves DEF Begin, keyVars, Scan, TaskPc, Moves, AtWork, Announced
  <2> QED BY <1>1, <2>1 DEF Begin, keyVars, TypeOK
<1>2. CASE Announce(t)
  <2>1. Scan(t) /\ task' \in [Task -> TaskRecord]
    BY <1>2, TaskMoves DEF Announce, Scan, TaskPc, Moves, AtWork, Announced
  <2> QED BY <1>2, <2>1 DEF Announce, TypeOK
<1>3. CASE SaveItems(t)
  <2>1. Scan(t) /\ task' \in [Task -> TaskRecord]
    BY <1>3, TaskMoves DEF SaveItems, keyVars, Scan, TaskPc, Moves, AtWork, Announced
  <2> QED BY <1>3, <2>1 DEF SaveItems, keyVars, TypeOK
<1>4. CASE ClearProgress(t)
  <2>1. Scan(t) /\ task' \in [Task -> TaskRecord]
    BY <1>4, TaskMoves DEF ClearProgress, Scan, TaskPc, Moves, AtWork, Announced
  <2> QED BY <1>4, <2>1 DEF ClearProgress, TypeOK
<1>5. CASE RecordCompletion(t)
  <2>1. Scan(t) /\ task' \in [Task -> TaskRecord]
    BY <1>5, TaskMoves DEF RecordCompletion, keyVars, Scan, TaskPc, Moves, AtWork, Announced
  <2> QED BY <1>5, <2>1 DEF RecordCompletion, keyVars, TypeOK
<1>6. CASE PopQueue(t)
  <2>1. CASE queue > 0
    <3>1. Scan(t) /\ task' \in [Task -> TaskRecord]
      BY <1>6, <2>1, TaskMoves DEF PopQueue, Scan, TaskPc, Moves, AtWork, Announced
    <3> QED BY <1>0, <1>6, <2>1, <3>1 DEF PopQueue, TypeOK
  <2>2. CASE ~ queue > 0
    <3>1. Scan(t) /\ task' \in [Task -> TaskRecord]
      BY <1>0, <1>6, <2>2, TaskMoves DEF PopQueue, Scan, TaskPc, Moves, AtWork, Announced
    <3> QED BY <1>6, <2>2, <3>1 DEF PopQueue, TypeOK
  <2> QED BY <2>1, <2>2
<1>7. CASE Forward(t)
  <2>1. Scan(t) /\ task' \in [Task -> TaskRecord]
    BY <1>7, TaskMoves DEF Forward, keyVars, Scan, TaskPc, Moves, AtWork, Announced
  <2> QED BY <1>7, <2>1 DEF Forward, keyVars, TypeOK
<1>8. CASE Report(t)
  <2>1. Moves(t, "walk")
    BY <1>8 DEF Report, Moves, TypeOK
  <2>2. Scan(t)
    BY <1>8, <2>1 DEF Report, Scan, AtWork, Announced, Moves
  <2> QED BY <1>8, <2>2 DEF Report, TypeOK
<1>9. CASE Fail(t)
  <2>1. Moves(t, "clear") /\ UNCHANGED keyVars
    BY <1>9 DEF Fail, Moves, TypeOK, TaskRecord, TaskPc
  <2>2. Scan(t) /\ task' \in [Task -> TaskRecord]
    BY <1>9, <2>1 DEF Fail, keyVars, Scan, AtWork, Announced, Moves
  <2>3. faults' \in 0..MaxFaults
    BY <1>9, FaultAssumption DEF Fail, TypeOK
  <2> QED BY <1>9, <2>2, <2>3 DEF Fail, keyVars, TypeOK
<1> QED BY <1>1, <1>2, <1>3, <1>4, <1>5, <1>6, <1>7, <1>8, <1>9

(***************************************************************************)
(* Requests and the other actors                                           *)
(***************************************************************************)

LEMMA RequestSteps ==
  ASSUME TypeOK, NEW r \in Request,
         ScanRequest(r) \/ RefreshImportItems(r) \/ RequestStep(r) \/ RequestFails(r)
  PROVE  /\ TypeOK' /\ UNCHANGED <<library, progress, died>>
         /\ \/ queue' = queue + 1 /\ UNCHANGED task
            \/ UNCHANGED queue /\ (UNCHANGED task \/ \E t \in Task : Moves(t, "scan"))
<1>0. queue + 1 \in Nat /\ req[r] \in Handler
  BY DEF TypeOK
<1>1. ASSUME NEW pc \in {"idle", "progress", "ops", "push", "start"}, Goto(r, pc)
      PROVE  req' \in [Request -> Handler]
  BY <1>1 DEF TypeOK, Goto, Handler
<1>2. ASSUME req' = [req EXCEPT ![r] = Idle] PROVE req' \in [Request -> Handler]
  BY <1>2, RecordTypes DEF TypeOK
<1>3. CASE ScanRequest(r)
  BY <1>1, <1>3 DEF ScanRequest, keyVars, TypeOK
<1>4. CASE RefreshImportItems(r)
  BY <1>1, <1>4 DEF RefreshImportItems, keyVars, TypeOK
<1>5. CASE ReadProgress(r)
  <2>1. [pc |-> "ops", busy |-> progress] \in Handler
    BY DEF TypeOK, Handler
  <2>2. req' \in [Request -> Handler]
    BY <1>5, <2>1 DEF ReadProgress, TypeOK
  <2> QED BY <1>5, <2>2 DEF ReadProgress, keyVars, TypeOK
<1>6. CASE ReadOps(r)
  BY <1>1, <1>6 DEF ReadOps, keyVars, TypeOK
<1>7. CASE PushRequest(r)
  BY <1>0, <1>2, <1>7 DEF PushRequest, TypeOK
<1>8. CASE StartScan(r)
  <2>1. PICK t \in Task : task' = [task EXCEPT ![t] = Message("scan")]
    BY <1>8 DEF StartScan
  <2>2. Moves(t, "scan")
    BY <2>1, TaskMoves DEF TaskPc
  <2> QED BY <1>2, <1>8, <2>2 DEF StartScan, keyVars, TypeOK, Moves
<1>9. CASE RequestFails(r)
  <2>1. faults' \in 0..MaxFaults
    BY <1>9, FaultAssumption DEF RequestFails, TypeOK
  <2> QED BY <1>2, <1>9, <2>1 DEF RequestFails, keyVars, TypeOK
<1> QED BY <1>3, <1>4, <1>5, <1>6, <1>7, <1>8, <1>9 DEF RequestStep

LEMMA DeathStep ==
  ASSUME TypeOK, NEW t \in Task, Die(t)
  PROVE  TypeOK' /\ died'
<1>1. task' \in [Task -> TaskRecord]
  BY TaskMoves DEF Die, Moves
<1>2. faults' \in 0..MaxFaults
  BY FaultAssumption DEF Die, TypeOK
<1> QED BY <1>1, <1>2 DEF Die, keyVars, TypeOK

LEMMA OtherSteps ==
  ASSUME TypeOK,
         \/ BlockScans \/ UnblockScans \/ ChangeDetected \/ DebounceExpires
         \/ DeleteLibrary \/ UNCHANGED vars
  PROVE  TypeOK' /\ UNCHANGED <<progress, queue, task, died>>
BY DEF BlockScans, UnblockScans, ChangeDetected, DebounceExpires, DeleteLibrary,
       vars, keyVars, TypeOK

(***************************************************************************)
(* The three facts of the invariant                                        *)
(***************************************************************************)

IInv == TypeOK /\ ProgressHonest

LEMMA InvInit == Init => IInv
<1> SUFFICES ASSUME Init PROVE IInv
  OBVIOUS
<1>1. req \in [Request -> Handler] /\ task \in [Task -> TaskRecord]
  BY RecordTypes DEF Init
<1>2. faults \in 0..MaxFaults
  BY FaultAssumption DEF Init
<1> QED BY <1>1, <1>2 DEF Init, IInv, TypeOK, ProgressHonest

\* A step is one of these, as far as the invariant goes.
LEMMA NextCases ==
  ASSUME TypeOK, [Next]_vars
  PROVE  \/ \E t \in Task :
              \/ CheckDebounce(t) \/ CheckOps(t) \/ CheckProgress(t) \/ PushBack(t)
              \/ SendScan(t)
         \/ \E t \in Task :
              \/ Begin(t) \/ Announce(t) \/ SaveItems(t) \/ ClearProgress(t)
              \/ RecordCompletion(t) \/ PopQueue(t) \/ Forward(t) \/ Report(t) \/ Fail(t)
         \/ \E r \in Request :
              ScanRequest(r) \/ RefreshImportItems(r) \/ RequestStep(r) \/ RequestFails(r)
         \/ \E t \in Task : Die(t)
         \/ \/ BlockScans \/ UnblockScans \/ ChangeDetected \/ DebounceExpires
            \/ DeleteLibrary \/ UNCHANGED vars
BY Zenon DEF Next, TaskStep

LEMMA InvStep == IInv /\ [Next]_vars => IInv'
<1> SUFFICES ASSUME IInv, [Next]_vars PROVE IInv'
  OBVIOUS
<1>0. TypeOK /\ ProgressHonest
  BY DEF IInv
<1>1. ASSUME NEW t \in Task,
             CheckDebounce(t) \/ CheckOps(t) \/ CheckProgress(t) \/ PushBack(t) \/ SendScan(t)
      PROVE  IInv'
  <2>1. TypeOK' /\ UNCHANGED <<library, progress, died>> /\ Trigger(t)
    BY <1>0, <1>1, TriggerSteps
  <2>2. ~ Announced(t) /\ \A s \in Task \ {t} : Announced(s)' <=> Announced(s)
    BY <2>1 DEF Trigger, Moves, Announced
  <2> QED BY <1>0, <2>1, <2>2 DEF IInv, ProgressHonest
<1>2. ASSUME NEW t \in Task,
             \/ Begin(t) \/ Announce(t) \/ SaveItems(t) \/ ClearProgress(t)
             \/ RecordCompletion(t) \/ PopQueue(t) \/ Forward(t) \/ Report(t) \/ Fail(t)
      PROVE  IInv'
  <2>1. TypeOK' /\ UNCHANGED <<library, died>> /\ Scan(t)
    BY <1>0, <1>2, ScanSteps
  <2>2. \A s \in Task \ {t} : Announced(s)' <=> Announced(s)
    BY <2>1 DEF Scan, Moves, Announced
  <2>3. CASE progress' = FALSE
    BY <2>1, <2>3 DEF IInv, ProgressHonest
  <2>4. CASE progress' = progress /\ (Announced(t) => task'[t].pc \in {"walk", "clear"})
    <3>1. Announced(t) => Announced(t)'
      BY <2>4 DEF Announced
    <3> QED BY <1>0, <2>1, <2>2, <2>4, <3>1 DEF IInv, ProgressHonest
  <2>5. CASE task'[t].pc = "walk"
    <3>1. Announced(t)'
      BY <2>5 DEF Announced
    <3> QED BY <2>1, <3>1 DEF IInv, ProgressHonest
  <2> QED BY <2>1, <2>3, <2>4, <2>5 DEF Scan
<1>3. ASSUME NEW r \in Request,
             ScanRequest(r) \/ RefreshImportItems(r) \/ RequestStep(r) \/ RequestFails(r)
      PROVE  IInv'
  <2>1. TypeOK' /\ UNCHANGED <<library, progress, died>>
    BY <1>0, <1>3, RequestSteps
  <2>2. CASE UNCHANGED task
    BY <1>0, <2>1, <2>2 DEF IInv, ProgressHonest, Announced
  <2>3. ASSUME NEW t \in Task, StartScan(r), task[t] = NoTask, Moves(t, "scan") PROVE IInv'
    <3>1. ~ Announced(t) /\ \A s \in Task \ {t} : Announced(s)' <=> Announced(s)
      BY <2>3, RecordTypes DEF Moves, Announced
    <3> QED BY <1>0, <2>1, <3>1 DEF IInv, ProgressHonest
  <2>4. CASE StartScan(r)
    <3>1. PICK t \in Task : task[t] = NoTask /\ task' = [task EXCEPT ![t] = Message("scan")]
      BY <2>4 DEF StartScan
    <3>2. Moves(t, "scan")
      BY <1>0, <3>1, TaskMoves DEF TaskPc
    <3> QED BY <2>3, <2>4, <3>1, <3>2
  <2> QED BY <1>3, <2>2, <2>4
       DEF ScanRequest, RefreshImportItems, RequestStep, RequestFails, ReadProgress,
           ReadOps, PushRequest
<1>4. ASSUME NEW t \in Task, Die(t) PROVE IInv'
  BY <1>0, <1>4, DeathStep DEF IInv, ProgressHonest
<1>5. CASE \/ BlockScans \/ UnblockScans \/ ChangeDetected \/ DebounceExpires
           \/ DeleteLibrary \/ UNCHANGED vars
  BY <1>0, <1>5, OtherSteps DEF IInv, ProgressHonest, Announced
<1> QED BY <1>0, <1>1, <1>2, <1>3, <1>4, <1>5, NextCases

\* The inductive invariant: types, and that the progress is a scan's.
THEOREM Invariance == Spec => []IInv
<1> QED BY InvInit, InvStep, PTL DEF Spec

\* TypeOK, for any numbers of requests, tasks and faults.
THEOREM TypeCorrect == Spec => []TypeOK
<1>1. IInv => TypeOK
  BY DEF IInv
<1> QED BY <1>1, Invariance, PTL

\* ProgressHonest: execute_scan clears its progress on every way out, however
\* many scans overlap.
THEOREM ProgressCorrect == Spec => []ProgressHonest
<1>1. IInv => ProgressHonest
  BY DEF IInv
<1> QED BY <1>1, Invariance, PTL

(***************************************************************************)
(* The scan queue                                                          *)
(***************************************************************************)

\* The ways a step may leave the queue to nobody.
LeftBehind ==
  \/ \E t \in Task : \/ task[t].pc = "trigger" /\ debounce
                     \/ task[t].pc = "ops" /\ ops
  \/ queue' = queue + 1

\* Who yields to a running scan leaves that scan behind; its progress says so.
LEMMA RunnerStays ==
  ASSUME IInv, NEW t \in Task, ~ died, progress, ~ Announced(t),
         NEW pc, Moves(t, pc)
  PROVE  \E s \in Task : Runner(s)'
<1>1. PICK s \in Task : Announced(s)
  BY DEF IInv, ProgressHonest
<1>2. s # t /\ task'[s] = task[s]
  BY <1>1 DEF Moves
<1> QED BY <1>1, <1>2 DEF Announced, Runner

LEMMA HandedOn ==
  ASSUME IInv, [Next]_vars, ~ Stranded, Stranded', library, ~ died'
  PROVE  LeftBehind
<1>0. TypeOK /\ queue \in Nat
  BY DEF IInv, TypeOK
<1>1. ASSUME NEW t \in Task,
             CheckDebounce(t) \/ CheckOps(t) \/ CheckProgress(t) \/ PushBack(t) \/ SendScan(t)
      PROVE  LeftBehind
  <2>1. UNCHANGED died /\ Trigger(t)
    BY <1>0, <1>1, TriggerSteps
  <2>2. ~ (task[t].pc = "progress" /\ progress /\ Moves(t, "push"))
    BY <2>1, RunnerStays DEF Stranded, Announced
  <2>3. \A pc \in {"ops", "progress", "start", "scan"} : ~ Moves(t, pc)
    BY DEF Stranded, Runner, Moves
  <2> QED BY <2>1, <2>2, <2>3 DEF Trigger, LeftBehind
<1>2. ASSUME NEW t \in Task,
             \/ Begin(t) \/ Announce(t) \/ SaveItems(t) \/ ClearProgress(t)
             \/ RecordCompletion(t) \/ PopQueue(t) \/ Forward(t) \/ Report(t) \/ Fail(t)
      PROVE  FALSE
  <2>1. Scan(t)
    BY <1>0, <1>2, ScanSteps
  <2>2. \A pc \in (AtWork \cup {"trigger"}) \ {"scan"} : ~ Moves(t, pc)
    BY DEF Stranded, Runner, Moves, AtWork
  <2>3. ~ (queue = 0 /\ UNCHANGED queue)
    BY DEF Stranded
  <2> QED BY <2>1, <2>2, <2>3 DEF Scan
<1>3. ASSUME NEW r \in Request,
             ScanRequest(r) \/ RefreshImportItems(r) \/ RequestStep(r) \/ RequestFails(r)
      PROVE  LeftBehind
  <2>1. \/ queue' = queue + 1
        \/ UNCHANGED queue /\ (UNCHANGED task \/ \E t \in Task : Moves(t, "scan"))
    BY <1>0, <1>3, RequestSteps
  <2>2. \A t \in Task : ~ Moves(t, "scan")
    BY DEF Stranded, Runner, Moves
  <2>3. ~ (UNCHANGED queue /\ UNCHANGED task)
    BY DEF Stranded, Runner
  <2> QED BY <2>1, <2>2, <2>3 DEF LeftBehind
<1>4. ASSUME NEW t \in Task, Die(t) PROVE FALSE
  BY <1>0, <1>4, DeathStep
<1>5. CASE \/ BlockScans \/ UnblockScans \/ ChangeDetected \/ DebounceExpires
           \/ DeleteLibrary \/ UNCHANGED vars
  BY <1>0, <1>5, OtherSteps DEF Stranded, Runner
<1> QED BY <1>0, <1>1, <1>2, <1>3, <1>4, <1>5, NextCases

\* QueueHandedOn: a queued scan is left to nobody only by the debounce key, a
\* blocking operation or a late push, whatever overlaps and fails.
THEOREM QueueCorrect == Spec => QueueHandedOn
<1>1. IInv /\ [Next]_vars =>
        [~ Stranded /\ Stranded' /\ library /\ ~ died' => LeftBehind]_vars
  BY HandedOn
<1> QED BY <1>1, Invariance, PTL DEF Spec, QueueHandedOn, LeftBehind
=============================================================================
