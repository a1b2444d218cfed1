--------------------------- MODULE ScanScheduler ---------------------------
(***************************************************************************)
(* Who starts a scan of one library's import folder, and when.             *)
(*                                                                         *)
(* A manual request, a trigger task and the rescan after an audio          *)
(* operation each read some of four Redis keys (the scan queue, the scan   *)
(* progress, the set of blocking operations, the debounce key), one        *)
(* command at a time, and then either send an execute_scan task or push a  *)
(* request on the scan queue.  The queue is looked at by a scan that ends  *)
(* and by nobody else.  A message may wait in the broker for any time.     *)
(***************************************************************************)
EXTENDS Naturals, FiniteSets

CONSTANTS
  Request,    \* manual requests and audio operations at work at the same time
  Task,       \* messages and tasks of the scan module that may exist at once
  MaxFaults   \* bound on exceptions and dead processes

ASSUME FaultAssumption == MaxFaults \in Nat

VARIABLES
  library,    \* the library's row exists
  progress,   \* the hash scan:progress:{library} is there; it says "scanning"
              \* or "extracting_metadata" as long as it is
  queue,      \* length of the list scan:queue:{library}
  ops,        \* the operation-lock set is not empty
  debounce,   \* the debounce key is set
  req,        \* requests
  task,       \* messages and tasks
  faults,     \* exceptions and dead processes so far
  died        \* history: a task died, or its exception handler raised

vars == <<library, progress, queue, ops, debounce, req, task, faults, died>>

keyVars == <<progress, queue, ops, debounce>>

(***************************************************************************)
(* trigger, ops, progress, push, start: trigger_scan, sent and running     *)
(* scan: execute_scan, sent;  announce, walk, clear, record, pop, forward: *)
(* running.  "forward" holds the request it has popped.                    *)
(***************************************************************************)
TaskPc == {"free", "trigger", "ops", "progress", "push", "start",
           "scan", "announce", "walk", "clear", "record", "pop", "forward"}

TaskRecord == [pc : TaskPc, failed : BOOLEAN]

NoTask == [pc |-> "free", failed |-> FALSE]
Message(pc) == [NoTask EXCEPT !.pc = pc]

Handler == [pc : {"idle", "progress", "ops", "push", "start"}, busy : BOOLEAN]

Idle == [pc |-> "idle", busy |-> FALSE]

Init ==
  /\ library = TRUE
  /\ progress = FALSE
  /\ queue = 0
  /\ ops = FALSE
  /\ debounce = FALSE
  /\ req = [r \in Request |-> Idle]
  /\ task = [t \in Task |-> NoTask]
  /\ faults = 0
  /\ died = FALSE

Goto(r, pc) == req' = [req EXCEPT ![r].pc = pc]
TaskGoto(t, pc) == task' = [task EXCEPT ![t].pc = pc]
End(t) == task' = [task EXCEPT ![t] = NoTask]

---------------------------------------------------------------------------
(***************************************************************************)
(* trigger_manual_scan, and _refresh_import_items                          *)
(***************************************************************************)

\* LLEN; a request that finds one queued is answered 409.
ScanRequest(r) ==
  /\ req[r].pc = "idle" /\ library /\ queue = 0
  /\ Goto(r, "progress")
  /\ UNCHANGED <<library, keyVars, task, faults, died>>

ReadProgress(r) ==
  /\ req[r].pc = "progress"
  /\ req' = [req EXCEPT ![r] = [pc |-> "ops", busy |-> progress]]
  /\ UNCHANGED <<library, keyVars, task, faults, died>>

ReadOps(r) ==
  /\ req[r].pc = "ops"
  /\ Goto(r, IF req[r].busy \/ ops THEN "push" ELSE "start")
  /\ UNCHANGED <<library, keyVars, task, faults, died>>

PushRequest(r) ==
  /\ req[r].pc = "push"
  /\ queue' = queue + 1
  /\ req' = [req EXCEPT ![r] = Idle]
  /\ UNCHANGED <<library, progress, ops, debounce, task, faults, died>>

\* An audio operation rescans the folder whatever else goes on.
RefreshImportItems(r) ==
  /\ req[r].pc = "idle" /\ library
  /\ Goto(r, "start")
  /\ UNCHANGED <<library, keyVars, task, faults, died>>

StartScan(r) ==
  /\ req[r].pc = "start"
  /\ \E t \in Task : task[t] = NoTask /\ task' = [task EXCEPT ![t] = Message("scan")]
  /\ req' = [req EXCEPT ![r] = Idle]
  /\ UNCHANGED <<library, keyVars, faults, died>>

\* The web process or the audio task dies, or its command fails.
RequestFails(r) ==
  /\ req[r].pc # "idle" /\ faults < MaxFaults
  /\ faults' = faults + 1
  /\ req' = [req EXCEPT ![r] = Idle]
  /\ UNCHANGED <<library, keyVars, task, died>>

---------------------------------------------------------------------------
(***************************************************************************)
(* trigger_scan                                                            *)
(***************************************************************************)

\* With the debounce key set the task returns "deferred"; the request it
\* was sent for, taken from the queue, is gone.
CheckDebounce(t) ==
  /\ task[t].pc = "trigger"
  /\ IF debounce THEN End(t) ELSE TaskGoto(t, "ops")
  /\ UNCHANGED <<library, keyVars, req, faults, died>>

CheckOps(t) ==
  /\ task[t].pc = "ops"
  /\ TaskGoto(t, IF ops THEN "push" ELSE "progress")
  /\ UNCHANGED <<library, keyVars, req, faults, died>>

CheckProgress(t) ==
  /\ task[t].pc = "progress"
  /\ TaskGoto(t, IF progress THEN "push" ELSE "start")
  /\ UNCHANGED <<library, keyVars, req, faults, died>>

PushBack(t) ==
  /\ task[t].pc = "push"
  /\ queue' = queue + 1
  /\ End(t)
  /\ UNCHANGED <<library, progress, ops, debounce, req, faults, died>>

\* The message of the scan takes the task's place.
SendScan(t) ==
  /\ task[t].pc = "start"
  /\ task' = [task EXCEPT ![t] = Message("scan")]
  /\ UNCHANGED <<library, keyVars, req, faults, died>>

---------------------------------------------------------------------------
(***************************************************************************)
(* execute_scan                                                            *)
(***************************************************************************)

\* A missing library ends the task at once; the queue is not looked at.
Begin(t) ==
  /\ task[t].pc = "scan"
  /\ IF library THEN TaskGoto(t, "announce") ELSE End(t)
  /\ UNCHANGED <<library, keyVars, req, faults, died>>

\* set_scan_progress, once before the walk, ...
Announce(t) ==
  /\ task[t].pc = "announce"
  /\ progress' = TRUE
  /\ TaskGoto(t, "walk")
  /\ UNCHANGED <<library, queue, ops, debounce, req, faults, died>>

\* ... from the callback of the walk and before the metadata are compared; the
\* end of another scan may have deleted the key in between.
Report(t) ==
  /\ task[t].pc = "walk"
  /\ progress' = TRUE
  /\ UNCHANGED <<library, queue, ops, debounce, req, task, faults, died>>

\* The items are committed.
SaveItems(t) ==
  /\ task[t].pc = "walk"
  /\ TaskGoto(t, "clear")
  /\ UNCHANGED <<library, keyVars, req, faults, died>>

\* Mutant: a failed scan leaves its progress.
ClearKeepsFailed(t) ==
  /\ task[t].pc = "clear"
  /\ progress' = (progress /\ task[t].failed)
  /\ TaskGoto(t, IF task[t].failed THEN "pop" ELSE "record")
  /\ UNCHANGED <<library, queue, ops, debounce, req, faults, died>>

\* clear_scan_progress, after success and after failure.
ClearProgress(t) ==
  /\ task[t].pc = "clear"
  /\ progress' = FALSE
  /\ TaskGoto(t, IF task[t].failed THEN "pop" ELSE "record")
  /\ UNCHANGED <<library, queue, ops, debounce, req, faults, died>>

\* The event and the activity record of a completed scan.
RecordCompletion(t) ==
  /\ task[t].pc = "record"
  /\ TaskGoto(t, "pop")
  /\ UNCHANGED <<library, keyVars, req, faults, died>>

\* Mutant: a failed scan does not process the queue.
PopOnlyAfterSuccess(t) ==
  /\ task[t].pc = "pop"
  /\ IF queue > 0 /\ ~ task[t].failed
     THEN queue' = queue - 1 /\ TaskGoto(t, "forward")
     ELSE End(t) /\ UNCHANGED queue
  /\ UNCHANGED <<library, progress, ops, debounce, req, faults, died>>

\* _process_scan_queue: LPOP, ...
PopQueue(t) ==
  /\ task[t].pc = "pop"
  /\ IF queue > 0 THEN queue' = queue - 1 /\ TaskGoto(t, "forward")
                  ELSE End(t) /\ UNCHANGED queue
  /\ UNCHANGED <<library, progress, ops, debounce, req, faults, died>>

\* Mutant: the request is sent under the name of what triggered it.
ForwardByOrigin(t) ==
  /\ task[t].pc = "forward"
  /\ task' = [task EXCEPT ![t] = Message("manual")]
  /\ UNCHANGED <<library, keyVars, req, faults, died>>

\* ... then trigger_scan.delay for the request.
Forward(t) ==
  /\ task[t].pc = "forward"
  /\ task' = [task EXCEPT ![t] = Message("trigger")]
  /\ UNCHANGED <<library, keyVars, req, faults, died>>

\* An exception anywhere in the try block, after the commit of the items
\* too: the scan is marked failed, progress and queue are handled again.  A
\* request popped and not yet forwarded is lost.
Fail(t) ==
  /\ task[t].pc \in {"announce", "walk", "clear", "record", "pop", "forward"}
  /\ ~ task[t].failed /\ faults < MaxFaults
  /\ faults' = faults + 1
  /\ task' = [task EXCEPT ![t] = [pc |-> "clear", failed |-> TRUE]]
  /\ UNCHANGED <<library, keyVars, req, died>>

\* An exception in the exception handler, or the death of the worker.
Die(t) ==
  /\ task[t].pc \notin {"free", "trigger", "scan"} /\ faults < MaxFaults
  /\ faults' = faults + 1
  /\ End(t)
  /\ died' = TRUE
  /\ UNCHANGED <<library, keyVars, req>>

---------------------------------------------------------------------------
(***************************************************************************)
(* Other actors                                                            *)
(***************************************************************************)

\* A BPM backfill adds its entry to the operation-lock set ...
BlockScans ==
  /\ ~ ops /\ ops' = TRUE
  /\ UNCHANGED <<library, progress, queue, debounce, req, task, faults, died>>

\* ... and removes it; nobody looks at the scan queue then.
UnblockScans ==
  /\ ops /\ ops' = FALSE
  /\ UNCHANGED <<library, progress, queue, debounce, req, task, faults, died>>

\* The watcher sets or renews the debounce key.  That is all that follows a
\* change: _on_scan_trigger is stored by set_scan_trigger_callback and called
\* nowhere.
ChangeDetected ==
  /\ ~ debounce /\ debounce' = TRUE
  /\ UNCHANGED <<library, progress, queue, ops, req, task, faults, died>>

DebounceExpires ==
  /\ debounce /\ debounce' = FALSE
  /\ UNCHANGED <<library, progress, queue, ops, req, task, faults, died>>

DeleteLibrary ==
  /\ library /\ library' = FALSE
  /\ UNCHANGED <<keyVars, req, task, faults, died>>

---------------------------------------------------------------------------
RequestStep(r) == ReadProgress(r) \/ ReadOps(r) \/ PushRequest(r) \/ StartScan(r)

TaskStep(t) ==
  \/ CheckDebounce(t) \/ CheckOps(t) \/ CheckProgress(t) \/ PushBack(t) \/ SendScan(t)
  \/ Begin(t) \/ Announce(t) \/ SaveItems(t) \/ ClearProgress(t)
  \/ RecordCompletion(t) \/ PopQueue(t) \/ Forward(t)

Next ==
  \/ \E r \in Request :
       ScanRequest(r) \/ RefreshImportItems(r) \/ RequestStep(r) \/ RequestFails(r)
  \/ \E t \in Task : TaskStep(t) \/ Report(t) \/ Fail(t) \/ Die(t)
  \/ BlockScans \/ UnblockScans \/ ChangeDetected \/ DebounceExpires \/ DeleteLibrary

Spec == Init /\ [][Next]_vars

\* Requests and tasks that have begun go on, workers take messages, a BPM
\* link ends and gives its lock back, and Redis enforces the time to live.
Fairness ==
  /\ \A r \in Request : WF_vars(RequestStep(r))
  /\ \A t \in Task : WF_vars(TaskStep(t))
  /\ WF_vars(UnblockScans) /\ WF_vars(DebounceExpires)

FairSpec == Spec /\ Fairness

---------------------------------------------------------------------------
TypeOK ==
  /\ library \in BOOLEAN /\ progress \in BOOLEAN /\ ops \in BOOLEAN /\ debounce \in BOOLEAN
  /\ queue \in Nat
  /\ req \in [Request -> Handler]
  /\ task \in [Task -> TaskRecord]
  /\ faults \in 0..MaxFaults
  /\ died \in BOOLEAN

\* A scan of which the items are not committed, or the progress not cleared.
Announced(t) == task[t].pc \in {"walk", "clear"}

\* The library is shown as scanning only while a scan is: every exit of
\* execute_scan, the failed ones too, clears the progress, and no key outlives
\* it to hold back the scans that follow (only a death leaves one: the key
\* has no time to live).
ProgressHonest == progress /\ ~ died => \E t \in Task : Announced(t)

\* A task that will look at the scan queue before it ends, or start one that will.
Runner(t) == task[t].pc \notin {"free", "push"}

\* A queued request that nothing will start, and because of which every manual
\* request is answered 409.
Stranded == queue > 0 /\ ~ \E t \in Task : Runner(t)

\* Scans, however they end, hand the queue on.  It is left to nobody in three
\* ways only: the last task of the chain is deferred by the debounce key, it is
\* blocked by an operation, or a request is pushed after the last look at it.
\* A trigger that yields to a running scan never is the last one.
QueueHandedOn ==
  [][ ~ Stranded /\ Stranded' /\ library /\ ~ died' =>
        \/ \E t \in Task : \/ task[t].pc = "trigger" /\ debounce
                           \/ task[t].pc = "ops" /\ ops
        \/ queue' = queue + 1 ]_vars

\* POST /scan: "The scan will be queued if: Another scan is currently running;
\* Blocking operations (import, tag_modify, etc.) are in progress".
QueuedScanStarts == (queue > 0) ~> (queue = 0 \/ ~ library)
=============================================================================
