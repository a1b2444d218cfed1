----------------------------- MODULE TaskEvents -----------------------------
(***************************************************************************)
(* The activity monitor: the row of a task in the database, its entry in   *)
(* the Redis index of active tasks and its progress hash, which a task     *)
(* writes one after the other and a periodic clean-up removes from the     *)
(* outside.                                                                *)
(*                                                                         *)
(* The index is cleaned by the age of the task, the rows by the age and    *)
(* the silence of the task; nothing keeps the two from a task that is      *)
(* slow but alive.                                                         *)
(***************************************************************************)
EXTENDS Naturals, FiniteSets

CONSTANT Event  \* tasks that record an event

VARIABLES
  event,     \* the tasks: step, outcome they report
  eventRow,  \* status of their rows in task_events
  index,     \* members of the sorted set of active tasks
  progress,  \* events with a progress hash
  aged,      \* events that started more than max_age_seconds (7200) ago
  silent,    \* history: events whose hash lived out its 7200 seconds
  overtaken, \* history: events that ended between the query of a clean-up and its look at their hash
  cleanup    \* cleanup_stale_entries: step, rows queried, rows to be marked

eventVars == <<event, eventRow, index, progress, aged, silent, overtaken, cleanup>>

EventPc == {"idle", "index", "announce", "work", "report", "finish", "unindex", "clear",
            "done", "dead"}

Outcome == {"completed", "failed"}

RowStatus == Outcome \cup {"none", "running", "cleared"}

Init ==
  /\ event = [e \in Event |-> [pc |-> "idle", outcome |-> "completed"]]
  /\ eventRow = [e \in Event |-> "none"]
  /\ index = {} /\ progress = {} /\ aged = {}
  /\ silent = {} /\ overtaken = {}
  /\ cleanup = [pc |-> "idle", candidates |-> {}, orphans |-> {}]

Goto(e, pc) == event' = [event EXCEPT ![e].pc = pc]

Alive(e) == event[e].pc \in {"work", "report", "finish"}

---------------------------------------------------------------------------
(***************************************************************************)
(* record_start, record_progress, record_completion                        *)
(***************************************************************************)

InsertEvent(e) ==
  /\ event[e].pc = "idle"
  /\ eventRow' = [eventRow EXCEPT ![e] = "running"]
  /\ Goto(e, "index")
  /\ UNCHANGED <<index, progress, aged, silent, overtaken, cleanup>>

AddToIndex(e) ==
  /\ event[e].pc = "index"
  /\ index' = index \cup {e}
  /\ Goto(e, "announce")
  /\ UNCHANGED <<eventRow, progress, aged, silent, overtaken, cleanup>>

SetProgress(e) ==
  /\ event[e].pc = "announce"
  /\ progress' = progress \cup {e}
  /\ Goto(e, "work")
  /\ UNCHANGED <<eventRow, index, aged, silent, overtaken, cleanup>>

\* Without a hash nothing is recorded, then or later.
ReadProgress(e) ==
  /\ event[e].pc = "work" /\ e \in progress
  /\ Goto(e, "report")
  /\ UNCHANGED <<eventRow, index, progress, aged, silent, overtaken, cleanup>>

\* The hash gets a new time to live; it may have expired or been dropped since.
RecordProgress(e) ==
  /\ event[e].pc = "report"
  /\ progress' = progress \cup {e}
  /\ Goto(e, "work")
  /\ UNCHANGED <<eventRow, index, aged, silent, overtaken, cleanup>>

\* A row that is not found ends it.
ReadRow(e, outcome) ==
  /\ event[e].pc = "work"
  /\ event' = [event EXCEPT ![e].outcome = outcome,
                            ![e].pc = IF eventRow[e] = "cleared" THEN "done" ELSE "finish"]
  /\ UNCHANGED <<eventRow, index, progress, aged, silent, overtaken, cleanup>>

\* The status is written whatever it is by now; the UPDATE of a row that was
\* deleted meanwhile raises, which the tasks catch.
CommitOutcome(e) ==
  /\ event[e].pc = "finish"
  /\ IF eventRow[e] = "cleared" THEN Goto(e, "done") /\ UNCHANGED eventRow
     ELSE Goto(e, "unindex") /\ eventRow' = [eventRow EXCEPT ![e] = event[e].outcome]
  /\ UNCHANGED <<index, progress, aged, silent, overtaken, cleanup>>

RemoveFromIndex(e) ==
  /\ event[e].pc = "unindex"
  /\ index' = index \ {e}
  /\ Goto(e, "clear")
  /\ UNCHANGED <<eventRow, progress, aged, silent, overtaken, cleanup>>

ClearProgress(e) ==
  /\ event[e].pc = "clear"
  /\ progress' = progress \ {e}
  /\ overtaken' = IF cleanup.pc = "sift" /\ e \in cleanup.candidates THEN overtaken \cup {e}
                  ELSE overtaken
  /\ Goto(e, "done")
  /\ UNCHANGED <<eventRow, index, aged, silent, cleanup>>

\* record_event: born finished, without index and progress.
RecordEvent(e, outcome) ==
  /\ event[e].pc = "idle"
  /\ eventRow' = [eventRow EXCEPT ![e] = outcome]
  /\ event' = [event EXCEPT ![e].pc = "done", ![e].outcome = outcome]
  /\ UNCHANGED <<index, progress, aged, silent, overtaken, cleanup>>

DieAtWork(e) ==
  /\ event[e].pc \notin {"idle", "done", "dead"}
  /\ Goto(e, "dead")
  /\ UNCHANGED <<eventRow, index, progress, aged, silent, overtaken, cleanup>>

\* Two hours pass; the calls of one method take less.
Age(e) ==
  /\ event[e].pc \in {"work", "report", "dead"} /\ e \notin aged
  /\ aged' = aged \cup {e}
  /\ UNCHANGED <<event, eventRow, index, progress, silent, overtaken, cleanup>>

\* The hash is set at the start and by every report.
ProgressExpires(e) ==
  /\ e \in progress \cap aged /\ event[e].pc # "report"
  /\ progress' = progress \ {e}
  /\ silent' = silent \cup {e}
  /\ UNCHANGED <<event, eventRow, index, aged, overtaken, cleanup>>

---------------------------------------------------------------------------
(***************************************************************************)
(* cleanup_stale_entries (celery beat) and DELETE /activity/history        *)
(***************************************************************************)

\* Mutant: the cutoff is in milliseconds, the scores are in seconds.
CleanIndexEverything ==
  /\ cleanup.pc = "idle"
  /\ index' = {}
  /\ cleanup' = [cleanup EXCEPT !.pc = "query"]
  /\ UNCHANGED <<event, eventRow, progress, aged, silent, overtaken>>

\* zremrangebyscore: by the start of the task, dead or alive.
CleanIndex ==
  /\ cleanup.pc = "idle"
  /\ index' = index \ aged
  /\ cleanup' = [cleanup EXCEPT !.pc = "query"]
  /\ UNCHANGED <<event, eventRow, progress, aged, silent, overtaken>>

QueryCandidates ==
  /\ cleanup.pc = "query"
  /\ cleanup' = [cleanup EXCEPT !.pc = "sift",
                   !.candidates = {e \in aged : eventRow[e] = "running"}]
  /\ UNCHANGED <<event, eventRow, index, progress, aged, silent, overtaken>>

SiftCandidates ==
  /\ cleanup.pc = "sift"
  /\ cleanup' = [cleanup EXCEPT !.pc = "mark", !.orphans = cleanup.candidates \ progress]
  /\ UNCHANGED <<event, eventRow, index, progress, aged, silent, overtaken>>

\* One commit; it raises, and marks none, if one of the rows is gone.
MarkOrphans ==
  /\ cleanup.pc = "mark"
  /\ eventRow' = IF \E e \in cleanup.orphans : eventRow[e] = "cleared" THEN eventRow
                 ELSE [e \in Event |-> IF e \in cleanup.orphans THEN "failed" ELSE eventRow[e]]
  /\ cleanup' = [pc |-> "idle", candidates |-> {}, orphans |-> {}]
  /\ UNCHANGED <<event, index, progress, aged, silent, overtaken>>

\* clear_history, for a library, a type or all of the finished ones.
ClearHistory(S) ==
  /\ S # {} /\ \A e \in S : eventRow[e] \in Outcome
  /\ eventRow' = [e \in Event |-> IF e \in S THEN "cleared" ELSE eventRow[e]]
  /\ UNCHANGED <<event, index, progress, aged, silent, overtaken, cleanup>>

---------------------------------------------------------------------------
EventStep(e) ==
  \/ InsertEvent(e) \/ AddToIndex(e) \/ SetProgress(e) \/ ReadProgress(e) \/ RecordProgress(e)
  \/ CommitOutcome(e) \/ RemoveFromIndex(e) \/ ClearProgress(e)
  \/ DieAtWork(e) \/ Age(e) \/ ProgressExpires(e)
  \/ \E outcome \in Outcome : ReadRow(e, outcome) \/ RecordEvent(e, outcome)

Next ==
  \/ \E e \in Event : EventStep(e)
  \/ CleanIndex \/ QueryCandidates \/ SiftCandidates \/ MarkOrphans
  \/ \E S \in SUBSET Event : ClearHistory(S)

Spec == Init /\ [][Next]_eventVars

---------------------------------------------------------------------------
TypeOK ==
  /\ event \in [Event -> [pc : EventPc, outcome : Outcome]]
  /\ eventRow \in [Event -> RowStatus]
  /\ index \subseteq Event /\ progress \subseteq Event
  /\ aged \subseteq Event /\ silent \subseteq Event /\ overtaken \subseteq Event
  /\ cleanup \in [pc : {"idle", "query", "sift", "mark"}, candidates : SUBSET Event,
                  orphans : SUBSET Event]

\* get_active_tasks: the members of the index that have a progress hash.
ActiveTasks == index \cap progress

\* The list of active tasks is right but for its age: a task younger than two
\* hours that works is listed, and one that has reported its end is not.
ActiveFaithful ==
  \A e \in Event :
    /\ Alive(e) /\ e \notin aged => e \in ActiveTasks
    /\ event[e].pc = "done" => e \notin ActiveTasks

\* What the history may say of a task: failed although it has not reported so
\* only if it was silent for two hours; and what it has reported stands.
Honest(e) ==
  /\ Alive(e) => eventRow[e] = "running"
  /\ event[e].pc \in {"unindex", "clear", "done"} =>
       eventRow[e] \in {event[e].outcome, "cleared"}

\* The history is honest about every task that has spoken within two hours,
\* unless it ended right under a clean-up.
HistoryFaithful == \A e \in Event \ (silent \cup overtaken) : Honest(e)

\* cleanup_stale_entries: "A long-running task that still publishes progress
\* keeps its Redis progress hash alive [...] Only events without fresh progress
\* are crash debris", without the exemption.
OnlyCrashDebris == \A e \in Event \ silent : Honest(e)

---------------------------------------------------------------------------
(***************************************************************************)
(* The inductive invariant of the activity monitor                         *)
(***************************************************************************)

\* A task that died, fell silent, or ended right under a clean-up.
Debris(e) == e \in silent \cup overtaken \/ event[e].pc = "dead"

\* What is in the database and in Redis for each step of a task.
StepsRecorded ==
  \A e \in Event :
    /\ event[e].pc \in {"idle", "index", "announce"} => e \notin aged \cup progress
    /\ event[e].pc = "idle" => e \notin index
    /\ event[e].pc = "announce" => e \in index
    /\ event[e].pc \in {"index", "announce"} => eventRow[e] = "running"
    /\ eventRow[e] = "running" =>
         event[e].pc \in {"index", "announce", "work", "report", "finish", "dead"}
    /\ Alive(e) /\ e \notin aged => e \in index
    /\ event[e].pc = "report" => e \in progress
    /\ event[e].pc = "clear" => e \notin index
    /\ event[e].pc = "done" => e \notin ActiveTasks

\* A hash that expired does not come back, and one that is missing expired.
SilenceLasts ==
  \A e \in Event :
    /\ e \in silent => e \in aged \ progress
    /\ Alive(e) /\ e \notin progress => e \in silent
    /\ e \in overtaken => event[e].pc = "done"

\* What a clean-up takes for crash debris.
OrphansSilent ==
  /\ \A e \in cleanup.orphans : Debris(e)
  /\ cleanup.pc = "sift" => \A e \in cleanup.candidates \ progress : Debris(e)

EventInv == TypeOK /\ StepsRecorded /\ SilenceLasts /\ OrphansSilent /\ HistoryFaithful

=============================================================================
