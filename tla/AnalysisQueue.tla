--------------------------- MODULE AnalysisQueue ---------------------------
(***************************************************************************)
(* The per-library analysis queue of the backend.                          *)
(*                                                                         *)
(* Request handlers (POST /analyze, POST /analyze-folder, auto-analyze     *)
(* after a scan) decide with separate Redis commands whether an album is   *)
(* dispatched to a Celery worker or put on a list; a worker that ends an   *)
(* analysis frees its slot and hands the head of the list to a new job     *)
(* with one Lua script.  Each Redis command is one step here, and every    *)
(* step may be followed by a step of another handler or worker.            *)
(*                                                                         *)
(* One library is modelled: every key carries the library id.              *)
(***************************************************************************)
EXTENDS Naturals, Sequences, FiniteSets

CONSTANTS
  Album,      \* album folders under the library's import path
  Request,    \* request handlers that may run at the same time
  Job,        \* job ids; an id no work uses any more may be drawn again
  Cap,        \* settings.max_concurrent_analyses_per_library
  Workers,    \* worker children (celery's default: one per CPU)
  MaxFaults,  \* bound on crashes and failed dispatches
  NoAlbum,    \* absence of an album
  NoJob       \* absence of a job id

ASSUME CapAssumption       == Cap \in Nat \ {0}
ASSUME WorkersAssumption   == Workers \in Nat \ {0}
ASSUME FaultAssumption     == MaxFaults \in Nat
ASSUME FiniteSetAssumption == IsFiniteSet(Job) /\ IsFiniteSet(Request)
ASSUME NullAssumption      == NoAlbum \notin Album /\ NoJob \notin Job

VARIABLES
  queue,     \* list beets:queue:{library}
  active,    \* fields of the hash beets:active_analyses:{library}
  readable,  \* the fields whose value parses back to the album path
  cache,     \* albums with a result under the album-path key
  job,       \* the work done under each job id, and its status hash
  req,       \* the request handlers
  faults,    \* crashes and failed dispatches so far
  late       \* history: an album was queued when no task was left to drain

vars == <<queue, active, readable, cache, job, req, faults, late>>

redisVars == <<queue, active, readable, cache>>

Pc == {"idle", "cache", "queue", "active", "invalidate", "count", "register",
       "dispatch", "undo", "enqueue"}

Status == {"absent", "queued", "analyzing", "completed", "failed"}

(***************************************************************************)
(* free       no work uses the id                                          *)
(* ticket     returned to a client whose album went to the queue           *)
(* registered in the active hash, task message not sent                    *)
(* sent       task message in the broker                                   *)
(* running, stored, ending, draining, handing, undo: inside                *)
(*            analyze_album_task, "draining" being the first step after    *)
(*            the job left the active hash                                 *)
(* lost       its process died and left its entry in the active hash       *)
(***************************************************************************)
Work == {"free", "ticket", "registered", "sent", "running", "stored",
         "ending", "draining", "handing", "undo", "lost"}

\* "handed" is the job a finishing task has dequeued and not yet dispatched.
JobRecord == [work : Work, album : Album \cup {NoAlbum}, status : Status,
              handed : Job \cup {NoJob}]

Free == [work |-> "free", album |-> NoAlbum, status |-> "absent",
         handed |-> NoJob]

Registered(a) == [Free EXCEPT !.work = "registered", !.album = a]

Handler == [pc : Pc, album : Album \cup {NoAlbum}, force : BOOLEAN,
            bulk : BOOLEAN, todo : SUBSET Album, job : Job \cup {NoJob}]

Idle == [pc |-> "idle", album |-> NoAlbum, force |-> FALSE, bulk |-> FALSE,
         todo |-> {}, job |-> NoJob]

Init ==
  /\ queue = <<>>
  /\ active = {}
  /\ readable = {}
  /\ cache = {}
  /\ job = [j \in Job |-> Free]
  /\ req = [r \in Request |-> Idle]
  /\ faults = 0
  /\ late = FALSE

(***************************************************************************)
(* What the code reads                                                     *)
(***************************************************************************)

Queued(a) == \E i \in DOMAIN queue : queue[i] = a

\* get_active_analysis_items: an entry written by the Lua script carries the
\* JSON text of the queue item where the album path should be.
ActiveAlbums == {job[j].album : j \in readable}

\* A job that holds its slot in the active hash for good reason.
HoldsSlot(j) ==
  job[j].work \in {"registered", "sent", "running", "stored", "ending"}

\* A job whose end will run drain_analysis_queue.
WillDrain(j) == HoldsSlot(j) \/ job[j].work = "draining"

\* The slots that died with their process.
Lost == {j \in Job : job[j].work = "lost"}

\* The handlers that have decided to register on an HLEN below the cap.
Deciding == {r \in Request : req[r].pc = "register"}

\* A job whose task occupies a worker child.
InWorker(j) ==
  job[j].work \in {"running", "stored", "ending", "draining", "handing", "undo"}

---------------------------------------------------------------------------
(***************************************************************************)
(* Request handlers                                                        *)
(***************************************************************************)

Goto(r, pc) == req' = [req EXCEPT ![r].pc = pc]

\* Return from a single request, or the next turn of a bulk loop.
Proceed(r) ==
  \/ req[r].todo = {} /\ req' = [req EXCEPT ![r] = Idle]
  \/ \E a \in req[r].todo :
       req' = [req EXCEPT ![r].pc = "queue", ![r].album = a, ![r].job = NoJob,
                          ![r].todo = @ \ {a}]

\* POST /analyze for one existing album folder.
AnalyzeAlbum(r, a, force) ==
  /\ req[r].pc = "idle"
  /\ req' = [req EXCEPT ![r] = [Idle EXCEPT !.album = a, !.force = force,
                                   !.pc = IF force THEN "queue" ELSE "cache"]]
  /\ UNCHANGED <<redisVars, job, faults, late>>

\* POST /analyze-folder over the album folders of the import path.
AnalyzeFolder(r, force) ==
  /\ req[r].pc = "idle"
  /\ \E a \in Album :
       req' = [req EXCEPT ![r] = [Idle EXCEPT !.album = a, !.force = force,
                                    !.bulk = TRUE, !.todo = Album \ {a},
                                    !.pc = "queue"]]
  /\ UNCHANGED <<redisVars, job, faults, late>>

\* The same loop at the end of a scan, never forcing.
AutoAnalyze(r) == AnalyzeFolder(r, FALSE)

\* Album-path cache: a hit answers a single request with a synthetic
\* completed job (which nothing else refers to) and skips a bulk album.
CheckCache(r) ==
  /\ req[r].pc = "cache"
  /\ IF req[r].album \in cache
     THEN Proceed(r)
     ELSE Goto(r, IF req[r].bulk THEN "count" ELSE "queue")
  /\ UNCHANGED <<redisVars, job, faults, late>>

\* First half of is_album_in_queue_or_active: LRANGE.
CheckQueue(r) ==
  /\ req[r].pc = "queue"
  /\ IF Queued(req[r].album) THEN Proceed(r) ELSE Goto(r, "active")
  /\ UNCHANGED <<redisVars, job, faults, late>>

\* Second half: HGETALL.
CheckActive(r) ==
  /\ req[r].pc = "active"
  /\ IF req[r].album \in ActiveAlbums
     THEN Proceed(r)
     ELSE Goto(r, IF req[r].force THEN "invalidate"
                  ELSE IF req[r].bulk THEN "cache" ELSE "count")
  /\ UNCHANGED <<redisVars, job, faults, late>>

Invalidate(r) ==
  /\ req[r].pc = "invalidate"
  /\ cache' = cache \ {req[r].album}
  /\ Goto(r, "count")
  /\ UNCHANGED <<queue, active, readable, job, faults, late>>

\* Mutant: a forced analysis does not ask for a free slot.
ReadCountForced(r) ==
  /\ req[r].pc = "count"
  /\ Goto(r, IF req[r].force \/ Cardinality(active) < Cap THEN "register" ELSE "enqueue")
  /\ UNCHANGED <<redisVars, job, faults, late>>

\* HLEN; the decision taken on it is carried out by later commands.
ReadCount(r) ==
  /\ req[r].pc = "count"
  /\ Goto(r, IF Cardinality(active) < Cap THEN "register" ELSE "enqueue")
  /\ UNCHANGED <<redisVars, job, faults, late>>

\* register_active_analysis: HSET.
Register(r) ==
  /\ req[r].pc = "register"
  /\ \E k \in Job :
       /\ job[k] = Free
       /\ active' = active \cup {k}
       /\ readable' = readable \cup {k}
       /\ job' = [job EXCEPT ![k] = Registered(req[r].album)]
       /\ req' = [req EXCEPT ![r].job = k, ![r].pc = "dispatch"]
  /\ UNCHANGED <<queue, cache, faults, late>>

\* Status "analyzing", then analyze_album_task.delay.
Dispatch(r) ==
  /\ req[r].pc = "dispatch"
  /\ job' = [job EXCEPT ![req[r].job].status = "analyzing",
                        ![req[r].job].work = "sent"]
  /\ Proceed(r)
  /\ UNCHANGED <<redisVars, faults, late>>

\* delay raised: the status written before it stays.
DispatchFails(r) ==
  /\ req[r].pc = "dispatch" /\ faults < MaxFaults
  /\ faults' = faults + 1
  /\ job' = [job EXCEPT ![req[r].job].status = "analyzing"]
  /\ Goto(r, "undo")
  /\ UNCHANGED <<redisVars, late>>

\* Mutant: the exception handler forgets unregister_active_analysis.
UndoDispatchKeepsEntry(r) ==
  /\ req[r].pc = "undo"
  /\ job' = [job EXCEPT ![req[r].job] = Free]
  /\ IF req[r].bulk
     THEN req' = [req EXCEPT ![r].job = NoJob, ![r].pc = "enqueue"]
     ELSE req' = [req EXCEPT ![r] = Idle]
  /\ UNCHANGED <<redisVars, faults, late>>

\* The handler of that exception: a single request answers 500, a bulk loop
\* queues the album instead.
UndoDispatch(r) ==
  /\ req[r].pc = "undo"
  /\ active' = active \ {req[r].job}
  /\ readable' = readable \ {req[r].job}
  /\ job' = [job EXCEPT ![req[r].job] = Free]
  /\ IF req[r].bulk
     THEN req' = [req EXCEPT ![r].job = NoJob, ![r].pc = "enqueue"]
     ELSE req' = [req EXCEPT ![r] = Idle]
  /\ UNCHANGED <<queue, cache, faults, late>>

\* enqueue_album_analysis: RPUSH.  A single request then writes the status
\* of the job id it returns; no task will ever run under that id.
Enqueue(r) ==
  /\ req[r].pc = "enqueue"
  /\ queue' = Append(queue, req[r].album)
  /\ late' = (late \/ ~ \E j \in Job : WillDrain(j))
  /\ \/ req[r].bulk /\ UNCHANGED job
     \/ /\ ~ req[r].bulk
        /\ \E k \in Job :
             /\ job[k] = Free
             /\ job' = [job EXCEPT ![k] = [Free EXCEPT !.work = "ticket",
                                                       !.status = "queued"]]
  /\ Proceed(r)
  /\ UNCHANGED <<active, readable, cache, faults>>

\* The web process (or the scan task, for auto-analyze) dies.
HandlerCrash(r) ==
  /\ req[r].pc # "idle" /\ faults < MaxFaults
  /\ faults' = faults + 1
  /\ IF req[r].pc \in {"dispatch", "undo"}
     THEN job' = [job EXCEPT ![req[r].job].work = "lost"]
     ELSE UNCHANGED job
  /\ req' = [req EXCEPT ![r] = Idle]
  /\ UNCHANGED <<redisVars, late>>

---------------------------------------------------------------------------
(***************************************************************************)
(* analyze_album_task                                                      *)
(***************************************************************************)

Step(j, from, to, newStatus) ==
  /\ job[j].work = from
  /\ job' = [job EXCEPT ![j].work = to, ![j].status = newStatus]

\* A worker takes the message; it is acknowledged before the task runs.
TaskStart(j) ==
  /\ Cardinality({i \in Job : InWorker(i)}) < Workers
  /\ Step(j, "sent", "running", "analyzing")
  /\ UNCHANGED <<redisVars, req, faults, late>>

\* The analysis returned: the job result, then the album-path cache unless
\* the provider search was degraded.
TaskStore(j, degraded) ==
  /\ Step(j, "running", "stored", "completed")
  /\ cache' = IF degraded THEN cache ELSE cache \cup {job[j].album}
  /\ UNCHANGED <<queue, active, readable, req, faults, late>>

\* record_completion succeeds, or raises and lands in "except Exception",
\* which rewrites the completed job as failed.
TaskRecord(j) ==
  /\ Step(j, "stored", "ending", "completed") \/ Step(j, "stored", "ending", "failed")
  /\ UNCHANGED <<redisVars, req, faults, late>>

\* Mutant: a status the pollers do not know.
TaskFailUnknownStatus(j) ==
  /\ Step(j, "running", "ending", "error")
  /\ UNCHANGED <<redisVars, req, faults, late>>

\* Library missing, folder missing, time-out, MusicBrainz, beets or unknown error.
TaskFail(j) ==
  /\ Step(j, "running", "ending", "failed")
  /\ UNCHANGED <<redisVars, req, faults, late>>

\* Mutant: the drain sits after the success return instead of in finally.
TaskUnregisterDrainsOnSuccess(j) ==
  /\ job[j].work = "ending"
  /\ job' = [job EXCEPT ![j] = IF @.status = "failed" THEN Free
                               ELSE [@ EXCEPT !.work = "draining"]]
  /\ active' = active \ {j}
  /\ readable' = readable \ {j}
  /\ UNCHANGED <<queue, cache, req, faults, late>>

\* Mutant: finally drains without the HDEL.
TaskUnregisterKeepsEntry(j) ==
  /\ Step(j, "ending", "draining", job[j].status)
  /\ UNCHANGED <<redisVars, req, faults, late>>

\* finally, first command: HDEL.
TaskUnregister(j) ==
  /\ Step(j, "ending", "draining", job[j].status)
  /\ active' = active \ {j}
  /\ readable' = readable \ {j}
  /\ UNCHANGED <<queue, cache, req, faults, late>>

\* Mutant: the script does not compare HLEN with the cap.
TaskDrainIgnoresCap(j) ==
  /\ job[j].work = "draining"
  /\ IF queue # <<>>
     THEN \E k \in Job :
            /\ job[k] = Free
            /\ queue' = Tail(queue)
            /\ active' = active \cup {k}
            /\ job' = [job EXCEPT ![j].work = "handing", ![j].handed = k,
                                  ![k] = Registered(Head(queue))]
     ELSE job' = [job EXCEPT ![j] = Free] /\ UNCHANGED <<queue, active>>
  /\ UNCHANGED <<readable, cache, req, faults, late>>

\* Mutant: RPOP, the album that came last.
TaskDrainTakesNewest(j) ==
  /\ job[j].work = "draining"
  /\ IF Cardinality(active) < Cap /\ queue # <<>>
     THEN \E k \in Job :
            /\ job[k] = Free
            /\ queue' = SubSeq(queue, 1, Len(queue) - 1)
            /\ active' = active \cup {k}
            /\ job' = [job EXCEPT ![j].work = "handing", ![j].handed = k,
                                  ![k] = Registered(queue[Len(queue)])]
     ELSE job' = [job EXCEPT ![j] = Free] /\ UNCHANGED <<queue, active>>
  /\ UNCHANGED <<readable, cache, req, faults, late>>

\* finally, second command: DEQUEUE_AND_DISPATCH_SCRIPT under a new job id.
TaskDrain(j) ==
  /\ job[j].work = "draining"
  /\ IF Cardinality(active) < Cap /\ queue # <<>>
     THEN \E k \in Job :
            /\ job[k] = Free
            /\ queue' = Tail(queue)
            /\ active' = active \cup {k}
            /\ job' = [job EXCEPT ![j].work = "handing", ![j].handed = k,
                                  ![k] = Registered(Head(queue))]
     ELSE job' = [job EXCEPT ![j] = Free] /\ UNCHANGED <<queue, active>>
  /\ UNCHANGED <<readable, cache, req, faults, late>>

\* Status "analyzing" for the new job, then delay.
TaskHandOff(j) ==
  /\ job[j].work = "handing"
  /\ job' = [job EXCEPT ![j] = Free, ![job[j].handed].status = "analyzing",
                        ![job[j].handed].work = "sent"]
  /\ UNCHANGED <<redisVars, req, faults, late>>

TaskHandOffFails(j) ==
  /\ job[j].work = "handing" /\ faults < MaxFaults
  /\ faults' = faults + 1
  /\ job' = [job EXCEPT ![j].work = "undo", ![job[j].handed].status = "analyzing"]
  /\ UNCHANGED <<redisVars, req, late>>

\* The dequeued item is not put back.
TaskUndoHandOff(j) ==
  /\ job[j].work = "undo"
  /\ active' = active \ {job[j].handed}
  /\ readable' = readable \ {job[j].handed}
  /\ job' = [job EXCEPT ![j] = Free, ![job[j].handed] = Free]
  /\ UNCHANGED <<queue, cache, req, faults, late>>

\* The worker child is killed (hard time limit, out of memory, redeploy): the
\* message was acknowledged early, so no other worker takes it up.
TaskCrash(j) ==
  /\ InWorker(j) /\ faults < MaxFaults
  /\ faults' = faults + 1
  /\ job' = [i \in Job |->
               IF i \notin {j, job[j].handed} THEN job[i]
               ELSE IF i \in active
                    THEN [job[i] EXCEPT !.work = "lost", !.handed = NoJob]
                    ELSE Free]
  /\ UNCHANGED <<redisVars, req, late>>

\* A job hash lives one hour.
TicketExpires(j) ==
  /\ job[j].work = "ticket"
  /\ job' = [job EXCEPT ![j] = Free]
  /\ UNCHANGED <<redisVars, req, faults, late>>

---------------------------------------------------------------------------
HandlerStep(r) ==
  \/ CheckCache(r) \/ CheckQueue(r) \/ CheckActive(r) \/ Invalidate(r)
  \/ ReadCount(r) \/ Register(r) \/ Dispatch(r) \/ UndoDispatch(r) \/ Enqueue(r)

TaskStep(j) ==
  \/ TaskStart(j) \/ (\E d \in BOOLEAN : TaskStore(j, d)) \/ TaskRecord(j)
  \/ TaskFail(j) \/ TaskUnregister(j) \/ TaskDrain(j) \/ TaskHandOff(j)
  \/ TaskUndoHandOff(j)

Next ==
  \/ \E r \in Request :
       \/ \E a \in Album, f \in BOOLEAN : AnalyzeAlbum(r, a, f)
       \/ \E f \in BOOLEAN : AnalyzeFolder(r, f)
       \/ AutoAnalyze(r)
       \/ HandlerStep(r)
       \/ DispatchFails(r)
       \/ HandlerCrash(r)
  \/ \E j \in Job :
       TaskStep(j) \/ TaskHandOffFails(j) \/ TaskCrash(j) \/ TicketExpires(j)

Spec == Init /\ [][Next]_vars

\* A handler that has started goes on to its reply; a worker takes the
\* messages of the broker and runs a task to its end; Redis enforces the
\* time to live of a key.
Fairness ==
  /\ \A r \in Request : WF_vars(HandlerStep(r))
  /\ \A j \in Job : WF_vars(TaskStep(j)) /\ WF_vars(TicketExpires(j))

FairSpec == Spec /\ Fairness

---------------------------------------------------------------------------
TypeOK ==
  /\ queue \in Seq(Album)
  /\ active \subseteq Job
  /\ readable \subseteq active
  /\ cache \subseteq Album
  /\ job \in [Job -> JobRecord]
  /\ req \in [Request -> Handler]
  /\ faults \in 0..MaxFaults
  /\ late \in BOOLEAN

(***************************************************************************)
(* Safety                                                                  *)
(***************************************************************************)

\* The HLEN a handler bases its decision on is stale by the time it
\* registers, so the cap of config.py does not bound the active hash; but a
\* handler is stale once at a time and the Lua script never dispatches at
\* the cap, so no interleaving goes further than one job per handler, the
\* registrations already decided on included.
OvershootBounded ==
  Cardinality(active) + Cardinality(Deciding) <= Cap + Cardinality(Request)

\* No task or handler works without its slot in the active hash, and every
\* exit (all the exits of the task, both failed-dispatch handlers) gives the
\* slot back: an entry nothing will remove is the work of a process that died.
SlotsMatchWork ==
  /\ \A j \in Job : HoldsSlot(j) => j \in active
  /\ \A j \in active : HoldsSlot(j) \/ j \in Lost

\* A death costs the library at most one slot (the hash has no TTL, so that
\* one is gone for good).
SlotsAccountedFor == SlotsMatchWork /\ Cardinality(Lost) <= faults

\* drain_analysis_queue runs only at the end of a task.  An album can sit on
\* the queue with no task left to drain it only if a handler put it there
\* after the last drain (it had read a full hash before it), or after a
\* fault.
QueueHasDrainer ==
  faults = 0 /\ ~ late /\ queue # <<>> => \E j \in Job : WillDrain(j)

(***************************************************************************)
(* The refinement                                                          *)
(***************************************************************************)

\* The album each slot of the active hash works on.
AtWork == [j \in Job |-> IF j \in active THEN job[j].album ELSE NoAlbum]

Service == INSTANCE AnalysisService WITH
  waiting <- queue, slots <- active, working <- AtWork, lost <- Lost,
  Limit <- Cap + Cardinality(Request), MaxLosses <- MaxFaults

\* The handlers, tasks and the Lua script do together what the service
\* promises: each of their steps accepts, begins, hands over, ends or loses one
\* analysis, or changes none of them.  The waiting albums keep their order, one
\* slot works on one album, and no step goes over the cap by a hand-over or over
\* the limit by a request.
ImplementsService == Service!Spec

(***************************************************************************)
(* The inductive invariant behind the three                                *)
(***************************************************************************)

\* A handler at work and a job with a slot know their album.
AlbumsKnown ==
  /\ \A r \in Request : req[r].pc # "idle" => req[r].album \in Album
  /\ \A j \in Job : HoldsSlot(j) => job[j].album \in Album

\* Handler r holds the id of a job it has registered and not yet sent.
Owns(r) == req[r].pc \in {"dispatch", "undo"}

\* Task j holds the id of a job it has dequeued and not yet sent.
Hands(j) == job[j].work \in {"handing", "undo"}

\* A job on its way to the broker is in the hands of one handler or one task.
Ownership ==
  /\ \A r \in Request : Owns(r) =>
       req[r].job \in Job /\ job[req[r].job].work = "registered"
  /\ \A r, s \in Request : Owns(r) /\ Owns(s) /\ r # s => req[r].job # req[s].job
  /\ \A j \in Job : Hands(j) =>
       job[j].handed \in Job /\ job[job[j].handed].work = "registered"
  /\ \A j \in Job : ~ Hands(j) => job[j].handed = NoJob
  /\ \A i, j \in Job : Hands(i) /\ Hands(j) /\ i # j => job[i].handed # job[j].handed
  /\ \A r \in Request, j \in Job : Owns(r) /\ Hands(j) => req[r].job # job[j].handed

\* A dispatch is undone only after it failed.
UndoAfterFault ==
  /\ \A r \in Request : req[r].pc = "undo" => faults > 0
  /\ \A j \in Job : job[j].work = "undo" => faults > 0

IInv == TypeOK /\ AlbumsKnown /\ Ownership /\ SlotsAccountedFor /\ UndoAfterFault

(***************************************************************************)
(* Liveness, under FairSpec                                                *)
(***************************************************************************)

\* Once requests stop arriving, one running task is enough to work the whole
\* queue off: each task that ends hands the next album on, after a failed
\* analysis too.  (While requests keep arriving they can take every slot that
\* comes free between a task's HDEL and its drain, and a queued album starves.)
DrainChain ==
  (<>[] \A r \in Request : req[r].pc = "idle") =>
    ((faults = 0 /\ queue # <<>> /\ \E j \in Job : WillDrain(j))
        ~> (faults > 0 \/ queue = <<>>))

\* Without a fault no job keeps its slot.
SlotReleased == \A j \in Job : (j \in active) ~> (faults > 0 \/ j \notin active)

(***************************************************************************)
(* What the code's texts promise and the code does not keep                *)
(***************************************************************************)

\* POST /analyze answers 409 for an "Album already queued or being analyzed".
\* With requests one at a time no album is analysed twice at once.
NoDoubleAnalysis ==
  \A i, j \in Job : i # j /\ HoldsSlot(i) /\ HoldsSlot(j) => job[i].album # job[j].album

\* POST /analyze: "Use the /analyze/{job_id}/status endpoint to poll for
\* results", for the id of a queued album too.
QueuedJobResolves ==
  \A j \in Job : (job[j].status = "queued") ~> (job[j].status \in {"completed", "failed"})
=============================================================================
