------------------------ MODULE AnalysisQueue_proofs ------------------------
(***************************************************************************)
(* Safety of the analysis queue, and its refinement of AnalysisService,    *)
(* for any number of albums, handlers, jobs and workers, any cap and any   *)
(* number of faults.                                                       *)
(***************************************************************************)
EXTENDS AnalysisQueue, FiniteSetTheorems, TLAPS

(***************************************************************************)
(* Type correctness                                                        *)
(***************************************************************************)

LEMMA RecordTypes ==
  /\ Free \in JobRecord
  /\ \A a \in Album \cup {NoAlbum} : Registered(a) \in JobRecord
  /\ Idle \in Handler
<1>1. Free \in JobRecord
  BY DEF Free, JobRecord, Work, Status
<1>2. ASSUME NEW a \in Album \cup {NoAlbum} PROVE Registered(a) \in JobRecord
  BY DEF Registered, Free, JobRecord, Work, Status
<1>3. Idle \in Handler
  BY DEF Idle, Handler, Pc
<1> QED BY <1>1, <1>2, <1>3

LEMMA TypeInit == Init => TypeOK
<1> SUFFICES ASSUME Init PROVE TypeOK
  OBVIOUS
<1>1. job \in [Job -> JobRecord] /\ req \in [Request -> Handler]
  BY RecordTypes DEF Init
<1>2. faults \in 0..MaxFaults
  BY FaultAssumption DEF Init
<1>3. queue \in Seq(Album)
  BY DEF Init
<1>4. active \subseteq Job /\ readable \subseteq active /\ cache \subseteq Album
  BY DEF Init
<1>5. late \in BOOLEAN
  BY DEF Init
<1> QED BY <1>1, <1>2, <1>3, <1>4, <1>5 DEF TypeOK

\* The next turn of a handler is a handler.
LEMMA ProceedType ==
  ASSUME TypeOK, NEW r \in Request, Proceed(r)
  PROVE  req' \in [Request -> Handler]
<1>1. CASE req' = [req EXCEPT ![r] = Idle]
  BY <1>1, RecordTypes DEF TypeOK
<1>2. ASSUME NEW a \in req[r].todo,
             req' = [req EXCEPT ![r].pc = "queue", ![r].album = a, ![r].job = NoJob,
                                ![r].todo = @ \ {a}]
      PROVE  req' \in [Request -> Handler]
  BY <1>2 DEF TypeOK, Handler, Pc
<1> QED BY <1>1, <1>2 DEF Proceed

LEMMA GotoType ==
  ASSUME TypeOK, NEW r \in Request, NEW pc \in Pc, Goto(r, pc)
  PROVE  req' \in [Request -> Handler]
BY DEF TypeOK, Goto, Handler

LEMMA HandlerTypes ==
  ASSUME TypeOK, AlbumsKnown, Ownership, NEW r \in Request, HandlerStep(r)
  PROVE  TypeOK'
<1>0. req[r] \in Handler
  BY DEF TypeOK
<1>1. CASE CheckCache(r)
  <2>1. req' \in [Request -> Handler]
    BY <1>1, ProceedType, GotoType DEF CheckCache, Pc
  <2> QED BY <1>1, <2>1 DEF CheckCache, TypeOK, redisVars
<1>2. CASE CheckQueue(r)
  <2>1. req' \in [Request -> Handler]
    BY <1>2, ProceedType, GotoType DEF CheckQueue, Pc
  <2> QED BY <1>2, <2>1 DEF CheckQueue, TypeOK, redisVars
<1>3. CASE CheckActive(r)
  <2>1. req' \in [Request -> Handler]
    BY <1>3, ProceedType, GotoType DEF CheckActive, Pc
  <2> QED BY <1>3, <2>1 DEF CheckActive, TypeOK, redisVars
<1>4. CASE Invalidate(r)
  <2>1. req' \in [Request -> Handler]
    BY <1>4, GotoType DEF Invalidate, Pc
  <2> QED BY <1>4, <2>1 DEF Invalidate, TypeOK
<1>5. CASE ReadCount(r)
  <2>1. req' \in [Request -> Handler]
    BY <1>5, GotoType DEF ReadCount, Pc
  <2> QED BY <1>5, <2>1 DEF ReadCount, TypeOK, redisVars
<1>6. CASE Register(r)
  <2>1. PICK k \in Job :
          /\ active' = active \cup {k}
          /\ readable' = readable \cup {k}
          /\ job' = [job EXCEPT ![k] = Registered(req[r].album)]
          /\ req' = [req EXCEPT ![r].job = k, ![r].pc = "dispatch"]
    BY <1>6 DEF Register
  <2>2. Registered(req[r].album) \in JobRecord
    BY <1>0, RecordTypes DEF Handler
  <2>3. req' \in [Request -> Handler]
    BY <1>0, <2>1 DEF TypeOK, Handler, Pc
  <2> QED BY <1>6, <2>1, <2>2, <2>3 DEF Register, TypeOK
<1>7. CASE Dispatch(r)
  <2>1. req' \in [Request -> Handler]
    BY <1>7, ProceedType DEF Dispatch
  <2>2. req[r].job \in Job /\ job[req[r].job] \in JobRecord
    BY <1>7 DEF Dispatch, Ownership, Owns, TypeOK
  <2>3. job' \in [Job -> JobRecord]
    BY <1>7, <2>2 DEF Dispatch, TypeOK, JobRecord, Work, Status
  <2> QED BY <1>7, <2>1, <2>3 DEF Dispatch, TypeOK, redisVars
<1>8. CASE UndoDispatch(r)
  <2>1. [req EXCEPT ![r].job = NoJob, ![r].pc = "enqueue"] \in [Request -> Handler]
    BY <1>0 DEF TypeOK, Handler, Pc
  <2>2. req' \in [Request -> Handler]
    BY <1>8, <2>1, RecordTypes DEF UndoDispatch, TypeOK
  <2>3. job' \in [Job -> JobRecord]
    BY <1>8, RecordTypes DEF UndoDispatch, TypeOK
  <2> QED BY <1>8, <2>2, <2>3 DEF UndoDispatch, TypeOK
<1>9. CASE Enqueue(r)
  <2>1. req' \in [Request -> Handler]
    BY <1>9, ProceedType DEF Enqueue
  <2>2. [Free EXCEPT !.work = "ticket", !.status = "queued"] \in JobRecord
    BY RecordTypes DEF JobRecord, Free, Work, Status
  <2>3. job' \in [Job -> JobRecord]
    BY <1>9, <2>2 DEF Enqueue, TypeOK
  <2>4. queue' \in Seq(Album)
    BY <1>9 DEF Enqueue, TypeOK, AlbumsKnown
  <2>5. late' \in BOOLEAN
    BY <1>9 DEF Enqueue, TypeOK
  <2> QED BY <1>9, <2>1, <2>3, <2>4, <2>5 DEF Enqueue, TypeOK
<1> QED BY <1>1, <1>2, <1>3, <1>4, <1>5, <1>6, <1>7, <1>8, <1>9 DEF HandlerStep

LEMMA TaskTypes ==
  ASSUME TypeOK, AlbumsKnown, Ownership, NEW j \in Job,
         TaskStep(j) \/ TaskHandOffFails(j) \/ TaskCrash(j) \/ TicketExpires(j)
  PROVE  TypeOK'
<1> USE RecordTypes
<1>a. job[j] \in JobRecord
  BY DEF TypeOK
<1>0. ASSUME NEW from, NEW to \in Work, NEW s \in Status, Step(j, from, to, s)
      PROVE  job' \in [Job -> JobRecord]
  BY <1>0, <1>a DEF Step, TypeOK, JobRecord
<1>1. CASE TaskStart(j)
  BY <1>1, <1>0 DEF TaskStart, TypeOK, redisVars, Work, Status
<1>2. ASSUME NEW d \in BOOLEAN, TaskStore(j, d)
      PROVE  TypeOK'
  <2>1. job[j].album \in Album
    BY <1>2 DEF TaskStore, Step, AlbumsKnown, HoldsSlot
  <2>2. job' \in [Job -> JobRecord]
    BY <1>2, <1>0 DEF TaskStore, Work, Status
  <2> QED BY <1>2, <2>1, <2>2 DEF TaskStore, TypeOK
<1>3. CASE TaskRecord(j)
  BY <1>3, <1>0 DEF TaskRecord, TypeOK, redisVars, Work, Status
<1>4. CASE TaskFail(j)
  BY <1>4, <1>0 DEF TaskFail, TypeOK, redisVars, Work, Status
<1>5. CASE TaskUnregister(j)
  <2>1. job[j].status \in Status BY <1>a DEF JobRecord
  <2>2. job' \in [Job -> JobRecord]
    BY <1>5, <1>0, <2>1 DEF TaskUnregister, Work
  <2> QED BY <1>5, <2>2 DEF TaskUnregister, TypeOK
<1>6. CASE TaskDrain(j)
  <2>1. ASSUME NEW k \in Job, job[k] = Free, queue # <<>>,
               queue' = Tail(queue),
               active' = active \cup {k},
               job' = [job EXCEPT ![j].work = "handing", ![j].handed = k,
                                  ![k] = Registered(Head(queue))]
        PROVE  TypeOK'
    <3>1. Head(queue) \in Album /\ queue' \in Seq(Album)
      BY <2>1 DEF TypeOK
    <3>3. [job EXCEPT ![j].work = "handing", ![j].handed = k] \in [Job -> JobRecord]
      BY <1>a DEF TypeOK, JobRecord, Work
    <3>4. Registered(Head(queue)) \in JobRecord
      BY <3>1
    <3>5. job' \in [Job -> JobRecord]
      BY <2>1, <3>3, <3>4
    <3> QED BY <1>6, <2>1, <3>1, <3>5 DEF TaskDrain, TypeOK
  <2>2. CASE job' = [job EXCEPT ![j] = Free] /\ UNCHANGED <<queue, active>>
    BY <1>6, <2>2 DEF TaskDrain, TypeOK
  <2> QED BY <1>6, <2>1, <2>2 DEF TaskDrain
<1>7. CASE TaskHandOff(j)
  <2>1. job[j].handed \in Job /\ job[job[j].handed] \in JobRecord /\ job[j].handed # j
    BY <1>7 DEF TaskHandOff, Ownership, Hands, TypeOK
  <2>2. [job EXCEPT ![j] = Free] \in [Job -> JobRecord]
    BY DEF TypeOK
  <2>3. job' \in [Job -> JobRecord]
    BY <1>7, <2>1, <2>2 DEF TaskHandOff, JobRecord, Work, Status
  <2> QED BY <1>7, <2>3 DEF TaskHandOff, TypeOK, redisVars
<1>8. CASE TaskUndoHandOff(j)
  <2>1. job' \in [Job -> JobRecord]
    BY <1>8 DEF TaskUndoHandOff, TypeOK
  <2> QED BY <1>8, <2>1 DEF TaskUndoHandOff, TypeOK
<1>9. CASE TaskHandOffFails(j)
  <2>1. job[j].handed \in Job /\ job[job[j].handed] \in JobRecord
    BY <1>9 DEF TaskHandOffFails, Ownership, Hands, TypeOK
  <2>2. job' \in [Job -> JobRecord]
    BY <1>9, <1>a, <2>1, ZenonT(30) DEF TaskHandOffFails, TypeOK, JobRecord, Work, Status
  <2>3. faults' \in 0..MaxFaults
    BY <1>9, FaultAssumption DEF TaskHandOffFails, TypeOK
  <2> QED BY <1>9, <2>2, <2>3 DEF TaskHandOffFails, TypeOK, redisVars
<1>10. CASE TaskCrash(j)
  <2>1. ASSUME NEW i \in Job
        PROVE  [job[i] EXCEPT !.work = "lost", !.handed = NoJob] \in JobRecord
    BY DEF TypeOK, JobRecord, Work
  <2>2. job' \in [Job -> JobRecord]
    BY <1>10, <2>1 DEF TaskCrash, TypeOK
  <2>3. faults' = faults + 1 /\ faults < MaxFaults
    BY <1>10 DEF TaskCrash
  <2>4. faults' \in 0..MaxFaults
    BY <2>3, FaultAssumption DEF TypeOK
  <2> QED BY <1>10, <2>2, <2>4 DEF TaskCrash, TypeOK, redisVars
<1>11. CASE TicketExpires(j)
  BY <1>11 DEF TicketExpires, TypeOK, redisVars
<1> QED BY <1>1, <1>2, <1>3, <1>4, <1>5, <1>6, <1>7, <1>8, <1>9, <1>10, <1>11 DEF TaskStep

\* The other actions of a handler: its start, a failed dispatch, its death.
OtherHandlerStep(r) ==
  \/ \E a \in Album, f \in BOOLEAN : AnalyzeAlbum(r, a, f)
  \/ \E f \in BOOLEAN : AnalyzeFolder(r, f)
  \/ DispatchFails(r)
  \/ HandlerCrash(r)

LEMMA OtherHandlerTypes ==
  ASSUME TypeOK, AlbumsKnown, Ownership, NEW r \in Request, OtherHandlerStep(r)
  PROVE  TypeOK'
<1>1. ASSUME NEW a \in Album, NEW f \in BOOLEAN, AnalyzeAlbum(r, a, f)
      PROVE  TypeOK'
  <2>1. [Idle EXCEPT !.album = a, !.force = f,
                     !.pc = IF f THEN "queue" ELSE "cache"] \in Handler
    BY DEF Idle, Handler, Pc
  <2> QED BY <1>1, <2>1 DEF AnalyzeAlbum, TypeOK, redisVars
<1>2. ASSUME NEW f \in BOOLEAN, AnalyzeFolder(r, f)
      PROVE  TypeOK'
  <2>1. ASSUME NEW a \in Album
        PROVE  [Idle EXCEPT !.album = a, !.force = f, !.bulk = TRUE,
                            !.todo = Album \ {a}, !.pc = "queue"] \in Handler
    BY DEF Idle, Handler, Pc
  <2> QED BY <1>2, <2>1 DEF AnalyzeFolder, TypeOK, redisVars
<1>3. CASE DispatchFails(r)
  <2>1. req[r].job \in Job /\ job[req[r].job] \in JobRecord
    BY <1>3 DEF DispatchFails, Ownership, Owns, TypeOK
  <2>2. job' \in [Job -> JobRecord]
    BY <1>3, <2>1 DEF DispatchFails, TypeOK, JobRecord, Status
  <2>3. req' \in [Request -> Handler]
    BY <1>3, GotoType DEF DispatchFails, Pc
  <2>4. faults' \in 0..MaxFaults
    BY <1>3, FaultAssumption DEF DispatchFails, TypeOK
  <2> QED BY <1>3, <2>2, <2>3, <2>4 DEF DispatchFails, TypeOK, redisVars
<1>4. CASE HandlerCrash(r)
  <2>1. ASSUME req[r].pc \in {"dispatch", "undo"}
        PROVE  /\ [job EXCEPT ![req[r].job].work = "lost"] \in [Job -> JobRecord]
    <3>1. req[r].job \in Job /\ job[req[r].job] \in JobRecord
      BY <2>1 DEF Ownership, Owns, TypeOK
    <3> QED BY <3>1 DEF TypeOK, JobRecord, Work
  <2>2. job' \in [Job -> JobRecord]
    BY <1>4, <2>1 DEF HandlerCrash, TypeOK
  <2>3. req' \in [Request -> Handler]
    BY <1>4, RecordTypes DEF HandlerCrash, TypeOK
  <2>4. faults' \in 0..MaxFaults
    BY <1>4, FaultAssumption DEF HandlerCrash, TypeOK
  <2> QED BY <1>4, <2>2, <2>3, <2>4 DEF HandlerCrash, TypeOK, redisVars
<1> QED BY <1>1, <1>2, <1>3, <1>4 DEF OtherHandlerStep

LEMMA NextCases ==
  ASSUME Next
  PROVE  \/ \E r \in Request : HandlerStep(r) \/ OtherHandlerStep(r)
         \/ \E j \in Job : TaskStep(j) \/ TaskHandOffFails(j) \/ TaskCrash(j) \/ TicketExpires(j)
BY DEF Next, OtherHandlerStep, AutoAnalyze

(***************************************************************************)
(* Ownership: who may send or drop a registered job                        *)
(***************************************************************************)

\* The next turn of a handler owns nothing and knows its album.
LEMMA ProceedFacts ==
  ASSUME TypeOK, NEW r \in Request, Proceed(r)
  PROVE  /\ \A s \in Request : s # r => req'[s] = req[s]
         /\ req'[r].pc \in {"idle", "queue"}
         /\ req'[r].pc = "queue" => req'[r].album \in Album
<1>0. req[r] \in Handler
  BY DEF TypeOK
<1>1. CASE req' = [req EXCEPT ![r] = Idle]
  BY <1>1 DEF TypeOK, Idle
<1>2. ASSUME NEW a \in req[r].todo,
             req' = [req EXCEPT ![r].pc = "queue", ![r].album = a, ![r].job = NoJob,
                                ![r].todo = @ \ {a}]
      PROVE  /\ \A s \in Request : s # r => req'[s] = req[s]
             /\ req'[r].pc = "queue"
             /\ req'[r].album \in Album
  BY <1>0, <1>2 DEF TypeOK, Handler
<1> QED BY <1>1, <1>2 DEF Proceed

LEMMA GotoFacts ==
  ASSUME TypeOK, NEW r \in Request, NEW pc, Goto(r, pc)
  PROVE  /\ \A s \in Request : s # r => req'[s] = req[s]
         /\ req'[r].pc = pc /\ req'[r].album = req[r].album /\ req'[r].job = req[r].job
BY DEF TypeOK, Goto, Handler

(***************************************************************************)
(* Deaths: the lost slots number no more than the faults                   *)
(***************************************************************************)

LEMMA LostFinite ==
  IsFiniteSet(Lost) /\ Cardinality(Lost) \in Nat
BY FiniteSetAssumption, FS_Subset, FS_CardinalityType DEF Lost

LEMMA NoneLost ==
  ASSUME TypeOK, SlotsAccountedFor, faults' = faults,
         \A i \in Job : job'[i].work = "lost" => job[i].work = "lost"
  PROVE  Cardinality(Lost') <= faults'
<1>1. Lost' \in SUBSET Lost
  BY DEF Lost
<1>2. Cardinality(Lost') <= Cardinality(Lost)
  BY <1>1, LostFinite, FS_Subset
<1>3. IsFiniteSet(Lost') /\ Cardinality(Lost') \in Nat
  BY <1>1, LostFinite, FS_Subset, FS_CardinalityType
<1>4. Cardinality(Lost) <= faults /\ faults \in Nat
  BY FaultAssumption DEF SlotsAccountedFor, TypeOK
<1> QED BY <1>2, <1>3, <1>4, LostFinite

LEMMA OneLost ==
  ASSUME TypeOK, SlotsAccountedFor, faults' = faults + 1, NEW x,
         \A i \in Job : job'[i].work = "lost" => job[i].work = "lost" \/ i = x
  PROVE  Cardinality(Lost') <= faults'
<1>1. Lost' \in SUBSET (Lost \cup {x})
  BY DEF Lost
<1>2. IsFiniteSet(Lost \cup {x}) /\ Cardinality(Lost \cup {x}) <= Cardinality(Lost) + 1
  BY LostFinite, FS_AddElement
<1>3. Cardinality(Lost') <= Cardinality(Lost \cup {x})
  BY <1>1, <1>2, FS_Subset
<1>4. Cardinality(Lost') \in Nat /\ Cardinality(Lost \cup {x}) \in Nat
  BY <1>1, <1>2, FS_Subset, FS_CardinalityType
<1>5. Cardinality(Lost) <= faults /\ faults \in Nat
  BY FaultAssumption DEF SlotsAccountedFor, TypeOK
<1> QED BY <1>2, <1>3, <1>4, <1>5, LostFinite

(***************************************************************************)
(* The inductive invariant                                                 *)
(***************************************************************************)

Core == AlbumsKnown /\ Ownership /\ SlotsAccountedFor /\ UndoAfterFault

\* Steps of a handler that touch neither the jobs nor the active hash.
LEMMA QuietHandler ==
  ASSUME IInv, NEW r \in Request, job' = job, active' = active, faults' = faults,
         \A s \in Request : s # r => req'[s] = req[s],
         ~ Owns(r)',
         req'[r].pc # "idle" => req'[r].album \in Album
  PROVE  Core'
<1>1. AlbumsKnown'
  BY DEF IInv, AlbumsKnown, HoldsSlot
<1>2. Ownership'
  BY DEF IInv, Ownership, Owns, Hands
<1>3. UndoAfterFault'
  BY DEF IInv, UndoAfterFault, Owns
<1>4. Cardinality(Lost') <= faults'
  BY NoneLost DEF IInv
<1>5. SlotsMatchWork'
  BY DEF IInv, SlotsAccountedFor, SlotsMatchWork, HoldsSlot, Lost
<1> QED BY <1>1, <1>2, <1>3, <1>4, <1>5 DEF Core, SlotsAccountedFor

LEMMA HandlerCore ==
  ASSUME IInv, TypeOK', NEW r \in Request, HandlerStep(r)
  PROVE  Core'
<1> USE DEF IInv
<1>a. req[r].pc # "idle" => req[r].album \in Album
  BY DEF AlbumsKnown
<1>1. CASE CheckCache(r)
  BY <1>1, <1>a, ProceedFacts, GotoFacts, QuietHandler DEF CheckCache, Owns, redisVars
<1>2. CASE CheckQueue(r)
  BY <1>2, <1>a, ProceedFacts, GotoFacts, QuietHandler DEF CheckQueue, Owns, redisVars
<1>3. CASE CheckActive(r)
  BY <1>3, <1>a, ProceedFacts, GotoFacts, QuietHandler DEF CheckActive, Owns, redisVars
<1>4. CASE Invalidate(r)
  BY <1>4, <1>a, GotoFacts, QuietHandler DEF Invalidate, Owns
<1>5. CASE ReadCount(r)
  BY <1>5, <1>a, GotoFacts, QuietHandler DEF ReadCount, Owns, redisVars
<1>6. CASE Register(r)
  <2>1. PICK k \in Job :
          /\ job[k] = Free
          /\ active' = active \cup {k}
          /\ job' = [job EXCEPT ![k] = Registered(req[r].album)]
          /\ req' = [req EXCEPT ![r].job = k, ![r].pc = "dispatch"]
    BY <1>6 DEF Register
  <2>2. /\ job'[k].work = "registered" /\ job'[k].album = req[r].album /\ job'[k].handed = NoJob
        /\ job[k].work = "free"
        /\ \A i \in Job : i # k => job'[i] = job[i]
    BY <2>1 DEF TypeOK, Registered, Free
  <2>3. /\ req'[r].job = k /\ req'[r].pc = "dispatch" /\ req'[r].album = req[r].album
        /\ \A s \in Request : s # r => req'[s] = req[s]
    BY <2>1 DEF TypeOK, Handler
  <2>4. faults' = faults /\ req[r].pc = "register"
    BY <1>6 DEF Register
  <2>5. AlbumsKnown'
    BY <1>a, <2>2, <2>3, <2>4 DEF AlbumsKnown, HoldsSlot
  <2>6. Ownership'
    BY <2>2, <2>3 DEF Ownership, Owns, Hands
  <2>7. UndoAfterFault'
    BY <2>2, <2>3, <2>4 DEF UndoAfterFault
  <2>8. Cardinality(Lost') <= faults'
    BY <2>2, <2>4, NoneLost
  <2>9. SlotsMatchWork'
    BY <2>1, <2>2 DEF TypeOK, SlotsAccountedFor, SlotsMatchWork, HoldsSlot, Lost
  <2> QED BY <2>5, <2>6, <2>7, <2>8, <2>9 DEF Core, SlotsAccountedFor
<1>7. CASE Dispatch(r)
  <2> DEFINE k == req[r].job
  <2>1. Owns(r) /\ k \in Job /\ job[k].work = "registered"
    BY <1>7 DEF Dispatch, Owns, Ownership
  <2>2. /\ job'[k].work = "sent" /\ job'[k].album = job[k].album /\ job'[k].handed = job[k].handed
        /\ \A i \in Job : i # k => job'[i] = job[i]
    BY <1>7, <2>1 DEF Dispatch, TypeOK, JobRecord
  <2>3. /\ ~ Owns(r)'
        /\ req'[r].pc # "idle" => req'[r].album \in Album
        /\ \A s \in Request : s # r => req'[s] = req[s]
    BY <1>7, ProceedFacts DEF Dispatch, Owns
  <2>4. faults' = faults /\ active' = active
    BY <1>7 DEF Dispatch, redisVars
  <2> HIDE DEF k
  <2>5. AlbumsKnown'
    BY <2>1, <2>2, <2>3 DEF AlbumsKnown, HoldsSlot
  <2>6. Ownership'
    <3>1. \A s \in Request : s # r /\ Owns(s) => req[s].job # k
      BY <2>1 DEF Ownership, k
    <3>2. \A i \in Job : Hands(i) => job[i].handed # k
      BY <2>1 DEF Ownership, k
    <3> QED BY <2>1, <2>2, <2>3, <3>1, <3>2 DEF Ownership, Owns, Hands
  <2>7. UndoAfterFault'
    BY <2>2, <2>3, <2>4 DEF UndoAfterFault, Owns
  <2>8. Cardinality(Lost') <= faults'
    BY <2>2, <2>4, NoneLost
  <2>9. SlotsMatchWork'
    BY <2>1, <2>2, <2>4 DEF TypeOK, SlotsAccountedFor, SlotsMatchWork, HoldsSlot, Lost
  <2> QED BY <2>5, <2>6, <2>7, <2>8, <2>9 DEF Core, SlotsAccountedFor
<1>8. CASE UndoDispatch(r)
  <2> DEFINE k == req[r].job
  <2>1. Owns(r) /\ k \in Job /\ job[k].work = "registered" /\ faults > 0
    BY <1>8 DEF UndoDispatch, Owns, Ownership, UndoAfterFault
  <2>2. /\ job'[k].work = "free" /\ job'[k].handed = NoJob
        /\ \A i \in Job : i # k => job'[i] = job[i]
    BY <1>8, <2>1 DEF UndoDispatch, TypeOK, Free
  <2>3. /\ req'[r].pc \in {"idle", "enqueue"}
        /\ req'[r].pc = "enqueue" => req'[r].album = req[r].album
        /\ \A s \in Request : s # r => req'[s] = req[s]
    BY <1>8 DEF UndoDispatch, TypeOK, Handler, Idle
  <2>4. faults' = faults /\ active' = active \ {k} /\ req[r].pc = "undo"
    BY <1>8 DEF UndoDispatch
  <2>a. \A s \in Request : s # r /\ Owns(s) => req[s].job # k
    BY <2>1 DEF Ownership
  <2>b. \A i \in Job : Hands(i) => job[i].handed # k
    BY <2>1 DEF Ownership
  <2> HIDE DEF k
  <2>5. AlbumsKnown'
    BY <1>a, <2>1, <2>2, <2>3, <2>4 DEF AlbumsKnown, HoldsSlot
  <2>6. Ownership'
    BY <2>1, <2>2, <2>3, <2>a, <2>b DEF Ownership, Owns, Hands
  <2>7. UndoAfterFault'
    BY <2>2, <2>3, <2>4 DEF UndoAfterFault
  <2>8. Cardinality(Lost') <= faults'
    BY <2>2, <2>4, NoneLost
  <2>9. SlotsMatchWork'
    BY <2>1, <2>2, <2>4 DEF TypeOK, SlotsAccountedFor, SlotsMatchWork, HoldsSlot, Lost
  <2> QED BY <2>5, <2>6, <2>7, <2>8, <2>9 DEF Core, SlotsAccountedFor
<1>9. CASE Enqueue(r)
  <2>1. /\ ~ Owns(r)'
        /\ req'[r].pc # "idle" => req'[r].album \in Album
        /\ \A s \in Request : s # r => req'[s] = req[s]
    BY <1>9, ProceedFacts DEF Enqueue, Owns
  <2>2. faults' = faults /\ active' = active
    BY <1>9 DEF Enqueue
  <2>3. CASE job' = job
    BY <2>1, <2>2, <2>3, QuietHandler
  <2>4. ASSUME NEW k \in Job, job[k] = Free,
               job' = [job EXCEPT ![k] = [Free EXCEPT !.work = "ticket",
                                                      !.status = "queued"]]
        PROVE  Core'
    <3>1. /\ job[k].work = "free" /\ job'[k].work = "ticket" /\ job'[k].handed = NoJob
          /\ \A i \in Job : i # k => job'[i] = job[i]
      BY <2>4 DEF TypeOK, Free
    <3>2. AlbumsKnown'
      BY <2>1, <3>1 DEF AlbumsKnown, HoldsSlot
    <3>3. Ownership'
      BY <2>1, <3>1 DEF Ownership, Owns, Hands
    <3>4. UndoAfterFault'
      BY <2>1, <2>2, <3>1 DEF UndoAfterFault, Owns
    <3>5. Cardinality(Lost') <= faults'
      BY <2>2, <3>1, NoneLost
    <3>6. SlotsMatchWork'
      BY <2>2, <3>1 DEF TypeOK, SlotsAccountedFor, SlotsMatchWork, HoldsSlot, Lost
    <3> QED BY <3>2, <3>3, <3>4, <3>5, <3>6 DEF Core, SlotsAccountedFor
  <2> QED BY <1>9, <2>3, <2>4 DEF Enqueue
<1> QED BY <1>1, <1>2, <1>3, <1>4, <1>5, <1>6, <1>7, <1>8, <1>9 DEF HandlerStep

LEMMA OtherHandlerCore ==
  ASSUME IInv, TypeOK', NEW r \in Request, OtherHandlerStep(r)
  PROVE  Core'
<1> USE DEF IInv
<1>1. ASSUME NEW a \in Album, NEW f \in BOOLEAN, AnalyzeAlbum(r, a, f)
      PROVE  Core'
  <2>1. /\ req'[r].pc \in {"queue", "cache"} /\ req'[r].album = a
        /\ \A s \in Request : s # r => req'[s] = req[s]
    BY <1>1 DEF AnalyzeAlbum, TypeOK, Idle
  <2> QED BY <1>1, <2>1, QuietHandler DEF AnalyzeAlbum, redisVars, Owns
<1>2. ASSUME NEW f \in BOOLEAN, AnalyzeFolder(r, f)
      PROVE  Core'
  <2>1. /\ req'[r].pc = "queue" /\ req'[r].album \in Album
        /\ \A s \in Request : s # r => req'[s] = req[s]
    BY <1>2 DEF AnalyzeFolder, TypeOK, Idle
  <2> QED BY <1>2, <2>1, QuietHandler DEF AnalyzeFolder, redisVars, Owns
<1>3. CASE DispatchFails(r)
  <2> DEFINE k == req[r].job
  <2>1. Owns(r) /\ k \in Job /\ job[k].work = "registered" /\ req[r].pc = "dispatch"
    BY <1>3 DEF DispatchFails, Owns, Ownership
  <2>2. /\ job'[k].work = "registered" /\ job'[k].album = job[k].album
        /\ job'[k].handed = job[k].handed
        /\ \A i \in Job : i # k => job'[i] = job[i]
    BY <1>3, <2>1 DEF DispatchFails, TypeOK, JobRecord
  <2>3. /\ req'[r].pc = "undo" /\ req'[r].album = req[r].album /\ req'[r].job = k
        /\ \A s \in Request : s # r => req'[s] = req[s]
    BY <1>3, GotoFacts DEF DispatchFails
  <2>4. faults' = faults + 1 /\ active' = active
    BY <1>3 DEF DispatchFails, redisVars
  <2>a. faults \in Nat
    BY FaultAssumption DEF TypeOK
  <2> HIDE DEF k
  <2>5. AlbumsKnown'
    BY <2>1, <2>2, <2>3 DEF AlbumsKnown, HoldsSlot
  <2>6. Ownership'
    BY <2>1, <2>2, <2>3 DEF Ownership, Owns, Hands, k
  <2>7. UndoAfterFault'
    BY <2>2, <2>4, <2>a DEF UndoAfterFault
  <2>8. Cardinality(Lost') <= faults'
    BY <2>2, <2>4, OneLost
  <2>9. SlotsMatchWork'
    BY <2>1, <2>2, <2>4 DEF TypeOK, SlotsAccountedFor, SlotsMatchWork, HoldsSlot, Lost
  <2> QED BY <2>5, <2>6, <2>7, <2>8, <2>9 DEF Core, SlotsAccountedFor
<1>4. CASE HandlerCrash(r)
  <2> DEFINE k == req[r].job
  <2>1. /\ req'[r].pc = "idle"
        /\ \A s \in Request : s # r => req'[s] = req[s]
    BY <1>4 DEF HandlerCrash, TypeOK, Idle
  <2>2. faults' = faults + 1 /\ active' = active
    BY <1>4 DEF HandlerCrash, redisVars
  <2>a. faults \in Nat
    BY FaultAssumption DEF TypeOK
  <2>3. CASE job' = job
    <3>1. AlbumsKnown' BY <2>1, <2>3 DEF AlbumsKnown, HoldsSlot
    <3>2. Ownership' BY <2>1, <2>3 DEF Ownership, Owns, Hands
    <3>3. UndoAfterFault' BY <2>2, <2>a DEF UndoAfterFault
    <3>4. Cardinality(Lost') <= faults' BY <2>2, <2>3, OneLost
    <3>5. SlotsMatchWork' BY <2>2, <2>3 DEF TypeOK, SlotsAccountedFor, SlotsMatchWork, HoldsSlot, Lost
    <3> QED BY <3>1, <3>2, <3>3, <3>4, <3>5 DEF Core, SlotsAccountedFor
  <2>4. ASSUME Owns(r), job' = [job EXCEPT ![k].work = "lost"]
        PROVE  Core'
    <3>1. k \in Job /\ job[k].work = "registered"
      BY <2>4 DEF Ownership
    <3>2. /\ job'[k].work = "lost" /\ job'[k].handed = job[k].handed
          /\ \A i \in Job : i # k => job'[i] = job[i]
      BY <2>4, <3>1 DEF TypeOK, JobRecord
    <3>3. \A s \in Request : s # r /\ Owns(s) => req[s].job # k
      BY <2>4 DEF Ownership
    <3>4. \A i \in Job : Hands(i) => job[i].handed # k
      BY <2>4 DEF Ownership
    <3> HIDE DEF k
    <3>5. AlbumsKnown' BY <2>1, <3>1, <3>2 DEF AlbumsKnown, HoldsSlot
    <3>6. Ownership' BY <2>1, <3>1, <3>2, <3>3, <3>4 DEF Ownership, Owns, Hands
    <3>7. UndoAfterFault' BY <2>2, <2>a DEF UndoAfterFault
    <3>8. Cardinality(Lost') <= faults' BY <2>2, <3>2, OneLost
    <3>9. SlotsMatchWork'
      BY <2>2, <3>1, <3>2 DEF TypeOK, SlotsAccountedFor, SlotsMatchWork, HoldsSlot, Lost
    <3> QED BY <3>5, <3>6, <3>7, <3>8, <3>9 DEF Core, SlotsAccountedFor
  <2> QED BY <1>4, <2>3, <2>4 DEF HandlerCrash, Owns
<1> QED BY <1>1, <1>2, <1>3, <1>4 DEF OtherHandlerStep

\* A task goes from one state with a slot to another.
LEMMA TaskMoves ==
  ASSUME IInv, TypeOK', NEW j \in Job, NEW from, NEW to, NEW s,
         from \in {"sent", "running", "stored"}, to \in {"running", "stored", "ending"},
         Step(j, from, to, s), active' = active, req' = req, faults' = faults
  PROVE  Core'
<1> USE DEF IInv
<1>1. /\ job[j].work = from /\ job'[j].work = to
      /\ job'[j].album = job[j].album /\ job'[j].handed = job[j].handed
      /\ \A i \in Job : i # j => job'[i] = job[i]
  BY DEF Step, TypeOK, JobRecord
<1>2. AlbumsKnown'
  BY <1>1 DEF AlbumsKnown, HoldsSlot
<1>3. Ownership'
  BY <1>1 DEF Ownership, Owns, Hands
<1>4. UndoAfterFault'
  BY <1>1 DEF UndoAfterFault
<1>5. Cardinality(Lost') <= faults'
  BY <1>1, NoneLost
<1>6. SlotsMatchWork'
  BY <1>1 DEF TypeOK, SlotsAccountedFor, SlotsMatchWork, HoldsSlot, Lost
<1> QED BY <1>2, <1>3, <1>4, <1>5, <1>6 DEF Core, SlotsAccountedFor

LEMMA TaskCore ==
  ASSUME IInv, TypeOK', NEW j \in Job,
         TaskStep(j) \/ TaskHandOffFails(j) \/ TaskCrash(j) \/ TicketExpires(j)
  PROVE  Core'
<1> USE DEF IInv
<1>1. CASE TaskStart(j)
  BY <1>1, TaskMoves DEF TaskStart, redisVars
<1>2. ASSUME NEW d \in BOOLEAN, TaskStore(j, d)
      PROVE  Core'
  BY <1>2, TaskMoves DEF TaskStore
<1>3. CASE TaskRecord(j)
  BY <1>3, TaskMoves DEF TaskRecord, redisVars
<1>4. CASE TaskFail(j)
  BY <1>4, TaskMoves DEF TaskFail, redisVars
<1>5. CASE TaskUnregister(j)
  <2>1. /\ job[j].work = "ending" /\ job'[j].work = "draining"
        /\ job'[j].handed = job[j].handed
        /\ \A i \in Job : i # j => job'[i] = job[i]
    BY <1>5 DEF TaskUnregister, Step, TypeOK, JobRecord
  <2>2. active' = active \ {j} /\ req' = req /\ faults' = faults
    BY <1>5 DEF TaskUnregister
  <2>3. AlbumsKnown'
    BY <2>1, <2>2 DEF AlbumsKnown, HoldsSlot
  <2>4. Ownership'
    BY <2>1, <2>2 DEF Ownership, Owns, Hands
  <2>5. UndoAfterFault'
    BY <2>1, <2>2 DEF UndoAfterFault
  <2>6. Cardinality(Lost') <= faults'
    BY <2>1, <2>2, NoneLost
  <2>7. SlotsMatchWork'
    BY <2>1, <2>2 DEF TypeOK, SlotsAccountedFor, SlotsMatchWork, HoldsSlot, Lost
  <2> QED BY <2>3, <2>4, <2>5, <2>6, <2>7 DEF Core, SlotsAccountedFor
<1>6. CASE TaskDrain(j)
  <2>0. job[j].work = "draining" /\ job[j].handed = NoJob /\ req' = req /\ faults' = faults
    BY <1>6 DEF TaskDrain, Ownership, Hands
  <2>1. ASSUME NEW k \in Job, job[k] = Free, queue # <<>>,
               active' = active \cup {k},
               job' = [job EXCEPT ![j].work = "handing", ![j].handed = k,
                                  ![k] = Registered(Head(queue))]
        PROVE  Core'
    <3>1. k # j /\ job[k].work = "free" /\ job[k].handed = NoJob /\ Head(queue) \in Album
      BY <2>0, <2>1 DEF TypeOK, Free
    <3>2. /\ job'[j].work = "handing" /\ job'[j].handed = k
          /\ job'[k].work = "registered" /\ job'[k].album = Head(queue)
          /\ job'[k].handed = NoJob
          /\ \A i \in Job : i # j /\ i # k => job'[i] = job[i]
      BY <2>1, <3>1 DEF TypeOK, JobRecord, Registered, Free
    <3>3. AlbumsKnown'
      BY <2>0, <3>1, <3>2 DEF AlbumsKnown, HoldsSlot
    <3>4. Ownership'
      BY <2>0, <3>1, <3>2 DEF Ownership, Owns, Hands
    <3>5. UndoAfterFault'
      BY <2>0, <3>2 DEF UndoAfterFault
    <3>6. Cardinality(Lost') <= faults'
      BY <2>0, <3>2, NoneLost
    <3>7. SlotsMatchWork'
      BY <2>0, <2>1, <3>1, <3>2 DEF TypeOK, SlotsAccountedFor, SlotsMatchWork, HoldsSlot, Lost
    <3> QED BY <3>3, <3>4, <3>5, <3>6, <3>7 DEF Core, SlotsAccountedFor
  <2>2. ASSUME job' = [job EXCEPT ![j] = Free], UNCHANGED <<queue, active>>
        PROVE  Core'
    <3>1. /\ job'[j].work = "free" /\ job'[j].handed = NoJob
          /\ \A i \in Job : i # j => job'[i] = job[i]
      BY <2>2 DEF TypeOK, Free
    <3>2. AlbumsKnown'
      BY <2>0, <3>1 DEF AlbumsKnown, HoldsSlot
    <3>3. Ownership'
      BY <2>0, <3>1 DEF Ownership, Owns, Hands
    <3>4. UndoAfterFault'
      BY <2>0, <3>1 DEF UndoAfterFault
    <3>5. Cardinality(Lost') <= faults'
      BY <2>0, <3>1, NoneLost
    <3>6. SlotsMatchWork'
      BY <2>0, <2>2, <3>1 DEF TypeOK, SlotsAccountedFor, SlotsMatchWork, HoldsSlot, Lost
    <3> QED BY <3>2, <3>3, <3>4, <3>5, <3>6 DEF Core, SlotsAccountedFor
  <2> QED BY <1>6, <2>1, <2>2 DEF TaskDrain
<1>7. CASE TaskHandOff(j)
  <2> DEFINE k == job[j].handed
  <2>1. /\ Hands(j) /\ job[j].work = "handing"
        /\ k \in Job /\ job[k].work = "registered" /\ k # j
    BY <1>7 DEF TaskHandOff, Hands, Ownership
  <2>2. /\ job'[j].work = "free" /\ job'[j].handed = NoJob
        /\ job'[k].work = "sent" /\ job'[k].album = job[k].album
        /\ job'[k].handed = job[k].handed
        /\ \A i \in Job : i # j /\ i # k => job'[i] = job[i]
    BY <1>7, <2>1 DEF TaskHandOff, TypeOK, JobRecord, Free
  <2>3. active' = active /\ req' = req /\ faults' = faults
    BY <1>7 DEF TaskHandOff, redisVars
  <2>a. \A r \in Request : Owns(r) => req[r].job # k
    BY <2>1 DEF Ownership
  <2>b. \A i \in Job : i # j /\ Hands(i) => job[i].handed # k
    BY <2>1 DEF Ownership
  <2> HIDE DEF k
  <2>4. AlbumsKnown'
    BY <2>1, <2>2, <2>3 DEF AlbumsKnown, HoldsSlot
  <2>5. Ownership'
    BY <2>1, <2>2, <2>3, <2>a, <2>b DEF Ownership, Owns, Hands
  <2>6. UndoAfterFault'
    BY <2>2, <2>3 DEF UndoAfterFault
  <2>7. Cardinality(Lost') <= faults'
    BY <2>2, <2>3, NoneLost
  <2>8. SlotsMatchWork'
    BY <2>1, <2>2, <2>3 DEF TypeOK, SlotsAccountedFor, SlotsMatchWork, HoldsSlot, Lost
  <2> QED BY <2>4, <2>5, <2>6, <2>7, <2>8 DEF Core, SlotsAccountedFor
<1>8. CASE TaskUndoHandOff(j)
  <2> DEFINE k == job[j].handed
  <2>1. /\ Hands(j) /\ job[j].work = "undo"
        /\ k \in Job /\ job[k].work = "registered" /\ k # j
    BY <1>8 DEF TaskUndoHandOff, Hands, Ownership
  <2>2. /\ job'[j].work = "free" /\ job'[j].handed = NoJob
        /\ job'[k].work = "free" /\ job'[k].handed = NoJob
        /\ \A i \in Job : i # j /\ i # k => job'[i] = job[i]
    BY <1>8, <2>1 DEF TaskUndoHandOff, TypeOK, Free
  <2>3. active' = active \ {k} /\ req' = req /\ faults' = faults
    BY <1>8 DEF TaskUndoHandOff
  <2>a. \A r \in Request : Owns(r) => req[r].job # k
    BY <2>1 DEF Ownership
  <2>b. \A i \in Job : i # j /\ Hands(i) => job[i].handed # k
    BY <2>1 DEF Ownership
  <2> HIDE DEF k
  <2>4. AlbumsKnown'
    BY <2>1, <2>2, <2>3 DEF AlbumsKnown, HoldsSlot
  <2>5. Ownership'
    BY <2>1, <2>2, <2>3, <2>a, <2>b DEF Ownership, Owns, Hands
  <2>6. UndoAfterFault'
    BY <2>2, <2>3 DEF UndoAfterFault
  <2>7. Cardinality(Lost') <= faults'
    BY <2>2, <2>3, NoneLost
  <2>8. SlotsMatchWork'
    BY <2>1, <2>2, <2>3 DEF TypeOK, SlotsAccountedFor, SlotsMatchWork, HoldsSlot, Lost
  <2> QED BY <2>4, <2>5, <2>6, <2>7, <2>8 DEF Core, SlotsAccountedFor
<1>9. CASE TaskHandOffFails(j)
  <2> DEFINE k == job[j].handed
  <2>1. /\ Hands(j) /\ job[j].work = "handing"
        /\ k \in Job /\ job[k].work = "registered" /\ k # j
    BY <1>9 DEF TaskHandOffFails, Hands, Ownership
  <2>2. /\ job'[j].work = "undo" /\ job'[j].handed = k
        /\ job'[k].work = "registered" /\ job'[k].album = job[k].album
        /\ job'[k].handed = job[k].handed
        /\ \A i \in Job : i # j /\ i # k => job'[i] = job[i]
    BY <1>9, <2>1 DEF TaskHandOffFails, TypeOK, JobRecord
  <2>3. active' = active /\ req' = req /\ faults' = faults + 1
    BY <1>9 DEF TaskHandOffFails, redisVars
  <2>a. faults \in Nat
    BY FaultAssumption DEF TypeOK
  <2>b. \A r \in Request : Owns(r) => req[r].job # k
    BY <2>1 DEF Ownership
  <2>c. \A i \in Job : i # j /\ Hands(i) => job[i].handed # k
    BY <2>1 DEF Ownership
  <2> HIDE DEF k
  <2>4. AlbumsKnown'
    BY <2>1, <2>2, <2>3 DEF AlbumsKnown, HoldsSlot
  <2>5. Ownership'
    BY <2>1, <2>2, <2>3, <2>b, <2>c DEF Ownership, Owns, Hands
  <2>6. UndoAfterFault'
    BY <2>3, <2>a DEF UndoAfterFault
  <2>7. Cardinality(Lost') <= faults'
    BY <2>2, <2>3, OneLost
  <2>8. SlotsMatchWork'
    BY <2>1, <2>2, <2>3 DEF TypeOK, SlotsAccountedFor, SlotsMatchWork, HoldsSlot, Lost
  <2> QED BY <2>4, <2>5, <2>6, <2>7, <2>8 DEF Core, SlotsAccountedFor
<1>10. CASE TicketExpires(j)
  <2>1. /\ job[j].work = "ticket" /\ job'[j].work = "free" /\ job'[j].handed = NoJob
        /\ \A i \in Job : i # j => job'[i] = job[i]
    BY <1>10 DEF TicketExpires, TypeOK, Free
  <2>2. active' = active /\ req' = req /\ faults' = faults
    BY <1>10 DEF TicketExpires, redisVars
  <2>3. AlbumsKnown'
    BY <2>1, <2>2 DEF AlbumsKnown, HoldsSlot
  <2>4. Ownership'
    BY <2>1, <2>2 DEF Ownership, Owns, Hands
  <2>5. UndoAfterFault'
    BY <2>1, <2>2 DEF UndoAfterFault
  <2>6. Cardinality(Lost') <= faults'
    BY <2>1, <2>2, NoneLost
  <2>7. SlotsMatchWork'
    BY <2>1, <2>2 DEF TypeOK, SlotsAccountedFor, SlotsMatchWork, HoldsSlot, Lost
  <2> QED BY <2>3, <2>4, <2>5, <2>6, <2>7 DEF Core, SlotsAccountedFor
<1>11. CASE TaskCrash(j)
  <2> DEFINE k == job[j].handed
  <2>1. /\ faults' = faults + 1 /\ active' = active /\ req' = req
        /\ InWorker(j)
    BY <1>11 DEF TaskCrash, redisVars
  <2>2. \A i \in Job :
          /\ i # j /\ i # k => job'[i] = job[i]
          /\ i = j \/ i = k => /\ job'[i].work = (IF i \in active THEN "lost" ELSE "free")
                               /\ job'[i].handed = NoJob
    BY <1>11, ZenonT(30) DEF TaskCrash, TypeOK, JobRecord, Free
  <2>3. CASE Hands(j)
    <3>1. k \in Job /\ job[k].work = "registered" /\ k # j /\ j \notin active
      BY <2>3 DEF Ownership, Hands, SlotsAccountedFor, SlotsMatchWork, HoldsSlot, Lost
    <3>2. k \in active
      BY <3>1 DEF SlotsAccountedFor, SlotsMatchWork, HoldsSlot
    <3>3. /\ job'[k].work = "lost" /\ job'[k].handed = NoJob
          /\ job'[j].work = "free" /\ job'[j].handed = NoJob
          /\ \A i \in Job : i # j /\ i # k => job'[i] = job[i]
      BY <2>2, <3>1, <3>2
    <3>a. faults \in Nat
      BY FaultAssumption DEF TypeOK
    <3>b. \A r \in Request : Owns(r) => req[r].job # k
      BY <2>3 DEF Ownership
    <3>c. \A i \in Job : i # j /\ Hands(i) => job[i].handed # k
      BY <2>3 DEF Ownership
    <3>d. job[j].work \in {"handing", "undo"}
      BY <2>3 DEF Hands
    <3> HIDE DEF k
    <3>4. AlbumsKnown'
      BY <2>1, <3>3 DEF AlbumsKnown, HoldsSlot
    <3>5. Ownership'
      BY <2>1, <3>1, <3>3, <3>b, <3>c, <3>d DEF Ownership, Owns, Hands
    <3>6. UndoAfterFault'
      BY <2>1, <3>a DEF UndoAfterFault
    <3>7. Cardinality(Lost') <= faults'
      BY <2>1, <3>3, OneLost
    <3>8. SlotsMatchWork'
      BY <2>1, <3>1, <3>2, <3>3 DEF TypeOK, SlotsAccountedFor, SlotsMatchWork, HoldsSlot, Lost
    <3> QED BY <3>4, <3>5, <3>6, <3>7, <3>8 DEF Core, SlotsAccountedFor
  <2>4. CASE ~ Hands(j)
    <3>1. /\ k \notin Job
          /\ job[j].work \in {"running", "stored", "ending", "draining"}
      BY <2>1, <2>4, NullAssumption DEF Ownership, Hands, InWorker
    <3>2. /\ job'[j].work = (IF j \in active THEN "lost" ELSE "free")
          /\ job'[j].handed = NoJob
          /\ \A i \in Job : i # j => job'[i] = job[i]
      BY <2>2, <3>1
    <3>a. faults \in Nat
      BY FaultAssumption DEF TypeOK
    <3>3. AlbumsKnown'
      BY <2>1, <3>2 DEF AlbumsKnown, HoldsSlot
    <3>4. Ownership'
      BY <2>1, <2>4, <3>1, <3>2 DEF Ownership, Owns, Hands
    <3>5. UndoAfterFault'
      BY <2>1, <3>a DEF UndoAfterFault
    <3>6. Cardinality(Lost') <= faults'
      BY <2>1, <3>2, OneLost
    <3>7. SlotsMatchWork'
      BY <2>1, <3>1, <3>2 DEF TypeOK, SlotsAccountedFor, SlotsMatchWork, HoldsSlot, Lost
    <3> QED BY <3>3, <3>4, <3>5, <3>6, <3>7 DEF Core, SlotsAccountedFor
  <2> QED BY <2>3, <2>4
<1> QED BY <1>1, <1>2, <1>3, <1>4, <1>5, <1>6, <1>7, <1>8, <1>9, <1>10, <1>11 DEF TaskStep

(***************************************************************************)
(* IInv is inductive                                                       *)
(***************************************************************************)

LEMMA InvInit == Init => IInv
<1> SUFFICES ASSUME Init PROVE IInv
  OBVIOUS
<1>1. TypeOK
  BY TypeInit
<1>2. /\ \A j \in Job : job[j].work = "free" /\ job[j].handed = NoJob
      /\ \A r \in Request : req[r].pc = "idle"
      /\ active = {} /\ faults = 0
  BY DEF Init, Free, Idle
<1>3. AlbumsKnown /\ Ownership /\ UndoAfterFault /\ SlotsMatchWork
  BY <1>2 DEF AlbumsKnown, Ownership, UndoAfterFault, SlotsMatchWork, HoldsSlot, Owns, Hands
<1>4. Lost = {}
  BY <1>2 DEF Lost
<1>5. Cardinality(Lost) <= faults
  BY <1>2, <1>4, FS_EmptySet
<1> QED BY <1>1, <1>3, <1>5 DEF IInv, SlotsAccountedFor

LEMMA InvStep == IInv /\ [Next]_vars => IInv'
<1> SUFFICES ASSUME IInv, [Next]_vars PROVE IInv'
  OBVIOUS
<1>1. ASSUME NEW r \in Request, HandlerStep(r) PROVE IInv'
  BY <1>1, HandlerTypes, HandlerCore DEF IInv, Core
<1>2. ASSUME NEW r \in Request, OtherHandlerStep(r) PROVE IInv'
  BY <1>2, OtherHandlerTypes, OtherHandlerCore DEF IInv, Core
<1>3. ASSUME NEW j \in Job,
             TaskStep(j) \/ TaskHandOffFails(j) \/ TaskCrash(j) \/ TicketExpires(j)
      PROVE  IInv'
  BY <1>3, TaskTypes, TaskCore DEF IInv, Core
<1>4. CASE UNCHANGED vars
  BY <1>4 DEF vars, IInv, TypeOK, AlbumsKnown, Ownership, SlotsAccountedFor, SlotsMatchWork,
              UndoAfterFault, HoldsSlot, Lost, Owns, Hands
<1> QED BY <1>1, <1>2, <1>3, <1>4, NextCases

\* Every reachable state is well typed and has its slots and its registered
\* jobs accounted for.
THEOREM Invariance == Spec => []IInv
BY InvInit, InvStep, PTL DEF Spec

\* Type correctness of the queue, the active hash, the jobs and the handlers.
THEOREM TypeCorrect == Spec => []TypeOK
<1>1. IInv => TypeOK BY DEF IInv
<1> QED BY <1>1, Invariance, PTL

\* A slot is never leaked but by a process that died, and then at most one:
\* the finally of analyze_album_task and the handlers of a failed dispatch
\* give back every other.
THEOREM SlotsCorrect == Spec => []SlotsAccountedFor
<1>1. IInv => SlotsAccountedFor BY DEF IInv
<1> QED BY <1>1, Invariance, PTL

(***************************************************************************)
(* How far the cap can be overshot                                         *)
(***************************************************************************)

LEMMA SetSizes ==
  ASSUME TypeOK
  PROVE  /\ IsFiniteSet(active) /\ Cardinality(active) \in Nat
         /\ IsFiniteSet(Deciding) /\ Cardinality(Deciding) \in Nat
         /\ Cardinality(Deciding) <= Cardinality(Request) /\ Cardinality(Request) \in Nat
<1>1. active \in SUBSET Job /\ Deciding \in SUBSET Request
  BY DEF TypeOK, Deciding
<1> QED BY <1>1, FiniteSetAssumption, FS_Subset, FS_CardinalityType

LEMMA SetSizesNext ==
  ASSUME TypeOK'
  PROVE  /\ IsFiniteSet(active') /\ Cardinality(active') \in Nat
         /\ IsFiniteSet(Deciding') /\ Cardinality(Deciding') \in Nat
         /\ Cardinality(Deciding') <= Cardinality(Request)
<1>1. active' \in SUBSET Job /\ Deciding' \in SUBSET Request
  BY DEF TypeOK, Deciding
<1> QED BY <1>1, FiniteSetAssumption, FS_Subset, FS_CardinalityType

LEMMA OneMore ==
  ASSUME TypeOK, NEW k, active' = active \cup {k}
  PROVE  Cardinality(active') <= Cardinality(active) + 1
<1>1. Cardinality(active \cup {k}) = IF k \in active THEN Cardinality(active)
                                                     ELSE Cardinality(active) + 1
  BY SetSizes, FS_AddElement
<1> QED BY <1>1, SetSizes

\* A step that adds neither an entry nor a decision.
LEMMA NoGrowth ==
  ASSUME TypeOK, TypeOK', OvershootBounded,
         active' \subseteq active, Deciding' \subseteq Deciding
  PROVE  OvershootBounded'
<1>1. Cardinality(active') <= Cardinality(active)
  BY SetSizes, FS_Subset
<1>2. Cardinality(Deciding') <= Cardinality(Deciding)
  BY SetSizes, FS_Subset
<1> QED BY <1>1, <1>2, SetSizes, SetSizesNext, CapAssumption DEF OvershootBounded

\* A step that leaves at most Cap entries.
LEMMA UnderCap ==
  ASSUME TypeOK, TypeOK', Cardinality(active') <= Cap
  PROVE  OvershootBounded'
BY SetSizes, SetSizesNext, CapAssumption DEF OvershootBounded

LEMMA OvershootHandler ==
  ASSUME IInv, IInv', OvershootBounded, NEW r \in Request, HandlerStep(r)
  PROVE  OvershootBounded'
<1> USE DEF IInv
<1>1. CASE /\ active' \subseteq active
           /\ req'[r].pc # "register"
           /\ \A s \in Request : s # r => req'[s] = req[s]
  <2>1. Deciding' \subseteq Deciding
    BY <1>1 DEF Deciding
  <2> QED BY <1>1, <2>1, NoGrowth
<1>2. CASE CheckCache(r)
  BY <1>1, <1>2, ProceedFacts, GotoFacts DEF CheckCache, redisVars
<1>3. CASE CheckQueue(r)
  BY <1>1, <1>3, ProceedFacts, GotoFacts DEF CheckQueue, redisVars
<1>4. CASE CheckActive(r)
  BY <1>1, <1>4, ProceedFacts, GotoFacts DEF CheckActive, redisVars
<1>5. CASE Invalidate(r)
  BY <1>1, <1>5, GotoFacts DEF Invalidate
<1>6. CASE ReadCount(r)
  <2>1. CASE Cardinality(active) < Cap
    <3>1. Cardinality(active') <= Cap
      BY <1>6, <2>1, SetSizes, CapAssumption DEF ReadCount, redisVars
    <3> QED BY <3>1, UnderCap
  <2>2. CASE ~ (Cardinality(active) < Cap)
    BY <1>1, <1>6, <2>2, GotoFacts DEF ReadCount, redisVars
  <2> QED BY <2>1, <2>2
<1>7. CASE Register(r)
  <2>1. PICK k \in Job : active' = active \cup {k}
    BY <1>7 DEF Register
  <2>2. Deciding' = Deciding \ {r} /\ r \in Deciding
    <3>1. /\ req[r].pc = "register" /\ req'[r].pc = "dispatch"
          /\ \A s \in Request : s # r => req'[s] = req[s]
      BY <1>7 DEF Register, TypeOK, Handler
    <3> QED BY <3>1 DEF Deciding
  <2>3. Cardinality(active') <= Cardinality(active) + 1
    BY <2>1, OneMore
  <2>4. Cardinality(Deciding') = Cardinality(Deciding) - 1
    BY <2>2, SetSizes, FS_RemoveElement
  <2> QED BY <2>3, <2>4, SetSizes, SetSizesNext, CapAssumption DEF OvershootBounded
<1>8. CASE Dispatch(r)
  BY <1>1, <1>8, ProceedFacts DEF Dispatch, redisVars
<1>9. CASE UndoDispatch(r)
  <2>1. /\ req'[r].pc # "register"
        /\ \A s \in Request : s # r => req'[s] = req[s]
    BY <1>9 DEF UndoDispatch, TypeOK, Handler, Idle
  <2> QED BY <1>1, <1>9, <2>1 DEF UndoDispatch
<1>10. CASE Enqueue(r)
  BY <1>1, <1>10, ProceedFacts DEF Enqueue
<1> QED BY <1>2, <1>3, <1>4, <1>5, <1>6, <1>7, <1>8, <1>9, <1>10 DEF HandlerStep

LEMMA OvershootOther ==
  ASSUME IInv, IInv', OvershootBounded, NEW r \in Request, OtherHandlerStep(r)
  PROVE  OvershootBounded'
<1> USE DEF IInv
<1>1. active' = active
  BY DEF OtherHandlerStep, AnalyzeAlbum, AnalyzeFolder, DispatchFails, HandlerCrash, redisVars
<1>2. req'[r].pc # "register" /\ \A s \in Request : s # r => req'[s] = req[s]
  <2>1. ASSUME NEW a \in Album, NEW f \in BOOLEAN, AnalyzeAlbum(r, a, f)
        PROVE  req'[r].pc # "register" /\ \A s \in Request : s # r => req'[s] = req[s]
    BY <2>1 DEF AnalyzeAlbum, TypeOK, Idle
  <2>2. ASSUME NEW f \in BOOLEAN, AnalyzeFolder(r, f)
        PROVE  req'[r].pc # "register" /\ \A s \in Request : s # r => req'[s] = req[s]
    BY <2>2 DEF AnalyzeFolder, TypeOK, Idle
  <2>3. CASE DispatchFails(r)
    BY <2>3, GotoFacts DEF DispatchFails
  <2>4. CASE HandlerCrash(r)
    BY <2>4 DEF HandlerCrash, TypeOK, Idle
  <2> QED BY <2>1, <2>2, <2>3, <2>4 DEF OtherHandlerStep
<1>3. Deciding' \subseteq Deciding
  BY <1>2 DEF Deciding
<1> QED BY <1>1, <1>3, NoGrowth

LEMMA OvershootTask ==
  ASSUME IInv, IInv', OvershootBounded, NEW j \in Job,
         TaskStep(j) \/ TaskHandOffFails(j) \/ TaskCrash(j) \/ TicketExpires(j)
  PROVE  OvershootBounded'
<1> USE DEF IInv
<1>1. req' = req
  BY DEF TaskStep, TaskStart, TaskStore, TaskRecord, TaskFail, TaskUnregister, TaskDrain,
         TaskHandOff, TaskUndoHandOff, TaskHandOffFails, TaskCrash, TicketExpires
<1>2. Deciding' = Deciding
  BY <1>1 DEF Deciding
<1>3. CASE TaskDrain(j)
  <2>1. ASSUME NEW k \in Job, Cardinality(active) < Cap, active' = active \cup {k}
        PROVE  OvershootBounded'
    <3>1. Cardinality(active') <= Cardinality(active) + 1
      BY <2>1, OneMore
    <3>2. Cardinality(active') <= Cap
      BY <2>1, <3>1, SetSizes, SetSizesNext, CapAssumption
    <3> QED BY <3>2, UnderCap
  <2> QED BY <1>2, <1>3, <2>1, NoGrowth DEF TaskDrain
<1>4. CASE ~ TaskDrain(j)
  <2>1. active' \subseteq active
    BY <1>4 DEF TaskStep, TaskStart, TaskStore, TaskRecord, TaskFail, TaskUnregister,
         TaskHandOff, TaskUndoHandOff, TaskHandOffFails, TaskCrash, TicketExpires, redisVars
  <2> QED BY <1>2, <2>1, NoGrowth
<1> QED BY <1>3, <1>4

\* The active hash never holds more than Cap plus one job per handler.
THEOREM OvershootCorrect == Spec => []OvershootBounded
<1>1. Init => OvershootBounded
  <2> SUFFICES ASSUME Init PROVE OvershootBounded
    OBVIOUS
  <2>1. active = {} /\ Deciding = {}
    BY DEF Init, Idle, Deciding
  <2> QED BY <2>1, FS_EmptySet, FiniteSetAssumption, FS_CardinalityType, CapAssumption
          DEF OvershootBounded
<1>2. OvershootBounded /\ IInv /\ IInv' /\ [Next]_vars => OvershootBounded'
  <2> SUFFICES ASSUME OvershootBounded, IInv, IInv', [Next]_vars PROVE OvershootBounded'
    OBVIOUS
  <2>1. CASE UNCHANGED vars
    BY <2>1 DEF vars, OvershootBounded, Deciding
  <2> QED BY <2>1, NextCases, OvershootHandler, OvershootOther, OvershootTask
<1> QED BY <1>1, <1>2, Invariance, PTL DEF Spec

(***************************************************************************)
(* Without faults the queue keeps a task to drain it                       *)
(***************************************************************************)

\* A step that leaves the queue alone and every drainer a drainer.
LEMMA DrainersStay ==
  ASSUME QueueHasDrainer, queue' = queue, late' = late, faults' = faults,
         \A j \in Job : WillDrain(j) => WillDrain(j)'
  PROVE  QueueHasDrainer'
BY DEF QueueHasDrainer

\* A step after a fault, or one that leaves some drainer.
LEMMA DrainerExists ==
  ASSUME faults' # 0 \/ \E j \in Job : WillDrain(j)'
  PROVE  QueueHasDrainer'
BY DEF QueueHasDrainer

LEMMA DrainerHandler ==
  ASSUME IInv, IInv', QueueHasDrainer, NEW r \in Request, HandlerStep(r)
  PROVE  QueueHasDrainer'
<1> USE DEF IInv
<1>1. CASE job' = job /\ queue' = queue /\ late' = late /\ faults' = faults
  BY <1>1, DrainersStay DEF WillDrain, HoldsSlot
<1>2. CASE Register(r)
  <2>1. PICK k \in Job : job' = [job EXCEPT ![k] = Registered(req[r].album)]
    BY <1>2 DEF Register
  <2>2. job'[k].work = "registered"
    BY <2>1 DEF TypeOK, Registered, Free
  <2> QED BY <2>2, DrainerExists DEF WillDrain, HoldsSlot
<1>3. CASE Dispatch(r)
  <2>1. req[r].job \in Job /\ job'[req[r].job].work = "sent"
    BY <1>3, SMTT(20) DEF Dispatch, Ownership, Owns, TypeOK, JobRecord
  <2> QED BY <2>1, DrainerExists DEF WillDrain, HoldsSlot
<1>4. CASE UndoDispatch(r)
  <2>1. faults > 0 /\ faults' = faults
    BY <1>4 DEF UndoDispatch, UndoAfterFault
  <2> QED BY <2>1, DrainerExists
<1>5. CASE Enqueue(r)
  <2>1. \A j \in Job : WillDrain(j) => WillDrain(j)'
    <3>1. CASE job' = job
      BY <3>1 DEF WillDrain, HoldsSlot
    <3>2. ASSUME NEW k \in Job, job[k] = Free,
                 job' = [job EXCEPT ![k] = [Free EXCEPT !.work = "ticket",
                                                        !.status = "queued"]]
          PROVE  \A j \in Job : WillDrain(j) => WillDrain(j)'
      <4>1. job[k].work = "free" /\ \A i \in Job : i # k => job'[i] = job[i]
        BY <3>2 DEF TypeOK, Free
      <4> QED BY <4>1 DEF WillDrain, HoldsSlot
    <3> QED BY <1>5, <3>1, <3>2 DEF Enqueue
  <2>2. ~ late' => \E j \in Job : WillDrain(j)
    BY <1>5 DEF Enqueue
  <2>3. ~ late' => \E j \in Job : WillDrain(j)'
    BY <2>1, <2>2
  <2> QED BY <2>3 DEF QueueHasDrainer
<1> QED BY <1>1, <1>2, <1>3, <1>4, <1>5
        DEF HandlerStep, CheckCache, CheckQueue, CheckActive, Invalidate, ReadCount, redisVars

LEMMA DrainerOther ==
  ASSUME IInv, IInv', QueueHasDrainer, NEW r \in Request, OtherHandlerStep(r)
  PROVE  QueueHasDrainer'
<1> USE DEF IInv
<1>1. CASE job' = job /\ queue' = queue /\ late' = late /\ faults' = faults
  BY <1>1, DrainersStay DEF WillDrain, HoldsSlot
<1>2. CASE faults' = faults + 1
  <2>1. faults' # 0
    BY <1>2, FaultAssumption DEF TypeOK
  <2> QED BY <2>1, DrainerExists
<1> QED BY <1>1, <1>2
        DEF OtherHandlerStep, AnalyzeAlbum, AnalyzeFolder, DispatchFails, HandlerCrash, redisVars

LEMMA DrainerTask ==
  ASSUME IInv, IInv', QueueHasDrainer, NEW j \in Job,
         TaskStep(j) \/ TaskHandOffFails(j) \/ TaskCrash(j) \/ TicketExpires(j)
  PROVE  QueueHasDrainer'
<1> USE DEF IInv
<1>1. ASSUME NEW to \in {"running", "stored", "ending", "draining"}, job'[j].work = to
      PROVE  QueueHasDrainer'
  BY <1>1, DrainerExists DEF WillDrain, HoldsSlot
<1>2. ASSUME NEW from, NEW to, NEW s, Step(j, from, to, s)
      PROVE  job'[j].work = to
  BY <1>2 DEF Step, TypeOK, JobRecord
<1>3. CASE TaskStart(j) \/ (\E d \in BOOLEAN : TaskStore(j, d)) \/ TaskRecord(j)
           \/ TaskFail(j) \/ TaskUnregister(j)
  BY <1>1, <1>2, <1>3 DEF TaskStart, TaskStore, TaskRecord, TaskFail, TaskUnregister
<1>4. CASE TaskDrain(j)
  <2>1. ASSUME NEW k \in Job, job[k] = Free,
               job' = [job EXCEPT ![j].work = "handing", ![j].handed = k,
                                  ![k] = Registered(Head(queue))]
        PROVE  QueueHasDrainer'
    <3>1. job'[k].work = "registered"
      BY <2>1 DEF TypeOK, Registered, Free
    <3> QED BY <3>1, DrainerExists DEF WillDrain, HoldsSlot
  <2>2. ASSUME ~ (Cardinality(active) < Cap /\ queue # <<>>),
               job' = [job EXCEPT ![j] = Free], UNCHANGED <<queue, active>>,
               faults = 0
        PROVE  QueueHasDrainer'
    <3>1. CASE queue = <<>>
      BY <2>2, <3>1 DEF QueueHasDrainer
    <3>2. CASE Cardinality(active) >= Cap
      <4>1. active # {}
        BY <3>2, FS_EmptySet, CapAssumption
      <4>2. PICK i \in active : HoldsSlot(i) \/ i \in Lost
        BY <4>1 DEF SlotsAccountedFor, SlotsMatchWork
      <4>3. Lost = {}
        <5>1. Cardinality(Lost) = 0
          BY <2>2, LostFinite DEF SlotsAccountedFor
        <5> QED BY <5>1, LostFinite, FS_EmptySet
      <4>4. i \in Job /\ HoldsSlot(i) /\ i # j
        BY <1>4, <4>2, <4>3 DEF TypeOK, TaskDrain, HoldsSlot
      <4>5. job'[i] = job[i]
        BY <2>2, <4>4 DEF TypeOK
      <4> QED BY <4>4, <4>5, DrainerExists DEF WillDrain, HoldsSlot
    <3> QED BY <2>2, <3>1, <3>2, SetSizes, CapAssumption
  <2>3. faults' = faults
    BY <1>4 DEF TaskDrain
  <2> QED BY <1>4, <2>1, <2>2, <2>3, DrainerExists DEF TaskDrain
<1>5. CASE TaskHandOff(j)
  <2>1. /\ job[j].work = "handing"
        /\ job[j].handed \in Job /\ job[job[j].handed].work = "registered"
    BY <1>5 DEF TaskHandOff, Ownership, Hands
  <2>2. job'[job[j].handed].work = "sent"
    BY <1>5, <2>1 DEF TaskHandOff, TypeOK, JobRecord
  <2> QED BY <2>1, <2>2, DrainerExists DEF WillDrain, HoldsSlot
<1>6. CASE TaskUndoHandOff(j)
  <2>1. faults > 0 /\ faults' = faults
    BY <1>6 DEF TaskUndoHandOff, UndoAfterFault
  <2> QED BY <2>1, DrainerExists
<1>7. CASE TaskHandOffFails(j) \/ TaskCrash(j)
  <2>1. faults' = faults + 1
    BY <1>7 DEF TaskHandOffFails, TaskCrash
  <2>2. faults' # 0
    BY <2>1, FaultAssumption DEF TypeOK
  <2> QED BY <2>2, DrainerExists
<1>8. CASE TicketExpires(j)
  <2>1. job[j].work = "ticket" /\ \A i \in Job : i # j => job'[i] = job[i]
    BY <1>8 DEF TicketExpires, TypeOK
  <2>2. \A i \in Job : WillDrain(i) => WillDrain(i)'
    BY <2>1 DEF WillDrain, HoldsSlot
  <2> QED BY <1>8, <2>2, DrainersStay DEF TicketExpires, redisVars
<1> QED BY <1>3, <1>4, <1>5, <1>6, <1>7, <1>8 DEF TaskStep

\* As long as nothing failed and no album was queued too late, an album on
\* the queue has a task that will hand it on.
THEOREM DrainerCorrect == Spec => []QueueHasDrainer
<1>1. Init => QueueHasDrainer
  BY DEF Init, QueueHasDrainer
<1>2. QueueHasDrainer /\ IInv /\ IInv' /\ [Next]_vars => QueueHasDrainer'
  <2> SUFFICES ASSUME QueueHasDrainer, IInv, IInv', [Next]_vars PROVE QueueHasDrainer'
    OBVIOUS
  <2>1. CASE UNCHANGED vars
    BY <2>1 DEF vars, QueueHasDrainer, WillDrain, HoldsSlot
  <2> QED BY <2>1, NextCases, DrainerHandler, DrainerOther, DrainerTask
<1> QED BY <1>1, <1>2, Invariance, PTL DEF Spec

---------------------------------------------------------------------------
(***************************************************************************)
(* AnalysisQueue implements AnalysisService: under the refinement mapping  *)
(* of AnalysisQueue each step of a handler or a task is one step of the    *)
(* service, or none.                                                       *)
(***************************************************************************)

(***************************************************************************)
(* What a step leaves of the mapped variables                              *)
(***************************************************************************)

LEMMA AtWorkKept ==
  ASSUME active' = active, \A j \in active : job'[j].album = job[j].album
  PROVE  AtWork' = AtWork
BY DEF AtWork

LEMMA AtWorkTakes ==
  ASSUME NEW k \in Job, k \notin active, active' = active \cup {k},
         \A j \in active : job'[j].album = job[j].album
  PROVE  AtWork' = [AtWork EXCEPT ![k] = job'[k].album]
BY DEF AtWork

LEMMA AtWorkEnds ==
  ASSUME NEW k \in Job, active' = active \ {k},
         \A j \in active : j # k => job'[j].album = job[j].album
  PROVE  AtWork' = [AtWork EXCEPT ![k] = NoAlbum]
BY DEF AtWork

LEMMA LostKept ==
  ASSUME \A j \in Job : job'[j].work = "lost" <=> job[j].work = "lost"
  PROVE  Lost' = Lost
BY DEF Lost

\* Only the jobs i and j change, neither is lost before or after, and each of
\* them has no slot or keeps its album.
LEMMA StutterStep ==
  ASSUME IInv, NEW i, NEW j, queue' = queue, active' = active,
         \A k \in Job : k # i /\ k # j => job'[k] = job[k],
         \A k \in {i, j} \cap Job : /\ job[k].work # "lost" /\ job'[k].work # "lost"
                                    /\ k \in active => job'[k].album = job[k].album
  PROVE  UNCHANGED Service!serviceVars
<1>1. AtWork' = AtWork
  BY AtWorkKept DEF IInv, TypeOK
<1>2. Lost' = Lost
  BY LostKept
<1> QED BY <1>1, <1>2 DEF Service!serviceVars

LEMMA NoJobStutters ==
  ASSUME queue' = queue, active' = active, job' = job
  PROVE  UNCHANGED Service!serviceVars
<1>1. AtWork' = AtWork /\ Lost' = Lost
  BY DEF AtWork, Lost
<1> QED BY <1>1 DEF Service!serviceVars

\* Who has a slot.
LEMMA SlotFacts ==
  ASSUME IInv, NEW j \in Job
  PROVE  /\ HoldsSlot(j) => j \in active /\ j \notin Lost
         /\ ~ HoldsSlot(j) /\ job[j].work # "lost" => j \notin active
BY DEF IInv, SlotsAccountedFor, SlotsMatchWork, HoldsSlot, Lost

\* The service counts as the queue does.
LEMMA SameCount ==
  ASSUME NEW S PROVE Service!Cardinality(S) = Cardinality(S)
BY DEF Service!Cardinality, Cardinality

(***************************************************************************)
(* The steps of the service                                                *)
(***************************************************************************)

LEMMA EndStep ==
  ASSUME IInv, NEW k \in Job, HoldsSlot(k), queue' = queue, active' = active \ {k},
         \A j \in active : j # k => job'[j].album = job[j].album,
         \A j \in Job : job'[j].work = "lost" <=> job[j].work = "lost"
  PROVE  Service!Next
<1>1. k \in active /\ k \notin Lost
  BY SlotFacts
<1>2. AtWork' = [AtWork EXCEPT ![k] = NoAlbum]
  BY AtWorkEnds
<1>3. Lost' = Lost
  BY LostKept
<1>4. Service!End(k)
  BY <1>1, <1>2, <1>3 DEF Service!End
<1> QED BY <1>4 DEF Service!Next

LEMMA LoseStep ==
  ASSUME IInv, NEW k \in Job, HoldsSlot(k), faults < MaxFaults,
         queue' = queue, active' = active,
         \A j \in active : job'[j].album = job[j].album,
         job'[k].work = "lost",
         \A j \in Job : j # k => (job'[j].work = "lost" <=> job[j].work = "lost")
  PROVE  Service!Next
<1>1. k \in active /\ k \notin Lost
  BY SlotFacts
<1>2. AtWork' = AtWork
  BY AtWorkKept
<1>3. Lost' = Lost \cup {k}
  BY DEF Lost
<1>4. Cardinality(Lost) < MaxFaults
  BY LostFinite, FaultAssumption DEF IInv, SlotsAccountedFor, TypeOK
<1>5. Service!Lose(k)
  BY <1>1, <1>2, <1>3, <1>4, SameCount DEF Service!Lose
<1> QED BY <1>5 DEF Service!Next

LEMMA RegisterStep ==
  ASSUME IInv, OvershootBounded, NEW r \in Request, Register(r)
  PROVE  Service!Next
<1>1. PICK k \in Job : /\ job[k] = Free
                       /\ active' = active \cup {k}
                       /\ job' = [job EXCEPT ![k] = Registered(req[r].album)]
  BY DEF Register
<1>2. k \notin active
  BY <1>1, SlotFacts DEF Free, HoldsSlot
<1>3. /\ job'[k].album = req[r].album /\ job'[k].work # "lost" /\ job[k].work # "lost"
      /\ \A j \in Job : j # k => job'[j] = job[j]
  BY <1>1 DEF IInv, TypeOK, Registered, Free
<1>4. AtWork' = [AtWork EXCEPT ![k] = req[r].album]
  BY <1>1, <1>2, <1>3, AtWorkTakes DEF IInv, TypeOK
<1>5. Lost' = Lost
  BY <1>3, LostKept
<1>6. req[r].album \in Album
  BY DEF Register, IInv, AlbumsKnown
<1>7. Cardinality(active) < Cap + Cardinality(Request)
  <2>1. Deciding # {}
    BY DEF Register, Deciding
  <2>2. Cardinality(Deciding) # 0
    BY <2>1, SetSizes, FS_EmptySet DEF IInv
  <2> QED BY <2>2, SetSizes, CapAssumption DEF IInv, OvershootBounded
<1>8. Service!Begin(k, req[r].album)
  BY <1>1, <1>2, <1>4, <1>5, <1>7, SameCount DEF Service!Begin, Service!Take, Register
<1> QED BY <1>6, <1>8 DEF Service!Next

LEMMA EnqueueStep ==
  ASSUME IInv, NEW r \in Request, Enqueue(r)
  PROVE  Service!Next
<1>1. active' = active /\ queue' = Append(queue, req[r].album)
  BY DEF Enqueue
<1>2. AtWork' = AtWork /\ Lost' = Lost
  <2>1. CASE job' = job
    BY <1>1, <2>1 DEF AtWork, Lost
  <2>2. ASSUME NEW k \in Job, job[k] = Free,
               job' = [job EXCEPT ![k] = [Free EXCEPT !.work = "ticket", !.status = "queued"]]
        PROVE  AtWork' = AtWork /\ Lost' = Lost
    <3>1. k \notin active
      BY <2>2, SlotFacts DEF Free, HoldsSlot
    <3>2. /\ job[k].work # "lost" /\ job'[k].work # "lost"
          /\ \A j \in Job : j # k => job'[j] = job[j]
      BY <2>2 DEF IInv, TypeOK, Free
    <3> QED BY <1>1, <3>1, <3>2, AtWorkKept, LostKept DEF IInv, TypeOK
  <2> QED BY <2>1, <2>2 DEF Enqueue
<1>3. req[r].album \in Album
  BY DEF Enqueue, IInv, AlbumsKnown
<1>4. Service!Accept(req[r].album)
  BY <1>1, <1>2 DEF Service!Accept
<1> QED BY <1>3, <1>4 DEF Service!Next

LEMMA HandlerImplements ==
  ASSUME IInv, OvershootBounded, NEW r \in Request, HandlerStep(r)
  PROVE  Service!Next \/ UNCHANGED Service!serviceVars
<1>1. CASE CheckCache(r) \/ CheckQueue(r) \/ CheckActive(r) \/ Invalidate(r) \/ ReadCount(r)
  BY <1>1, NoJobStutters
     DEF CheckCache, CheckQueue, CheckActive, Invalidate, ReadCount, redisVars
<1>2. CASE Register(r)
  BY <1>2, RegisterStep
<1>3. CASE Dispatch(r)
  <2> DEFINE k == req[r].job
  <2>1. k \in Job /\ job[k].work = "registered"
    BY <1>3 DEF Dispatch, IInv, Ownership, Owns
  <2>2. /\ job'[k].work = "sent" /\ job'[k].album = job[k].album
        /\ \A j \in Job : j # k => job'[j] = job[j]
    BY <1>3, <2>1 DEF Dispatch, IInv, TypeOK, JobRecord
  <2>3. queue' = queue /\ active' = active
    BY <1>3 DEF Dispatch, redisVars
  <2> HIDE DEF k
  <2> QED BY <2>1, <2>2, <2>3, StutterStep
<1>4. CASE UndoDispatch(r)
  <2> DEFINE k == req[r].job
  <2>1. k \in Job /\ job[k].work = "registered"
    BY <1>4 DEF UndoDispatch, IInv, Ownership, Owns
  <2>2. /\ active' = active \ {k} /\ queue' = queue /\ job'[k].work = "free"
        /\ \A j \in Job : j # k => job'[j] = job[j]
    BY <1>4, <2>1 DEF UndoDispatch, IInv, TypeOK, Free
  <2> HIDE DEF k
  <2>3. HoldsSlot(k) /\ active \subseteq Job
    BY <2>1 DEF HoldsSlot, IInv, TypeOK
  <2> QED BY <2>1, <2>2, <2>3, EndStep
<1>5. CASE Enqueue(r)
  BY <1>5, EnqueueStep
<1> QED BY <1>1, <1>2, <1>3, <1>4, <1>5 DEF HandlerStep

LEMMA OtherHandlerImplements ==
  ASSUME IInv, NEW r \in Request, OtherHandlerStep(r)
  PROVE  Service!Next \/ UNCHANGED Service!serviceVars
<1>1. CASE (\E a \in Album, f \in BOOLEAN : AnalyzeAlbum(r, a, f))
           \/ (\E f \in BOOLEAN : AnalyzeFolder(r, f))
  BY <1>1, NoJobStutters DEF AnalyzeAlbum, AnalyzeFolder, redisVars
<1>2. CASE DispatchFails(r)
  <2> DEFINE k == req[r].job
  <2>1. k \in Job /\ job[k].work = "registered"
    BY <1>2 DEF DispatchFails, IInv, Ownership, Owns
  <2>2. /\ job'[k].work = "registered" /\ job'[k].album = job[k].album
        /\ \A j \in Job : j # k => job'[j] = job[j]
    BY <1>2, <2>1 DEF DispatchFails, IInv, TypeOK, JobRecord
  <2>3. queue' = queue /\ active' = active
    BY <1>2 DEF DispatchFails, redisVars
  <2> HIDE DEF k
  <2> QED BY <2>1, <2>2, <2>3, StutterStep
<1>3. CASE HandlerCrash(r) /\ req[r].pc \in {"dispatch", "undo"}
  <2> DEFINE k == req[r].job
  <2>1. k \in Job /\ job[k].work = "registered"
    BY <1>3 DEF IInv, Ownership, Owns
  <2>2. /\ job'[k].work = "lost" /\ job'[k].album = job[k].album
        /\ \A j \in Job : j # k => job'[j] = job[j]
    BY <1>3, <2>1 DEF HandlerCrash, IInv, TypeOK, JobRecord
  <2>3. faults < MaxFaults /\ queue' = queue /\ active' = active
    BY <1>3 DEF HandlerCrash, redisVars
  <2> HIDE DEF k
  <2>4. HoldsSlot(k) /\ active \subseteq Job
    BY <2>1 DEF HoldsSlot, IInv, TypeOK
  <2> QED BY <2>1, <2>2, <2>3, <2>4, LoseStep
<1>4. CASE HandlerCrash(r) /\ req[r].pc \notin {"dispatch", "undo"}
  BY <1>4, NoJobStutters DEF HandlerCrash, redisVars
<1> QED BY <1>1, <1>2, <1>3, <1>4 DEF OtherHandlerStep

(***************************************************************************)
(* The steps of a task                                                     *)
(***************************************************************************)

\* A task goes from one step to the next with its album.
LEMMA OwnStep ==
  ASSUME IInv, NEW j \in Job, NEW from, NEW to, NEW s, from # "lost", to # "lost",
         Step(j, from, to, s), queue' = queue, active' = active
  PROVE  UNCHANGED Service!serviceVars
<1>1. /\ job[j].work = from /\ job'[j].work = to /\ job'[j].album = job[j].album
      /\ \A i \in Job : i # j => job'[i] = job[i]
  BY DEF Step, IInv, TypeOK, JobRecord
<1> QED BY <1>1, StutterStep

LEMMA DrainStep ==
  ASSUME IInv, NEW j \in Job, TaskDrain(j)
  PROVE  Service!Next \/ UNCHANGED Service!serviceVars
<1>1. job[j].work = "draining" /\ j \notin active
  BY SlotFacts DEF TaskDrain, HoldsSlot
<1>2. CASE ~ (Cardinality(active) < Cap /\ queue # <<>>)
  <2>1. /\ queue' = queue /\ active' = active /\ job'[j].work = "free"
        /\ \A i \in Job : i # j => job'[i] = job[i]
    BY <1>2 DEF TaskDrain, IInv, TypeOK, Free
  <2> QED BY <1>1, <2>1, StutterStep
<1>3. CASE Cardinality(active) < Cap /\ queue # <<>>
  <2>1. PICK k \in Job : /\ job[k] = Free /\ queue' = Tail(queue)
                         /\ active' = active \cup {k}
                         /\ job' = [job EXCEPT ![j].work = "handing", ![j].handed = k,
                                               ![k] = Registered(Head(queue))]
    BY <1>3 DEF TaskDrain
  <2>2. k \notin active /\ k # j
    BY <1>1, <2>1, SlotFacts DEF Free, HoldsSlot
  <2>3. /\ job'[k].album = Head(queue) /\ job'[k].work = "registered" /\ job[k].work = "free"
        /\ job'[j].work = "handing"
        /\ \A i \in Job : i # j /\ i # k => job'[i] = job[i]
    BY <2>1, <2>2 DEF IInv, TypeOK, JobRecord, Registered, Free
  <2>4. \A i \in active : job'[i].album = job[i].album
    BY <1>1, <2>2, <2>3 DEF IInv, TypeOK
  <2>5. AtWork' = [AtWork EXCEPT ![k] = Head(queue)]
    BY <2>1, <2>2, <2>3, <2>4, AtWorkTakes
  <2>6. Lost' = Lost
    BY <1>1, <2>3, LostKept
  <2>7. Service!HandOver(k)
    BY <1>3, <2>1, <2>2, <2>5, <2>6, SameCount DEF Service!HandOver, Service!Take
  <2> QED BY <2>7 DEF Service!Next
<1> QED BY <1>2, <1>3

LEMMA CrashStep ==
  ASSUME IInv, NEW j \in Job, TaskCrash(j)
  PROVE  Service!Next \/ UNCHANGED Service!serviceVars
<1> DEFINE k == job[j].handed
<1>1. queue' = queue /\ active' = active /\ InWorker(j) /\ faults < MaxFaults
  BY DEF TaskCrash, redisVars
<1>2. \A i \in Job :
        /\ i # j /\ i # k => job'[i] = job[i]
        /\ i = j \/ i = k =>
             IF i \in active THEN job'[i].work = "lost" /\ job'[i].album = job[i].album
                             ELSE job'[i].work = "free"
  BY DEF TaskCrash, IInv, TypeOK, JobRecord, Free
<1>3. active \subseteq Job
  BY DEF IInv, TypeOK
<1>4. CASE Hands(j)
  <2>1. k \in Job /\ job[k].work = "registered"
    BY <1>4 DEF IInv, Ownership, Hands
  <2>2. j \notin active /\ k \in active /\ HoldsSlot(k) /\ job[j].work # "lost" /\ k # j
    BY <1>4, <2>1, SlotFacts DEF Hands, HoldsSlot
  <2> HIDE DEF k
  <2> QED BY <1>1, <1>2, <1>3, <2>1, <2>2, LoseStep
<1>5. CASE ~ Hands(j)
  <2>1. k \notin Job
    BY <1>5, NullAssumption DEF IInv, Ownership
  <2> HIDE DEF k
  <2>2. \A i \in Job : i # j => job'[i] = job[i]
    BY <1>2, <2>1
  <2>3. CASE j \in active
    <3>1. HoldsSlot(j)
      BY <1>1, <1>5, <2>3, SlotFacts DEF InWorker, Hands, HoldsSlot
    <3> QED BY <1>1, <1>2, <1>3, <2>2, <2>3, <3>1, LoseStep
  <2>4. CASE j \notin active
    <3>1. job[j].work # "lost" /\ job'[j].work = "free"
      BY <1>1, <1>2, <2>4 DEF InWorker
    <3> QED BY <1>1, <2>2, <2>4, <3>1, StutterStep
  <2> QED BY <2>3, <2>4
<1> QED BY <1>4, <1>5

LEMMA TaskImplements ==
  ASSUME IInv, NEW j \in Job,
         TaskStep(j) \/ TaskHandOffFails(j) \/ TaskCrash(j) \/ TicketExpires(j)
  PROVE  Service!Next \/ UNCHANGED Service!serviceVars
<1>1. CASE TaskStart(j) \/ TaskRecord(j) \/ TaskFail(j)
  BY <1>1, OwnStep DEF TaskStart, TaskRecord, TaskFail, redisVars
<1>2. ASSUME NEW d \in BOOLEAN, TaskStore(j, d)
      PROVE  UNCHANGED Service!serviceVars
  BY <1>2, OwnStep DEF TaskStore
<1>3. CASE TaskUnregister(j)
  <2>1. /\ job[j].work = "ending" /\ job'[j].work = "draining"
        /\ queue' = queue /\ active' = active \ {j}
        /\ \A i \in Job : i # j => job'[i] = job[i]
    BY <1>3 DEF TaskUnregister, Step, IInv, TypeOK, JobRecord
  <2>2. HoldsSlot(j) /\ active \subseteq Job
    BY <2>1 DEF HoldsSlot, IInv, TypeOK
  <2> QED BY <2>1, <2>2, EndStep
<1>4. CASE TaskDrain(j)
  BY <1>4, DrainStep
<1> DEFINE k == job[j].handed
<1>5. ASSUME job[j].work \in {"handing", "undo"}
      PROVE  k \in Job /\ job[k].work = "registered" /\ k # j /\ j \notin active
  BY <1>5, SlotFacts DEF IInv, Ownership, Hands, HoldsSlot
<1>6. CASE TaskHandOff(j)
  <2>1. k \in Job /\ job[k].work = "registered" /\ k # j /\ j \notin active
        /\ job[j].work = "handing"
    BY <1>5, <1>6 DEF TaskHandOff
  <2>2. /\ queue' = queue /\ active' = active /\ job'[j].work = "free"
        /\ job'[k].work = "sent" /\ job'[k].album = job[k].album
        /\ \A i \in Job : i # j /\ i # k => job'[i] = job[i]
    BY <1>6, <2>1 DEF TaskHandOff, redisVars, IInv, TypeOK, JobRecord, Free
  <2> HIDE DEF k
  <2> QED BY <2>1, <2>2, StutterStep
<1>7. CASE TaskHandOffFails(j)
  <2>1. k \in Job /\ job[k].work = "registered" /\ k # j /\ j \notin active
        /\ job[j].work = "handing"
    BY <1>5, <1>7 DEF TaskHandOffFails
  <2>2. /\ queue' = queue /\ active' = active /\ job'[j].work = "undo"
        /\ job'[k].work = "registered" /\ job'[k].album = job[k].album
        /\ \A i \in Job : i # j /\ i # k => job'[i] = job[i]
    BY <1>7, <2>1 DEF TaskHandOffFails, redisVars, IInv, TypeOK, JobRecord
  <2> HIDE DEF k
  <2> QED BY <2>1, <2>2, StutterStep
<1>8. CASE TaskUndoHandOff(j)
  <2>1. k \in Job /\ job[k].work = "registered" /\ k # j /\ j \notin active
        /\ job[j].work = "undo"
    BY <1>5, <1>8 DEF TaskUndoHandOff
  <2>2. /\ queue' = queue /\ active' = active \ {k} /\ job'[j].work = "free"
        /\ job'[k].work = "free"
        /\ \A i \in Job : i # j /\ i # k => job'[i] = job[i]
    BY <1>8, <2>1 DEF TaskUndoHandOff, IInv, TypeOK, Free
  <2> HIDE DEF k
  <2>3. HoldsSlot(k) /\ active \subseteq Job
    BY <2>1 DEF HoldsSlot, IInv, TypeOK
  <2> QED BY <2>1, <2>2, <2>3, EndStep
<1>9. CASE TaskCrash(j)
  BY <1>9, CrashStep
<1>10. CASE TicketExpires(j)
  <2>1. job[j].work = "ticket" /\ j \notin active
    BY <1>10, SlotFacts DEF TicketExpires, HoldsSlot
  <2>2. /\ queue' = queue /\ active' = active /\ job'[j].work = "free"
        /\ \A i \in Job : i # j => job'[i] = job[i]
    BY <1>10 DEF TicketExpires, redisVars, IInv, TypeOK, Free
  <2> QED BY <2>1, <2>2, StutterStep
<1> QED BY <1>1, <1>2, <1>3, <1>4, <1>6, <1>7, <1>8, <1>9, <1>10 DEF TaskStep

(***************************************************************************)
(* The refinement                                                          *)
(***************************************************************************)

\* The separate Redis commands of handlers, workers and the Lua script do
\* together what AnalysisService promises: first come, first served, never
\* handed over above the cap, never begun above cap plus handlers, and no slot
\* lost but to a process that died.
THEOREM ServiceImplemented == Spec => ImplementsService
<1>1. Init => Service!Init
  <2> SUFFICES ASSUME Init PROVE Service!Init
    OBVIOUS
  <2>1. Lost = {} /\ AtWork = [k \in Job |-> NoAlbum]
    BY DEF Init, Lost, AtWork, Free
  <2> QED BY <2>1 DEF Init, Service!Init
<1>2. IInv /\ OvershootBounded /\ [Next]_vars => [Service!Next]_(Service!serviceVars)
  <2> SUFFICES ASSUME IInv, OvershootBounded, [Next]_vars
               PROVE  Service!Next \/ UNCHANGED Service!serviceVars
    OBVIOUS
  <2>1. CASE UNCHANGED vars
    BY <2>1, NoJobStutters DEF vars
  <2> QED BY <2>1, NextCases, HandlerImplements, OtherHandlerImplements, TaskImplements
<1> QED BY <1>1, <1>2, Invariance, OvershootCorrect, PTL DEF Spec, ImplementsService, Service!Spec
=============================================================================
