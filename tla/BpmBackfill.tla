---------------------------- MODULE BpmBackfill ----------------------------
(***************************************************************************)
(* The BPM backfill of one library: a job that may take many hours runs as *)
(* a chain of short Celery tasks ("links").  A link takes the link lock,   *)
(* continues the counters of the status hash, analyses chunks of items in  *)
(* subprocesses until its budget is spent and sends the next link.  A beat *)
(* task revives a chain whose heartbeat went stale; users start and cancel *)
(* jobs at any time.  Each Redis command is one step.                      *)
(*                                                                         *)
(* Clocks are abstracted to what their constants guarantee: a link works   *)
(* for less than BPM_LINK_LOCK_TTL and publishes at least once in          *)
(* BPM_RESUME_STALE_SECONDS, so the lock of a live link does not expire    *)
(* and its heartbeat does not go stale.  A message may wait in the broker  *)
(* for any time.                                                           *)
(***************************************************************************)
EXTENDS Naturals, FiniteSets

CONSTANTS
  Item,         \* items of the library without a bpm when the model begins
  Job,          \* job ids, one for each start request: it bounds their number
  User,         \* start and cancel requests that may run at the same time
  Link,         \* messages and tasks of bpm_backfill that may exist at once
  MaxAttempts,  \* BPM_MAX_ITEM_ATTEMPTS
  ChunkSize,    \* BPM_BACKFILL_CHUNK_SIZE
  Workers,      \* bpm_workers()
  MaxFaults,    \* bound on crashes, exceptions and soft time limits
  NoJob         \* absence of a job id

ASSUME ItemAssumption  == IsFiniteSet(Item)
ASSUME LimitAssumption == MaxAttempts \in Nat \ {0} /\ ChunkSize \in Nat \ {0}
                          /\ Workers \in Nat \ {0} /\ MaxFaults \in Nat
ASSUME JobAssumption   == NoJob \notin Job

VARIABLES
  hash,      \* the status hash library:bpm_backfill:{library}
  stale,     \* updated_at is older than BPM_RESUME_STALE_SECONDS
  cancel,    \* the cancel flag
  excluded,  \* the failed_items set
  attempts,  \* the attempts hash
  bpm,       \* items with a bpm in the beets database
  linkLock,  \* the link lock is set
  ops,       \* "bpm_backfill" is in the operation-lock set that blocks scans
  link,      \* messages and tasks
  used,      \* job ids that are drawn
  user,      \* start and cancel requests
  guard,     \* resume_stalled_bpm_backfills
  faults     \* crashes, exceptions and soft time limits so far

vars == <<hash, stale, cancel, excluded, attempts, bpm, linkLock, ops, link,
          used, user, guard, faults>>

jobVars == <<cancel, excluded, attempts>>
userVars == <<used, user>>

State == {"none", "queued", "running", "completed", "completed_with_errors",
          "cancelled", "failed"}

Hash == [state : State, job : Job \cup {NoJob}, total : Nat, processed : Nat,
         failed : Nat]

NoHash == [state |-> "none", job |-> NoJob, total |-> 0, processed |-> 0, failed |-> 0]

LinkPc == {"free", "sent", "read", "start", "clear", "items", "lock", "announce",
           "submit", "pool", "giveup", "report", "after", "requeue", "send", "final",
           "release", "unlock"}

\* fresh: the hash belonged to another job;  own: this link added the
\* operation lock;  first: the warm-up is not over;  cold: no chunk of this link
\* has ended;  budget: seconds are left;  owed: calls of submit_next to make
\* before the next wait;  give: items to write off;  end: the state to finalize.
LinkRecord == [pc : LinkPc, job : Job \cup {NoJob}, fresh : BOOLEAN, own : BOOLEAN,
               total : Nat, processed : Nat, failed : Nat, todo : SUBSET Item,
               flight : SUBSET SUBSET Item, first : BOOLEAN, cold : BOOLEAN,
               budget : BOOLEAN, owed : Nat, give : SUBSET Item, end : State]

Unused == [pc |-> "free", job |-> NoJob, fresh |-> FALSE, own |-> FALSE,
           total |-> 0, processed |-> 0, failed |-> 0, todo |-> {}, flight |-> {},
           first |-> TRUE, cold |-> TRUE, budget |-> TRUE, owed |-> 0, give |-> {},
           end |-> "none"]

Message(j) == [Unused EXCEPT !.pc = "sent", !.job = j]

UserPc == {"idle", "clearCancel", "clearFailed", "clearAttempts", "clearStatus",
           "queue", "send", "flag"}

NoUser == [pc |-> "idle", total |-> 0, job |-> NoJob]

Init ==
  /\ hash = NoHash
  /\ stale = FALSE
  /\ cancel = FALSE
  /\ excluded = {}
  /\ attempts = [i \in Item |-> 0]
  /\ bpm = {}
  /\ linkLock = FALSE
  /\ ops = FALSE
  /\ link = [l \in Link |-> Unused]
  /\ used = {}
  /\ user = [u \in User |-> NoUser]
  /\ guard = [pc |-> "idle", copy |-> NoHash]
  /\ faults = 0

Live(state) == state \in {"queued", "running"}

\* The task holds the link lock and has not given it back.
Working(l) == link[l].pc \notin {"free", "sent"}

\* get_item_ids_missing_bpm without the failed items.
Missing == (Item \ bpm) \ excluded

Finished(failed) == IF failed = 0 THEN "completed" ELSE "completed_with_errors"

GoTo(l, pc) == link' = [link EXCEPT ![l].pc = pc]

\* publish(): every publication renews the heartbeat.
Publish(l, state) ==
  /\ hash' = [state |-> state, job |-> link[l].job, total |-> link[l].total,
              processed |-> link[l].processed, failed |-> link[l].failed]
  /\ stale' = FALSE

---------------------------------------------------------------------------
(***************************************************************************)
(* One link                                                                *)
(***************************************************************************)

\* Mutant: the lock is released in the finally of the duplicate link too.
BeginReleasesAnyway(l) ==
  /\ link[l].pc = "sent"
  /\ IF linkLock
     THEN link' = [link EXCEPT ![l] = Unused] /\ linkLock' = FALSE
     ELSE GoTo(l, "read") /\ linkLock' = TRUE
  /\ UNCHANGED <<hash, stale, jobVars, bpm, ops, userVars, guard, faults>>

\* SET NX; a duplicate link returns at once.
Begin(l) ==
  /\ link[l].pc = "sent"
  /\ IF linkLock
     THEN link' = [link EXCEPT ![l] = Unused] /\ UNCHANGED linkLock
     ELSE GoTo(l, "read") /\ linkLock' = TRUE
  /\ UNCHANGED <<hash, stale, jobVars, bpm, ops, userVars, guard, faults>>

\* A later link of the same job continues its counters.
ReadState(l) ==
  /\ link[l].pc = "read"
  /\ link' = [link EXCEPT ![l] =
       IF hash.job = link[l].job
       THEN [link[l] EXCEPT !.pc = "start", !.total = hash.total,
                            !.processed = hash.processed, !.failed = hash.failed]
       ELSE [link[l] EXCEPT !.pc = "start", !.fresh = TRUE]]
  /\ UNCHANGED <<hash, stale, jobVars, bpm, linkLock, ops, userVars, guard, faults>>

CheckCancel(l) ==
  /\ link[l].pc = "start"
  /\ GoTo(l, IF cancel THEN "clear" ELSE "items")
  /\ UNCHANGED <<hash, stale, jobVars, bpm, linkLock, ops, userVars, guard, faults>>

ClearCancel(l) ==
  /\ link[l].pc = "clear"
  /\ cancel' = FALSE
  /\ link' = [link EXCEPT ![l].pc = "final", ![l].end = "cancelled"]
  /\ UNCHANGED <<hash, stale, excluded, attempts, bpm, linkLock, ops, userVars, guard, faults>>

ReadItems(l) ==
  /\ link[l].pc = "items"
  /\ link' = [link EXCEPT
       ![l].todo = Missing,
       ![l].total = IF link[l].fresh \/ @ = 0 THEN Cardinality(Missing) ELSE @,
       ![l].pc = IF Missing = {} THEN "final" ELSE "lock",
       ![l].end = IF Missing = {} THEN Finished(link[l].failed) ELSE @]
  /\ UNCHANGED <<hash, stale, jobVars, bpm, linkLock, ops, userVars, guard, faults>>

\* SADD: the link releases the lock only if it was not in the set before.
AcquireOps(l) ==
  /\ link[l].pc = "lock"
  /\ link' = [link EXCEPT ![l].own = ~ ops, ![l].pc = "announce"]
  /\ ops' = TRUE
  /\ UNCHANGED <<hash, stale, jobVars, bpm, linkLock, userVars, guard, faults>>

\* Mutant: the pool starts at once.
AnnounceWithoutWarmUp(l) ==
  /\ link[l].pc = "announce"
  /\ Publish(l, "running")
  /\ link' = [link EXCEPT ![l].pc = "submit", ![l].owed = Workers]
  /\ UNCHANGED <<jobVars, bpm, linkLock, ops, userVars, guard, faults>>

\* The job is shown as running; the warm-up is one submission.
Announce(l) ==
  /\ link[l].pc = "announce"
  /\ Publish(l, "running")
  /\ link' = [link EXCEPT ![l].pc = "submit", ![l].owed = 1]
  /\ UNCHANGED <<jobVars, bpm, linkLock, ops, userVars, guard, faults>>

\* Mutant: the loop of submissions goes on until it is refused.
SubmitPastWorkers(l) ==
  /\ link[l].pc = "submit" /\ link[l].budget /\ ~ cancel
  /\ \E c \in SUBSET link[l].todo :
       /\ Cardinality(c) \in 1..ChunkSize
       /\ Cardinality(c) = ChunkSize \/ c = link[l].todo
       /\ link' = [link EXCEPT ![l].todo = @ \ c, ![l].flight = @ \cup {c},
                               ![l].owed = @ - 1]
  /\ UNCHANGED <<hash, stale, jobVars, bpm, linkLock, ops, userVars, guard, faults>>

\* submit_next, and the warm-up chunk of the link, which runs alone: the next
\* chunk goes to a subprocess.
Submit(l) ==
  /\ link[l].pc = "submit" /\ link[l].budget /\ ~ cancel
  /\ \E c \in SUBSET link[l].todo :
       /\ Cardinality(c) \in 1..ChunkSize
       /\ Cardinality(c) = ChunkSize \/ c = link[l].todo
       /\ link' = [link EXCEPT ![l].todo = @ \ c, ![l].flight = @ \cup {c},
                               ![l].owed = @ - 1,
                               ![l].pc = IF link[l].owed = 1 THEN "pool" ELSE @]
  /\ UNCHANGED <<hash, stale, jobVars, bpm, linkLock, ops, userVars, guard, faults>>

\* No budget, a cancel request or no chunk left: the loop of submissions ends.
\* A skipped warm-up goes on to that loop, which asks again.
SubmitRefused(l) ==
  /\ link[l].pc = "submit"
  /\ ~ link[l].budget \/ cancel \/ link[l].todo = {}
  /\ link' = [link EXCEPT ![l].first = FALSE,
                          ![l].owed = IF link[l].first THEN Workers ELSE 0,
                          ![l].pc = IF link[l].first THEN @ ELSE "pool"]
  /\ UNCHANGED <<hash, stale, jobVars, bpm, linkLock, ops, userVars, guard, faults>>

\* A subprocess stores the bpm of an item.
Store(l, i) ==
  /\ i \in (UNION link[l].flight) \ bpm
  /\ bpm' = bpm \cup {i}
  /\ UNCHANGED <<hash, stale, jobVars, linkLock, ops, link, userVars, guard, faults>>

\* BPM_LINK_MAX_SECONDS are over; never before the first chunk is.
SpendBudget(l) ==
  /\ link[l].pc \in {"submit", "pool"} /\ link[l].budget /\ ~ link[l].first
  /\ link' = [link EXCEPT ![l].budget = FALSE]
  /\ UNCHANGED <<hash, stale, jobVars, bpm, linkLock, ops, userVars, guard, faults>>

\* Mutant: the attempts of an unstored item are not counted.
AccountWithoutAttempts(l, c) ==
  /\ link[l].pc = "pool" /\ c \in link[l].flight
  /\ link' = [link EXCEPT ![l].flight = @ \ {c}, ![l].cold = FALSE, ![l].pc = "report",
                          ![l].processed = @ + Cardinality(c \cap bpm)]
  /\ UNCHANGED <<hash, stale, jobVars, bpm, linkLock, ops, userVars, guard, faults>>

\* Mutant: the whole chunk counts as processed, whatever was stored.
AccountCountsChunk(l, c) ==
  /\ link[l].pc = "pool" /\ c \in link[l].flight
  /\ attempts' = [i \in Item |-> attempts[i] + IF i \in c \ bpm THEN 1 ELSE 0]
  /\ link' = [link EXCEPT ![l] =
       LET give == {i \in c \ bpm : attempts'[i] >= MaxAttempts} IN
       [link[l] EXCEPT !.flight = link[l].flight \ {c}, !.cold = FALSE, !.give = give,
                       !.processed = link[l].processed + Cardinality(c),
                       !.failed = link[l].failed + Cardinality(give),
                       !.pc = IF give = {} THEN "report" ELSE "giveup"]]
  /\ UNCHANGED <<hash, stale, cancel, excluded, bpm, linkLock, ops, userVars, guard, faults>>

\* account_chunk for a subprocess that ended or timed out: count what landed
\* in the beets database and bump the attempts of the rest.
Account(l, c) ==
  /\ link[l].pc = "pool" /\ c \in link[l].flight
  /\ attempts' = [i \in Item |-> attempts[i] + IF i \in c \ bpm THEN 1 ELSE 0]
  /\ link' = [link EXCEPT ![l] =
       LET give == {i \in c \ bpm : attempts'[i] >= MaxAttempts} IN
       [link[l] EXCEPT !.flight = link[l].flight \ {c}, !.cold = FALSE, !.give = give,
                       !.processed = link[l].processed + Cardinality(c \cap bpm),
                       !.failed = link[l].failed + Cardinality(give),
                       !.pc = IF give = {} THEN "report" ELSE "giveup"]]
  /\ UNCHANGED <<hash, stale, cancel, excluded, bpm, linkLock, ops, userVars, guard, faults>>

\* add_bpm_failed_items.
GiveUp(l) ==
  /\ link[l].pc = "giveup"
  /\ excluded' = excluded \cup link[l].give
  /\ link' = [link EXCEPT ![l].give = {}, ![l].pc = "report"]
  /\ UNCHANGED <<hash, stale, cancel, attempts, bpm, linkLock, ops, userVars, guard, faults>>

\* The warm-up is followed by a submission for each worker, any other chunk by
\* one submission.
Report(l) ==
  /\ link[l].pc = "report"
  /\ Publish(l, "running")
  /\ link' = [link EXCEPT ![l].pc = "submit", ![l].first = FALSE,
                          ![l].owed = IF link[l].first THEN Workers ELSE 1]
  /\ UNCHANGED <<jobVars, bpm, linkLock, ops, userVars, guard, faults>>

\* Nothing is in flight.
LeavePool(l) ==
  /\ link[l].pc = "pool" /\ link[l].flight = {}
  /\ GoTo(l, "after")
  /\ UNCHANGED <<hash, stale, jobVars, bpm, linkLock, ops, userVars, guard, faults>>

\* Mutant: the job is over when every chunk has run, stored or not.
AfterTrustsChunks(l) ==
  /\ link[l].pc = "after"
  /\ \/ cancel /\ GoTo(l, "clear")
     \/ ~ cancel /\ link[l].todo # {} /\ GoTo(l, "requeue")
     \/ /\ ~ cancel /\ link[l].todo = {}
        /\ link' = [link EXCEPT ![l].pc = "final", ![l].end = Finished(link[l].failed)]
  /\ UNCHANGED <<hash, stale, jobVars, bpm, linkLock, ops, userVars, guard, faults>>

\* Cancelled, another link needed, or done.
After(l) ==
  /\ link[l].pc = "after"
  /\ \/ cancel /\ GoTo(l, "clear")
     \/ ~ cancel /\ Missing # {} /\ GoTo(l, "requeue")
     \/ /\ ~ cancel /\ Missing = {}
        /\ link' = [link EXCEPT ![l].pc = "final", ![l].end = Finished(link[l].failed)]
  /\ UNCHANGED <<hash, stale, jobVars, bpm, linkLock, ops, userVars, guard, faults>>

\* requeue_next_link: publish, then apply_async.
Requeue(l) ==
  /\ link[l].pc = "requeue"
  /\ Publish(l, "running")
  /\ GoTo(l, "send")
  /\ UNCHANGED <<jobVars, bpm, linkLock, ops, userVars, guard, faults>>

SendNext(l) ==
  /\ link[l].pc = "send"
  /\ \E m \in Link :
       /\ link[m] = Unused
       /\ link' = [link EXCEPT ![l].pc = "release", ![m] = Message(link[l].job)]
  /\ UNCHANGED <<hash, stale, jobVars, bpm, linkLock, ops, userVars, guard, faults>>

Finalize(l) ==
  /\ link[l].pc = "final"
  /\ Publish(l, link[l].end)
  /\ GoTo(l, "release")
  /\ UNCHANGED <<jobVars, bpm, linkLock, ops, userVars, guard, faults>>

\* The pool waits for its subprocesses before an exception leaves it; their
\* chunks are not accounted.
Abandon(l, pc) ==
  /\ link[l].pc \notin {"free", "sent", "read", "send", "release", "unlock"}
  /\ faults < MaxFaults
  /\ faults' = faults + 1
  /\ \E s \in SUBSET UNION link[l].flight : bpm' = bpm \cup s
  /\ link' = [link EXCEPT ![l].flight = {}, ![l].todo = {}, ![l].give = {},
                          ![l].owed = 0, ![l].pc = pc]

SoftTimeLimit(l) ==
  /\ Abandon(l, "requeue")
  /\ UNCHANGED <<hash, stale, jobVars, linkLock, ops, userVars, guard>>

\* The library is gone, or any other exception.
Fail(l) ==
  /\ Abandon(l, "release")
  /\ Publish(l, "failed")
  /\ UNCHANGED <<jobVars, linkLock, ops, userVars, guard>>

\* Mutant: the operation lock is kept until the last link of the job.
ReleaseOpsWhenDone(l) ==
  /\ link[l].pc = "release"
  /\ ops' = (ops /\ (link[l].own => link[l].end = "none"))
  /\ GoTo(l, "unlock")
  /\ UNCHANGED <<hash, stale, jobVars, bpm, linkLock, userVars, guard, faults>>

\* finally.
ReleaseOps(l) ==
  /\ link[l].pc = "release"
  /\ ops' = (ops /\ ~ link[l].own)
  /\ GoTo(l, "unlock")
  /\ UNCHANGED <<hash, stale, jobVars, bpm, linkLock, userVars, guard, faults>>

ReleaseLink(l) ==
  /\ link[l].pc = "unlock"
  /\ linkLock' = FALSE
  /\ link' = [link EXCEPT ![l] = Unused]
  /\ UNCHANGED <<hash, stale, jobVars, bpm, ops, userVars, guard, faults>>

\* The worker is killed; its message was acknowledged when the task began.
Crash(l) ==
  /\ Working(l) /\ faults < MaxFaults
  /\ faults' = faults + 1
  /\ link' = [link EXCEPT ![l] = Unused]
  /\ UNCHANGED <<hash, stale, jobVars, bpm, linkLock, ops, userVars, guard>>

LockExpires ==
  /\ linkLock /\ ~ \E l \in Link : Working(l)
  /\ linkLock' = FALSE
  /\ UNCHANGED <<hash, stale, jobVars, bpm, ops, link, userVars, guard, faults>>

---------------------------------------------------------------------------
(***************************************************************************)
(* The resume guard, run by beat                                           *)
(***************************************************************************)

HeartbeatAges ==
  /\ Live(hash.state) /\ ~ stale /\ ~ \E l \in Link : Working(l)
  /\ stale' = TRUE
  /\ UNCHANGED <<hash, jobVars, bpm, linkLock, ops, link, userVars, guard, faults>>

GuardRead ==
  /\ guard.pc = "idle" /\ Live(hash.state) /\ stale
  /\ guard' = [pc |-> "touch", copy |-> hash]
  /\ UNCHANGED <<hash, stale, jobVars, bpm, linkLock, ops, link, userVars, faults>>

\* It renews the heartbeat by writing back every field it has read.
GuardTouch ==
  /\ guard.pc = "touch"
  /\ hash' = guard.copy
  /\ stale' = FALSE
  /\ guard' = [guard EXCEPT !.pc = "send"]
  /\ UNCHANGED <<jobVars, bpm, linkLock, ops, link, userVars, faults>>

GuardSend ==
  /\ guard.pc = "send"
  /\ \E m \in Link :
       link[m] = Unused /\ link' = [link EXCEPT ![m] = Message(guard.copy.job)]
  /\ guard' = [pc |-> "idle", copy |-> NoHash]
  /\ UNCHANGED <<hash, stale, jobVars, bpm, linkLock, ops, userVars, faults>>

---------------------------------------------------------------------------
(***************************************************************************)
(* Start and cancel requests                                               *)
(***************************************************************************)

UserAt(u, from, to) ==
  user[u].pc = from /\ user' = [user EXCEPT ![u].pc = to]

\* start_bpm_backfill: 409 if a job is queued or running, then the reset.
StartRequest(u) ==
  /\ ~ Live(hash.state)
  /\ user[u].pc = "idle"
  /\ \E k \in Job \ used :
       /\ used' = used \cup {k}
       /\ user' = [user EXCEPT ![u] = [pc |-> "clearCancel", job |-> k,
                                      total |-> Cardinality(Item \ bpm)]]
  /\ UNCHANGED <<hash, stale, jobVars, bpm, linkLock, ops, link, guard, faults>>

ResetCancel(u) ==
  /\ UserAt(u, "clearCancel", "clearFailed")
  /\ cancel' = FALSE
  /\ UNCHANGED <<hash, stale, excluded, attempts, bpm, linkLock, ops, link, used, guard, faults>>

ResetFailed(u) ==
  /\ UserAt(u, "clearFailed", "clearAttempts")
  /\ excluded' = {}
  /\ UNCHANGED <<hash, stale, cancel, attempts, bpm, linkLock, ops, link, used, guard, faults>>

ResetAttempts(u) ==
  /\ UserAt(u, "clearAttempts", "clearStatus")
  /\ attempts' = [i \in Item |-> 0]
  /\ UNCHANGED <<hash, stale, cancel, excluded, bpm, linkLock, ops, link, used, guard, faults>>

ResetStatus(u) ==
  /\ UserAt(u, "clearStatus", "queue")
  /\ hash' = NoHash
  /\ UNCHANGED <<stale, jobVars, bpm, linkLock, ops, link, used, guard, faults>>

MarkQueued(u) ==
  /\ UserAt(u, "queue", "send")
  /\ hash' = [NoHash EXCEPT !.state = "queued", !.job = user[u].job,
                            !.total = user[u].total]
  /\ stale' = FALSE
  /\ UNCHANGED <<jobVars, bpm, linkLock, ops, link, used, guard, faults>>

SendFirst(u) ==
  /\ user[u].pc = "send"
  /\ \E m \in Link :
       link[m] = Unused /\ link' = [link EXCEPT ![m] = Message(user[u].job)]
  /\ user' = [user EXCEPT ![u] = NoUser]
  /\ UNCHANGED <<hash, stale, jobVars, bpm, linkLock, ops, used, guard, faults>>

\* cancel_bpm_backfill.
CancelRequest(u) ==
  /\ Live(hash.state)
  /\ UserAt(u, "idle", "flag")
  /\ UNCHANGED <<hash, stale, jobVars, bpm, linkLock, ops, link, used, guard, faults>>

SetCancel(u) ==
  /\ UserAt(u, "flag", "idle")
  /\ cancel' = TRUE
  /\ UNCHANGED <<hash, stale, excluded, attempts, bpm, linkLock, ops, link, used, guard, faults>>

\* The web process dies in the middle of a request.
UserCrash(u) ==
  /\ user[u].pc # "idle" /\ faults < MaxFaults
  /\ faults' = faults + 1
  /\ user' = [user EXCEPT ![u] = NoUser]
  /\ UNCHANGED <<hash, stale, jobVars, bpm, linkLock, ops, link, used, guard>>

---------------------------------------------------------------------------
LinkStep(l) ==
  \/ Begin(l) \/ ReadState(l) \/ CheckCancel(l) \/ ClearCancel(l) \/ ReadItems(l)
  \/ AcquireOps(l) \/ Announce(l) \/ Submit(l) \/ SubmitRefused(l)
  \/ (\E c \in SUBSET Item : Account(l, c))
  \/ GiveUp(l) \/ Report(l) \/ LeavePool(l) \/ After(l) \/ Requeue(l) \/ SendNext(l)
  \/ Finalize(l) \/ ReleaseOps(l) \/ ReleaseLink(l)

GuardStep == GuardRead \/ GuardTouch \/ GuardSend

UserStep(u) ==
  \/ ResetCancel(u) \/ ResetFailed(u) \/ ResetAttempts(u) \/ ResetStatus(u)
  \/ MarkQueued(u) \/ SendFirst(u) \/ SetCancel(u)

Next ==
  \/ \E l \in Link :
       \/ LinkStep(l) \/ SpendBudget(l) \/ SoftTimeLimit(l) \/ Fail(l) \/ Crash(l)
       \/ \E i \in Item : Store(l, i)
  \/ LockExpires \/ HeartbeatAges \/ GuardStep
  \/ \E u \in User : StartRequest(u) \/ CancelRequest(u) \/ UserStep(u) \/ UserCrash(u)

Spec == Init /\ [][Next]_vars

\* Workers take messages and run a link to its end (a subprocess ends or times
\* out), beat keeps running the guard, and Redis enforces times to live.
Fairness ==
  /\ \A l \in Link : WF_vars(LinkStep(l))
  /\ WF_vars(LockExpires) /\ WF_vars(HeartbeatAges) /\ WF_vars(GuardStep)
  /\ \A u \in User : WF_vars(UserStep(u))

FairSpec == Spec /\ Fairness

---------------------------------------------------------------------------
(***************************************************************************)
(* Properties                                                              *)
(***************************************************************************)

TypeOK ==
  /\ hash \in Hash
  /\ stale \in BOOLEAN /\ cancel \in BOOLEAN /\ linkLock \in BOOLEAN /\ ops \in BOOLEAN
  /\ excluded \subseteq Item /\ bpm \subseteq Item
  /\ attempts \in [Item -> Nat]
  /\ link \in [Link -> LinkRecord]
  /\ used \subseteq Job
  /\ user \in [User -> [pc : UserPc, total : Nat, job : Job \cup {NoJob}]]
  /\ guard \in [pc : {"idle", "touch", "send"}, copy : Hash]
  /\ faults \in 0..MaxFaults

\* Starts, duplicates sent by the guard and crashes together never make two
\* tasks analyse the library at once: whoever works holds the link lock.
LinkExclusion ==
  \A l, m \in Link : Working(l) => linkLock /\ (Working(m) => l = m)

\* Scans stay blocked for as long as a subprocess writes the beets database,
\* and without a crash they are blocked by nothing but a link that gives the
\* operation lock back: no link leaves the lock of an earlier one behind.
ScansBlockedExactly ==
  /\ \A l \in Link : link[l].flight # {} => ops
  /\ ops => faults > 0 \/ \E l \in Link : link[l].own

(***************************************************************************)
(* The inductive invariant behind the two: where a link stands, whether    *)
(* it added the operation lock, and whether the lock is there.             *)
(***************************************************************************)

\* Before a link asks for the operation lock.
Early == {"read", "start", "items", "lock"}

\* Where a link may have chunks in flight.
Analysing == {"submit", "pool", "giveup", "report"}

\* A link that added the lock finds it set until its own finally; one that did
\* not finds it set while it analyses.
OpsHeld ==
  \A l \in Link :
    /\ link[l].own => Working(l) /\ link[l].pc \notin Early
    /\ link[l].own => (ops <=> link[l].pc # "unlock")
    /\ link[l].pc \in {"announce"} \cup Analysing => ops
    /\ link[l].flight # {} => link[l].pc \in Analysing
    /\ link[l].pc = "submit" => link[l].owed > 0

IInv == TypeOK /\ LinkExclusion /\ OpsHeld /\ ScansBlockedExactly

\* The numba cache is compiled by one subprocess before others read it: until
\* a chunk of the link has ended one runs alone, then at most bpm_workers().
WarmUpAlone ==
  \A l \in Link : Cardinality(link[l].flight) <= IF link[l].cold THEN 1 ELSE Workers

\* The progress of a job never counts an item twice, across its links, their
\* retries and resumptions; an exception recounts at most the chunk whose
\* items it kept from being written off.
CountersBounded == hash.processed + hash.failed <= hash.total + faults * ChunkSize

\* An item is written off only after MaxAttempts analyses that stored nothing,
\* and then no link of the job, resumed or duplicate, analyses it again.
WrittenOff ==
  \A i \in excluded : /\ attempts[i] >= MaxAttempts
                      /\ \A l \in Link : i \notin link[l].todo \cup UNION link[l].flight

\* What a job tells of its progress holds.
Accounting == CountersBounded /\ WrittenOff

(***************************************************************************)
(* The inductive invariant behind the data properties.  They are about the *)
(* first job of a library: with a second one, a message of the old job may *)
(* still be there and mix its counters with those of the new one.          *)
(***************************************************************************)

OneJob == \A j, k \in used : j = k

\* The steps of a start request that reset what an earlier job left.
Resetting == {"clearCancel", "clearFailed", "clearAttempts", "clearStatus", "queue"}

Starting(u) == user[u].pc \in Resetting \cup {"send"}

NothingYet ==
  hash = NoHash /\ guard.pc = "idle" /\ excluded = {} /\ \A l \in Link : link[l].pc = "free"

\* One request starts the job, and nothing of the job is there before it has
\* reset everything; later the hash, the links and the guard know this job only,
\* and the guard revives it only where it was live.
StartsOnce ==
  /\ \A u, v \in User : Starting(u) => user[u].job \in used /\ (Starting(v) => u = v)
  /\ \A u \in User : user[u].pc \in Resetting =>
       NothingYet /\ user[u].total = Cardinality(Item \ bpm)
  /\ \A u \in User : user[u].pc = "send" => hash.job \in used
  /\ used = {} => NothingYet
  /\ NothingYet \/ hash.job \in used
  /\ \A l \in Link : link[l].pc # "free" => link[l].job \in used
  /\ guard.pc # "idle" => guard.copy.job \in used /\ Live(guard.copy.state)
  /\ \A l \in Link : ~ link[l].fresh

\* What a link is still to analyse, what its subprocesses analyse and what it
\* is about to write off are apart from each other and from what is done.
ChunksApart ==
  \A l \in Link :
    LET r == link[l] IN
    /\ r.pc \in {"free", "sent"} => r.todo = {} /\ r.give = {}
    /\ r.todo \cap (bpm \cup excluded \cup UNION r.flight) = {}
    /\ excluded \cap UNION r.flight = {}
    /\ \A c \in r.flight : Cardinality(c) <= ChunkSize
    /\ \A c, d \in r.flight : c # d => c \cap d = {}
    /\ r.give # {} => r.pc = "giveup"
    /\ r.give \cap (r.todo \cup UNION r.flight) = {} /\ Cardinality(r.give) <= ChunkSize

\* Items that are written off, or about to be, have had their attempts.
AttemptsSpent ==
  \A i \in Item : i \in excluded \/ (\E l \in Link : i \in link[l].give)
                    => attempts[i] >= MaxAttempts

\* Where the warm-up stands: one chunk at first, then one for each worker, and
\* none where the warm-up was skipped.
WarmUpSteps ==
  \A l \in Link :
    LET r == link[l]
        n == Cardinality(r.flight) IN
    /\ r.first => r.budget
    /\ r.pc \in {"free", "sent", "announce"} \cup Early => r.first /\ r.cold
    /\ r.pc = "submit" /\ r.first => r.cold /\ r.flight = {} /\ r.owed = 1
    /\ r.pc = "pool" /\ r.first => r.cold /\ \E c \in r.flight : r.flight = {c}
    /\ r.pc \in {"giveup", "report"} =>
         ~ r.cold /\ (IF r.first THEN r.flight = {} ELSE n < Workers)
    /\ r.pc \in {"submit", "pool"} /\ ~ r.first =>
         IF r.cold THEN r.flight = {} /\ (cancel \/ r.todo = {})
         ELSE n + (IF r.pc = "submit" THEN r.owed ELSE 0) <= Workers

\* The items whose end is not counted yet.
Open ==
  {i \in Item \ excluded :
     /\ i \in bpm => \E l \in Link : i \in UNION link[l].flight
     /\ \A l \in Link : i \notin link[l].give}

\* Whoever tells of the progress has counted no item that is still open.
Counted(s) == s.processed + s.failed + Cardinality(Open) <= s.total + faults * ChunkSize

OpenCounted ==
  /\ hash.job \in used => Counted(hash)
  /\ guard.pc # "idle" => Counted(guard.copy)
  /\ \A l \in Link : Working(l) /\ link[l].pc # "read" => Counted(link[l])

\* A link that is about to report the end has nothing left.
EndCovers ==
  \A l \in Link :
    link[l].pc = "final" /\ link[l].end \in {"completed", "completed_with_errors"}
      => Missing = {}

DataInv == /\ StartsOnce /\ ChunksApart /\ AttemptsSpent
           /\ WarmUpSteps /\ OpenCounted /\ EndCovers

FirstJobInv == OneJob => DataInv

\* A job is reported complete only when every item has a bpm or is written off.
CompleteCovers ==
  [][Live(hash.state) /\ hash'.state \in {"completed", "completed_with_errors"}
       => Missing = {}]_vars

\* bpm_backfill's docstring: "every link makes strict progress and the chain
\* always terminates".
JobEnds ==
  Live(hash.state) ~> \/ hash.state \in {"cancelled", "failed"}
                      \/ hash.state \in {"completed", "completed_with_errors"} /\ Missing = {}

\* The link lock "makes an accidental double fire harmless": a cancelled job
\* never runs again.
CancelledStays ==
  [][hash.state = "cancelled" /\ hash'.state = "running" => hash'.job # hash.job]_vars
=============================================================================
