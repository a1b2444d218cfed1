------------------------- MODULE BpmProgress_proofs -------------------------
(***************************************************************************)
(* What the first BPM job of a library tells of its progress, for any      *)
(* number of items, messages, workers and faults: the counters never count *)
(* an item twice, an item is written off only after its attempts, the      *)
(* warm-up runs alone, and the job is complete only when nothing is left.  *)
(***************************************************************************)
EXTENDS BpmBackfill_proofs

(***************************************************************************)
(* The parts of the invariant, link by link                                *)
(***************************************************************************)

\* A message, or no task at all.
Quiet(r) ==
  /\ r.pc \in {"free", "sent"} /\ r.first /\ r.cold /\ r.budget /\ ~ r.fresh
  /\ r.todo = {} /\ r.flight = {} /\ r.give = {}

Apart(r, stored, off) ==
  /\ r.pc \in {"free", "sent"} => r.todo = {} /\ r.give = {}
  /\ r.todo \cap (stored \cup off \cup UNION r.flight) = {}
  /\ off \cap UNION r.flight = {}
  /\ \A c \in r.flight : Cardinality(c) <= ChunkSize
  /\ \A c, d \in r.flight : c # d => c \cap d = {}
  /\ r.give # {} => r.pc = "giveup"
  /\ r.give \cap (r.todo \cup UNION r.flight) = {} /\ Cardinality(r.give) <= ChunkSize

Warm(r, flag) ==
  /\ r.first => r.budget
  /\ r.pc \in {"free", "sent", "announce"} \cup Early => r.first /\ r.cold
  /\ r.pc = "submit" /\ r.first => r.cold /\ r.flight = {} /\ r.owed = 1
  /\ r.pc = "pool" /\ r.first => r.cold /\ \E c \in r.flight : r.flight = {c}
  /\ r.pc \in {"giveup", "report"} =>
       ~ r.cold /\ (IF r.first THEN r.flight = {} ELSE Cardinality(r.flight) < Workers)
  /\ r.pc \in {"submit", "pool"} /\ ~ r.first =>
       IF r.cold THEN r.flight = {} /\ (flag \/ r.todo = {})
       ELSE Cardinality(r.flight) + (IF r.pc = "submit" THEN r.owed ELSE 0) <= Workers

Ended(r, left) ==
  r.pc = "final" /\ r.end \in {"completed", "completed_with_errors"} => left = {}

\* The open items where r is the only task.
OpenOf(r, stored, off) ==
  {i \in Item \ off : (i \in stored => i \in UNION r.flight) /\ i \notin r.give}

Allowance(n) == n * ChunkSize

Told(s, n, k) == s.processed + s.failed + n <= s.total + Allowance(k)

LEMMA AllowanceGrows ==
  ASSUME NEW n \in Nat
  PROVE  /\ Allowance(n) \in Nat
         /\ Allowance(n + 1) = Allowance(n) + ChunkSize
<1>1. ChunkSize \in Nat
  BY LimitAssumption
<1> QED BY <1>1, SMT DEF Allowance

\* The invariant is a statement about each link.
LEMMA Parts ==
  /\ ChunksApart <=> \A l \in Link : Apart(link[l], bpm, excluded)
  /\ WarmUpSteps <=> \A l \in Link : Warm(link[l], cancel)
  /\ EndCovers <=> \A l \in Link : Ended(link[l], Missing)
  /\ \A s : Counted(s) <=> Told(s, Cardinality(Open), faults)
<1>1. ChunksApart <=> \A l \in Link : Apart(link[l], bpm, excluded)
  BY Zenon DEF ChunksApart, Apart
<1>2. WarmUpSteps <=> \A l \in Link : Warm(link[l], cancel)
  BY Zenon DEF WarmUpSteps, Warm
<1>3. EndCovers <=> \A l \in Link : Ended(link[l], Missing)
  BY Zenon DEF EndCovers, Ended
<1>4. \A s : Counted(s) <=> Told(s, Cardinality(Open), faults)
  BY Zenon DEF Counted, Told, Allowance
<1> QED BY <1>1, <1>2, <1>3, <1>4

LEMMA PartsNext ==
  /\ ChunksApart' <=> \A l \in Link : Apart(link'[l], bpm', excluded')
  /\ WarmUpSteps' <=> \A l \in Link : Warm(link'[l], cancel')
  /\ EndCovers' <=> \A l \in Link : Ended(link'[l], Missing')
  /\ OpenCounted' <=>
       /\ hash'.job \in used' => Told(hash', Cardinality(Open'), faults')
       /\ guard'.pc # "idle" => Told(guard'.copy, Cardinality(Open'), faults')
       /\ \A l \in Link : Working(l)' /\ link'[l].pc # "read"
                            => Told(link'[l], Cardinality(Open'), faults')
<1>1. ChunksApart' <=> \A l \in Link : Apart(link'[l], bpm', excluded')
  BY Zenon DEF ChunksApart, Apart
<1>2. WarmUpSteps' <=> \A l \in Link : Warm(link'[l], cancel')
  BY Zenon DEF WarmUpSteps, Warm
<1>3. EndCovers' <=> \A l \in Link : Ended(link'[l], Missing')
  BY Zenon DEF EndCovers, Ended
<1>4. OpenCounted' <=>
       /\ hash'.job \in used' => Told(hash', Cardinality(Open'), faults')
       /\ guard'.pc # "idle" => Told(guard'.copy, Cardinality(Open'), faults')
       /\ \A l \in Link : Working(l)' /\ link'[l].pc # "read"
                            => Told(link'[l], Cardinality(Open'), faults')
  BY Zenon DEF OpenCounted, Counted, Told, Allowance
<1> QED BY <1>1, <1>2, <1>3, <1>4

\* Whoever does not work has nothing.
LEMMA Idle ==
  ASSUME IInv, DataInv, NEW m \in Link, ~ Working(m)
  PROVE  Quiet(link[m])
<1>1. link[m].pc \in {"free", "sent"}
  BY DEF Working
<1>2. Apart(link[m], bpm, excluded) /\ Warm(link[m], cancel)
  BY Parts DEF DataInv
<1>3. link[m].flight = {}
  BY <1>1 DEF IInv, OpsHeld, Analysing
<1>4. ~ link[m].fresh
  BY DEF DataInv, StartsOnce
<1> QED BY <1>1, <1>2, <1>3, <1>4 DEF Quiet, Apart, Warm

LEMMA Others ==
  ASSUME IInv, DataInv, NEW l \in Link, Working(l), NEW m \in Link \ {l}
  PROVE  Quiet(link[m])
<1>1. ~ Working(m)
  BY DEF IInv, LinkExclusion
<1> QED BY <1>1, Idle

\* Where every other link is quiet, the open items are those of the task.
LEMMA OpenItems ==
  ASSUME NEW l \in Link, \A m \in Link \ {l} : Quiet(link[m])
  PROVE  Open = OpenOf(link[l], bpm, excluded)
<1>1. \A m \in Link \ {l} : link[m].flight = {} /\ link[m].give = {}
  BY DEF Quiet
<1>2. \A i : (\E m \in Link : i \in UNION link[m].flight) <=> i \in UNION link[l].flight
  BY <1>1
<1>3. \A i : (\A m \in Link : i \notin link[m].give) <=> i \notin link[l].give
  BY <1>1
<1> QED BY <1>2, <1>3 DEF Open, OpenOf

LEMMA OpenItemsNext ==
  ASSUME NEW l \in Link, \A m \in Link \ {l} : Quiet(link'[m])
  PROVE  Open' = OpenOf(link'[l], bpm', excluded')
<1>1. \A m \in Link \ {l} : link'[m].flight = {} /\ link'[m].give = {}
  BY DEF Quiet
<1>2. \A i : (\E m \in Link : i \in UNION link'[m].flight) <=> i \in UNION link'[l].flight
  BY <1>1
<1>3. \A i : (\A m \in Link : i \notin link'[m].give) <=> i \notin link'[l].give
  BY <1>1
<1> QED BY <1>2, <1>3 DEF Open, OpenOf

(***************************************************************************)
(* A step of one working link                                              *)
(***************************************************************************)

\* While a message or a task is there, the job is started.
LEMMA Started ==
  ASSUME IInv, DataInv, OneJob, NEW l \in Link, link[l].pc # "free"
  PROVE  /\ ~ NothingYet /\ link[l].job \in used /\ hash.job \in used
         /\ hash.job = link[l].job
<1>1. ~ NothingYet
  BY DEF NothingYet
<1>2. link[l].job \in used /\ hash.job \in used
  BY <1>1 DEF DataInv, StartsOnce
<1> QED BY <1>1, <1>2 DEF OneJob

LEMMA StartsKeep ==
  ASSUME StartsOnce, ~ NothingYet, UNCHANGED <<used, user, guard>>, hash'.job \in used,
         \A m \in Link : ~ link'[m].fresh /\ (link'[m].pc # "free" => link'[m].job \in used)
  PROVE  StartsOnce'
<1>1. \A u \in User : user[u].pc \notin Resetting
  BY DEF StartsOnce
<1>2. used # {}
  BY DEF StartsOnce
<1>3. \A u, v \in User : Starting(u)' => user'[u].job \in used' /\ (Starting(v)' => u = v)
  BY DEF StartsOnce, Starting
<1>4. \A u \in User : user'[u].pc \notin Resetting
  BY <1>1
<1>5. guard'.pc # "idle" => guard'.copy.job \in used' /\ Live(guard'.copy.state)
  BY DEF StartsOnce
<1> QED BY <1>2, <1>3, <1>4, <1>5 DEF StartsOnce

\* Link l goes on as rec: the publications are its own counters, and neither
\* a counter nor an item that is still open is lost.
Goes(l, rec) ==
  /\ Working(l)
  /\ link' = [link EXCEPT ![l] = rec]
  /\ rec \in LinkRecord
  /\ ~ rec.fresh /\ (rec.pc # "free" => rec.job = link[l].job)
  /\ UNCHANGED <<used, user, guard>>
  /\ \/ hash' = hash
     \/ /\ link[l].pc # "read" /\ hash'.job = link[l].job
        /\ hash'.total = link[l].total /\ hash'.processed = link[l].processed
        /\ hash'.failed = link[l].failed

\* What becomes of the items.
Spends(rec) ==
  /\ excluded \subseteq excluded'
  /\ \A i \in Item : attempts'[i] >= attempts[i]
  /\ \A i \in (excluded' \ excluded) \cup rec.give : attempts'[i] >= MaxAttempts

LEMMA LinkKeeps ==
  ASSUME IInv, IInv', DataInv, OneJob, NEW l \in Link, NEW rec, Goes(l, rec),
         Spends(rec), Apart(rec, bpm', excluded'), Warm(rec, cancel'),
         Ended(rec, Missing'), faults' \in Nat, faults' >= faults,
         Cardinality(OpenOf(rec, bpm', excluded')) + Allowance(faults)
           <= Cardinality(OpenOf(link[l], bpm, excluded)) + Allowance(faults'),
         rec.pc \notin {"free", "sent", "read"} =>
           Told(rec, Cardinality(OpenOf(rec, bpm', excluded')), faults')
  PROVE  DataInv'
<1>0. link \in [Link -> LinkRecord] /\ faults \in Nat /\ hash \in Hash
  BY LimitAssumption DEF IInv, TypeOK
<1>1. link'[l] = rec /\ \A m \in Link \ {l} : link'[m] = link[m]
  BY <1>0 DEF Goes
<1>2. \A m \in Link \ {l} : Quiet(link[m])
  BY Others DEF Goes
<1>3. Open = OpenOf(link[l], bpm, excluded)
  BY <1>2, OpenItems
<1>4. Open' = OpenOf(rec, bpm', excluded')
  <2>1. \A m \in Link \ {l} : Quiet(link'[m])
    BY <1>1, <1>2
  <2> QED BY <1>1, <2>1, OpenItemsNext
<1>5. /\ ~ NothingYet /\ link[l].job \in used /\ hash.job \in used
  BY Started DEF Goes, Working
<1>6. StartsOnce'
  <2>1. \A m \in Link : ~ link'[m].fresh /\ (link'[m].pc # "free" => link'[m].job \in used)
    BY <1>1, <1>2, <1>5 DEF Goes, Quiet, DataInv, StartsOnce
  <2>2. hash'.job \in used /\ UNCHANGED <<used, user, guard>>
    BY <1>5 DEF Goes
  <2> QED BY <1>5, <2>1, <2>2, StartsKeep DEF DataInv
<1>7. ChunksApart'
  <2>1. \A m \in Link \ {l} : Apart(link'[m], bpm', excluded')
    <3>1. Cardinality({}) <= ChunkSize
      BY FS_EmptySet, LimitAssumption
    <3>2. ASSUME NEW r, Quiet(r) PROVE Apart(r, bpm', excluded')
      <4>1. r.todo = {} /\ r.flight = {} /\ r.give = {}
        BY <3>2 DEF Quiet
      <4> QED BY <3>1, <4>1 DEF Apart
    <3> QED BY <1>1, <1>2, <3>2
  <2> QED BY <1>1, <2>1, PartsNext
<1>8. AttemptsSpent'
  <2>1. ASSUME NEW i \in Item, i \in excluded' \/ \E m \in Link : i \in link'[m].give
        PROVE  attempts'[i] >= MaxAttempts
    <3>1. i \in excluded \/ i \in (excluded' \ excluded) \cup rec.give
      BY <1>1, <1>2, <2>1 DEF Quiet
    <3>2. CASE i \in excluded
      <4>1. /\ attempts[i] >= MaxAttempts /\ attempts'[i] >= attempts[i]
            /\ attempts[i] \in Nat /\ attempts'[i] \in Nat
        BY <3>2 DEF DataInv, AttemptsSpent, Spends, IInv, TypeOK
      <4> QED BY <4>1, LimitAssumption
    <3> QED BY <3>1, <3>2 DEF Spends
  <2> QED BY <2>1 DEF AttemptsSpent
<1>9. WarmUpSteps'
  <2>1. \A m \in Link \ {l} : Warm(link'[m], cancel')
    BY <1>1, <1>2 DEF Quiet, Warm
  <2> QED BY <1>1, <2>1, PartsNext
<1>10. EndCovers'
  BY <1>1, <1>2, PartsNext DEF Quiet, Ended
<1>11. OpenCounted'
  <2> DEFINE m == Cardinality(Open)
             n == Cardinality(Open')
             a == Allowance(faults)
             b == Allowance(faults')
  <2>1. m \in Nat /\ n \in Nat /\ a \in Nat /\ b \in Nat /\ n + a <= m + b
    <3>1. m \in Nat /\ n \in Nat
      BY <1>3, <1>4, Counts DEF OpenOf
    <3> QED BY <1>0, <1>3, <1>4, <3>1, AllowanceGrows
  <2>2. ASSUME NEW s, s.processed \in Nat, s.failed \in Nat, s.total \in Nat, Counted(s)
        PROVE  Told(s, n, faults')
    <3>1. s.processed + s.failed + m <= s.total + a
      BY <2>2, Parts DEF Told
    <3> HIDE DEF m, n, a, b
    <3>2. s.processed + s.failed + n <= s.total + b
      BY <2>1, <2>2, <3>1
    <3> QED BY <3>2 DEF Told, n, b
  <2> HIDE DEF m, n, a, b
  <2>3. Told(hash', n, faults')
    <3>1. CASE hash' = hash
      BY <1>0, <1>5, <2>2, <3>1 DEF DataInv, OpenCounted, Hash
    <3>2. CASE hash' # hash
      <4>1. Counted(link[l]) /\ link[l] \in LinkRecord
        BY <1>0, <3>2 DEF Goes, DataInv, OpenCounted
      <4>2. Told(link[l], n, faults')
        BY <2>2, <4>1 DEF LinkRecord
      <4> QED BY <3>2, <4>2 DEF Goes, Told
    <3> QED BY <3>1, <3>2
  <2>4. guard'.pc # "idle" => Told(guard'.copy, n, faults')
    <3>1. guard' = guard /\ guard.copy \in Hash
      BY DEF Goes, IInv, TypeOK
    <3> QED BY <2>2, <3>1 DEF DataInv, OpenCounted, Hash
  <2>5. \A k \in Link : Working(k)' /\ link'[k].pc # "read" => Told(link'[k], n, faults')
    BY <1>1, <1>2, <1>4 DEF Quiet, Working, n
  <2> QED BY <2>3, <2>4, <2>5, PartsNext DEF n
<1> QED BY <1>6, <1>7, <1>8, <1>9, <1>10, <1>11 DEF DataInv

\* A step that leaves the items alone.
LEMMA PlainKeeps ==
  ASSUME IInv, IInv', DataInv, OneJob, NEW l \in Link, NEW rec, Goes(l, rec),
         UNCHANGED <<bpm, excluded, attempts, faults>>,
         rec.flight = link[l].flight, rec.todo = link[l].todo, rec.give = link[l].give,
         link[l].pc # "giveup", rec.pc \notin {"free", "sent"},
         Warm(rec, cancel'), Ended(rec, Missing),
         \E s \in IF link[l].pc = "read" THEN {hash} ELSE {link[l]} :
           rec.total >= s.total /\ rec.processed = s.processed /\ rec.failed = s.failed
  PROVE  DataInv'
<1>0. link[l] \in LinkRecord /\ hash \in Hash /\ faults \in Nat
  BY LimitAssumption DEF IInv, TypeOK
<1>1. Apart(link[l], bpm, excluded) /\ link[l].give = {}
  BY Parts DEF DataInv, Apart
<1>2. Apart(rec, bpm', excluded')
  BY <1>1, FS_EmptySet, LimitAssumption DEF Apart
<1>3. Spends(rec)
  BY <1>1 DEF Spends, IInv, TypeOK
<1>4. OpenOf(rec, bpm', excluded') = OpenOf(link[l], bpm, excluded)
  BY DEF OpenOf
<1> DEFINE n == Cardinality(OpenOf(link[l], bpm, excluded))
<1>5. n \in Nat /\ Allowance(faults) \in Nat
  BY <1>0, Counts, AllowanceGrows DEF OpenOf
<1>6. n = Cardinality(Open)
  BY Others, OpenItems DEF Goes
<1> HIDE DEF n
<1>7. Told(rec, n, faults)
  <2>1. PICK s \in IF link[l].pc = "read" THEN {hash} ELSE {link[l]} :
          rec.total >= s.total /\ rec.processed = s.processed /\ rec.failed = s.failed
    OBVIOUS
  <2>2. Counted(s)
    BY <2>1, Started DEF DataInv, OpenCounted, Goes, Working
  <2>3. Told(s, n, faults)
    BY <1>6, <2>2, Parts
  <2>4. /\ s.total \in Nat /\ s.processed \in Nat /\ s.failed \in Nat
        /\ rec.total \in Nat
    BY <1>0, <2>1 DEF LinkRecord, Hash, Goes
  <2> QED BY <1>5, <2>1, <2>3, <2>4 DEF Told
<1>8. Ended(rec, Missing')
  BY DEF Missing
<1> QED
  BY <1>0, <1>2, <1>3, <1>4, <1>5, <1>7, <1>8, LinkKeeps DEF n

\* What the invariant says of one working link.
LEMMA OfLink ==
  ASSUME IInv, DataInv, OneJob, NEW l \in Link
  PROVE  /\ link \in [Link -> LinkRecord] /\ link[l] \in LinkRecord
         /\ Apart(link[l], bpm, excluded) /\ Warm(link[l], cancel)
         /\ Ended(link[l], Missing) /\ ~ link[l].fresh
         /\ link[l].pc \notin Analysing => link[l].flight = {}
<1>1. link \in [Link -> LinkRecord] /\ link[l] \in LinkRecord
  BY DEF IInv, TypeOK
<1>2. link[l].pc \notin Analysing => link[l].flight = {}
  BY DEF IInv, OpsHeld
<1> QED BY <1>1, <1>2, Parts DEF DataInv, StartsOnce

\* A later link continues the counters it finds: they are of its job.
LEMMA ReadStateKeeps ==
  ASSUME IInv, IInv', DataInv, OneJob, NEW l \in Link, ReadState(l)
  PROVE  DataInv'
<1>0. /\ link \in [Link -> LinkRecord] /\ link[l] \in LinkRecord /\ hash \in Hash
      /\ Warm(link[l], cancel) /\ ~ link[l].fresh
  BY OfLink DEF IInv, TypeOK
<1> DEFINE rec == [link[l] EXCEPT !.pc = "start", !.total = hash.total,
                     !.processed = hash.processed, !.failed = hash.failed]
<1>1. /\ link[l].pc = "read"
      /\ UNCHANGED <<hash, stale, jobVars, bpm, linkLock, ops, userVars, guard, faults>>
  BY DEF ReadState
<1>2. hash.job = link[l].job
  BY <1>1, Started
<1>3. link' = [link EXCEPT ![l] = rec]
  BY <1>0, <1>2 DEF ReadState
<1>4. rec \in LinkRecord
  BY <1>0 DEF LinkRecord, LinkPc, Hash
<1>5. /\ rec.pc = "start" /\ rec.total = hash.total /\ rec.processed = hash.processed
      /\ rec.failed = hash.failed /\ rec.flight = link[l].flight
      /\ rec.todo = link[l].todo /\ rec.give = link[l].give /\ rec.job = link[l].job
      /\ rec.fresh = link[l].fresh /\ rec.first = link[l].first
      /\ rec.cold = link[l].cold /\ rec.budget = link[l].budget
  BY <1>0 DEF LinkRecord
<1> HIDE DEF rec
<1>6. Goes(l, rec)
  BY <1>0, <1>1, <1>3, <1>4, <1>5 DEF Goes, Working, userVars
<1>7. Warm(rec, cancel') /\ Ended(rec, Missing)
  BY <1>0, <1>1, <1>5 DEF Warm, Ended, Early
<1>8. rec.total >= hash.total
  BY <1>0, <1>5 DEF Hash
<1> QED BY <1>1, <1>5, <1>6, <1>7, <1>8, PlainKeeps DEF jobVars

\* A step that leaves the counters and the items of the link alone.
Turns(l, rec) ==
  /\ Working(l) /\ link[l].pc \notin {"read", "giveup"}
  /\ link' = [link EXCEPT ![l] = rec]
  /\ rec \in LinkRecord /\ rec.pc \notin {"free", "sent"}
  /\ rec.job = link[l].job /\ rec.fresh = link[l].fresh
  /\ rec.total = link[l].total /\ rec.processed = link[l].processed
  /\ rec.failed = link[l].failed /\ rec.todo = link[l].todo
  /\ rec.flight = link[l].flight /\ rec.give = link[l].give
  /\ UNCHANGED <<excluded, attempts, bpm, used, user, guard, faults>>

LEMMA TurnKeeps ==
  ASSUME IInv, IInv', DataInv, OneJob, NEW l \in Link, NEW rec, Turns(l, rec),
         hash' = hash \/ \E s \in State : Publish(l, s),
         Warm(rec, cancel'), Ended(rec, Missing)
  PROVE  DataInv'
<1>1. link[l] \in LinkRecord /\ ~ link[l].fresh
  BY OfLink
<1>2. Goes(l, rec)
  BY <1>1 DEF Goes, Turns, Publish
<1>3. rec.total >= link[l].total
  BY <1>1 DEF Turns, LinkRecord
<1> QED BY <1>2, <1>3, PlainKeeps DEF Turns

LEMMA FlagSteps ==
  ASSUME IInv, IInv', DataInv, OneJob, NEW l \in Link,
         CheckCancel(l) \/ ClearCancel(l) \/ LeavePool(l)
  PROVE  DataInv'
<1>0. /\ link \in [Link -> LinkRecord] /\ link[l] \in LinkRecord
      /\ Warm(link[l], cancel) /\ ~ link[l].fresh
  BY OfLink
<1>1. CASE CheckCancel(l)
  <2> DEFINE rec == [link[l] EXCEPT !.pc = IF cancel THEN "clear" ELSE "items"]
  <2>1. rec \in LinkRecord
    BY <1>0 DEF LinkRecord, LinkPc
  <2>2. Turns(l, rec) /\ hash' = hash
    BY <1>0, <1>1, <2>1 DEF Turns, CheckCancel, GoTo, Working, LinkRecord, jobVars, userVars
  <2>3. Warm(rec, cancel') /\ Ended(rec, Missing)
    BY <1>0, <1>1 DEF CheckCancel, Warm, Ended, Early, LinkRecord
  <2> QED BY <2>2, <2>3, TurnKeeps
<1>2. CASE ClearCancel(l)
  <2> DEFINE rec == [link[l] EXCEPT !.pc = "final", !.end = "cancelled"]
  <2>1. rec \in LinkRecord
    BY <1>0 DEF LinkRecord, LinkPc, State
  <2>2. Turns(l, rec) /\ hash' = hash
    BY <1>0, <1>2, <2>1 DEF Turns, ClearCancel, Working, LinkRecord, userVars
  <2>3. Warm(rec, cancel') /\ Ended(rec, Missing)
    BY <1>0, <1>2 DEF ClearCancel, Warm, Ended, Early, LinkRecord
  <2> QED BY <2>2, <2>3, TurnKeeps
<1>3. CASE LeavePool(l)
  <2> DEFINE rec == [link[l] EXCEPT !.pc = "after"]
  <2>1. rec \in LinkRecord
    BY <1>0 DEF LinkRecord, LinkPc
  <2>2. Turns(l, rec) /\ hash' = hash
    BY <1>0, <1>3, <2>1 DEF Turns, LeavePool, GoTo, Working, LinkRecord, jobVars, userVars
  <2>3. Warm(rec, cancel') /\ Ended(rec, Missing)
    BY <1>0, <1>3 DEF LeavePool, Warm, Ended, Early, LinkRecord
  <2> QED BY <2>2, <2>3, TurnKeeps
<1> QED BY <1>1, <1>2, <1>3

LEMMA LockingSteps ==
  ASSUME IInv, IInv', DataInv, OneJob, NEW l \in Link,
         AcquireOps(l) \/ ReleaseOps(l) \/ SpendBudget(l) \/ After(l)
  PROVE  DataInv'
<1>0. /\ link \in [Link -> LinkRecord] /\ link[l] \in LinkRecord
      /\ Warm(link[l], cancel) /\ ~ link[l].fresh
  BY OfLink
<1>1. CASE AcquireOps(l)
  <2> DEFINE rec == [link[l] EXCEPT !.own = ~ ops, !.pc = "announce"]
  <2>1. rec \in LinkRecord
    BY <1>0 DEF LinkRecord, LinkPc
  <2>2. Turns(l, rec) /\ hash' = hash
    BY <1>0, <1>1, <2>1 DEF Turns, AcquireOps, Working, LinkRecord, jobVars, userVars
  <2>3. Warm(rec, cancel') /\ Ended(rec, Missing)
    BY <1>0, <1>1 DEF AcquireOps, Warm, Ended, Early, LinkRecord
  <2> QED BY <2>2, <2>3, TurnKeeps
<1>2. CASE ReleaseOps(l)
  <2> DEFINE rec == [link[l] EXCEPT !.pc = "unlock"]
  <2>1. rec \in LinkRecord
    BY <1>0 DEF LinkRecord, LinkPc
  <2>2. Turns(l, rec) /\ hash' = hash
    BY <1>0, <1>2, <2>1 DEF Turns, ReleaseOps, GoTo, Working, LinkRecord, jobVars, userVars
  <2>3. Warm(rec, cancel') /\ Ended(rec, Missing)
    BY <1>0, <1>2 DEF ReleaseOps, Warm, Ended, Early, LinkRecord
  <2> QED BY <2>2, <2>3, TurnKeeps
<1>3. CASE SpendBudget(l)
  <2> DEFINE rec == [link[l] EXCEPT !.budget = FALSE]
  <2>1. rec \in LinkRecord
    BY <1>0 DEF LinkRecord
  <2>2. Turns(l, rec) /\ UNCHANGED <<hash, cancel>>
    BY <1>0, <1>3, <2>1 DEF Turns, SpendBudget, Working, LinkRecord, jobVars, userVars
  <2>3. /\ rec.pc = link[l].pc /\ link[l].pc \in {"submit", "pool"} /\ ~ rec.first
        /\ rec.cold = link[l].cold /\ rec.flight = link[l].flight
        /\ rec.todo = link[l].todo /\ rec.owed = link[l].owed
        /\ rec.first = link[l].first
    BY <1>0, <1>3 DEF SpendBudget, LinkRecord
  <2> HIDE DEF rec
  <2>4. Warm(rec, cancel') /\ Ended(rec, Missing)
    BY <1>0, <2>2, <2>3 DEF Warm, Ended, Early
  <2> QED BY <2>2, <2>4, TurnKeeps
<1>4. CASE After(l)
  <2>1. PICK rec \in {[link[l] EXCEPT !.pc = "clear"], [link[l] EXCEPT !.pc = "requeue"],
                      [link[l] EXCEPT !.pc = "final", !.end = Finished(link[l].failed)]} :
          /\ link' = [link EXCEPT ![l] = rec]
          /\ rec.pc = "final" => Missing = {}
    <3>1. \/ link' = [link EXCEPT ![l] = [link[l] EXCEPT !.pc = "clear"]]
          \/ link' = [link EXCEPT ![l] = [link[l] EXCEPT !.pc = "requeue"]]
          \/ /\ Missing = {}
             /\ link' = [link EXCEPT ![l] = [link[l] EXCEPT !.pc = "final",
                                               !.end = Finished(link[l].failed)]]
      BY <1>0, <1>4 DEF After, GoTo
    <3>2. /\ [link[l] EXCEPT !.pc = "clear"].pc = "clear"
          /\ [link[l] EXCEPT !.pc = "requeue"].pc = "requeue"
      BY <1>0 DEF LinkRecord
    <3> QED BY <3>1, <3>2
  <2>2. /\ rec.pc \in {"clear", "requeue", "final"} /\ rec.job = link[l].job
        /\ rec.fresh = link[l].fresh /\ rec.total = link[l].total
        /\ rec.processed = link[l].processed /\ rec.failed = link[l].failed
        /\ rec.todo = link[l].todo /\ rec.flight = link[l].flight
        /\ rec.give = link[l].give /\ rec.first = link[l].first
        /\ rec.budget = link[l].budget
    BY <1>0, <2>1 DEF LinkRecord
  <2>3. rec \in LinkRecord
    <3>1. Finished(link[l].failed) \in State
      BY DEF Finished, State
    <3>2. /\ [link[l] EXCEPT !.pc = "clear"] \in LinkRecord
          /\ [link[l] EXCEPT !.pc = "requeue"] \in LinkRecord
      BY <1>0 DEF LinkRecord, LinkPc
    <3>3. [link[l] EXCEPT !.pc = "final", !.end = Finished(link[l].failed)] \in LinkRecord
      BY <1>0, <3>1 DEF LinkRecord, LinkPc
    <3> QED BY <2>1, <3>2, <3>3
  <2>4. Turns(l, rec) /\ hash' = hash
    BY <1>4, <2>1, <2>2, <2>3 DEF Turns, After, Working, jobVars, userVars
  <2>5. Warm(rec, cancel') /\ Ended(rec, Missing)
    BY <1>0, <2>1, <2>2 DEF Warm, Ended, Early
  <2> QED BY <2>4, <2>5, TurnKeeps
<1> QED BY <1>1, <1>2, <1>3, <1>4

\* The steps that publish the counters.
LEMMA PublishingSteps ==
  ASSUME IInv, IInv', DataInv, OneJob, NEW l \in Link,
         Announce(l) \/ Report(l) \/ Requeue(l) \/ Finalize(l)
  PROVE  DataInv'
<1>0. /\ link \in [Link -> LinkRecord] /\ link[l] \in LinkRecord
      /\ Warm(link[l], cancel) /\ Workers \in Nat
      /\ link[l].pc \notin Analysing => link[l].flight = {}
  BY OfLink, LimitAssumption
<1>1. CASE Announce(l)
  <2> DEFINE rec == [link[l] EXCEPT !.pc = "submit", !.owed = 1]
  <2>1. rec \in LinkRecord
    BY <1>0 DEF LinkRecord, LinkPc
  <2>2. Turns(l, rec) /\ Publish(l, "running")
    BY <1>0, <1>1, <2>1 DEF Turns, Announce, Working, LinkRecord, jobVars, userVars
  <2>3. /\ rec.pc = "submit" /\ rec.owed = 1 /\ rec.flight = {} /\ rec.first /\ rec.cold
        /\ rec.budget
    BY <1>0, <1>1 DEF Announce, Warm, Analysing, LinkRecord
  <2> HIDE DEF rec
  <2>4. Warm(rec, cancel') /\ Ended(rec, Missing)
    BY <2>3 DEF Warm, Ended, Early
  <2> QED BY <2>2, <2>4, TurnKeeps DEF State
<1>2. CASE Report(l)
  <2> DEFINE rec == [link[l] EXCEPT !.pc = "submit", !.first = FALSE,
                       !.owed = IF link[l].first THEN Workers ELSE 1]
  <2>1. rec \in LinkRecord
    BY <1>0 DEF LinkRecord, LinkPc
  <2>2. Turns(l, rec) /\ Publish(l, "running")
    BY <1>0, <1>2, <2>1 DEF Turns, Report, Working, LinkRecord, jobVars, userVars
  <2>3. /\ rec.pc = "submit" /\ ~ rec.first /\ rec.cold = link[l].cold
        /\ rec.owed = IF link[l].first THEN Workers ELSE 1
        /\ rec.flight = link[l].flight
    BY <1>0 DEF LinkRecord
  <2>4. /\ ~ link[l].cold
        /\ IF link[l].first THEN link[l].flight = {}
           ELSE Cardinality(link[l].flight) < Workers
    BY <1>0, <1>2 DEF Report, Warm
  <2>5. Cardinality(link[l].flight) \in Nat /\ Cardinality({}) = 0
    <3>1. link[l].flight \in SUBSET SUBSET Item
      BY <1>0 DEF LinkRecord
    <3> QED BY <3>1, ItemAssumption, FS_SUBSET, FS_Subset, FS_CardinalityType, FS_EmptySet
  <2> HIDE DEF rec
  <2>6. Cardinality(rec.flight) + rec.owed <= Workers
    BY <1>0, <2>3, <2>4, <2>5
  <2>7. Warm(rec, cancel') /\ Ended(rec, Missing)
    BY <2>3, <2>4, <2>6 DEF Warm, Ended, Early
  <2> QED BY <2>2, <2>7, TurnKeeps DEF State
<1>3. CASE Requeue(l)
  <2> DEFINE rec == [link[l] EXCEPT !.pc = "send"]
  <2>1. rec \in LinkRecord
    BY <1>0 DEF LinkRecord, LinkPc
  <2>2. Turns(l, rec) /\ Publish(l, "running")
    BY <1>0, <1>3, <2>1 DEF Turns, Requeue, GoTo, Working, LinkRecord, jobVars, userVars
  <2>3. Warm(rec, cancel') /\ Ended(rec, Missing)
    BY <1>0 DEF Warm, Ended, Early, LinkRecord
  <2> QED BY <2>2, <2>3, TurnKeeps DEF State
<1>4. CASE Finalize(l)
  <2> DEFINE rec == [link[l] EXCEPT !.pc = "release"]
  <2>1. rec \in LinkRecord /\ link[l].end \in State
    BY <1>0 DEF LinkRecord, LinkPc
  <2>2. Turns(l, rec) /\ Publish(l, link[l].end)
    BY <1>0, <1>4, <2>1 DEF Turns, Finalize, GoTo, Working, LinkRecord, jobVars, userVars
  <2>3. Warm(rec, cancel') /\ Ended(rec, Missing)
    BY <1>0 DEF Warm, Ended, Early, LinkRecord
  <2> QED BY <2>1, <2>2, <2>3, TurnKeeps
<1> QED BY <1>1, <1>2, <1>3, <1>4

\* The warm-up is skipped, or the loop of submissions ends.
LEMMA SubmitRefusedKeeps ==
  ASSUME IInv, IInv', DataInv, OneJob, NEW l \in Link, SubmitRefused(l)
  PROVE  DataInv'
<1>0. /\ link \in [Link -> LinkRecord] /\ link[l] \in LinkRecord
      /\ Warm(link[l], cancel) /\ Workers \in Nat
  BY OfLink, LimitAssumption
<1> DEFINE rec == [link[l] EXCEPT !.first = FALSE,
                     !.owed = IF link[l].first THEN Workers ELSE 0,
                     !.pc = IF link[l].first THEN link[l].pc ELSE "pool"]
<1>1. rec \in LinkRecord
  BY <1>0 DEF LinkRecord, LinkPc
<1>2. Turns(l, rec) /\ UNCHANGED <<hash, cancel>>
  BY <1>0, <1>1 DEF Turns, SubmitRefused, Working, LinkRecord, jobVars, userVars
<1>3. /\ rec.pc = IF link[l].first THEN "submit" ELSE "pool"
      /\ rec.owed = IF link[l].first THEN Workers ELSE 0
      /\ ~ rec.first /\ rec.cold = link[l].cold /\ rec.flight = link[l].flight
      /\ rec.todo = link[l].todo
  BY <1>0 DEF SubmitRefused, LinkRecord
<1>4. /\ link[l].pc = "submit"
      /\ ~ link[l].budget \/ cancel \/ link[l].todo = {}
  BY DEF SubmitRefused
<1>5. Cardinality(link[l].flight) \in Nat /\ Cardinality({}) = 0 /\ link[l].owed \in Nat
  <2>1. link[l].flight \in SUBSET SUBSET Item /\ link[l].owed \in Nat
    BY <1>0 DEF LinkRecord
  <2> QED BY <2>1, ItemAssumption, FS_SUBSET, FS_Subset, FS_CardinalityType, FS_EmptySet
<1> HIDE DEF rec
<1>6. CASE link[l].first
  <2>1. link[l].cold /\ link[l].flight = {} /\ (cancel \/ link[l].todo = {})
    BY <1>0, <1>4, <1>6 DEF Warm
  <2>2. Warm(rec, cancel') /\ Ended(rec, Missing)
    BY <1>2, <1>3, <1>6, <2>1 DEF Warm, Ended, Early
  <2> QED BY <1>2, <2>2, TurnKeeps
<1>7. CASE ~ link[l].first
  <2>1. IF link[l].cold THEN link[l].flight = {} /\ (cancel \/ link[l].todo = {})
        ELSE Cardinality(link[l].flight) <= Workers
    BY <1>0, <1>4, <1>5, <1>7 DEF Warm
  <2>2. Warm(rec, cancel') /\ Ended(rec, Missing)
    BY <1>2, <1>3, <1>5, <1>7, <2>1 DEF Warm, Ended, Early
  <2> QED BY <1>2, <2>2, TurnKeeps
<1> QED BY <1>6, <1>7

\* A step that moves items without opening or closing one.
LEMMA SameOpenKeeps ==
  ASSUME IInv, IInv', DataInv, OneJob, NEW l \in Link, NEW rec, Goes(l, rec),
         link[l].pc # "read", faults' = faults,
         OpenOf(rec, bpm', excluded') = OpenOf(link[l], bpm, excluded),
         rec.pc \notin {"free", "sent"} =>
           /\ rec.total >= link[l].total
           /\ rec.processed = link[l].processed /\ rec.failed = link[l].failed,
         Spends(rec), Apart(rec, bpm', excluded'), Warm(rec, cancel'), Ended(rec, Missing')
  PROVE  DataInv'
<1>0. link[l] \in LinkRecord /\ rec \in LinkRecord /\ faults \in Nat
  BY LimitAssumption DEF IInv, TypeOK, Goes
<1> DEFINE n == Cardinality(OpenOf(link[l], bpm, excluded))
<1>1. n \in Nat /\ Allowance(faults) \in Nat
  BY <1>0, Counts, AllowanceGrows DEF OpenOf
<1>2. n = Cardinality(Open)
  BY Others, OpenItems DEF Goes
<1>3. Told(link[l], n, faults)
  <2>1. Counted(link[l])
    BY DEF DataInv, OpenCounted, Goes
  <2> QED BY <1>2, <2>1, Parts
<1> HIDE DEF n
<1>4. rec.pc \notin {"free", "sent"} => Told(rec, n, faults)
  BY <1>0, <1>1, <1>3 DEF Told, LinkRecord
<1> QED BY <1>0, <1>1, <1>4, LinkKeeps DEF n

LEMMA ReadItemsKeeps ==
  ASSUME IInv, IInv', DataInv, OneJob, NEW l \in Link, ReadItems(l)
  PROVE  DataInv'
<1>0. /\ link \in [Link -> LinkRecord] /\ link[l] \in LinkRecord
      /\ Apart(link[l], bpm, excluded) /\ Warm(link[l], cancel) /\ ~ link[l].fresh
      /\ link[l].pc \notin Analysing => link[l].flight = {}
  BY OfLink
<1> DEFINE rec == [link[l] EXCEPT
      !.todo = Missing,
      !.total = IF link[l].fresh \/ link[l].total = 0 THEN Cardinality(Missing)
                ELSE link[l].total,
      !.pc = IF Missing = {} THEN "final" ELSE "lock",
      !.end = IF Missing = {} THEN Finished(link[l].failed) ELSE link[l].end]
<1>1. /\ link[l].pc = "items"
      /\ UNCHANGED <<hash, stale, cancel, excluded, attempts, bpm, linkLock, ops, used,
                     user, guard, faults>>
  BY DEF ReadItems, jobVars, userVars
<1>2. link' = [link EXCEPT ![l] = rec]
  BY <1>0 DEF ReadItems
<1>3. /\ rec.todo = Missing /\ rec.pc = (IF Missing = {} THEN "final" ELSE "lock")
      /\ rec.total = (IF link[l].fresh \/ link[l].total = 0 THEN Cardinality(Missing)
                      ELSE link[l].total)
      /\ rec.flight = link[l].flight /\ rec.give = link[l].give /\ rec.job = link[l].job
      /\ rec.fresh = link[l].fresh /\ rec.processed = link[l].processed
      /\ rec.failed = link[l].failed /\ rec.first = link[l].first
      /\ rec.cold = link[l].cold /\ rec.budget = link[l].budget
  BY <1>0 DEF LinkRecord
<1>4. Missing \subseteq Item /\ Cardinality(Missing) \in Nat
  BY Counts DEF Missing
<1>5. rec \in LinkRecord
  BY <1>0, <1>4 DEF LinkRecord, LinkPc, State, Finished
<1> HIDE DEF rec
<1>6. link[l].flight = {} /\ link[l].give = {}
  BY <1>0, <1>1 DEF Apart, Analysing
<1>7. Goes(l, rec)
  BY <1>0, <1>1, <1>2, <1>3, <1>5 DEF Goes, Working
<1>8. rec.total >= link[l].total
  BY <1>0, <1>3, <1>4 DEF LinkRecord
<1>9. Spends(rec)
  BY <1>1, <1>3, <1>6 DEF Spends, IInv, TypeOK
<1>10. Apart(rec, bpm', excluded')
  <2>1. Cardinality({}) <= ChunkSize
    BY FS_EmptySet, LimitAssumption
  <2> QED BY <1>1, <1>3, <1>6, <2>1 DEF Apart, Missing
<1>11. Warm(rec, cancel')
  BY <1>0, <1>1, <1>3 DEF Warm, Early
<1>12. Ended(rec, Missing')
  BY <1>1, <1>3 DEF Ended, Missing
<1>13. OpenOf(rec, bpm', excluded') = OpenOf(link[l], bpm, excluded)
  BY <1>1, <1>3 DEF OpenOf
<1> QED BY <1>1, <1>3, <1>7, <1>8, <1>9, <1>10, <1>11, <1>12, <1>13, SameOpenKeeps

LEMMA UnionAdd ==
  ASSUME NEW S, NEW T
  PROVE  UNION (S \cup {T}) = (UNION S) \cup T
OBVIOUS

LEMMA SubmitKeeps ==
  ASSUME IInv, IInv', DataInv, OneJob, NEW l \in Link, Submit(l)
  PROVE  DataInv'
<1>0. /\ link \in [Link -> LinkRecord] /\ link[l] \in LinkRecord
      /\ Apart(link[l], bpm, excluded) /\ Warm(link[l], cancel) /\ ~ link[l].fresh
  BY OfLink
<1>1. PICK c \in SUBSET link[l].todo :
        /\ Cardinality(c) \in 1..ChunkSize
        /\ link' = [link EXCEPT ![l].todo = @ \ c, ![l].flight = @ \cup {c},
                                ![l].owed = @ - 1,
                                ![l].pc = IF link[l].owed = 1 THEN "pool" ELSE @]
  BY DEF Submit
<1>2. /\ link[l].pc = "submit" /\ ~ cancel /\ link[l].owed > 0
      /\ UNCHANGED <<hash, stale, cancel, excluded, attempts, bpm, linkLock, ops, used,
                     user, guard, faults>>
  BY DEF Submit, jobVars, userVars, IInv, OpsHeld
<1> DEFINE rec == [link[l] EXCEPT !.todo = link[l].todo \ c,
                     !.flight = link[l].flight \cup {c}, !.owed = link[l].owed - 1,
                     !.pc = IF link[l].owed = 1 THEN "pool" ELSE link[l].pc]
<1>3. link' = [link EXCEPT ![l] = rec]
  BY <1>0, <1>1
<1>4. rec = link'[l] /\ rec \in LinkRecord
  BY <1>0, <1>3 DEF IInv, TypeOK
<1>5. /\ rec.todo = link[l].todo \ c /\ rec.flight = link[l].flight \cup {c}
      /\ rec.owed = link[l].owed - 1 /\ rec.give = link[l].give
      /\ rec.pc = (IF link[l].owed = 1 THEN "pool" ELSE "submit")
      /\ rec.job = link[l].job /\ rec.fresh = link[l].fresh
      /\ rec.total = link[l].total /\ rec.processed = link[l].processed
      /\ rec.failed = link[l].failed /\ rec.first = link[l].first
      /\ rec.cold = link[l].cold /\ rec.budget = link[l].budget
  BY <1>0, <1>2 DEF LinkRecord
<1> HIDE DEF rec
<1>6. /\ link[l].todo \in SUBSET Item /\ link[l].flight \in SUBSET SUBSET Item
      /\ link[l].owed \in Nat /\ link[l].give = {} /\ link[l].total \in Nat
  BY <1>0, <1>2 DEF LinkRecord, Apart
<1>7. c # {} /\ Cardinality(c) <= ChunkSize /\ ChunkSize \in Nat
  <2>1. Cardinality({}) = 0
    BY FS_EmptySet
  <2>2. ChunkSize \in Nat
    BY LimitAssumption
  <2>3. Cardinality(c) \in 1..ChunkSize
    BY <1>1
  <2>4. Cardinality(c) # 0 /\ Cardinality(c) <= ChunkSize
    BY <2>2, <2>3
  <2> QED BY <2>1, <2>2, <2>4
<1>8. Goes(l, rec)
  BY <1>0, <1>2, <1>3, <1>4, <1>5 DEF Goes, Working
<1>9. Spends(rec)
  BY <1>2, <1>5, <1>6 DEF Spends, IInv, TypeOK
<1>10. Apart(rec, bpm', excluded')
  <2>1. /\ link[l].todo \cap bpm = {} /\ link[l].todo \cap excluded = {}
        /\ link[l].todo \cap UNION link[l].flight = {}
        /\ excluded \cap UNION link[l].flight = {}
    BY <1>0 DEF Apart
  <2>2. UNION rec.flight = (UNION link[l].flight) \cup c
    BY <1>5, UnionAdd
  <2>3. /\ rec.todo \cap (bpm \cup excluded \cup UNION rec.flight) = {}
        /\ excluded \cap UNION rec.flight = {}
    BY <1>5, <2>1, <2>2
  <2>4. \A e \in rec.flight : Cardinality(e) <= ChunkSize
    BY <1>0, <1>5, <1>7 DEF Apart
  <2>5. \A d, e \in rec.flight : d # e => d \cap e = {}
    <3>1. \A d \in link[l].flight : d \cap c = {}
      BY <2>1
    <3>2. \A d, e \in link[l].flight : d # e => d \cap e = {}
      BY <1>0 DEF Apart
    <3> QED BY <1>5, <3>1, <3>2
  <2>6. rec.give = {} /\ Cardinality(rec.give) <= ChunkSize
    BY <1>5, <1>6, FS_EmptySet, LimitAssumption
  <2> QED BY <1>2, <1>5, <2>3, <2>4, <2>5, <2>6 DEF Apart
<1>11. Warm(rec, cancel')
  <2> DEFINE n == Cardinality(link[l].flight)
             k == Cardinality(rec.flight)
  <2>1. IsFiniteSet(link[l].flight) /\ n \in Nat /\ k \in Nat /\ k <= n + 1
    <3>1. IsFiniteSet(link[l].flight)
      BY <1>6, ItemAssumption, FS_SUBSET, FS_Subset
    <3>2. n \in Nat
      BY <3>1, FS_CardinalityType
    <3>3. k = IF c \in link[l].flight THEN n ELSE n + 1
      BY <1>5, <3>1, FS_AddElement
    <3> QED BY <3>1, <3>2, <3>3
  <2>2. CASE link[l].first
    <3>1. link[l].cold /\ link[l].flight = {} /\ link[l].owed = 1 /\ link[l].budget
      BY <1>0, <1>2, <2>2 DEF Warm
    <3>2. rec.pc = "pool" /\ rec.flight = {c}
      BY <1>5, <3>1
    <3> QED BY <1>5, <2>2, <3>1, <3>2 DEF Warm, Early
  <2>3. CASE ~ link[l].first
    <3>1. ~ link[l].cold /\ n + link[l].owed <= Workers
      BY <1>0, <1>1, <1>2, <1>7, <2>3 DEF Warm
    <3> HIDE DEF n, k
    <3>2. k + (IF rec.pc = "submit" THEN rec.owed ELSE 0) <= Workers
      BY <1>2, <1>5, <1>6, <2>1, <3>1, LimitAssumption
    <3> QED BY <1>5, <2>3, <3>1, <3>2 DEF Warm, Early, k
  <2> QED BY <2>2, <2>3
<1>12. Ended(rec, Missing')
  BY <1>5 DEF Ended
<1>13. OpenOf(rec, bpm', excluded') = OpenOf(link[l], bpm, excluded)
  <2>1. c \cap bpm = {}
    BY <1>0 DEF Apart
  <2> QED BY <1>2, <1>5, <2>1 DEF OpenOf
<1>14. rec.total >= link[l].total
  BY <1>5, <1>6
<1> QED BY <1>2, <1>5, <1>8, <1>9, <1>10, <1>11, <1>12, <1>13, <1>14, SameOpenKeeps

LEMMA GiveUpKeeps ==
  ASSUME IInv, IInv', DataInv, OneJob, NEW l \in Link, GiveUp(l)
  PROVE  DataInv'
<1>0. /\ link \in [Link -> LinkRecord] /\ link[l] \in LinkRecord
      /\ Apart(link[l], bpm, excluded) /\ Warm(link[l], cancel) /\ ~ link[l].fresh
  BY OfLink
<1> DEFINE rec == [link[l] EXCEPT !.give = {}, !.pc = "report"]
<1>1. /\ link[l].pc = "giveup" /\ excluded' = excluded \cup link[l].give
      /\ UNCHANGED <<hash, stale, cancel, attempts, bpm, linkLock, ops, used, user,
                     guard, faults>>
  BY DEF GiveUp, userVars
<1>2. link' = [link EXCEPT ![l] = rec]
  BY <1>0 DEF GiveUp
<1>3. rec = link'[l] /\ rec \in LinkRecord
  BY <1>0, <1>2 DEF IInv, TypeOK
<1>4. /\ rec.pc = "report" /\ rec.give = {} /\ rec.todo = link[l].todo
      /\ rec.flight = link[l].flight /\ rec.owed = link[l].owed
      /\ rec.job = link[l].job /\ rec.fresh = link[l].fresh
      /\ rec.total = link[l].total /\ rec.processed = link[l].processed
      /\ rec.failed = link[l].failed /\ rec.first = link[l].first
      /\ rec.cold = link[l].cold /\ rec.budget = link[l].budget
  BY <1>0 DEF LinkRecord
<1> HIDE DEF rec
<1>5. Goes(l, rec)
  BY <1>0, <1>1, <1>2, <1>3, <1>4 DEF Goes, Working
<1>6. Spends(rec)
  <2>1. \A i \in link[l].give : attempts[i] >= MaxAttempts
    BY <1>0 DEF DataInv, AttemptsSpent, LinkRecord
  <2> QED BY <1>1, <1>4, <2>1 DEF Spends, IInv, TypeOK
<1>7. Apart(rec, bpm', excluded')
  <2>1. Cardinality({}) <= ChunkSize
    BY FS_EmptySet, LimitAssumption
  <2>2. /\ rec.todo \cap (bpm \cup excluded' \cup UNION rec.flight) = {}
        /\ excluded' \cap UNION rec.flight = {}
    BY <1>0, <1>1, <1>4 DEF Apart
  <2>3. /\ \A e \in rec.flight : Cardinality(e) <= ChunkSize
        /\ \A d, e \in rec.flight : d # e => d \cap e = {}
    BY <1>0, <1>4 DEF Apart
  <2> QED BY <1>1, <1>4, <2>1, <2>2, <2>3 DEF Apart
<1>8. Warm(rec, cancel')
  BY <1>0, <1>1, <1>4 DEF Warm, Early
<1>9. Ended(rec, Missing')
  BY <1>4 DEF Ended
<1>10. OpenOf(rec, bpm', excluded') = OpenOf(link[l], bpm, excluded)
  BY <1>1, <1>4 DEF OpenOf
<1>11. rec.total >= link[l].total
  BY <1>0, <1>4 DEF LinkRecord
<1> QED BY <1>1, <1>4, <1>5, <1>6, <1>7, <1>8, <1>9, <1>10, <1>11, SameOpenKeeps

LEMMA StoreKeeps ==
  ASSUME IInv, IInv', DataInv, OneJob, NEW l \in Link, NEW i \in Item, Store(l, i)
  PROVE  DataInv'
<1>0. /\ link \in [Link -> LinkRecord] /\ link[l] \in LinkRecord
      /\ Apart(link[l], bpm, excluded) /\ Warm(link[l], cancel) /\ ~ link[l].fresh
      /\ Ended(link[l], Missing)
      /\ link[l].pc \notin Analysing => link[l].flight = {}
  BY OfLink
<1>1. /\ i \in UNION link[l].flight /\ bpm' = bpm \cup {i}
      /\ UNCHANGED <<hash, stale, cancel, excluded, attempts, linkLock, ops, link, used,
                     user, guard, faults>>
  BY DEF Store, jobVars, userVars
<1>2. link[l].pc \in Analysing
  BY <1>0, <1>1
<1>3. link' = [link EXCEPT ![l] = link[l]]
  BY <1>0, <1>1
<1>4. Goes(l, link[l])
  BY <1>0, <1>1, <1>2, <1>3 DEF Goes, Working, Analysing
<1>5. Spends(link[l])
  BY <1>1 DEF Spends, DataInv, AttemptsSpent, IInv, TypeOK, LinkRecord
<1>6. Apart(link[l], bpm', excluded')
  BY <1>0, <1>1 DEF Apart
<1>7. Ended(link[l], Missing') /\ Warm(link[l], cancel')
  BY <1>0, <1>1 DEF Ended, Missing
<1>8. OpenOf(link[l], bpm', excluded') = OpenOf(link[l], bpm, excluded)
  <2>1. link[l].flight \in SUBSET SUBSET Item
    BY <1>0 DEF LinkRecord
  <2> QED BY <1>1, <2>1 DEF OpenOf
<1>9. link[l].total >= link[l].total /\ link[l].pc # "read"
  BY <1>0, <1>2 DEF LinkRecord, Analysing
<1> QED BY <1>1, <1>4, <1>5, <1>6, <1>7, <1>8, <1>9, SameOpenKeeps

LEMMA ThreeParts ==
  ASSUME NEW S \in SUBSET Item, NEW A \in SUBSET S, NEW B \in SUBSET S, NEW C \in SUBSET S,
         A \cap B = {}, A \cap C = {}, B \cap C = {}
  PROVE  Cardinality(A) + Cardinality(B) + Cardinality(C) <= Cardinality(S)
<1>1. /\ IsFiniteSet(A) /\ IsFiniteSet(B) /\ IsFiniteSet(C) /\ IsFiniteSet(S)
      /\ Cardinality(A) \in Nat /\ Cardinality(B) \in Nat /\ Cardinality(C) \in Nat
      /\ Cardinality(S) \in Nat
  BY Counts
<1>2. Cardinality({}) = 0
  BY FS_EmptySet
<1>3. IsFiniteSet(A \cup B) /\ Cardinality(A \cup B) = Cardinality(A) + Cardinality(B)
  <2>1. /\ IsFiniteSet(A \cup B)
        /\ Cardinality(A \cup B) = Cardinality(A) + Cardinality(B) - Cardinality(A \cap B)
    BY <1>1, FS_Union
  <2>2. Cardinality(A \cap B) = 0
    BY <1>2
  <2> QED BY <1>1, <2>1, <2>2
<1>4. Cardinality((A \cup B) \cap C) = 0
  <2>1. (A \cup B) \cap C = {}
    OBVIOUS
  <2> QED BY <1>2, <2>1
<1>5. Cardinality((A \cup B) \cup C) = Cardinality(A) + Cardinality(B) + Cardinality(C)
  <2>1. Cardinality((A \cup B) \cup C)
          = Cardinality(A \cup B) + Cardinality(C) - Cardinality((A \cup B) \cap C)
    BY <1>1, <1>3, FS_Union
  <2> QED BY <1>1, <1>3, <1>4, <2>1
<1>6. Cardinality((A \cup B) \cup C) <= Cardinality(S)
  <2>1. (A \cup B) \cup C \in SUBSET S
    OBVIOUS
  <2> QED BY <1>1, <2>1, FS_Subset
<1> QED BY <1>5, <1>6

LEMMA OneLess ==
  ASSUME NEW S, IsFiniteSet(S), NEW x \in S
  PROVE  Cardinality(S \ {x}) = Cardinality(S) - 1
BY FS_RemoveElement

LEMMA AccountKeeps ==
  ASSUME IInv, IInv', DataInv, OneJob, NEW l \in Link, NEW c \in SUBSET Item, Account(l, c)
  PROVE  DataInv'
<1>0. /\ link \in [Link -> LinkRecord] /\ link[l] \in LinkRecord
      /\ Apart(link[l], bpm, excluded) /\ Warm(link[l], cancel) /\ ~ link[l].fresh
      /\ attempts \in [Item -> Nat] /\ MaxAttempts \in Nat /\ ChunkSize \in Nat
      /\ faults \in Nat
  BY OfLink, LimitAssumption DEF IInv, TypeOK
<1>1. /\ link[l].pc = "pool" /\ c \in link[l].flight
      /\ attempts' = [i \in Item |-> attempts[i] + IF i \in c \ bpm THEN 1 ELSE 0]
      /\ UNCHANGED <<hash, stale, cancel, excluded, bpm, linkLock, ops, used, user,
                     guard, faults>>
  BY DEF Account, userVars
<1> DEFINE give == {i \in c \ bpm : attempts'[i] >= MaxAttempts}
           rec == [link[l] EXCEPT !.flight = link[l].flight \ {c}, !.cold = FALSE,
                     !.give = give,
                     !.processed = link[l].processed + Cardinality(c \cap bpm),
                     !.failed = link[l].failed + Cardinality(give),
                     !.pc = IF give = {} THEN "report" ELSE "giveup"]
<1>2. link' = [link EXCEPT ![l] = rec]
  BY DEF Account
<1>3. rec = link'[l] /\ rec \in LinkRecord
  BY <1>0, <1>2 DEF IInv, TypeOK
<1>4. /\ rec.pc = (IF give = {} THEN "report" ELSE "giveup")
      /\ rec.give = give /\ rec.todo = link[l].todo /\ rec.flight = link[l].flight \ {c}
      /\ rec.job = link[l].job /\ rec.fresh = link[l].fresh
      /\ rec.total = link[l].total
      /\ rec.processed = link[l].processed + Cardinality(c \cap bpm)
      /\ rec.failed = link[l].failed + Cardinality(give)
      /\ rec.first = link[l].first /\ ~ rec.cold /\ rec.budget = link[l].budget
  BY <1>0 DEF LinkRecord
<1> HIDE DEF rec
<1>5. Goes(l, rec)
  BY <1>0, <1>1, <1>2, <1>3, <1>4 DEF Goes, Working
<1>6. Spends(rec)
  <2>1. \A i \in Item : attempts'[i] >= attempts[i]
    BY <1>0, <1>1
  <2> QED BY <1>1, <1>4, <2>1 DEF Spends
<1>7. /\ link[l].flight \in SUBSET SUBSET Item /\ IsFiniteSet(link[l].flight)
      /\ Cardinality(link[l].flight) \in Nat
  <2>1. link[l].flight \in SUBSET SUBSET Item
    BY <1>0 DEF LinkRecord
  <2> QED BY <2>1, ItemAssumption, FS_SUBSET, FS_Subset, FS_CardinalityType
<1>8. /\ c \cap UNION rec.flight = {} /\ c \cap excluded = {} /\ c \cap link[l].todo = {}
      /\ link[l].give = {} /\ UNION rec.flight \subseteq UNION link[l].flight
  <2>1. \A d \in rec.flight : c \cap d = {}
    BY <1>0, <1>1, <1>4 DEF Apart
  <2>2. /\ c \cap excluded = {} /\ c \cap link[l].todo = {}
    BY <1>0, <1>1 DEF Apart
  <2> QED BY <1>0, <1>1, <1>4, <2>1, <2>2 DEF Apart
<1>9. Apart(rec, bpm', excluded')
  <2>1. Cardinality(give) <= ChunkSize /\ Cardinality({}) = 0
    <3>1. Cardinality(c) <= ChunkSize /\ IsFiniteSet(c) /\ Cardinality(c) \in Nat
      BY <1>0, <1>1, Counts DEF Apart
    <3>2. give \in SUBSET c /\ Cardinality(give) \in Nat
      BY Counts
    <3>3. Cardinality(give) <= Cardinality(c)
      BY <3>1, <3>2, FS_Subset
    <3> HIDE DEF give
    <3> QED BY <1>0, <3>1, <3>2, <3>3, FS_EmptySet
  <2>2. /\ rec.todo \cap (bpm' \cup excluded' \cup UNION rec.flight) = {}
        /\ excluded' \cap UNION rec.flight = {}
    BY <1>0, <1>1, <1>4, <1>8 DEF Apart
  <2>3. /\ \A e \in rec.flight : Cardinality(e) <= ChunkSize
        /\ \A d, e \in rec.flight : d # e => d \cap e = {}
    BY <1>0, <1>4 DEF Apart
  <2>4. rec.give \cap (rec.todo \cup UNION rec.flight) = {}
    BY <1>4, <1>8
  <2> QED BY <1>4, <2>1, <2>2, <2>3, <2>4 DEF Apart
<1>10. Warm(rec, cancel')
  <2>1. CASE link[l].first
    <3>1. link[l].flight = {c}
      BY <1>0, <1>1, <2>1 DEF Warm
    <3>2. rec.flight = {}
      BY <1>4, <3>1
    <3>3. link[l].budget
      BY <1>0, <2>1 DEF Warm
    <3> QED BY <1>4, <2>1, <3>2, <3>3 DEF Warm, Early
  <2>2. CASE ~ link[l].first
    <3>1. Cardinality(link[l].flight) <= Workers
      BY <1>0, <1>1, <1>7, <2>2 DEF Warm
    <3>2. Cardinality(rec.flight) = Cardinality(link[l].flight) - 1
      <4>1. Cardinality(link[l].flight \ {c}) = Cardinality(link[l].flight) - 1
        BY <1>1, <1>7, OneLess
      <4> QED BY <1>4, <4>1
    <3>3. Cardinality(rec.flight) < Workers
      BY <1>7, <3>1, <3>2, LimitAssumption
    <3> QED BY <1>4, <2>2, <3>3 DEF Warm, Early
  <2> QED BY <2>1, <2>2
<1>11. Ended(rec, Missing')
  BY <1>4 DEF Ended
<1> DEFINE O == OpenOf(link[l], bpm, excluded)
           P == OpenOf(rec, bpm', excluded')
           done == c \cap bpm
<1>12. O \in SUBSET Item /\ done \in SUBSET O /\ give \in SUBSET O /\ P \in SUBSET O
  <2>1. O \in SUBSET Item
    BY DEF OpenOf
  <2>2. done \in SUBSET O
    BY <1>1, <1>8 DEF OpenOf
  <2>3. give \in SUBSET O
    BY <1>8 DEF OpenOf
  <2>4. P \in SUBSET O
    BY <1>1, <1>8 DEF OpenOf
  <2> QED BY <2>1, <2>2, <2>3, <2>4
<1>13. done \cap give = {} /\ done \cap P = {} /\ give \cap P = {}
  <2>1. done \cap P = {}
    BY <1>1, <1>8 DEF OpenOf
  <2>2. give \cap P = {}
    BY <1>4 DEF OpenOf
  <2> QED BY <2>1, <2>2
<1>14. /\ Cardinality(O) \in Nat /\ Cardinality(P) \in Nat /\ Cardinality(done) \in Nat
       /\ Cardinality(give) \in Nat /\ Allowance(faults) \in Nat
  BY <1>0, <1>12, Counts, AllowanceGrows
<1> HIDE DEF O, P, done, give
<1>15. Cardinality(done) + Cardinality(give) + Cardinality(P) <= Cardinality(O)
  BY <1>12, <1>13, ThreeParts
<1>16. link[l].processed + link[l].failed + Cardinality(O)
         <= link[l].total + Allowance(faults)
  <2>1. O = Open
    BY <1>5, Others, OpenItems DEF Goes, O
  <2>2. Counted(link[l])
    BY <1>1, <1>5 DEF DataInv, OpenCounted, Goes
  <2> QED BY <2>1, <2>2, Parts DEF Told
<1>17. /\ rec.processed = link[l].processed + Cardinality(done)
       /\ rec.failed = link[l].failed + Cardinality(give) /\ rec.total = link[l].total
       /\ link[l].processed \in Nat /\ link[l].failed \in Nat /\ link[l].total \in Nat
  BY <1>0, <1>4 DEF done, LinkRecord
<1>18. Told(rec, Cardinality(P), faults')
  BY <1>1, <1>14, <1>15, <1>16, <1>17 DEF Told
<1>19. Cardinality(P) + Allowance(faults) <= Cardinality(O) + Allowance(faults')
  BY <1>1, <1>14, <1>15
<1> QED BY <1>0, <1>1, <1>5, <1>6, <1>9, <1>10, <1>11, <1>18, <1>19, LinkKeeps DEF O, P

\* A fault loses no more open items than a chunk that was about to be written
\* off, which the next link counts again.
LEMMA FaultKeeps ==
  ASSUME IInv, IInv', DataInv, OneJob, NEW l \in Link, NEW rec, Goes(l, rec),
         faults' = faults + 1, excluded' = excluded, bpm \subseteq bpm',
         attempts' = attempts, rec.todo = {}, rec.flight = {}, rec.give = {},
         Warm(rec, cancel'), Ended(rec, Missing'),
         rec.pc \notin {"free", "sent"} =>
           /\ link[l].pc # "read" /\ rec.total = link[l].total
           /\ rec.processed = link[l].processed /\ rec.failed = link[l].failed
  PROVE  DataInv'
<1>0. /\ link[l] \in LinkRecord /\ rec \in LinkRecord /\ faults \in Nat
      /\ faults + 1 \in Nat /\ ChunkSize \in Nat /\ Apart(link[l], bpm, excluded)
  BY OfLink, LimitAssumption DEF IInv, TypeOK, Goes
<1>1. Spends(rec)
  BY DEF Spends, IInv, TypeOK
<1>2. Apart(rec, bpm', excluded')
  BY FS_EmptySet, LimitAssumption DEF Apart
<1> DEFINE O == OpenOf(link[l], bpm, excluded)
           P == OpenOf(rec, bpm', excluded')
           give == link[l].give
<1>3. O \in SUBSET Item /\ P \in SUBSET Item /\ give \in SUBSET Item
  BY <1>0 DEF OpenOf, LinkRecord
<1>4. P \in SUBSET (O \cup give)
  BY DEF OpenOf
<1>5. Cardinality(give) <= ChunkSize
  BY <1>0 DEF Apart
<1>6. O = Open
  BY Others, OpenItems DEF Goes
<1>7. /\ Cardinality(O) \in Nat /\ Cardinality(P) \in Nat /\ Cardinality(give) \in Nat
      /\ IsFiniteSet(O) /\ IsFiniteSet(give)
      /\ Allowance(faults) \in Nat /\ Allowance(faults') = Allowance(faults) + ChunkSize
  BY <1>0, <1>3, Counts, AllowanceGrows
<1> HIDE DEF O, P, give
<1>8. Cardinality(P) <= Cardinality(O) + Cardinality(give)
  <2>1. /\ IsFiniteSet(O \cup give)
        /\ Cardinality(O \cup give)
             = Cardinality(O) + Cardinality(give) - Cardinality(O \cap give)
    BY <1>7, FS_Union
  <2>2. Cardinality(O \cap give) \in Nat
    BY <1>3, Counts
  <2>3. Cardinality(P) <= Cardinality(O \cup give)
    BY <1>4, <2>1, FS_Subset
  <2> QED BY <1>7, <2>1, <2>2, <2>3
<1>9. Cardinality(P) + Allowance(faults) <= Cardinality(O) + Allowance(faults')
  BY <1>0, <1>5, <1>7, <1>8
<1>10. rec.pc \notin {"free", "sent"} => Told(rec, Cardinality(P), faults')
  <2> SUFFICES ASSUME rec.pc \notin {"free", "sent"}
               PROVE  Told(rec, Cardinality(P), faults')
    OBVIOUS
  <2>1. Counted(link[l])
    BY DEF DataInv, OpenCounted, Goes
  <2>2. link[l].processed + link[l].failed + Cardinality(O)
          <= link[l].total + Allowance(faults)
    BY <1>6, <2>1, Parts DEF Told
  <2>3. /\ link[l].processed \in Nat /\ link[l].failed \in Nat /\ link[l].total \in Nat
    BY <1>0 DEF LinkRecord
  <2>4. link[l].processed + link[l].failed + Cardinality(P)
          <= link[l].total + Allowance(faults')
    BY <1>0, <1>7, <1>9, <2>2, <2>3
  <2> QED BY <2>4 DEF Told
<1>11. faults' \in Nat /\ faults' >= faults
  BY <1>0
<1> QED BY <1>1, <1>2, <1>9, <1>10, <1>11, LinkKeeps DEF O, P

LEMMA AbandonKeeps ==
  ASSUME IInv, IInv', DataInv, OneJob, NEW l \in Link, SoftTimeLimit(l) \/ Fail(l)
  PROVE  DataInv'
<1>0. /\ link \in [Link -> LinkRecord] /\ link[l] \in LinkRecord
      /\ Warm(link[l], cancel) /\ ~ link[l].fresh
  BY OfLink
<1>1. PICK pc \in {"requeue", "release"} : Abandon(l, pc)
  BY DEF SoftTimeLimit, Fail
<1> DEFINE rec == [link[l] EXCEPT !.flight = {}, !.todo = {}, !.give = {}, !.owed = 0,
                                  !.pc = pc]
<1>2. /\ UNCHANGED <<cancel, excluded, attempts, used, user, guard>>
      /\ hash' = hash \/ Publish(l, "failed")
  BY DEF SoftTimeLimit, Fail, jobVars, userVars
<1>3. /\ link[l].pc \notin {"free", "sent", "read"} /\ faults' = faults + 1
      /\ bpm \subseteq bpm' /\ link' = [link EXCEPT ![l] = rec]
  BY <1>0, <1>1 DEF Abandon
<1>4. rec = link'[l] /\ rec \in LinkRecord
  BY <1>0, <1>3 DEF IInv, TypeOK
<1>5. /\ rec.pc = pc /\ rec.todo = {} /\ rec.flight = {} /\ rec.give = {}
      /\ rec.job = link[l].job /\ rec.fresh = link[l].fresh /\ rec.total = link[l].total
      /\ rec.processed = link[l].processed /\ rec.failed = link[l].failed
      /\ rec.first = link[l].first /\ rec.budget = link[l].budget
  BY <1>0 DEF LinkRecord
<1> HIDE DEF rec
<1>6. Goes(l, rec)
  BY <1>0, <1>2, <1>3, <1>4, <1>5 DEF Goes, Working, Publish
<1>7. Warm(rec, cancel') /\ Ended(rec, Missing')
  BY <1>0, <1>1, <1>5 DEF Warm, Ended, Early
<1> QED BY <1>2, <1>3, <1>5, <1>6, <1>7, FaultKeeps

\* The task is over, or killed.
LEMMA LeavingSteps ==
  ASSUME IInv, IInv', DataInv, OneJob, NEW l \in Link, ReleaseLink(l) \/ Crash(l)
  PROVE  DataInv'
<1>0. /\ link \in [Link -> LinkRecord] /\ link[l] \in LinkRecord
      /\ Apart(link[l], bpm, excluded) /\ Unused \in LinkRecord
      /\ link[l].pc \notin Analysing => link[l].flight = {}
  BY OfLink, RecordTypes
<1>1. /\ Working(l) /\ link' = [link EXCEPT ![l] = Unused]
      /\ UNCHANGED <<hash, cancel, excluded, attempts, bpm, used, user, guard>>
  BY DEF ReleaseLink, Crash, jobVars, userVars, Working
<1>2. /\ Unused.pc = "free" /\ Unused.todo = {} /\ Unused.flight = {} /\ Unused.give = {}
      /\ ~ Unused.fresh /\ Unused.first /\ Unused.cold /\ Unused.budget
  BY DEF Unused
<1>3. Goes(l, Unused)
  BY <1>0, <1>1, <1>2 DEF Goes
<1>4. Warm(Unused, cancel') /\ Ended(Unused, Missing')
  BY <1>2 DEF Warm, Ended
<1>5. CASE ReleaseLink(l)
  <2>1. link[l].pc = "unlock" /\ faults' = faults
    BY <1>5 DEF ReleaseLink
  <2>2. link[l].flight = {} /\ link[l].give = {}
    BY <1>0, <2>1 DEF Apart, Analysing
  <2>3. OpenOf(Unused, bpm', excluded') = OpenOf(link[l], bpm, excluded)
    BY <1>1, <1>2, <2>2 DEF OpenOf
  <2>4. Spends(Unused)
    BY <1>1, <1>2 DEF Spends, IInv, TypeOK
  <2>5. Apart(Unused, bpm', excluded')
    BY <1>2, FS_EmptySet, LimitAssumption DEF Apart
  <2> QED BY <1>2, <1>3, <1>4, <2>1, <2>3, <2>4, <2>5, SameOpenKeeps
<1>6. CASE Crash(l)
  <2>1. faults' = faults + 1
    BY <1>6 DEF Crash
  <2> QED BY <1>1, <1>2, <1>3, <1>4, <2>1, FaultKeeps
<1> QED BY <1>5, <1>6

(***************************************************************************)
(* A message is taken or sent                                              *)
(***************************************************************************)

\* Link m, from r to s, is the same, a message or nothing, or goes on without
\* touching an item or a counter.
Stays(r, s) ==
  \/ s = r
  \/ Quiet(r) /\ Quiet(s)
  \/ /\ <<r.pc, s.pc>> \in {<<"sent", "read">>, <<"send", "release">>}
     /\ s.todo = r.todo /\ s.flight = r.flight /\ s.give = r.give
     /\ s.total = r.total /\ s.processed = r.processed /\ s.failed = r.failed
     /\ s.first = r.first /\ s.cold = r.cold /\ s.budget = r.budget

LEMMA LinksKeep ==
  ASSUME IInv, DataInv, StartsOnce', \A m \in Link : Stays(link[m], link'[m]),
         UNCHANGED <<hash, cancel, excluded, attempts, bpm, used, faults>>,
         guard' = guard \/ guard'.pc = "idle"
  PROVE  DataInv'
<1>1. \A m \in Link : /\ link'[m].flight = link[m].flight
                      /\ link'[m].give = link[m].give
  BY DEF Stays, Quiet
<1>2. Open' = Open
  BY <1>1 DEF Open
<1>3. ChunksApart'
  <2>1. ASSUME NEW m \in Link PROVE Apart(link'[m], bpm', excluded')
    <3>1. Apart(link[m], bpm, excluded)
      BY Parts DEF DataInv
    <3>2. CASE Quiet(link'[m])
      <4>1. Cardinality({}) <= ChunkSize
        BY FS_EmptySet, LimitAssumption
      <4> QED BY <3>2, <4>1 DEF Quiet, Apart
    <3>3. CASE ~ Quiet(link'[m])
      BY <3>1, <3>3 DEF Stays, Apart
    <3> QED BY <3>2, <3>3
  <2> QED BY <2>1, PartsNext
<1>4. AttemptsSpent'
  BY <1>1 DEF DataInv, AttemptsSpent
<1>5. WarmUpSteps'
  <2>1. ASSUME NEW m \in Link PROVE Warm(link'[m], cancel')
    <3>1. Warm(link[m], cancel)
      BY Parts DEF DataInv
    <3>2. CASE Quiet(link'[m])
      BY <3>2 DEF Quiet, Warm
    <3>3. CASE ~ Quiet(link'[m])
      BY <3>1, <3>3 DEF Stays, Warm, Early
    <3> QED BY <3>2, <3>3
  <2> QED BY <2>1, PartsNext
<1>6. EndCovers'
  <2>1. ASSUME NEW m \in Link PROVE Ended(link'[m], Missing')
    <3>1. Ended(link[m], Missing)
      BY Parts DEF DataInv
    <3> QED BY <3>1 DEF Stays, Quiet, Ended, Missing
  <2> QED BY <2>1, PartsNext
<1>7. OpenCounted'
  <2>1. hash'.job \in used' => Told(hash', Cardinality(Open'), faults')
    BY <1>2, Parts DEF DataInv, OpenCounted
  <2>2. guard'.pc # "idle" => Told(guard'.copy, Cardinality(Open'), faults')
    BY <1>2, Parts DEF DataInv, OpenCounted
  <2>3. ASSUME NEW m \in Link, Working(m)', link'[m].pc # "read"
        PROVE  Told(link'[m], Cardinality(Open'), faults')
    <3>1. Working(m) /\ link[m].pc # "read"
      BY <2>3 DEF Stays, Quiet, Working
    <3>2. Told(link[m], Cardinality(Open), faults)
      BY <3>1, Parts DEF DataInv, OpenCounted
    <3> QED BY <1>2, <2>3, <3>2 DEF Stays, Quiet, Working, Told
  <2> QED BY <2>1, <2>2, <2>3, PartsNext
<1> QED BY <1>3, <1>4, <1>5, <1>6, <1>7 DEF DataInv

LEMMA MessageQuiet == Quiet(Unused) /\ \A j : Quiet(Message(j))
BY DEF Quiet, Message, Unused

LEMMA BeginKeeps ==
  ASSUME IInv, IInv', DataInv, OneJob, NEW l \in Link, Begin(l)
  PROVE  DataInv'
<1>0. link \in [Link -> LinkRecord] /\ link[l] \in LinkRecord /\ Quiet(link[l])
  BY Idle, OfLink DEF Begin, Working
<1>1. /\ link[l].pc = "sent"
      /\ UNCHANGED <<hash, cancel, excluded, attempts, bpm, used, user, guard, faults>>
      /\ \/ link' = [link EXCEPT ![l] = Unused]
         \/ link' = [link EXCEPT ![l].pc = "read"]
  BY DEF Begin, GoTo, jobVars, userVars
<1>2. Stays(link[l], link'[l]) /\ ~ link'[l].fresh
      /\ (link'[l].pc # "free" => link'[l].job = link[l].job)
  <2>1. CASE link' = [link EXCEPT ![l] = Unused]
    <3>1. link'[l] = Unused
      BY <1>0, <2>1
    <3> QED BY <1>0, <3>1, MessageQuiet DEF Stays, Quiet, Unused
  <2>2. CASE link' = [link EXCEPT ![l].pc = "read"]
    <3>1. link'[l] = [link[l] EXCEPT !.pc = "read"]
      BY <1>0, <2>2
    <3>2. /\ link'[l].pc = "read" /\ link'[l].job = link[l].job
          /\ link'[l].fresh = link[l].fresh /\ link'[l].todo = link[l].todo
          /\ link'[l].flight = link[l].flight /\ link'[l].give = link[l].give
          /\ link'[l].total = link[l].total /\ link'[l].processed = link[l].processed
          /\ link'[l].failed = link[l].failed /\ link'[l].first = link[l].first
          /\ link'[l].cold = link[l].cold /\ link'[l].budget = link[l].budget
      BY <1>0, <3>1 DEF LinkRecord
    <3>3. Stays(link[l], link'[l])
      BY <1>1, <3>2 DEF Stays
    <3>4. ~ link[l].fresh
      BY <1>0 DEF Quiet
    <3> QED BY <3>2, <3>3, <3>4
  <2> QED BY <1>1, <2>1, <2>2
<1>3. \A m \in Link \ {l} : link'[m] = link[m]
  BY <1>0, <1>1
<1>4. \A m \in Link : Stays(link[m], link'[m])
  BY <1>2, <1>3 DEF Stays
<1>5. StartsOnce'
  <2>1. ~ NothingYet /\ link[l].job \in used /\ hash.job \in used
    BY <1>1, Started
  <2>2. \A m \in Link : ~ link'[m].fresh /\ (link'[m].pc # "free" => link'[m].job \in used)
    BY <1>1, <1>2, <1>3, <2>1 DEF DataInv, StartsOnce
  <2> QED BY <1>1, <2>1, <2>2, StartsKeep DEF DataInv
<1> QED BY <1>1, <1>4, <1>5, LinksKeep

LEMMA SendNextKeeps ==
  ASSUME IInv, IInv', DataInv, OneJob, NEW l \in Link, SendNext(l)
  PROVE  DataInv'
<1>0. link \in [Link -> LinkRecord] /\ link[l] \in LinkRecord /\ ~ link[l].fresh
  BY OfLink
<1>1. PICK m \in Link :
        /\ link[m] = Unused
        /\ link' = [link EXCEPT ![l].pc = "release", ![m] = Message(link[l].job)]
  BY DEF SendNext
<1>2. /\ link[l].pc = "send" /\ m # l
      /\ UNCHANGED <<hash, cancel, excluded, attempts, bpm, used, user, guard, faults>>
  BY <1>1 DEF SendNext, jobVars, userVars, Unused
<1>3. /\ link'[l] = [link[l] EXCEPT !.pc = "release"]
      /\ link'[m] = Message(link[l].job)
      /\ \A n \in Link \ {l, m} : link'[n] = link[n]
  BY <1>0, <1>1, <1>2
<1>4. Stays(link[l], link'[l]) /\ link'[l].job = link[l].job /\ ~ link'[l].fresh
  BY <1>0, <1>2, <1>3 DEF Stays, LinkRecord
<1>5. Stays(link[m], link'[m]) /\ link'[m].job = link[l].job /\ ~ link'[m].fresh
  <2>1. Message(link[l].job).job = link[l].job /\ ~ Message(link[l].job).fresh
    BY DEF Message, Unused
  <2>2. Quiet(link[m]) /\ Quiet(link'[m])
    BY <1>1, <1>3, MessageQuiet
  <2> QED BY <1>3, <2>1, <2>2 DEF Stays
<1>6. \A n \in Link : Stays(link[n], link'[n])
  BY <1>3, <1>4, <1>5, ZenonT(30) DEF Stays
<1>7. StartsOnce'
  <2>1. ~ NothingYet /\ link[l].job \in used /\ hash.job \in used
    BY <1>2, Started
  <2>2. \A n \in Link : ~ link'[n].fresh /\ (link'[n].pc # "free" => link'[n].job \in used)
    BY <1>3, <1>4, <1>5, <2>1 DEF DataInv, StartsOnce
  <2> QED BY <1>2, <2>1, <2>2, StartsKeep DEF DataInv
<1> QED BY <1>2, <1>6, <1>7, LinksKeep

(***************************************************************************)
(* Steps of everything else                                                *)
(***************************************************************************)

\* The links and the items are left alone.
LEMMA ItemsKeep ==
  ASSUME IInv, DataInv, StartsOnce', UNCHANGED <<link, bpm, excluded>>,
         attempts' = attempts \/ NothingYet,
         cancel' = cancel \/ cancel' = TRUE \/ NothingYet,
         faults' \in {faults, faults + 1}, hash' \in Hash,
         hash'.job \in used' => \/ hash' = hash /\ hash.job \in used
                               \/ Told(hash', Cardinality(Open), faults),
         \/ guard'.pc = "idle"
         \/ guard'.copy = guard.copy /\ guard.pc # "idle"
         \/ guard'.copy = hash /\ hash.job \in used
  PROVE  DataInv'
<1>0. /\ faults \in Nat /\ hash \in Hash /\ guard.copy \in Hash
      /\ link \in [Link -> LinkRecord]
  BY LimitAssumption DEF IInv, TypeOK
<1>1. Open' = Open /\ Missing' = Missing
  BY DEF Open, Missing
<1>2. ChunksApart' /\ EndCovers'
  BY <1>1, Parts, PartsNext DEF DataInv
<1>3. AttemptsSpent'
  <2>1. CASE attempts' = attempts
    BY <2>1 DEF DataInv, AttemptsSpent
  <2>2. CASE NothingYet
    <3>1. excluded = {} /\ \A l \in Link : link[l].give = {}
      BY <2>2, Parts DEF NothingYet, DataInv, Apart
    <3> QED BY <3>1 DEF AttemptsSpent
  <2> QED BY <2>1, <2>2
<1>4. WarmUpSteps'
  <2>1. ASSUME NEW l \in Link PROVE Warm(link'[l], cancel')
    <3>1. Warm(link[l], cancel)
      BY Parts DEF DataInv
    <3>2. CASE cancel' = cancel \/ cancel' = TRUE
      BY <3>1, <3>2 DEF Warm
    <3>3. CASE NothingYet
      <4>1. link[l].pc = "free"
        BY <3>3 DEF NothingYet
      <4> QED BY <3>1, <4>1 DEF Warm
    <3> QED BY <3>2, <3>3
  <2> QED BY <2>1, PartsNext
<1>5. OpenCounted'
  <2> DEFINE m == Cardinality(Open)
  <2>1. m \in Nat /\ Allowance(faults) \in Nat /\ Allowance(faults') \in Nat
        /\ Allowance(faults) <= Allowance(faults')
    <3>1. m \in Nat
      BY Counts DEF Open
    <3>2. ChunkSize \in Nat
      BY LimitAssumption
    <3> QED BY <1>0, <3>1, <3>2, AllowanceGrows
  <2> HIDE DEF m
  <2>2. ASSUME NEW s, s.processed \in Nat, s.failed \in Nat, s.total \in Nat,
               Told(s, m, faults)
        PROVE  Told(s, m, faults')
    BY <2>1, <2>2 DEF Told
  <2>3. hash.job \in used => Told(hash, m, faults)
    BY Parts DEF DataInv, OpenCounted, m
  <2>4. hash'.job \in used' => Told(hash', m, faults')
    <3> SUFFICES ASSUME hash'.job \in used' PROVE Told(hash', m, faults')
      OBVIOUS
    <3>1. Told(hash', m, faults)
      BY <2>3 DEF m
    <3> QED BY <2>2, <3>1 DEF Hash
  <2>5. guard'.pc # "idle" => Told(guard'.copy, m, faults')
    <3> SUFFICES ASSUME guard'.pc # "idle" PROVE Told(guard'.copy, m, faults')
      OBVIOUS
    <3>1. CASE guard'.copy = guard.copy /\ guard.pc # "idle"
      <4>1. Told(guard.copy, m, faults)
        BY <3>1, Parts DEF DataInv, OpenCounted, m
      <4> QED BY <1>0, <2>2, <3>1, <4>1 DEF Hash
    <3>2. CASE guard'.copy = hash /\ hash.job \in used
      BY <1>0, <2>2, <2>3, <3>2 DEF Hash
    <3> QED BY <3>1, <3>2
  <2>6. ASSUME NEW l \in Link, Working(l)', link'[l].pc # "read"
        PROVE  Told(link'[l], m, faults')
    <3>1. Working(l) /\ link[l].pc # "read" /\ link[l] \in LinkRecord
      BY <1>0, <2>6 DEF Working
    <3>2. Told(link[l], m, faults)
      BY <3>1, Parts DEF DataInv, OpenCounted, m
    <3> QED BY <2>2, <3>1, <3>2 DEF LinkRecord
  <2> QED BY <1>1, <2>4, <2>5, <2>6, PartsNext DEF m
<1> QED BY <1>2, <1>3, <1>4, <1>5 DEF DataInv

LEMMA ClockKeeps ==
  ASSUME IInv, IInv', DataInv, LockExpires \/ HeartbeatAges
  PROVE  DataInv'
<1>1. UNCHANGED <<hash, cancel, excluded, attempts, bpm, link, used, user, guard, faults>>
  BY DEF LockExpires, HeartbeatAges, jobVars, userVars
<1>2. StartsOnce'
  BY <1>1 DEF DataInv, StartsOnce, NothingYet, Starting
<1> QED BY <1>1, <1>2, LinksKeep DEF Stays

LEMMA GuardKeeps ==
  ASSUME IInv, IInv', DataInv, OneJob, GuardStep
  PROVE  DataInv'
<1>0. /\ faults \in Nat /\ hash \in Hash /\ hash' \in Hash
      /\ link \in [Link -> LinkRecord]
      /\ guard \in [pc : {"idle", "touch", "send"}, copy : Hash]
  BY LimitAssumption DEF IInv, TypeOK
<1>1. CASE GuardRead
  <2>1. /\ guard' = [pc |-> "touch", copy |-> hash] /\ Live(hash.state)
        /\ UNCHANGED <<hash, cancel, excluded, attempts, bpm, link, used, user, faults>>
    BY <1>1 DEF GuardRead, jobVars, userVars
  <2>2. ~ NothingYet /\ hash.job \in used
    <3>1. ~ NothingYet
      BY <2>1 DEF NothingYet, NoHash, Live
    <3> QED BY <3>1 DEF DataInv, StartsOnce
  <2>3. StartsOnce'
    <3>1. \A u \in User : user[u].pc \notin Resetting
      BY <2>2 DEF DataInv, StartsOnce
    <3>2. used # {}
      BY <2>2
    <3> QED BY <2>1, <2>2, <3>1, <3>2 DEF DataInv, StartsOnce, Starting
  <2> QED BY <1>0, <2>1, <2>2, <2>3, ItemsKeep
<1>2. CASE GuardTouch
  <2>1. /\ guard.pc = "touch" /\ hash' = guard.copy
        /\ guard' = [guard EXCEPT !.pc = "send"]
        /\ UNCHANGED <<cancel, excluded, attempts, bpm, link, used, user, faults>>
    BY <1>2 DEF GuardTouch, jobVars, userVars
  <2>2. guard'.copy = guard.copy /\ guard'.pc = "send"
    BY <1>0, <2>1
  <2>3. ~ NothingYet /\ guard.copy.job \in used
    BY <2>1 DEF NothingYet, DataInv, StartsOnce
  <2>4. StartsOnce'
    <3>1. \A u \in User : user[u].pc \notin Resetting
      BY <2>3 DEF DataInv, StartsOnce
    <3>2. used # {}
      BY <2>3
    <3> QED BY <2>1, <2>2, <2>3, <3>1, <3>2 DEF DataInv, StartsOnce, Starting
  <2>5. Told(hash', Cardinality(Open), faults)
    BY <2>1, Parts DEF DataInv, OpenCounted
  <2> QED BY <1>0, <2>1, <2>2, <2>4, <2>5, ItemsKeep
<1>3. CASE GuardSend
  <2>1. PICK m \in Link :
          link[m] = Unused /\ link' = [link EXCEPT ![m] = Message(guard.copy.job)]
    BY <1>3 DEF GuardSend
  <2>2. /\ guard.pc = "send" /\ guard' = [pc |-> "idle", copy |-> NoHash]
        /\ UNCHANGED <<hash, cancel, excluded, attempts, bpm, used, user, faults>>
    BY <1>3 DEF GuardSend, jobVars, userVars
  <2>3. /\ link'[m] = Message(guard.copy.job)
        /\ \A n \in Link \ {m} : link'[n] = link[n]
    BY <1>0, <2>1
  <2>4. \A n \in Link : Stays(link[n], link'[n])
    BY <2>1, <2>3, MessageQuiet DEF Stays
  <2>5. StartsOnce'
    <3>1. ~ NothingYet /\ guard.copy.job \in used
      BY <2>2 DEF NothingYet, DataInv, StartsOnce
    <3>2. \A u \in User : user[u].pc \notin Resetting
      BY <3>1 DEF DataInv, StartsOnce
    <3>3. used # {} /\ hash.job \in used
      BY <3>1 DEF DataInv, StartsOnce
    <3>4. /\ Message(guard.copy.job).job = guard.copy.job
          /\ ~ Message(guard.copy.job).fresh
      BY DEF Message, Unused
    <3>5. \A n \in Link : ~ link'[n].fresh /\ (link'[n].pc # "free" => link'[n].job \in used)
      BY <2>3, <3>1, <3>4 DEF DataInv, StartsOnce
    <3> QED BY <2>2, <3>2, <3>3, <3>5 DEF DataInv, StartsOnce, Starting
  <2> QED BY <2>2, <2>4, <2>5, LinksKeep
<1> QED BY <1>1, <1>2, <1>3 DEF GuardStep

LEMMA StartKeeps ==
  ASSUME IInv, IInv', DataInv, OneJob', NEW u \in User, StartRequest(u)
  PROVE  DataInv'
<1>0. /\ faults \in Nat /\ hash \in Hash /\ used \subseteq Job
      /\ user \in [User -> [pc : UserPc, total : Nat, job : Job \cup {NoJob}]]
  BY LimitAssumption DEF IInv, TypeOK
<1>1. PICK k \in Job \ used :
        /\ used' = used \cup {k}
        /\ user' = [user EXCEPT ![u] = [pc |-> "clearCancel", job |-> k,
                                       total |-> Cardinality(Item \ bpm)]]
  BY DEF StartRequest
<1>2. UNCHANGED <<hash, cancel, excluded, attempts, bpm, link, guard, faults>>
  BY DEF StartRequest, jobVars
<1>3. used = {} /\ used' = {k}
  BY <1>1 DEF OneJob
<1>4. NothingYet /\ hash.job \notin used' /\ guard.pc = "idle"
  BY <1>1, <1>3, JobAssumption DEF DataInv, StartsOnce, NothingYet, NoHash
<1>5. \A v \in User : ~ Starting(v)
  BY <1>3 DEF DataInv, StartsOnce
<1>6. /\ user'[u].pc = "clearCancel" /\ user'[u].job = k
      /\ user'[u].total = Cardinality(Item \ bpm)
      /\ \A v \in User \ {u} : user'[v] = user[v]
  BY <1>0, <1>1
<1>7. NothingYet'
  BY <1>2, <1>4 DEF NothingYet
<1>8. StartsOnce'
  <2>1. \A v \in User \ {u} : ~ Starting(v)'
    BY <1>5, <1>6 DEF Starting
  <2>2. \A v, w \in User : Starting(v)' => user'[v].job \in used' /\ (Starting(w)' => v = w)
    BY <1>3, <1>6, <2>1
  <2>3. \A v \in User : user'[v].pc \in Resetting =>
                           NothingYet' /\ user'[v].total = Cardinality(Item \ bpm')
    BY <1>2, <1>6, <1>7, <2>1 DEF Starting
  <2>4. /\ \A l \in Link : ~ link'[l].fresh /\ link'[l].pc = "free"
        /\ guard'.pc = "idle"
    BY <1>2, <1>4 DEF NothingYet, DataInv, StartsOnce
  <2>5. \A v \in User : user'[v].pc # "send"
    BY <1>6, <2>1 DEF Starting
  <2> QED BY <1>7, <2>2, <2>3, <2>4, <2>5 DEF StartsOnce
<1> QED BY <1>0, <1>2, <1>4, <1>8, ItemsKeep

\* The resets find nothing to reset: it is the first job.
LEMMA ResetKeeps ==
  ASSUME IInv, IInv', DataInv, OneJob, NEW u \in User,
         \/ ResetCancel(u) \/ ResetFailed(u) \/ ResetAttempts(u) \/ ResetStatus(u)
  PROVE  DataInv'
<1>0. /\ faults \in Nat /\ hash \in Hash
      /\ user \in [User -> [pc : UserPc, total : Nat, job : Job \cup {NoJob}]]
  BY LimitAssumption DEF IInv, TypeOK
<1>1. PICK to \in Resetting :
        /\ user[u].pc \in Resetting /\ user' = [user EXCEPT ![u].pc = to]
        /\ UNCHANGED <<bpm, link, used, guard, faults>>
  BY DEF ResetCancel, ResetFailed, ResetAttempts, ResetStatus, UserAt, Resetting, jobVars
<1>2. NothingYet /\ user[u].total = Cardinality(Item \ bpm) /\ user[u].job \in used
  BY <1>1 DEF DataInv, StartsOnce, Starting
<1>3. UNCHANGED <<hash, excluded>>
  BY <1>2 DEF ResetCancel, ResetFailed, ResetAttempts, ResetStatus, jobVars, NothingYet
<1>4. /\ user'[u].pc = to /\ user'[u].job = user[u].job /\ user'[u].total = user[u].total
      /\ \A v \in User \ {u} : user'[v] = user[v]
  BY <1>0, <1>1
<1>5. NothingYet'
  BY <1>1, <1>2, <1>3 DEF NothingYet
<1>6. StartsOnce'
  <2>1. \A v \in User : Starting(v)' => Starting(v)
    BY <1>1, <1>4 DEF Starting
  <2>2. \A v, w \in User : Starting(v)' => user'[v].job \in used' /\ (Starting(w)' => v = w)
    BY <1>1, <1>4, <2>1 DEF DataInv, StartsOnce
  <2>3. \A v \in User : user'[v].pc \in Resetting =>
                           NothingYet' /\ user'[v].total = Cardinality(Item \ bpm')
    BY <1>1, <1>2, <1>4, <1>5 DEF DataInv, StartsOnce
  <2>4. /\ \A l \in Link : ~ link'[l].fresh /\ link'[l].pc = "free"
        /\ guard'.pc = "idle"
    BY <1>1, <1>2 DEF NothingYet, DataInv, StartsOnce
  <2>5. \A v \in User : user'[v].pc # "send"
    <3>1. \A v \in User \ {u} : ~ Starting(v)
      BY <1>1 DEF DataInv, StartsOnce, Starting
    <3> QED BY <1>4, <3>1 DEF Starting, Resetting
  <2> QED BY <1>5, <2>2, <2>3, <2>4, <2>5 DEF StartsOnce
<1>7. hash'.job \in used' => hash' = hash /\ hash.job \in used
  BY <1>1, <1>3
<1>8. guard'.pc = "idle"
  BY <1>1, <1>2 DEF NothingYet
<1> QED BY <1>0, <1>1, <1>2, <1>3, <1>6, <1>7, <1>8, ItemsKeep

LEMMA QueueKeeps ==
  ASSUME IInv, IInv', DataInv, OneJob, NEW u \in User, MarkQueued(u)
  PROVE  DataInv'
<1>0. /\ faults \in Nat /\ hash' \in Hash
      /\ user \in [User -> [pc : UserPc, total : Nat, job : Job \cup {NoJob}]]
  BY LimitAssumption DEF IInv, TypeOK
<1>1. /\ user[u].pc = "queue" /\ user' = [user EXCEPT ![u].pc = "send"]
      /\ hash' = [state |-> "queued", job |-> user[u].job, total |-> user[u].total,
                  processed |-> 0, failed |-> 0]
      /\ UNCHANGED <<cancel, excluded, attempts, bpm, link, used, guard, faults>>
  BY DEF MarkQueued, UserAt, NoHash, jobVars
<1>2. NothingYet /\ user[u].total = Cardinality(Item \ bpm) /\ user[u].job \in used
  BY <1>1 DEF DataInv, StartsOnce, Starting, Resetting
<1>3. /\ user'[u].pc = "send" /\ user'[u].job = user[u].job
      /\ \A v \in User \ {u} : user'[v] = user[v]
  BY <1>0, <1>1
<1>4. StartsOnce'
  <2>1. \A v \in User : Starting(v)' => Starting(v)
    BY <1>1, <1>3 DEF Starting, Resetting
  <2>2. \A v, w \in User : Starting(v)' => user'[v].job \in used' /\ (Starting(w)' => v = w)
    BY <1>1, <1>3, <2>1 DEF DataInv, StartsOnce
  <2>3. \A v \in User : user'[v].pc \notin Resetting
    <3>1. Starting(u)
      BY <1>1 DEF Starting, Resetting
    <3>2. \A v \in User \ {u} : ~ Starting(v)
      BY <3>1 DEF DataInv, StartsOnce
    <3> QED BY <1>3, <3>2 DEF Starting, Resetting
  <2>4. /\ \A l \in Link : ~ link'[l].fresh /\ link'[l].pc = "free"
        /\ guard'.pc = "idle" /\ hash'.job \in used' /\ used' # {}
    BY <1>1, <1>2 DEF NothingYet, DataInv, StartsOnce
  <2> QED BY <2>2, <2>3, <2>4 DEF StartsOnce
<1>5. Told(hash', Cardinality(Open), faults)
  <2>1. \A l \in Link : Quiet(link[l])
    BY <1>2, Idle DEF NothingYet, Working
  <2>2. Open = Item \ bpm
    BY <1>2, <2>1 DEF Open, Quiet, NothingYet
  <2>3. Cardinality(Item \ bpm) \in Nat /\ Allowance(faults) \in Nat
    BY <1>0, Counts, AllowanceGrows
  <2> QED BY <1>1, <1>2, <2>2, <2>3 DEF Told
<1>6. guard'.pc = "idle"
  BY <1>1, <1>2 DEF NothingYet
<1> QED BY <1>0, <1>1, <1>4, <1>5, <1>6, ItemsKeep

LEMMA SendFirstKeeps ==
  ASSUME IInv, IInv', DataInv, OneJob, NEW u \in User, SendFirst(u)
  PROVE  DataInv'
<1>0. /\ link \in [Link -> LinkRecord]
      /\ user \in [User -> [pc : UserPc, total : Nat, job : Job \cup {NoJob}]]
  BY DEF IInv, TypeOK
<1>1. PICK m \in Link :
        link[m] = Unused /\ link' = [link EXCEPT ![m] = Message(user[u].job)]
  BY DEF SendFirst
<1>2. /\ user[u].pc = "send" /\ user' = [user EXCEPT ![u] = NoUser]
      /\ UNCHANGED <<hash, cancel, excluded, attempts, bpm, used, guard, faults>>
  BY DEF SendFirst, jobVars
<1>3. /\ link'[m] = Message(user[u].job)
      /\ \A n \in Link \ {m} : link'[n] = link[n]
  BY <1>0, <1>1
<1>4. \A n \in Link : Stays(link[n], link'[n])
  BY <1>1, <1>3, MessageQuiet DEF Stays
<1>5. user[u].job \in used /\ \A v \in User \ {u} : ~ Starting(v)
  BY <1>2 DEF DataInv, StartsOnce, Starting
<1>6. \A v \in User : ~ Starting(v)'
  <2>1. user'[u] = NoUser /\ \A v \in User \ {u} : user'[v] = user[v]
    BY <1>0, <1>2
  <2> QED BY <1>5, <2>1 DEF Starting, NoUser, Resetting
<1>7. StartsOnce'
  <2>1. used # {} /\ \A v \in User : user'[v].pc \notin Resetting
    BY <1>5, <1>6 DEF Starting
  <2>2. /\ Message(user[u].job).job = user[u].job /\ ~ Message(user[u].job).fresh
    BY DEF Message, Unused
  <2>3. \A n \in Link : ~ link'[n].fresh /\ (link'[n].pc # "free" => link'[n].job \in used)
    BY <1>3, <1>5, <2>2 DEF DataInv, StartsOnce
  <2> QED BY <1>2, <1>6, <2>1, <2>3 DEF DataInv, StartsOnce, NothingYet
<1> QED BY <1>2, <1>4, <1>7, LinksKeep

LEMMA CancelKeeps ==
  ASSUME IInv, IInv', DataInv, OneJob, NEW u \in User,
         CancelRequest(u) \/ SetCancel(u) \/ UserCrash(u)
  PROVE  DataInv'
<1>0. /\ faults \in Nat /\ hash \in Hash
      /\ user \in [User -> [pc : UserPc, total : Nat, job : Job \cup {NoJob}]]
  BY LimitAssumption DEF IInv, TypeOK
<1>1. /\ UNCHANGED <<hash, excluded, attempts, bpm, link, used, guard>>
      /\ cancel' = cancel \/ cancel' = TRUE
      /\ faults' \in {faults, faults + 1}
      /\ user'[u].pc \in {"flag", "idle"}
      /\ \A v \in User \ {u} : user'[v] = user[v]
  BY <1>0 DEF CancelRequest, SetCancel, UserCrash, UserAt, jobVars, NoUser
<1>2. NothingYet' <=> NothingYet
  BY <1>1 DEF NothingYet
<1>3. StartsOnce'
  <2>1. \A v \in User : Starting(v)' => user'[v] = user[v] /\ Starting(v)
    BY <1>1 DEF Starting, Resetting
  <2>2. \A v, w \in User : Starting(v)' => user'[v].job \in used' /\ (Starting(w)' => v = w)
    BY <1>1, <2>1 DEF DataInv, StartsOnce
  <2>3. \A v \in User : user'[v].pc \in Resetting =>
                           NothingYet' /\ user'[v].total = Cardinality(Item \ bpm')
    BY <1>1, <1>2, <2>1 DEF DataInv, StartsOnce, Starting
  <2> QED BY <1>1, <1>2, <2>2, <2>3 DEF DataInv, StartsOnce
<1>4. hash'.job \in used' => hash' = hash /\ hash.job \in used
  BY <1>1
<1>5. guard'.pc = "idle" \/ (guard'.copy = guard.copy /\ guard.pc # "idle")
  BY <1>1
<1> QED BY <1>0, <1>1, <1>3, <1>4, <1>5, ItemsKeep

(***************************************************************************)
(* The theorems                                                            *)
(***************************************************************************)

LEMMA DataInit == Init => DataInv
<1> SUFFICES ASSUME Init PROVE DataInv
  OBVIOUS
<1>1. /\ \A l \in Link : link[l] = Unused
      /\ \A u \in User : user[u] = NoUser
      /\ hash = NoHash /\ guard.pc = "idle" /\ used = {} /\ excluded = {}
  BY DEF Init
<1>2. /\ \A l \in Link : Quiet(link[l]) /\ link[l].pc = "free"
      /\ \A u \in User : ~ Starting(u)
  BY <1>1, MessageQuiet DEF Unused, Starting, NoUser, Resetting
<1>3. StartsOnce
  BY <1>1, <1>2 DEF StartsOnce, NothingYet, Starting, Quiet
<1>4. ChunksApart
  <2>1. Cardinality({}) <= ChunkSize
    BY FS_EmptySet, LimitAssumption
  <2>2. \A l \in Link : Apart(link[l], bpm, excluded)
    BY <1>2, <2>1 DEF Quiet, Apart
  <2> QED BY <2>2, Parts
<1>5. AttemptsSpent
  BY <1>1, <1>2 DEF AttemptsSpent, Quiet
<1>6. WarmUpSteps
  <2>1. \A l \in Link : Warm(link[l], cancel)
    BY <1>2 DEF Quiet, Warm
  <2> QED BY <2>1, Parts
<1>7. OpenCounted /\ EndCovers
  BY <1>1, <1>2 DEF OpenCounted, EndCovers, Working
<1> QED BY <1>3, <1>4, <1>5, <1>6, <1>7 DEF DataInv

LEMMA DataStep == IInv /\ FirstJobInv /\ [Next]_vars => FirstJobInv'
<1> SUFFICES ASSUME IInv, FirstJobInv, [Next]_vars, OneJob' PROVE DataInv'
  BY DEF FirstJobInv
<1>1. IInv'
  BY InvStep
<1>2. used \subseteq used'
  <2>1. ASSUME NEW l \in Link, LinkStep(l) PROVE used' = used
    BY <2>1 DEF LinkStep, Begin, ReadState, CheckCancel, ClearCancel, ReadItems, AcquireOps,
       Announce, Submit, SubmitRefused, Account, GiveUp, Report, LeavePool, After, Requeue,
       SendNext, Finalize, ReleaseOps, ReleaseLink, userVars
  <2>2. ASSUME NEW l \in Link,
               \/ SpendBudget(l) \/ SoftTimeLimit(l) \/ Fail(l) \/ Crash(l)
               \/ \E i \in Item : Store(l, i)
        PROVE  used' = used
    BY <2>2 DEF SpendBudget, SoftTimeLimit, Fail, Crash, Store, userVars
  <2>3. CASE LockExpires \/ HeartbeatAges \/ GuardStep
    BY <2>3 DEF LockExpires, HeartbeatAges, GuardStep, GuardRead, GuardTouch, GuardSend,
       userVars
  <2>4. ASSUME NEW u \in User,
               StartRequest(u) \/ CancelRequest(u) \/ UserStep(u) \/ UserCrash(u)
        PROVE  used \subseteq used'
    BY <2>4 DEF StartRequest, CancelRequest, UserStep, ResetCancel, ResetFailed, ResetAttempts,
       ResetStatus, MarkQueued, SendFirst, SetCancel, UserCrash, userVars
  <2>5. CASE UNCHANGED vars
    BY <2>5 DEF vars
  <2> QED
    BY <2>1, <2>2, <2>3, <2>4, <2>5 DEF Next
<1>3. OneJob /\ DataInv
  BY <1>2 DEF OneJob, FirstJobInv
<1>4. ASSUME NEW l \in Link, LinkStep(l) PROVE DataInv'
  <2>1. CASE Begin(l) \/ SendNext(l) \/ ReadState(l) \/ ReadItems(l)
    BY <1>1, <1>3, <2>1, BeginKeeps, SendNextKeeps, ReadStateKeeps, ReadItemsKeeps
  <2>2. CASE CheckCancel(l) \/ ClearCancel(l) \/ LeavePool(l) \/ AcquireOps(l)
             \/ ReleaseOps(l) \/ After(l)
    BY <1>1, <1>3, <2>2, FlagSteps, LockingSteps
  <2>3. CASE Announce(l) \/ Report(l) \/ Requeue(l) \/ Finalize(l)
    BY <1>1, <1>3, <2>3, PublishingSteps
  <2>4. CASE Submit(l) \/ SubmitRefused(l) \/ GiveUp(l) \/ ReleaseLink(l)
    BY <1>1, <1>3, <2>4, SubmitKeeps, SubmitRefusedKeeps, GiveUpKeeps, LeavingSteps
  <2>5. ASSUME NEW c \in SUBSET Item, Account(l, c) PROVE DataInv'
    BY <1>1, <1>3, <2>5, AccountKeeps
  <2> QED BY <1>4, <2>1, <2>2, <2>3, <2>4, <2>5 DEF LinkStep
<1>5. ASSUME NEW l \in Link, SpendBudget(l) PROVE DataInv'
  BY <1>1, <1>3, <1>5, LockingSteps
<1>6. ASSUME NEW l \in Link, SoftTimeLimit(l) \/ Fail(l) PROVE DataInv'
  BY <1>1, <1>3, <1>6, AbandonKeeps
<1>7. ASSUME NEW l \in Link, Crash(l) PROVE DataInv'
  BY <1>1, <1>3, <1>7, LeavingSteps
<1>8. ASSUME NEW l \in Link, NEW i \in Item, Store(l, i) PROVE DataInv'
  BY <1>1, <1>3, <1>8, StoreKeeps
<1>9. CASE LockExpires \/ HeartbeatAges
  BY <1>1, <1>3, <1>9, ClockKeeps
<1>10. CASE GuardStep
  BY <1>1, <1>3, <1>10, GuardKeeps
<1>11. ASSUME NEW u \in User,
              StartRequest(u) \/ CancelRequest(u) \/ UserStep(u) \/ UserCrash(u)
       PROVE  DataInv'
  <2>1. CASE StartRequest(u)
    BY <1>1, <1>3, <2>1, StartKeeps
  <2>2. CASE ResetCancel(u) \/ ResetFailed(u) \/ ResetAttempts(u) \/ ResetStatus(u)
    BY <1>1, <1>3, <2>2, ResetKeeps
  <2>3. CASE MarkQueued(u) \/ SendFirst(u)
    BY <1>1, <1>3, <2>3, QueueKeeps, SendFirstKeeps
  <2>4. CASE CancelRequest(u) \/ SetCancel(u) \/ UserCrash(u)
    BY <1>1, <1>3, <2>4, CancelKeeps
  <2> QED BY <1>11, <2>1, <2>2, <2>3, <2>4 DEF UserStep
<1>12. CASE UNCHANGED vars
  <2>1. UNCHANGED <<hash, cancel, excluded, attempts, bpm, link, used, user, guard, faults>>
    BY <1>12 DEF vars, jobVars, userVars
  <2>2. StartsOnce'
    BY <1>3, <2>1 DEF DataInv, StartsOnce, NothingYet, Starting
  <2> QED BY <1>3, <2>1, <2>2, LinksKeep DEF Stays
<1> QED BY <1>4, <1>5, <1>6, <1>7, <1>8, <1>9, <1>10, <1>11, <1>12 DEF Next

\* While the job is the first of the library, its data are as the invariant says.
THEOREM FirstJob == Spec => [](IInv /\ FirstJobInv)
<1>1. Init => IInv /\ FirstJobInv
  BY InvInit, DataInit DEF FirstJobInv
<1>2. (IInv /\ FirstJobInv) /\ [Next]_vars => (IInv /\ FirstJobInv)'
  BY InvStep, DataStep
<1> QED BY <1>1, <1>2, PTL DEF Spec

\* Until the first chunk of a link has ended one subprocess runs alone, then
\* never more than bpm_workers() of them.
THEOREM WarmUpCorrect == Spec => [](OneJob => WarmUpAlone)
<1>1. IInv /\ FirstJobInv => (OneJob => WarmUpAlone)
  <2> SUFFICES ASSUME IInv, DataInv, NEW l \in Link
               PROVE  Cardinality(link[l].flight) <= IF link[l].cold THEN 1 ELSE Workers
    BY DEF FirstJobInv, WarmUpAlone
  <2>1. Warm(link[l], cancel) /\ link[l] \in LinkRecord
    BY Parts DEF DataInv, IInv, TypeOK
  <2>2. /\ Cardinality(link[l].flight) \in Nat /\ Cardinality({}) = 0
        /\ \A c : Cardinality({c}) = 1
    <3>1. link[l].flight \in SUBSET SUBSET Item
      BY <2>1 DEF LinkRecord
    <3>2. Cardinality(link[l].flight) \in Nat
      BY <3>1, ItemAssumption, FS_SUBSET, FS_Subset, FS_CardinalityType
    <3> QED BY <3>2, FS_EmptySet, FS_Singleton
  <2>3. CASE link[l].flight = {}
    BY <2>2, <2>3, LimitAssumption
  <2>4. CASE link[l].flight # {}
    <3>1. link[l].pc \in Analysing
      BY <2>4 DEF IInv, OpsHeld
    <3>2. CASE link[l].first
      BY <2>1, <2>2, <2>4, <3>1, <3>2, LimitAssumption DEF Warm, Analysing
    <3>3. CASE ~ link[l].first
      BY <2>1, <2>2, <2>4, <3>1, <3>3, LimitAssumption DEF Warm, Analysing, LinkRecord
    <3> QED BY <3>2, <3>3
  <2> QED BY <2>3, <2>4
<1> QED BY <1>1, FirstJob, PTL

\* What the job tells of its progress: the counters never exceed the total by
\* more than a chunk for each fault, and an item is written off only after its
\* attempts and not analysed again.
THEOREM AccountingCorrect == Spec => [](OneJob => Accounting)
<1>1. IInv /\ FirstJobInv => (OneJob => Accounting)
  <2> SUFFICES ASSUME IInv, DataInv PROVE CountersBounded /\ WrittenOff
    BY DEF FirstJobInv, Accounting
  <2>0. hash \in Hash /\ faults \in Nat
    BY LimitAssumption DEF IInv, TypeOK
  <2>1. CountersBounded
    <3>1. faults * ChunkSize \in Nat
      BY <2>0, AllowanceGrows DEF Allowance
    <3>2. CASE hash.job \in used
      <4>1. Counted(hash)
        BY <3>2 DEF DataInv, OpenCounted
      <4>2. Cardinality(Open) \in Nat
        BY Counts DEF Open
      <4>3. hash.processed \in Nat /\ hash.failed \in Nat /\ hash.total \in Nat
        BY <2>0 DEF Hash
      <4> QED BY <3>1, <4>1, <4>2, <4>3 DEF Counted, CountersBounded
    <3>3. CASE hash.job \notin used
      <4>1. hash = NoHash
        BY <3>3 DEF DataInv, StartsOnce, NothingYet
      <4>2. hash.processed = 0 /\ hash.failed = 0 /\ hash.total = 0
        BY <4>1 DEF NoHash
      <4> QED BY <3>1, <4>2 DEF CountersBounded
    <3> QED BY <3>2, <3>3
  <2>2. WrittenOff
    <3> SUFFICES ASSUME NEW i \in excluded
                 PROVE  /\ attempts[i] >= MaxAttempts
                        /\ \A l \in Link : i \notin link[l].todo \cup UNION link[l].flight
      BY DEF WrittenOff
    <3>1. attempts[i] >= MaxAttempts
      BY DEF DataInv, AttemptsSpent, IInv, TypeOK
    <3>2. \A l \in Link : Apart(link[l], bpm, excluded)
      BY Parts DEF DataInv
    <3>3. \A l \in Link : i \notin link[l].todo \cup UNION link[l].flight
      BY <3>2 DEF Apart
    <3> QED BY <3>1, <3>3
  <2> QED BY <2>1, <2>2
<1> QED BY <1>1, FirstJob, PTL

\* The first job of a library is reported complete only when every item has a
\* bpm or is written off.
THEOREM CompleteCoversCorrect ==
  ASSUME \A j, k \in Job : j = k
  PROVE  Spec => CompleteCovers
<1>1. IInv /\ FirstJobInv => OneJob /\ DataInv
  BY DEF IInv, TypeOK, OneJob, FirstJobInv
<1>2. IInv /\ DataInv /\ [Next]_vars
        => [Live(hash.state) /\ hash'.state \in {"completed", "completed_with_errors"}
              => Missing = {}]_vars
  <2> SUFFICES ASSUME IInv, DataInv, Next, Live(hash.state),
                      hash'.state \in {"completed", "completed_with_errors"}
               PROVE  Missing = {}
    OBVIOUS
  <2>1. hash' # hash
    BY DEF Live
  <2>2. \A l \in Link : ~ Publish(l, "running") /\ ~ Publish(l, "failed")
    BY DEF Publish
  <2>3. CASE \E l \in Link : Finalize(l)
    <3>1. PICK l \in Link : Finalize(l)
      BY <2>3
    <3>2. link[l].pc = "final" /\ hash'.state = link[l].end
      BY <3>1 DEF Finalize, Publish
    <3> QED BY <3>2 DEF DataInv, EndCovers
  <2>4. CASE GuardTouch
    <3>1. Live(guard.copy.state) /\ hash' = guard.copy
      BY <2>4 DEF GuardTouch, DataInv, StartsOnce
    <3> QED BY <3>1 DEF Live
  <2>5. CASE \E u \in User : ResetStatus(u) \/ MarkQueued(u)
    <3>1. PICK u \in User : ResetStatus(u) \/ MarkQueued(u)
      BY <2>5
    <3>2. CASE ResetStatus(u)
      BY <3>2 DEF ResetStatus, NoHash
    <3>3. CASE MarkQueued(u)
      <4>1. hash' = [state |-> "queued", job |-> user[u].job, total |-> user[u].total,
                     processed |-> 0, failed |-> 0]
        BY <3>3 DEF MarkQueued, NoHash
      <4> QED BY <4>1
    <3> QED BY <3>1, <3>2, <3>3
  <2>6. ASSUME NEW l \in Link, LinkStep(l) PROVE Finalize(l)
    BY <2>1, <2>2, <2>6
       DEF LinkStep, Begin, ReadState, CheckCancel, ClearCancel, ReadItems, AcquireOps,
           Announce, Submit, SubmitRefused, Account, GiveUp, Report, LeavePool, After,
           Requeue, SendNext, ReleaseOps, ReleaseLink
  <2>7. ASSUME NEW l \in Link,
               \/ SpendBudget(l) \/ SoftTimeLimit(l) \/ Fail(l) \/ Crash(l)
               \/ \E i \in Item : Store(l, i)
        PROVE  FALSE
    BY <2>1, <2>2, <2>7 DEF SpendBudget, SoftTimeLimit, Fail, Crash, Store
  <2>8. ~ LockExpires /\ ~ HeartbeatAges /\ ~ GuardRead /\ ~ GuardSend
    BY <2>1 DEF LockExpires, HeartbeatAges, GuardRead, GuardSend
  <2>9. ASSUME NEW u \in User,
               StartRequest(u) \/ CancelRequest(u) \/ UserStep(u) \/ UserCrash(u)
        PROVE  ResetStatus(u) \/ MarkQueued(u)
    BY <2>1, <2>9 DEF UserStep, StartRequest, CancelRequest, ResetCancel, ResetFailed,
                      ResetAttempts, SendFirst, SetCancel, UserCrash
  <2> QED
    BY <2>3, <2>4, <2>5, <2>6, <2>7, <2>8, <2>9 DEF Next, GuardStep
<1> QED BY <1>1, <1>2, FirstJob, PTL DEF Spec, CompleteCovers
=============================================================================
