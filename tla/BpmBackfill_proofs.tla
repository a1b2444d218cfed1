------------------------- MODULE BpmBackfill_proofs -------------------------
(***************************************************************************)
(* The BPM backfill for any number of items, jobs, requests, messages,     *)
(* workers and faults: one link works at a time, and the operation lock    *)
(* that blocks scans is set exactly while it should be.                    *)
(***************************************************************************)
EXTENDS BpmBackfill, FiniteSetTheorems, TLAPS

(***************************************************************************)
(* Types                                                                   *)
(***************************************************************************)

LEMMA RecordTypes ==
  /\ NoHash \in Hash
  /\ Unused \in LinkRecord
  /\ \A j \in Job \cup {NoJob} : Message(j) \in LinkRecord
  /\ NoUser \in [pc : UserPc, total : Nat, job : Job \cup {NoJob}]
<1>1. NoHash \in Hash
  BY DEF NoHash, Hash, State
<1>2. Unused \in LinkRecord
  BY DEF Unused, LinkRecord, LinkPc, State
<1>3. ASSUME NEW j \in Job \cup {NoJob} PROVE Message(j) \in LinkRecord
  BY DEF Message, Unused, LinkRecord, LinkPc, State
<1>4. NoUser \in [pc : UserPc, total : Nat, job : Job \cup {NoJob}]
  BY DEF NoUser, UserPc
<1> QED BY <1>1, <1>2, <1>3, <1>4

\* The numbers of items the code counts are numbers.
LEMMA Counts == \A s \in SUBSET Item : IsFiniteSet(s) /\ Cardinality(s) \in Nat
BY ItemAssumption, FS_Subset, FS_CardinalityType

LEMMA PublishType ==
  ASSUME TypeOK, NEW l \in Link, NEW s \in State, Publish(l, s)
  PROVE  hash' \in Hash /\ stale' \in BOOLEAN
BY DEF TypeOK, Publish, Hash, LinkRecord

(***************************************************************************)
(* Steps of one link between its locks                                     *)
(***************************************************************************)

\* Link l goes on as rec, having neither begun nor ended anything another
\* process sees.
Progress(l, rec) ==
  /\ link' = [link EXCEPT ![l] = rec]
  /\ rec \in LinkRecord
  /\ rec.own = link[l].own
  /\ rec.pc \notin {"free", "sent", "unlock"}
  /\ rec.pc \in Early => link[l].pc \in Early
  /\ rec.pc \in {"announce"} \cup Analysing => link[l].pc \in {"announce"} \cup Analysing
  /\ rec.flight # {} => rec.pc \in Analysing
  /\ rec.pc = "submit" => rec.owed > 0

LEMMA ProgressKeeps ==
  ASSUME IInv, NEW l \in Link, NEW rec, Progress(l, rec),
         Working(l), link[l].pc # "unlock",
         UNCHANGED <<linkLock, ops>>, faults' \in Nat, faults' >= faults
  PROVE  /\ link' \in [Link -> LinkRecord]
         /\ (LinkExclusion /\ OpsHeld /\ ScansBlockedExactly)'
<1>1. link \in [Link -> LinkRecord] /\ faults \in Nat
  BY LimitAssumption DEF IInv, TypeOK
<1>2. link' \in [Link -> LinkRecord]
  BY <1>1 DEF Progress
<1>3. link'[l] = rec /\ \A m \in Link : m # l => link'[m] = link[m]
  BY <1>1 DEF Progress
<1>4. \A m \in Link : Working(m)' <=> Working(m)
  BY <1>3 DEF Working, Progress
<1>5. LinkExclusion'
  BY <1>4 DEF IInv, LinkExclusion
<1>6. OpsHeld'
  BY <1>3, <1>4 DEF IInv, OpsHeld, Progress, Early, Analysing
<1>7. ScansBlockedExactly'
  <2>1. \A m \in Link : link'[m].flight # {} => ops'
    BY <1>6 DEF OpsHeld
  <2>2. ops' => faults' > 0 \/ \E m \in Link : link'[m].own
    BY <1>1, <1>3 DEF IInv, ScansBlockedExactly, Progress
  <2> QED BY <2>1, <2>2 DEF ScansBlockedExactly
<1> QED BY <1>2, <1>5, <1>6, <1>7

\* The steps that only read, publish or set a flag of the job.
LEMMA PlainSteps ==
  ASSUME IInv, NEW l \in Link,
         \/ ReadState(l) \/ CheckCancel(l) \/ ClearCancel(l) \/ ReadItems(l)
         \/ Announce(l) \/ LeavePool(l) \/ After(l) \/ Requeue(l) \/ Finalize(l)
  PROVE  IInv'
<1>0. /\ link \in [Link -> LinkRecord] /\ link[l] \in LinkRecord
      /\ faults \in Nat /\ hash \in Hash
  BY LimitAssumption DEF IInv, TypeOK
<1>1. CASE ReadState(l)
  <2> DEFINE rec == IF hash.job = link[l].job
       THEN [link[l] EXCEPT !.pc = "start", !.total = hash.total,
                            !.processed = hash.processed, !.failed = hash.failed]
       ELSE [link[l] EXCEPT !.pc = "start", !.fresh = TRUE]
  <2>1. rec \in LinkRecord
    BY <1>0 DEF LinkRecord, LinkPc, Hash
  <2>2. Progress(l, rec)
    BY <1>0, <1>1, <2>1 DEF ReadState, Progress, LinkRecord, Early, Analysing, IInv, OpsHeld
  <2>3. link' \in [Link -> LinkRecord] /\ (LinkExclusion /\ OpsHeld /\ ScansBlockedExactly)'
    BY <1>0, <1>1, <2>2, ProgressKeeps DEF ReadState, Working
  <2> QED BY <1>1, <2>3 DEF ReadState, IInv, TypeOK, jobVars, userVars
<1>2. CASE CheckCancel(l)
  <2> DEFINE rec == [link[l] EXCEPT !.pc = IF cancel THEN "clear" ELSE "items"]
  <2>1. rec \in LinkRecord
    BY <1>0 DEF LinkRecord, LinkPc
  <2>2. Progress(l, rec)
    BY <1>0, <1>2, <2>1 DEF CheckCancel, GoTo, Progress, LinkRecord, Early, Analysing, IInv, OpsHeld
  <2>3. link' \in [Link -> LinkRecord] /\ (LinkExclusion /\ OpsHeld /\ ScansBlockedExactly)'
    BY <1>0, <1>2, <2>2, ProgressKeeps DEF CheckCancel, Working
  <2> QED BY <1>2, <2>3 DEF CheckCancel, IInv, TypeOK, jobVars, userVars
<1>3. CASE ClearCancel(l)
  <2> DEFINE rec == [link[l] EXCEPT !.pc = "final", !.end = "cancelled"]
  <2>1. rec \in LinkRecord
    BY <1>0 DEF LinkRecord, LinkPc, State
  <2>2. Progress(l, rec)
    BY <1>0, <1>3, <2>1 DEF ClearCancel, Progress, LinkRecord, Early, Analysing, IInv, OpsHeld
  <2>3. link' \in [Link -> LinkRecord] /\ (LinkExclusion /\ OpsHeld /\ ScansBlockedExactly)'
    BY <1>0, <1>3, <2>2, ProgressKeeps DEF ClearCancel, Working
  <2> QED BY <1>3, <2>3 DEF ClearCancel, IInv, TypeOK, userVars
<1>4. CASE ReadItems(l)
  <2> DEFINE rec == [link[l] EXCEPT
        !.todo = Missing,
        !.total = IF link[l].fresh \/ link[l].total = 0 THEN Cardinality(Missing)
                  ELSE link[l].total,
        !.pc = IF Missing = {} THEN "final" ELSE "lock",
        !.end = IF Missing = {} THEN Finished(link[l].failed) ELSE link[l].end]
  <2>1. Missing \subseteq Item /\ Cardinality(Missing) \in Nat
    BY Counts DEF Missing
  <2>2. rec \in LinkRecord
    BY <1>0, <2>1, ZenonT(30) DEF LinkRecord, LinkPc, State, Finished
  <2>3. Progress(l, rec)
    BY <1>0, <1>4, <2>2, ZenonT(30) DEF ReadItems, Progress, LinkRecord, Early, Analysing, IInv, OpsHeld
  <2> HIDE DEF rec
  <2>4. /\ link[l].pc = "items"
        /\ UNCHANGED <<hash, stale, jobVars, bpm, linkLock, ops, userVars, guard, faults>>
    BY <1>4 DEF ReadItems
  <2>5. link' \in [Link -> LinkRecord] /\ (LinkExclusion /\ OpsHeld /\ ScansBlockedExactly)'
    BY <1>0, <2>3, <2>4, ProgressKeeps DEF Working
  <2> QED BY <2>4, <2>5 DEF IInv, TypeOK, jobVars, userVars
<1>5. CASE Announce(l)
  <2> DEFINE rec == [link[l] EXCEPT !.pc = "submit", !.owed = 1]
  <2>1. rec \in LinkRecord
    BY <1>0 DEF LinkRecord, LinkPc
  <2>a. /\ rec.pc = "submit" /\ rec.owed = 1
        /\ rec.own = link[l].own /\ rec.flight = link[l].flight
    BY <1>0 DEF LinkRecord
  <2>b. link[l].pc = "announce" /\ link' = [link EXCEPT ![l] = rec]
    BY <1>0, <1>5 DEF Announce
  <2> HIDE DEF rec
  <2>2. Progress(l, rec)
    BY <2>1, <2>a, <2>b DEF Progress, Early, Analysing
  <2>3. link' \in [Link -> LinkRecord] /\ (LinkExclusion /\ OpsHeld /\ ScansBlockedExactly)'
    BY <1>0, <1>5, <2>2, ProgressKeeps DEF Announce, Working
  <2>4. hash' \in Hash /\ stale' \in BOOLEAN
    BY <1>5, PublishType DEF Announce, State, IInv
  <2> QED BY <1>5, <2>3, <2>4 DEF Announce, IInv, TypeOK, jobVars, userVars
<1>6. CASE LeavePool(l)
  <2> DEFINE rec == [link[l] EXCEPT !.pc = "after"]
  <2>1. rec \in LinkRecord
    BY <1>0 DEF LinkRecord, LinkPc
  <2>2. Progress(l, rec)
    BY <1>0, <1>6, <2>1 DEF LeavePool, GoTo, Progress, LinkRecord, Early, Analysing
  <2>3. link' \in [Link -> LinkRecord] /\ (LinkExclusion /\ OpsHeld /\ ScansBlockedExactly)'
    BY <1>0, <1>6, <2>2, ProgressKeeps DEF LeavePool, Working
  <2> QED BY <1>6, <2>3 DEF LeavePool, IInv, TypeOK, jobVars, userVars
<1>7. CASE After(l)
  <2>1. PICK rec \in {[link[l] EXCEPT !.pc = "clear"], [link[l] EXCEPT !.pc = "requeue"],
                      [link[l] EXCEPT !.pc = "final", !.end = Finished(link[l].failed)]} :
          link' = [link EXCEPT ![l] = rec]
    BY <1>0, <1>7 DEF After, GoTo
  <2>a. Finished(link[l].failed) \in State
    BY DEF Finished, State
  <2>b. /\ [link[l] EXCEPT !.pc = "clear"] \in LinkRecord
        /\ [link[l] EXCEPT !.pc = "requeue"] \in LinkRecord
    BY <1>0 DEF LinkRecord, LinkPc
  <2>c. [link[l] EXCEPT !.pc = "final", !.end = Finished(link[l].failed)] \in LinkRecord
    BY <1>0, <2>a DEF LinkRecord, LinkPc
  <2>2. rec \in LinkRecord
    BY <2>1, <2>b, <2>c
  <2>3. rec.own = link[l].own /\ rec.flight = link[l].flight
        /\ rec.pc \in {"clear", "requeue", "final"}
    BY <1>0, <2>1 DEF LinkRecord
  <2>4. link[l].flight = {} /\ link[l].pc = "after"
    BY <1>7 DEF After, IInv, OpsHeld, Analysing
  <2>5. Progress(l, rec)
    BY <2>1, <2>2, <2>3, <2>4 DEF Progress, Early, Analysing
  <2>6. UNCHANGED <<hash, stale, cancel, excluded, attempts, bpm, linkLock, ops, used,
                    user, guard, faults>>
    BY <1>7 DEF After, jobVars, userVars
  <2>7. link' \in [Link -> LinkRecord] /\ (LinkExclusion /\ OpsHeld /\ ScansBlockedExactly)'
    BY <1>0, <2>4, <2>5, <2>6, ProgressKeeps DEF Working
  <2> QED BY <2>6, <2>7 DEF IInv, TypeOK
<1>8. CASE Requeue(l)
  <2> DEFINE rec == [link[l] EXCEPT !.pc = "send"]
  <2>1. rec \in LinkRecord
    BY <1>0 DEF LinkRecord, LinkPc
  <2>2. Progress(l, rec)
    BY <1>0, <1>8, <2>1 DEF Requeue, GoTo, Progress, LinkRecord, Early, Analysing, IInv, OpsHeld
  <2>3. link' \in [Link -> LinkRecord] /\ (LinkExclusion /\ OpsHeld /\ ScansBlockedExactly)'
    BY <1>0, <1>8, <2>2, ProgressKeeps DEF Requeue, Working
  <2>4. hash' \in Hash /\ stale' \in BOOLEAN
    BY <1>8, PublishType DEF Requeue, State, IInv
  <2> QED BY <1>8, <2>3, <2>4 DEF Requeue, IInv, TypeOK, jobVars, userVars
<1>9. CASE Finalize(l)
  <2> DEFINE rec == [link[l] EXCEPT !.pc = "release"]
  <2>1. rec \in LinkRecord
    BY <1>0 DEF LinkRecord, LinkPc
  <2>2. Progress(l, rec)
    BY <1>0, <1>9, <2>1 DEF Finalize, GoTo, Progress, LinkRecord, Early, Analysing, IInv, OpsHeld
  <2>3. link' \in [Link -> LinkRecord] /\ (LinkExclusion /\ OpsHeld /\ ScansBlockedExactly)'
    BY <1>0, <1>9, <2>2, ProgressKeeps DEF Finalize, Working
  <2>4. link[l].end \in State
    BY <1>0 DEF LinkRecord
  <2>5. hash' \in Hash /\ stale' \in BOOLEAN
    BY <1>9, <2>4, PublishType DEF Finalize, IInv
  <2> QED BY <1>9, <2>3, <2>5 DEF Finalize, IInv, TypeOK, jobVars, userVars
<1> QED BY <1>1, <1>2, <1>3, <1>4, <1>5, <1>6, <1>7, <1>8, <1>9

\* The steps of the pool.
LEMMA PoolSteps ==
  ASSUME IInv, NEW l \in Link,
         \/ Submit(l) \/ SubmitRefused(l) \/ SpendBudget(l) \/ GiveUp(l) \/ Report(l)
         \/ \E c \in SUBSET Item : Account(l, c)
  PROVE  IInv'
<1>0. /\ link \in [Link -> LinkRecord] /\ link[l] \in LinkRecord
      /\ faults \in Nat /\ attempts \in [Item -> Nat]
      /\ link[l].todo \subseteq Item /\ link[l].flight \subseteq SUBSET Item
      /\ link[l].owed \in Nat
  BY LimitAssumption DEF IInv, TypeOK, LinkRecord
<1>1. CASE Submit(l)
  <2>1. PICK c \in SUBSET link[l].todo :
          link' = [link EXCEPT ![l].todo = @ \ c, ![l].flight = @ \cup {c},
                               ![l].owed = @ - 1,
                               ![l].pc = IF link[l].owed = 1 THEN "pool" ELSE @]
    BY <1>1 DEF Submit
  <2> DEFINE rec == [link[l] EXCEPT !.todo = link[l].todo \ c,
                       !.flight = link[l].flight \cup {c}, !.owed = link[l].owed - 1,
                       !.pc = IF link[l].owed = 1 THEN "pool" ELSE link[l].pc]
  <2>2. link' = [link EXCEPT ![l] = rec]
    BY <1>0, <2>1
  <2>3. /\ link[l].pc = "submit" /\ link[l].owed > 0
        /\ UNCHANGED <<hash, stale, jobVars, bpm, linkLock, ops, userVars, guard, faults>>
    BY <1>1 DEF Submit, IInv, OpsHeld
  <2>4. link[l].owed - 1 \in Nat
    BY <1>0, <2>3
  <2>5. rec \in LinkRecord
    <3>1. link[l].todo \ c \in SUBSET Item /\ link[l].flight \cup {c} \in SUBSET SUBSET Item
      BY <1>0
    <3>2. (IF link[l].owed = 1 THEN "pool" ELSE link[l].pc) \in LinkPc
      BY <1>0 DEF LinkRecord, LinkPc
    <3> QED BY <1>0, <2>4, <3>1, <3>2 DEF LinkRecord
  <2>6. /\ rec.own = link[l].own
        /\ rec.pc = IF link[l].owed = 1 THEN "pool" ELSE "submit"
        /\ rec.owed = link[l].owed - 1
    BY <1>0, <2>3 DEF LinkRecord
  <2> HIDE DEF rec
  <2>7. rec.pc = "submit" => rec.owed > 0
    BY <1>0, <2>3, <2>6
  <2>8. Progress(l, rec)
    BY <2>2, <2>3, <2>5, <2>6, <2>7 DEF Progress, Early, Analysing
  <2>9. link' \in [Link -> LinkRecord] /\ (LinkExclusion /\ OpsHeld /\ ScansBlockedExactly)'
    BY <1>0, <2>3, <2>8, ProgressKeeps DEF Working
  <2> QED BY <2>3, <2>9 DEF IInv, TypeOK, jobVars, userVars
<1>2. CASE SubmitRefused(l)
  <2> DEFINE rec == [link[l] EXCEPT !.first = FALSE,
                       !.owed = IF link[l].first THEN Workers ELSE 0,
                       !.pc = IF link[l].first THEN link[l].pc ELSE "pool"]
  <2>1. link' = [link EXCEPT ![l] = rec]
    BY <1>0, <1>2 DEF SubmitRefused
  <2>2. /\ link[l].pc = "submit"
        /\ UNCHANGED <<hash, stale, jobVars, bpm, linkLock, ops, userVars, guard, faults>>
    BY <1>2 DEF SubmitRefused
  <2>3. rec \in LinkRecord
    BY <1>0, LimitAssumption DEF LinkRecord, LinkPc
  <2>4. /\ rec.own = link[l].own
        /\ rec.pc = IF link[l].first THEN "submit" ELSE "pool"
        /\ rec.owed = IF link[l].first THEN Workers ELSE 0
    BY <1>0, <2>2 DEF LinkRecord
  <2> HIDE DEF rec
  <2>5. rec.pc = "submit" => rec.owed > 0
    BY <2>4, LimitAssumption
  <2>6. Progress(l, rec)
    BY <2>1, <2>2, <2>3, <2>4, <2>5 DEF Progress, Early, Analysing
  <2>7. link' \in [Link -> LinkRecord] /\ (LinkExclusion /\ OpsHeld /\ ScansBlockedExactly)'
    BY <1>0, <2>2, <2>6, ProgressKeeps DEF Working
  <2> QED BY <2>2, <2>7 DEF IInv, TypeOK, jobVars, userVars
<1>3. CASE SpendBudget(l)
  <2> DEFINE rec == [link[l] EXCEPT !.budget = FALSE]
  <2>1. link' = [link EXCEPT ![l] = rec]
    BY <1>0, <1>3 DEF SpendBudget
  <2>2. /\ link[l].pc \in {"submit", "pool"}
        /\ UNCHANGED <<hash, stale, jobVars, bpm, linkLock, ops, userVars, guard, faults>>
    BY <1>3 DEF SpendBudget
  <2>3. rec \in LinkRecord
    BY <1>0 DEF LinkRecord
  <2>4. rec.own = link[l].own /\ rec.pc = link[l].pc /\ rec.owed = link[l].owed
    BY <1>0 DEF LinkRecord
  <2> HIDE DEF rec
  <2>5. Progress(l, rec)
    BY <2>1, <2>2, <2>3, <2>4 DEF Progress, Early, Analysing, IInv, OpsHeld
  <2>6. link' \in [Link -> LinkRecord] /\ (LinkExclusion /\ OpsHeld /\ ScansBlockedExactly)'
    BY <1>0, <2>2, <2>5, ProgressKeeps DEF Working
  <2> QED BY <2>2, <2>6 DEF IInv, TypeOK, jobVars, userVars
<1>4. CASE GiveUp(l)
  <2> DEFINE rec == [link[l] EXCEPT !.give = {}, !.pc = "report"]
  <2>1. link' = [link EXCEPT ![l] = rec]
    BY <1>0, <1>4 DEF GiveUp
  <2>2. /\ link[l].pc = "giveup" /\ excluded' = excluded \cup link[l].give
        /\ UNCHANGED <<hash, stale, cancel, attempts, bpm, linkLock, ops, used, user,
                       guard, faults>>
    BY <1>4 DEF GiveUp, userVars
  <2>3. rec \in LinkRecord /\ link[l].give \subseteq Item
    BY <1>0 DEF LinkRecord, LinkPc
  <2>4. rec.own = link[l].own /\ rec.pc = "report"
    BY <1>0 DEF LinkRecord
  <2> HIDE DEF rec
  <2>5. Progress(l, rec)
    BY <2>1, <2>2, <2>3, <2>4 DEF Progress, Early, Analysing
  <2>6. link' \in [Link -> LinkRecord] /\ (LinkExclusion /\ OpsHeld /\ ScansBlockedExactly)'
    BY <1>0, <2>2, <2>5, ProgressKeeps DEF Working
  <2> QED BY <2>2, <2>3, <2>6 DEF IInv, TypeOK
<1>5. CASE Report(l)
  <2> DEFINE rec == [link[l] EXCEPT !.pc = "submit", !.first = FALSE,
                       !.owed = IF link[l].first THEN Workers ELSE 1]
  <2>1. link' = [link EXCEPT ![l] = rec]
    BY <1>0, <1>5 DEF Report
  <2>2. /\ link[l].pc = "report"
        /\ UNCHANGED <<jobVars, bpm, linkLock, ops, userVars, guard, faults>>
    BY <1>5 DEF Report
  <2>3. rec \in LinkRecord
    BY <1>0, LimitAssumption DEF LinkRecord, LinkPc
  <2>4. rec.own = link[l].own /\ rec.pc = "submit" /\ rec.owed > 0
    BY <1>0, LimitAssumption DEF LinkRecord
  <2>5. hash' \in Hash /\ stale' \in BOOLEAN
    BY <1>5, PublishType DEF Report, State, IInv
  <2> HIDE DEF rec
  <2>6. Progress(l, rec)
    BY <2>1, <2>2, <2>3, <2>4 DEF Progress, Early, Analysing
  <2>7. link' \in [Link -> LinkRecord] /\ (LinkExclusion /\ OpsHeld /\ ScansBlockedExactly)'
    BY <1>0, <2>2, <2>6, ProgressKeeps DEF Working
  <2> QED BY <2>2, <2>5, <2>7 DEF IInv, TypeOK, jobVars, userVars
<1>6. ASSUME NEW c \in SUBSET Item, Account(l, c)
      PROVE  IInv'
  <2> DEFINE give == {i \in c \ bpm : attempts'[i] >= MaxAttempts}
             rec == [link[l] EXCEPT !.flight = link[l].flight \ {c}, !.cold = FALSE,
                       !.give = give,
                       !.processed = link[l].processed + Cardinality(c \cap bpm),
                       !.failed = link[l].failed + Cardinality(give),
                       !.pc = IF give = {} THEN "report" ELSE "giveup"]
  <2>1. link' = [link EXCEPT ![l] = rec]
    BY <1>6 DEF Account
  <2>2. /\ link[l].pc = "pool"
        /\ attempts' = [i \in Item |-> attempts[i] + IF i \in c \ bpm THEN 1 ELSE 0]
        /\ UNCHANGED <<hash, stale, cancel, excluded, bpm, linkLock, ops, used, user,
                       guard, faults>>
    BY <1>6 DEF Account, userVars
  <2>3. attempts' \in [Item -> Nat]
    BY <1>0, <2>2
  <2>4. /\ give \subseteq Item
        /\ Cardinality(give) \in Nat /\ Cardinality(c \cap bpm) \in Nat
    BY Counts
  <2> HIDE DEF give
  <2>5. rec \in LinkRecord
    <3>1. link[l].flight \ {c} \in SUBSET SUBSET Item
      BY <1>0
    <3>2. /\ link[l].processed + Cardinality(c \cap bpm) \in Nat
          /\ link[l].failed + Cardinality(give) \in Nat
      BY <1>0, <2>4 DEF LinkRecord
    <3>3. (IF give = {} THEN "report" ELSE "giveup") \in LinkPc
      BY DEF LinkPc
    <3> QED BY <1>0, <2>4, <3>1, <3>2, <3>3 DEF LinkRecord
  <2>6. rec.own = link[l].own /\ rec.pc \in {"report", "giveup"}
    BY <1>0 DEF LinkRecord
  <2> HIDE DEF rec
  <2>7. Progress(l, rec)
    BY <2>1, <2>2, <2>5, <2>6 DEF Progress, Early, Analysing
  <2>8. link' \in [Link -> LinkRecord] /\ (LinkExclusion /\ OpsHeld /\ ScansBlockedExactly)'
    BY <1>0, <2>2, <2>7, ProgressKeeps DEF Working
  <2> QED BY <2>2, <2>3, <2>8 DEF IInv, TypeOK
<1> QED BY <1>1, <1>2, <1>3, <1>4, <1>5, <1>6

\* An exception or a soft time limit anywhere in the link.
LEMMA AbandonSteps ==
  ASSUME IInv, NEW l \in Link, SoftTimeLimit(l) \/ Fail(l)
  PROVE  IInv'
<1>0. link \in [Link -> LinkRecord] /\ link[l] \in LinkRecord /\ faults \in 0..MaxFaults
  BY DEF IInv, TypeOK
<1>1. PICK pc \in {"requeue", "release"} : Abandon(l, pc)
  BY DEF SoftTimeLimit, Fail
<1>2. /\ hash' \in Hash /\ stale' \in BOOLEAN
      /\ UNCHANGED <<cancel, excluded, attempts, linkLock, ops, used, user, guard>>
  <2>1. CASE SoftTimeLimit(l)
    BY <2>1 DEF SoftTimeLimit, jobVars, userVars, IInv, TypeOK
  <2>2. CASE Fail(l)
    BY <2>2, PublishType DEF Fail, jobVars, userVars, State, IInv
  <2> QED BY <2>1, <2>2
<1>3. /\ link[l].pc \notin {"free", "sent", "read", "send", "release", "unlock"}
      /\ faults' = faults + 1 /\ faults' \in 0..MaxFaults
  BY <1>0, <1>1, LimitAssumption DEF Abandon
<1>4. bpm' \subseteq Item
  <2>1. UNION link[l].flight \subseteq Item
    BY <1>0 DEF LinkRecord
  <2> QED BY <1>1, <2>1 DEF Abandon, IInv, TypeOK
<1> DEFINE rec == [link[l] EXCEPT !.flight = {}, !.todo = {}, !.give = {}, !.owed = 0,
                                  !.pc = pc]
<1>5. link' = [link EXCEPT ![l] = rec]
  BY <1>0, <1>1 DEF Abandon
<1>6. rec \in LinkRecord
  BY <1>0 DEF LinkRecord, LinkPc
<1>7. rec.own = link[l].own /\ rec.flight = {} /\ rec.pc = pc
  BY <1>0 DEF LinkRecord
<1> HIDE DEF rec
<1>8. Progress(l, rec)
  BY <1>5, <1>6, <1>7 DEF Progress, Early, Analysing
<1>9. link' \in [Link -> LinkRecord] /\ (LinkExclusion /\ OpsHeld /\ ScansBlockedExactly)'
  BY <1>0, <1>2, <1>3, <1>8, ProgressKeeps DEF Working
<1> QED BY <1>2, <1>3, <1>4, <1>9 DEF IInv, TypeOK

(***************************************************************************)
(* Messages and locks                                                      *)
(***************************************************************************)

\* A message that joins the unused ones changes nothing the invariant sees.
LEMMA MessageKeeps ==
  ASSUME IInv, NEW m \in Link, NEW j \in Job \cup {NoJob}, link[m] = Unused,
         link' = [link EXCEPT ![m] = Message(j)],
         UNCHANGED <<linkLock, ops, faults>>
  PROVE  /\ link' \in [Link -> LinkRecord]
         /\ (LinkExclusion /\ OpsHeld /\ ScansBlockedExactly)'
<1>1. link \in [Link -> LinkRecord]
  BY DEF IInv, TypeOK
<1>2. link' \in [Link -> LinkRecord]
  BY <1>1, RecordTypes
<1>3. link'[m] = Message(j) /\ \A n \in Link : n # m => link'[n] = link[n]
  BY <1>1
<1>4. /\ Message(j).pc = "sent" /\ Message(j).own = FALSE /\ Message(j).flight = {}
      /\ Unused.pc = "free" /\ Unused.own = FALSE
  BY DEF Message, Unused
<1> HIDE DEF Message
<1>5. \A n \in Link : Working(n)' <=> Working(n)
  BY <1>3, <1>4 DEF Working
<1>6. LinkExclusion'
  BY <1>5 DEF IInv, LinkExclusion
<1>7. OpsHeld'
  BY <1>3, <1>4, <1>5 DEF IInv, OpsHeld, Early, Analysing
<1>8. ScansBlockedExactly'
  <2>1. \A n \in Link : link'[n].flight # {} => ops'
    BY <1>7 DEF OpsHeld
  <2>2. ops' => faults' > 0 \/ \E n \in Link : link'[n].own
    BY <1>3, <1>4 DEF IInv, ScansBlockedExactly
  <2> QED BY <2>1, <2>2 DEF ScansBlockedExactly
<1> QED BY <1>2, <1>6, <1>7, <1>8

\* A link that no longer holds the operation lock, or that a fault ends,
\* leaves the others as they are.
LEMMA LeaveKeeps ==
  ASSUME IInv, NEW l \in Link, link' = [link EXCEPT ![l] = Unused],
         UNCHANGED ops, faults' \in Nat,
         linkLock' = linkLock \/ Working(l),
         \/ ~ Working(l) /\ faults' = faults /\ linkLock' = linkLock
         \/ link[l].pc = "unlock" /\ faults' = faults
         \/ faults' > 0
  PROVE  /\ link' \in [Link -> LinkRecord]
         /\ (LinkExclusion /\ OpsHeld /\ ScansBlockedExactly)'
<1>1. link \in [Link -> LinkRecord]
  BY DEF IInv, TypeOK
<1>2. link' \in [Link -> LinkRecord]
  BY <1>1, RecordTypes
<1>3. link'[l] = Unused /\ \A n \in Link : n # l => link'[n] = link[n]
  BY <1>1
<1>4. Unused.pc = "free" /\ Unused.own = FALSE /\ Unused.flight = {}
  BY DEF Unused
<1>5. ~ Working(l)' /\ \A n \in Link : n # l => (Working(n)' <=> Working(n))
  BY <1>3, <1>4 DEF Working
<1>6. LinkExclusion'
  BY <1>5 DEF IInv, LinkExclusion
<1>7. OpsHeld'
  BY <1>3, <1>4, <1>5 DEF IInv, OpsHeld, Early, Analysing
<1>8. ScansBlockedExactly'
  <2>1. \A n \in Link : link'[n].flight # {} => ops'
    BY <1>7 DEF OpsHeld
  <2>2. ASSUME ops' PROVE faults' > 0 \/ \E n \in Link : link'[n].own
    <3>1. CASE faults' > 0
      BY <3>1
    <3>2. CASE ~ (faults' > 0)
      <4>1. (~ Working(l) \/ link[l].pc = "unlock") /\ faults' = faults /\ ops
        BY <2>2, <3>2
      <4>2. ~ link[l].own
        BY <4>1 DEF IInv, OpsHeld
      <4> QED BY <1>3, <3>2, <4>1, <4>2 DEF IInv, ScansBlockedExactly
    <3> QED BY <3>1, <3>2
  <2> QED BY <2>1, <2>2 DEF ScansBlockedExactly
<1> QED BY <1>2, <1>6, <1>7, <1>8

\* The steps that take or give back a lock, send a message, or end a link.
LEMMA LockSteps ==
  ASSUME IInv, NEW l \in Link,
         \/ Begin(l) \/ AcquireOps(l) \/ SendNext(l) \/ ReleaseOps(l) \/ ReleaseLink(l)
         \/ Crash(l)
  PROVE  IInv'
<1>0. /\ link \in [Link -> LinkRecord] /\ link[l] \in LinkRecord
      /\ faults \in Nat /\ faults \in 0..MaxFaults
  BY LimitAssumption DEF IInv, TypeOK
<1>1. CASE Begin(l)
  <2>1. /\ link[l].pc = "sent" /\ ~ Working(l)
        /\ UNCHANGED <<hash, stale, cancel, excluded, attempts, bpm, ops, used, user,
                       guard, faults>>
    BY <1>1 DEF Begin, Working, jobVars, userVars
  <2>2. CASE linkLock
    <3>1. link' = [link EXCEPT ![l] = Unused] /\ linkLock' = linkLock
      BY <1>1, <2>2 DEF Begin
    <3>2. link' \in [Link -> LinkRecord] /\ (LinkExclusion /\ OpsHeld /\ ScansBlockedExactly)'
      BY <1>0, <2>1, <3>1, LeaveKeeps
    <3> QED BY <2>1, <3>1, <3>2 DEF IInv, TypeOK
  <2>3. CASE ~ linkLock
    <3> DEFINE rec == [link[l] EXCEPT !.pc = "read"]
    <3>1. link' = [link EXCEPT ![l] = rec] /\ linkLock' = TRUE
      BY <1>1, <2>3 DEF Begin, GoTo
    <3>2. rec \in LinkRecord
      BY <1>0 DEF LinkRecord, LinkPc
    <3>3. rec.pc = "read" /\ rec.own = link[l].own /\ rec.flight = link[l].flight
      BY <1>0 DEF LinkRecord
    <3>4. ~ link[l].own /\ link[l].flight = {}
      BY <2>1 DEF IInv, OpsHeld, Analysing
    <3> HIDE DEF rec
    <3>5. link'[l] = rec /\ \A m \in Link : m # l => link'[m] = link[m]
      BY <1>0, <3>1
    <3>6. LinkExclusion'
      BY <2>3, <3>1, <3>5 DEF IInv, LinkExclusion, Working
    <3>7. OpsHeld'
      BY <2>1, <3>3, <3>4, <3>5 DEF IInv, OpsHeld, Working, Early, Analysing
    <3>8. ScansBlockedExactly'
      BY <2>1, <3>3, <3>4, <3>5 DEF IInv, ScansBlockedExactly
    <3>9. link' \in [Link -> LinkRecord]
      BY <1>0, <3>1, <3>2
    <3> QED BY <2>1, <3>1, <3>6, <3>7, <3>8, <3>9 DEF IInv, TypeOK
  <2> QED BY <2>2, <2>3
<1>2. CASE AcquireOps(l)
  <2> DEFINE rec == [link[l] EXCEPT !.own = ~ ops, !.pc = "announce"]
  <2>1. /\ link[l].pc = "lock" /\ ops' = TRUE /\ ops \in BOOLEAN
        /\ UNCHANGED <<hash, stale, cancel, excluded, attempts, bpm, linkLock, used, user,
                       guard, faults>>
    BY <1>2 DEF AcquireOps, jobVars, userVars, IInv, TypeOK
  <2>2. link' = [link EXCEPT ![l] = rec]
    BY <1>0, <1>2 DEF AcquireOps
  <2>3. rec \in LinkRecord
    BY <1>0, <2>1 DEF LinkRecord, LinkPc
  <2>4. rec.pc = "announce" /\ rec.own = ~ ops /\ rec.flight = link[l].flight
    BY <1>0 DEF LinkRecord
  <2>5. ~ link[l].own /\ link[l].flight = {} /\ Working(l)
    BY <2>1 DEF IInv, OpsHeld, Early, Analysing, Working
  <2> HIDE DEF rec
  <2>6. link'[l] = rec /\ \A m \in Link : m # l => link'[m] = link[m]
    BY <1>0, <2>2
  <2>7. \A m \in Link : Working(m)' <=> Working(m)
    BY <2>4, <2>5, <2>6 DEF Working
  <2>8. LinkExclusion'
    BY <2>1, <2>7 DEF IInv, LinkExclusion
  <2>9. \A m \in Link : m # l => ~ Working(m) /\ ~ link[m].own
    BY <2>5 DEF IInv, LinkExclusion, OpsHeld
  <2>10. OpsHeld'
    <3>1. ASSUME NEW m \in Link, m # l
          PROVE  /\ ~ link'[m].own /\ link'[m].flight = {}
                 /\ link'[m].pc \in {"free", "sent"}
      BY <2>6, <2>9, <3>1 DEF IInv, OpsHeld, Working, Analysing
    <3> QED BY <2>1, <2>4, <2>5, <2>6, <2>7, <3>1 DEF OpsHeld, Early, Analysing
  <2>11. ScansBlockedExactly'
    <3>1. \A m \in Link : link'[m].flight # {} => ops'
      BY <2>1
    <3>2. ops' => faults' > 0 \/ \E m \in Link : link'[m].own
      <4>1. CASE ops
        BY <2>1, <2>5, <2>9, <4>1 DEF IInv, ScansBlockedExactly
      <4>2. CASE ~ ops
        BY <2>4, <2>6, <4>2
      <4> QED BY <4>1, <4>2
    <3> QED BY <3>1, <3>2 DEF ScansBlockedExactly
  <2>12. link' \in [Link -> LinkRecord]
    BY <1>0, <2>2, <2>3
  <2> QED BY <2>1, <2>8, <2>10, <2>11, <2>12 DEF IInv, TypeOK
<1>3. CASE SendNext(l)
  <2>1. PICK m \in Link :
          /\ link[m] = Unused
          /\ link' = [link EXCEPT ![l].pc = "release", ![m] = Message(link[l].job)]
    BY <1>3 DEF SendNext
  <2>2. /\ link[l].pc = "send" /\ link[l].job \in Job \cup {NoJob} /\ Working(l)
        /\ UNCHANGED <<hash, stale, cancel, excluded, attempts, bpm, linkLock, ops, used,
                       user, guard, faults>>
    BY <1>0, <1>3 DEF SendNext, jobVars, userVars, LinkRecord, Working
  <2>3. m # l
    BY <2>1, <2>2 DEF Unused
  <2> DEFINE rec == [link[l] EXCEPT !.pc = "release"]
  <2>4. rec \in LinkRecord
    BY <1>0 DEF LinkRecord, LinkPc
  <2>5. rec.pc = "release" /\ rec.own = link[l].own /\ rec.flight = link[l].flight
    BY <1>0 DEF LinkRecord
  <2>6. link' = [link EXCEPT ![l] = rec, ![m] = Message(link[l].job)]
    BY <1>0, <2>1, <2>3
  <2> HIDE DEF rec
  <2>7. /\ link'[l] = rec /\ link'[m] = Message(link[l].job)
        /\ \A n \in Link \ {l, m} : link'[n] = link[n]
    BY <1>0, <2>3, <2>6
  <2>8. /\ link'[m].pc = "sent" /\ link'[m].own = FALSE /\ link'[m].flight = {}
        /\ link[m].pc = "free" /\ link[m].own = FALSE
    <3>1. /\ Message(link[l].job).pc = "sent" /\ Message(link[l].job).own = FALSE
          /\ Message(link[l].job).flight = {}
      BY DEF Message, Unused
    <3>2. Unused.pc = "free" /\ Unused.own = FALSE
      BY DEF Unused
    <3> QED BY <2>1, <2>7, <3>1, <3>2
  <2>9. \A n \in Link : (Working(n)' <=> Working(n)) /\ link'[n].own = link[n].own
    BY <2>2, <2>5, <2>7, <2>8 DEF Working
  <2>10. LinkExclusion'
    BY <2>2, <2>9 DEF IInv, LinkExclusion
  <2>11. OpsHeld'
    <3>1. link[l].flight = {} /\ (link[l].own => ops)
      BY <2>2 DEF IInv, OpsHeld, Analysing
    <3> QED BY <2>2, <2>5, <2>7, <2>8, <2>9, <3>1 DEF IInv, OpsHeld, Early, Analysing
  <2>12. ScansBlockedExactly'
    BY <2>2, <2>9, <2>11 DEF IInv, ScansBlockedExactly, OpsHeld, Analysing
  <2>13. link' \in [Link -> LinkRecord]
    BY <1>0, <2>2, <2>4, <2>6, RecordTypes
  <2> QED BY <2>2, <2>10, <2>11, <2>12, <2>13 DEF IInv, TypeOK
<1>4. CASE ReleaseOps(l)
  <2> DEFINE rec == [link[l] EXCEPT !.pc = "unlock"]
  <2>1. /\ link[l].pc = "release" /\ ops' = (ops /\ ~ link[l].own) /\ Working(l)
        /\ UNCHANGED <<hash, stale, cancel, excluded, attempts, bpm, linkLock, used, user,
                       guard, faults>>
    BY <1>4 DEF ReleaseOps, jobVars, userVars, Working
  <2>2. link' = [link EXCEPT ![l] = rec]
    BY <1>0, <1>4 DEF ReleaseOps, GoTo
  <2>3. rec \in LinkRecord
    BY <1>0 DEF LinkRecord, LinkPc
  <2>4. rec.pc = "unlock" /\ rec.own = link[l].own /\ rec.flight = link[l].flight
    BY <1>0 DEF LinkRecord
  <2>5. link[l].flight = {} /\ ops \in BOOLEAN /\ link[l].own \in BOOLEAN
    BY <1>0, <2>1 DEF IInv, OpsHeld, Analysing, TypeOK, LinkRecord
  <2> HIDE DEF rec
  <2>6. link'[l] = rec /\ \A m \in Link : m # l => link'[m] = link[m]
    BY <1>0, <2>2
  <2>7. \A m \in Link : Working(m)' <=> Working(m)
    BY <2>1, <2>4, <2>6 DEF Working
  <2>8. LinkExclusion'
    BY <2>1, <2>7 DEF IInv, LinkExclusion
  <2>9. ASSUME NEW m \in Link, m # l
        PROVE  ~ link[m].own /\ link[m].flight = {} /\ link[m].pc \in {"free", "sent"}
    BY <2>1, <2>9 DEF IInv, LinkExclusion, OpsHeld, Working, Analysing
  <2>10. OpsHeld'
    BY <2>1, <2>4, <2>5, <2>6, <2>7, <2>9 DEF OpsHeld, Early, Analysing
  <2>11. ScansBlockedExactly'
    BY <2>1, <2>4, <2>5, <2>6, <2>9 DEF IInv, ScansBlockedExactly
  <2>12. link' \in [Link -> LinkRecord] /\ ops' \in BOOLEAN
    BY <1>0, <2>1, <2>2, <2>3
  <2> QED BY <2>1, <2>8, <2>10, <2>11, <2>12 DEF IInv, TypeOK
<1>5. CASE ReleaseLink(l)
  <2>1. /\ link[l].pc = "unlock" /\ linkLock' = FALSE /\ Working(l)
        /\ link' = [link EXCEPT ![l] = Unused]
        /\ UNCHANGED <<hash, stale, cancel, excluded, attempts, bpm, ops, used, user,
                       guard, faults>>
    BY <1>5 DEF ReleaseLink, jobVars, userVars, Working
  <2>2. link' \in [Link -> LinkRecord] /\ (LinkExclusion /\ OpsHeld /\ ScansBlockedExactly)'
    BY <1>0, <2>1, LeaveKeeps
  <2> QED BY <2>1, <2>2 DEF IInv, TypeOK
<1>6. CASE Crash(l)
  <2>1. /\ Working(l) /\ faults' = faults + 1 /\ link' = [link EXCEPT ![l] = Unused]
        /\ UNCHANGED <<hash, stale, cancel, excluded, attempts, bpm, linkLock, ops, used,
                       user, guard>>
    BY <1>6 DEF Crash, jobVars, userVars
  <2>2. faults' \in 0..MaxFaults /\ faults' \in Nat /\ faults' > 0
    BY <1>0, <1>6, LimitAssumption DEF Crash
  <2>3. link' \in [Link -> LinkRecord] /\ (LinkExclusion /\ OpsHeld /\ ScansBlockedExactly)'
    BY <2>1, <2>2, LeaveKeeps
  <2> QED BY <2>1, <2>2, <2>3 DEF IInv, TypeOK
<1> QED BY <1>1, <1>2, <1>3, <1>4, <1>5, <1>6

(***************************************************************************)
(* Steps of everything else                                                *)
(***************************************************************************)

\* What leaves the links and the locks alone keeps the invariant's three parts.
LEMMA LinksAlone ==
  ASSUME IInv, UNCHANGED <<link, linkLock, ops>>, faults' \in Nat, faults' >= faults
  PROVE  (LinkExclusion /\ OpsHeld /\ ScansBlockedExactly)'
<1>1. LinkExclusion' /\ OpsHeld'
  BY DEF IInv, LinkExclusion, OpsHeld, Working
<1>2. ScansBlockedExactly'
  <2>1. faults \in Nat
    BY LimitAssumption DEF IInv, TypeOK
  <2> QED BY <2>1 DEF IInv, ScansBlockedExactly
<1> QED BY <1>1, <1>2

\* A subprocess stores a bpm; a time to live runs out; the heartbeat ages.
LEMMA EnvironmentSteps ==
  ASSUME IInv,
         \/ \E l \in Link, i \in Item : Store(l, i)
         \/ LockExpires \/ HeartbeatAges
  PROVE  IInv'
<1>0. faults \in Nat
  BY LimitAssumption DEF IInv, TypeOK
<1>1. ASSUME NEW l \in Link, NEW i \in Item, Store(l, i) PROVE IInv'
  BY <1>0, <1>1, LinksAlone DEF Store, IInv, TypeOK, jobVars, userVars
<1>2. CASE LockExpires
  <2>1. (LinkExclusion /\ OpsHeld /\ ScansBlockedExactly)'
    BY <1>2 DEF LockExpires, IInv, LinkExclusion, OpsHeld, ScansBlockedExactly, Working
  <2> QED BY <1>2, <2>1 DEF LockExpires, IInv, TypeOK, jobVars, userVars
<1>3. CASE HeartbeatAges
  BY <1>0, <1>3, LinksAlone DEF HeartbeatAges, IInv, TypeOK, jobVars, userVars
<1> QED BY <1>1, <1>2, <1>3

LEMMA GuardSteps ==
  ASSUME IInv, GuardStep
  PROVE  IInv'
<1>0. faults \in Nat
  BY LimitAssumption DEF IInv, TypeOK
<1>1. CASE GuardRead
  BY <1>0, <1>1, LinksAlone DEF GuardRead, IInv, TypeOK, jobVars, userVars
<1>2. CASE GuardTouch
  <2>1. /\ guard' = [guard EXCEPT !.pc = "send"] /\ hash' = guard.copy /\ stale' = FALSE
        /\ UNCHANGED <<cancel, excluded, attempts, bpm, linkLock, ops, link, used, user,
                       faults>>
    BY <1>2 DEF GuardTouch, jobVars, userVars
  <2>2. guard' \in [pc : {"idle", "touch", "send"}, copy : Hash] /\ hash' \in Hash
    BY <2>1 DEF IInv, TypeOK
  <2>3. (LinkExclusion /\ OpsHeld /\ ScansBlockedExactly)'
    BY <1>0, <2>1, LinksAlone
  <2> QED BY <2>1, <2>2, <2>3 DEF IInv, TypeOK
<1>3. CASE GuardSend
  <2>1. guard.copy.job \in Job \cup {NoJob}
    BY DEF IInv, TypeOK, Hash
  <2>2. (LinkExclusion /\ OpsHeld /\ ScansBlockedExactly)' /\ link' \in [Link -> LinkRecord]
    BY <1>3, <2>1, MessageKeeps DEF GuardSend
  <2>3. guard' \in [pc : {"idle", "touch", "send"}, copy : Hash]
    BY <1>3, RecordTypes DEF GuardSend
  <2> QED BY <1>3, <2>2, <2>3 DEF GuardSend, IInv, TypeOK, jobVars, userVars
<1> QED BY <1>1, <1>2, <1>3 DEF GuardStep

LEMMA UserSteps ==
  ASSUME IInv, NEW u \in User,
         StartRequest(u) \/ CancelRequest(u) \/ UserStep(u) \/ UserCrash(u)
  PROVE  IInv'
<1> DEFINE Users == [User -> [pc : UserPc, total : Nat, job : Job \cup {NoJob}]]
<1>0. faults \in 0..MaxFaults /\ faults \in Nat /\ user \in Users
  BY LimitAssumption DEF IInv, TypeOK
<1>a. ASSUME NEW from, NEW to \in UserPc, UserAt(u, from, to)
      PROVE  user' \in Users
  BY <1>0, <1>a DEF UserAt
<1>1. CASE StartRequest(u)
  <2>1. PICK k \in Job \ used :
          /\ used' = used \cup {k}
          /\ user' = [user EXCEPT ![u] = [pc |-> "clearCancel", job |-> k,
                                         total |-> Cardinality(Item \ bpm)]]
    BY <1>1 DEF StartRequest
  <2>2. Cardinality(Item \ bpm) \in Nat
    BY Counts
  <2>3. user' \in Users /\ used' \subseteq Job
    BY <1>0, <2>1, <2>2 DEF UserPc, IInv, TypeOK
  <2> QED BY <1>0, <1>1, <2>3, LinksAlone DEF StartRequest, IInv, TypeOK, jobVars
<1>2. CASE ResetCancel(u)
  <2>1. user' \in Users
    BY <1>2, <1>a DEF ResetCancel, UserPc
  <2>2. /\ cancel' = FALSE
        /\ UNCHANGED <<hash, stale, excluded, attempts, bpm, linkLock, ops, link, used,
                       guard, faults>>
    BY <1>2 DEF ResetCancel
  <2>3. (LinkExclusion /\ OpsHeld /\ ScansBlockedExactly)'
    BY <1>0, <2>2, LinksAlone
  <2> QED BY <2>1, <2>2, <2>3 DEF IInv, TypeOK
<1>3. CASE ResetFailed(u)
  <2>1. user' \in Users
    BY <1>3, <1>a DEF ResetFailed, UserPc
  <2> QED BY <1>0, <1>3, <2>1, LinksAlone DEF ResetFailed, IInv, TypeOK
<1>4. CASE ResetAttempts(u)
  <2>1. user' \in Users
    BY <1>4, <1>a DEF ResetAttempts, UserPc
  <2> QED BY <1>0, <1>4, <2>1, LinksAlone DEF ResetAttempts, IInv, TypeOK
<1>5. CASE ResetStatus(u)
  <2>1. user' \in Users
    BY <1>5, <1>a DEF ResetStatus, UserPc
  <2> QED BY <1>0, <1>5, <2>1, RecordTypes, LinksAlone
          DEF ResetStatus, IInv, TypeOK, jobVars
<1>6. CASE MarkQueued(u)
  <2>1. user' \in Users
    BY <1>6, <1>a DEF MarkQueued, UserPc
  <2>2. hash' \in Hash
    <3>1. user[u].total \in Nat /\ user[u].job \in Job \cup {NoJob}
      BY <1>0
    <3>2. hash' = [state |-> "queued", job |-> user[u].job, total |-> user[u].total,
                   processed |-> 0, failed |-> 0]
      BY <1>6 DEF MarkQueued, NoHash
    <3> QED BY <3>1, <3>2 DEF Hash, State
  <2>3. /\ stale' = FALSE
        /\ UNCHANGED <<cancel, excluded, attempts, bpm, linkLock, ops, link, used, guard,
                       faults>>
    BY <1>6 DEF MarkQueued, jobVars
  <2>4. (LinkExclusion /\ OpsHeld /\ ScansBlockedExactly)'
    BY <1>0, <2>3, LinksAlone
  <2> QED BY <2>1, <2>2, <2>3, <2>4 DEF IInv, TypeOK
<1>7. CASE SendFirst(u)
  <2>1. user[u].job \in Job \cup {NoJob}
    BY <1>0
  <2>2. link' \in [Link -> LinkRecord] /\ (LinkExclusion /\ OpsHeld /\ ScansBlockedExactly)'
    BY <1>7, <2>1, MessageKeeps DEF SendFirst
  <2>3. user' \in Users
    BY <1>0, <1>7, RecordTypes DEF SendFirst
  <2> QED BY <1>7, <2>2, <2>3 DEF SendFirst, IInv, TypeOK, jobVars
<1>8. CASE CancelRequest(u)
  <2>1. user' \in Users
    BY <1>8, <1>a DEF CancelRequest, UserPc
  <2> QED BY <1>0, <1>8, <2>1, LinksAlone DEF CancelRequest, IInv, TypeOK, jobVars
<1>9. CASE SetCancel(u)
  <2>1. user' \in Users
    BY <1>9, <1>a DEF SetCancel, UserPc
  <2> QED BY <1>0, <1>9, <2>1, LinksAlone DEF SetCancel, IInv, TypeOK
<1>10. CASE UserCrash(u)
  <2>1. user' \in Users
    BY <1>0, <1>10, RecordTypes DEF UserCrash
  <2>2. faults' \in 0..MaxFaults /\ faults' \in Nat /\ faults' >= faults
    BY <1>0, <1>10, LimitAssumption DEF UserCrash
  <2> QED BY <1>10, <2>1, <2>2, LinksAlone DEF UserCrash, IInv, TypeOK, jobVars
<1> QED BY <1>1, <1>2, <1>3, <1>4, <1>5, <1>6, <1>7, <1>8, <1>9, <1>10 DEF UserStep

(***************************************************************************)
(* The theorems                                                            *)
(***************************************************************************)

LEMMA InvInit == Init => IInv
<1> SUFFICES ASSUME Init PROVE IInv
  OBVIOUS
<1>1. /\ \A l \in Link : link[l] = Unused
      /\ ops = FALSE /\ faults = 0
  BY DEF Init
<1>2. /\ Unused.pc = "free" /\ Unused.own = FALSE /\ Unused.flight = {}
  BY DEF Unused
<1>3. TypeOK
  <2>1. /\ stale \in BOOLEAN /\ cancel \in BOOLEAN /\ linkLock \in BOOLEAN
        /\ ops \in BOOLEAN
    BY DEF Init
  <2>2. link \in [Link -> LinkRecord] /\ hash \in Hash
    BY RecordTypes DEF Init
  <2>3. user \in [User -> [pc : UserPc, total : Nat, job : Job \cup {NoJob}]]
    BY RecordTypes DEF Init
  <2>4. guard \in [pc : {"idle", "touch", "send"}, copy : Hash]
    BY RecordTypes DEF Init
  <2>5. /\ attempts \in [Item -> Nat] /\ excluded \subseteq Item /\ bpm \subseteq Item
        /\ used \subseteq Job /\ faults \in 0..MaxFaults
    BY LimitAssumption DEF Init
  <2> QED BY <2>1, <2>2, <2>3, <2>4, <2>5 DEF TypeOK
<1>4. LinkExclusion /\ OpsHeld /\ ScansBlockedExactly
  BY <1>1, <1>2 DEF LinkExclusion, OpsHeld, ScansBlockedExactly, Working, Early, Analysing
<1> QED BY <1>3, <1>4 DEF IInv

LEMMA InvStep == IInv /\ [Next]_vars => IInv'
<1> SUFFICES ASSUME IInv, [Next]_vars PROVE IInv'
  OBVIOUS
<1>1. ASSUME NEW l \in Link, LinkStep(l) PROVE IInv'
  BY <1>1, PlainSteps, PoolSteps, LockSteps DEF LinkStep
<1>2. ASSUME NEW l \in Link, SpendBudget(l) PROVE IInv'
  BY <1>2, PoolSteps
<1>3. ASSUME NEW l \in Link, SoftTimeLimit(l) \/ Fail(l) PROVE IInv'
  BY <1>3, AbandonSteps
<1>4. ASSUME NEW l \in Link, Crash(l) PROVE IInv'
  BY <1>4, LockSteps
<1>5. ASSUME NEW l \in Link, NEW i \in Item, Store(l, i) PROVE IInv'
  BY <1>5, EnvironmentSteps
<1>6. CASE LockExpires \/ HeartbeatAges
  BY <1>6, EnvironmentSteps
<1>7. CASE GuardStep
  BY <1>7, GuardSteps
<1>8. ASSUME NEW u \in User,
             StartRequest(u) \/ CancelRequest(u) \/ UserStep(u) \/ UserCrash(u)
      PROVE  IInv'
  BY <1>8, UserSteps
<1>9. CASE UNCHANGED vars
  BY <1>9 DEF vars, jobVars, userVars, IInv, TypeOK, LinkExclusion, OpsHeld,
              ScansBlockedExactly, Working
<1> QED BY <1>1, <1>2, <1>3, <1>4, <1>5, <1>6, <1>7, <1>8, <1>9 DEF Next

\* The inductive invariant holds in every reachable state.
THEOREM Invariance == Spec => []IInv
<1>1. Init => IInv
  BY InvInit
<1>2. IInv /\ [Next]_vars => IInv'
  BY InvStep
<1> QED BY <1>1, <1>2, PTL DEF Spec

\* Every variable of the backfill keeps its type.
THEOREM TypeCorrect == Spec => []TypeOK
<1>1. IInv => TypeOK
  BY DEF IInv
<1> QED BY <1>1, Invariance, PTL

\* However many starts, duplicate messages of the guard, crashes and expiries
\* meet, at most one link of the library works, and it holds the link lock.
THEOREM LinkExclusionCorrect == Spec => []LinkExclusion
<1>1. IInv => LinkExclusion
  BY DEF IInv
<1> QED BY <1>1, Invariance, PTL

\* Scans are blocked while a subprocess may write the beets database, and no
\* link that ends without a crash leaves them blocked.
THEOREM ScansBlockedCorrect == Spec => []ScansBlockedExactly
<1>1. IInv => ScansBlockedExactly
  BY DEF IInv
<1> QED BY <1>1, Invariance, PTL
=============================================================================
