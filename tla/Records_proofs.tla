--------------------------- MODULE Records_proofs ---------------------------
(***************************************************************************)
(* Proofs about the components that keep what the user is told, for any    *)
(* sets of tasks, items, requests, processes, clients and analyses and any *)
(* number of faults. Each component has an inductive invariant in its own  *)
(* module; a lemma says that it holds at first and one that every step     *)
(* keeps it, with a step of the proof for each action. RecordsInv puts     *)
(* them together, and the theorems draw the properties of MCRecords from   *)
(* it.                                                                     *)
(***************************************************************************)
EXTENDS MCRecords, ScanItems_proofs

(***************************************************************************)
(* Activity monitor: task events                                           *)
(***************************************************************************)

\* Before any task the index, the hashes and the history are empty.
LEMMA EventsInit == Activity!Init => Activity!EventInv
<1> SUFFICES ASSUME Activity!Init PROVE Activity!EventInv
  OBVIOUS
<1> DEFINE r == [pc |-> "idle", outcome |-> "completed"]
           c == [pc |-> "idle", candidates |-> {}, orphans |-> {}]
<1>1. /\ v1 = [e \in Event |-> r] /\ v2 = [e \in Event |-> "none"] /\ v8 = c
      /\ v3 = {} /\ v4 = {} /\ v5 = {} /\ v6 = {} /\ v7 = {}
  BY DEF Activity!Init
<1>2. r \in [pc : Activity!EventPc, outcome : Activity!Outcome] /\ r.pc = "idle"
  BY DEF Activity!EventPc, Activity!Outcome
<1>3. /\ c \in [pc : {"idle", "query", "sift", "mark"}, candidates : SUBSET Event, orphans : SUBSET Event]
      /\ c.orphans = {} /\ c.pc = "idle"
  OBVIOUS
<1> HIDE DEF r, c
<1>4. Activity!TypeOK
  BY <1>1, <1>2, <1>3 DEF Activity!TypeOK, Activity!RowStatus
<1>5. \A e \in Event : v1[e].pc = "idle" /\ v2[e] = "none"
  BY <1>1, <1>2
<1>6. Activity!StepsRecorded /\ Activity!SilenceLasts /\ Activity!HistoryFaithful
  BY <1>1, <1>5 DEF Activity!StepsRecorded, Activity!SilenceLasts, Activity!HistoryFaithful,
     Activity!Honest, Activity!Alive
<1>7. Activity!OrphansSilent
  BY <1>1, <1>3 DEF Activity!OrphansSilent
<1> QED
  BY <1>4, <1>6, <1>7 DEF Activity!EventInv

\* Every step of a task, of a clean-up and of the clock keeps the invariant.
LEMMA EventsStep == Activity!EventInv /\ Activity!Next => Activity!EventInv'
<1> SUFFICES ASSUME Activity!EventInv, Activity!Next PROVE Activity!EventInv'
  OBVIOUS
<1> DEFINE Outcome == {"completed", "failed"}
           EventPcs == {"idle", "index", "announce", "work", "report", "finish", "unindex", "clear", "done", "dead"}
           Rec == [pc : EventPcs, outcome : Outcome]
           RowStatuses == {"completed", "failed", "none", "running", "cleared"}
           CPc == {"idle", "query", "sift", "mark"}
           CRec == [pc : CPc, candidates : SUBSET Event, orphans : SUBSET Event]
           Speaks(e) == v1[e].pc \in {"work", "report", "finish"}
           Debris(e) == e \in v6 \cup v7 \/ v1[e].pc = "dead"
<1>a. /\ v1 \in [Event -> Rec] /\ v2 \in [Event -> RowStatuses]
      /\ v3 \subseteq Event /\ v4 \subseteq Event /\ v5 \subseteq Event /\ v6 \subseteq Event
      /\ v7 \subseteq Event
      /\ v8 \in CRec
  BY DEF Activity!EventInv, Activity!TypeOK, Activity!EventPc, Activity!Outcome, Activity!RowStatus
<1>b. \A e \in Event :
        /\ v1[e].pc \in {"idle", "index", "announce"} => e \notin v5 /\ e \notin v4
        /\ v1[e].pc = "idle" => e \notin v3
        /\ v1[e].pc = "announce" => e \in v3
        /\ v1[e].pc \in {"index", "announce"} => v2[e] = "running"
        /\ v2[e] = "running" => v1[e].pc \in {"index", "announce", "work", "report", "finish", "dead"}
        /\ Speaks(e) /\ e \notin v5 => e \in v3
        /\ v1[e].pc = "report" => e \in v4
        /\ v1[e].pc = "clear" => e \notin v3
        /\ v1[e].pc = "done" => e \notin v3 \/ e \notin v4
  BY DEF Activity!EventInv, Activity!StepsRecorded, Activity!Alive, Activity!ActiveTasks
<1>c. \A e \in Event : /\ e \in v6 => e \in v5 /\ e \notin v4
                       /\ Speaks(e) /\ e \notin v4 => e \in v6
                       /\ e \in v7 => v1[e].pc = "done"
  BY DEF Activity!EventInv, Activity!SilenceLasts, Activity!Alive
<1>d. /\ \A e \in v8.orphans : Debris(e)
      /\ v8.pc = "sift" => \A e \in v8.candidates \ v4 : Debris(e)
  BY DEF Activity!EventInv, Activity!OrphansSilent, Activity!Debris
<1>e. \A e \in Event : e \notin v6 /\ e \notin v7 =>
        /\ Speaks(e) => v2[e] = "running"
        /\ v1[e].pc \in {"unindex", "clear", "done"} => v2[e] = v1[e].outcome \/ v2[e] = "cleared"
  BY DEF Activity!EventInv, Activity!HistoryFaithful, Activity!Honest, Activity!Alive
<1> DEFINE Typed == /\ v1' \in [Event -> Rec] /\ v2' \in [Event -> RowStatuses]
                    /\ v3' \subseteq Event /\ v4' \subseteq Event /\ v5' \subseteq Event
                    /\ v6' \subseteq Event /\ v7' \subseteq Event /\ v8' \in CRec
           Steps(e) == /\ v1'[e].pc \in {"idle", "index", "announce"} => e \notin v5' /\ e \notin v4'
                       /\ v1'[e].pc = "idle" => e \notin v3'
                       /\ v1'[e].pc = "announce" => e \in v3'
                       /\ v1'[e].pc \in {"index", "announce"} => v2'[e] = "running"
                       /\ v2'[e] = "running" =>
                            v1'[e].pc \in {"index", "announce", "work", "report", "finish", "dead"}
                       /\ v1'[e].pc \in {"work", "report", "finish"} /\ e \notin v5' => e \in v3'
                       /\ v1'[e].pc = "report" => e \in v4'
                       /\ v1'[e].pc = "clear" => e \notin v3'
                       /\ v1'[e].pc = "done" => e \notin v3' \/ e \notin v4'
           Silence(e) == /\ e \in v6' => e \in v5' /\ e \notin v4'
                         /\ v1'[e].pc \in {"work", "report", "finish"} /\ e \notin v4' => e \in v6'
                         /\ e \in v7' => v1'[e].pc = "done"
           History(e) == e \notin v6' /\ e \notin v7' =>
                           /\ v1'[e].pc \in {"work", "report", "finish"} => v2'[e] = "running"
                           /\ v1'[e].pc \in {"unindex", "clear", "done"} =>
                                v2'[e] = v1'[e].outcome \/ v2'[e] = "cleared"
           Waste(e) == e \in v6' \cup v7' \/ v1'[e].pc = "dead"
           Orphans == /\ \A e \in v8'.orphans : Waste(e)
                      /\ v8'.pc = "sift" => \A e \in v8'.candidates \ v4' : Waste(e)
           Fine == /\ Typed /\ \A e \in Event : Steps(e) /\ Silence(e) /\ History(e)
                   /\ Orphans
<1>f. Fine => Activity!EventInv'
  <2> SUFFICES ASSUME Fine PROVE Activity!EventInv'
    OBVIOUS
  <2>1. Activity!TypeOK'
    BY DEF Activity!TypeOK, Activity!EventPc, Activity!Outcome, Activity!RowStatus
  <2>2. Activity!StepsRecorded'
    BY DEF Activity!StepsRecorded, Activity!Alive, Activity!ActiveTasks
  <2>3. Activity!SilenceLasts'
    BY DEF Activity!SilenceLasts, Activity!Alive
  <2>4. Activity!OrphansSilent'
    BY DEF Activity!OrphansSilent, Activity!Debris
  <2>5. Activity!HistoryFaithful'
    BY DEF Activity!HistoryFaithful, Activity!Honest, Activity!Alive
  <2> QED
    BY <2>1, <2>2, <2>3, <2>4, <2>5 DEF Activity!EventInv
\* The task at work gets the record r, the others keep theirs.
<1>g. ASSUME NEW e \in Event, NEW r \in Rec, v1' = [v1 EXCEPT ![e] = r]
      PROVE  v1' \in [Event -> Rec] /\ v1'[e] = r /\ \A d \in Event \ {e} : v1'[d] = v1[d]
  <2> HIDE DEF Rec
  <2> QED
    BY ONLY <1>a, <1>g
<1>h. ASSUME NEW e \in Event, NEW pc \in EventPcs, Activity!Goto(e, pc)
      PROVE  /\ v1' \in [Event -> Rec] /\ v1'[e].pc = pc /\ v1'[e].outcome = v1[e].outcome
             /\ \A d \in Event \ {e} : v1'[d] = v1[d]
  <2> DEFINE r == [v1[e] EXCEPT !.pc = pc]
  <2>1. r \in Rec /\ r.pc = pc /\ r.outcome = v1[e].outcome
    BY <1>a
  <2>2. v1' = [v1 EXCEPT ![e] = r]
    BY <1>h, <1>a DEF Activity!Goto
  <2> HIDE DEF r, Rec
  <2> QED
    BY <1>g, <2>1, <2>2
\* A step of the task e that does not touch a clean-up: it is enough to look at e.
<1>i. ASSUME NEW e \in Event, v1' \in [Event -> Rec], \A d \in Event \ {e} : v1'[d] = v1[d],
             v2' \in [Event -> RowStatuses], \A d \in Event \ {e} : v2'[d] = v2[d],
             v3' \subseteq Event, \A d \in Event \ {e} : d \in v3' <=> d \in v3,
             v4' \subseteq Event, \A d \in Event \ {e} : d \in v4' <=> d \in v4,
             v5' \subseteq Event, \A d \in Event \ {e} : d \in v5' <=> d \in v5,
             v6' \subseteq Event, \A d \in Event \ {e} : d \in v6' <=> d \in v6,
             v7' \subseteq Event, \A d \in Event \ {e} : d \in v7' <=> d \in v7,
             v8' = v8, Steps(e), Silence(e), History(e),
             Debris(e) => Waste(e),
             e \notin v4' /\ e \in v4 => Waste(e) \/ e \notin v8.candidates \/ v8.pc # "sift"
      PROVE  Fine
  <2>1. ASSUME NEW d \in Event, d # e
        PROVE  Steps(d) /\ Silence(d) /\ History(d) /\ (Debris(d) => Waste(d))
    <3>1. v1'[d] = v1[d] /\ v2'[d] = v2[d]
      BY <1>i, <2>1
    <3>2. /\ d \in v3' <=> d \in v3
          /\ d \in v4' <=> d \in v4
          /\ d \in v5' <=> d \in v5
          /\ d \in v6' <=> d \in v6
          /\ d \in v7' <=> d \in v7
      BY <1>i, <2>1
    <3>3. Steps(d)
      BY <3>1, <3>2, <1>b
    <3>4. Silence(d)
      BY <3>1, <3>2, <1>c
    <3>5. History(d)
      BY <3>1, <3>2, <1>e
    <3>6. Debris(d) => Waste(d)
      BY <3>1, <3>2
    <3> QED
      BY <3>3, <3>4, <3>5, <3>6
  <2>2. \A d \in Event : Steps(d) /\ Silence(d) /\ History(d) /\ (Debris(d) => Waste(d))
    <3> HIDE DEF Steps, Silence, History, Debris, Waste
    <3> QED
      BY <1>i, <2>1
  <2>3. v8.orphans \subseteq Event /\ v8.candidates \subseteq Event
    BY <1>a
  <2>4. Orphans
    <3>1. \A d \in v8.orphans : Waste(d)
      <4> HIDE DEF Steps, Silence, History, Debris, Waste
      <4> QED
        BY <1>d, <2>2, <2>3
    <3>2. ASSUME v8.pc = "sift", NEW d \in v8.candidates \ v4' PROVE Waste(d)
      <4> HIDE DEF Steps, Silence, History, Debris, Waste
      <4>1. CASE d \in v4
        BY <1>i, <3>2, <4>1, <2>3
      <4>2. CASE d \notin v4
        BY <1>d, <2>2, <2>3, <3>2, <4>2
      <4> QED
        BY <4>1, <4>2
    <3> HIDE DEF Waste
    <3> QED
      BY <1>i, <3>1, <3>2
  <2> HIDE DEF Steps, Silence, History, Debris, Waste
  <2>5. Typed
    BY <1>i, <1>a
  <2> HIDE DEF Orphans, Typed
  <2> QED
    BY <2>2, <2>4, <2>5
<1>1. ASSUME NEW e \in Event, Activity!InsertEvent(e) PROVE Fine
  <2>1. /\ v1' \in [Event -> Rec] /\ v1'[e].pc = "index" /\ v1'[e].outcome = v1[e].outcome
        /\ \A d \in Event \ {e} : v1'[d] = v1[d]
    BY <1>1, <1>h DEF Activity!InsertEvent
  <2>2. v1[e].pc = "idle" /\ v2' = [v2 EXCEPT ![e] = "running"] /\ v2'[e] = "running" /\ v3' = v3
        /\ v4' = v4 /\ v5' = v5 /\ v6' = v6 /\ v7' = v7 /\ v8' = v8
        /\ v2' \in [Event -> RowStatuses]
    BY <1>1, <1>a DEF Activity!InsertEvent
  <2>3. Steps(e)
    BY <2>1, <2>2, <1>b, <1>c, <1>e
  <2>4. Silence(e)
    BY <2>1, <2>2, <1>b, <1>c, <1>e
  <2>5. History(e)
    BY <2>1, <2>2, <1>b, <1>c, <1>e
  <2>6. Debris(e) => Waste(e)
    BY <2>1, <2>2, <1>b, <1>c
  <2>7. e \notin v4' /\ e \in v4 => Waste(e) \/ e \notin v8.candidates \/ v8.pc # "sift"
    BY <2>1, <2>2
  <2> HIDE DEF Rec, RowStatuses, Steps, Silence, History, Debris, Waste, Fine
  <2> QED
    BY <1>i, <1>a, <2>1, <2>2, <2>3, <2>4, <2>5, <2>6, <2>7
<1>2. ASSUME NEW e \in Event, Activity!AddToIndex(e) PROVE Fine
  <2>1. /\ v1' \in [Event -> Rec] /\ v1'[e].pc = "announce" /\ v1'[e].outcome = v1[e].outcome
        /\ \A d \in Event \ {e} : v1'[d] = v1[d]
    BY <1>2, <1>h DEF Activity!AddToIndex
  <2>2. /\ v1[e].pc = "index" /\ v3' = v3 \cup {e} /\ v2' = v2 /\ v4' = v4 /\ v5' = v5 /\ v6' = v6
        /\ v7' = v7 /\ v8' = v8
    BY <1>2, <1>a DEF Activity!AddToIndex
  <2>3. Steps(e)
    BY <2>1, <2>2, <1>b, <1>c, <1>e
  <2>4. Silence(e)
    BY <2>1, <2>2, <1>b, <1>c, <1>e
  <2>5. History(e)
    BY <2>1, <2>2, <1>b, <1>c, <1>e
  <2>6. Debris(e) => Waste(e)
    BY <2>1, <2>2, <1>b, <1>c
  <2>7. e \notin v4' /\ e \in v4 => Waste(e) \/ e \notin v8.candidates \/ v8.pc # "sift"
    BY <2>1, <2>2
  <2> HIDE DEF Rec, RowStatuses, Steps, Silence, History, Debris, Waste, Fine
  <2> QED
    BY <1>i, <1>a, <2>1, <2>2, <2>3, <2>4, <2>5, <2>6, <2>7
<1>3. ASSUME NEW e \in Event, Activity!SetProgress(e) PROVE Fine
  <2>1. /\ v1' \in [Event -> Rec] /\ v1'[e].pc = "work" /\ v1'[e].outcome = v1[e].outcome
        /\ \A d \in Event \ {e} : v1'[d] = v1[d]
    BY <1>3, <1>h DEF Activity!SetProgress
  <2>2. /\ v1[e].pc = "announce" /\ v4' = v4 \cup {e} /\ v2' = v2 /\ v3' = v3 /\ v5' = v5
        /\ v6' = v6 /\ v7' = v7 /\ v8' = v8
    BY <1>3, <1>a DEF Activity!SetProgress
  <2>3. Steps(e)
    BY <2>1, <2>2, <1>b, <1>c, <1>e
  <2>4. Silence(e)
    BY <2>1, <2>2, <1>b, <1>c, <1>e
  <2>5. History(e)
    BY <2>1, <2>2, <1>b, <1>c, <1>e
  <2>6. Debris(e) => Waste(e)
    BY <2>1, <2>2, <1>b, <1>c
  <2>7. e \notin v4' /\ e \in v4 => Waste(e) \/ e \notin v8.candidates \/ v8.pc # "sift"
    BY <2>1, <2>2
  <2> HIDE DEF Rec, RowStatuses, Steps, Silence, History, Debris, Waste, Fine
  <2> QED
    BY <1>i, <1>a, <2>1, <2>2, <2>3, <2>4, <2>5, <2>6, <2>7
<1>4. ASSUME NEW e \in Event, Activity!ReadProgress(e) PROVE Fine
  <2>1. /\ v1' \in [Event -> Rec] /\ v1'[e].pc = "report" /\ v1'[e].outcome = v1[e].outcome
        /\ \A d \in Event \ {e} : v1'[d] = v1[d]
    BY <1>4, <1>h DEF Activity!ReadProgress
  <2>2. /\ v1[e].pc = "work" /\ e \in v4 /\ v2' = v2 /\ v3' = v3 /\ v4' = v4 /\ v5' = v5 /\ v6' = v6
        /\ v7' = v7 /\ v8' = v8
    BY <1>4, <1>a DEF Activity!ReadProgress
  <2>3. Steps(e)
    BY <2>1, <2>2, <1>b, <1>c, <1>e
  <2>4. Silence(e)
    BY <2>1, <2>2, <1>b, <1>c, <1>e
  <2>5. History(e)
    BY <2>1, <2>2, <1>b, <1>c, <1>e
  <2>6. Debris(e) => Waste(e)
    BY <2>1, <2>2, <1>b, <1>c
  <2>7. e \notin v4' /\ e \in v4 => Waste(e) \/ e \notin v8.candidates \/ v8.pc # "sift"
    BY <2>1, <2>2
  <2> HIDE DEF Rec, RowStatuses, Steps, Silence, History, Debris, Waste, Fine
  <2> QED
    BY <1>i, <1>a, <2>1, <2>2, <2>3, <2>4, <2>5, <2>6, <2>7
<1>5. ASSUME NEW e \in Event, Activity!RecordProgress(e) PROVE Fine
  <2>1. /\ v1' \in [Event -> Rec] /\ v1'[e].pc = "work" /\ v1'[e].outcome = v1[e].outcome
        /\ \A d \in Event \ {e} : v1'[d] = v1[d]
    BY <1>5, <1>h DEF Activity!RecordProgress
  <2>2. /\ v1[e].pc = "report" /\ v4' = v4 \cup {e} /\ v2' = v2 /\ v3' = v3 /\ v5' = v5 /\ v6' = v6
        /\ v7' = v7 /\ v8' = v8
    BY <1>5, <1>a DEF Activity!RecordProgress
  <2>3. Steps(e)
    BY <2>1, <2>2, <1>b, <1>c, <1>e
  <2>4. Silence(e)
    BY <2>1, <2>2, <1>b, <1>c, <1>e
  <2>5. History(e)
    BY <2>1, <2>2, <1>b, <1>c, <1>e
  <2>6. Debris(e) => Waste(e)
    BY <2>1, <2>2, <1>b, <1>c
  <2>7. e \notin v4' /\ e \in v4 => Waste(e) \/ e \notin v8.candidates \/ v8.pc # "sift"
    BY <2>1, <2>2
  <2> HIDE DEF Rec, RowStatuses, Steps, Silence, History, Debris, Waste, Fine
  <2> QED
    BY <1>i, <1>a, <2>1, <2>2, <2>3, <2>4, <2>5, <2>6, <2>7
<1>6. ASSUME NEW e \in Event, Activity!RemoveFromIndex(e) PROVE Fine
  <2>1. /\ v1' \in [Event -> Rec] /\ v1'[e].pc = "clear" /\ v1'[e].outcome = v1[e].outcome
        /\ \A d \in Event \ {e} : v1'[d] = v1[d]
    BY <1>6, <1>h DEF Activity!RemoveFromIndex
  <2>2. /\ v1[e].pc = "unindex" /\ v3' = v3 \ {e} /\ v2' = v2 /\ v4' = v4 /\ v5' = v5 /\ v6' = v6
        /\ v7' = v7 /\ v8' = v8
    BY <1>6, <1>a DEF Activity!RemoveFromIndex
  <2>3. Steps(e)
    BY <2>1, <2>2, <1>b, <1>c, <1>e
  <2>4. Silence(e)
    BY <2>1, <2>2, <1>b, <1>c, <1>e
  <2>5. History(e)
    BY <2>1, <2>2, <1>b, <1>c, <1>e
  <2>6. Debris(e) => Waste(e)
    BY <2>1, <2>2, <1>b, <1>c
  <2>7. e \notin v4' /\ e \in v4 => Waste(e) \/ e \notin v8.candidates \/ v8.pc # "sift"
    BY <2>1, <2>2
  <2> HIDE DEF Rec, RowStatuses, Steps, Silence, History, Debris, Waste, Fine
  <2> QED
    BY <1>i, <1>a, <2>1, <2>2, <2>3, <2>4, <2>5, <2>6, <2>7
<1>7. ASSUME NEW e \in Event, Activity!DieAtWork(e) PROVE Fine
  <2>1. /\ v1' \in [Event -> Rec] /\ v1'[e].pc = "dead" /\ v1'[e].outcome = v1[e].outcome
        /\ \A d \in Event \ {e} : v1'[d] = v1[d]
    BY <1>7, <1>h DEF Activity!DieAtWork
  <2>2. /\ v1[e].pc \notin {"idle", "done", "dead"} /\ v2' = v2 /\ v3' = v3 /\ v4' = v4 /\ v5' = v5
        /\ v6' = v6 /\ v7' = v7 /\ v8' = v8
    BY <1>7, <1>a DEF Activity!DieAtWork
  <2>3. Steps(e)
    BY <2>1, <2>2, <1>b, <1>c, <1>e
  <2>4. Silence(e)
    BY <2>1, <2>2, <1>b, <1>c, <1>e
  <2>5. History(e)
    BY <2>1, <2>2, <1>b, <1>c, <1>e
  <2>6. Debris(e) => Waste(e)
    BY <2>1, <2>2, <1>b, <1>c
  <2>7. e \notin v4' /\ e \in v4 => Waste(e) \/ e \notin v8.candidates \/ v8.pc # "sift"
    BY <2>1, <2>2
  <2> HIDE DEF Rec, RowStatuses, Steps, Silence, History, Debris, Waste, Fine
  <2> QED
    BY <1>i, <1>a, <2>1, <2>2, <2>3, <2>4, <2>5, <2>6, <2>7
<1>8. ASSUME NEW e \in Event, Activity!ClearProgress(e) PROVE Fine
  <2>1. /\ v1' \in [Event -> Rec] /\ v1'[e].pc = "done" /\ v1'[e].outcome = v1[e].outcome
        /\ \A d \in Event \ {e} : v1'[d] = v1[d]
    BY <1>8, <1>h DEF Activity!ClearProgress
  <2>2. /\ v1[e].pc = "clear" /\ v4' = v4 \ {e} /\ v2' = v2 /\ v3' = v3 /\ v5' = v5 /\ v6' = v6
        /\ v8' = v8
        /\ v7' = IF v8.pc = "sift" /\ e \in v8.candidates THEN v7 \cup {e} ELSE v7
    BY <1>8 DEF Activity!ClearProgress
  <2>3. Steps(e)
    BY <2>1, <2>2, <1>b, <1>c, <1>e
  <2>4. Silence(e)
    BY <2>1, <2>2, <1>b, <1>c, <1>e
  <2>5. History(e)
    BY <2>1, <2>2, <1>b, <1>c, <1>e
  <2>6. Debris(e) => Waste(e)
    BY <2>1, <2>2, <1>b, <1>c
  <2>7. e \notin v4' /\ e \in v4 => Waste(e) \/ e \notin v8.candidates \/ v8.pc # "sift"
    BY <2>1, <2>2
  <2>8. v7' \subseteq Event /\ \A d \in Event \ {e} : d \in v7' <=> d \in v7
    BY <2>2, <1>a
  <2> HIDE DEF Rec, RowStatuses, Steps, Silence, History, Debris, Waste, Fine
  <2> QED
    BY <1>i, <1>a, <2>1, <2>2, <2>3, <2>4, <2>5, <2>6, <2>7, <2>8
<1>9. ASSUME NEW e \in Event, NEW outcome \in Outcome, Activity!ReadRow(e, outcome) PROVE Fine
  <2> DEFINE r == [v1[e] EXCEPT !.outcome = outcome, !.pc = IF v2[e] = "cleared" THEN "done" ELSE "finish"]
  <2>0. r \in Rec /\ r.pc = IF v2[e] = "cleared" THEN "done" ELSE "finish"
    BY <1>a
  <2>2. /\ v1[e].pc = "work" /\ v1' = [v1 EXCEPT ![e] = r]
        /\ v2' = v2 /\ v3' = v3 /\ v4' = v4 /\ v5' = v5 /\ v6' = v6 /\ v7' = v7 /\ v8' = v8
    BY <1>9, <1>a DEF Activity!ReadRow
  <2> HIDE DEF r
  <2>1. /\ v1' \in [Event -> Rec] /\ v1'[e].pc = IF v2[e] = "cleared" THEN "done" ELSE "finish"
        /\ \A d \in Event \ {e} : v1'[d] = v1[d]
    BY <1>g, <2>0, <2>2
  <2>3. Steps(e)
    BY <2>1, <2>2, <1>b, <1>c, <1>e
  <2>4. Silence(e)
    BY <2>1, <2>2, <1>b, <1>c, <1>e
  <2>5. History(e)
    BY <2>1, <2>2, <1>b, <1>c, <1>e
  <2>6. Debris(e) => Waste(e)
    BY <2>1, <2>2, <1>b, <1>c
  <2>7. e \notin v4' /\ e \in v4 => Waste(e) \/ e \notin v8.candidates \/ v8.pc # "sift"
    BY <2>1, <2>2
  <2> HIDE DEF Rec, RowStatuses, Steps, Silence, History, Debris, Waste, Fine
  <2> QED
    BY <1>i, <1>a, <2>1, <2>2, <2>3, <2>4, <2>5, <2>6, <2>7
<1>10. ASSUME NEW e \in Event, NEW outcome \in Outcome, Activity!RecordEvent(e, outcome) PROVE Fine
  <2> DEFINE r == [v1[e] EXCEPT !.pc = "done", !.outcome = outcome]
  <2>0. r \in Rec /\ r.pc = "done" /\ r.outcome = outcome
    BY <1>a
  <2>2. /\ v1[e].pc = "idle" /\ v1' = [v1 EXCEPT ![e] = r]
        /\ v2' \in [Event -> RowStatuses] /\ v2'[e] = outcome
        /\ \A d \in Event \ {e} : v2'[d] = v2[d]
        /\ v3' = v3 /\ v4' = v4 /\ v5' = v5 /\ v6' = v6 /\ v7' = v7 /\ v8' = v8
    BY <1>10, <1>a DEF Activity!RecordEvent
  <2> HIDE DEF r
  <2>1. /\ v1' \in [Event -> Rec] /\ v1'[e].pc = "done" /\ v1'[e].outcome = outcome
        /\ \A d \in Event \ {e} : v1'[d] = v1[d]
    BY <1>g, <2>0, <2>2
  <2>3. Steps(e)
    BY <2>1, <2>2, <1>b, <1>c, <1>e
  <2>4. Silence(e)
    BY <2>1, <2>2, <1>b, <1>c, <1>e
  <2>5. History(e)
    BY <2>1, <2>2, <1>b, <1>c, <1>e
  <2>6. Debris(e) => Waste(e)
    BY <2>1, <2>2, <1>b, <1>c
  <2>7. e \notin v4' /\ e \in v4 => Waste(e) \/ e \notin v8.candidates \/ v8.pc # "sift"
    BY <2>1, <2>2
  <2> HIDE DEF Rec, RowStatuses, Steps, Silence, History, Debris, Waste, Fine
  <2> QED
    BY <1>i, <1>a, <2>1, <2>2, <2>3, <2>4, <2>5, <2>6, <2>7
<1>11. ASSUME NEW e \in Event, Activity!CommitOutcome(e) PROVE Fine
  <2>0. v1[e].outcome \in Outcome
    BY <1>a
  <2>1. /\ v1' \in [Event -> Rec] /\ v1'[e].outcome = v1[e].outcome
        /\ v1'[e].pc = IF v2[e] = "cleared" THEN "done" ELSE "unindex"
        /\ \A d \in Event \ {e} : v1'[d] = v1[d]
    BY <1>11, <1>h DEF Activity!CommitOutcome
  <2>2. /\ v1[e].pc = "finish" /\ v3' = v3
        /\ v4' = v4 /\ v5' = v5 /\ v6' = v6 /\ v7' = v7 /\ v8' = v8
        /\ v2' \in [Event -> RowStatuses] /\ \A d \in Event \ {e} : v2'[d] = v2[d]
        /\ v2'[e] = IF v2[e] = "cleared" THEN v2[e] ELSE v1[e].outcome
    <3>1. CASE v2[e] = "cleared"
      BY <1>11, <1>a, <3>1 DEF Activity!CommitOutcome
    <3>2. CASE v2[e] # "cleared"
      <4>1. v2' = [v2 EXCEPT ![e] = v1[e].outcome]
        BY <1>11, <3>2 DEF Activity!CommitOutcome
      <4> QED
        BY <1>11, <1>a, <2>0, <3>2, <4>1 DEF Activity!CommitOutcome
    <3> QED
      BY <3>1, <3>2
  <2>3. Steps(e)
    BY <2>0, <2>1, <2>2, <1>b, <1>c, <1>e
  <2>4. Silence(e)
    BY <2>1, <2>2, <1>b, <1>c, <1>e
  <2>5. History(e)
    BY <2>1, <2>2, <1>b, <1>c, <1>e
  <2>6. Debris(e) => Waste(e)
    BY <2>1, <2>2, <1>b, <1>c
  <2>7. e \notin v4' /\ e \in v4 => Waste(e) \/ e \notin v8.candidates \/ v8.pc # "sift"
    BY <2>1, <2>2
  <2> HIDE DEF Rec, RowStatuses, Steps, Silence, History, Debris, Waste, Fine
  <2> QED
    BY <1>i, <1>a, <2>1, <2>2, <2>3, <2>4, <2>5, <2>6, <2>7
<1>12. ASSUME NEW e \in Event, Activity!Age(e) PROVE Fine
  <2>2. /\ v1[e].pc \in {"work", "report", "dead"} /\ v5' = v5 \cup {e} /\ v1' = v1 /\ v2' = v2
        /\ v3' = v3 /\ v4' = v4 /\ v6' = v6 /\ v7' = v7 /\ v8' = v8
    BY <1>12 DEF Activity!Age
  <2>3. Steps(e)
    BY <2>2, <1>b, <1>c, <1>e
  <2>4. Silence(e)
    BY <2>2, <1>b, <1>c, <1>e
  <2>5. History(e)
    BY <2>2, <1>b, <1>c, <1>e
  <2>6. Debris(e) => Waste(e)
    BY <2>2, <1>b, <1>c
  <2>7. e \notin v4' /\ e \in v4 => Waste(e) \/ e \notin v8.candidates \/ v8.pc # "sift"
    BY <2>2
  <2> HIDE DEF Rec, RowStatuses, Steps, Silence, History, Debris, Waste, Fine
  <2> QED
    BY <1>i, <1>a, <2>2, <2>3, <2>4, <2>5, <2>6, <2>7
<1>13. ASSUME NEW e \in Event, Activity!ProgressExpires(e) PROVE Fine
  <2>2. /\ e \in v4 /\ e \in v5 /\ v1[e].pc # "report" /\ v4' = v4 \ {e} /\ v6' = v6 \cup {e}
        /\ v1' = v1 /\ v2' = v2 /\ v3' = v3 /\ v5' = v5 /\ v7' = v7 /\ v8' = v8
    BY <1>13 DEF Activity!ProgressExpires
  <2>3. Steps(e)
    BY <2>2, <1>b, <1>c, <1>e
  <2>4. Silence(e)
    BY <2>2, <1>b, <1>c, <1>e
  <2>5. History(e)
    BY <2>2, <1>b, <1>c, <1>e
  <2>6. Debris(e) => Waste(e)
    BY <2>2, <1>b, <1>c
  <2>7. e \notin v4' /\ e \in v4 => Waste(e) \/ e \notin v8.candidates \/ v8.pc # "sift"
    BY <2>2
  <2> HIDE DEF Rec, RowStatuses, Steps, Silence, History, Debris, Waste, Fine
  <2> QED
    BY <1>i, <1>a, <2>2, <2>3, <2>4, <2>5, <2>6, <2>7
\* A step of a clean-up, or of the history: the tasks stay where they are.
<1>j. ASSUME v1' = v1, v4' = v4, v5' = v5, v6' = v6, v7' = v7, v3' = v3 \/ v3' = v3 \ v5,
             v2' \in [Event -> RowStatuses], v8' \in CRec, Orphans,
             \A e \in Event : \/ v2'[e] = v2[e]
                              \/ v2'[e] = "failed" /\ Debris(e)
                              \/ v2'[e] = "cleared" /\ v2[e] \in Outcome
      PROVE  Fine
  <2>1. Typed
    <3> HIDE DEF Rec, RowStatuses, CRec
    <3> QED
      BY <1>j, <1>a
  <2>2. ASSUME NEW e \in Event PROVE Steps(e) /\ Silence(e) /\ History(e)
    <3>1. /\ e \in v3' => e \in v3
          /\ e \notin v5 => (e \in v3' <=> e \in v3)
      BY <1>j
    <3>2. v2'[e] # v2[e] => v2'[e] # "running" /\ v1[e].pc \notin {"index", "announce"}
      BY <1>j, <1>b, <1>c
    <3>3. Steps(e)
      BY <1>j, <3>1, <3>2, <1>b
    <3>4. Silence(e)
      BY <1>j, <1>c
    <3>5. History(e)
      BY <1>j, <1>b, <1>c, <1>e
    <3> QED
      BY <3>3, <3>4, <3>5
  <2> HIDE DEF Typed, Steps, Silence, History, Orphans
  <2> QED
    BY <1>j, <2>1, <2>2
<1>14. ASSUME Activity!CleanIndex PROVE Fine
  <2> DEFINE c == [v8 EXCEPT !.pc = "query"]
  <2>1. /\ v8' = c /\ v1' = v1 /\ v2' = v2 /\ v3' = v3 \ v5 /\ v4' = v4 /\ v5' = v5 /\ v6' = v6
        /\ v7' = v7
    BY <1>14 DEF Activity!CleanIndex
  <2>2. c \in CRec /\ c.pc = "query" /\ c.orphans = v8.orphans
    BY <1>a
  <2> HIDE DEF c
  <2>3. Orphans
    BY <2>1, <2>2, <1>d
  <2> HIDE DEF CRec, Orphans, Fine, Rec, RowStatuses, Debris
  <2> QED
    BY <1>j, <1>a, <2>1, <2>2, <2>3
<1>15. ASSUME Activity!QueryCandidates PROVE Fine
  <2> DEFINE c == [v8 EXCEPT !.pc = "sift", !.candidates = {e \in v5 : v2[e] = "running"}]
  <2>1. /\ v8' = c /\ v1' = v1 /\ v2' = v2 /\ v3' = v3 /\ v4' = v4 /\ v5' = v5 /\ v6' = v6
        /\ v7' = v7
    BY <1>15 DEF Activity!QueryCandidates
  <2>2. /\ c \in CRec /\ c.pc = "sift" /\ c.orphans = v8.orphans
        /\ c.candidates = {e \in v5 : v2[e] = "running"}
    BY <1>a
  <2> HIDE DEF c
  <2>3. \A e \in v5 \ v4 : v2[e] = "running" => Debris(e)
    BY <1>a, <1>b, <1>c
  <2>4. Orphans
    BY <2>1, <2>2, <2>3, <1>d
  <2> HIDE DEF CRec, Orphans, Fine, Rec, RowStatuses, Debris
  <2> QED
    BY <1>j, <1>a, <2>1, <2>2, <2>4
<1>16. ASSUME Activity!SiftCandidates PROVE Fine
  <2> DEFINE c == [v8 EXCEPT !.pc = "mark", !.orphans = v8.candidates \ v4]
  <2>1. /\ v8' = c /\ v1' = v1 /\ v2' = v2 /\ v3' = v3 /\ v4' = v4 /\ v5' = v5 /\ v6' = v6
        /\ v7' = v7
        /\ v8.pc = "sift"
    BY <1>16 DEF Activity!SiftCandidates
  <2>2. c \in CRec /\ c.pc = "mark" /\ c.orphans = v8.candidates \ v4
    BY <1>a
  <2> HIDE DEF c
  <2>3. Orphans
    BY <2>1, <2>2, <1>d
  <2> HIDE DEF CRec, Orphans, Fine, Rec, RowStatuses, Debris
  <2> QED
    BY <1>j, <1>a, <2>1, <2>2, <2>3
<1>17. ASSUME Activity!MarkOrphans PROVE Fine
  <2> DEFINE c == [pc |-> "idle", candidates |-> {}, orphans |-> {}]
  <2>1. /\ v8' = c /\ v1' = v1 /\ v3' = v3 /\ v4' = v4 /\ v5' = v5 /\ v6' = v6 /\ v7' = v7
        /\ v2' = v2 \/ v2' = [e \in Event |-> IF e \in v8.orphans THEN "failed" ELSE v2[e]]
    BY <1>17 DEF Activity!MarkOrphans
  <2>2. c \in CRec /\ c.pc = "idle" /\ c.orphans = {}
    OBVIOUS
  <2> HIDE DEF c
  <2>3. Orphans
    BY <2>1, <2>2
  <2>4. /\ v2' \in [Event -> RowStatuses]
        /\ \A e \in Event : v2'[e] = v2[e] \/ (v2'[e] = "failed" /\ Debris(e))
    <3> HIDE DEF Debris
    <3> QED
      BY <2>1, <1>a, <1>d
  <2> HIDE DEF CRec, Orphans, Fine, Rec, RowStatuses, Debris
  <2> QED
    BY <1>j, <2>1, <2>2, <2>3, <2>4
<1>18. ASSUME NEW S \in SUBSET Event, Activity!ClearHistory(S) PROVE Fine
  <2>1. /\ v8' = v8 /\ v1' = v1 /\ v3' = v3 /\ v4' = v4 /\ v5' = v5 /\ v6' = v6 /\ v7' = v7
        /\ v2' = [e \in Event |-> IF e \in S THEN "cleared" ELSE v2[e]]
        /\ \A e \in S : v2[e] \in Outcome
    BY <1>18 DEF Activity!ClearHistory, Activity!Outcome
  <2>2. Orphans
    BY <2>1, <1>d
  <2>3. /\ v2' \in [Event -> RowStatuses]
        /\ \A e \in Event : v2'[e] = v2[e] \/ (v2'[e] = "cleared" /\ v2[e] \in Outcome)
    BY <2>1, <1>a
  <2> HIDE DEF CRec, Orphans, Fine, Rec, RowStatuses, Debris
  <2> QED
    BY <1>j, <1>a, <2>1, <2>2, <2>3
<1> HIDE DEF Fine
<1>19. ASSUME NEW e \in Event, Activity!EventStep(e) PROVE Fine
  BY <1>19, <1>1, <1>2, <1>3, <1>4, <1>5, <1>6, <1>7, <1>8, <1>9, <1>10, <1>11, <1>12, <1>13
     DEF Activity!EventStep, Activity!Outcome
<1> QED
  BY <1>f, <1>14, <1>15, <1>16, <1>17, <1>18, <1>19 DEF Activity!Next

(***************************************************************************)
(* Batch updates of albums (batch-update-albums)                           *)
(***************************************************************************)

\* AlbumSync counts albums as FiniteSets does.
LEMMA SyncCardinality == \A T : Sync!Cardinality(T) = Cardinality(T)
  BY DEF Sync!Cardinality, Cardinality

\* An album of no files has none misplaced.
LEMMA SyncNought == \A k : k \in 0 .. 0 => k = 0
  OBVIOUS

\* Names are served from the first on, and the last has no next.
LEMMA SyncNames ==
  /\ 1 \in Name
  /\ \A n \in Name : n \in Int /\ 1 <= n /\ ~(n < 1)
  /\ \A m, n \in Name : n + 1 \notin Name => m <= n
<1>1. IsFiniteSet(Name) /\ Name # {} /\ Name = 1 .. Cardinality(Name)
  BY Zenon, AlbumAssumption DEF AlbumAssumption
<1> DEFINE N == Cardinality(Name)
<1>2. N \in Nat /\ N # 0
  BY <1>1, FS_CardinalityType, FS_EmptySet
<1>3. Name = 1 .. N
  BY Zenon, <1>1
<1> HIDE DEF N
<1> QED
  BY <1>2, <1>3

\* The numbers among the constants.
LEMMA SyncSizes == AlbumSize \in Nat /\ MoveAttempts \in Nat \ {0} /\ MaxSyncFaults \in Nat
  BY Zenon, AlbumAssumption DEF AlbumAssumption

\* The albums of a batch are few and of one name each.
LEMMA SyncAlbums ==
  /\ IsFiniteSet(Album) /\ AlbumsOf \in [Name -> SUBSET Album] /\ "no album" \notin Album
  /\ \A m, n \in Name : m # n => AlbumsOf[m] \cap AlbumsOf[n] = {}
  BY Zenon, AlbumAssumption DEF AlbumAssumption

\* Misplaced files are a number, and when there is none every album has none.
LEMMA SyncCount ==
  ASSUME v2 \in [Album -> 0 .. AlbumSize], NEW T \in SUBSET Album
  PROVE  /\ Sync!MisplacedFiles(T) \in Nat
         /\ Sync!MisplacedFiles(T) = 0 => \A a \in T : v2[a] = 0
<1> DEFINE files == {f \in T \X (1 .. AlbumSize) : f[2] <= v2[f[1]]}
<1>1. Sync!MisplacedFiles(T) = Cardinality(files)
  BY SyncCardinality DEF Sync!MisplacedFiles
<1>2. IsFiniteSet(T) /\ IsFiniteSet(1 .. AlbumSize)
  <2>1. IsFiniteSet(T)
    BY FS_Subset, SyncAlbums
  <2>2. 1 \in Int /\ AlbumSize \in Int
    BY SyncSizes
  <2> QED
    BY <2>1, <2>2, FS_Interval
<1>3. IsFiniteSet(T \X (1 .. AlbumSize))
  BY <1>2, FS_Product
<1>4. IsFiniteSet(files)
  BY <1>3, FS_Subset
<1>5. Cardinality(files) \in Nat /\ (Cardinality(files) = 0 => files = {})
  BY <1>4, FS_CardinalityType, FS_EmptySet
<1>6. ASSUME files = {}, NEW a \in T PROVE v2[a] = 0
  <2>1. v2[a] \in Int /\ 0 <= v2[a] /\ v2[a] <= AlbumSize
    BY SyncSizes
  <2>2. ASSUME v2[a] # 0 PROVE FALSE
    <3>1. 1 <= v2[a] /\ 1 \in 1 .. AlbumSize
      BY <2>1, <2>2, SyncSizes
    <3>2. <<a, 1>> \in files
      BY <3>1
    <3> QED
      BY <1>6, <3>2
  <2> QED
    BY <2>2
<1> QED
  BY <1>1, <1>5, <1>6

\* Before the task has any album its job is pending and nothing is reported.
LEMMA SyncInit == Sync!Init => Sync!SyncInv
<1> SUFFICES ASSUME Sync!Init PROVE Sync!SyncInv
  OBVIOUS
<1> DEFINE JRec == [status : {"none", "pending", "running", "completed", "failed", "partial"},
                    albums : [Name -> Sync!AlbumStatus]]
           TRec == [pc : Sync!SyncPc, at : Name, target : [Name -> Album \cup {"no album"}],
                    pending : Nat \cup {Sync!Unknown}, attempt : 1 .. MoveAttempts]
           target == [n \in Name |-> "no album"]
           albums == [n \in Name |-> "none"]
           job == [status |-> "none", albums |-> albums]
           task == [pc |-> "write", at |-> 1, target |-> target, pending |-> 0, attempt |-> 1]
<1>1. /\ v1 = [a \in Album |-> 0] /\ v2 = [a \in Album |-> 0] /\ v3 \in BOOLEAN /\ v4 = job
      /\ v5 = task
      /\ v6 = albums /\ v7 = {} /\ v8 = "ahead" /\ v9 = 0
      /\ v10 = [succeeded |-> {}, failed |-> {}]
  BY DEF Sync!Init, Sync!NoAlbum
<1>2. /\ target \in [Name -> Album \cup {"no album"}] /\ albums \in [Name -> Sync!AlbumStatus]
      /\ albums \in [Name -> {"none", "success", "failed"}]
      /\ \A n \in Name : target[n] = "no album"
      /\ \A n \in Name : albums[n] = "none"
  BY DEF Sync!AlbumStatus
<1>3. /\ 1 \in Name /\ 1 \in 1 .. MoveAttempts /\ "write" \in Sync!SyncPc
      /\ \A n \in Name : n \in Int /\ 1 <= n
  BY SyncNames, SyncSizes DEF Sync!SyncPc
<1> HIDE DEF target, albums
<1>4. job \in JRec /\ task \in TRec /\ job.status = "none" /\ job.albums = albums /\ task.pc = "write"
      /\ task.at = 1 /\ task.target = target
  BY <1>2, <1>3
<1> HIDE DEF job, task
<1>5. /\ v1 \in [Album -> 0 .. AlbumSize] /\ v2 \in [Album -> 0 .. AlbumSize]
      /\ v9 \in 0 .. MaxSyncFaults
  BY <1>1, SyncSizes
<1>6. Sync!TypeOK
  BY <1>1, <1>2, <1>4, <1>5 DEF Sync!TypeOK, Sync!NoAlbum
<1>7. Sync!TargetsNamed /\ Sync!FinalAtEnd /\ Sync!SyncSummaryHonest
  BY <1>1, <1>2, <1>4 DEF Sync!TargetsNamed, Sync!FinalAtEnd, Sync!SyncSummaryHonest, Sync!NoAlbum
<1>8. Sync!ResultsInTurn
  <2>0. v5.at = 1 /\ v6 = albums
    BY <1>1, <1>4
  <2>1. \A n \in Name : v6[n] = "none" /\ ~(n < v5.at)
    <3>1. \A n \in Name : albums[n] = "none"
      BY <1>2
    <3>2. \A n \in Name : ~(n < 1)
      BY SyncNames
    <3> QED
      BY <2>0, <3>1, <3>2
  <2>2. v5.pc = "write"
    BY <1>1, <1>4
  <2> QED
    BY <2>0, <2>1, <2>2 DEF Sync!ResultsInTurn
<1>9. Sync!SuccessMoved /\ Sync!CountedByResult
  BY <1>1, <1>2, <1>4 DEF Sync!SuccessMoved, Sync!CountedByResult
<1> QED
  BY <1>6, <1>7, <1>8, <1>9 DEF Sync!SyncInv

\* Every step of the task keeps the invariant.
LEMMA SyncStep == Sync!SyncInv /\ Sync!Next => Sync!SyncInv'
<1> SUFFICES ASSUME Sync!SyncInv, Sync!Next PROVE Sync!SyncInv'
  OBVIOUS
<1> DEFINE Status == {"none", "pending", "running", "completed", "failed", "partial"}
           Final == {"completed", "failed", "partial"}
           JRec == [status : Status, albums : [Name -> Sync!AlbumStatus]]
           Target == [Name -> Album \cup {"no album"}]
           TRec == [pc : Sync!SyncPc, at : Name, target : Target,
                    pending : Nat \cup {Sync!Unknown}, attempt : 1 .. MoveAttempts]
           Result == [Name -> {"none", "success", "failed"}]
           Size == [Album -> 0 .. AlbumSize]
           Past == {"abort", "final", "done", "dead"}
           Counts == [succeeded : SUBSET Name, failed : SUBSET Name]
           Limits == {"ahead", "handled", "swallowed", "uncaught"}
           Typed(a, b, c, j, t, r, u, l, f, k) ==
             /\ a \in Size /\ b \in Size /\ c \in BOOLEAN /\ j \in JRec /\ t \in TRec
             /\ r \in Result
             /\ u \in SUBSET Name /\ l \in Limits
             /\ f \in 0 .. MaxSyncFaults /\ k \in Counts
           Named(t) == \A n \in Name : t.target[n] \in AlbumsOf[n] \cup {"no album"}
           InTurn(t, r) ==
             /\ t.pc \in {"write", "dispatch", "resolve"} => t.at = 1
             /\ t.pc \notin Past =>
                  \A n \in Name : r[n] # "none" <=> n < t.at \/ (n = t.at /\ t.pc = "report")
             /\ t.pc = "final" => \A n \in Name : r[n] # "none"
           Clean(n, b, t, u) == n \notin u /\ t.target[n] # "no album" => b[t.target[n]] = 0
           Settled(b, j, t, r, u) ==
             /\ \A n \in Name : /\ r[n] = "success" => Clean(n, b, t, u)
                                /\ j.albums[n] = "success" => r[n] = "success"
             /\ t.pc = "relocate" => Clean(t.at, b, t, u)
           Counted(t, r, k) ==
             /\ \A n \in Name : /\ r[n] = "failed" <=> n \in k.failed
                                /\ r[n] = "success" => n \in k.succeeded
             /\ t.pc = "relocate" => t.at \in k.succeeded
           Twice(k) == k.succeeded \cap k.failed # {}
           Summed(j, t, k) ==
             j.status \in Final =>
               /\ t.pc = "done"
               /\ \A n \in Name : j.albums[n] \in {"success", "failed"}
               /\ \/ j.status = Sync!SumOf(j.albums)
                  \/ Twice(k) /\ j.status = "partial" /\ Sync!SumOf(j.albums) = "failed"
               /\ ~ Twice(k) =>
                    (j.status \in {"completed", "partial"} <=> \E n \in Name : j.albums[n] = "success")
           Fine == /\ Typed(v1', v2', v3', v4', v5', v6', v7', v8', v9', v10') /\ Named(v5')
                   /\ InTurn(v5', v6') /\ Settled(v2', v4', v5', v6', v7')
                   /\ Counted(v5', v6', v10') /\ Summed(v4', v5', v10')
<1>a. Typed(v1, v2, v3, v4, v5, v6, v7, v8, v9, v10)
  BY DEF Sync!SyncInv, Sync!TypeOK, Sync!NoAlbum
<1>b. Named(v5) /\ InTurn(v5, v6)
  BY DEF Sync!SyncInv, Sync!TargetsNamed, Sync!ResultsInTurn, Sync!NoAlbum
<1>t. v5.pc \notin Past =>
        \A n \in Name : v6[n] # "none" <=> n < v5.at \/ (n = v5.at /\ v5.pc = "report")
  BY <1>b
<1>u. v5.at \in Name /\ v6 \in Result /\ v5.at \in Int /\ \A n \in Name : n \in Int
  <2>1. v5.at \in Name /\ v6 \in Result
    BY <1>a
  <2> QED
    BY <2>1, SyncNames
<1>v. v5.at \in Int /\ ~(v5.at < v5.at)
  <2>1. v5.at \in Int
    BY <1>u
  <2> QED
    BY <2>1
<1>c. Settled(v2, v4, v5, v6, v7)
  BY DEF Sync!SyncInv, Sync!SuccessMoved, Sync!MovedBut, Sync!NoAlbum
<1>d. Summed(v4, v5, v10)
  BY DEF Sync!SyncInv, Sync!FinalAtEnd, Sync!SyncSummaryHonest, Sync!ReportedStatus,
     Sync!CountedTwice
<1>o. Counted(v5, v6, v10)
  BY DEF Sync!SyncInv, Sync!CountedByResult
<1>e. ASSUME Fine PROVE Sync!SyncInv'
  <2>1. Sync!TypeOK'
    <3>1. Typed(v1', v2', v3', v4', v5', v6', v7', v8', v9', v10')
      BY <1>e
    <3> HIDE DEF Fine
    <3> QED
      BY <3>1 DEF Sync!TypeOK, Sync!NoAlbum
  <2>2. Sync!TargetsNamed' /\ Sync!ResultsInTurn'
    <3>1. Named(v5') /\ InTurn(v5', v6')
      BY <1>e
    <3> HIDE DEF Fine
    <3> QED
      BY <3>1 DEF Sync!TargetsNamed, Sync!ResultsInTurn, Sync!NoAlbum
  <2>3. Sync!SuccessMoved'
    <3>1. Settled(v2', v4', v5', v6', v7')
      BY <1>e
    <3> HIDE DEF Fine
    <3> QED
      BY <3>1 DEF Sync!SuccessMoved, Sync!MovedBut, Sync!NoAlbum
  <2>4. Sync!FinalAtEnd' /\ Sync!SyncSummaryHonest'
    <3>1. Summed(v4', v5', v10')
      BY <1>e
    <3> HIDE DEF Fine
    <3> QED
      BY <3>1 DEF Sync!FinalAtEnd, Sync!SyncSummaryHonest, Sync!ReportedStatus, Sync!SumOf,
         Sync!CountedTwice
  <2>5. Sync!CountedByResult'
    <3>1. Counted(v5', v6', v10')
      BY <1>e
    <3> HIDE DEF Fine
    <3> QED
      BY <3>1 DEF Sync!CountedByResult
  <2> HIDE DEF Fine
  <2> QED
    BY <2>1, <2>2, <2>3, <2>4, <2>5 DEF Sync!SyncInv
<1>f. ASSUME NEW pc \in Sync!SyncPc, Sync!SyncGoto(pc)
      PROVE  /\ v5' \in TRec /\ v5'.pc = pc /\ v5'.at = v5.at /\ v5'.target = v5.target
             /\ v5'.pending = v5.pending /\ v5'.attempt = v5.attempt
  <2>1. v5 \in TRec
    BY <1>a
  <2>2. v5' = [v5 EXCEPT !.pc = pc]
    BY <1>f DEF Sync!SyncGoto
  <2> HIDE DEF Target
  <2> QED
    BY <2>1, <2>2
<1>g. ASSUME Sync!SyncFault PROVE v9' \in 0 .. MaxSyncFaults
  <2>1. v9 \in 0 .. MaxSyncFaults
    BY <1>a
  <2> HIDE DEF Typed
  <2> QED
    BY <1>g, <2>1, SyncSizes DEF Sync!SyncFault
\* A step of the album at work that neither ends nor reports it.
<1>h. ASSUME v1' \in Size, v2' \in Size, v3' = v3, v4' = v4, v6' = v6, v8' \in Limits,
             v7' \in SUBSET Name, v7 \subseteq v7', v9' \in 0 .. MaxSyncFaults,
             v5' \in TRec, v5'.at = v5.at, v5'.target = v5.target, v5.pc # "done",
             \/ v5'.pc \in {"abort", "dead", "done"}
             \/ v5.pc \notin Past /\ v5.pc # "report" /\ v5'.pc \notin Past /\ v5'.pc # "report",
             v5'.pc \in {"write", "resolve"} => FALSE, v5'.pc = "dispatch" => v5.pc = "write",
             \A n \in Name : v6[n] = "success" => Clean(n, v2', v5, v7),
             v5'.pc = "relocate" => Clean(v5.at, v2', v5, v7'),
             v10' \in Counts, v10'.failed = v10.failed, v10.succeeded \subseteq v10'.succeeded,
             v5'.pc = "relocate" => v5.at \in v10'.succeeded
      PROVE  Fine
  <2>1. Typed(v1', v2', v3', v4', v5', v6', v7', v8', v9', v10')
    BY <1>a, <1>h
  <2>2. Named(v5')
    BY <1>b, <1>h
  <2>3. InTurn(v5', v6')
    <3>1. v5'.pc # "final" /\ v5'.at = v5.at /\ v6' = v6
      BY <1>h
    <3>2. v5'.pc \in {"write", "dispatch", "resolve"} => v5'.at = 1
      BY <1>b, <1>h
    <3>3. CASE v5'.pc \in {"abort", "dead", "done"}
      BY <3>1, <3>2, <3>3
    <3>4. CASE v5.pc \notin Past /\ v5.pc # "report" /\ v5'.pc \notin Past /\ v5'.pc # "report"
      <4>1. \A n \in Name : v6[n] # "none" <=> n < v5.at
        BY <1>t, <3>4
      <4> QED
        BY <3>1, <3>2, <3>4, <4>1
    <3> QED
      BY <1>h, <3>3, <3>4
  <2>5. Settled(v2', v4', v5', v6', v7')
    <3>1. \A n \in Name : v6'[n] = "success" => Clean(n, v2', v5', v7')
      BY <1>h
    <3>2. \A n \in Name : v4'.albums[n] = "success" => v6'[n] = "success"
      BY <1>c, <1>h
    <3>3. v5'.pc = "relocate" => Clean(v5'.at, v2', v5', v7')
      BY <1>h
    <3> HIDE DEF Clean
    <3> QED
      BY <3>1, <3>2, <3>3
  <2>4. Summed(v4', v5', v10')
    BY <1>d, <1>h
  <2>6. Counted(v5', v6', v10')
    BY <1>h, <1>o
  <2> HIDE DEF Typed, Named, InTurn, Settled, Counted, Summed
  <2> QED
    BY <2>1, <2>2, <2>3, <2>4, <2>5, <2>6
\* The album at work ends.
<1>i. ASSUME NEW result \in {"success", "failed"}, Sync!SyncGoto("report"),
             v6' = [v6 EXCEPT ![v5.at] = result], v10' \in Counts,
             v10'.failed = IF result = "failed" THEN v10.failed \cup {v5.at} ELSE v10.failed,
             v10'.succeeded = v10.succeeded, result = "success" => v5.at \in v10.succeeded,
             v1' = v1, v2' \in Size, v3' = v3, v4' = v4,
             v8' = v8, v7' \in SUBSET Name, v7 \subseteq v7', v9' \in 0 .. MaxSyncFaults,
             v5.pc \notin Past, v5.pc # "report",
             \A n \in Name : v6[n] = "success" => Clean(n, v2', v5, v7),
             result = "success" => Clean(v5.at, v2', v5, v7')
      PROVE  Fine
  <2>0. "report" \in Sync!SyncPc
    BY DEF Sync!SyncPc
  <2>1. v5' \in TRec /\ v5'.pc = "report" /\ v5'.at = v5.at /\ v5'.target = v5.target
    BY <1>f, <1>i, <2>0
  <2>2. /\ v6' \in Result /\ v6'[v5.at] = result /\ \A n \in Name : n # v5.at => v6'[n] = v6[n]
        /\ v5.at \in Name
    <3>1. v5.at \in Name /\ v6 \in Result
      BY <1>a
    <3>2. v6' = [v6 EXCEPT ![v5.at] = result]
      BY <1>i
    <3> QED
      BY <3>1, <3>2
  <2>3. Typed(v1', v2', v3', v4', v5', v6', v7', v8', v9', v10')
    BY <1>a, <1>i, <2>1, <2>2
  <2>4. Named(v5')
    BY <1>b, <2>1
  <2>5. v6[v5.at] = "none"
    BY <1>i, <1>t, <1>u, <1>v
  <2>6. InTurn(v5', v6')
    <3>1. \A n \in Name : v6'[n] # "none" <=> n < v5.at \/ n = v5.at
      BY <1>i, <1>t, <1>u, <2>2
    <3> QED
      BY <2>1, <3>1
  <2>7. Settled(v2', v4', v5', v6', v7')
    <3>1. ASSUME NEW n \in Name, v6'[n] = "success" PROVE Clean(n, v2', v5', v7')
      <4>1. Clean(n, v2', v5, v7) \/ Clean(n, v2', v5, v7')
        BY <1>i, <2>2, <3>1
      <4> QED
        BY <1>i, <2>1, <4>1
    <3>2. ASSUME NEW n \in Name, v4'.albums[n] = "success" PROVE v6'[n] = "success"
      <4>1. v6[n] = "success"
        BY <1>c, <1>i, <3>2
      <4> QED
        BY <2>2, <2>5, <4>1
    <3> HIDE DEF Clean
    <3> QED
      BY <2>1, <3>1, <3>2
  <2>8. Summed(v4', v5', v10')
    BY <1>d, <1>i, <2>1
  <2>9. Counted(v5', v6', v10')
    <3>1. ASSUME NEW n \in Name
          PROVE  /\ v6'[n] = "failed" <=> n \in v10'.failed
                 /\ v6'[n] = "success" => n \in v10'.succeeded
      <4>1. CASE n = v5.at
        BY <1>i, <1>o, <2>2, <2>5, <4>1
      <4>2. CASE n # v5.at
        BY <1>i, <1>o, <2>2, <4>2
      <4> QED
        BY <4>1, <4>2
    <3> QED
      BY <2>1, <3>1
  <2> HIDE DEF Typed, Named, InTurn, Settled, Counted, Summed
  <2> QED
    BY <2>3, <2>4, <2>6, <2>7, <2>8, <2>9
\* The two counters.
<1>p. v10 \in Counts
  BY <1>a
<1>m. ASSUME Sync!ConcludeFailed
      PROVE  /\ Sync!SyncGoto("report") /\ v6' = [v6 EXCEPT ![v5.at] = "failed"] /\ v10' \in Counts
             /\ v10'.failed = v10.failed \cup {v5.at} /\ v10'.succeeded = v10.succeeded
  <2>1. v10' = [v10 EXCEPT !.failed = v10.failed \cup {v5.at}]
    BY <1>m DEF Sync!ConcludeFailed
  <2> QED
    BY <1>m, <1>p, <1>u, <2>1 DEF Sync!ConcludeFailed
<1>n. ASSUME Sync!MoveSucceeds
      PROVE  /\ Sync!SyncGoto("relocate") /\ v6' = v6 /\ v10' \in Counts
             /\ v10'.failed = v10.failed /\ v10'.succeeded = v10.succeeded \cup {v5.at}
  <2>1. v10' = [v10 EXCEPT !.succeeded = v10.succeeded \cup {v5.at}]
    BY <1>n DEF Sync!MoveSucceeds
  <2> QED
    BY <1>n, <1>p, <1>u, <2>1 DEF Sync!MoveSucceeds
<1>j. \A n \in Name : v6[n] = "success" => Clean(n, v2, v5, v7)
  BY <1>c
\* What a count says of the album at work.
<1>k. Sync!MoveTargets \in SUBSET Album
      /\ (v5.target[v5.at] # "no album" => Sync!MoveTargets = {v5.target[v5.at]})
  <2>1. v5.at \in Name /\ v5.target[v5.at] \in Album \cup {"no album"}
    BY <1>a
  <2> QED
    BY <2>1, SyncAlbums DEF Sync!MoveTargets, Sync!NoAlbum
<1>l. ASSUME NEW c, Sync!CountPending(c)
      PROVE  /\ c \in Nat \cup {Sync!Unknown} /\ v7' \in SUBSET Name /\ v7 \subseteq v7'
             /\ v9' \in 0 .. MaxSyncFaults /\ v5.at \in Name
             /\ c \in {0, Sync!Unknown} => Clean(v5.at, v2, v5, v7')
  <2>1. v2 \in Size /\ v5.at \in Name /\ v7 \in SUBSET Name /\ v9 \in 0 .. MaxSyncFaults
    BY <1>a
  <2>2. /\ Sync!MisplacedFiles(Sync!MoveTargets) \in Nat
        /\ Sync!MisplacedFiles(Sync!MoveTargets) = 0 => \A a \in Sync!MoveTargets : v2[a] = 0
    BY <1>k, <2>1, SyncCount
  <2>3. Sync!Unknown \notin Nat
    BY DEF Sync!Unknown
  <2>4. ASSUME c = Sync!MisplacedFiles(Sync!MoveTargets), v9' = v9, v7' = v7
        PROVE  c \in {0, Sync!Unknown} => Clean(v5.at, v2, v5, v7')
    BY <1>k, <2>2, <2>3, <2>4
  <2> QED
    BY <1>g, <1>l, <2>1, <2>2, <2>4 DEF Sync!CountPending
<1>1. ASSUME Sync!WriteTags \/ Sync!FindCover PROVE Fine
  <2>1. /\ v1' \in Size /\ v2' = v2 /\ v3' = v3 /\ v4' = v4 /\ v6' = v6 /\ v7' = v7 /\ v8' = v8
        /\ v9' = v9 /\ v10' = v10
        /\ v5.pc \in {"write", "cover"}
    BY <1>1, <1>a DEF Sync!WriteTags, Sync!FindCover
  <2>2. (v5.pc = "write" /\ Sync!SyncGoto("dispatch")) \/ Sync!SyncGoto("done") \/ Sync!SyncGoto("count")
    BY <1>1 DEF Sync!WriteTags, Sync!FindCover
  <2>3. {"dispatch", "done", "count"} \subseteq Sync!SyncPc
    BY DEF Sync!SyncPc
  <2>4. /\ v5' \in TRec /\ v5'.at = v5.at /\ v5'.target = v5.target
        /\ v5'.pc \in {"dispatch", "done", "count"}
        /\ (v5'.pc = "dispatch" => v5.pc = "write")
    BY <1>f, <2>2, <2>3
  <2>5. /\ v2 \in Size /\ v7 \in SUBSET Name /\ v8 \in Limits
        /\ v9 \in 0 .. MaxSyncFaults
    BY <1>a
  <2> HIDE DEF TRec, Size, Fine, Clean, Counts, Limits
  <2> QED
    BY <1>h, <1>j, <1>p, <2>1, <2>4, <2>5
\* The job is written before any album has a result.
<1>2. ASSUME Sync!DispatchSync \/ Sync!StartSync PROVE Fine
  <2> DEFINE albums == [n \in Name |-> "pending"]
  <2>1. /\ v1' = v1 /\ v2' = v2 /\ v3' = v3 /\ v6' = v6 /\ v7' = v7 /\ v8' = v8 /\ v10' = v10
        /\ v5.pc \in {"dispatch", "start"}
    BY <1>2 DEF Sync!DispatchSync, Sync!StartSync
  <2>2. v4' \in JRec /\ v4'.status \notin Final /\ \A n \in Name : v4'.albums[n] = "pending"
    <3>1. albums \in [Name -> Sync!AlbumStatus]
      BY DEF Sync!AlbumStatus
    <3>2. v4' = [status |-> "pending", albums |-> albums] \/ v4' = [status |-> "running", albums |-> albums]
      BY <1>2 DEF Sync!DispatchSync, Sync!StartSync
    <3>3. \A n \in Name : albums[n] = "pending"
      OBVIOUS
    <3> HIDE DEF albums
    <3> QED
      BY <3>1, <3>2, <3>3
  <2>3. \/ v5.pc = "dispatch" /\ Sync!SyncGoto("resolve")
        \/ Sync!SyncGoto("refused") \/ Sync!SyncGoto("update")
    BY <1>2 DEF Sync!DispatchSync, Sync!StartSync
  <2>4. v9' \in 0 .. MaxSyncFaults
    BY <1>2, <1>a, <1>g DEF Sync!DispatchSync, Sync!StartSync
  <2>5. {"resolve", "refused", "update"} \subseteq Sync!SyncPc
    BY DEF Sync!SyncPc
  <2>6. /\ v5' \in TRec /\ v5'.at = v5.at /\ v5'.target = v5.target
        /\ v5'.pc \in {"resolve", "refused", "update"}
        /\ (v5'.pc = "resolve" => v5.pc = "dispatch")
    BY <1>f, <2>3, <2>5
  <2>7. Typed(v1', v2', v3', v4', v5', v6', v7', v8', v9', v10')
    BY <1>a, <2>1, <2>2, <2>4, <2>6
  <2>8. Named(v5') /\ InTurn(v5', v6')
    BY <1>b, <2>1, <2>6
  <2>9. Settled(v2', v4', v5', v6', v7')
    BY <1>c, <2>1, <2>2, <2>6
  <2>10. Summed(v4', v5', v10')
    BY <2>2
  <2>11. Counted(v5', v6', v10')
    BY <1>o, <2>1, <2>6
  <2> HIDE DEF Typed, Named, InTurn, Settled, Counted, Summed
  <2> QED
    BY <2>7, <2>8, <2>9, <2>10, <2>11
<1>3. ASSUME Sync!ResolveAlbums PROVE Fine
  <2>1. /\ v1' = v1 /\ v2' = v2 /\ v3' = v3 /\ v4' = v4 /\ v6' = v6 /\ v7' = v7 /\ v8' = v8
        /\ v5.pc = "resolve" /\ v9' \in 0 .. MaxSyncFaults /\ v10' = v10
    BY <1>3, <1>a, <1>g DEF Sync!ResolveAlbums
  <2>2. PICK target \in Target : /\ v5' = [v5 EXCEPT !.pc = "start", !.target = target]
                                 /\ \A n \in Name : target[n] \in AlbumsOf[n] \cup {"no album"}
    BY <1>3 DEF Sync!ResolveAlbums, Sync!NoAlbum
  <2>3. v5' \in TRec /\ v5'.pc = "start" /\ v5'.at = v5.at /\ v5'.target = target
    <3>1. v5 \in TRec /\ "start" \in Sync!SyncPc
      BY <1>a DEF Sync!SyncPc
    <3> HIDE DEF Target
    <3> QED
      BY <2>2, <3>1
  <2>4. \A n \in Name : v6[n] = "none"
    <3>1. v5.at = 1 /\ \A n \in Name : v6[n] # "none" => n < v5.at
      BY <1>b, <1>t, <2>1
    <3> QED
      BY <3>1, SyncNames
  <2>5. Typed(v1', v2', v3', v4', v5', v6', v7', v8', v9', v10')
    BY <1>a, <2>1, <2>3
  <2>6. Named(v5') /\ InTurn(v5', v6')
    BY <1>b, <2>1, <2>2, <2>3
  <2>7. Settled(v2', v4', v5', v6', v7')
    BY <1>c, <2>1, <2>3, <2>4
  <2>8. Summed(v4', v5', v10')
    BY <1>d, <2>1
  <2>9. Counted(v5', v6', v10')
    BY <1>o, <2>1, <2>3
  <2> HIDE DEF Typed, Named, InTurn, Settled, Counted, Summed
  <2> QED
    BY <2>5, <2>6, <2>7, <2>8, <2>9
<1>4. ASSUME Sync!UpdateAlbum PROVE Fine
  <2>1. /\ v1' = v1 /\ v3' = v3 /\ v4' = v4 /\ v6' = v6 /\ v7' = v7 /\ v8' = v8 /\ v9' = v9
        /\ v5.pc = "update" /\ v10' = v10
        /\ v2' = [a \in Album |-> IF a \in AlbumsOf[v5.at] THEN v1[a] ELSE v2[a]]
    BY <1>4 DEF Sync!UpdateAlbum
  <2>2. \E pc \in {"cover", "count"} : Sync!SyncGoto(pc)
    BY <1>4 DEF Sync!UpdateAlbum
  <2>3. {"cover", "count"} \subseteq Sync!SyncPc
    BY DEF Sync!SyncPc
  <2>4. v5' \in TRec /\ v5'.at = v5.at /\ v5'.target = v5.target /\ v5'.pc \in {"cover", "count"}
    BY <1>f, <2>2, <2>3
  <2>5. /\ v1 \in Size /\ v2 \in Size /\ v7 \in SUBSET Name
        /\ v8 \in Limits
        /\ v9 \in 0 .. MaxSyncFaults /\ v5.at \in Name /\ v5.target \in Target
    BY <1>a
  <2>6. v2' \in Size
    BY <2>1, <2>5
  <2>7. \A n \in Name : v6[n] = "success" => Clean(n, v2', v5, v7)
    <3> SUFFICES ASSUME NEW n \in Name, v6[n] = "success", n \notin v7, v5.target[n] # "no album"
                 PROVE  v2'[v5.target[n]] = 0
      OBVIOUS
    <3>1. v5.target[n] \in Album /\ v5.target[n] \in AlbumsOf[n] /\ v2[v5.target[n]] = 0
      BY <1>b, <1>j, <2>5
    <3>2. n # v5.at
      BY <1>t, <1>u, <1>v, <2>1
    <3>3. v5.target[n] \notin AlbumsOf[v5.at]
      BY <2>5, <3>1, <3>2, SyncAlbums
    <3> QED
      BY <2>1, <3>1, <3>3
  <2> HIDE DEF TRec, Size, Fine, Clean, Counts, Limits
  <2> QED
    BY <1>h, <1>p, <2>1, <2>4, <2>5, <2>6, <2>7
<1>5. ASSUME Sync!UpdateAlbumFails PROVE Fine
  <2>1. /\ v1' = v1 /\ v2' = v2 /\ v3' = v3 /\ v4' = v4 /\ v7' = v7 /\ v8' = v8 /\ v5.pc = "update"
        /\ Sync!ConcludeFailed /\ v9' \in 0 .. MaxSyncFaults
    BY <1>5, <1>g DEF Sync!UpdateAlbumFails
  <2>2. v2 \in Size /\ v7 \in SUBSET Name
    BY <1>a
  <2> HIDE DEF Size, Fine, Clean, Counts
  <2> QED
    BY <1>i, <1>j, <1>m, <2>1, <2>2
<1>6. ASSUME Sync!Count PROVE Fine
  <2>1. /\ v1' = v1 /\ v2' = v2 /\ v3' = v3 /\ v4' = v4 /\ v8' = v8 /\ v5.pc = "count"
    BY <1>6 DEF Sync!Count
  <2>2. PICK c : /\ Sync!CountPending(c)
                 /\ \/ c = 0 /\ Sync!MoveSucceeds
                    \/ /\ v5' = [v5 EXCEPT !.pc = "move", !.pending = c, !.attempt = 1]
                       /\ v6' = v6 /\ v10' = v10
    BY <1>6 DEF Sync!Count
  <2>3. /\ c \in Nat \cup {Sync!Unknown} /\ v7' \in SUBSET Name /\ v7 \subseteq v7'
        /\ v9' \in 0 .. MaxSyncFaults /\ (c = 0 => Clean(v5.at, v2, v5, v7'))
    BY <1>l, <2>2
  <2>4. v1 \in Size /\ v2 \in Size /\ v8 \in Limits /\ v5 \in TRec /\ v5.at \in Name
    BY <1>a
  <2>5. ASSUME c = 0, Sync!MoveSucceeds PROVE Fine
    <3>1. "relocate" \in Sync!SyncPc
      BY DEF Sync!SyncPc
    <3>2. v5' \in TRec /\ v5'.at = v5.at /\ v5'.target = v5.target /\ v5'.pc = "relocate"
      BY <1>f, <1>n, <2>5, <3>1
    <3> HIDE DEF TRec, Size, Fine, Clean, Counts, Limits
    <3> QED
      BY <1>h, <1>j, <1>n, <2>1, <2>3, <2>4, <2>5, <3>2
  <2>6. ASSUME v5' = [v5 EXCEPT !.pc = "move", !.pending = c, !.attempt = 1], v6' = v6, v10' = v10
        PROVE  Fine
    <3>1. 1 \in 1 .. MoveAttempts /\ "move" \in Sync!SyncPc
      BY SyncSizes DEF Sync!SyncPc
    <3>2. v5' \in TRec /\ v5'.at = v5.at /\ v5'.target = v5.target /\ v5'.pc = "move"
      <4> HIDE DEF Target
      <4> QED
        BY <2>3, <2>4, <2>6, <3>1
    <3> HIDE DEF TRec, Size, Fine, Clean, Counts, Limits
    <3> QED
      BY <1>h, <1>j, <1>p, <2>1, <2>3, <2>4, <2>6, <3>2
  <2> HIDE DEF Fine
  <2> QED
    BY <2>2, <2>5, <2>6
<1>7. ASSUME Sync!RunMove PROVE Fine
  <2>1. /\ v1' = v1 /\ v3' = v3 /\ v4' = v4 /\ v7' = v7 /\ v8' = v8 /\ v9' = v9 /\ v5.pc = "move"
        /\ v2' \in Size /\ \A a \in Album : v2'[a] = v2[a] \/ v2'[a] \in 0 .. v2[a]
    BY <1>7 DEF Sync!RunMove, Sync!Moved
  <2>2. \/ Sync!SyncGoto("verify") /\ v6' = v6 /\ v10' = v10
        \/ Sync!SyncGoto("timedOut") /\ v6' = v6 /\ v10' = v10
        \/ Sync!ConcludeFailed
    BY <1>7 DEF Sync!RunMove
  <2>3. {"verify", "timedOut"} \subseteq Sync!SyncPc
    BY DEF Sync!SyncPc
  <2>4. /\ v1 \in Size /\ v2 \in Size /\ v7 \in SUBSET Name
        /\ v8 \in Limits
        /\ v9 \in 0 .. MaxSyncFaults /\ v5.target \in Target
    BY <1>a
  <2>5. \A n \in Name : v6[n] = "success" => Clean(n, v2', v5, v7)
    <3> SUFFICES ASSUME NEW n \in Name, v6[n] = "success", n \notin v7, v5.target[n] # "no album"
                 PROVE  v2'[v5.target[n]] = 0
      OBVIOUS
    <3>1. v5.target[n] \in Album /\ v2[v5.target[n]] = 0
      BY <1>j, <2>4
    <3>2. v2'[v5.target[n]] = v2[v5.target[n]] \/ v2'[v5.target[n]] \in 0 .. v2[v5.target[n]]
      BY <2>1, <3>1
    <3> QED
      BY <3>1, <3>2, SyncNought
  <2>6. ASSUME Sync!SyncGoto("verify") \/ Sync!SyncGoto("timedOut"), v6' = v6, v10' = v10 PROVE Fine
    <3>1. /\ v5' \in TRec /\ v5'.at = v5.at /\ v5'.target = v5.target
          /\ v5'.pc \in {"verify", "timedOut"}
      BY <1>f, <2>3, <2>6
    <3> HIDE DEF TRec, Size, Fine, Clean, Counts, Limits
    <3> QED
      BY <1>h, <1>p, <2>1, <2>4, <2>5, <2>6, <3>1
  <2>7. ASSUME Sync!ConcludeFailed PROVE Fine
    <3> HIDE DEF Size, Fine, Clean, Counts, Limits
    <3> QED
      BY <1>i, <1>m, <2>1, <2>4, <2>5, <2>7
  <2> QED
    BY <2>2, <2>6, <2>7
<1>8. ASSUME Sync!ResumeAfterTimeout \/ Sync!VerifyMove PROVE Fine
  <2>1. /\ v1' = v1 /\ v2' = v2 /\ v3' = v3 /\ v4' = v4 /\ v8' = v8
        /\ v5.pc \in {"timedOut", "verify"}
    BY <1>8 DEF Sync!ResumeAfterTimeout, Sync!VerifyMove
  <2>2. PICK c : /\ Sync!CountPending(c)
                 /\ \/ c \in {0, Sync!Unknown} /\ Sync!MoveSucceeds
                    \/ /\ v5.attempt < MoveAttempts /\ v6' = v6 /\ v10' = v10
                       /\ v5' = [v5 EXCEPT !.pc = "move", !.pending = c, !.attempt = @ + 1]
                    \/ Sync!ConcludeFailed
    BY <1>8 DEF Sync!ResumeAfterTimeout, Sync!VerifyMove
  <2>3. /\ c \in Nat \cup {Sync!Unknown} /\ v7' \in SUBSET Name /\ v7 \subseteq v7'
        /\ v9' \in 0 .. MaxSyncFaults /\ (c \in {0, Sync!Unknown} => Clean(v5.at, v2, v5, v7'))
    BY <1>l, <2>2
  <2>4. v1 \in Size /\ v2 \in Size /\ v8 \in Limits /\ v5 \in TRec
    BY <1>a
  <2>5. ASSUME c \in {0, Sync!Unknown}, Sync!MoveSucceeds PROVE Fine
    <3>1. "relocate" \in Sync!SyncPc
      BY DEF Sync!SyncPc
    <3>2. v5' \in TRec /\ v5'.at = v5.at /\ v5'.target = v5.target /\ v5'.pc = "relocate"
      BY <1>f, <1>n, <2>5, <3>1
    <3> HIDE DEF TRec, Size, Fine, Clean, Counts, Limits
    <3> QED
      BY <1>h, <1>j, <1>n, <2>1, <2>3, <2>4, <2>5, <3>2
  <2>6. ASSUME v5.attempt < MoveAttempts, v6' = v6, v10' = v10,
               v5' = [v5 EXCEPT !.pc = "move", !.pending = c, !.attempt = @ + 1]
        PROVE  Fine
    <3> DEFINE attempt == v5.attempt + 1
    <3>1. attempt \in 1 .. MoveAttempts /\ "move" \in Sync!SyncPc
      <4>1. v5.attempt \in 1 .. MoveAttempts
        BY <2>4
      <4>2. "move" \in Sync!SyncPc
        BY DEF Sync!SyncPc
      <4> HIDE DEF TRec
      <4> QED
        BY <2>6, <4>1, <4>2, SyncSizes
    <3>2. v5' = [v5 EXCEPT !.pc = "move", !.pending = c, !.attempt = attempt]
      BY <2>6
    <3>3. v5' \in TRec /\ v5'.at = v5.at /\ v5'.target = v5.target /\ v5'.pc = "move"
      <4> HIDE DEF attempt, Target
      <4> QED
        BY <2>3, <2>4, <3>1, <3>2
    <3> HIDE DEF TRec, Size, Fine, Clean, Counts, Limits
    <3> QED
      BY <1>h, <1>j, <1>p, <2>1, <2>3, <2>4, <2>6, <3>3
  <2>7. ASSUME Sync!ConcludeFailed PROVE Fine
    <3> HIDE DEF TRec, Size, Fine, Clean, Counts, Limits
    <3> QED
      BY <1>i, <1>j, <1>m, <2>1, <2>3, <2>4, <2>7
  <2> HIDE DEF Fine
  <2> QED
    BY <2>2, <2>5, <2>6, <2>7
<1>9. ASSUME Sync!RelocateCover PROVE Fine
  <2>1. /\ v1' = v1 /\ v2' = v2 /\ v3' = v3 /\ v4' = v4 /\ v7' = v7 /\ v8' = v8 /\ v9' = v9
        /\ v5.pc = "relocate" /\ v6' = [v6 EXCEPT ![v5.at] = "success"] /\ Sync!SyncGoto("report")
        /\ v10' = v10
    BY <1>9 DEF Sync!RelocateCover
  <2>2. v2 \in Size /\ v7 \in SUBSET Name /\ v9 \in 0 .. MaxSyncFaults /\ Clean(v5.at, v2, v5, v7)
    BY <1>a, <1>c, <2>1
  <2>3. v5.at \in v10.succeeded
    BY <1>o, <2>1
  <2> HIDE DEF Size, Fine, Clean, Counts
  <2> QED
    BY <1>i, <1>j, <1>p, <2>1, <2>2, <2>3
<1>10. ASSUME Sync!ReportAlbum PROVE Fine
  <2> DEFINE albums == [v4.albums EXCEPT ![v5.at] = v6[v5.at]]
             pc == IF v5.at + 1 \in Name THEN "update" ELSE "final"
             at == IF v5.at + 1 \in Name THEN v5.at + 1 ELSE v5.at
  <2>1. /\ v1' = v1 /\ v2' = v2 /\ v3' = v3 /\ v6' = v6 /\ v7' = v7 /\ v8' = v8 /\ v9' = v9
        /\ v5.pc = "report" /\ v10' = v10
        /\ v4' = [v4 EXCEPT !.albums[v5.at] = v6[v5.at]]
        /\ v5' = [v5 EXCEPT !.pc = pc, !.at = at]
    BY <1>10, <1>a DEF Sync!ReportAlbum
  <2>2. /\ v4 \in JRec /\ v5 \in TRec /\ v6 \in Result /\ v5.at \in Name
        /\ v6[v5.at] \in {"none", "success", "failed"}
    BY <1>a
  <2>3. v4' \in JRec /\ v4'.status = v4.status /\ v4'.albums[v5.at] = v6[v5.at]
        /\ \A n \in Name : n # v5.at => v4'.albums[n] = v4.albums[n]
    <3>1. albums \in [Name -> Sync!AlbumStatus] /\ albums[v5.at] = v6[v5.at]
          /\ \A n \in Name : n # v5.at => albums[n] = v4.albums[n]
      BY <2>2 DEF Sync!AlbumStatus
    <3>2. v4' = [v4 EXCEPT !.albums = albums]
      BY <2>1, <2>2
    <3> HIDE DEF albums
    <3> QED
      BY <2>2, <3>1, <3>2
  <2>4. pc \in Sync!SyncPc /\ at \in Name
    BY <2>2 DEF Sync!SyncPc
  <2>5. v5' \in TRec /\ v5'.pc = pc /\ v5'.at = at /\ v5'.target = v5.target
    <3> HIDE DEF pc, at, Target
    <3> QED
      BY <2>1, <2>2, <2>4
  <2>6. Typed(v1', v2', v3', v4', v5', v6', v7', v8', v9', v10')
    BY <1>a, <2>1, <2>3, <2>5
  <2>7. Named(v5')
    BY <1>b, <2>5
  <2>8. InTurn(v5', v6')
    <3>1. \A n \in Name : v6[n] # "none" <=> n < v5.at \/ n = v5.at
      BY <1>t, <2>1
    <3>3. ASSUME v5.at + 1 \in Name PROVE InTurn(v5', v6')
      <4>1. v5'.pc = "update" /\ v5'.at = v5.at + 1
        BY <2>5, <3>3
      <4>2. \A n \in Name : n < v5.at + 1 <=> n < v5.at \/ n = v5.at
        BY <1>u
      <4>3. \A n \in Name : v6'[n] # "none" <=> n < v5'.at
        BY <2>1, <3>1, <4>1, <4>2
      <4> QED
        BY <4>1, <4>3
    <3>4. ASSUME v5.at + 1 \notin Name PROVE InTurn(v5', v6')
      <4>1. \A n \in Name : n < v5.at \/ n = v5.at
        BY <1>u, <3>4, SyncNames
      <4>2. v5'.pc = "final"
        BY <2>5, <3>4
      <4> QED
        BY <2>1, <3>1, <4>1, <4>2
    <3> QED
      BY <3>3, <3>4
  <2>9. Settled(v2', v4', v5', v6', v7')
    <3>1. \A n \in Name : v6'[n] = "success" => Clean(n, v2', v5', v7')
      BY <1>c, <2>1, <2>5
    <3>2. \A n \in Name : v4'.albums[n] = "success" => v6'[n] = "success"
      BY <1>c, <2>1, <2>3
    <3>3. v5'.pc # "relocate"
      BY <2>5
    <3> HIDE DEF Clean
    <3> QED
      BY <3>1, <3>2, <3>3
  <2>10. Summed(v4', v5', v10')
    BY <1>d, <2>1, <2>3
  <2>11. Counted(v5', v6', v10')
    BY <1>o, <2>1, <2>5
  <2> HIDE DEF Typed, Named, InTurn, Settled, Counted, Summed
  <2> QED
    BY <2>6, <2>7, <2>8, <2>9, <2>10, <2>11
<1>11. ASSUME Sync!AbortSync PROVE Fine
  <2> DEFINE albums == [n \in Name |-> IF v6[n] = "none" THEN "failed" ELSE v4.albums[n]]
  <2>1. /\ v1' = v1 /\ v2' = v2 /\ v3' = v3 /\ v7' = v7 /\ v8' = v8 /\ v9' = v9 /\ v5.pc = "abort"
        /\ v6' = [n \in Name |-> IF v6[n] = "none" THEN "failed" ELSE v6[n]]
        /\ v10' = [v10 EXCEPT !.failed = v10.failed \cup {n \in Name : v6[n] = "none"}]
        /\ v4' = [v4 EXCEPT !.albums = albums] /\ Sync!SyncGoto("final")
    <3>1. \A n \in Name : n \in {m \in Name : v6[m] = "none"} <=> v6[n] = "none"
      OBVIOUS
    <3> QED
      BY <1>11, <3>1 DEF Sync!AbortSync
  <2>2. v4 \in JRec /\ v6 \in Result
    BY <1>a
  <2>3. /\ v6' \in Result
        /\ \A n \in Name : /\ v6'[n] # "none" /\ (v6'[n] = "success" <=> v6[n] = "success")
                           /\ v6'[n] = "failed" <=> v6[n] \in {"none", "failed"}
    BY <2>1, <2>2
  <2>c. /\ v10' \in Counts /\ v10'.succeeded = v10.succeeded
        /\ v10'.failed = v10.failed \cup {n \in Name : v6[n] = "none"}
    BY <1>p, <2>1
  <2>4. /\ v4' \in JRec /\ v4'.status = v4.status
        /\ \A n \in Name : v4'.albums[n] = "success" => v4.albums[n] = "success"
    <3>1. /\ albums \in [Name -> Sync!AlbumStatus]
          /\ \A n \in Name : albums[n] = "success" => v4.albums[n] = "success"
      BY <2>2 DEF Sync!AlbumStatus
    <3> HIDE DEF albums
    <3> QED
      BY <2>1, <2>2, <3>1
  <2>5. "final" \in Sync!SyncPc
    BY DEF Sync!SyncPc
  <2>6. v5' \in TRec /\ v5'.pc = "final" /\ v5'.at = v5.at /\ v5'.target = v5.target
    BY <1>f, <2>1, <2>5
  <2>7. Typed(v1', v2', v3', v4', v5', v6', v7', v8', v9', v10')
    BY <1>a, <2>1, <2>3, <2>4, <2>6, <2>c
  <2>8. Named(v5') /\ InTurn(v5', v6')
    BY <1>b, <2>3, <2>6
  <2>9. Settled(v2', v4', v5', v6', v7')
    <3>1. \A n \in Name : v6'[n] = "success" => v6[n] = "success"
      BY <2>3
    <3>2. \A n \in Name : v4'.albums[n] = "success" => v6'[n] = "success"
      BY <1>c, <2>3, <2>4
    <3>3. \A n \in Name : Clean(n, v2', v5', v7') <=> Clean(n, v2, v5, v7)
      BY <2>1, <2>6
    <3> HIDE DEF Clean
    <3> QED
      BY <1>j, <2>6, <3>1, <3>2, <3>3
  <2>10. Summed(v4', v5', v10')
    BY <1>d, <2>1, <2>4
  <2>11. Counted(v5', v6', v10')
    BY <1>o, <2>2, <2>3, <2>6, <2>c
  <2> HIDE DEF Typed, Named, InTurn, Settled, Counted, Summed
  <2> QED
    BY <2>7, <2>8, <2>9, <2>10, <2>11
<1>12. ASSUME Sync!FinishSync PROVE Fine
  <2> DEFINE albums == [n \in Name |-> IF v6[n] = "none" THEN "pending" ELSE v6[n]]
  <2>1. /\ v1' = v1 /\ v2' = v2 /\ v3' = v3 /\ v6' = v6 /\ v7' = v7 /\ v8' = v8 /\ v9' = v9
        /\ v5.pc = "final" /\ v10' = v10
        /\ v4' = [status |-> Sync!Overall, albums |-> albums] /\ Sync!SyncGoto("done")
    BY <1>12 DEF Sync!FinishSync
  <2>2. \A n \in Name : v6[n] \in {"success", "failed"} /\ albums[n] = v6[n]
    BY <1>a, <1>b, <2>1
  <2>3. albums \in [Name -> Sync!AlbumStatus]
    BY <2>2 DEF Sync!AlbumStatus
  <2> DEFINE status == Sync!Overall
  <2>4. /\ v10.succeeded \subseteq Name /\ v10.failed \subseteq Name
        /\ \A n \in Name : v6[n] = "failed" <=> n \in v10.failed
        /\ \A n \in Name : v6[n] = "success" => n \in v10.succeeded
    BY <1>o, <1>p
  <2>5. /\ status \in Final
        /\ \/ status = Sync!SumOf(albums)
           \/ Twice(v10) /\ status = "partial" /\ Sync!SumOf(albums) = "failed"
        /\ ~ Twice(v10) => (status \in {"completed", "partial"} <=> \E n \in Name : albums[n] = "success")
    <3>0. 1 \in Name
      BY SyncNames
    <3>1. CASE v10.failed = {}
      <4>1. \A n \in Name : albums[n] = "success"
        BY <2>2, <2>4, <3>1
      <4>2. Sync!SumOf(albums) = "completed" /\ status = "completed"
        BY <3>1, <4>1 DEF Sync!SumOf, Sync!Overall
      <4> HIDE DEF albums, status
      <4> QED
        BY <3>0, <4>1, <4>2
    <3>2. CASE v10.failed # {} /\ v10.succeeded = {}
      <4>1. \A n \in Name : albums[n] = "failed"
        BY <2>2, <2>4, <3>2
      <4> HIDE DEF albums
      <4>2. Sync!SumOf(albums) = "failed" /\ status = "failed"
        BY <3>0, <3>2, <4>1 DEF Sync!SumOf, Sync!Overall
      <4> HIDE DEF status
      <4> QED
        BY <4>1, <4>2
    <3>3. CASE v10.failed # {} /\ v10.succeeded # {}
      <4>1. status = "partial"
        BY <3>3 DEF Sync!Overall
      <4>2. \E n \in Name : albums[n] = "failed"
        BY <2>2, <2>4, <3>3
      <4>3. ASSUME ~ Twice(v10) PROVE \E n \in Name : albums[n] = "success"
        BY <2>2, <2>4, <3>3, <4>3
      <4> HIDE DEF albums, status
      <4>4. CASE \E n \in Name : albums[n] = "success"
        <5>1. Sync!SumOf(albums) = "partial"
          BY <4>2, <4>4 DEF Sync!SumOf
        <5> QED
          BY <4>1, <4>4, <5>1
      <4>5. CASE ~ \E n \in Name : albums[n] = "success"
        <5>1. \A n \in Name : albums[n] = "failed"
          BY <2>2, <4>5
        <5>2. Sync!SumOf(albums) = "failed" /\ Twice(v10)
          BY <3>0, <4>3, <5>1 DEF Sync!SumOf
        <5> HIDE DEF Twice
        <5> QED
          BY <4>1, <5>2
      <4> QED
        BY <4>4, <4>5
    <3> HIDE DEF albums, status
    <3> QED
      BY <3>1, <3>2, <3>3
  <2>s. status \in Final /\ v4' = [status |-> status, albums |-> albums]
    BY <2>1, <2>5
  <2> HIDE DEF albums, status
  <2>6. v4' \in JRec /\ v4'.status = status /\ v4'.albums = albums
    BY <2>s, <2>3
  <2>7. "done" \in Sync!SyncPc
    BY DEF Sync!SyncPc
  <2>8. v5' \in TRec /\ v5'.pc = "done" /\ v5'.at = v5.at /\ v5'.target = v5.target
    BY <1>f, <2>1, <2>7
  <2>9. Typed(v1', v2', v3', v4', v5', v6', v7', v8', v9', v10')
    BY <1>a, <2>1, <2>6, <2>8
  <2>10. Named(v5') /\ InTurn(v5', v6')
    BY <1>b, <2>8
  <2>11. Settled(v2', v4', v5', v6', v7')
    <3>1. \A n \in Name : v6'[n] = "success" => v6[n] = "success"
      BY <2>1
    <3>2. \A n \in Name : v4'.albums[n] = "success" => v6'[n] = "success"
      BY <2>1, <2>2, <2>6
    <3>3. \A n \in Name : Clean(n, v2', v5', v7') <=> Clean(n, v2, v5, v7)
      BY <2>1, <2>8
    <3> HIDE DEF Clean
    <3> QED
      BY <1>j, <2>8, <3>1, <3>2, <3>3
  <2>12. Summed(v4', v5', v10')
    BY <2>1, <2>2, <2>5, <2>6, <2>8
  <2>13. Counted(v5', v6', v10')
    BY <1>o, <2>1, <2>8
  <2> HIDE DEF Typed, Named, InTurn, Settled, Counted, Summed
  <2> QED
    BY <2>9, <2>10, <2>11, <2>12, <2>13
<1>13. ASSUME Sync!SoftTimeLimit \/ Sync!HardTimeLimit PROVE Fine
  <2>1. /\ v1' = v1 /\ v2' = v2 /\ v3' = v3 /\ v4' = v4 /\ v6' = v6 /\ v7' = v7 /\ v9' = v9
        /\ v10' = v10 /\ v5.pc # "done" /\ v8' \in Limits
        /\ \/ v5' = v5 /\ v5.pc \in {"cover", "relocate"}
           \/ Sync!SyncGoto("abort")
           \/ Sync!SyncGoto("dead")
    BY <1>13, <1>a DEF Sync!SoftTimeLimit, Sync!HardTimeLimit
  <2>2. {"abort", "dead"} \subseteq Sync!SyncPc
    BY DEF Sync!SyncPc
  <2>3. /\ v1 \in Size /\ v2 \in Size /\ v7 \in SUBSET Name /\ v9 \in 0 .. MaxSyncFaults
        /\ v5 \in TRec
        /\ (v5.pc = "relocate" => Clean(v5.at, v2, v5, v7) /\ v5.at \in v10.succeeded)
    BY <1>a, <1>c, <1>o
  <2>4. ASSUME v5' = v5, v5.pc \in {"cover", "relocate"} PROVE Fine
    <3> HIDE DEF TRec, Size, Fine, Clean, Counts, Limits
    <3> QED
      BY <1>h, <1>j, <1>p, <2>1, <2>3, <2>4
  <2>5. ASSUME Sync!SyncGoto("abort") \/ Sync!SyncGoto("dead") PROVE Fine
    <3>1. v5' \in TRec /\ v5'.at = v5.at /\ v5'.target = v5.target /\ v5'.pc \in {"abort", "dead"}
      BY <1>f, <2>2, <2>5
    <3> HIDE DEF TRec, Size, Fine, Clean, Counts, Limits
    <3> QED
      BY <1>h, <1>j, <1>p, <2>1, <2>3, <3>1
  <2> HIDE DEF Fine
  <2> QED
    BY <2>1, <2>4, <2>5
<1> HIDE DEF Fine
<1> QED
  BY <1>e, <1>1, <1>2, <1>3, <1>4, <1>5, <1>6, <1>7, <1>8, <1>9, <1>10, <1>11, <1>12, <1>13
     DEF Sync!Next

(***************************************************************************)
(* Batch tag updates of import items (batch-update stream)                 *)
(***************************************************************************)

\* Before any request rows and files carry the same tag.
LEMMA BatchInit == Tagging!Init => Tagging!BatchInv
  BY CountAssumption DEF CountAssumption, Tagging!Init, Tagging!BatchInv, Tagging!TypeOK,
     Tagging!DivergenceExplained, Tagging!NoBatch, Tagging!BatchPc, Tagging!Pending

\* Every step of a stream keeps the invariant.
LEMMA BatchStep == Tagging!BatchInv /\ Tagging!Next => Tagging!BatchInv'
<1> SUFFICES ASSUME Tagging!BatchInv, Tagging!Next PROVE Tagging!BatchInv'
  OBVIOUS
<1> DEFINE Rec == [pc : Tagging!BatchPc, sse : BOOLEAN, value : Value \cup {OldValue},
                   changes : SUBSET Item, todo : SUBSET Item, yielded : BOOLEAN]
           Values == [Item -> Value \cup {OldValue}]
           Open(b, i) == v4[b].pc \in {"write", "failed", "cut"} /\ i \in v4[b].changes \cap v4[b].todo
           Explained(i) == i \in v5 \cup v6 \/ \E b \in Batch : Open(b, i)
<1>a. /\ v1 \in Values /\ v2 \in Values /\ v3 \subseteq Item /\ v4 \in [Batch -> Rec]
      /\ v5 \subseteq Item /\ v6 \subseteq Item /\ v7 \in 0 .. MaxWriteFaults
  BY DEF Tagging!BatchInv, Tagging!TypeOK
<1>b. \A b \in Batch : v4[b].pc = "commit" => v4[b].changes \subseteq v4[b].todo
  BY DEF Tagging!BatchInv
<1>c. \A b \in Batch, i \in Item : v4[b].pc = "write" /\ i \in v4[b].changes \cap v4[b].todo
                                     => v1[i] = v4[b].value \/ i \in v6
  BY DEF Tagging!BatchInv, Tagging!Pending
<1>d. \A i \in Item \ v3 : v1[i] # v2[i] => Explained(i)
  BY DEF Tagging!BatchInv, Tagging!DivergenceExplained
<1>e. Tagging!WriteFault => v7' \in 0 .. MaxWriteFaults
  BY <1>a, CountAssumption DEF CountAssumption, Tagging!WriteFault
<1> DEFINE Typed == /\ v1' \in Values /\ v2' \in Values /\ v3' \subseteq Item /\ v4' \in [Batch -> Rec]
                    /\ v5' \subseteq Item /\ v6' \subseteq Item /\ v7' \in 0 .. MaxWriteFaults
           Fine == /\ Typed
                   /\ \A c \in Batch : v4'[c].pc = "commit" => v4'[c].changes \subseteq v4'[c].todo
                   /\ \A c \in Batch, i \in Item :
                        v4'[c].pc = "write" /\ i \in v4'[c].changes \cap v4'[c].todo
                          => v1'[i] = v4'[c].value \/ i \in v6'
                   /\ \A i \in Item \ v3' : v1'[i] # v2'[i] =>
                        \/ i \in v5' \cup v6'
                        \/ \E c \in Batch : /\ v4'[c].pc \in {"write", "failed", "cut"}
                                            /\ i \in v4'[c].changes \cap v4'[c].todo
<1>f. Fine => Tagging!BatchInv'
  BY DEF Tagging!BatchInv, Tagging!TypeOK, Tagging!DivergenceExplained, Tagging!Pending
\* The request at work gets the record r, the others keep theirs.
<1>g. ASSUME NEW b \in Batch, NEW r \in Rec, v4' = [v4 EXCEPT ![b] = r]
      PROVE  v4' \in [Batch -> Rec] /\ v4'[b] = r /\ \A c \in Batch \ {b} : v4'[c] = v4[c]
  BY ONLY <1>a, <1>g
<1>1. ASSUME NEW b \in Batch, Tagging!Plan(b) PROVE Fine
  <2>1. PICK v \in Value, items \in (SUBSET Item) \ {{}}, sse \in BOOLEAN :
          v4' = [v4 EXCEPT ![b] =
            [pc |-> "commit", sse |-> sse, value |-> v, todo |-> items,
             changes |-> {i \in items \ v3 : v1[i] # v}, yielded |-> sse]]
    BY <1>1 DEF Tagging!Plan
  <2> DEFINE r == [pc |-> "commit", sse |-> sse, value |-> v, todo |-> items,
                   changes |-> {i \in items \ v3 : v1[i] # v}, yielded |-> sse]
  <2>2. r \in Rec /\ r.pc = "commit" /\ r.changes \subseteq r.todo
    BY DEF Tagging!BatchPc
  <2>3. v4' \in [Batch -> Rec] /\ v4'[b] = r /\ \A c \in Batch \ {b} : v4'[c] = v4[c]
    BY <1>g, <2>1, <2>2
  <2>4. v4[b].pc = "idle" /\ v1' = v1 /\ v2' = v2 /\ v3' = v3 /\ v5' = v5 /\ v6' = v6 /\ v7' = v7
    BY <1>1 DEF Tagging!Plan
  <2> HIDE DEF r
  <2> QED
    BY SMTT(20), <1>a, <1>b, <1>c, <1>d, <2>2, <2>3, <2>4
<1>2. ASSUME NEW b \in Batch, Tagging!CommitRows(b) PROVE Fine
  <2>1. CASE v4[b].changes \cap v3 = {}
    <3> DEFINE r == [v4[b] EXCEPT !.pc = "write", !.yielded = FALSE]
    <3>1. r \in Rec /\ r.pc = "write" /\ r.changes = v4[b].changes /\ r.todo = v4[b].todo
          /\ r.value = v4[b].value
      BY <1>a DEF Tagging!BatchPc
    <3>2. v4' = [v4 EXCEPT ![b] = r]
      BY <1>2, <2>1, <1>a DEF Tagging!CommitRows
    <3>3. v4' \in [Batch -> Rec] /\ v4'[b] = r /\ \A c \in Batch \ {b} : v4'[c] = v4[c]
      BY <1>g, <3>1, <3>2
    <3>4. /\ v1' = [i \in Item |-> IF i \in v4[b].changes THEN v4[b].value ELSE v1[i]]
          /\ v6' = v6 \cup {i \in v4[b].changes : \E c \in Batch \ {b} : Tagging!Pending(c, i)}
          /\ v2' = v2 /\ v3' = v3 /\ v5' = v5 /\ v7' = v7 /\ v4[b].pc = "commit"
      BY <1>2, <2>1 DEF Tagging!CommitRows
    <3>5. v4[b].changes \subseteq Item /\ v4[b].value \in Value \cup {OldValue}
      BY <1>a
    <3>6. Typed
      BY <1>a, <3>3, <3>4, <3>5
    <3>7. \A c \in Batch, i \in Item : v4'[c].pc = "write" /\ i \in v4'[c].changes \cap v4'[c].todo
                                         => v1'[i] = v4'[c].value \/ i \in v6'
      <4> SUFFICES ASSUME NEW c \in Batch, NEW i \in Item, v4'[c].pc = "write",
                          i \in v4'[c].changes \cap v4'[c].todo
                   PROVE  v1'[i] = v4'[c].value \/ i \in v6'
        OBVIOUS
      <4>1. CASE c = b
        BY <3>1, <3>3, <3>4, <4>1
      <4>2. CASE c # b
        BY <1>c, <3>3, <3>4, <4>2 DEF Tagging!Pending
      <4> QED
        BY <4>1, <4>2
    <3> HIDE DEF r
    <3>8. \A i \in Item \ v3' : v1'[i] # v2'[i] =>
            \/ i \in v5' \cup v6'
            \/ \E c \in Batch : /\ v4'[c].pc \in {"write", "failed", "cut"}
                                /\ i \in v4'[c].changes \cap v4'[c].todo
      <4> SUFFICES ASSUME NEW i \in Item \ v3', v1'[i] # v2'[i], i \notin v5' \cup v6'
                   PROVE  \E c \in Batch : /\ v4'[c].pc \in {"write", "failed", "cut"}
                                           /\ i \in v4'[c].changes \cap v4'[c].todo
        OBVIOUS
      <4>1. CASE i \in v4[b].changes
        BY <1>b, <3>1, <3>3, <3>4, <4>1
      <4>2. CASE i \notin v4[b].changes
        <5>1. v1[i] # v2[i] /\ i \in Item \ v3
          BY <3>4, <4>2
        <5>2. PICK c \in Batch : Open(c, i)
          BY <1>d, <3>4, <5>1
        <5>3. c # b
          BY <3>4, <5>2
        <5> QED
          BY <3>3, <5>2, <5>3
      <4> QED
        BY <4>1, <4>2
    <3>9. \A c \in Batch : v4'[c].pc = "commit" => v4'[c].changes \subseteq v4'[c].todo
      BY <1>b, <3>1, <3>3
    <3> QED
      BY <3>6, <3>7, <3>8, <3>9
  <2>2. CASE v4[b].changes \cap v3 # {}
    <3> DEFINE r == [v4[b] EXCEPT !.pc = "refused", !.yielded = TRUE]
    <3>1. r \in Rec /\ r.pc = "refused"
      BY <1>a DEF Tagging!BatchPc
    <3>2. v4' = [v4 EXCEPT ![b] = r] /\ v4[b].pc = "commit"
      BY <1>2, <2>2, <1>a DEF Tagging!CommitRows
    <3>3. v4' \in [Batch -> Rec] /\ v4'[b] = r /\ \A c \in Batch \ {b} : v4'[c] = v4[c]
      BY <1>g, <3>1, <3>2
    <3>4. v1' = v1 /\ v2' = v2 /\ v3' = v3 /\ v5' = v5 /\ v6' = v6 /\ v7' = v7
      BY <1>2, <2>2 DEF Tagging!CommitRows
    <3> HIDE DEF r
    <3> QED
      BY <1>a, <1>b, <1>c, <1>d, <3>1, <3>2, <3>3, <3>4
  <2> QED
    BY <2>1, <2>2
\* An item is done with: the file of i and the histories may change, nothing else.
<1>h. ASSUME NEW b \in Batch, NEW i \in v4[b].todo, Tagging!Processed(b, i), v4[b].pc = "write",
             v1' = v1, v2' \in Values, v3' = v3, v5 \subseteq v5', v5' \subseteq v5 \cup {i}, v6' = v6,
             v7' \in 0 .. MaxWriteFaults, \A j \in Item \ {i} : v2'[j] = v2[j],
             i \in v4[b].changes => v2'[i] = v4[b].value \/ i \in v5',
             i \notin v4[b].changes => v2'[i] = v2[i]
      PROVE  Fine
  <2> DEFINE rest == v4[b].todo \ {i}
             r == [v4[b] EXCEPT !.todo = rest, !.pc = IF rest = {} THEN "done" ELSE "write",
                                !.yielded = v4[b].sse \/ rest = {}]
  <2>1. /\ r \in Rec /\ r.todo = rest /\ r.changes = v4[b].changes /\ r.value = v4[b].value
        /\ r.pc = IF rest = {} THEN "done" ELSE "write"
    <3>1. v4[b] \in Rec /\ rest \subseteq Item /\ v4[b].sse \in BOOLEAN
      BY <1>a
    <3> QED
      BY <3>1 DEF Tagging!BatchPc
  <2>2. v4' = [v4 EXCEPT ![b] = r]
    BY <1>h, <1>a DEF Tagging!Processed
  <2>3. v4' \in [Batch -> Rec] /\ v4'[b] = r /\ \A c \in Batch \ {b} : v4'[c] = v4[c]
    BY <1>g, <2>1, <2>2
  <2> HIDE DEF r
  <2>4. i \in Item
    BY <1>a
  <2>5. Typed
    BY <1>a, <1>h, <2>3, <2>4
  <2>6. \A c \in Batch : v4'[c].pc = "commit" => v4'[c].changes \subseteq v4'[c].todo
    BY <1>b, <2>1, <2>3
  <2>7. \A c \in Batch, j \in Item : v4'[c].pc = "write" /\ j \in v4'[c].changes \cap v4'[c].todo
                                       => v1'[j] = v4'[c].value \/ j \in v6'
    BY <1>c, <1>h, <2>1, <2>3
  <2>8. \A j \in Item \ v3' : v1'[j] # v2'[j] =>
          \/ j \in v5' \cup v6'
          \/ \E c \in Batch : /\ v4'[c].pc \in {"write", "failed", "cut"}
                              /\ j \in v4'[c].changes \cap v4'[c].todo
    <3> SUFFICES ASSUME NEW j \in Item \ v3', v1'[j] # v2'[j], j \notin v5' \cup v6'
                 PROVE  \E c \in Batch : /\ v4'[c].pc \in {"write", "failed", "cut"}
                                         /\ j \in v4'[c].changes \cap v4'[c].todo
      OBVIOUS
    <3>1. CASE j = i /\ i \in v4[b].changes
      BY <1>c, <1>h, <2>4, <3>1
    <3>2. CASE j # i \/ i \notin v4[b].changes
      <4>1. v1[j] # v2[j] /\ j \in Item \ v3 /\ j \notin v5 \cup v6
        BY <1>h, <3>2
      <4>2. PICK c \in Batch : Open(c, j)
        BY <1>d, <4>1
      <4>3. CASE c = b
        <5>1. j \in rest
          BY <3>2, <4>2, <4>3
        <5> QED
          BY <2>1, <2>3, <4>2, <4>3, <5>1
      <4>4. CASE c # b
        BY <2>3, <4>2, <4>4
      <4> QED
        BY <4>3, <4>4
    <3> QED
      BY <3>1, <3>2
  <2> QED
    BY <2>5, <2>6, <2>7, <2>8
<1>3. ASSUME NEW b \in Batch, NEW i \in Item, Tagging!PassItem(b, i) PROVE Fine
  <2>1. /\ i \in v4[b].todo \ v4[b].changes /\ Tagging!Processed(b, i) /\ v4[b].pc = "write"
        /\ v1' = v1 /\ v2' = v2 /\ v3' = v3 /\ v6' = v6 /\ v7' = v7
        /\ v5 \subseteq v5' /\ v5' \subseteq v5 \cup {i}
    BY <1>3 DEF Tagging!PassItem
  <2> QED
    BY <1>a, <1>h, <2>1
<1>4. ASSUME NEW b \in Batch, NEW i \in Item, Tagging!WriteItem(b, i) PROVE Fine
  <2>1. /\ i \in v4[b].todo /\ i \in v4[b].changes /\ Tagging!Processed(b, i) /\ v4[b].pc = "write"
        /\ v2' = [v2 EXCEPT ![i] = v4[b].value]
        /\ v1' = v1 /\ v3' = v3 /\ v5' = v5 /\ v6' = v6 /\ v7' = v7
    BY <1>4 DEF Tagging!WriteItem, Tagging!Pending
  <2>2. v2' \in Values /\ v2'[i] = v4[b].value /\ \A j \in Item \ {i} : v2'[j] = v2[j]
    BY <1>a, <2>1
  <2> QED
    BY <1>a, <1>h, <2>1, <2>2
<1>5. ASSUME NEW b \in Batch, NEW i \in Item, Tagging!WriteItemFails(b, i) PROVE Fine
  <2>1. /\ i \in v4[b].todo /\ i \in v4[b].changes /\ Tagging!Processed(b, i) /\ v4[b].pc = "write"
        /\ v2' = v2 /\ v1' = v1 /\ v3' = v3 /\ v5' = v5 \cup {i} /\ v6' = v6 /\ Tagging!WriteFault
    BY <1>5 DEF Tagging!WriteItemFails, Tagging!Pending
  <2> QED
    BY <1>a, <1>e, <1>h, <2>1
<1>i. ASSUME NEW b \in Batch, NEW r \in Rec, v4' = [v4 EXCEPT ![b] = r],
             r.pc \in {"failed", "cut"}, r.changes = v4[b].changes, r.todo = v4[b].todo,
             v1' = v1, v2' = v2, v3' = v3, v5' = v5, v6' = v6, v7' \in 0 .. MaxWriteFaults
      PROVE  Fine
  <2>1. v4' \in [Batch -> Rec] /\ v4'[b] = r /\ \A c \in Batch \ {b} : v4'[c] = v4[c]
    BY <1>g, <1>i
  <2> QED
    BY <1>a, <1>b, <1>c, <1>d, <1>i, <2>1
<1>6. ASSUME NEW b \in Batch, NEW i \in Item, Tagging!RowGone(b, i) PROVE Fine
  <2> DEFINE r == [v4[b] EXCEPT !.pc = "failed", !.yielded = TRUE]
  <2>1. r \in Rec /\ r.pc = "failed" /\ r.changes = v4[b].changes /\ r.todo = v4[b].todo
    BY <1>a DEF Tagging!BatchPc
  <2>2. v4' = [v4 EXCEPT ![b] = r]
    BY <1>6, <1>a DEF Tagging!RowGone
  <2>3. v1' = v1 /\ v2' = v2 /\ v3' = v3 /\ v5' = v5 /\ v6' = v6 /\ v7' = v7
    BY <1>6 DEF Tagging!RowGone
  <2> HIDE DEF r
  <2> QED
    BY <1>a, <1>i, <2>1, <2>2, <2>3
<1>7. ASSUME NEW b \in Batch, Tagging!Cut(b) PROVE Fine
  <2> DEFINE r == [v4[b] EXCEPT !.pc = "cut"]
  <2>1. r \in Rec /\ r.pc = "cut" /\ r.changes = v4[b].changes /\ r.todo = v4[b].todo
    BY <1>a DEF Tagging!BatchPc
  <2>2. v4' = [v4 EXCEPT ![b] = r]
    BY <1>7, <1>a DEF Tagging!Cut
  <2>3. v1' = v1 /\ v2' = v2 /\ v3' = v3 /\ v5' = v5 /\ v6' = v6 /\ Tagging!WriteFault
    BY <1>7 DEF Tagging!Cut
  <2> HIDE DEF r
  <2> QED
    BY <1>e, <1>i, <2>1, <2>2, <2>3
<1>8. ASSUME NEW i \in Item, Tagging!ForgetItem(i) PROVE Fine
  BY <1>8, <1>a, <1>b, <1>c, <1>d, <1>e DEF Tagging!ForgetItem
<1> HIDE DEF Fine
<1> QED
  BY <1>f, <1>1, <1>2, <1>3, <1>4, <1>5, <1>6, <1>7, <1>8 DEF Tagging!Next

(***************************************************************************)
(* User settings                                                           *)
(***************************************************************************)

\* The table is empty, and every setting reads as its default.
LEMMA SettingsInit == Setting!Init => Setting!SettingsInv
<1> SUFFICES ASSUME Setting!Init PROVE Setting!SettingsInv
  OBVIOUS
<1> DEFINE NoBlock == [l \in Library |-> "unset"]
           Document == [theme : {"system", "dark", "none", "unset"},
                        auto : [Library -> {"on", "off", "unset"}],
                        cleanup : [Library -> {"unset", "keep"}]]
           r == [pc |-> "idle", sets |-> "theme", of |-> "none", to |-> "unset", row |-> "none",
                 read |-> Setting!NoRow]
<1>1. /\ Setting!Default \in Document /\ Setting!NoRow \in Document
      /\ Setting!NoRow.theme = "none" /\ Setting!Default.theme = "system"
  BY DEF Setting!Default, Setting!NoRow, Setting!NoBlock, Setting!Unset
<1>2. /\ v1 = [x \in SettingsRow |-> Setting!NoRow] /\ v2 = [c \in Request |-> r]
      /\ v3 = Setting!Default /\ v4 = FALSE /\ v5 = 0 /\ v6 = Setting!NoLoss
  BY DEF Setting!Init, Setting!Idle, Setting!Unset
<1>3. r \in [pc : {"idle", "write"}, sets : {"theme", "auto", "cleanup"}, of : Library \cup {"none"},
             to : {"system", "dark", "on", "off", "unset", "keep"}, row : SettingsRow \cup {"none"},
             read : Document]
  <2> HIDE DEF Document
  <2> QED
    BY <1>1
<1>4. r.pc = "idle"
  OBVIOUS
<1> HIDE DEF r, Document
<1>5. /\ v1 \in [SettingsRow -> Document] /\ v3 \in Document /\ v4 \in BOOLEAN
      /\ v5 \in 0 .. MaxChanges
      /\ v2 \in [Request -> [pc : {"idle", "write"}, sets : {"theme", "auto", "cleanup"}, of : Library \cup {"none"},
                             to : {"system", "dark", "on", "off", "unset", "keep"}, row : SettingsRow \cup {"none"},
                             read : Document]]
  <2> DEFINE Rec == [pc : {"idle", "write"}, sets : {"theme", "auto", "cleanup"}, of : Library \cup {"none"},
                     to : {"system", "dark", "on", "off", "unset", "keep"}, row : SettingsRow \cup {"none"},
                     read : Document]
  <2>1. r \in Rec
    BY <1>3
  <2> HIDE DEF Rec
  <2>2. v2 \in [Request -> Rec]
    BY <1>2, <2>1
  <2>3. v5 \in 0 .. MaxChanges
    BY <1>2, CountAssumption DEF CountAssumption
  <2> QED
    BY <1>1, <1>2, <2>2, <2>3 DEF Rec
<1>6. ({"system", "dark"} \cup {"on", "off"}) \cup {"unset", "keep"} = {"system", "dark", "on", "off", "unset", "keep"}
      /\ {"system", "dark"} \cup {"none", "unset"} = {"system", "dark", "none", "unset"}
      /\ {"on", "off"} \cup {"unset"} = {"on", "off", "unset"}
  OBVIOUS
<1>7. Setting!TypeOK
  BY <1>2, <1>5, <1>6 DEF Setting!TypeOK, Document, Setting!Theme, Setting!Toggle, Setting!Override,
     Setting!Unset, Setting!NoLoss
<1>8. Setting!Present = {} /\ \A c \in Request : v2[c].pc = "idle"
  BY <1>2, <1>4 DEF Setting!Present
<1>9. Setting!RequestsValid /\ Setting!RowsStay /\ Setting!ReadStands /\ Setting!AnsweredInRow
  BY <1>2, <1>8 DEF Setting!RequestsValid, Setting!RowsStay, Setting!ReadStands,
     Setting!AnsweredInRow
<1>10. Setting!SettingsKept
  BY <1>2, <1>8 DEF Setting!SettingsKept, Setting!OneRow, Setting!NoLoss
<1> QED
  BY <1>7, <1>9, <1>10 DEF Setting!SettingsInv

\* Every step of a request keeps the invariant: what it read stands while it is alone,
\* and what its commit costs is what lost records.
LEMMA SettingsStep == Setting!SettingsInv /\ Setting!Next => Setting!SettingsInv'
<1> SUFFICES ASSUME Setting!SettingsInv, Setting!Next PROVE Setting!SettingsInv'
  OBVIOUS
<1> DEFINE NoBlock == [l \in Library |-> "unset"]
           Theme == {"system", "dark"}
           Text == {"system", "dark", "none", "unset"}
           AutoBlock == [Library -> {"on", "off", "unset"}]
           Cleanup == [Library -> {"unset", "keep"}]
           Document == [theme : Text, auto : AutoBlock, cleanup : Cleanup]
           Rec == [pc : {"idle", "write"}, sets : {"theme", "auto", "cleanup"}, of : Library \cup {"none"},
                   to : {"system", "dark", "on", "off", "unset", "keep"}, row : SettingsRow \cup {"none"},
                   read : Document]
           Loss == [theme : BOOLEAN, auto : SUBSET Library, cleanup : SUBSET Library]
           None == [theme |-> FALSE, auto |-> {}, cleanup |-> {}]
           Default == [theme |-> "system", auto |-> NoBlock, cleanup |-> NoBlock]
           Blank == [theme |-> "none", auto |-> NoBlock, cleanup |-> NoBlock]
           Empty == [theme |-> "unset", auto |-> NoBlock, cleanup |-> NoBlock]
           Present == {x \in SettingsRow : v1[x] # Blank}
           Writes(c) == v2[c].pc = "write"
           Valid(a) == /\ a.sets = "theme" => a.to \in Theme
                       /\ a.sets = "auto" => a.of \in Library /\ a.to \in {"on", "off"}
                       /\ a.sets = "cleanup" => a.of \in Library /\ a.to \in {"unset", "keep"}
           Merged(doc, a) == Setting!Merged(doc, a.sets, a.of, a.to)
           Shown(doc) == IF doc.theme = "unset" THEN "system" ELSE doc.theme
           \* The document reads as was answered, but for what is lost.
           Reads(doc, said, gone) ==
             /\ ~ gone.theme => Shown(doc) = said.theme
             /\ \A l \in Library : l \notin gone.auto => doc.auto[l] = said.auto[l]
             /\ \A l \in Library : l \notin gone.cleanup => doc.cleanup[l] = said.cleanup[l]
<1>0. /\ Setting!NoRow = Blank /\ Setting!Default = Default /\ Setting!Empty = Empty
      /\ Setting!NoBlock = NoBlock /\ Setting!Present = Present /\ Setting!NoLoss = None
      /\ Blank \in Document /\ Default \in Document /\ Empty \in Document
  BY DEF Setting!NoRow, Setting!Default, Setting!Empty, Setting!NoBlock, Setting!Present,
     Setting!Unset, Setting!NoLoss
<1>6. /\ ({"system", "dark"} \cup {"on", "off"}) \cup {"unset", "keep"} =
           {"system", "dark", "on", "off", "unset", "keep"}
      /\ {"system", "dark"} \cup {"none", "unset"} = Text
      /\ {"on", "off"} \cup {"unset"} = {"on", "off", "unset"}
  OBVIOUS
<1>a. v1 \in [SettingsRow -> Document] /\ v2 \in [Request -> Rec] /\ v3 \in Document /\ v4 \in BOOLEAN
      /\ v5 \in 0 .. MaxChanges /\ v6 \in Loss
  BY <1>6 DEF Setting!SettingsInv, Setting!TypeOK, Setting!Theme, Setting!Toggle, Setting!Override,
     Setting!Unset
<1>b. \A c \in Request : Writes(c) => Valid(v2[c])
  BY <1>a DEF Setting!SettingsInv, Setting!RequestsValid, Setting!Theme, Setting!Toggle,
     Setting!Override, Setting!Unset
<1>c. /\ \A c \in Request : Writes(c) => v2[c].row \in Present \cup {"none"}
      /\ \A c \in Request : Writes(c) /\ v2[c].row = "none" => v2[c].sets # "theme"
      /\ ~ v4 => /\ \A c, d \in Request : Writes(c) /\ Writes(d) => c = d
                 /\ \A c \in Request : Writes(c) =>
                      IF v2[c].row = "none" THEN Present = {} ELSE v2[c].read = v1[v2[c].row]
  BY <1>0 DEF Setting!SettingsInv, Setting!ReadStands, Setting!RowsStay
<1>d. /\ \A x \in Present : v1[x].theme # "none"
      /\ \A c \in Request : Writes(c) /\ v2[c].row # "none" => v2[c].read.theme # "none"
      /\ Present = {} => v3 = Default /\ v6 = None
  BY <1>0 DEF Setting!SettingsInv, Setting!AnsweredInRow
<1>e. /\ (\A x, y \in Present : x = y) => \A x \in Present : Reads(v1[x], v3, v6)
      /\ ~ v4 => /\ \A x, y \in Present : x = y
                 /\ ~ v6.theme /\ v6.cleanup = {}
                 /\ v6.auto # {} => \E x \in Present : v1[x].auto # NoBlock
  <2>1. Setting!OneRow <=> \A x, y \in Present : x = y
    BY <1>0 DEF Setting!OneRow
  <2>2. Setting!SettingsKept
    BY DEF Setting!SettingsInv
  <2> HIDE DEF Present
  <2> QED
    BY <2>1, <2>2, <1>0 DEF Setting!SettingsKept, Setting!ThemeRead, Setting!Unset
<1> DEFINE After == {x \in SettingsRow : v1'[x] # Blank}
           Wrote(c) == v2'[c].pc = "write"
           Typed == /\ v1' \in [SettingsRow -> Document] /\ v2' \in [Request -> Rec] /\ v3' \in Document
                    /\ v4' \in BOOLEAN /\ v5' \in 0 .. MaxChanges /\ v6' \in Loss
           Valids == \A c \in Request : Wrote(c) => Valid(v2'[c])
           Stands == /\ \A c \in Request : Wrote(c) => v2'[c].row \in After \cup {"none"}
                     /\ \A c \in Request : Wrote(c) /\ v2'[c].row = "none" => v2'[c].sets # "theme"
                     /\ ~ v4' => /\ \A c, d \in Request : Wrote(c) /\ Wrote(d) => c = d
                                 /\ \A c \in Request : Wrote(c) =>
                                      IF v2'[c].row = "none" THEN After = {}
                                      ELSE v2'[c].read = v1'[v2'[c].row]
           Rows == /\ \A x \in After : v1'[x].theme # "none"
                   /\ \A c \in Request : Wrote(c) /\ v2'[c].row # "none" => v2'[c].read.theme # "none"
                   /\ After = {} => v3' = Default /\ v6' = None
           Kept == /\ (\A x, y \in After : x = y) => \A x \in After : Reads(v1'[x], v3', v6')
                   /\ ~ v4' => /\ \A x, y \in After : x = y
                               /\ ~ v6'.theme /\ v6'.cleanup = {}
                               /\ v6'.auto # {} => \E x \in After : v1'[x].auto # NoBlock
           Fine == Typed /\ Valids /\ Stands /\ Rows /\ Kept
<1>f. ASSUME Fine PROVE Setting!SettingsInv'
  <2>1. Setting!TypeOK'
    BY <1>f, <1>6 DEF Setting!TypeOK, Setting!Theme, Setting!Toggle, Setting!Override, Setting!Unset
  <2>2. Setting!RequestsValid'
    <3>1. Typed /\ Valids
      BY <1>f
    <3>2. ASSUME NEW c \in Request, Wrote(c)
          PROVE  CASE v2'[c].sets = "theme" -> v2'[c].to \in Theme
                   [] v2'[c].sets = "auto" -> v2'[c].of \in Library /\ v2'[c].to \in {"on", "off"}
                   [] OTHER -> v2'[c].of \in Library /\ v2'[c].to \in {"unset", "keep"}
      <4>1. v2'[c].sets \in {"theme", "auto", "cleanup"} /\ Valid(v2'[c])
        BY <3>1, <3>2
      <4> QED
        BY <4>1
    <3> QED
      BY <3>2 DEF Setting!RequestsValid, Setting!Theme, Setting!Toggle, Setting!Override,
         Setting!Unset
  <2>3. Setting!Present' = After
    BY <1>0 DEF Setting!Present, Setting!NoRow, Setting!Default, Setting!NoBlock, Setting!Unset
  <2>4. Setting!Default = Default /\ Setting!NoLoss = None
    BY <1>0
  <2>5. Setting!ReadStands' /\ Setting!RowsStay'
    BY <1>f, <2>3 DEF Setting!ReadStands, Setting!RowsStay
  <2>6. Setting!AnsweredInRow'
    BY <1>f, <2>3, <2>4 DEF Setting!AnsweredInRow, Setting!Default, Setting!NoBlock, Setting!Unset,
       Setting!NoLoss
  <2>7. Setting!OneRow' <=> \A x, y \in After : x = y
    <3> HIDE DEF After
    <3> QED
      BY <2>3 DEF Setting!OneRow
  <2>8. Setting!SettingsKept'
    <3>1. Kept
      BY <1>f
    <3>2. Setting!NoBlock = NoBlock
      BY <1>0
    <3> HIDE DEF After
    <3> QED
      BY <2>3, <2>7, <3>1, <3>2 DEF Setting!SettingsKept, Setting!ThemeRead, Setting!Unset,
         Setting!NoBlock
  <2> QED
    BY <2>1, <2>2, <2>5, <2>6, <2>8 DEF Setting!SettingsInv
\* What a request makes of a document.
<1>g. ASSUME NEW doc \in Document, NEW a \in Rec, Valid(a)
      PROVE  /\ Merged(doc, a) \in Document
             /\ Merged(doc, a).theme = IF a.sets = "theme" THEN a.to ELSE doc.theme
             /\ \A l \in Library : Merged(doc, a).auto[l] =
                                     IF a.sets = "auto" /\ l = a.of THEN a.to ELSE doc.auto[l]
             /\ \A l \in Library : Merged(doc, a).cleanup[l] =
                                     IF a.sets = "cleanup" /\ l = a.of THEN a.to ELSE doc.cleanup[l]
  <2>0. a.sets \in {"theme", "auto", "cleanup"} /\ doc.auto \in AutoBlock /\ doc.cleanup \in Cleanup
    BY <1>g
  <2>1. CASE a.sets = "theme"
    <3>1. Merged(doc, a) = [doc EXCEPT !.theme = a.to]
      BY <2>1 DEF Setting!Merged
    <3>2. a.to \in Text
      BY <1>g, <2>1
    <3> HIDE DEF AutoBlock, Cleanup, Merged, Text
    <3> QED
      BY <1>g, <2>0, <2>1, <3>1, <3>2
  <2>2. CASE a.sets = "auto"
    <3> DEFINE block == [doc.auto EXCEPT ![a.of] = a.to]
    <3>1. Merged(doc, a) = [doc EXCEPT !.auto = block]
      BY <2>2 DEF Setting!Merged
    <3>2. block \in AutoBlock /\ \A l \in Library : block[l] = IF l = a.of THEN a.to ELSE doc.auto[l]
      BY <1>g, <2>0, <2>2
    <3> HIDE DEF AutoBlock, Cleanup, Merged, block, Text
    <3> QED
      BY <1>g, <2>0, <2>2, <3>1, <3>2
  <2>3. CASE a.sets = "cleanup"
    <3> DEFINE block == [doc.cleanup EXCEPT ![a.of] = a.to]
    <3>1. Merged(doc, a) = [doc EXCEPT !.cleanup = block]
      BY <2>3 DEF Setting!Merged
    <3>2. /\ block \in Cleanup
          /\ \A l \in Library : block[l] = IF l = a.of THEN a.to ELSE doc.cleanup[l]
      BY <1>g, <2>0, <2>3
    <3>3. /\ Merged(doc, a).cleanup = block /\ Merged(doc, a).theme = doc.theme
          /\ Merged(doc, a).auto = doc.auto /\ Merged(doc, a) \in Document
      <4> HIDE DEF AutoBlock, Cleanup, Merged, block, Text
      <4> QED
        BY <1>g, <2>0, <2>3, <3>1, <3>2
    <3> HIDE DEF AutoBlock, Cleanup, Merged, Text, Document, block
    <3> QED
      BY <2>3, <3>2, <3>3
  <2> QED
    BY <2>0, <2>1, <2>2, <2>3
<1>1. ASSUME Setting!GetSettings PROVE Fine
  <2>1. /\ Present = {} /\ v2' = v2 /\ v3' = v3 /\ v5' = v5 /\ v6' = v6
        /\ v4' = (v4 \/ \E d \in Request : Writes(d))
    BY <1>1, <1>0 DEF Setting!GetSettings
  <2>2. PICK x \in SettingsRow : v1' = [v1 EXCEPT ![x] = Default]
    BY <1>1, <1>0 DEF Setting!GetSettings
  <2>3. /\ Default # Blank /\ Default.theme = "system" /\ Default \in Document
        /\ None.theme = FALSE /\ None.auto = {} /\ None.cleanup = {}
    BY <1>0
  <2> HIDE DEF Default, Blank, Document, None
  <2>4. After = {x} /\ v1'[x] = Default /\ v1' \in [SettingsRow -> Document]
    BY <2>1, <2>2, <2>3, <1>a
  <2>5. v4' \in BOOLEAN /\ (~ v4' => ~ v4 /\ \A d \in Request : ~ Writes(d))
    BY <2>1, <1>a
  <2>6. v3 = Default /\ v6 = None
    BY <1>d, <2>1
  <2> HIDE DEF Rec, After, Loss
  <2>7. Typed
    BY <2>1, <2>4, <2>5, <1>a
  <2>8. Valids
    BY <2>1, <1>b
  <2>9. Stands
    BY <2>1, <2>4, <2>5, <1>c
  <2>10. Rows
    BY <2>1, <2>3, <2>4, <1>d
  <2>11. Kept
    BY <2>1, <2>3, <2>4, <2>6
  <2> HIDE DEF Typed, Valids, Stands, Rows, Kept
  <2> QED
    BY <2>7, <2>8, <2>9, <2>10, <2>11
\* The request at work gets the record r, the others keep theirs.
<1>h. ASSUME NEW c \in Request, NEW r \in Rec, v2' = [v2 EXCEPT ![c] = r]
      PROVE  v2' \in [Request -> Rec] /\ v2'[c] = r /\ \A d \in Request \ {c} : v2'[d] = v2[d]
  <2> HIDE DEF Rec
  <2> QED
    BY ONLY <1>a, <1>h
<1>2. ASSUME NEW c \in Request, Setting!ReadSettings(c) PROVE Fine
  <2>1. /\ ~ Writes(c) /\ v1' = v1 /\ v3' = v3 /\ v5' = v5 + 1 /\ v5 < MaxChanges /\ v6' = v6
        /\ v4' = (v4 \/ \E d \in Request : Writes(d))
    BY <1>2 DEF Setting!ReadSettings
  <2>2. PICK sets \in {"theme", "auto", "cleanup"}, l \in Library,
             to \in (Setting!Theme \cup Setting!Toggle) \cup Setting!Override :
          /\ CASE sets = "theme" -> to \in Setting!Theme [] sets = "auto" -> to \in Setting!Toggle
               [] OTHER -> to \in Setting!Override
          /\ sets = "theme" => Setting!Present # {}
          /\ \E x \in IF Setting!Present = {} THEN {"none"} ELSE Setting!Present :
               v2' = [v2 EXCEPT ![c] =
                 [pc |-> "write", sets |-> sets, of |-> l, to |-> to, row |-> x,
                  read |-> IF x = "none" THEN Setting!NoRow ELSE v1[x]]]
    BY <1>2 DEF Setting!ReadSettings
  <2>0. /\ to \in {"system", "dark", "on", "off", "unset", "keep"}
        /\ sets = "theme" => to \in Theme /\ Present # {}
        /\ sets = "auto" => to \in {"on", "off"}
        /\ sets = "cleanup" => to \in {"unset", "keep"}
    <3>1. Setting!Present = Present
      BY <1>0
    <3> HIDE DEF Present
    <3> QED
      BY <2>2, <3>1, <1>6 DEF Setting!Theme, Setting!Toggle, Setting!Override, Setting!Unset
  <2>3. PICK x \in IF Present = {} THEN {"none"} ELSE Present :
               v2' = [v2 EXCEPT ![c] =
                 [pc |-> "write", sets |-> sets, of |-> l, to |-> to, row |-> x,
                  read |-> IF x = "none" THEN Blank ELSE v1[x]]]
    <3>1. Setting!NoRow = Blank /\ Setting!Present = Present
      BY <1>0
    <3> HIDE DEF Blank, Present
    <3> QED
      BY <2>2, <3>1
  <2> DEFINE read == IF x = "none" THEN Blank ELSE v1[x]
             r == [pc |-> "write", sets |-> sets, of |-> l, to |-> to, row |-> x, read |-> read]
  <2>4. /\ Present = {} => x = "none"
        /\ Present # {} => x \in Present /\ x # "none"
    BY <2>3, AbsenceAssumption DEF AbsenceAssumption
  <2>5. read \in Document
    <3> HIDE DEF Document, Blank
    <3> QED
      BY <2>3, <2>4, <1>0, <1>a
  <2>6. x \in SettingsRow \cup {"none"}
    BY <2>4
  <2> HIDE DEF read
  <2>7. r \in Rec /\ r.pc = "write" /\ r.sets = sets /\ r.row = x /\ r.read = read /\ Valid(r)
    <3> HIDE DEF Document
    <3> QED
      BY <2>0, <2>2, <2>5, <2>6
  <2>8. v2' = [v2 EXCEPT ![c] = r]
    BY <2>3 DEF read
  <2> HIDE DEF r
  <2>9. v2' \in [Request -> Rec] /\ v2'[c] = r /\ \A d \in Request \ {c} : v2'[d] = v2[d]
    BY <1>h, <2>7, <2>8
  <2>10. After = Present
    BY <2>1
  <2>11. v4' \in BOOLEAN /\ (~ v4' => ~ v4 /\ \A d \in Request : ~ Writes(d))
    BY <2>1, <1>a
  <2>12. v5' \in 0 .. MaxChanges
    BY <2>1, <1>a, CountAssumption DEF CountAssumption
  <2>13. x # "none" => read = v1[x]
    BY DEF read
  <2> HIDE DEF Rec, After, Present, Document, Blank, Valid, Default, Loss, None
  <2>14. Typed
    BY <2>1, <2>9, <2>11, <2>12, <1>a
  <2>15. Valids
    BY <2>7, <2>9, <1>b
  <2>16. Stands
    BY <2>0, <2>1, <2>4, <2>7, <2>9, <2>10, <2>11, <2>13, <1>c
  <2>17. Rows
    BY <2>1, <2>4, <2>7, <2>9, <2>10, <2>11, <2>13, <1>d
  <2>18. Kept
    <3> HIDE DEF Reads
    <3> QED
      BY <2>1, <2>10, <2>11, <1>e
  <2> HIDE DEF Typed, Valids, Stands, Rows, Kept
  <2> QED
    BY <2>14, <2>15, <2>16, <2>17, <2>18
<1>3. ASSUME NEW c \in Request, Setting!WriteSettings(c) PROVE Fine
  <2> DEFINE a == v2[c]
             r == [pc |-> "idle", sets |-> "theme", of |-> "none", to |-> "unset", row |-> "none",
                   read |-> Blank]
  <2>1. /\ a.pc = "write" /\ v3' = Merged(v3, a) /\ v4' = v4 /\ v5' = v5
        /\ v2' = [v2 EXCEPT ![c] = r]
    BY <1>3, <1>0 DEF Setting!WriteSettings, Setting!Idle, Setting!Unset
  <2>2. a \in Rec /\ Valid(a) /\ a.read \in Document /\ a.row \in SettingsRow \cup {"none"}
        /\ a.sets \in {"theme", "auto", "cleanup"}
    <3>1. a \in Rec
      BY <1>a
    <3> QED
      BY <3>1, <2>1, <1>b
  <2>3. r \in Rec /\ r.pc = "idle"
    <3> HIDE DEF Document, Blank
    <3> QED
      BY <1>0
  <2> HIDE DEF r
  <2>4. v2' \in [Request -> Rec] /\ v2'[c].pc = "idle" /\ \A d \in Request \ {c} : v2'[d] = v2[d]
    BY <1>h, <2>1, <2>3, ZenonT(30)
  <2>5. v3' \in Document
    BY <1>a, <1>g, <2>1, <2>2
  <2>6. Valids
    <3> HIDE DEF Valid, Rec
    <3> QED
      BY <2>4, <1>b
  <2>7. ~ v4 => \A d \in Request \ {c} : ~ Writes(d)
    BY <1>c, <2>1
  \* What was answered, and what a document written from doc holds, setting by setting.
  <2>8. ASSUME NEW doc \in Document
        PROVE  /\ Merged(doc, a) \in Document
               /\ Merged(doc, a).theme = IF a.sets = "theme" THEN a.to ELSE doc.theme
               /\ \A l \in Library : Merged(doc, a).auto[l] =
                                       IF a.sets = "auto" /\ l = a.of THEN a.to ELSE doc.auto[l]
               /\ \A l \in Library : Merged(doc, a).cleanup[l] =
                                       IF a.sets = "cleanup" /\ l = a.of THEN a.to ELSE doc.cleanup[l]
    BY <1>g, <2>2
  <2>9. v3'.theme = (IF a.sets = "theme" THEN a.to ELSE v3.theme)
        /\ (\A l \in Library : v3'.auto[l] = IF a.sets = "auto" /\ l = a.of THEN a.to ELSE v3.auto[l])
        /\ \A l \in Library : v3'.cleanup[l] =
                                IF a.sets = "cleanup" /\ l = a.of THEN a.to ELSE v3.cleanup[l]
    <3> HIDE DEF Document, Merged, a
    <3> QED
      BY <1>a, <2>1, <2>8
  <2>10. a.sets = "theme" => a.to \in Theme
    BY <2>2
  <2>11. CASE a.row = "none"
    <3> DEFINE created == Merged(Empty, a)
    <3>1. /\ v6' = v6
          /\ \E x \in SettingsRow \ Present : v1' = [v1 EXCEPT ![x] = created]
      BY <1>3, <1>0, <2>11 DEF Setting!WriteSettings, Setting!Created
    <3>2. PICK x \in SettingsRow \ Present : v1' = [v1 EXCEPT ![x] = created]
      BY <3>1
    <3>3. a.sets # "theme"
      BY <1>c, <2>1, <2>11
    <3>4. /\ created \in Document /\ created.theme = "unset"
          /\ \A l \in Library : created.auto[l] = IF a.sets = "auto" /\ l = a.of THEN a.to ELSE "unset"
          /\ \A l \in Library : created.cleanup[l] =
                                  IF a.sets = "cleanup" /\ l = a.of THEN a.to ELSE "unset"
      <4>1. /\ Empty \in Document /\ Empty.theme = "unset"
            /\ \A l \in Library : Empty.auto[l] = "unset" /\ Empty.cleanup[l] = "unset"
        BY <1>0
      <4> HIDE DEF Empty, Document, Merged, a
      <4> QED
        BY <2>8, <3>3, <4>1
    <3>5. created # Blank
      BY <3>4
    <3> HIDE DEF created, Document, Blank, Rec
    <3>6. /\ v1' \in [SettingsRow -> Document] /\ v1'[x] = created
          /\ \A y \in SettingsRow \ {x} : v1'[y] = v1[y]
      BY <1>a, <3>2, <3>4
    <3>7. After = Present \cup {x} /\ x \notin Present
      BY <3>5, <3>6, <3>2
    <3>8. Typed
      <4> HIDE DEF Loss
      <4> QED
        BY <1>a, <2>1, <2>4, <2>5, <3>1, <3>6
    <3>9. ~ v4 => Present = {}
      BY <1>c, <2>1, <2>11
    <3>10. \A y \in Present : y \in SettingsRow /\ v1'[y] = v1[y]
      BY <3>6, <3>7
    <3>11. Stands
      <4> HIDE DEF After, Present, a
      <4> QED
        BY <1>c, <2>1, <2>4, <2>7, <3>7, <3>10
    <3>12. Rows
      <4> HIDE DEF Default, Present, After, None
      <4>1. \A y \in After : v1'[y].theme # "none"
        BY <1>d, <3>4, <3>6, <3>7, <3>10
      <4>2. \A d \in Request : Wrote(d) /\ v2'[d].row # "none" => v2'[d].read.theme # "none"
        BY <1>d, <2>4
      <4> QED
        BY <4>1, <4>2, <3>7
    <3>13. Kept
      <4>1. ASSUME \A y, z \in After : y = z
            PROVE  v3 = Default /\ v6 = None
        <5>1. Present = {}
          <6> HIDE DEF Present, After
          <6> QED
            BY <4>1, <3>7
        <5> QED
          BY <1>d, <5>1
      <4>2. ~ v4 => After = {x}
        <5> HIDE DEF Present, After
        <5> QED
          BY <3>7, <3>9
      <4>3. ASSUME v3 = Default PROVE Reads(v1'[x], v3', v6')
        <5>1. /\ v3.theme = "system" /\ \A l \in Library : v3.auto[l] = "unset" /\ v3.cleanup[l] = "unset"
          BY <4>3
        <5> HIDE DEF Default, a
        <5> QED
          BY <2>9, <3>3, <3>4, <3>6, <5>1
      <4>4. None.theme = FALSE /\ None.auto = {} /\ None.cleanup = {}
        OBVIOUS
      <4>5. x \in After
        BY <3>7
      <4> HIDE DEF After, Reads, None, Default, Present
      <4> QED
        BY <2>1, <3>1, <4>1, <4>2, <4>3, <4>4, <4>5
    <3> HIDE DEF Typed, Valids, Stands, Rows, Kept
    <3> QED
      BY <2>6, <3>8, <3>11, <3>12, <3>13
  <2>12. CASE a.row # "none"
    <3> DEFINE left == Setting!WrittenBack(a.read, a.sets, a.of, a.to)
               x == a.row
               now == v1[x]
    <3>0. x \in Present /\ x \in SettingsRow /\ a.read.theme # "none" /\ now \in Document
      BY <1>a, <1>c, <1>d, <2>1, <2>2, <2>12
    <3>1. \/ /\ left # a.read /\ v1' = [v1 EXCEPT ![x] = left]
             /\ v6' = Setting!LostByUpdate(now, a)
          \/ /\ left = a.read /\ v1' = v1
             /\ v6' = Setting!LostWithout(now, a)
      BY <1>3, <2>12 DEF Setting!WriteSettings, Setting!Emitted
    <3>2. left = a.read \/ left = Merged(a.read, a)
      BY DEF Setting!WrittenBack
    <3>3. left = Merged(a.read, a) \/ (a.sets = "auto" /\ a.read.auto # NoBlock)
      BY <1>0 DEF Setting!WrittenBack
    <3>4. left \in Document /\ left.theme # "none"
      <4>1. Merged(a.read, a) \in Document /\ Merged(a.read, a).theme # "none"
        <5> HIDE DEF Document, Merged, Valid, a
        <5> QED
          BY <2>2, <2>8, <2>10, <3>0
      <4> HIDE DEF left, Merged, Document, Rec
      <4> QED
        BY <2>2, <3>0, <3>2, <4>1
    <3>5. left # Blank
      BY <3>4
    <3> HIDE DEF left
    \* The update: what was asked is stored, and what it puts back is lost.
    <3>6. ASSUME left # a.read, v1' = [v1 EXCEPT ![x] = left], v6' = Setting!LostByUpdate(now, a)
          PROVE  /\ v6' \in Loss
                 /\ v1' \in [SettingsRow -> Document] /\ v1'[x] = left
                 /\ \A y \in SettingsRow \ {x} : v1'[y] = v1[y]
                 /\ Reads(now, v3, v6) => Reads(left, v3', v6')
                 /\ a.read = now => /\ (~ v6.theme => ~ v6'.theme) /\ v6'.cleanup \subseteq v6.cleanup
                                    /\ v6'.auto \subseteq v6.auto
                                    /\ now.auto # NoBlock => left.auto # NoBlock
      <4> DEFINE StaleAuto == {l \in Library : now.auto[l] # a.read.auto[l]}
                 StaleCleanup == {l \in Library : now.cleanup[l] # a.read.cleanup[l]}
                 AskedAuto == IF a.sets = "auto" THEN {a.of} ELSE {}
                 AskedCleanup == IF a.sets = "cleanup" THEN {a.of} ELSE {}
      <4>1. v6' = [theme |-> a.sets # "theme" /\ (v6.theme \/ now.theme # a.read.theme),
                   auto |-> (v6.auto \cup StaleAuto) \ AskedAuto,
                   cleanup |-> (v6.cleanup \cup StaleCleanup) \ AskedCleanup]
        BY <3>6 DEF Setting!LostByUpdate
      <4>2. /\ v6.theme \in BOOLEAN /\ v6.auto \subseteq Library /\ v6.cleanup \subseteq Library
        BY <1>a
      <4>3. StaleAuto \subseteq Library /\ StaleCleanup \subseteq Library
        OBVIOUS
      <4>4. /\ v6'.theme = (a.sets # "theme" /\ (v6.theme \/ now.theme # a.read.theme))
            /\ v6'.auto = (v6.auto \cup StaleAuto) \ AskedAuto
            /\ v6'.cleanup = (v6.cleanup \cup StaleCleanup) \ AskedCleanup
            /\ v6' \in Loss
        <5> HIDE DEF StaleAuto, StaleCleanup, AskedAuto, AskedCleanup, now, a
        <5> QED
          BY <4>1, <4>2, <4>3
      <4>5. /\ left.theme = (IF a.sets = "theme" THEN a.to ELSE a.read.theme)
            /\ \A l \in Library : left.auto[l] =
                                    IF a.sets = "auto" /\ l = a.of THEN a.to ELSE a.read.auto[l]
            /\ \A l \in Library : left.cleanup[l] =
                                    IF a.sets = "cleanup" /\ l = a.of THEN a.to ELSE a.read.cleanup[l]
        <5> HIDE DEF Document, Merged, a
        <5> QED
          BY <2>2, <2>8, <3>2, <3>6
      <4>6. v1' \in [SettingsRow -> Document] /\ v1'[x] = left
            /\ \A y \in SettingsRow \ {x} : v1'[y] = v1[y]
        <5> HIDE DEF Document, a
        <5> QED
          BY <1>a, <3>0, <3>4, <3>6
      <4>7. /\ \A l \in Library : l \notin v6'.auto =>
                 (a.sets = "auto" /\ l = a.of) \/ (l \notin v6.auto /\ now.auto[l] = a.read.auto[l])
            /\ \A l \in Library : l \notin v6'.cleanup =>
                 (a.sets = "cleanup" /\ l = a.of) \/ (l \notin v6.cleanup /\ now.cleanup[l] = a.read.cleanup[l])
        <5> HIDE DEF now, a
        <5> QED
          BY <4>4
      <4>8. ASSUME Reads(now, v3, v6) PROVE Reads(left, v3', v6')
        <5>1. ~ v6'.theme => Shown(left) = v3'.theme
          <6> HIDE DEF now, a
          <6> QED
            BY <2>9, <2>10, <4>2, <4>4, <4>5, <4>8
        <5>2. \A l \in Library : l \notin v6'.auto => left.auto[l] = v3'.auto[l]
          <6> HIDE DEF now, a
          <6> QED
            BY <2>9, <4>5, <4>7, <4>8
        <5>3. \A l \in Library : l \notin v6'.cleanup => left.cleanup[l] = v3'.cleanup[l]
          <6> HIDE DEF now, a
          <6> QED
            BY <2>9, <4>5, <4>7, <4>8
        <5> HIDE DEF Shown
        <5> QED
          BY <5>1, <5>2, <5>3
      <4>9. ASSUME a.read = now
            PROVE  /\ (~ v6.theme => ~ v6'.theme) /\ v6'.cleanup \subseteq v6.cleanup
                   /\ v6'.auto \subseteq v6.auto
        <5>1. StaleAuto = {} /\ StaleCleanup = {}
          BY <4>9
        <5> HIDE DEF StaleAuto, StaleCleanup, AskedAuto, AskedCleanup, now, a
        <5> QED
          BY <4>4, <4>9, <5>1
      <4>10. ASSUME a.read = now, now.auto # NoBlock PROVE left.auto # NoBlock
        <5>1. now.auto \in AutoBlock /\ left.auto \in AutoBlock
          BY <3>0, <3>4
        <5>2. PICK l \in Library : now.auto[l] # "unset"
          <6> HIDE DEF now
          <6> QED
            BY <4>10, <5>1
        <5>3. a.sets = "auto" => a.to \in {"on", "off"}
          BY <2>2
        <5>4. left.auto[l] # "unset"
          <6> HIDE DEF now, a
          <6> QED
            BY <4>5, <4>10, <5>2, <5>3
        <5> HIDE DEF now
        <5> QED
          BY <5>4
      <4> HIDE DEF Reads, now, a, Document, Loss, NoBlock
      <4> QED
        BY <4>4, <4>6, <4>8, <4>9, <4>10
    \* No update: what was asked is lost unless it is there.
    <3>7. ASSUME left = a.read, v1' = v1, v6' = Setting!LostWithout(now, a)
          PROVE  /\ v6' \in Loss
                 /\ Reads(now, v3, v6) => Reads(now, v3', v6')
                 /\ a.read = now => /\ (~ v6.theme => ~ v6'.theme) /\ v6'.cleanup \subseteq v6.cleanup
                                    /\ v6'.auto # {} => v6.auto # {} \/ now.auto # NoBlock
      <4> DEFINE theme == IF a.sets = "theme" THEN now.theme # a.to ELSE v6.theme
                 auto == IF a.sets # "auto" THEN v6.auto
                         ELSE IF now.auto[a.of] # a.to THEN v6.auto \cup {a.of} ELSE v6.auto \ {a.of}
                 cleanup == IF a.sets # "cleanup" THEN v6.cleanup
                            ELSE IF now.cleanup[a.of] # a.to THEN v6.cleanup \cup {a.of}
                            ELSE v6.cleanup \ {a.of}
      <4>1. v6.theme \in BOOLEAN /\ v6.auto \subseteq Library /\ v6.cleanup \subseteq Library
        BY <1>a
      <4>2. /\ a.sets = "auto" => a.of \in Library /\ a.to \in {"on", "off"}
            /\ a.sets = "cleanup" => a.of \in Library
        BY <2>2
      <4>3. theme \in BOOLEAN /\ auto \subseteq Library /\ cleanup \subseteq Library
        <5> HIDE DEF now, a
        <5> QED
          BY <4>1, <4>2
      <4>4. v6' \in Loss /\ v6'.theme = theme /\ v6'.auto = auto /\ v6'.cleanup = cleanup
        <5>1. CASE a.sets = "theme"
          <6>1. v6' = [v6 EXCEPT !.theme = now.theme # a.to]
            BY <3>7, <5>1 DEF Setting!LostWithout
          <6> HIDE DEF now, a
          <6> QED
            BY <1>a, <4>3, <5>1, <6>1
        <5>2. CASE a.sets = "auto"
          <6>1. v6' = [v6 EXCEPT !.auto = auto]
            BY <3>7, <5>2 DEF Setting!LostWithout
          <6>2. theme = v6.theme /\ cleanup = v6.cleanup
            BY <5>2
          <6> HIDE DEF auto, theme, cleanup
          <6> QED
            BY <1>a, <4>3, <6>1, <6>2
        <5>3. CASE a.sets = "cleanup"
          <6>1. v6' = [v6 EXCEPT !.cleanup = cleanup]
            BY <3>7, <5>3 DEF Setting!LostWithout
          <6>2. theme = v6.theme /\ auto = v6.auto
            BY <5>3
          <6> HIDE DEF auto, theme, cleanup
          <6> QED
            BY <1>a, <4>3, <6>1, <6>2
        <5> HIDE DEF theme, auto, cleanup, a
        <5> QED
          BY <2>2, <5>1, <5>2, <5>3
      <4>5. /\ \A l \in Library : l \notin auto =>
                 IF a.sets = "auto" /\ l = a.of THEN now.auto[l] = a.to ELSE l \notin v6.auto
            /\ \A l \in Library : l \notin cleanup =>
                 IF a.sets = "cleanup" /\ l = a.of THEN now.cleanup[l] = a.to ELSE l \notin v6.cleanup
        <5> HIDE DEF now, a
        <5> QED
          OBVIOUS
      <4>6. ASSUME Reads(now, v3, v6) PROVE Reads(now, v3', v6')
        <5>1. ~ theme => Shown(now) = v3'.theme
          <6> HIDE DEF now, a
          <6> QED
            BY <2>9, <2>10, <4>6
        <5>2. \A l \in Library : l \notin auto => now.auto[l] = v3'.auto[l]
          <6> HIDE DEF now, a, auto
          <6> QED
            BY <2>9, <4>5, <4>6
        <5>3. \A l \in Library : l \notin cleanup => now.cleanup[l] = v3'.cleanup[l]
          <6> HIDE DEF now, a, cleanup
          <6> QED
            BY <2>9, <4>5, <4>6
        <5> HIDE DEF Shown, theme, auto, cleanup
        <5> QED
          BY <4>4, <5>1, <5>2, <5>3
      <4>7. ASSUME a.read = now
            PROVE  /\ (~ v6.theme => ~ v6'.theme) /\ v6'.cleanup \subseteq v6.cleanup
                   /\ v6'.auto # {} => v6.auto # {} \/ now.auto # NoBlock
        <5>1. a.sets # "auto" => Merged(a.read, a) = a.read
          BY <3>2, <3>3, <3>7
        <5>2. a.sets = "theme" => now.theme = a.to
          <6> HIDE DEF Document, Merged, a, now
          <6> QED
            BY <2>2, <2>8, <4>7, <5>1
        <5>3. a.sets = "cleanup" => now.cleanup[a.of] = a.to
          <6> HIDE DEF Document, Merged, a, now
          <6> QED
            BY <2>2, <2>8, <4>2, <4>7, <5>1
        <5>4. ~ theme \/ v6.theme
          <6> HIDE DEF a, now
          <6> QED
            BY <5>2
        <5>5. cleanup \subseteq v6.cleanup
          <6> HIDE DEF a, now
          <6> QED
            BY <5>3
        <5>6. ASSUME a.sets = "auto", now.auto = NoBlock PROVE FALSE
          <6>1. Merged(a.read, a) = a.read
            BY <3>3, <3>7, <4>7, <5>6
          <6>2. NoBlock[a.of] = a.to
            <7> HIDE DEF Document, Merged, a, now, NoBlock
            <7> QED
              BY <2>2, <2>8, <4>2, <4>7, <5>6, <6>1
          <6> HIDE DEF a
          <6> QED
            BY <4>2, <5>6, <6>2
        <5>7. auto # {} => v6.auto # {} \/ now.auto # NoBlock
          <6> HIDE DEF a, now, NoBlock
          <6> QED
            BY <5>6
        <5> HIDE DEF theme, auto, cleanup, NoBlock, a, now
        <5> QED
          BY <4>4, <5>4, <5>5, <5>7
      <4> HIDE DEF Reads, theme, auto, cleanup, Loss, NoBlock, a, now
      <4> QED
        BY <4>4, <4>6, <4>7
    <3> HIDE DEF Document, Blank, Rec, Loss, NoBlock, Reads
    <3>8. /\ v6' \in Loss /\ v1' \in [SettingsRow -> Document]
          /\ \A y \in SettingsRow \ {x} : v1'[y] = v1[y]
          /\ v1'[x] = left \/ v1'[x] = now
          /\ Reads(now, v3, v6) => Reads(v1'[x], v3', v6')
          /\ a.read = now => /\ (~ v6.theme => ~ v6'.theme) /\ v6'.cleanup \subseteq v6.cleanup
                             /\ v6'.auto # {} => v6.auto # {} \/ now.auto # NoBlock
                             /\ now.auto # NoBlock => v1'[x].auto # NoBlock
      <4>1. CASE left # a.read
        <5> HIDE DEF x, now, a
        <5> QED
          BY <3>1, <3>6, <4>1
      <4>2. CASE left = a.read
        <5>1. v1' = v1 /\ v1'[x] = now
          BY <3>1, <4>2
        <5> HIDE DEF x, now, a
        <5> QED
          BY <1>a, <3>1, <3>7, <4>2, <5>1
      <4> QED
        BY <4>1, <4>2
    <3>9. After = Present
      <4>1. v1'[x] # Blank
        BY <3>0, <3>5, <3>8
      <4> HIDE DEF a, x
      <4> QED
        BY <3>0, <3>8, <4>1
    <3>10. Typed
      BY <1>a, <2>1, <2>4, <2>5, <3>8
    <3>11. Stands
      <4> HIDE DEF After, Present, x, now, a
      <4> QED
        BY <1>c, <2>1, <2>4, <2>7, <3>9
    <3>12. Rows
      <4>1. now.theme # "none"
        BY <1>d, <3>0
      <4>2. \A y \in Present : y \in SettingsRow
        OBVIOUS
      <4> HIDE DEF Default, After, Present, x, now, a, None
      <4>3. \A y \in After : v1'[y].theme # "none"
        BY <1>d, <3>4, <3>8, <3>9, <4>1, <4>2
      <4>4. \A d \in Request : Wrote(d) /\ v2'[d].row # "none" => v2'[d].read.theme # "none"
        BY <1>d, <2>4
      <4> QED
        BY <3>0, <3>9, <4>3, <4>4
    <3>13. Kept
      <4>1. (\A y, z \in After : y = z) => \A y \in After : Reads(v1'[y], v3', v6')
        <5> HIDE DEF After, Present, a, x
        <5> QED
          BY <1>e, <3>0, <3>8, <3>9
      <4>2. ASSUME ~ v4 PROVE a.read = now /\ \A y \in Present : y = x
        BY <1>c, <1>e, <2>1, <2>12, <3>0, <4>2
      <4> HIDE DEF After, Present, a, x, now
      <4>3. ~ v4 => (v6.auto # {} => v1[x].auto # NoBlock)
        BY <1>e, <4>2
      <4> QED
        BY <1>e, <2>1, <3>0, <3>8, <3>9, <4>1, <4>2, <4>3 DEF now
    <3> HIDE DEF Typed, Valids, Stands, Rows, Kept
    <3> QED
      BY <2>6, <3>10, <3>11, <3>12, <3>13
  <2> QED
    BY <2>11, <2>12
<1> HIDE DEF Fine
<1> QED
  BY <1>f, <1>1, <1>2, <1>3 DEF Setting!Next

(***************************************************************************)
(* Folder watcher (directory_watcher.py, watcher_tasks.py)                 *)
(***************************************************************************)

\* No process watches before the watchers are resumed.
LEMMA WatchInit == Watch!Init => Watch!WatchInv
<1> SUFFICES ASSUME Watch!Init PROVE Watch!WatchInv
  OBVIOUS
<1>1. v3 \in [active : BOOLEAN, pending : BOOLEAN]
  <2>1. v3 = Watch!NoState \/ v3 = [active |-> TRUE, pending |-> FALSE]
    BY DEF Watch!Init
  <2>2. Watch!NoState \in [active : BOOLEAN, pending : BOOLEAN]
    BY DEF Watch!NoState
  <2>3. [active |-> TRUE, pending |-> FALSE] \in [active : BOOLEAN, pending : BOOLEAN]
    OBVIOUS
  <2> QED
    BY <2>1, <2>2, <2>3, Zenon
<1>2. v10 \in 0 .. MaxWatcherFaults
  BY CountAssumption DEF CountAssumption, Watch!Init
<1>3. /\ v1 \in [Process -> {"none", "stopped", "alive", "dead"}]
      /\ v2 \in [Process -> {"off", "armed", "fired"}]
      /\ \A p \in Process : v1[p] = "none" /\ v2[p] = "off"
  BY DEF Watch!Init
<1>4. {v4, v5, v6, v7, v8} \subseteq BOOLEAN /\ v8 = FALSE /\ v9 = {}
  BY DEF Watch!Init
<1> QED
  BY <1>1, <1>2, <1>3, <1>4 DEF Watch!WatchInv, Watch!TypeOK, Watch!WatcherRestorable

\* Every step of a process, of the clock and of the folder keeps the invariant.
LEMMA WatchStep == Watch!WatchInv /\ Watch!Next => Watch!WatchInv'
<1> SUFFICES ASSUME Watch!WatchInv, Watch!Next PROVE Watch!WatchInv'
  OBVIOUS
<1> DEFINE State == [active : BOOLEAN, pending : BOOLEAN]
           Watching == [Process -> {"none", "stopped", "alive", "dead"}]
           Timers == [Process -> {"off", "armed", "fired"}]
           Reasons == {"start", "stop", "killed"}
<1>a. /\ v1 \in Watching /\ v2 \in Timers
      /\ v3 \in State /\ v4 \in BOOLEAN /\ v5 \in BOOLEAN /\ v6 \in BOOLEAN /\ v7 \in BOOLEAN
      /\ v8 \in BOOLEAN /\ v9 \subseteq Reasons /\ v10 \in 0 .. MaxWatcherFaults
  BY DEF Watch!WatchInv, Watch!TypeOK
<1>b. /\ v8 /\ v9 = {} => v3.active \/ \E p \in Process : v1[p] = "stopped"
      /\ ~ v8 => \A p \in Process : v1[p] = "none" /\ v2[p] = "off"
  BY DEF Watch!WatchInv, Watch!WatcherRestorable, Watch!Restorable
<1>c. Watch!WatcherFault => v10' \in 0 .. MaxWatcherFaults
  BY <1>a, CountAssumption DEF CountAssumption, Watch!WatcherFault
<1>d. /\ [active |-> TRUE, pending |-> FALSE] \in State
      /\ [active |-> TRUE, pending |-> TRUE] \in State
      /\ Watch!NoState \in State /\ [v3 EXCEPT !.active = FALSE, !.pending = FALSE] \in State
  BY <1>a DEF Watch!NoState
<1>e. ASSUME NEW p \in Process, Watch!Cleaned(p)
      PROVE  v1' \in Watching /\ v2' \in Timers /\ v3' \in State /\ v4' \in BOOLEAN
  BY <1>a, <1>d, <1>e DEF Watch!Cleaned
<1>f. ASSUME NEW p \in Process, Watch!Start(p)
      PROVE  /\ v1' \in Watching /\ v2' \in Timers
             /\ v3' \in State /\ v4' \in BOOLEAN /\ v9' \subseteq Reasons
             /\ v10' \in 0 .. MaxWatcherFaults
             /\ \/ v9' # {}
                \/ v3'.active
                \/ v1' = v1 /\ v3' = v3 /\ v9' = v9 /\ v1[p] # "none"
  <2>1. CASE v1[p] # "none" /\ UNCHANGED <<v1, v2, v3, v4, v9, v10>>
    BY <1>a, <2>1
  <2>2. CASE v9' = v9 \cup {"start"} /\ UNCHANGED <<v1, v2, v3, v4, v10>>
    BY <1>a, <2>2
  <2>3. CASE Watch!Started(p) /\ UNCHANGED <<v9, v10>>
    BY <1>a, <1>d, <2>3 DEF Watch!Started
  <2>4. CASE Watch!WatcherFault /\ Watch!Cleaned(p) /\ v9' = v9 \cup {"start"}
    BY <1>a, <1>c, <1>e, <2>4
  <2>5. CASE /\ Watch!WatcherFault /\ v9' = v9 \cup {"start"}
             /\ v2' = [v2 EXCEPT ![p] = "off"] /\ UNCHANGED <<v1, v3, v4>>
    BY <1>a, <1>c, <2>5
  <2> QED
    BY <1>f, <2>1, <2>2, <2>3, <2>4, <2>5 DEF Watch!Start
<1> DEFINE Fine == /\ v1' \in Watching /\ v2' \in Timers
                   /\ v3' \in State /\ v4' \in BOOLEAN /\ v5' \in BOOLEAN /\ v6' \in BOOLEAN
                   /\ v7' \in BOOLEAN /\ v8' \in BOOLEAN /\ v9' \subseteq Reasons
                   /\ v10' \in 0 .. MaxWatcherFaults
                   /\ v8' /\ v9' = {} => v3'.active \/ \E p \in Process : v1'[p] = "stopped"
                   /\ ~ v8' => \A p \in Process : v1'[p] = "none" /\ v2'[p] = "off"
<1>g. Fine => Watch!WatchInv'
  BY DEF Watch!WatchInv, Watch!TypeOK, Watch!WatcherRestorable, Watch!Restorable
<1>1. ASSUME NEW p \in Process, Watch!ResumeWatchers(p) PROVE Fine
  <2>1. /\ ~ v8 /\ v8' = TRUE /\ Watch!Start(p) /\ v5' = v5 /\ v6' = v6 /\ v7' = v7
        /\ v1[p] = "none"
    BY <1>1, <1>b DEF Watch!ResumeWatchers, Watch!worldVars
  <2> QED
    BY <1>a, <1>f, <2>1
<1>2. ASSUME NEW p \in Process, Watch!StartWatcher(p) PROVE Fine
  <2>1. v8 /\ v8' = v8 /\ Watch!Start(p) /\ v5' = v5 /\ v6' = v6 /\ v7' = v7
    BY <1>2 DEF Watch!StartWatcher, Watch!worldVars
  <2>2. v9' = {} => v3'.active \/ \E q \in Process : v1'[q] = "stopped"
    BY <1>b, <1>f, <2>1
  <2> QED
    BY <1>a, <1>f, <2>1, <2>2
<1>3. ASSUME NEW p \in Process, Watch!StopWatcher(p) PROVE Fine
  BY <1>3, <1>a, <1>b, <1>c, <1>d DEF Watch!StopWatcher, Watch!worldVars
<1>4. ASSUME NEW p \in Process, Watch!CheckHealth(p) PROVE Fine
  <2>1. /\ v8 /\ v8' = v8 /\ v1' = [v1 EXCEPT ![p] = "stopped"]
        /\ v2' = [v2 EXCEPT ![p] = IF @ = "armed" THEN "off" ELSE @]
        /\ v3' = [v3 EXCEPT !.active = FALSE, !.pending = FALSE] /\ v4' = FALSE
        /\ v5' = v5 /\ v6' = v6 /\ v7' = v7 /\ v9' = v9 /\ v10' = v10
    BY <1>4 DEF Watch!CheckHealth, Watch!StaleStopped, Watch!worldVars
  <2>2. v1' \in Watching /\ v1'[p] = "stopped" /\ v2' \in Timers
    BY <1>a, <2>1
  <2> QED
    BY <1>a, <1>d, <2>1, <2>2
<1>12. ASSUME NEW p \in Process, Watch!RestartStale(p) PROVE Fine
  <2>1. v8' = v8 /\ v5' = v5 /\ v6' = v6 /\ v7' = v7 /\ v8
    BY <1>12, <1>a, <1>b DEF Watch!RestartStale, Watch!worldVars
  <2>2. CASE Watch!Started(p) /\ UNCHANGED <<v9, v10>>
    BY <1>a, <1>d, <2>1, <2>2 DEF Watch!Started
  <2>3. CASE /\ v1' = [v1 EXCEPT ![p] = "none"] /\ v9' = v9 \cup {"start"}
             /\ UNCHANGED <<v2, v3, v4, v10>>
    BY <1>a, <2>1, <2>3
  <2>4. CASE Watch!WatcherFault /\ Watch!Cleaned(p) /\ v9' = v9 \cup {"start"}
    BY <1>a, <1>c, <1>e, <2>1, <2>4
  <2> QED
    BY <1>12, <2>2, <2>3, <2>4 DEF Watch!RestartStale
<1>5. ASSUME NEW p \in Process, Watch!Beat(p) \/ Watch!TimerFires(p) \/ Watch!LocalDebounce(p)
      PROVE  Fine
  <2>1. CASE Watch!Beat(p)
    BY <1>a, <1>b, <2>1 DEF Watch!Beat, Watch!worldVars
  <2>2. CASE Watch!TimerFires(p)
    BY <1>a, <1>b, <2>2 DEF Watch!TimerFires, Watch!worldVars, Watch!keyVars
  <2>3. CASE Watch!LocalDebounce(p)
    BY <1>a, <1>b, <1>d, <2>3 DEF Watch!LocalDebounce, Watch!worldVars
  <2> QED
    BY <1>5, <2>1, <2>2, <2>3
<1>6. ASSUME NEW p \in Process, Watch!ObserverDies(p) \/ Watch!ProcessDies(p) PROVE Fine
  <2>0. /\ v3' = v3 /\ v4' = v4 /\ v5' = v5 /\ v6' = v6 /\ v7' = v7 /\ v8' = v8
        /\ v10' \in 0 .. MaxWatcherFaults
    BY <1>6, <1>c DEF Watch!ObserverDies, Watch!ProcessDies, Watch!worldVars, Watch!keyVars
  <2>1. CASE Watch!ObserverDies(p)
    <3>1. /\ v1[p] = "alive" /\ v1' = [v1 EXCEPT ![p] = "dead"] /\ v2' = v2 /\ v9' = v9
      BY <2>1 DEF Watch!ObserverDies
    <3>2. v1' \in Watching /\ \A q \in Process : v1[q] = "stopped" => v1'[q] = "stopped"
      BY <1>a, <3>1
    <3> QED
      BY <1>a, <1>b, <2>0, <3>1, <3>2
  <2>2. CASE Watch!ProcessDies(p)
    <3>1. /\ v1[p] # "none" /\ v1' = [v1 EXCEPT ![p] = "none"] /\ v2' = [v2 EXCEPT ![p] = "off"]
          /\ v9' = IF v1[p] = "stopped" THEN v9 \cup {"killed"} ELSE v9
      BY <2>2 DEF Watch!ProcessDies
    <3>2. v1' \in Watching /\ v2' \in Timers /\ v9' \subseteq Reasons
      BY <1>a, <3>1
    <3>3. v9' = {} => v9 = {} /\ \A q \in Process : v1[q] = "stopped" => v1'[q] = "stopped"
      BY <1>a, <3>1
    <3> QED
      BY <1>a, <1>b, <2>0, <3>1, <3>2, <3>3
  <2> QED
    BY <1>6, <2>1, <2>2
<1>7. ASSUME Watch!HeartbeatExpires \/ Watch!DebounceExpires PROVE Fine
  <2>1. /\ v1' = v1 /\ v2' = v2 /\ v3' = v3 /\ v6' = v6 /\ v7' = v7 /\ v8' = v8 /\ v9' = v9
        /\ v10' = v10
        /\ v4' \in BOOLEAN /\ v5' \in BOOLEAN
    BY <1>7, <1>a DEF Watch!HeartbeatExpires, Watch!DebounceExpires, Watch!worldVars
  <2> QED
    BY <2>1, <1>a, <1>b
<1>8. ASSUME Watch!FileEvent PROVE Fine
  <2>1. /\ v1' = v1 /\ v3' = v3 /\ v4' = v4 /\ v5' = v5 /\ v6' = v6 /\ v7' = v7 /\ v8' = v8
        /\ v9' = v9
        /\ v10' = v10
        /\ v2' = [p \in Process |-> IF v1[p] = "alive" /\ v2[p] = "off" THEN "armed" ELSE v2[p]]
    BY <1>8 DEF Watch!FileEvent, Watch!worldVars, Watch!keyVars
  <2>2. v2' \in [Process -> {"off", "armed", "fired"}]
    BY <2>1, <1>a
  <2>3. ~ v8' => \A p \in Process : v1'[p] = "none" /\ v2'[p] = "off"
    BY <2>1, <1>b
  <2> QED
    BY <2>1, <2>2, <2>3, <1>a, <1>b
<1>9. ASSUME Watch!FolderLost PROVE Fine
  <2>1. /\ v1' = v1 /\ v2' = v2 /\ v3' = v3 /\ v4' = v4 /\ v5' = v5 /\ v7' = v7 /\ v8' = v8
        /\ v9' = v9
        /\ v6' \in BOOLEAN /\ v10' \in 0 .. MaxWatcherFaults
    BY <1>9, <1>c DEF Watch!FolderLost, Watch!keyVars
  <2> QED
    BY <2>1, <1>a, <1>b
<1>10. ASSUME Watch!FolderBack PROVE Fine
  <2>1. /\ v1' = v1 /\ v2' = v2 /\ v3' = v3 /\ v4' = v4 /\ v5' = v5 /\ v7' = v7 /\ v8' = v8
        /\ v9' = v9
        /\ v10' = v10 /\ v6' \in BOOLEAN
    BY <1>10 DEF Watch!FolderBack, Watch!keyVars
  <2> QED
    BY <2>1, <1>a, <1>b
<1>11. ASSUME Watch!Block PROVE Fine
  <2>1. /\ v1' = v1 /\ v2' = v2 /\ v3' = v3 /\ v4' = v4 /\ v5' = v5 /\ v6' = v6 /\ v8' = v8
        /\ v9' = v9
        /\ v10' = v10 /\ v7' = ~ v7
    BY <1>11 DEF Watch!Block, Watch!keyVars
  <2>2. v7' \in BOOLEAN
    BY <2>1
  <2> QED
    BY <2>1, <2>2, <1>a, <1>b
<1> HIDE DEF Fine
<1> QED
  BY <1>g, <1>1, <1>2, <1>3, <1>4, <1>5, <1>6, <1>7, <1>8, <1>9, <1>10, <1>11, <1>12
     DEF Watch!Next

(***************************************************************************)
(* Beets configuration editor (PUT /config)                                *)
(***************************************************************************)

\* An option of a form and of a file, one by one.
LEMMA ConfigOptions ==
  /\ Config!Option = {"directory", "log", "replace", "item_fields", "backend"}
  /\ Config!Modelled = {"directory", "log", "replace", "item_fields"}
  /\ Config!NoFields = {"absent"}
  /\ Config!Default["directory"] = "" /\ Config!Default["log"] = "absent"
  /\ Config!Default["replace"] = "defaults" /\ Config!Default["item_fields"] = {"multidisc"}
  /\ Config!Empty["directory"] = "absent" /\ Config!Empty["log"] = "absent"
  /\ Config!Empty["replace"] = "absent" /\ Config!Empty["item_fields"] = {"absent"}
  /\ Config!Empty["backend"] = "absent"
<1>1. /\ Config!Option = {"directory", "log", "replace", "item_fields", "backend"}
      /\ Config!Modelled = {"directory", "log", "replace", "item_fields"}
      /\ Config!NoFields = {"absent"}
  BY DEF Config!Option, Config!Modelled, Config!NoFields, Config!Absent
<1>2. /\ Config!Default["directory"] = "" /\ Config!Default["log"] = "absent"
      /\ Config!Default["replace"] = "defaults" /\ Config!Default["item_fields"] = {"multidisc"}
  BY DEF Config!Default, Config!Absent
<1>3. /\ Config!Empty["directory"] = "absent" /\ Config!Empty["log"] = "absent"
      /\ Config!Empty["replace"] = "absent" /\ Config!Empty["item_fields"] = {"absent"}
      /\ Config!Empty["backend"] = "absent"
  BY DEF Config!Empty, Config!Absent, Config!NoFields
<1> QED
  BY <1>1, <1>2, <1>3

\* The default form and the empty file have the options of their kind.
LEMMA ConfigDomains ==
  /\ Config!Default = [k \in Config!Modelled |-> Config!Default[k]]
  /\ Config!Empty = [k \in Config!Option |-> Config!Empty[k]]
<1>1. Config!Default = [k \in Config!Modelled |-> Config!Default[k]]
  BY DEF Config!Default, Config!Modelled
<1>2. Config!Empty = [k \in Config!Option |-> Config!Empty[k]]
  BY DEF Config!Empty, Config!Option, Config!Modelled
<1> QED
  BY <1>1, <1>2

\* What an option of a form, and of a file, may be.
LEMMA ConfigValues ==
  /\ Config!InForm("directory") = {"", "x", "y"} /\ Config!InForm("log") = {"absent", "l"}
  /\ Config!InForm("replace") = {"defaults", "rules", "none"}
  /\ Config!InForm("item_fields") = SUBSET {"multidisc", "own"}
  /\ Config!FileValue("directory") = {"", "x", "y", "absent"}
  /\ Config!FileValue("log") = {"absent", "l", ""}
  /\ Config!FileValue("replace") = {"defaults", "rules", "none", "absent", "malformed"}
  /\ Config!FileValue("item_fields") = (SUBSET {"multidisc", "own"}) \cup {{"absent"}}
  /\ Config!FileValue("backend") = {"absent", "b"}
<1>1. /\ Config!InForm("directory") = {"", "x", "y"} /\ Config!InForm("log") = {"absent", "l"}
      /\ Config!InForm("replace") = {"defaults", "rules", "none"}
      /\ Config!InForm("item_fields") = SUBSET {"multidisc", "own"}
  BY DEF Config!InForm, Config!Absent
<1>2. Config!InFile("backend") = {"absent", "b"}
  BY DEF Config!InFile, Config!Absent
<1>3. Config!InFile("directory") = {"", "x", "y", "absent"}
  BY <1>1 DEF Config!InFile, Config!Absent
<1>4. Config!InFile("log") = {"absent", "l", ""}
  BY <1>1 DEF Config!InFile, Config!Absent
<1>5. Config!InFile("replace") = {"defaults", "rules", "none", "absent", "malformed"}
  BY <1>1 DEF Config!InFile, Config!Absent
<1>6. Config!FileValue("item_fields") = (SUBSET {"multidisc", "own"}) \cup {{"absent"}}
  <2>1. Config!FileValue("item_fields") = Config!InForm("item_fields") \cup {{"absent"}}
    BY DEF Config!FileValue, Config!NoFields, Config!Absent
  <2>2. Config!InForm("item_fields") = SUBSET {"multidisc", "own"}
    BY <1>1
  <2> QED
    BY <2>1, <2>2, Zenon
<1>7. \A k \in {"directory", "log", "replace", "backend"} : Config!FileValue(k) = Config!InFile(k)
  BY DEF Config!FileValue
<1> QED
  BY <1>1, <1>2, <1>3, <1>4, <1>5, <1>6, <1>7

\* What the editor shows of a file, option by option.
LEMMA ConfigView == ASSUME NEW opts PROVE
  /\ Config!View(opts) = [k \in Config!Modelled |-> Config!View(opts)[k]]
  /\ Config!View(opts)["directory"] = (IF opts["directory"] = "absent" THEN "" ELSE opts["directory"])
  /\ Config!View(opts)["log"] =
       (IF opts["log"] = "absent" THEN "absent" ELSE IF opts["log"] = "" THEN "absent" ELSE opts["log"])
  /\ Config!View(opts)["replace"] =
       (IF opts["replace"] = "absent" THEN "defaults"
        ELSE IF opts["replace"] = "malformed" THEN "none" ELSE opts["replace"])
  /\ Config!View(opts)["item_fields"] =
       (IF opts["item_fields"] = {"absent"} THEN {"multidisc"} ELSE opts["item_fields"])
<1>1. Config!View(opts) = [k \in Config!Modelled |-> Config!View(opts)[k]]
  BY DEF Config!View
<1> DEFINE Shown(k) == CASE opts[k] = Config!Empty[k]          -> Config!Default[k]
                         [] k = "log" /\ opts[k] = ""         -> "absent"
                         [] k = "replace" /\ opts[k] = "malformed" -> "none"
                         [] OTHER                             -> opts[k]
<1>2. \A k \in Config!Modelled : Config!View(opts)[k] = Shown(k)
  BY DEF Config!View, Config!Absent
<1>3. {"directory", "log", "replace", "item_fields"} \subseteq Config!Modelled
  BY ConfigOptions
<1>4. Shown("directory") = IF opts["directory"] = "absent" THEN "" ELSE opts["directory"]
  <2>1. Config!Empty["directory"] = "absent" /\ Config!Default["directory"] = ""
    BY ConfigOptions
  <2> QED
    BY <2>1
<1>5. Shown("log") = IF opts["log"] = "absent" THEN "absent" ELSE IF opts["log"] = "" THEN "absent" ELSE opts["log"]
  <2>1. Config!Empty["log"] = "absent" /\ Config!Default["log"] = "absent"
    BY ConfigOptions
  <2> QED
    BY <2>1
<1>6. Shown("replace") = IF opts["replace"] = "absent" THEN "defaults"
                         ELSE IF opts["replace"] = "malformed" THEN "none" ELSE opts["replace"]
  <2>1. Config!Empty["replace"] = "absent" /\ Config!Default["replace"] = "defaults"
    BY ConfigOptions
  <2> QED
    BY <2>1
<1>7. Shown("item_fields") = IF opts["item_fields"] = {"absent"} THEN {"multidisc"} ELSE opts["item_fields"]
  <2>1. Config!Empty["item_fields"] = {"absent"} /\ Config!Default["item_fields"] = {"multidisc"}
    BY ConfigOptions
  <2> QED
    BY <2>1
<1> HIDE DEF Shown
<1>8. /\ Config!View(opts)["directory"] = Shown("directory")
      /\ Config!View(opts)["log"] = Shown("log")
      /\ Config!View(opts)["replace"] = Shown("replace")
      /\ Config!View(opts)["item_fields"] = Shown("item_fields")
  BY <1>2, <1>3
<1> DEFINE view == Config!View(opts)
<1> HIDE DEF view
<1>9. /\ view["directory"] = (IF opts["directory"] = "absent" THEN "" ELSE opts["directory"])
      /\ view["log"] =
           (IF opts["log"] = "absent" THEN "absent" ELSE IF opts["log"] = "" THEN "absent" ELSE opts["log"])
      /\ view["replace"] =
           (IF opts["replace"] = "absent" THEN "defaults"
            ELSE IF opts["replace"] = "malformed" THEN "none" ELSE opts["replace"])
      /\ view["item_fields"] = (IF opts["item_fields"] = {"absent"} THEN {"multidisc"} ELSE opts["item_fields"])
  BY <1>4, <1>5, <1>6, <1>7, <1>8 DEF view
<1> QED
  BY <1>1, <1>9 DEF view

\* What a save writes over the options it read, option by option.
LEMMA ConfigMerge == ASSUME NEW opts, NEW base, NEW form PROVE
  /\ Config!Merge(opts, base, form) = [k \in Config!Option |-> Config!Merge(opts, base, form)[k]]
  /\ \A k \in {"directory", "log", "replace"} :
       Config!Merge(opts, base, form)[k] = IF form[k] # base[k] THEN form[k] ELSE opts[k]
  /\ Config!Merge(opts, base, form)["item_fields"] =
       Config!MergeFields(opts["item_fields"], base["item_fields"], form["item_fields"])
  /\ Config!Merge(opts, base, form)["backend"] = opts["backend"]
<1>1. Config!Merge(opts, base, form) = [k \in Config!Option |-> Config!Merge(opts, base, form)[k]]
  BY DEF Config!Merge
<1>2. /\ Config!Option = {"directory", "log", "replace", "item_fields", "backend"}
      /\ Config!Modelled = {"directory", "log", "replace", "item_fields"}
  BY ConfigOptions
<1> DEFINE Merged(k) == CASE k = "item_fields" -> Config!MergeFields(opts[k], base[k], form[k])
                          [] k \in Config!Modelled \ {"item_fields"} -> IF form[k] # base[k] THEN form[k] ELSE opts[k]
                          [] OTHER -> opts[k]
<1>3. \A k \in Config!Option : Config!Merge(opts, base, form)[k] = Merged(k)
  BY DEF Config!Merge
<1>4. \A k \in {"directory", "log", "replace"} : Merged(k) = IF form[k] # base[k] THEN form[k] ELSE opts[k]
  BY <1>2
<1>5. Merged("item_fields") = Config!MergeFields(opts["item_fields"], base["item_fields"], form["item_fields"])
  OBVIOUS
<1>6. Merged("backend") = opts["backend"]
  BY <1>2
<1> HIDE DEF Merged
<1> QED
  BY <1>1, <1>2, <1>3, <1>4, <1>5, <1>6

\* A file written anew holds the options of the form and no other.
LEMMA ConfigSerialized == ASSUME NEW form PROVE
  /\ Config!Serialized(form) = [k \in Config!Option |-> Config!Serialized(form)[k]]
  /\ \A k \in Config!Modelled : Config!Serialized(form)[k] = form[k]
  /\ Config!Serialized(form)["backend"] = "absent"
<1>1. Config!Serialized(form) = [k \in Config!Option |-> Config!Serialized(form)[k]]
  BY DEF Config!Serialized
<1>2. /\ Config!Option = {"directory", "log", "replace", "item_fields", "backend"}
      /\ Config!Modelled = {"directory", "log", "replace", "item_fields"}
  BY ConfigOptions
<1>3. \A k \in Config!Option : Config!Serialized(form)[k] = IF k \in Config!Modelled THEN form[k] ELSE "absent"
  BY DEF Config!Serialized, Config!Absent
<1> QED
  BY <1>1, <1>2, <1>3

\* A form and a file, option by option.
LEMMA ConfigForms == ASSUME NEW opts PROVE
  /\ Config!ValidForm(opts) <=>
       /\ opts = [k \in Config!Modelled |-> opts[k]]
       /\ opts["directory"] \in {"", "x", "y"} /\ opts["log"] \in {"absent", "l"}
       /\ opts["replace"] \in {"defaults", "rules", "none"}
       /\ opts["item_fields"] \subseteq {"multidisc", "own"}
  /\ Config!ValidFile(opts) <=>
       /\ opts = [k \in Config!Option |-> opts[k]]
       /\ opts["directory"] \in {"", "x", "y", "absent"} /\ opts["log"] \in {"absent", "l", ""}
       /\ opts["replace"] \in {"defaults", "rules", "none", "absent", "malformed"}
       /\ opts["item_fields"] \subseteq {"multidisc", "own"} \/ opts["item_fields"] = {"absent"}
       /\ opts["backend"] \in {"absent", "b"}
<1>1. /\ Config!Option = {"directory", "log", "replace", "item_fields", "backend"}
      /\ Config!Modelled = {"directory", "log", "replace", "item_fields"}
  BY ConfigOptions
<1>2. (\A k \in Config!Modelled : opts[k] \in Config!InForm(k)) <=>
        /\ opts["directory"] \in Config!InForm("directory") /\ opts["log"] \in Config!InForm("log")
        /\ opts["replace"] \in Config!InForm("replace")
        /\ opts["item_fields"] \in Config!InForm("item_fields")
  BY <1>1
<1>3. (\A k \in Config!Option : opts[k] \in Config!FileValue(k)) <=>
        /\ opts["directory"] \in Config!FileValue("directory")
        /\ opts["log"] \in Config!FileValue("log")
        /\ opts["replace"] \in Config!FileValue("replace")
        /\ opts["item_fields"] \in Config!FileValue("item_fields")
        /\ opts["backend"] \in Config!FileValue("backend")
  BY <1>1
<1>4. \A x : x \in (SUBSET {"multidisc", "own"}) \cup {{"absent"}} <=> x \subseteq {"multidisc", "own"} \/ x = {"absent"}
  OBVIOUS
<1>5. Config!ValidForm(opts) <=> /\ opts = [k \in Config!Modelled |-> opts[k]]
                                /\ \A k \in Config!Modelled : opts[k] \in Config!InForm(k)
  BY DEF Config!ValidForm
<1>6. Config!ValidFile(opts) <=> /\ opts = [k \in Config!Option |-> opts[k]]
                                /\ \A k \in Config!Option : opts[k] \in Config!FileValue(k)
  BY DEF Config!ValidFile
<1>7. (\A k \in Config!Modelled : opts[k] \in Config!InForm(k)) <=>
        /\ opts["directory"] \in {"", "x", "y"} /\ opts["log"] \in {"absent", "l"}
        /\ opts["replace"] \in {"defaults", "rules", "none"}
        /\ opts["item_fields"] \subseteq {"multidisc", "own"}
  BY <1>2, ConfigValues
<1>8. (\A k \in Config!Option : opts[k] \in Config!FileValue(k)) <=>
        /\ opts["directory"] \in {"", "x", "y", "absent"} /\ opts["log"] \in {"absent", "l", ""}
        /\ opts["replace"] \in {"defaults", "rules", "none", "absent", "malformed"}
        /\ opts["item_fields"] \subseteq {"multidisc", "own"} \/ opts["item_fields"] = {"absent"}
        /\ opts["backend"] \in {"absent", "b"}
  <2>1. opts["item_fields"] \in Config!FileValue("item_fields") <=>
          opts["item_fields"] \subseteq {"multidisc", "own"} \/ opts["item_fields"] = {"absent"}
    BY <1>4, ConfigValues, Zenon
  <2>2. /\ Config!FileValue("directory") = {"", "x", "y", "absent"}
        /\ Config!FileValue("log") = {"absent", "l", ""}
        /\ Config!FileValue("replace") = {"defaults", "rules", "none", "absent", "malformed"}
        /\ Config!FileValue("backend") = {"absent", "b"}
    BY ConfigValues
  <2> QED
    BY <1>3, <2>1, <2>2
<1> QED
  BY <1>5, <1>6, <1>7, <1>8

\* What the editor shows of a file is a form, and what a save writes is a file.
LEMMA ConfigShown == ASSUME NEW opts, Config!ValidFile(opts) PROVE Config!ValidForm(Config!View(opts))
<1> DEFINE view == Config!View(opts)
<1>1. /\ view = [k \in Config!Modelled |-> view[k]]
      /\ view["directory"] = (IF opts["directory"] = "absent" THEN "" ELSE opts["directory"])
      /\ view["log"] =
           (IF opts["log"] = "absent" THEN "absent" ELSE IF opts["log"] = "" THEN "absent" ELSE opts["log"])
      /\ view["replace"] =
           (IF opts["replace"] = "absent" THEN "defaults"
            ELSE IF opts["replace"] = "malformed" THEN "none" ELSE opts["replace"])
      /\ view["item_fields"] = (IF opts["item_fields"] = {"absent"} THEN {"multidisc"} ELSE opts["item_fields"])
  BY ConfigView
<1> HIDE DEF view
<1>2. /\ opts["directory"] \in {"", "x", "y", "absent"} /\ opts["log"] \in {"absent", "l", ""}
      /\ opts["replace"] \in {"defaults", "rules", "none", "absent", "malformed"}
      /\ opts["item_fields"] \subseteq {"multidisc", "own"} \/ opts["item_fields"] = {"absent"}
  BY ConfigForms
<1>3. /\ view["directory"] \in {"", "x", "y"} /\ view["log"] \in {"absent", "l"}
      /\ view["replace"] \in {"defaults", "rules", "none"}
  BY <1>1, <1>2
<1>4. view["item_fields"] \subseteq {"multidisc", "own"}
  BY <1>1, <1>2
<1>5. Config!ValidForm(view)
  BY <1>1, <1>3, <1>4, ConfigForms
<1> QED
  BY <1>5 DEF view

\* Sections entry by entry: what was changed is written.
LEMMA ConfigFields ==
  ASSUME NEW fields, NEW base, NEW form, form \subseteq {"multidisc", "own"},
         fields \subseteq {"multidisc", "own"} \/ fields = {"absent"},
         fields = {"absent"} => base = {"multidisc"}, fields # {"absent"} => base = fields
  PROVE  /\ \/ Config!MergeFields(fields, base, form) \subseteq {"multidisc", "own"}
            \/ Config!MergeFields(fields, base, form) = {"absent"}
         /\ fields # {"absent"} => Config!MergeFields(fields, base, form) = form
         /\ form = base => Config!MergeFields(fields, base, form) = fields
<1>1. Config!NoFields = {"absent"}
  BY ConfigOptions
<1> DEFINE raw == ((fields \ {"absent"}) \cup (form \ base)) \ (base \ form)
<1>2. Config!MergeFields(fields, base, form) = IF raw = {} /\ fields = {"absent"} THEN {"absent"} ELSE raw
  BY <1>1 DEF Config!MergeFields
<1>3. CASE fields = {"absent"}
  <2>1. base = {"multidisc"}
    BY <1>3
  <2>2. raw = (form \ base) \ (base \ form)
    BY <1>3
  <2>3. raw \subseteq {"multidisc", "own"}
    BY <2>2
  <2>4. form = base => raw = {}
    BY <2>2
  <2> HIDE DEF raw
  <2> QED
    BY <1>2, <1>3, <2>3, <2>4
<1>4. CASE fields # {"absent"} /\ fields \subseteq {"multidisc", "own"}
  <2>1. base = fields
    BY <1>4
  <2>2. "absent" \notin fields
    BY <1>4
  <2>3. raw = form
    BY <2>1, <2>2
  <2> HIDE DEF raw
  <2> QED
    BY <1>2, <1>4, <2>1, <2>3
<1> QED
  BY <1>3, <1>4

\* Whatever a save writes is a file that can be read.
LEMMA ConfigSaved == ASSUME NEW opts, NEW form, Config!ValidFile(opts), Config!ValidForm(form)
                     PROVE  Config!ValidFile(Config!Saved(opts, form))
<1>1. CASE opts = Config!Empty
  <2>1. Config!Saved(opts, form) = Config!Serialized(form)
    BY <1>1 DEF Config!Saved
  <2> DEFINE new == Config!Serialized(form)
  <2>2. /\ new = [k \in Config!Option |-> new[k]] /\ new["backend"] = "absent"
        /\ \A k \in {"directory", "log", "replace", "item_fields"} : new[k] = form[k]
    BY ConfigSerialized, ConfigOptions
  <2> HIDE DEF new
  <2>3. /\ form["directory"] \in {"", "x", "y"} /\ form["log"] \in {"absent", "l"}
        /\ form["replace"] \in {"defaults", "rules", "none"}
        /\ form["item_fields"] \subseteq {"multidisc", "own"}
    BY ConfigForms
  <2>4. /\ new["directory"] \in {"", "x", "y", "absent"} /\ new["log"] \in {"absent", "l", ""}
        /\ new["replace"] \in {"defaults", "rules", "none", "absent", "malformed"}
        /\ new["item_fields"] \subseteq {"multidisc", "own"} /\ new["backend"] \in {"absent", "b"}
    BY <2>2, <2>3
  <2>5. Config!ValidFile(new)
    BY <2>2, <2>4, ConfigForms
  <2> QED
    BY <2>1, <2>5 DEF new
<1>2. CASE opts # Config!Empty
  <2> DEFINE base == Config!View(opts)
             new == Config!Merge(opts, base, form)
  <2>1. Config!Saved(opts, form) = new
    BY <1>2 DEF Config!Saved
  <2>2. base["item_fields"] = IF opts["item_fields"] = {"absent"} THEN {"multidisc"} ELSE opts["item_fields"]
    BY ConfigView
  <2>3. /\ new = [k \in Config!Option |-> new[k]]
        /\ \A k \in {"directory", "log", "replace"} : new[k] = IF form[k] # base[k] THEN form[k] ELSE opts[k]
        /\ new["item_fields"] = Config!MergeFields(opts["item_fields"], base["item_fields"], form["item_fields"])
        /\ new["backend"] = opts["backend"]
    BY ConfigMerge
  <2>4. /\ form["item_fields"] \subseteq {"multidisc", "own"}
        /\ opts["item_fields"] \subseteq {"multidisc", "own"} \/ opts["item_fields"] = {"absent"}
    BY ConfigForms
  <2> HIDE DEF base, new
  <2>5. new["item_fields"] \subseteq {"multidisc", "own"} \/ new["item_fields"] = {"absent"}
    BY <2>2, <2>3, <2>4, ConfigFields
  <2>6. /\ new["directory"] \in {"", "x", "y", "absent"} /\ new["log"] \in {"absent", "l", ""}
        /\ new["replace"] \in {"defaults", "rules", "none", "absent", "malformed"}
        /\ new["backend"] \in {"absent", "b"}
    BY <2>3, ConfigForms
  <2>7. Config!ValidFile(new)
    BY <2>3, <2>5, <2>6, ConfigForms
  <2> QED
    BY <2>1, <2>7
<1> QED
  BY <1>1, <1>2

\* The default is a form and the empty file a file.
LEMMA ConfigConstants ==
  /\ Config!ValidForm(Config!Default) /\ Config!ValidFile(Config!Empty)
<1>1. /\ Config!Default["directory"] = "" /\ Config!Default["log"] = "absent"
      /\ Config!Default["replace"] = "defaults" /\ Config!Default["item_fields"] = {"multidisc"}
  BY ConfigOptions
<1>2. /\ Config!Empty["directory"] = "absent" /\ Config!Empty["log"] = "absent"
      /\ Config!Empty["replace"] = "absent" /\ Config!Empty["item_fields"] = {"absent"}
      /\ Config!Empty["backend"] = "absent"
  BY ConfigOptions
<1>3. Config!ValidForm(Config!Default)
  BY <1>1, ConfigDomains, ConfigForms
<1>4. Config!ValidFile(Config!Empty)
  BY <1>2, ConfigDomains, ConfigForms
<1> QED
  BY <1>3, <1>4

\* No editor is at work, and the file has no options unless it is YAML.
LEMMA ConfigInit == Config!Init => Config!ConfigInv
<1> SUFFICES ASSUME Config!Init PROVE Config!ConfigInv
  OBVIOUS
<1>1. /\ v1 = [kind |-> v1.kind, opts |-> v1.opts] /\ v1.kind \in {"yaml", "none", "unparsable"}
      /\ Config!ValidFile(v1.opts) /\ (v1.kind # "yaml" => v1.opts = Config!Empty)
  <2>1. CASE v1 \in {Config!NoFile, Config!Unparsable}
    BY <2>1, ConfigConstants DEF Config!NoFile, Config!Unparsable
  <2>2. ASSUME NEW d \in Config!InFile("directory"), NEW l \in Config!InFile("log"),
               NEW r \in Config!InFile("replace"), NEW i \in Config!InFile("item_fields"),
               NEW b \in Config!InFile("backend"),
               v1 = Config!Yaml([directory |-> d, log |-> l, replace |-> r, item_fields |-> i, backend |-> b])
        PROVE  /\ v1 = [kind |-> v1.kind, opts |-> v1.opts] /\ v1.kind = "yaml"
               /\ Config!ValidFile(v1.opts)
    <3> DEFINE new == [directory |-> d, log |-> l, replace |-> r, item_fields |-> i, backend |-> b]
    <3>1. /\ new["directory"] = d /\ new["log"] = l /\ new["replace"] = r /\ new["item_fields"] = i
          /\ new["backend"] = b
      OBVIOUS
    <3>2. new = [k \in {"directory", "log", "replace", "item_fields", "backend"} |-> new[k]]
      OBVIOUS
    <3>3. /\ d \in Config!FileValue("directory") /\ l \in Config!FileValue("log")
          /\ r \in Config!FileValue("replace") /\ b \in Config!FileValue("backend")
      BY DEF Config!FileValue
    <3>4. i \in Config!FileValue("item_fields")
      BY ConfigValues DEF Config!InFile, Config!NoFields, Config!Absent
    <3> HIDE DEF new
    <3>5. \A k \in {"directory", "log", "replace", "item_fields", "backend"} : new[k] \in Config!FileValue(k)
      BY <3>1, <3>3, <3>4
    <3>6. Config!ValidFile(new)
      BY <3>2, <3>5, ConfigOptions DEF Config!ValidFile
    <3>7. v1 = [kind |-> "yaml", opts |-> new]
      BY <2>2 DEF Config!Yaml, new
    <3> QED
      BY <3>6, <3>7
  <2> QED
    BY <2>1, <2>2 DEF Config!Init
<1> DEFINE idle == [pc |-> "idle", loaded |-> Config!Default, sent |-> Config!Default,
                    read |-> Config!Empty, stale |-> FALSE]
<1>2. v2 = [e \in Editor |-> idle] /\ v3 = 0
  BY DEF Config!Init, Config!Idle
<1>3. /\ idle.pc = "idle" /\ idle.loaded = Config!Default /\ idle.sent = Config!Default
      /\ idle.read = Config!Empty /\ idle.stale = FALSE
  OBVIOUS
<1>7. DOMAIN idle = {"pc", "loaded", "sent", "read", "stale"}
  OBVIOUS
<1> HIDE DEF idle
<1>4. 0 \in 0 .. MaxFileChanges
  BY CountAssumption DEF CountAssumption
<1>5. \A e \in Editor : v2[e] = idle
  BY <1>2
<1>6. Config!TypeOK
  BY <1>1, <1>2, <1>3, <1>4, <1>5, <1>7, ConfigConstants DEF Config!TypeOK
<1> QED
  BY <1>1, <1>3, <1>5, <1>6 DEF Config!ConfigInv

\* Every step of an editor and every change from outside keeps the invariant.
LEMMA ConfigStep == Config!ConfigInv /\ Config!Next => Config!ConfigInv'
<1> SUFFICES ASSUME Config!ConfigInv, Config!Next PROVE Config!ConfigInv'
  OBVIOUS
<1> DEFINE FileOK(f) == /\ f = [kind |-> f.kind, opts |-> f.opts] /\ f.kind \in {"yaml", "none", "unparsable"}
                        /\ Config!ValidFile(f.opts) /\ (f.kind # "yaml" => f.opts = Config!Empty)
           RecOK(r) == /\ DOMAIN r = {"pc", "loaded", "sent", "read", "stale"}
                       /\ r.pc \in {"idle", "editing", "merging"} /\ r.stale \in BOOLEAN
                       /\ Config!ValidFile(r.read) /\ Config!ValidForm(r.loaded)
                       /\ Config!ValidForm(r.sent)
           Current(r, f) == r.pc # "idle" /\ ~ r.stale =>
                              /\ f.kind = "yaml" /\ r.loaded = Config!View(f.opts)
                              /\ r.pc = "merging" => r.read = f.opts
           Good(r, f) == RecOK(r) /\ Current(r, f)
           Fine == /\ FileOK(v1') /\ v2' = [e \in Editor |-> v2'[e]] /\ v3' \in 0 .. MaxFileChanges
                   /\ \A e \in Editor : Good(v2'[e], v1')
<1>a. /\ FileOK(v1) /\ v2 = [e \in Editor |-> v2[e]] /\ v3 \in 0 .. MaxFileChanges
      /\ \A e \in Editor : Good(v2[e], v1)
  BY DEF Config!ConfigInv, Config!TypeOK
<1>b. Fine => Config!ConfigInv'
  BY DEF Config!ConfigInv, Config!TypeOK
<1>c. Good(Config!Idle, v1) /\ RecOK(Config!Idle) /\ Config!Idle.pc = "idle" /\ ~ Config!Idle.stale
  BY ConfigConstants DEF Config!Idle
\* A step of the editor e that leaves the file: it is enough to look at its record.
<1>d. ASSUME NEW e \in Editor, NEW r, v2' = [v2 EXCEPT ![e] = r], v1' = v1, v3' = v3, Good(r, v1)
      PROVE  Fine
  <2> HIDE DEF Good, FileOK
  <2>1. v2' = [d \in Editor |-> IF d = e THEN r ELSE v2[d]]
    BY <1>a, <1>d
  <2>2. \A d \in Editor : Good(v2'[d], v1)
    BY <1>a, <1>d, <2>1
  <2>3. v2' = [d \in Editor |-> v2'[d]]
    BY <2>1
  <2> QED
    BY <1>a, <1>d, <2>2, <2>3
\* The file changes: what the others loaded is stale.
<1>e. /\ Config!Ageing = [e \in Editor |-> Config!Ageing[e]]
      /\ \A e \in Editor : \A f : Good(Config!Ageing[e], f)
  <2>1. Config!Ageing = [e \in Editor |-> IF v2[e].pc = "idle" THEN v2[e] ELSE [v2[e] EXCEPT !.stale = TRUE]]
    BY DEF Config!Ageing
  <2>2. ASSUME NEW e \in Editor, NEW f PROVE Good(Config!Ageing[e], f)
    <3>1. RecOK(v2[e])
      BY <1>a
    <3>2. CASE v2[e].pc = "idle"
      BY <2>1, <3>1, <3>2
    <3>3. CASE v2[e].pc # "idle"
      <4> DEFINE r == [v2[e] EXCEPT !.stale = TRUE]
      <4>1. /\ DOMAIN r = DOMAIN v2[e] /\ r.pc = v2[e].pc /\ r.read = v2[e].read
            /\ r.loaded = v2[e].loaded
            /\ r.sent = v2[e].sent /\ r.stale = TRUE
        BY <3>1
      <4>2. Config!Ageing[e] = r
        BY <2>1, <3>3
      <4> HIDE DEF r
      <4> QED
        BY <3>1, <4>1, <4>2
    <3> QED
      BY <3>2, <3>3
  <2> QED
    BY <2>1, <2>2
<1>1. ASSUME NEW e \in Editor, Config!Load(e) PROVE Fine
  <2> DEFINE view == Config!View(v1.opts)
             r == [Config!Idle EXCEPT !.pc = "editing", !.loaded = view, !.sent = view]
  <2>1. v2' = [v2 EXCEPT ![e] = r] /\ v1' = v1 /\ v3' = v3 /\ v1.kind = "yaml"
    BY <1>1 DEF Config!Load
  <2>2. Config!ValidForm(view)
    BY <1>a, ConfigShown
  <2>3. /\ DOMAIN r = DOMAIN Config!Idle /\ r.pc = "editing" /\ r.loaded = view /\ r.sent = view
        /\ r.read = Config!Idle.read /\ r.stale = Config!Idle.stale
    <3> HIDE DEF view
    <3> QED
      BY <1>c
  <2> HIDE DEF r
  <2>4. Good(r, v1)
    BY <1>c, <2>1, <2>2, <2>3
  <2> HIDE DEF Good, Fine
  <2> QED
    BY <1>d, <2>1, <2>4
<1>2. ASSUME NEW e \in Editor, NEW k \in Config!Modelled, NEW v \in Config!InForm(k), Config!Change(e, k, v)
      PROVE  Fine
  <2> DEFINE old == v2[e]
             form == [old.sent EXCEPT ![k] = v]
             r == [old EXCEPT !.sent = form]
  <2>0. RecOK(old) /\ Current(old, v1)
    BY <1>a
  <2>1. v2' = [v2 EXCEPT ![e].sent[k] = v] /\ v1' = v1 /\ v3' = v3 /\ old.pc = "editing"
    BY <1>2 DEF Config!Change
  <2>2. v2' = [v2 EXCEPT ![e] = r]
    BY <2>1, <1>a
  <2>3. Config!ValidForm(form)
    <3>1. /\ old.sent = [j \in Config!Modelled |-> old.sent[j]]
          /\ \A j \in Config!Modelled : old.sent[j] \in Config!InForm(j)
      BY <2>0 DEF Config!ValidForm
    <3>2. form = [j \in Config!Modelled |-> IF j = k THEN v ELSE old.sent[j]]
      BY <3>1
    <3>3. /\ form = [j \in Config!Modelled |-> form[j]]
          /\ \A j \in Config!Modelled : form[j] \in Config!InForm(j)
      BY <1>2, <3>1, <3>2
    <3> QED
      BY <3>3 DEF Config!ValidForm
  <2>4. /\ DOMAIN r = DOMAIN old /\ r.pc = old.pc /\ r.loaded = old.loaded /\ r.sent = form
        /\ r.read = old.read /\ r.stale = old.stale
    <3> HIDE DEF form, old
    <3> QED
      BY <2>0
  <2> HIDE DEF r, form
  <2>5. Good(r, v1)
    <3> HIDE DEF old
    <3> QED
      BY <2>0, <2>3, <2>4
  <2> HIDE DEF Good, Fine
  <2> QED
    BY <1>d, <2>1, <2>2, <2>5
<1>3. ASSUME NEW e \in Editor, Config!ReadForMerge(e) PROVE Fine
  <2> DEFINE old == v2[e]
             r == [old EXCEPT !.pc = "merging", !.read = v1.opts]
  <2>0. RecOK(old) /\ Current(old, v1) /\ old.pc = "editing" /\ v1' = v1 /\ v3' = v3
    BY <1>3, <1>a DEF Config!ReadForMerge
  <2>1. v2' = [v2 EXCEPT ![e] = Config!Idle] \/ v2' = [v2 EXCEPT ![e] = r]
    BY <1>3, <1>a DEF Config!ReadForMerge
  <2>2. /\ DOMAIN r = DOMAIN old /\ r.pc = "merging" /\ r.loaded = old.loaded /\ r.sent = old.sent
        /\ r.read = v1.opts /\ r.stale = old.stale
    <3> HIDE DEF old
    <3> QED
      BY <2>0
  <2> HIDE DEF r
  <2>3. Good(r, v1)
    <3> HIDE DEF old
    <3> QED
      BY <1>a, <2>0, <2>2
  <2> HIDE DEF Good, Fine
  <2> QED
    BY <1>c, <1>d, <2>0, <2>1, <2>3
<1>4. ASSUME NEW e \in Editor, Config!WriteMerged(e) PROVE Fine
  <2> DEFINE new == Config!Saved(v2[e].read, v2[e].sent)
  <2>1. /\ v1' = [kind |-> "yaml", opts |-> new] /\ v2' = [Config!Ageing EXCEPT ![e] = Config!Idle]
        /\ v3' = v3
    BY <1>4 DEF Config!WriteMerged, Config!Yaml
  <2>2. Config!ValidFile(new)
    BY <1>a, ConfigSaved
  <2> HIDE DEF new
  <2>3. FileOK(v1')
    BY <2>1, <2>2
  <2>4. Good(Config!Idle, v1')
    BY <1>c
  <2> HIDE DEF Good, FileOK
  <2>5. v2' = [d \in Editor |-> IF d = e THEN Config!Idle ELSE Config!Ageing[d]]
    BY <2>1, <1>e
  <2>6. \A d \in Editor : Good(v2'[d], v1')
    BY <1>e, <2>4, <2>5
  <2>7. v2' = [d \in Editor |-> v2'[d]]
    BY <2>5
  <2> QED
    BY <1>a, <2>1, <2>3, <2>6, <2>7
<1>6. ASSUME NEW e \in Editor, Config!WriteFails(e) PROVE Fine
  <2> DEFINE new == Config!Saved(v2[e].read, v2[e].sent)
             Part(kept) == [k \in Config!Option |-> IF k \in kept THEN new[k] ELSE Config!Empty[k]]
  <2>1. /\ v2' = [Config!Ageing EXCEPT ![e].pc = "editing"] /\ v3' \in 0 .. MaxFileChanges
        /\ v2[e].pc = "merging"
    BY <1>6, <1>a, CountAssumption DEF CountAssumption, Config!WriteFails
  <2>2. \/ v1' \in {v1, Config!Unparsable}
        \/ \E kept \in SUBSET Config!Option : v1' = [kind |-> "yaml", opts |-> Part(kept)]
    BY <1>6 DEF Config!WriteFails, Config!Yaml
  <2>3. \A kept \in SUBSET Config!Option : Config!ValidFile(Part(kept))
    <3>1. Config!ValidFile(new) /\ Config!ValidFile(Config!Empty)
      BY <1>a, ConfigSaved, ConfigConstants
    <3> HIDE DEF new
    <3> QED
      BY <3>1 DEF Config!ValidFile
  <2> HIDE DEF Part, new
  <2>4. FileOK(v1')
    <3>1. FileOK(Config!Unparsable)
      BY ConfigConstants DEF Config!Unparsable
    <3>2. ASSUME NEW kept \in SUBSET Config!Option, v1' = [kind |-> "yaml", opts |-> Part(kept)]
          PROVE  FileOK(v1')
      BY <2>3, <3>2
    <3> HIDE DEF FileOK
    <3> QED
      BY <1>a, <2>2, <3>1, <3>2
  <2>5. v2' = [d \in Editor |-> IF d = e THEN [Config!Ageing[d] EXCEPT !.pc = "editing"]
                                ELSE Config!Ageing[d]]
    BY <1>e, <2>1
  <2>6. Good([Config!Ageing[e] EXCEPT !.pc = "editing"], v1')
    <3>1. Config!Ageing[e] = [v2[e] EXCEPT !.stale = TRUE]
      BY <2>1 DEF Config!Ageing
    <3> QED
      BY <1>a, <2>1, <3>1
  <2> HIDE DEF Good, FileOK
  <2> QED
    BY <1>e, <2>1, <2>4, <2>5, <2>6
<1>5. ASSUME Config!ChangeFile PROVE Fine
  <2>1. v2' = Config!Ageing /\ v3' \in 0 .. MaxFileChanges
    BY <1>5, <1>a, CountAssumption DEF CountAssumption, Config!ChangeFile
  <2>2. CASE v1' \in {Config!Unparsable, Config!NoFile}
    <3>1. FileOK(v1')
      BY <2>2, ConfigConstants DEF Config!Unparsable, Config!NoFile
    <3> HIDE DEF Good, FileOK
    <3> QED
      BY <1>e, <2>1, <3>1
  <2>3. ASSUME NEW k \in Config!Option, NEW v \in Config!InFile(k), v1.kind = "yaml",
               v1' = [v1 EXCEPT !.opts[k] = v]
        PROVE  Fine
    <3> DEFINE new == [v1.opts EXCEPT ![k] = v]
    <3>1. v1' = [kind |-> "yaml", opts |-> new]
      BY <1>a, <2>3
    <3>2. Config!ValidFile(new)
      <4>1. /\ v1.opts = [j \in Config!Option |-> v1.opts[j]]
            /\ \A j \in Config!Option : v1.opts[j] \in Config!FileValue(j)
        BY <1>a DEF Config!ValidFile
      <4>2. v \in Config!FileValue(k)
        <5>1. CASE k = "item_fields"
          BY <2>3, <5>1, ConfigValues DEF Config!InFile, Config!NoFields, Config!Absent
        <5>2. CASE k # "item_fields"
          BY <2>3, <5>2 DEF Config!FileValue
        <5> QED
          BY <5>1, <5>2
      <4>3. new = [j \in Config!Option |-> IF j = k THEN v ELSE v1.opts[j]]
        BY <4>1
      <4>4. /\ new = [j \in Config!Option |-> new[j]]
            /\ \A j \in Config!Option : new[j] \in Config!FileValue(j)
        BY <4>1, <4>2, <4>3
      <4> QED
        BY <4>4 DEF Config!ValidFile
    <3> HIDE DEF new
    <3>3. FileOK(v1')
      BY <3>1, <3>2
    <3> HIDE DEF Good, FileOK
    <3> QED
      BY <1>e, <2>1, <3>3
  <2>4. \/ v1' \in {Config!Unparsable, Config!NoFile}
        \/ \E k \in Config!Option : \E v \in Config!InFile(k) : v1.kind = "yaml" /\ v1' = [v1 EXCEPT !.opts[k] = v]
    BY <1>5 DEF Config!ChangeFile
  <2> HIDE DEF Fine
  <2> QED
    BY <2>2, <2>3, <2>4
<1> HIDE DEF Fine
<1> QED
  BY <1>b, <1>1, <1>2, <1>3, <1>4, <1>5, <1>6 DEF Config!Next

\* A save reads back as it was sent, and changes what its editor changed.
LEMMA SaveStep == Config!ConfigInv /\ Config!Next =>
                    \A e \in Editor : Config!Saves(e) => Config!SavedAsSent(e)
<1> SUFFICES ASSUME Config!ConfigInv, Config!Next, NEW e \in Editor, Config!Saves(e)
             PROVE  Config!SavedAsSent(e)
  OBVIOUS
<1> DEFINE read == v2[e].read
           sent == v2[e].sent
           new == Config!Saved(read, sent)
           Ks == {"directory", "log", "replace"}
           ReadsBack == \A k \in Config!Modelled :
                          Config!View(new)[k] = sent[k] \/ (k = "item_fields" /\ read[k] = Config!NoFields)
<1>a. /\ v2[e].pc = "merging" /\ v2'[e].pc = "idle" /\ v2 = [d \in Editor |-> v2[d]]
      /\ \A d \in Editor : DOMAIN v2[d] = {"pc", "loaded", "sent", "read", "stale"}
      /\ Config!ValidFile(read) /\ Config!ValidForm(sent)
      /\ ~ v2[e].stale => v2[e].loaded = Config!View(v1.opts) /\ read = v1.opts
  BY DEF Config!Saves, Config!ConfigInv, Config!TypeOK
\* Nothing else ends a save.
<1>b. v1'.opts = new
  <2>1. ASSUME NEW d \in Editor, Config!WriteMerged(d) PROVE v1'.opts = new
    <3>1. CASE d = e
      BY <2>1, <3>1 DEF Config!WriteMerged, Config!Yaml
    <3>2. CASE d # e
      <4>1. v2'[e] = [v2[e] EXCEPT !.stale = TRUE]
        BY <1>a, <2>1, <3>2 DEF Config!WriteMerged, Config!Ageing
      <4> QED
        BY <1>a, <4>1
    <3> QED
      BY <3>1, <3>2
  <2>2. ASSUME NEW d \in Editor, Config!Load(d) \/ Config!ReadForMerge(d) PROVE FALSE
    <3>1. d # e
      BY <1>a, <2>2 DEF Config!Load, Config!ReadForMerge
    <3>2. v2'[e] = v2[e]
      BY <1>a, <2>2, <3>1 DEF Config!Load, Config!ReadForMerge
    <3> QED
      BY <1>a, <3>2
  <2>3. ASSUME NEW d \in Editor, NEW k, NEW v, Config!Change(d, k, v) PROVE FALSE
    <3>1. d # e
      BY <1>a, <2>3 DEF Config!Change
    <3>2. v2'[e] = v2[e]
      BY <1>a, <2>3, <3>1 DEF Config!Change
    <3> QED
      BY <1>a, <3>2
  <2>4. ASSUME Config!ChangeFile PROVE FALSE
    <3>1. v2'[e] = [v2[e] EXCEPT !.stale = TRUE]
      BY <1>a, <2>4 DEF Config!ChangeFile, Config!Ageing
    <3> QED
      BY <1>a, <3>1
  <2>5. ASSUME NEW d \in Editor, Config!WriteFails(d) PROVE FALSE
    <3>1. CASE d = e
      <4>1. v2'[e].pc = "editing"
        BY <1>a, <2>5, <3>1 DEF Config!WriteFails, Config!Ageing
      <4> QED
        BY <1>a, <4>1
    <3>2. CASE d # e
      <4>1. v2'[e] = [v2[e] EXCEPT !.stale = TRUE]
        BY <1>a, <2>5, <3>2 DEF Config!WriteFails, Config!Ageing
      <4> QED
        BY <1>a, <4>1
    <3> QED
      BY <3>1, <3>2
  <2> QED
    BY <2>1, <2>2, <2>3, <2>4, <2>5 DEF Config!Next
<1>c. /\ sent["directory"] \in {"", "x", "y"} /\ sent["log"] \in {"absent", "l"}
      /\ sent["replace"] \in {"defaults", "rules", "none"}
      /\ sent["item_fields"] \subseteq {"multidisc", "own"}
      /\ read["directory"] \in {"", "x", "y", "absent"} /\ read["log"] \in {"absent", "l", ""}
      /\ read["replace"] \in {"defaults", "rules", "none", "absent", "malformed"}
      /\ read["item_fields"] \subseteq {"multidisc", "own"} \/ read["item_fields"] = {"absent"}
  BY <1>a, ConfigForms
<1> HIDE DEF new, read, sent
<1>d. {"absent"} # sent["item_fields"]
  BY <1>c
\* What the file says reads back as what was sent.
<1>e. ASSUME new["directory"] = sent["directory"] \/ (new["directory"] = "absent" /\ sent["directory"] = ""),
             new["log"] = sent["log"] \/ (new["log"] = "" /\ sent["log"] = "absent"),
             \/ new["replace"] = sent["replace"]
             \/ new["replace"] = "absent" /\ sent["replace"] = "defaults"
             \/ new["replace"] = "malformed" /\ sent["replace"] = "none",
             new["item_fields"] = sent["item_fields"] \/ read["item_fields"] = {"absent"}
      PROVE  ReadsBack
  <2> DEFINE view == Config!View(new)
  <2>1. /\ view["directory"] = (IF new["directory"] = "absent" THEN "" ELSE new["directory"])
        /\ view["log"] =
             (IF new["log"] = "absent" THEN "absent" ELSE IF new["log"] = "" THEN "absent" ELSE new["log"])
        /\ view["replace"] =
             (IF new["replace"] = "absent" THEN "defaults"
              ELSE IF new["replace"] = "malformed" THEN "none" ELSE new["replace"])
        /\ view["item_fields"] = (IF new["item_fields"] = {"absent"} THEN {"multidisc"} ELSE new["item_fields"])
    BY ConfigView
  <2> HIDE DEF view
  <2>2. /\ view["directory"] = sent["directory"] /\ view["log"] = sent["log"]
        /\ view["replace"] = sent["replace"]
    BY <1>c, <1>e, <2>1
  <2>3. view["item_fields"] = sent["item_fields"] \/ read["item_fields"] = {"absent"}
    BY <1>d, <1>e, <2>1
  <2>4. \A k \in Config!Modelled : view[k] = sent[k] \/ (k = "item_fields" /\ read[k] = Config!NoFields)
    <3>1. /\ Config!Modelled = {"directory", "log", "replace", "item_fields"}
          /\ Config!NoFields = {"absent"}
      BY ConfigOptions
    <3>2. ASSUME NEW k \in Config!Modelled
          PROVE  view[k] = sent[k] \/ (k = "item_fields" /\ read[k] = Config!NoFields)
      <4>1. k \in {"directory", "log", "replace"} \/ k = "item_fields"
        BY <3>1
      <4>2. CASE k \in {"directory", "log", "replace"}
        BY <2>2, <4>2
      <4>3. CASE k = "item_fields"
        BY <2>3, <3>1, <4>3
      <4> QED
        BY <4>1, <4>2, <4>3
    <3> QED
      BY <3>2
  <2> QED
    BY <2>4 DEF view
<1> HIDE DEF ReadsBack
<1>1. CASE read = Config!Empty
  <2>1. new = Config!Serialized(sent)
    BY <1>1 DEF new, Config!Saved
  <2>2. \A k \in {"directory", "log", "replace", "item_fields"} : new[k] = sent[k]
    BY <2>1, ConfigSerialized, ConfigOptions
  <2>3. ReadsBack
    <3>1. /\ new["directory"] = sent["directory"] /\ new["log"] = sent["log"]
          /\ new["replace"] = sent["replace"] /\ new["item_fields"] = sent["item_fields"]
      BY <2>2
    <3> QED
      BY <1>e, <3>1
  <2> QED
    BY <1>1, <1>b, <2>3 DEF Config!SavedAsSent, read, sent, ReadsBack
<1>2. CASE read # Config!Empty
  <2> DEFINE base == Config!View(read)
  <2>1. new = Config!Merge(read, base, sent)
    BY <1>2 DEF new, Config!Saved
  <2>2. /\ \A k \in Ks : new[k] = IF sent[k] # base[k] THEN sent[k] ELSE read[k]
        /\ new["item_fields"] = Config!MergeFields(read["item_fields"], base["item_fields"], sent["item_fields"])
        /\ new["backend"] = read["backend"]
    BY <2>1, ConfigMerge
  <2>3. /\ base["directory"] = (IF read["directory"] = "absent" THEN "" ELSE read["directory"])
        /\ base["log"] =
             (IF read["log"] = "absent" THEN "absent" ELSE IF read["log"] = "" THEN "absent" ELSE read["log"])
        /\ base["replace"] =
             (IF read["replace"] = "absent" THEN "defaults"
              ELSE IF read["replace"] = "malformed" THEN "none" ELSE read["replace"])
        /\ base["item_fields"] = (IF read["item_fields"] = {"absent"} THEN {"multidisc"} ELSE read["item_fields"])
    BY ConfigView
  <2> HIDE DEF base
  <2>4. /\ read["item_fields"] # {"absent"} => new["item_fields"] = sent["item_fields"]
        /\ sent["item_fields"] = base["item_fields"] => new["item_fields"] = read["item_fields"]
    <3> DEFINE fields == read["item_fields"]
               entries == base["item_fields"]
               form == sent["item_fields"]
    <3>1. /\ form \subseteq {"multidisc", "own"}
          /\ fields \subseteq {"multidisc", "own"} \/ fields = {"absent"}
          /\ fields = {"absent"} => entries = {"multidisc"}
          /\ fields # {"absent"} => entries = fields
      BY <1>c, <2>3
    <3>2. new["item_fields"] = Config!MergeFields(fields, entries, form)
      BY <2>2
    <3> HIDE DEF fields, entries, form
    <3>3. /\ fields # {"absent"} => Config!MergeFields(fields, entries, form) = form
          /\ form = entries => Config!MergeFields(fields, entries, form) = fields
      BY ZenonT(30), <3>1, ConfigFields
    <3> QED
      BY <3>2, <3>3 DEF fields, entries, form
  <2>5. ReadsBack
    <3>1. new["directory"] = sent["directory"] \/ (new["directory"] = "absent" /\ sent["directory"] = "")
      BY <1>c, <2>2, <2>3
    <3>2. new["log"] = sent["log"] \/ (new["log"] = "" /\ sent["log"] = "absent")
      BY <1>c, <2>2, <2>3
    <3>3. \/ new["replace"] = sent["replace"]
          \/ new["replace"] = "absent" /\ sent["replace"] = "defaults"
          \/ new["replace"] = "malformed" /\ sent["replace"] = "none"
      BY <1>c, <2>2, <2>3
    <3>4. new["item_fields"] = sent["item_fields"] \/ read["item_fields"] = {"absent"}
      BY <2>4
    <3> QED
      BY <1>e, <3>1, <3>2, <3>3, <3>4
  <2>6. ASSUME ~ v2[e].stale
        PROVE  \A k \in Config!Option : new[k] # v1.opts[k] => k \in Config!Modelled /\ sent[k] # v2[e].loaded[k]
    <3>1. v2[e].loaded = base /\ read = v1.opts
      BY <1>a, <2>6 DEF base
    <3>2. \A k \in {"directory", "log", "replace", "item_fields", "backend"} :
            new[k] # read[k] => k # "backend" /\ sent[k] # base[k]
      BY <2>2, <2>4
    <3> QED
      BY <3>1, <3>2, ConfigOptions
  <2> QED
    BY <1>b, <2>5, <2>6 DEF Config!SavedAsSent, read, sent, ReadsBack
<1> QED
  BY <1>1, <1>2

(***************************************************************************)
(* Cached candidates and manual additions                                  *)
(***************************************************************************)

\* Before any analysis nothing is cached and no candidate was answered.
LEMMA CacheInit == Answers!Init => Answers!CacheInv
<1> SUFFICES ASSUME Answers!Init PROVE Answers!CacheInv
  OBVIOUS
<1>1. /\ v1 = Answers!NoAnswer /\ v1.by = "none" /\ v4 = {}
      /\ v2 \in [Analysis -> {"none", "at work", "ended"}]
  BY DEF Answers!Init, Answers!NoAnswer, Answers!None
<1> DEFINE r == [pc |-> "new", provider |-> "none", read |-> Answers!NoAnswer, overtaken |-> FALSE]
<1>2. r \in [pc : {"new", "read", "write", "done"}, provider : Provider \cup {"none"},
             read : Answers!Answer \cup {Answers!NoAnswer}, overtaken : BOOLEAN] /\ r.pc = "new"
  OBVIOUS
<1>3. v3 = [x \in Addition |-> r]
  BY DEF Answers!Init, Answers!NewAddition, Answers!None
<1> HIDE DEF r
<1>4. \A x \in Addition : v3[x].pc = "new"
  BY <1>2, <1>3
<1>5. v3 \in [Addition -> [pc : {"new", "read", "write", "done"}, provider : Provider \cup {"none"},
             read : Answers!Answer \cup {Answers!NoAnswer}, overtaken : BOOLEAN]]
  BY <1>2, <1>3
<1>6. Answers!TypeOK
  BY <1>1, <1>5 DEF Answers!TypeOK, Answers!None
<1>7. Answers!ManualKept
  BY <1>1 DEF Answers!ManualKept, Answers!None
<1>8. Answers!ReadIsCurrent
  BY <1>4 DEF Answers!ReadIsCurrent
<1> QED
  BY <1>1, <1>6, <1>7, <1>8 DEF Answers!CacheInv, Answers!None

\* Every step of an analysis and of an addition keeps the invariant.
LEMMA CacheStep == Answers!CacheInv /\ Answers!Next => Answers!CacheInv'
<1> SUFFICES ASSUME Answers!CacheInv, Answers!Next PROVE Answers!CacheInv'
  OBVIOUS
<1> DEFINE NoManual == [p \in Provider |-> "none"]
           None == [by |-> "none", manual |-> NoManual]
           Stub == [by |-> "addition", manual |-> NoManual]
           Answer == [by : {"analysis", "degraded", "addition"},
                      manual : [Provider -> Addition \cup {"none"}]]
           Rec == [pc : {"new", "read", "write", "done"}, provider : Provider \cup {"none"},
                   read : Answer \cup {None}, overtaken : BOOLEAN]
           State == {"none", "at work", "ended"}
           Now(a) == IF a = None THEN Stub ELSE a
<1>a. /\ v1 \in Answer \cup {None} /\ v2 \in [Analysis -> State] /\ v3 \in [Addition -> Rec]
      /\ v4 \subseteq Addition
  BY DEF Answers!CacheInv, Answers!TypeOK, Answers!Answer, Answers!NoAnswer, Answers!NoManual,
     Answers!None
<1>b. /\ \A r \in v4 : v1.manual[v3[r].provider] = r /\ v3[r].pc = "done"
      /\ v1.by \in {"none", "analysis", "addition"}
      /\ v1.by = "addition" => v1.manual # NoManual
      /\ v1.by = "none" => v1 = None
  BY DEF Answers!CacheInv, Answers!ManualKept, Answers!NoAnswer, Answers!NoManual, Answers!None
<1>c. /\ \A r \in Addition : v3[r].pc \in {"read", "write", "done"} => v3[r].provider \in Provider
      /\ \A r \in Addition : v3[r].pc = "write" =>
           /\ v3[r].read.by \in {"analysis", "addition"}
           /\ ~ v3[r].overtaken => v3[r].read = Now(v1)
  BY DEF Answers!CacheInv, Answers!ReadIsCurrent, Answers!NoAnswer, Answers!NoManual, Answers!None,
     Answers!Stub
<1> DEFINE Typed == v1' \in Answer \cup {None} /\ v2' \in [Analysis -> State] /\ v3' \in [Addition -> Rec]
                    /\ v4' \subseteq Addition
           Kept == /\ \A r \in v4' : v1'.manual[v3'[r].provider] = r /\ v3'[r].pc = "done"
                   /\ v1'.by \in {"none", "analysis", "addition"}
                   /\ v1'.by = "addition" => v1'.manual # NoManual
                   /\ v1'.by = "none" => v1' = None
           Current == /\ \A r \in Addition : v3'[r].pc \in {"read", "write", "done"} => v3'[r].provider \in Provider
                      /\ \A r \in Addition : v3'[r].pc = "write" =>
                           /\ v3'[r].read.by \in {"analysis", "addition"}
                           /\ ~ v3'[r].overtaken => v3'[r].read = Now(v1')
           Fine == Typed /\ Kept /\ Current
<1>d. Fine => Answers!CacheInv'
  BY DEF Answers!CacheInv, Answers!TypeOK, Answers!Answer, Answers!NoAnswer, Answers!NoManual,
     Answers!None,
     Answers!Stub, Answers!ManualKept, Answers!ReadIsCurrent
\* Who has read an answer that changes is told so.
<1>e. /\ Answers!Overtaken \in [Addition -> Rec]
      /\ \A r \in Addition : /\ Answers!Overtaken[r].pc = v3[r].pc
                             /\ Answers!Overtaken[r].provider = v3[r].provider
                             /\ Answers!Overtaken[r].read = v3[r].read
                             /\ v3[r].pc = "write" => Answers!Overtaken[r].overtaken
  <2>1. ASSUME NEW r \in Addition
        PROVE  /\ [v3[r] EXCEPT !.overtaken = TRUE] \in Rec
               /\ [v3[r] EXCEPT !.overtaken = TRUE].pc = v3[r].pc
               /\ [v3[r] EXCEPT !.overtaken = TRUE].provider = v3[r].provider
               /\ [v3[r] EXCEPT !.overtaken = TRUE].read = v3[r].read
               /\ [v3[r] EXCEPT !.overtaken = TRUE].overtaken
    BY <1>a
  <2>2. \A r \in Addition : v3[r] \in Rec
    BY <1>a
  <2> HIDE DEF Rec
  <2> QED
    BY <2>1, <2>2 DEF Answers!Overtaken
\* The answer changes from the outside.
<1>f. ASSUME v4' = {}, v3' = Answers!Overtaken, v2' \in [Analysis -> State],
             v1' = None \/ v1' = [by |-> "analysis", manual |-> NoManual]
      PROVE  Fine
  <2>1. /\ v1' \in Answer \cup {None} /\ v1'.by \in {"none", "analysis"}
        /\ (v1'.by = "none" => v1' = None)
    <3>1. CASE v1' = None
      BY <3>1
    <3>2. CASE v1' = [by |-> "analysis", manual |-> NoManual]
      <4>1. NoManual \in [Provider -> Addition \cup {"none"}]
        OBVIOUS
      <4> HIDE DEF NoManual
      <4>2. v1' \in Answer /\ v1'.by = "analysis"
        BY <3>2, <4>1
      <4> QED
        BY <4>2
    <3> QED
      BY <1>f, <3>1, <3>2
  <2> HIDE DEF Answer, None, Rec
  <2> QED
    BY <1>f, <1>c, <1>e, <2>1
<1>1. ASSUME NEW a \in Analysis, Answers!StartAnalysis(a) \/ Answers!SkipCache(a) PROVE Fine
  <2>1. v1' = v1 /\ v3' = v3 /\ v4' = v4 /\ v2' \in [Analysis -> State]
    BY <1>1, <1>a DEF Answers!StartAnalysis, Answers!SkipCache
  <2> HIDE DEF Answer, None, Rec
  <2> QED
    BY <2>1, <1>a, <1>b, <1>c
<1>2. ASSUME NEW a \in Analysis, Answers!ForceAnalysis(a) PROVE Fine
  <2>1. v2' \in [Analysis -> State]
    BY <1>2, <1>a DEF Answers!ForceAnalysis
  <2>2. v1' = None /\ v4' = {} /\ v3' = Answers!Overtaken
    BY <1>2 DEF Answers!ForceAnalysis, Answers!NoAnswer, Answers!NoManual, Answers!None
  <2> QED
    BY <1>f, <2>1, <2>2
<1>3. ASSUME NEW a \in Analysis, Answers!CacheResult(a) PROVE Fine
  <2>1. v2' \in [Analysis -> State]
    BY <1>3, <1>a DEF Answers!CacheResult
  <2>2. v1' = [by |-> "analysis", manual |-> NoManual] /\ v4' = {} /\ v3' = Answers!Overtaken
    BY <1>3 DEF Answers!CacheResult, Answers!NoManual, Answers!None
  <2> QED
    BY <1>f, <2>1, <2>2
<1>4. ASSUME Answers!Expire PROVE Fine
  <2>1. v2' \in [Analysis -> State]
    BY <1>4, <1>a DEF Answers!Expire
  <2>2. v1' = None /\ v4' = {} /\ v3' = Answers!Overtaken
    BY <1>4 DEF Answers!Expire, Answers!NoAnswer, Answers!NoManual, Answers!None
  <2> QED
    BY <1>f, <2>1, <2>2
\* The addition at work gets the record r, the others keep theirs.
<1>g. ASSUME NEW x \in Addition, NEW r \in Rec, v3' = [v3 EXCEPT ![x] = r]
      PROVE  v3' \in [Addition -> Rec] /\ v3'[x] = r /\ \A y \in Addition \ {x} : v3'[y] = v3[y]
  <2> HIDE DEF Rec
  <2> QED
    BY ONLY <1>a, <1>g
<1>5. ASSUME NEW x \in Addition, NEW p \in Provider, Answers!Resolve(x, p) PROVE Fine
  <2> DEFINE r == [v3[x] EXCEPT !.pc = "read", !.provider = p]
  <2>1. r \in Rec /\ r.pc = "read" /\ r.provider = p
    BY <1>a
  <2>2. v3' = [v3 EXCEPT ![x] = r] /\ v1' = v1 /\ v2' = v2 /\ v4' = v4 /\ v3[x].pc = "new"
    BY <1>5, <1>a DEF Answers!Resolve
  <2> HIDE DEF r
  <2>3. v3' \in [Addition -> Rec] /\ v3'[x] = r /\ \A y \in Addition \ {x} : v3'[y] = v3[y]
    BY <1>g, <2>1, <2>2
  <2> HIDE DEF Answer, None, Rec
  <2> QED
    BY <2>1, <2>2, <2>3, <1>a, <1>b, <1>c
<1>6. ASSUME NEW x \in Addition, Answers!ReadCached(x) PROVE Fine
  <2> DEFINE r == [v3[x] EXCEPT !.pc = "write", !.read = Now(v1)]
  <2>1. Now(v1) \in Answer /\ Now(v1).by \in {"analysis", "addition"}
    <3>1. CASE v1 = None
      BY <3>1
    <3>2. CASE v1 # None
      BY <3>2, <1>a, <1>b
    <3> QED
      BY <3>1, <3>2
  <2>2. r \in Rec /\ r.pc = "write" /\ r.read = Now(v1) /\ r.provider = v3[x].provider
    <3> HIDE DEF Answer, Now, None
    <3> QED
      BY <1>a, <2>1
  <2>3. v3' = [v3 EXCEPT ![x] = r] /\ v1' = v1 /\ v2' = v2 /\ v4' = v4 /\ v3[x].pc = "read"
    BY <1>6, <1>a DEF Answers!ReadCached, Answers!NoAnswer, Answers!NoManual, Answers!None,
       Answers!Stub
  <2> HIDE DEF r
  <2>4. v3' \in [Addition -> Rec] /\ v3'[x] = r /\ \A y \in Addition \ {x} : v3'[y] = v3[y]
    BY <1>g, <2>2, <2>3
  <2> HIDE DEF Answer, None, Rec, Now
  <2> QED
    BY <2>1, <2>2, <2>3, <2>4, <1>a, <1>b, <1>c
<1>7. ASSUME NEW x \in Addition, Answers!WriteCached(x) PROVE Fine
  <2> DEFINE a == v3[x]
             read == a.read
             p == a.provider
             answer == [read EXCEPT !.manual[p] = x]
  <2>1. /\ a.pc = "write" /\ v1' = answer /\ v2' = v2
        /\ v3' = [Answers!Overtaken EXCEPT ![x].pc = "done"]
        /\ v4' = {x} \cup (IF a.overtaken THEN {} ELSE {s \in v4 : v3[s].provider # p})
    BY <1>7 DEF Answers!WriteCached, Answers!WithManual
  <2>2. p \in Provider /\ read.by \in {"analysis", "addition"} /\ read \in Answer
    <3>1. a \in Rec /\ p \in Provider /\ read.by \in {"analysis", "addition"}
      BY <1>a, <1>c, <2>1
    <3>2. read # None
      BY <3>1
    <3> QED
      BY <3>1, <3>2
  <2>3. /\ answer \in Answer /\ answer.by = read.by
        /\ answer.manual[p] = x /\ \A q \in Provider \ {p} : answer.manual[q] = read.manual[q]
    BY <2>2
  <2>4. answer.manual # NoManual
    BY <2>2, <2>3, AbsenceAssumption DEF AbsenceAssumption
  <2> DEFINE r == [Answers!Overtaken[x] EXCEPT !.pc = "done"]
  <2>5. r \in Rec /\ r.pc = "done" /\ r.provider = p
    BY <1>e
  <2>6. v3' = [Answers!Overtaken EXCEPT ![x] = r]
    BY <2>1, <1>e
  <2> HIDE DEF r
  <2>7. /\ v3' \in [Addition -> Rec] /\ v3'[x].pc = "done" /\ v3'[x].provider = p
        /\ \A y \in Addition \ {x} : v3'[y] = Answers!Overtaken[y]
    <3> HIDE DEF Rec
    <3> QED
      BY <2>5, <2>6, <1>e
  <2>8. ASSUME NEW s \in v4, ~ a.overtaken, v3[s].provider # p
        PROVE  answer.manual[v3[s].provider] = s
    <3>1. /\ v3[s].pc = "done" /\ v3[s].provider \in Provider /\ v1.manual[v3[s].provider] = s
          /\ s \in Addition
      BY <1>a, <1>b, <1>c
    <3>2. read = Now(v1)
      BY <1>c, <2>1, <2>8
    <3>3. v1 # None
      BY <3>1, AbsenceAssumption DEF AbsenceAssumption
    <3>4. read = v1
      BY <3>2, <3>3
    <3> QED
      BY <2>3, <2>8, <3>1, <3>4
  <2>9. Typed
    <3> HIDE DEF Answer, None, Rec, answer
    <3> QED
      BY <2>1, <2>3, <2>7, <1>a
  <2>10. Kept
    <3>1. x \notin v4
      BY <1>b, <2>1
    <3>2. \A s \in v4' : s = x \/ (s \in v4 /\ ~ a.overtaken /\ v3[s].provider # p)
      BY <2>1
    <3>3. \A s \in v4 : v3'[s].provider = v3[s].provider /\ v3'[s].pc = "done"
      <4>1. \A s \in v4 : s \in Addition \ {x} /\ v3[s].pc = "done"
        BY <3>1, <1>a, <1>b
      <4> HIDE DEF Rec
      <4> QED
        BY <4>1, <2>7, <1>e
    <3> HIDE DEF Answer, None, Rec, answer, p, a, read
    <3> QED
      BY <3>1, <3>2, <3>3, <2>1, <2>2, <2>3, <2>4, <2>7, <2>8
  <2>11. Current
    <3> HIDE DEF Answer, None, Rec, answer, Now
    <3> QED
      BY <2>2, <2>7, <1>c, <1>e
  <2> QED
    BY <2>9, <2>10, <2>11
<1> HIDE DEF Fine
<1> QED
  BY <1>d, <1>1, <1>2, <1>3, <1>4, <1>5, <1>6, <1>7 DEF Answers!Next

(***************************************************************************)
(* Autotag and candidate search                                            *)
(***************************************************************************)

\* CandidateSearch counts threads as FiniteSets does.
LEMMA SearchCardinality == \A T : Search!Cardinality(T) = Cardinality(T)
  BY DEF Search!Cardinality, Cardinality

\* No thread and one thread, counted.
LEMMA SearchCounts == Search!Cardinality({}) = 0 /\ \A h : Search!Cardinality({h}) = 1
  BY SearchCardinality, FS_EmptySet, FS_Singleton

\* No thread is at work and nothing is locked.
LEMMA SearchInit == Search!Init => Search!SearchInv
<1> SUFFICES ASSUME Search!Init PROVE Search!SearchInv
  OBVIOUS
<1> DEFINE idle == [p \in Provider |-> "off"]
           w == [pc |-> "new", autotag |-> "none", auto |-> {}, group |-> idle, hits |-> {}, todo |-> {},
                 at |-> {}, found |-> {}, failures |-> 0, tried |-> 0]
           s == [outcome |-> "none", candidates |-> {}]
           Group == [Provider -> {"off", "asked", "answered", "failed", "late"}]
           WRec == [pc : {"new", "search", "resolve", "ended"}, autotag : {"none", "answered", "failed"},
                    auto : SUBSET Known, group : Group, hits : SUBSET Search!Hit, todo : SUBSET Search!Hit,
                    at : SUBSET Search!Hit, found : SUBSET Search!Found, failures : Nat, tried : Nat]
           ARec == [outcome : {"none", "failed", "degraded", "cached"},
                    candidates : SUBSET (Known \cup Search!Found)]
<1>1. /\ v1 \subseteq Library /\ v2 = {} /\ v3 = "none"
      /\ v4 = [t \in Search!Thread |-> "idle"] /\ v5 = [a \in Analysis |-> w]
      /\ v6 = [a \in Analysis |-> s]
      /\ Search!NoAnswer = s
  BY DEF Search!Init, Search!NoWork, Search!NoAnswer, Search!None
<1>2. w \in WRec
  <2>1. idle \in Group
    OBVIOUS
  <2> HIDE DEF idle, Group
  <2> QED
    BY <2>1
<1>3. s \in ARec
  OBVIOUS
<1>4. /\ w.pc = "new" /\ w.autotag = "none" /\ w.at = {} /\ w.found = {} /\ w.auto = {}
      /\ w.failures = 0 /\ w.tried = 0
      /\ s.outcome = "none" /\ s.candidates = {}
  OBVIOUS
<1> HIDE DEF w, s
<1>5. v5 \in [Analysis -> WRec] /\ v6 \in [Analysis -> ARec]
  <2> HIDE DEF WRec, ARec
  <2> QED
    BY <1>1, <1>2, <1>3
<1>6. Search!TypeOK
  BY <1>1, <1>5 DEF Search!TypeOK, Search!None, Search!Failed
<1>7. \A t \in Search!Thread : v4[t] = "idle"
  BY <1>1
<1>8. Search!LockHeld /\ Search!OwnConfig
  BY <1>1, <1>7 DEF Search!LockHeld, Search!OwnConfig
<1>9. \A a \in Analysis : v5[a] = w /\ v6[a] = s
  BY <1>1
<1>10. Search!ThreadsOfStep
  BY <1>7 DEF Search!ThreadsOfStep, Search!Thread, Search!Autotag
<1>11. Search!FoundByAttempt
  BY <1>4, <1>9, SearchCounts DEF Search!FoundByAttempt
<1>12. Search!AnswerAtEnd /\ Search!AnswersWhole
  BY <1>1, <1>4, <1>9 DEF Search!None, Search!AnswerAtEnd, Search!AnswersWhole
<1> QED
  BY <1>6, <1>8, <1>10, <1>11, <1>12 DEF Search!SearchInv

\* Every step of an analysis and of its threads keeps the invariant.
LEMMA SearchStep == Search!SearchInv /\ Search!Next => Search!SearchInv'
<1> SUFFICES ASSUME Search!SearchInv, Search!Next PROVE Search!SearchInv'
  OBVIOUS
<1> DEFINE Group == [Provider -> {"off", "asked", "answered", "failed", "late"}]
           WRec == [pc : {"new", "search", "resolve", "ended"}, autotag : {"none", "answered", "failed"},
                    auto : SUBSET Known, group : Group, hits : SUBSET Search!Hit, todo : SUBSET Search!Hit,
                    at : SUBSET Search!Hit, found : SUBSET Search!Found, failures : Nat, tried : Nat]
           ARec == [outcome : {"none", "failed", "degraded", "cached"},
                    candidates : SUBSET (Known \cup Search!Found)]
           Thread == Analysis \X {"autotag", "spotify", "resolve"}
           TState == {"idle", "waiting", "holding", "using"}
           NoAnswer == [outcome |-> "none", candidates |-> {}]
           N(T) == Search!Cardinality(T)
           Single(T) == \A h, i \in T : h = i
           OnceOnly(T) == \A c, d \in T : c.source = d.source /\ c.id = d.id => c = d
           Plain(T) == \A c \in T : c.from = 0
           Counted(w) == /\ w.pc # "resolve" => w.at = {} /\ w.found = {} /\ w.failures = 0 /\ w.tried = 0
                         /\ w.failures + N(w.at) <= w.tried
                         /\ w.found # {} => w.failures + N(w.at) < w.tried
                         /\ Single(w.at)
           Whole(w, s) == /\ OnceOnly((w.auto \cup w.found) \cup s.candidates)
                          /\ s.outcome = "degraded" => Plain(s.candidates)
           Staged(w, s) == /\ w.pc \in {"new", "ended"} => w.autotag = "none" /\ w.auto = {}
                           /\ w.pc # "ended" => s = NoAnswer
           Good(w, s) == w \in WRec /\ s \in ARec /\ Counted(w) /\ Whole(w, s) /\ Staged(w, s)
           Stepping(w, x, y, z) == /\ w.pc = "new" => x = "idle" /\ y = "idle" /\ z = "idle"
                                   /\ x # "idle" => w.pc = "search" /\ w.autotag = "none"
                                   /\ z # "idle" => w.pc = "resolve" /\ w.at # {}
<1>0. Search!Thread = Thread /\ Search!NoAnswer = NoAnswer
  BY DEF Search!Thread, Search!Autotag, Search!NoAnswer, Search!None
<1>a. /\ v1 \subseteq Library /\ v3 \in Library \cup {"none"} /\ v2 \subseteq Thread
      /\ v4 \in [Thread -> TState] /\ v5 \in [Analysis -> WRec] /\ v6 \in [Analysis -> ARec]
  BY <1>0 DEF Search!SearchInv, Search!TypeOK, Search!None, Search!Failed
<1>b. /\ \A t, u \in v2 : t = u
      /\ \A t \in Thread : v4[t] \in {"holding", "using"} <=> t \in v2
      /\ \A t \in Thread : v4[t] = "using" /\ LibraryOf[t[1]] \in v1 => v3 = LibraryOf[t[1]]
  BY <1>0 DEF Search!SearchInv, Search!LockHeld, Search!OwnConfig
<1>c. \A a \in Analysis : Good(v5[a], v6[a])
  <2> SUFFICES ASSUME NEW a \in Analysis PROVE Good(v5[a], v6[a])
    OBVIOUS
  <2>1. v5[a] \in WRec /\ v6[a] \in ARec
    BY <1>a
  <2>2. Counted(v5[a])
    BY DEF Search!SearchInv, Search!FoundByAttempt
  <2>3. Whole(v5[a], v6[a])
    BY DEF Search!SearchInv, Search!AnswersWhole
  <2>4. Staged(v5[a], v6[a])
    BY <1>0 DEF Search!SearchInv, Search!AnswerAtEnd, Search!None
  <2> HIDE DEF WRec, ARec, Counted, Whole, Staged
  <2> QED
    BY <2>1, <2>2, <2>3, <2>4
<1>d. \A a \in Analysis :
        Stepping(v5[a], v4[<<a, "autotag">>], v4[<<a, "spotify">>], v4[<<a, "resolve">>])
  BY DEF Search!SearchInv, Search!ThreadsOfStep, Search!Autotag, Search!None
<1> DEFINE Locks == /\ v1' \subseteq Library /\ v3' \in Library \cup {"none"} /\ v2' \subseteq Thread
                    /\ v4' \in [Thread -> TState]
                    /\ \A t, u \in v2' : t = u
                    /\ \A t \in Thread : v4'[t] \in {"holding", "using"} <=> t \in v2'
                    /\ \A t \in Thread : v4'[t] = "using" /\ LibraryOf[t[1]] \in v1' => v3' = LibraryOf[t[1]]
           Steps(a) == Stepping(v5'[a], v4'[<<a, "autotag">>], v4'[<<a, "spotify">>], v4'[<<a, "resolve">>])
           Fine == /\ Locks /\ v5' \in [Analysis -> WRec] /\ v6' \in [Analysis -> ARec]
                   /\ \A a \in Analysis : Good(v5'[a], v6'[a]) /\ Steps(a)
<1>e. ASSUME Fine PROVE Search!SearchInv'
  <2>1. Search!TypeOK'
    <3> HIDE DEF Good, Steps
    <3> QED
      BY <1>e, <1>0 DEF Search!TypeOK, Search!None, Search!Failed
  <2>2. Search!LockHeld' /\ Search!OwnConfig'
    <3> HIDE DEF Good, Steps
    <3> QED
      BY <1>e, <1>0 DEF Search!LockHeld, Search!OwnConfig
  <2>3. Search!ThreadsOfStep'
    <3> HIDE DEF Good, Locks
    <3> QED
      BY <1>e DEF Search!ThreadsOfStep, Search!Autotag, Search!None
  <2>4. Search!FoundByAttempt'
    <3>1. \A a \in Analysis : Counted(v5'[a])
      BY <1>e
    <3> HIDE DEF Fine
    <3> QED
      BY <3>1 DEF Search!FoundByAttempt
  <2>5. Search!AnswersWhole'
    <3>1. \A a \in Analysis : Whole(v5'[a], v6'[a])
      BY <1>e
    <3> HIDE DEF Fine
    <3> QED
      BY <3>1 DEF Search!AnswersWhole
  <2>6. Search!AnswerAtEnd'
    <3>1. \A a \in Analysis : Staged(v5'[a], v6'[a])
      BY <1>e
    <3> HIDE DEF Fine
    <3> QED
      BY <3>1 DEF Search!AnswerAtEnd, Search!NoAnswer, Search!None
  <2> HIDE DEF Fine
  <2> QED
    BY <2>1, <2>2, <2>3, <2>4, <2>5, <2>6 DEF Search!SearchInv
<1>f. \A a \in Analysis : {<<a, "autotag">>, <<a, "spotify">>, <<a, "resolve">>} \subseteq Thread
  OBVIOUS
\* The analysis a gets the record w and the answer s, the others keep theirs.
<1>g. ASSUME NEW a \in Analysis, NEW w, NEW s, v5' = [v5 EXCEPT ![a] = w], v6' = [v6 EXCEPT ![a] = s],
             Good(w, s), Locks, \A t \in Thread : t[1] # a => v4'[t] = v4[t],
             Stepping(w, v4'[<<a, "autotag">>], v4'[<<a, "spotify">>], v4'[<<a, "resolve">>])
      PROVE  Fine
  <2>1. w \in WRec /\ s \in ARec
    BY <1>g
  <2> HIDE DEF WRec, ARec
  <2>2. /\ v5' \in [Analysis -> WRec] /\ v5'[a] = w /\ \A b \in Analysis : b # a => v5'[b] = v5[b]
        /\ v6' \in [Analysis -> ARec] /\ v6'[a] = s /\ \A b \in Analysis : b # a => v6'[b] = v6[b]
    BY <1>a, <1>g, <2>1
  <2> HIDE DEF Good
  <2>3. \A b \in Analysis : Good(v5'[b], v6'[b])
    BY <1>c, <1>g, <2>2
  <2>4. ASSUME NEW b \in Analysis PROVE Steps(b)
    <3>1. CASE b = a
      BY <1>g, <2>2, <3>1
    <3>2. CASE b # a
      <4>1. /\ v4'[<<b, "autotag">>] = v4[<<b, "autotag">>]
            /\ v4'[<<b, "spotify">>] = v4[<<b, "spotify">>]
            /\ v4'[<<b, "resolve">>] = v4[<<b, "resolve">>]
        BY <1>f, <1>g, <3>2
      <4> HIDE DEF Stepping
      <4> QED
        BY <1>d, <2>2, <3>2, <4>1
    <3> QED
      BY <3>1, <3>2
  <2> HIDE DEF Locks, Steps
  <2> QED
    BY <1>g, <2>2, <2>3, <2>4
<1>h. \A a \in Analysis : v6 = [v6 EXCEPT ![a] = v6[a]]
  BY <1>a
\* Threads that wait touch nothing.
<1>i. ASSUME v1' = v1, v2' = v2, v3' = v3, v4' \in [Thread -> TState],
             \A t \in Thread : v4'[t] = v4[t] \/ (v4[t] = "idle" /\ v4'[t] = "waiting")
      PROVE  Locks
  BY <1>a, <1>b, <1>i
<1>j. ASSUME NEW t \in Thread, Search!Release(t)
      PROVE  /\ Locks /\ v4[t] = "using" /\ v4'[t] = "idle" /\ \A u \in Thread \ {t} : v4'[u] = v4[u]
  <2>1. v4' = [v4 EXCEPT ![t] = "idle"] /\ v2' = v2 \ {t} /\ v1' = v1 /\ v3' = v3 /\ v4[t] = "using"
    BY <1>j DEF Search!Release
  <2>2. v4' \in [Thread -> TState] /\ v4'[t] = "idle" /\ \A u \in Thread \ {t} : v4'[u] = v4[u]
    BY <1>a, <2>1
  <2> QED
    BY <1>a, <1>b, <2>1, <2>2
<1>1. ASSUME NEW t \in Thread, Search!Acquire(t) \/ Search!LoadConfig(t) PROVE Fine
  <2>1. v5' = v5 /\ v6' = v6 /\ v1' = v1 /\ v4[t] # "idle" /\ v4'[t] # "idle"
        /\ v4' \in [Thread -> TState] /\ \A u \in Thread \ {t} : v4'[u] = v4[u]
    BY <1>1, <1>a DEF Search!Acquire, Search!LoadConfig
  <2>2. ASSUME Search!Acquire(t) PROVE Locks
    <3>1. v2 = {} /\ v2' = {t} /\ v3' = v3 /\ v4'[t] = "holding"
      BY <1>a, <2>2 DEF Search!Acquire
    <3> QED
      BY <1>a, <1>b, <2>1, <3>1
  <2>3. ASSUME Search!LoadConfig(t) PROVE Locks
    <3>1. /\ v2' = v2 /\ v4[t] = "holding" /\ v4'[t] = "using"
          /\ v3' = IF LibraryOf[t[1]] \in v1 THEN LibraryOf[t[1]] ELSE v3
      BY <1>a, <2>3 DEF Search!LoadConfig
    <3>2. t[1] \in Analysis /\ LibraryOf[t[1]] \in Library
      BY KnownAssumption DEF KnownAssumption
    <3>3. \A u \in Thread \ {t} : v4[u] # "using"
      BY <1>b, <3>1
    <3> QED
      BY <1>a, <1>b, <2>1, <3>1, <3>2, <3>3
  <2>4. Locks
    BY <1>1, <2>2, <2>3
  <2>5. ASSUME NEW a \in Analysis PROVE Steps(a)
    <3>1. /\ v4'[<<a, "autotag">>] = "idle" <=> v4[<<a, "autotag">>] = "idle"
          /\ v4'[<<a, "spotify">>] = "idle" <=> v4[<<a, "spotify">>] = "idle"
          /\ v4'[<<a, "resolve">>] = "idle" <=> v4[<<a, "resolve">>] = "idle"
      BY <1>f, <2>1
    <3> QED
      BY <1>d, <2>1, <3>1
  <2> HIDE DEF Locks, Steps, Good, WRec, ARec
  <2> QED
    BY <1>a, <1>c, <2>1, <2>4, <2>5
\* The end of an analysis: its record is empty again.
<1>k. ASSUME NEW a \in Analysis, NEW outcome \in {"failed", "degraded", "cached"},
             NEW cands \in SUBSET (Known \cup Search!Found), Search!End(a, outcome, cands),
             v1' = v1, v2' = v2, v3' = v3, v4' = v4,
             OnceOnly(cands), outcome = "degraded" => Plain(cands),
             v4[<<a, "autotag">>] = "idle", v4[<<a, "resolve">>] = "idle"
      PROVE  Fine
  <2> DEFINE w == [Search!NoWork EXCEPT !.pc = "ended"]
             s == [outcome |-> outcome, candidates |-> cands]
  <2>1. v5' = [v5 EXCEPT ![a] = w] /\ v6' = [v6 EXCEPT ![a] = s]
    BY <1>k DEF Search!End
  <2>2. /\ w \in WRec /\ w.pc = "ended" /\ w.autotag = "none" /\ w.at = {} /\ w.found = {}
        /\ w.auto = {}
        /\ w.failures = 0 /\ w.tried = 0
    <3> DEFINE off == [p \in Provider |-> "off"]
    <3>1. off \in Group
      OBVIOUS
    <3>2. w = [pc |-> "ended", autotag |-> "none", auto |-> {}, group |-> off, hits |-> {}, todo |-> {},
               at |-> {}, found |-> {}, failures |-> 0, tried |-> 0]
      BY DEF Search!NoWork, Search!None
    <3> HIDE DEF off, Group, w
    <3> QED
      BY <3>1, <3>2
  <2>3. s \in ARec /\ s.outcome = outcome /\ s.candidates = cands
    OBVIOUS
  <2> HIDE DEF w, s
  <2>4. Counted(w)
    BY <2>2, SearchCounts
  <2>5. Whole(w, s) /\ Staged(w, s)
    BY <1>k, <2>2, <2>3
  <2>6. Good(w, s)
    <3> HIDE DEF WRec, ARec, Counted, Whole, Staged
    <3> QED
      BY <2>2, <2>3, <2>4, <2>5
  <2>7. Locks
    BY <1>a, <1>i, <1>k
  <2>8. Stepping(w, v4'[<<a, "autotag">>], v4'[<<a, "spotify">>], v4'[<<a, "resolve">>])
    BY <1>k, <2>2
  <2> HIDE DEF Good, Locks, Stepping, Fine
  <2> QED
    BY <1>g, <1>k, <2>1, <2>6, <2>7, <2>8
<1>2. ASSUME NEW a \in Analysis, NEW enabled \in SUBSET Provider, Search!Begin(a, enabled) PROVE Fine
  <2> DEFINE group == [p \in Provider |-> IF p \in enabled THEN "asked" ELSE "off"]
             w == [v5[a] EXCEPT !.pc = "search", !.group = group]
  <2>1. /\ v5[a].pc = "new" /\ v5' = [v5 EXCEPT ![a] = w] /\ v6' = v6 /\ v1' = v1 /\ v2' = v2
        /\ v3' = v3
        /\ v4' = [v4 EXCEPT ![<<a, "autotag">>] = "waiting",
                            ![<<a, "spotify">>] = IF "spotify" \in enabled THEN "waiting" ELSE @]
    BY <1>2, <1>a DEF Search!Begin, Search!Autotag
  <2>2. v5[a] \in WRec /\ Good(v5[a], v6[a])
    BY <1>a, <1>c
  <2>3. group \in Group
    OBVIOUS
  <2>4. /\ w \in WRec /\ w.pc = "search" /\ w.autotag = v5[a].autotag /\ w.auto = v5[a].auto
        /\ w.hits = v5[a].hits /\ w.todo = v5[a].todo /\ w.at = v5[a].at /\ w.found = v5[a].found
        /\ w.failures = v5[a].failures /\ w.tried = v5[a].tried
    <3> HIDE DEF group, Group
    <3> QED
      BY <2>2, <2>3
  <2> HIDE DEF w
  <2>5. Good(w, v6[a])
    BY <2>1, <2>2, <2>4
  <2>6. /\ v4[<<a, "autotag">>] = "idle" /\ v4[<<a, "spotify">>] = "idle"
        /\ v4[<<a, "resolve">>] = "idle"
    BY <1>d, <2>1
  <2>7. /\ v4' \in [Thread -> TState] /\ v4'[<<a, "resolve">>] = "idle"
        /\ \A t \in Thread : t[1] # a => v4'[t] = v4[t]
        /\ \A t \in Thread : v4'[t] = v4[t] \/ (v4[t] = "idle" /\ v4'[t] = "waiting")
    <3> DEFINE x == <<a, "autotag">>
               y == <<a, "spotify">>
               z == <<a, "resolve">>
               v == IF "spotify" \in enabled THEN "waiting" ELSE v4[y]
    <3>1. /\ x \in Thread /\ y \in Thread /\ z \in Thread /\ x # y /\ x # z /\ y # z /\ x[1] = a
          /\ y[1] = a
      OBVIOUS
    <3>2. v4[x] = "idle" /\ v4[y] = "idle" /\ v4[z] = "idle" /\ (v = "waiting" \/ v = v4[y])
      BY <2>6
    <3>3. v4' = [[v4 EXCEPT ![x] = "waiting"] EXCEPT ![y] = v]
      BY <2>1, <3>1, <1>a
    <3>4. Thread = Thread
      OBVIOUS
    <3> HIDE DEF x, y, z, v, Thread
    <3>5. /\ v4' \in [Thread -> TState] /\ v4'[x] = "waiting" /\ v4'[y] = v
          /\ \A t \in Thread : t # x /\ t # y => v4'[t] = v4[t]
      BY <1>a, <3>1, <3>2, <3>3
    <3>6. \A t \in Thread : t[1] # a => v4'[t] = v4[t]
      BY <3>1, <3>5
    <3>7. \A t \in Thread : v4'[t] = v4[t] \/ (v4[t] = "idle" /\ v4'[t] = "waiting")
      BY <3>1, <3>2, <3>5
    <3>8. v4'[z] = "idle"
      BY <3>1, <3>2, <3>5
    <3> QED
      BY <3>5, <3>6, <3>7, <3>8 DEF z
  <2>8. Locks
    BY <1>i, <2>1, <2>7
  <2>9. v5[a].autotag = "none"
    BY <2>1, <2>2
  <2>10. Stepping(w, v4'[<<a, "autotag">>], v4'[<<a, "spotify">>], v4'[<<a, "resolve">>])
    BY <2>4, <2>7, <2>9
  <2>11. v6' = [v6 EXCEPT ![a] = v6[a]]
    BY <1>h, <2>1
  <2> HIDE DEF Good, Locks, Stepping, Fine
  <2> QED
    BY <1>g, <2>1, <2>5, <2>7, <2>8, <2>10, <2>11
\* What is left of a record and its threads when only its groups, hits and
\* choice of hits change.
<1>l. ASSUME NEW a \in Analysis, NEW w \in WRec, v5' = [v5 EXCEPT ![a] = w], v6' = v6, Locks,
             w.pc = v5[a].pc \/ (v5[a].pc = "search" /\ w.pc = "resolve" /\ v5[a].autotag # "none"),
             w.autotag = v5[a].autotag, w.auto = v5[a].auto, w.at = v5[a].at, w.found = v5[a].found,
             w.failures = v5[a].failures, w.tried = v5[a].tried,
             \A t \in Thread : t # <<a, "spotify">> => v4'[t] = v4[t],
             v4'[<<a, "spotify">>] = v4[<<a, "spotify">>] \/ v4'[<<a, "spotify">>] = "idle"
      PROVE  Fine
  <2>1. Good(v5[a], v6[a])
    BY <1>c
  <2>2. Good(w, v6[a])
    <3>1. v6[a] \in ARec
      BY <2>1
    <3>2. Counted(w)
      BY <1>l, <2>1
    <3>3. Whole(w, v6[a]) /\ Staged(w, v6[a])
      BY <1>l, <2>1
    <3> HIDE DEF WRec, ARec, Counted, Whole, Staged
    <3> QED
      BY <3>1, <3>2, <3>3
  <2>3. \A t \in Thread : t[1] # a => v4'[t] = v4[t]
    BY <1>l
  <2>4. v4'[<<a, "autotag">>] = v4[<<a, "autotag">>] /\ v4'[<<a, "resolve">>] = v4[<<a, "resolve">>]
    BY <1>f, <1>l
  <2>5. Stepping(v5[a], v4[<<a, "autotag">>], v4[<<a, "spotify">>], v4[<<a, "resolve">>])
    BY <1>d
  <2>6. Stepping(w, v4'[<<a, "autotag">>], v4'[<<a, "spotify">>], v4'[<<a, "resolve">>])
    BY <1>l, <2>4, <2>5
  <2>7. v6' = [v6 EXCEPT ![a] = v6[a]]
    BY <1>h, <1>l
  <2> HIDE DEF Good, Locks, Stepping, Fine
  <2> QED
    BY <1>g, <1>l, <2>2, <2>3, <2>6, <2>7
<1>m. ASSUME UNCHANGED <<v1, v2, v3, v4>> PROVE Locks
  BY <1>a, <1>b, <1>m
<1>o. ASSUME NEW p \in Provider, NEW ids \in SUBSET HitsOf[p]
      PROVE  [provider : {p}, id : ids] \in SUBSET Search!Hit
  BY DEF Search!Hit
<1>3. ASSUME NEW a \in Analysis, NEW p \in Provider, NEW outcome \in {"answered", "failed"},
             NEW ids \in SUBSET HitsOf[p], Search!ProviderAnswers(a, p, outcome, ids)
      PROVE  Fine
  <2> DEFINE new == [provider : {p}, id : ids]
             w == [v5[a] EXCEPT !.group[p] = outcome, !.hits = @ \cup new]
  <2>1. v5' = [v5 EXCEPT ![a] = w] /\ v6' = v6 /\ UNCHANGED <<v1, v2, v3, v4>>
    BY <1>3, <1>a DEF Search!ProviderAnswers, Search!WithGroup
  <2>2. new \in SUBSET Search!Hit
    BY <1>o
  <2> HIDE DEF new
  <2>3. /\ w \in WRec /\ w.pc = v5[a].pc /\ w.autotag = v5[a].autotag /\ w.auto = v5[a].auto
        /\ w.at = v5[a].at /\ w.found = v5[a].found /\ w.failures = v5[a].failures
        /\ w.tried = v5[a].tried
    <3> DEFINE group == [v5[a].group EXCEPT ![p] = outcome]
               hits == v5[a].hits \cup new
    <3>1. v5[a] \in WRec
      BY <1>a
    <3>2. group \in Group /\ hits \in SUBSET Search!Hit
      BY <3>1, <2>2
    <3>3. w = [v5[a] EXCEPT !.group = group, !.hits = hits]
      BY <3>1
    <3> HIDE DEF group, hits, Group, w
    <3> QED
      BY <3>1, <3>2, <3>3
  <2>4. Locks
    BY <1>m, <2>1
  <2>5. v4' = v4
    BY <2>1
  <2> HIDE DEF w, WRec, Locks, Fine
  <2> QED
    BY <1>l, <2>1, <2>3, <2>4, <2>5
<1>4. ASSUME NEW a \in Analysis, NEW p \in Provider, Search!SearchTimesOut(a, p) PROVE Fine
  <2> DEFINE w == [v5[a] EXCEPT !.group[p] = "late", !.hits = @ \cup {}]
  <2>1. v6' = v6 /\ UNCHANGED <<v1, v2, v3, v4>>
    BY <1>4 DEF Search!SearchTimesOut
  <2>2. v5' = [v5 EXCEPT ![a] = w]
    <3>1. v5[a] \in WRec
      BY <1>a
    <3>2. w = [v5[a] EXCEPT !.group[p] = "late"]
      BY <3>1
    <3> HIDE DEF w
    <3> QED
      BY <1>4, <1>a, <3>2 DEF Search!SearchTimesOut
  <2>3. /\ w \in WRec /\ w.pc = v5[a].pc /\ w.autotag = v5[a].autotag /\ w.auto = v5[a].auto
        /\ w.at = v5[a].at /\ w.found = v5[a].found /\ w.failures = v5[a].failures
        /\ w.tried = v5[a].tried
    <3> DEFINE group == [v5[a].group EXCEPT ![p] = "late"]
               hits == v5[a].hits \cup {}
    <3>1. v5[a] \in WRec
      BY <1>a
    <3>2. group \in Group /\ hits \in SUBSET Search!Hit
      BY <3>1
    <3>3. w = [v5[a] EXCEPT !.group = group, !.hits = hits]
      BY <3>1
    <3> HIDE DEF group, hits, Group, w
    <3> QED
      BY <3>1, <3>2, <3>3
  <2>4. Locks
    BY <1>m, <2>1
  <2>5. v4' = v4
    BY <2>1
  <2> HIDE DEF w, WRec, Locks, Fine
  <2> QED
    BY <1>l, <2>1, <2>2, <2>3, <2>4, <2>5
<1>5. ASSUME NEW a \in Analysis, NEW outcome \in {"answered", "failed"},
             NEW ids \in SUBSET HitsOf["spotify"], Search!SpotifyAnswers(a, outcome, ids)
      PROVE  Fine
  <2> DEFINE t == <<a, "spotify">>
             new == [provider : {"spotify"}, id : ids]
             w == [v5[a] EXCEPT !.group["spotify"] = outcome, !.hits = @ \cup new]
  <2>0. t \in Thread /\ "spotify" \in Provider
    BY KnownAssumption DEF KnownAssumption
  <2>1. Search!Release(t) /\ v6' = v6
    BY <1>5 DEF Search!SpotifyAnswers
  <2>2. v5' = [v5 EXCEPT ![a] = w] \/ v5' = [v5 EXCEPT ![a] = v5[a]]
    BY <1>5, <1>a DEF Search!SpotifyAnswers, Search!WithGroup
  <2>3. new \in SUBSET Search!Hit
    BY <1>o, <2>0
  <2>4. Locks /\ v4'[t] = "idle" /\ \A u \in Thread : u # t => v4'[u] = v4[u]
    <3> HIDE DEF t, Locks
    <3> QED
      BY <1>j, <2>0, <2>1
  <2> HIDE DEF new
  <2>5. /\ w \in WRec /\ w.pc = v5[a].pc /\ w.autotag = v5[a].autotag /\ w.auto = v5[a].auto
        /\ w.at = v5[a].at /\ w.found = v5[a].found /\ w.failures = v5[a].failures
        /\ w.tried = v5[a].tried
    <3> DEFINE group == [v5[a].group EXCEPT !["spotify"] = outcome]
               hits == v5[a].hits \cup new
    <3>1. v5[a] \in WRec
      BY <1>a
    <3>2. group \in Group /\ hits \in SUBSET Search!Hit
      BY <3>1, <2>0, <2>3
    <3>3. w = [v5[a] EXCEPT !.group = group, !.hits = hits]
      BY <3>1
    <3> HIDE DEF group, hits, Group, w
    <3> QED
      BY <3>1, <3>2, <3>3
  <2>6. v5[a] \in WRec
    BY <1>a
  <2> HIDE DEF w, WRec, Locks, Fine
  <2>7. ASSUME v5' = [v5 EXCEPT ![a] = w] PROVE Fine
    BY <1>l, <2>1, <2>4, <2>5, <2>7
  <2>8. ASSUME v5' = [v5 EXCEPT ![a] = v5[a]] PROVE Fine
    BY <1>l, <2>1, <2>4, <2>6, <2>8
  <2> QED
    BY <2>2, <2>7, <2>8
<1>6. ASSUME NEW a \in Analysis, NEW outcome \in {"answered", "failed"}, NEW cands \in SUBSET Known,
             Search!AutotagAnswers(a, outcome, cands)
      PROVE  Fine
  <2> DEFINE t == <<a, "autotag">>
             w == [v5[a] EXCEPT !.autotag = outcome, !.auto = cands]
  <2>0. t \in Thread
    OBVIOUS
  <2>1. Search!Release(t) /\ v6' = v6 /\ v5' = [v5 EXCEPT ![a] = w]
    BY <1>6, <1>a DEF Search!AutotagAnswers, Search!Autotag
  <2>2. /\ Locks /\ v4[t] = "using" /\ v4'[t] = "idle" /\ \A u \in Thread : u # t => v4'[u] = v4[u]
    <3> HIDE DEF t, Locks
    <3> QED
      BY <1>j, <2>0, <2>1
  <2>3. v5[a].pc = "search" /\ v4[<<a, "resolve">>] = "idle"
    BY <1>d, <2>2
  <2>4. Good(v5[a], v6[a]) /\ v5[a] \in WRec
    BY <1>c
  <2>5. /\ w \in WRec /\ w.pc = "search" /\ w.auto = cands /\ w.at = v5[a].at
        /\ w.found = v5[a].found
        /\ w.failures = v5[a].failures /\ w.tried = v5[a].tried
    <3> HIDE DEF Group, Counted, Whole, Staged
    <3> QED
      BY <2>3, <2>4
  <2> HIDE DEF w
  <2>6. Good(w, v6[a])
    <3>1. v6[a] = NoAnswer /\ v6[a] \in ARec /\ v5[a].found = {} /\ w.found = {}
      BY <2>3, <2>4, <2>5
    <3>2. Counted(w)
      BY <2>3, <2>4, <2>5
    <3>3. Whole(w, v6[a])
      BY <2>5, <3>1, KnownAssumption DEF KnownAssumption
    <3>4. Staged(w, v6[a])
      BY <2>5, <3>1
    <3> HIDE DEF WRec, ARec, Counted, Whole, Staged
    <3> QED
      BY <2>5, <3>1, <3>2, <3>3, <3>4
  <2>7. v4'[<<a, "resolve">>] = "idle" /\ \A u \in Thread : u[1] # a => v4'[u] = v4[u]
    BY <1>f, <2>2, <2>3
  <2>8. Stepping(w, v4'[<<a, "autotag">>], v4'[<<a, "spotify">>], v4'[<<a, "resolve">>])
    BY <2>2, <2>5, <2>7
  <2>9. v6' = [v6 EXCEPT ![a] = v6[a]]
    BY <1>h, <2>1
  <2> HIDE DEF Good, Locks, Stepping, Fine
  <2> QED
    BY <1>g, <2>1, <2>2, <2>6, <2>7, <2>8, <2>9
\* An analysis whose autotagger has answered has no thread of its own left.
<1>7. ASSUME NEW a \in Analysis,
             \/ Search!Searched(a)
             \/ v5[a].pc = "resolve" /\ v5[a].at = {}
             \/ v5[a].pc = "new"
      PROVE  v4[<<a, "autotag">>] = "idle" /\ v4[<<a, "resolve">>] = "idle"
  BY <1>7, <1>d DEF Search!Searched, Search!None
<1>8. ASSUME NEW a \in Analysis, \/ Search!NothingToAnalyze(a) \/ Search!AutotagFails(a)
                                 \/ Search!SearchFails(a) \/ Search!NoHits(a)
                                 \/ Search!Merge(a) \/ Search!MergeFails(a)
      PROVE  Fine
  <2>1. v4[<<a, "autotag">>] = "idle" /\ v4[<<a, "resolve">>] = "idle"
    BY <1>7, <1>8 DEF Search!NothingToAnalyze, Search!AutotagFails, Search!SearchFails,
       Search!NoHits,
                      Search!Merge, Search!MergeFails
  <2>2. v1' = v1 /\ v2' = v2 /\ v3' = v3 /\ v4' = v4
    BY <1>8 DEF Search!NothingToAnalyze, Search!AutotagFails, Search!SearchFails, Search!NoHits,
                Search!Merge, Search!MergeFails
  <2>3. Good(v5[a], v6[a])
    BY <1>c
  <2>4. v5[a].auto \in SUBSET Known /\ v5[a].found \in SUBSET Search!Found
    BY <2>3
  <2>5. Plain(v5[a].auto) /\ OnceOnly(v5[a].auto) /\ OnceOnly(v5[a].auto \cup v5[a].found)
    BY <2>3, <2>4, KnownAssumption DEF KnownAssumption
  <2>6. \E outcome \in {"failed", "degraded", "cached"}, cands \in SUBSET (Known \cup Search!Found) :
          Search!End(a, outcome, cands) /\ OnceOnly(cands) /\ (outcome = "degraded" => Plain(cands))
    <3>1. ASSUME Search!NothingToAnalyze(a) \/ Search!AutotagFails(a)
          PROVE  Search!End(a, "failed", {}) /\ OnceOnly({}) /\ Plain({})
      BY <3>1 DEF Search!NothingToAnalyze, Search!AutotagFails, Search!Failed
    <3>2. ASSUME Search!SearchFails(a) \/ Search!MergeFails(a)
          PROVE  Search!End(a, "degraded", v5[a].auto)
      BY <3>2 DEF Search!SearchFails, Search!MergeFails
    <3>3. ASSUME Search!NoHits(a) PROVE Search!End(a, "cached", v5[a].auto)
      BY <3>3 DEF Search!NoHits
    <3>4. ASSUME Search!Merge(a)
          PROVE  \/ Search!End(a, "cached", v5[a].auto \cup v5[a].found)
                 \/ Search!End(a, "degraded", v5[a].auto \cup v5[a].found) /\ v5[a].found = {}
      <4>1. v5[a].at = {} /\ v5[a].failures \in Nat /\ v5[a].tried \in Nat
        BY <2>3, <3>4 DEF Search!Merge
      <4>2. v5[a].failures = v5[a].tried => v5[a].found = {}
        BY <2>3, <4>1, SearchCounts
      <4> QED
        BY <3>4, <4>2 DEF Search!Merge
    <3> DEFINE all == v5[a].auto \cup v5[a].found
               auto == v5[a].auto
    <3>5. auto \in SUBSET (Known \cup Search!Found) /\ all \in SUBSET (Known \cup Search!Found)
          /\ {} \in SUBSET (Known \cup Search!Found) /\ (v5[a].found = {} => all = auto)
      BY <2>4
    <3>6. Plain(auto) /\ OnceOnly(auto) /\ OnceOnly(all)
      BY <2>5
    <3> HIDE DEF all, auto, Plain, OnceOnly
    <3> QED
      BY <1>8, <3>1, <3>2, <3>3, <3>4, <3>5, <3>6 DEF all, auto
  <2> HIDE DEF Fine, Plain, OnceOnly
  <2> QED
    BY <1>k, <2>1, <2>2, <2>6
<1>9. ASSUME NEW a \in Analysis, Search!ChooseHits(a) PROVE Fine
  <2>1. PICK best \in SUBSET v5[a].hits :
          v5' = [v5 EXCEPT ![a].pc = "resolve", ![a].todo = best]
    BY <1>9 DEF Search!ChooseHits, Search!kSubset, Search!Fresh
  <2> DEFINE w == [v5[a] EXCEPT !.pc = "resolve", !.todo = best]
  <2>2. /\ v5' = [v5 EXCEPT ![a] = w] /\ v6' = v6 /\ UNCHANGED <<v1, v2, v3, v4>>
        /\ v5[a].pc = "search" /\ v5[a].autotag # "none"
    BY <1>9, <1>a, <2>1 DEF Search!ChooseHits, Search!Searched, Search!None
  <2>3. v5[a] \in WRec
    BY <1>a
  <2>4. /\ w \in WRec /\ w.pc = "resolve" /\ w.autotag = v5[a].autotag /\ w.auto = v5[a].auto
        /\ w.at = v5[a].at /\ w.found = v5[a].found /\ w.failures = v5[a].failures
        /\ w.tried = v5[a].tried
    <3> HIDE DEF Group
    <3> QED
      BY <2>3
  <2>5. Locks /\ v4' = v4
    BY <1>m, <2>2
  <2> HIDE DEF w, WRec, Locks, Fine
  <2> QED
    BY <1>l, <2>2, <2>4, <2>5
<1>10. ASSUME NEW a \in Analysis, NEW h \in Search!Hit, Search!StartResolve(a, h) PROVE Fine
  <2> DEFINE t == <<a, "resolve">>
             w == [v5[a] EXCEPT !.at = {h}, !.todo = @ \ {h}, !.tried = @ + 1]
  <2>0. t \in Thread
    OBVIOUS
  <2>1. /\ v5' = [v5 EXCEPT ![a] = w] /\ v6' = v6 /\ v1' = v1 /\ v2' = v2 /\ v3' = v3
        /\ v4' = [v4 EXCEPT ![t] = "waiting"] /\ v5[a].pc = "resolve" /\ v5[a].at = {}
    BY <1>10, <1>a DEF Search!StartResolve
  <2>2. Good(v5[a], v6[a]) /\ v5[a] \in WRec
    BY <1>c
  <2>3. /\ w \in WRec /\ w.pc = "resolve" /\ w.auto = v5[a].auto /\ w.at = {h}
        /\ w.found = v5[a].found
        /\ w.failures = v5[a].failures /\ w.tried = v5[a].tried + 1
    <3> DEFINE todo == v5[a].todo \ {h}
               tried == v5[a].tried + 1
               at == {h}
    <3>1. todo \in SUBSET Search!Hit /\ tried \in Nat /\ at \in SUBSET Search!Hit
      <4> HIDE DEF Good
      <4> QED
        BY <2>2
    <3>2. w = [v5[a] EXCEPT !.at = at, !.todo = todo, !.tried = tried]
      OBVIOUS
    <3> HIDE DEF Group, todo, tried, at, w, Good
    <3>3. /\ w \in WRec /\ w.pc = v5[a].pc /\ w.auto = v5[a].auto /\ w.at = at
          /\ w.found = v5[a].found
          /\ w.failures = v5[a].failures /\ w.tried = tried
      BY <2>2, <3>1, <3>2
    <3> QED
      BY <2>1, <3>3 DEF at, tried
  <2> HIDE DEF w
  <2>4. Good(w, v6[a])
    <3>1. v6[a] = NoAnswer /\ v6[a] \in ARec
      BY <2>1, <2>2
    <3>2. Counted(w)
      <4>1. /\ Counted(v5[a]) /\ v5[a].failures \in Nat /\ v5[a].tried \in Nat /\ N({}) = 0
            /\ N({h}) = 1
        BY <2>2, SearchCounts
      <4> HIDE DEF N, Good, WRec
      <4> QED
        BY <2>1, <2>3, <4>1
    <3>3. Whole(w, v6[a]) /\ Staged(w, v6[a])
      BY <2>2, <2>3, <3>1
    <3> HIDE DEF WRec, ARec, Counted, Whole, Staged
    <3> QED
      BY <2>3, <3>1, <3>2, <3>3
  <2>5. v4[<<a, "autotag">>] = "idle" /\ v4[t] = "idle"
    BY <1>7, <2>1
  <2>6. /\ v4' \in [Thread -> TState] /\ v4'[t] = "waiting"
        /\ \A u \in Thread : u # t => v4'[u] = v4[u]
    <3> HIDE DEF t, Thread
    <3> QED
      BY <1>a, <2>0, <2>1
  <2>7. v4'[<<a, "autotag">>] = "idle" /\ \A u \in Thread : u[1] # a => v4'[u] = v4[u]
    BY <1>f, <2>5, <2>6
  <2>8. Locks
    <3> HIDE DEF t, Locks, Thread
    <3> QED
      BY <1>i, <2>1, <2>5, <2>6
  <2>9. Stepping(w, v4'[<<a, "autotag">>], v4'[<<a, "spotify">>], v4'[<<a, "resolve">>])
    BY <2>3, <2>7
  <2>10. v6' = [v6 EXCEPT ![a] = v6[a]]
    BY <1>h, <2>1
  <2> HIDE DEF Good, Locks, Stepping, Fine
  <2> QED
    BY <1>g, <2>1, <2>4, <2>7, <2>8, <2>9, <2>10
\* The end of an attempt: it failed, or it found a release that may be new.
<1>11. ASSUME NEW a \in Analysis, Search!Release(<<a, "resolve">>), v6' = v6,
              NEW w \in WRec, v5' = [v5 EXCEPT ![a] = w],
              w.pc = v5[a].pc, w.auto = v5[a].auto, w.at = {}, w.tried = v5[a].tried,
              \/ w.found = v5[a].found /\ w.failures \in {v5[a].failures, v5[a].failures + 1}
              \/ w.failures = v5[a].failures /\ OnceOnly(v5[a].auto \cup w.found)
       PROVE  Fine
  <2> DEFINE t == <<a, "resolve">>
  <2>0. t \in Thread
    OBVIOUS
  <2>1. /\ Locks /\ v4[t] = "using" /\ v4'[t] = "idle" /\ \A u \in Thread : u # t => v4'[u] = v4[u]
    <3>1. Search!Release(t)
      BY <1>11
    <3> HIDE DEF t, Locks
    <3> QED
      BY <1>j, <2>0, <3>1
  <2>2. v5[a].pc = "resolve" /\ v5[a].at # {} /\ v4[<<a, "autotag">>] = "idle"
    BY <1>d, <2>1
  <2>3. Good(v5[a], v6[a]) /\ v5[a] \in WRec
    BY <1>c
  <2>4. /\ w \in WRec /\ w.pc = "resolve" /\ w.auto = v5[a].auto /\ w.at = {}
        /\ w.tried = v5[a].tried
    BY ONLY <1>11, <2>2
  <2>c. Counted(v5[a]) /\ v5[a].failures \in Nat /\ v5[a].tried \in Nat
    BY <2>3
  <2>5. PICK h : v5[a].at = {h}
    <3>1. PICK h : h \in v5[a].at
      BY <2>2
    <3>2. Single(v5[a].at)
      BY <2>c
    <3>3. v5[a].at = {h}
      BY ONLY <3>1, <3>2
    <3> QED
      BY ONLY <3>3
  <2>s. N(v5[a].at) = 1
    BY <2>5, SearchCounts
  <2>6. v5[a].failures \in Nat /\ v5[a].tried \in Nat /\ v5[a].failures + 1 <= v5[a].tried
    <3> HIDE DEF N, Good
    <3> QED
      BY <2>c, <2>s
  <2>7. v5[a].found # {} => v5[a].failures + 1 < v5[a].tried
    <3> HIDE DEF N, Good
    <3> QED
      BY <2>c, <2>s
  <2>8. Good(w, v6[a])
    <3>1. v6[a] = NoAnswer /\ v6[a] \in ARec
      BY <2>2, <2>3
    <3>2. Counted(w)
      BY <1>11, <2>4, <2>6, <2>7, SearchCounts
    <3>3. Whole(w, v6[a]) /\ Staged(w, v6[a])
      BY <1>11, <2>3, <2>4, <3>1
    <3> HIDE DEF WRec, ARec, Counted, Whole, Staged
    <3> QED
      BY <2>4, <3>1, <3>2, <3>3
  <2>9. v4'[<<a, "autotag">>] = "idle" /\ \A u \in Thread : u[1] # a => v4'[u] = v4[u]
    BY <1>f, <2>1, <2>2
  <2>10. Stepping(w, v4'[<<a, "autotag">>], v4'[<<a, "spotify">>], v4'[<<a, "resolve">>])
    BY <2>1, <2>4, <2>9
  <2>11. v6' = [v6 EXCEPT ![a] = v6[a]] /\ v5' = [v5 EXCEPT ![a] = w]
    BY <1>h, <1>11
  <2> HIDE DEF Good, Locks, Stepping, Fine
  <2> QED
    BY <1>g, <2>1, <2>8, <2>9, <2>10, <2>11
<1>12. ASSUME NEW a \in Analysis, Search!ResolveFails(a) PROVE Fine
  <2>1. v5[a] \in WRec
    BY <1>a
  <2>2. v5[a].failures + 1 \in Nat /\ v5[a].found \in SUBSET Search!Found
    BY <2>1
  <2> DEFINE w == [v5[a] EXCEPT !.at = {}, !.failures = v5[a].failures + 1]
  <2>3. /\ w \in WRec /\ w.pc = v5[a].pc /\ w.auto = v5[a].auto /\ w.at = {}
        /\ w.tried = v5[a].tried /\ w.found = v5[a].found /\ w.failures = v5[a].failures + 1
    BY <2>1, <2>2
  <2>4. v5' = [v5 EXCEPT ![a] = w] /\ Search!Release(<<a, "resolve">>) /\ v6' = v6
    BY <1>12, <1>a DEF Search!ResolveFails
  <2> HIDE DEF Fine, OnceOnly, w, WRec
  <2> QED
    BY <1>11, <2>3, <2>4
<1>13. ASSUME NEW a \in Analysis, NEW h \in Search!Hit, NEW id \in HitsOf[h.provider],
              Search!Resolved(a, h, id)
       PROVE  Fine
  <2> DEFINE c == Search!Candidate(h.provider, id, h.id)
             known == Search!IsKnown(h.provider, id, v5[a].found \cup v5[a].auto)
             found == IF known THEN v5[a].found ELSE v5[a].found \cup {c}
  <2>1. v5[a] \in WRec
    BY <1>a
  <2>2. c \in Search!Found /\ c.source = h.provider /\ c.id = id
    BY DEF Search!Candidate, Search!Found, Search!Hit
  <2>3. v5[a].failures \in Nat /\ found \in SUBSET Search!Found
    BY <2>1, <2>2
  <2>4. found = v5[a].found \/ OnceOnly(v5[a].auto \cup found)
    <3>1. OnceOnly((v5[a].auto \cup v5[a].found) \cup v6[a].candidates)
      BY <1>c
    <3>2. ~known => \A d \in v5[a].auto \cup v5[a].found : ~(d.source = c.source /\ d.id = c.id)
      BY <2>2 DEF Search!IsKnown
    <3> HIDE DEF c, known
    <3> QED
      BY <3>1, <3>2
  <2> DEFINE w == [v5[a] EXCEPT !.at = {}, !.found = found]
  <2>5. v5' = [v5 EXCEPT ![a] = w] /\ Search!Release(<<a, "resolve">>) /\ v6' = v6
    BY <1>13, <1>a DEF Search!Resolved
  <2> HIDE DEF found
  <2>6. /\ w \in WRec /\ w.pc = v5[a].pc /\ w.auto = v5[a].auto /\ w.at = {}
        /\ w.tried = v5[a].tried /\ w.found = found /\ w.failures = v5[a].failures
    BY <2>1, <2>3
  <2> HIDE DEF Fine, OnceOnly, w, WRec
  <2> QED
    BY <1>11, <2>4, <2>5, <2>6
<1>14. Fine
  <2>1. \A p \in Provider : {} \in SUBSET HitsOf[p]
    OBVIOUS
  <2>2. "spotify" \in Provider /\ {} \in SUBSET HitsOf["spotify"] /\ {} \in SUBSET Known
    BY KnownAssumption DEF KnownAssumption
  <2> HIDE DEF Fine, Thread
  <2> QED
    BY <1>0, <1>1, <1>2, <1>3, <1>4, <1>5, <1>6, <1>8, <1>9, <1>10, <1>12, <1>13, <2>1, <2>2
       DEF Search!Next, Search!Failed
<1> HIDE DEF Fine
<1> QED
  BY <1>e, <1>14

(***************************************************************************)
(* The types of the scans, with any number of workers                      *)
(***************************************************************************)

\* Of any scans one has a latest stamp.
Lasting == \A S \in SUBSET Scan : \E l : IsLast(l, S)
ItemsInv == TypeOK /\ Lasting

\* The rows of the scans have their types at first.
LEMMA ItemsInit == Init => ItemsInv
<1> SUFFICES ASSUME Init PROVE ItemsInv
  OBVIOUS
<1>1. TypeOK /\ \A s \in Scan : scan[s].stamp = 0
  BY SerialInit DEF SerialInv, Init, NotStarted
<1>2. ASSUME NEW S \in SUBSET Scan PROVE \E l : IsLast(l, S)
  <2>1. CASE S = {}
    BY <2>1 DEF IsLast
  <2>2. CASE S # {}
    <3>1. PICK l \in S : TRUE
      BY <2>2
    <3> QED
      BY <1>1, <3>1 DEF IsLast
  <2> QED
    BY <2>1, <2>2
<1> QED
  BY <1>1, <1>2 DEF ItemsInv, Lasting

\* Another stamp of one scan: it is the latest now, or the latest of the others is.
LEMMA LastingStep ==
  ASSUME Lasting, TypeOK', NEW s \in Scan, \A t \in Scan \ {s} : scan'[t].stamp = scan[t].stamp
  PROVE  Lasting'
<1> SUFFICES ASSUME NEW S \in SUBSET Scan PROVE \E l : IsLast(l, S)'
  BY DEF Lasting
<1>1. \A t \in Scan : scan'[t].stamp \in Nat
  BY DEF TypeOK, ScanRecord
<1>2. PICK l : IsLast(l, S \ {s})
  BY DEF Lasting
<1>3. CASE s \notin S
  BY <1>2, <1>3 DEF IsLast
<1>4. CASE s \in S /\ S \ {s} = {}
  <2>1. S = {s}
    BY <1>4
  <2> QED
    BY <1>1, <2>1 DEF IsLast
<1>5. CASE s \in S /\ S \ {s} # {}
  <2>1. l \in S \ {s} /\ \A c \in S \ {s} : scan'[c].stamp <= scan'[l].stamp
    BY <1>2, <1>5 DEF IsLast
  <2>2. \/ scan'[s].stamp <= scan'[l].stamp
        \/ scan'[l].stamp <= scan'[s].stamp
    BY <1>1, <2>1
  <2>3. CASE scan'[s].stamp <= scan'[l].stamp
    BY <2>1, <2>3 DEF IsLast
  <2>4. CASE scan'[l].stamp <= scan'[s].stamp
    <3>1. \A c \in S : scan'[c].stamp <= scan'[s].stamp
      BY <1>1, <2>1, <2>4
    <3> QED
      BY <1>5, <3>1 DEF IsLast
  <2> QED
    BY <2>2, <2>3, <2>4
<1> QED
  BY <1>3, <1>4, <1>5

\* Every step of a scan keeps the types, however many scans work at once.
LEMMA ItemsStep == ItemsInv /\ Next => ItemsInv'
<1> SUFFICES ASSUME ItemsInv, Next PROVE ItemsInv'
  OBVIOUS
<1>a. TypeOK /\ Lasting
  BY DEF ItemsInv
<1>b. /\ disk \subseteq File /\ row \in [File -> Row] /\ faults \in 0 .. MaxFaults
      /\ scan \in [Scan -> ScanRecord]
  BY <1>a DEF TypeOK
<1>c. Completed \in SUBSET Scan /\ LastScan \in Scan \cup {NoScan}
  <2>1. Completed \in SUBSET Scan
    BY DEF Completed
  <2>2. IsLast(LastScan, Completed)
    BY <1>a, <2>1, LastChosen DEF Lasting
  <2> QED
    BY <2>1, <2>2 DEF IsLast
\* A step of one scan gives it a record of a scan.
<1>d. ASSUME NEW s \in Scan, NEW r \in ScanRecord, scan' = [scan EXCEPT ![s] = r],
             disk' = disk, row' \in [File -> Row], faults' \in 0 .. MaxFaults
      PROVE  ItemsInv'
  <2>1. scan' \in [Scan -> ScanRecord] /\ \A t \in Scan \ {s} : scan'[t].stamp = scan[t].stamp
    <3> HIDE DEF ScanRecord
    <3> QED
      BY <1>b, <1>d
  <2>2. TypeOK'
    BY <1>b, <1>d, <2>1 DEF TypeOK
  <2> QED
    BY <1>a, <2>1, <2>2, LastingStep DEF ItemsInv
<1>e. \A s \in Scan : scan[s] \in ScanRecord
  BY <1>b
<1>f. ASSUME faults' = faults + 1, faults < MaxFaults PROVE faults' \in 0 .. MaxFaults
  BY <1>b, <1>f, ScanAssumption DEF ScanAssumption
<1>1. ASSUME NEW s \in Scan, NEW pc \in Pc, Goto(s, pc), disk' = disk, row' = row, faults' \in 0 .. MaxFaults
      PROVE  ItemsInv'
  <2> DEFINE r == [scan[s] EXCEPT !.pc = pc]
  <2>1. r \in ScanRecord
    BY <1>e DEF ScanRecord
  <2>2. scan' = [scan EXCEPT ![s] = r]
    BY <1>1 DEF Goto
  <2> HIDE DEF r
  <2> QED
    BY <1>1, <1>b, <1>d, <2>1, <2>2
<1>2. ASSUME NEW s \in Scan, Start(s) PROVE ItemsInv'
  <2> DEFINE r == [scan[s] EXCEPT !.pc = "previous", !.status = "running"]
  <2>1. r \in ScanRecord
    BY <1>e DEF ScanRecord, Pc, ScanStatus
  <2>2. scan' = [scan EXCEPT ![s] = r] /\ disk' = disk /\ row' = row /\ faults' = faults
    BY <1>2 DEF Start
  <2> HIDE DEF r
  <2> QED
    BY <1>b, <1>d, <2>1, <2>2
<1>3. ASSUME NEW s \in Scan, FindPrevious(s) PROVE ItemsInv'
  <2> DEFINE r == [scan[s] EXCEPT !.pc = "items", !.before = LastScan]
  <2>1. r \in ScanRecord
    BY <1>c, <1>e DEF ScanRecord, Pc
  <2>2. scan' = [scan EXCEPT ![s] = r] /\ disk' = disk /\ row' = row /\ faults' = faults
    BY <1>3 DEF FindPrevious
  <2> HIDE DEF r
  <2> QED
    BY <1>b, <1>d, <2>1, <2>2
<1>4. ASSUME NEW s \in Scan, ReadPrevious(s) PROVE ItemsInv'
  <2> DEFINE prev == {f \in File : scan[s].before # NoScan /\ row[f].scan = scan[s].before}
             r == [scan[s] EXCEPT !.pc = "walk", !.prev = prev]
  <2>1. r \in ScanRecord
    <3>1. prev \in SUBSET File
      OBVIOUS
    <3> HIDE DEF prev
    <3> QED
      BY <1>e, <3>1 DEF ScanRecord, Pc
  <2>2. scan' = [scan EXCEPT ![s] = r] /\ disk' = disk /\ row' = row /\ faults' = faults
    BY <1>4 DEF ReadPrevious
  <2> HIDE DEF r
  <2> QED
    BY <1>b, <1>d, <2>1, <2>2
<1>5. ASSUME NEW s \in Scan, Walk(s) PROVE ItemsInv'
  <2> DEFINE r == [scan[s] EXCEPT !.pc = "load", !.seen = disk]
  <2>1. r \in ScanRecord
    BY <1>b, <1>e DEF ScanRecord, Pc
  <2>2. scan' = [scan EXCEPT ![s] = r] /\ disk' = disk /\ row' = row /\ faults' = faults
    BY <1>5 DEF Walk
  <2> HIDE DEF r
  <2> QED
    BY <1>b, <1>d, <2>1, <2>2
<1>6. ASSUME NEW s \in Scan, Load(s) PROVE ItemsInv'
  <2> DEFINE loaded == [f \in File |-> row[f].status]
             r == [scan[s] EXCEPT !.pc = "stamp", !.loaded = loaded]
  <2>1. loaded \in [File -> ItemStatus \cup {"none", "gone"}]
    BY <1>b DEF Row
  <2>2. r \in ScanRecord
    <3> HIDE DEF loaded
    <3> QED
      BY <1>e, <2>1 DEF ScanRecord, Pc
  <2>3. scan' = [scan EXCEPT ![s] = r] /\ disk' = disk /\ row' = row /\ faults' = faults
    BY <1>6 DEF Load
  <2> HIDE DEF r
  <2> QED
    BY <1>b, <1>d, <2>2, <2>3
<1>7. ASSUME NEW s \in Scan, Stamp(s) PROVE ItemsInv'
  <2> DEFINE stamp == 1 + Cardinality(Stamped)
             r == [scan[s] EXCEPT !.pc = "commit", !.stamp = stamp]
  <2>1. stamp \in Nat
    BY <1>a, StampedCard
  <2>2. r \in ScanRecord
    <3> HIDE DEF stamp
    <3> QED
      BY <1>e, <2>1 DEF ScanRecord, Pc
  <2>3. scan' = [scan EXCEPT ![s] = r] /\ disk' = disk /\ row' = row /\ faults' = faults
    BY <1>7 DEF Stamp, Stamped
  <2> HIDE DEF r
  <2> QED
    BY <1>b, <1>d, <2>2, <2>3
<1>8. ASSUME NEW s \in Scan, Commit(s) PROVE ItemsInv'
  <2> DEFINE r == [scan[s] EXCEPT !.pc = "report", !.status = "completed", !.kept = scan[s].seen]
  <2>1. r \in ScanRecord
    BY <1>e DEF ScanRecord, Pc, ScanStatus
  <2>2. scan' = [scan EXCEPT ![s] = r] /\ disk' = disk /\ faults' = faults
    BY <1>8 DEF Commit
  <2>3. row' \in [File -> Row]
    <3>1. PICK modified \in SUBSET scan[s].seen :
            row' = [f \in File |->
              IF f \in Inserted(s) THEN [scan |-> s, status |-> NewStatus(s, f, modified)]
              ELSE IF f \in Updated(s) THEN UpdatedRow(s, f, NewStatus(s, f, modified))
              ELSE row[f]]
      BY <1>8 DEF Commit
    <3>2. \A f \in File : NewStatus(s, f, modified) \in ItemStatus
      BY DEF NewStatus, ItemStatus
    <3>3. \A f \in File, status \in ItemStatus :
            [scan |-> s, status |-> status] \in Row /\ UpdatedRow(s, f, status) \in Row
      BY <1>b DEF Row, UpdatedRow
    <3> QED
      BY <1>b, <3>1, <3>2, <3>3
  <2> HIDE DEF r
  <2> QED
    BY <1>b, <1>d, <2>1, <2>2, <2>3
<1>9. ASSUME NEW s \in Scan, Fail(s) PROVE ItemsInv'
  <2> DEFINE r == [scan[s] EXCEPT !.pc = "done", !.status = "failed"]
  <2>1. r \in ScanRecord
    BY <1>e DEF ScanRecord, Pc, ScanStatus
  <2>2. scan' = [scan EXCEPT ![s] = r] /\ disk' = disk /\ row' = row /\ faults' \in 0 .. MaxFaults
    BY <1>9, <1>f DEF Fail
  <2> HIDE DEF r
  <2> QED
    BY <1>b, <1>d, <2>1, <2>2
<1>10. ASSUME NEW s \in Scan, CommitConflict(s) \/ Finish(s) \/ Die(s) PROVE ItemsInv'
  <2>1. "done" \in Pc
    BY DEF Pc
  <2>2. Goto(s, "done") /\ disk' = disk /\ row' = row /\ faults' \in 0 .. MaxFaults
    BY <1>10, <1>b, <1>f DEF CommitConflict, Finish, Die
  <2> QED
    BY <1>1, <2>1, <2>2
<1>11. ASSUME scan' = scan, row' = row, faults' = faults, disk' \subseteq File PROVE ItemsInv'
  BY <1>a, <1>11 DEF ItemsInv, TypeOK, Lasting, IsLast
<1>12. ASSUME NEW f \in File, DropItem(f) PROVE ItemsInv'
  <2> DEFINE loaded(s) == [g \in File |-> IF g = f /\ scan[s].loaded[g] # "none" THEN "gone" ELSE scan[s].loaded[g]]
             r(s) == [scan[s] EXCEPT !.kept = scan[s].kept \ {f}, !.loaded = loaded(s)]
  <2>0. \A s \in Scan :
          [scan[s] EXCEPT !.kept = @ \ {f},
                          !.loaded = [g \in File |-> IF g = f /\ @[f] # "none" THEN "gone" ELSE @[g]]] = r(s)
    OBVIOUS
  <2>1. /\ scan' = [s \in Scan |-> r(s)] /\ disk' = disk /\ faults' = faults
        /\ row' = [row EXCEPT ![f] = NoRow]
    <3>1. scan' = [s \in Scan |->
            [scan[s] EXCEPT !.kept = @ \ {f},
                            !.loaded = [g \in File |-> IF g = f /\ @[f] # "none" THEN "gone" ELSE @[g]]]]
      BY <1>12 DEF DropItem
    <3> HIDE DEF r
    <3> QED
      BY <1>12, <2>0, <3>1 DEF DropItem
  <2>2. ASSUME NEW s \in Scan PROVE r(s) \in ScanRecord /\ r(s).stamp = scan[s].stamp
    <3> DEFINE kept == scan[s].kept \ {f}
               l == loaded(s)
    <3>1. scan[s].loaded \in [File -> ItemStatus \cup {"none", "gone"}] /\ kept \in SUBSET File
      BY <1>e DEF ScanRecord
    <3>2. l \in [File -> ItemStatus \cup {"none", "gone"}]
      BY <3>1
    <3>3. r(s) = [scan[s] EXCEPT !.kept = kept, !.loaded = l]
      OBVIOUS
    <3> HIDE DEF r, kept, l
    <3> QED
      BY <1>e, <3>1, <3>2, <3>3 DEF ScanRecord
  <2> HIDE DEF r
  <2>3. scan' \in [Scan -> ScanRecord] /\ \A s \in Scan : scan'[s].stamp = scan[s].stamp
    <3>1. \A s \in Scan : scan'[s] = r(s)
      BY <2>1
    <3> QED
      BY <2>1, <2>2, <3>1
  <2>4. row' \in [File -> Row]
    BY <1>b, <2>1 DEF NoRow, Row
  <2>5. TypeOK'
    BY <1>b, <2>1, <2>3, <2>4 DEF TypeOK
  <2>6. Lasting'
    <3>1. CASE Scan = {}
      BY <3>1 DEF Lasting, IsLast
    <3>2. ASSUME NEW s \in Scan PROVE Lasting'
      BY <1>a, <2>3, <2>5, LastingStep
    <3> QED
      BY <3>1, <3>2
  <2> QED
    BY <2>5, <2>6 DEF ItemsInv
<1>13. ASSUME NEW f \in File, AddFile(f) \/ RemoveFile(f) PROVE ItemsInv'
  BY <1>11, <1>13, <1>b DEF AddFile, RemoveFile
<1> QED
  BY <1>2, <1>3, <1>4, <1>5, <1>6, <1>7, <1>8, <1>9, <1>10, <1>12, <1>13 DEF Next

(***************************************************************************)
(* All parts together                                                      *)
(***************************************************************************)

\* The invariant of the part at work, and the types of the scans, which stand still
\* while it works.
RecordsInv ==
  /\ ItemsInv
  /\ part = "items" => v1 = "unused"
  /\ part = "events" => Activity!EventInv
  /\ part = "sync" => Sync!SyncInv
  /\ part = "tagging" => Tagging!BatchInv
  /\ part = "settings" => Setting!SettingsInv
  /\ part = "watcher" => Watch!WatchInv
  /\ part = "config" => Config!ConfigInv
  /\ part = "answers" => Answers!CacheInv
  /\ part = "search" => Search!SearchInv
  /\ part = "ask" => v2 \in BOOLEAN
  /\ part \in {"items", "events", "sync", "tagging", "settings", "watcher", "config", "answers",
               "search", "ask"}

\* The invariant holds at first, whatever part is at work.
LEMMA RecordsInitial == RecordsInit => RecordsInv
<1> SUFFICES ASSUME RecordsInit PROVE RecordsInv
  OBVIOUS
<1>1. NoScans => Init
  BY DEF NoScans, Init
<1>2. ItemsInv
  BY <1>1, ItemsInit DEF RecordsInit
<1> QED
  BY <1>2, EventsInit, SyncInit, BatchInit, SettingsInit, WatchInit, ConfigInit, CacheInit,
     SearchInit DEF RecordsInit, RecordsInv, Rest1

\* The types of the scans depend on their variables only.
LEMMA ItemsStill == ItemsInv /\ UNCHANGED vars => ItemsInv'
  BY DEF ItemsInv, TypeOK, Lasting, IsLast, vars

\* Every step keeps the invariant of the part that takes it.
LEMMA RecordsStep == RecordsInv /\ [RecordsNext]_<<part, Slots, vars>> => RecordsInv'
<1> SUFFICES ASSUME RecordsInv, [RecordsNext]_<<part, Slots, vars>> PROVE RecordsInv'
  OBVIOUS
<1>1. CASE RecordsNext
  <2>1. ItemsInv'
    BY <1>1, ItemsStep, ItemsStill DEF RecordsInv, RecordsNext
  <2>2. UNCHANGED Slots => v1' = v1
    BY DEF Slots
  <2> QED
    BY <1>1, <2>1, <2>2, EventsStep, SyncStep, BatchStep, SettingsStep, WatchStep, ConfigStep,
       CacheStep, SearchStep DEF RecordsInv, RecordsNext, Ask
<1>2. CASE UNCHANGED <<part, Slots, vars>>
  <2>1. /\ part' = part /\ v1' = v1 /\ v2' = v2 /\ v3' = v3 /\ v4' = v4 /\ v5' = v5
        /\ v6' = v6 /\ v7' = v7 /\ v8' = v8 /\ v9' = v9 /\ v10' = v10 /\ vars' = vars
    BY <1>2 DEF Slots, From3
  <2>2. ItemsInv'
    BY <2>1, ItemsStill DEF RecordsInv
  <2>3. Activity!EventInv => Activity!EventInv'
    BY <2>1 DEF Activity!EventInv, Activity!TypeOK, Activity!StepsRecorded, Activity!SilenceLasts,
       Activity!OrphansSilent, Activity!HistoryFaithful, Activity!Honest, Activity!Alive,
       Activity!Debris, Activity!ActiveTasks
  <2>4. Sync!SyncInv => Sync!SyncInv'
    BY <2>1 DEF Sync!SyncInv, Sync!TypeOK, Sync!TargetsNamed, Sync!ResultsInTurn,
       Sync!SuccessMoved, Sync!MovedBut, Sync!CountedByResult, Sync!FinalAtEnd,
       Sync!SyncSummaryHonest, Sync!CountedTwice, Sync!ReportedStatus
  <2>5. Tagging!BatchInv => Tagging!BatchInv'
    BY <2>1 DEF Tagging!BatchInv, Tagging!TypeOK, Tagging!DivergenceExplained, Tagging!Pending
  <2>6. Setting!SettingsInv => Setting!SettingsInv'
    BY <2>1 DEF Setting!SettingsInv, Setting!TypeOK, Setting!RequestsValid, Setting!RowsStay,
       Setting!ReadStands, Setting!AnsweredInRow, Setting!SettingsKept, Setting!OneRow,
       Setting!Present
  <2>7. Watch!WatchInv => Watch!WatchInv'
    BY <2>1 DEF Watch!WatchInv, Watch!TypeOK, Watch!WatcherRestorable, Watch!Restorable
  <2>8. Config!ConfigInv => Config!ConfigInv'
    BY <2>1 DEF Config!ConfigInv, Config!TypeOK
  <2>9. Answers!CacheInv => Answers!CacheInv'
    BY <2>1 DEF Answers!CacheInv, Answers!TypeOK, Answers!ManualKept, Answers!ReadIsCurrent
  <2>10. Search!SearchInv => Search!SearchInv'
    BY <2>1 DEF Search!SearchInv, Search!TypeOK, Search!LockHeld, Search!ThreadsOfStep,
       Search!FoundByAttempt, Search!AnswerAtEnd, Search!OwnConfig, Search!AnswersWhole
  <2> QED
    BY <2>1, <2>2, <2>3, <2>4, <2>5, <2>6, <2>7, <2>8, <2>9, <2>10 DEF RecordsInv
<1> QED
  BY <1>1, <1>2

\* The invariant of the part at work holds in every state.
LEMMA RecordsInvariant == RecordsSpec => []RecordsInv
  BY RecordsInitial, RecordsStep, PTL DEF RecordsSpec

\* Every component keeps the types of its variables, whatever the constants.
THEOREM RecordsTypesCorrect == RecordsSpec => []RecordsTypeOK
<1>1. RecordsInv => RecordsTypeOK
  BY DEF RecordsInv, RecordsTypeOK, ItemsInv, Activity!EventInv, Sync!SyncInv, Tagging!BatchInv,
     Setting!SettingsInv, Watch!WatchInv, Config!ConfigInv, Answers!CacheInv, Search!SearchInv
<1> QED
  BY <1>1, RecordsInvariant, PTL

\* Activity monitor: for any number of tasks, a running one is listed as active
\* unless its entry aged, one that is over is not, and the history calls nothing
\* failed that was heard of within two hours, but for the race with a clean-up.
THEOREM ActivityCorrect == RecordsSpec => []ActivityFaithful
<1>1. RecordsInv => ActivityFaithful
  <2> SUFFICES ASSUME Activity!EventInv PROVE Activity!ActiveFaithful /\ Activity!HistoryFaithful
    BY DEF RecordsInv, ActivityFaithful
  <2>1. Activity!ActiveFaithful
    BY DEF Activity!EventInv, Activity!TypeOK, Activity!StepsRecorded, Activity!SilenceLasts,
       Activity!ActiveFaithful, Activity!ActiveTasks
  <2> QED
    BY <2>1 DEF Activity!EventInv
<1> QED
  BY <1>1, RecordsInvariant, PTL

\* batch-update-albums: for any batch of names and any faults, an album reported as
\* moved has its files where the database says, and the summary of an ended job is
\* the sum of its albums, unless a soft time limit made the task count one both as
\* succeeded and as failed: then the job is partial though every album may have failed.
THEOREM SyncCorrect == RecordsSpec => []SyncHonest
<1>1. RecordsInv => SyncHonest
  <2> SUFFICES ASSUME Sync!SyncInv PROVE Sync!MovedWhenReported /\ Sync!SyncSummaryHonest
    BY DEF RecordsInv, SyncHonest
  <2>1. Sync!MovedWhenReported
    BY DEF Sync!SyncInv, Sync!SuccessMoved, Sync!MovedBut, Sync!MovedWhenReported
  <2> QED
    BY <2>1 DEF Sync!SyncInv
<1> QED
  BY <1>1, RecordsInvariant, PTL

\* batch-update stream: for any items, requests and faults, a row and a file that
\* differ once all is quiet are explained by a failed write, a client that went
\* away, or two streams that crossed.
THEOREM DivergenceCorrect == RecordsSpec => []DivergenceExplained
<1>1. RecordsInv => DivergenceExplained
  BY DEF RecordsInv, DivergenceExplained, Tagging!BatchInv
<1> QED
  BY <1>1, RecordsInvariant, PTL

\* User settings: for any libraries and requests, the theme, the auto-analyze switches
\* and the clean-up overrides read as the last request to set each was answered, but
\* for what lost names: what overlapping requests cost, and the changes of a switch
\* that are not stored because the document has a block of switches already. While no
\* two requests overlap the latter is all that is lost.
THEOREM SettingsCorrect == RecordsSpec => []SettingsKept
<1>1. RecordsInv => SettingsKept
  BY DEF RecordsInv, SettingsKept, Setting!SettingsInv
<1> QED
  BY <1>1, RecordsInvariant, PTL

\* Folder watcher: in any pool of processes, once the watchers were resumed, the state
\* in Redis has a later health check start a wanted observer that does not run, or a
\* check is between its stop and its start - as long as no start failed or was killed,
\* no stop was asked for and no process was killed between the two halves of a check.
THEOREM WatcherCorrect == RecordsSpec => []WatcherRestorable
<1>1. RecordsInv => WatcherRestorable
  BY DEF RecordsInv, WatcherRestorable, Watch!WatchInv
<1> QED
  BY <1>1, RecordsInvariant, PTL

\* Candidates: for any additions and analyses, a manual candidate that was answered
\* stays in the cached answer until it is replaced, an analysis works under the
\* configuration of its own library, and a cached answer lists a release once.
THEOREM AnswersCorrect == RecordsSpec => []AnswersKept
<1>1. RecordsInv => AnswersKept
  BY DEF RecordsInv, AnswersKept, Answers!CacheInv, Search!SearchInv
<1> QED
  BY <1>1, RecordsInvariant, PTL

\* PUT /config: for any clients, every save gives the options the editor can show
\* the values it sent and leaves every other option of the file as it was.
THEOREM SaveCorrect == RecordsSpec => SaveFaithful
<1>1. RecordsInv /\ [RecordsNext]_<<part, Slots, vars>> =>
        [part = "config" => \A e \in Editor : Config!Saves(e) => Config!SavedAsSent(e)]_Slots
  <2> SUFFICES ASSUME RecordsInv, [RecordsNext]_<<part, Slots, vars>>, part = "config",
                      Slots' # Slots, NEW e \in Editor, Config!Saves(e)
               PROVE  Config!SavedAsSent(e)
    OBVIOUS
  <2>1. Config!ConfigInv /\ Config!Next
    BY DEF RecordsInv, RecordsNext
  <2> QED
    BY <2>1, SaveStep
<1> QED
  BY <1>1, RecordsInvariant, PTL DEF RecordsSpec, SaveFaithful
=============================================================================
