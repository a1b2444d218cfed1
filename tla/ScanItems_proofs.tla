-------------------------- MODULE ScanItems_proofs --------------------------
(***************************************************************************)
(* What scans that work one at a time show to the user, for any number of  *)
(* files, scans and faults. The hypothesis Workers = 1 stands for the      *)
(* order the properties speak of; with two scans at work the listing is    *)
(* wrong (LastScanListed).                                                 *)
(***************************************************************************)
EXTENDS ScanItems, FiniteSetTheorems, TLAPS

\* What an action does to the record of its scan: the others stay.
LEMMA Types ==
  ASSUME TypeOK
  PROVE  \A s \in Scan :
           /\ scan[s] \in ScanRecord /\ scan[s].pc \in Pc /\ scan[s].status \in ScanStatus
           /\ scan[s].before \in Scan \cup {NoScan} /\ scan[s].prev \subseteq File
           /\ scan[s].seen \subseteq File /\ scan[s].stamp \in Nat /\ scan[s].kept \subseteq File
           /\ scan[s].loaded \in [File -> ItemStatus \cup {"none", "gone"}]
  BY DEF TypeOK, ScanRecord

\* NoRow is no row of a scan.
LEMMA RowFacts ==
  ASSUME TypeOK
  PROVE  \A f \in File : /\ row[f] \in Row /\ row[f].scan \in Scan \cup {NoScan}
                         /\ row[f].status \in ItemStatus \cup {"none"}
                         /\ row[f] = NoRow <=> row[f].scan = NoScan /\ row[f].status = "none"
<1>1. \A r \in Row : r = NoRow <=> r.scan = NoScan /\ r.status = "none"
  BY DEF Row, NoRow
<1> QED
  BY <1>1 DEF TypeOK, Row

\* With one worker a scan starts when no other is at work.
LEMMA StartAlone ==
  ASSUME Workers = 1, NEW s \in Scan, Start(s)
  PROVE  \A c \in Scan : ~ AtWork(c)
<1> DEFINE W == {c \in Scan : AtWork(c)}
<1>1. IsFiniteSet(W)
  BY ScanAssumption, FS_Subset DEF ScanAssumption
<1>2. Cardinality(W) \in Nat /\ Cardinality(W) < 1
  BY <1>1, FS_CardinalityType DEF Start
<1>3. Cardinality(W) = 0
  BY ONLY <1>2
<1>4. W = {}
  BY <1>1, <1>3, FS_EmptySet
<1> QED
  BY <1>4

\* The next stamp is later than all there are.
LEMMA StampedCard ==
  ASSUME TypeOK
  PROVE  /\ IsFiniteSet(Stamped) /\ Cardinality(Stamped) \in Nat
         /\ \A s \in Scan \ Stamped : Cardinality(Stamped \cup {s}) = Cardinality(Stamped) + 1
<1>1. IsFiniteSet(Stamped)
  BY ScanAssumption, FS_Subset DEF ScanAssumption, Stamped
<1> QED
  BY <1>1, FS_CardinalityType, FS_AddElement

\* If a scan is the last one, LastScan chooses such a scan.
LEMMA LastChosen == (\E l : IsLast(l, Completed)) => IsLast(LastScan, Completed)
<1> SUFFICES ASSUME NEW l, IsLast(l, Completed) PROVE IsLast(LastScan, Completed)
  OBVIOUS
<1>1. CASE Completed = {}
  BY <1>1 DEF IsLast, LastScan
<1>2. CASE Completed # {}
  <2>1. l \in Completed /\ \A c \in Completed : scan[c].stamp <= scan[l].stamp
    BY <1>2 DEF IsLast
  <2>2. LastScan = CHOOSE s \in Completed : \A c \in Completed : scan[c].stamp <= scan[s].stamp
    BY <1>2 DEF LastScan
  <2> QED
    BY <2>1, <2>2 DEF IsLast
<1> QED
  BY <1>1, <1>2

\* The same of the next state.
LEMMA LastChosenNext == (\E l : IsLast(l, Completed))' => IsLast(LastScan, Completed)'
  BY LastChosen, PTL

\* No scan has started.
LEMMA SerialInit == Init => SerialInv
<1> SUFFICES ASSUME Init PROVE SerialInv
  OBVIOUS
<1>1. NotStarted \in ScanRecord
  BY DEF NotStarted, ScanRecord, Pc, ScanStatus, ItemStatus
<1>2. /\ scan \in [Scan -> ScanRecord] /\ row \in [File -> Row] /\ Completed = {} /\ Stamped = {}
      /\ \A s \in Scan : /\ scan[s].pc = "idle" /\ scan[s].status = "none" /\ scan[s].stamp = 0
                         /\ scan[s].before = NoScan /\ scan[s].kept = {}
      /\ \A f \in File : row[f] = NoRow
  BY <1>1 DEF Init, NotStarted, Row, NoRow, Completed, Stamped
<1>3. TypeOK
  BY <1>2, ScanAssumption DEF Init, TypeOK, ScanAssumption
<1>4. Cardinality(Stamped) = 0
  BY <1>2, FS_EmptySet
<1>5. Serial /\ StepsInOrder /\ StampsGrow /\ RowsOfWritten
  BY <1>2, <1>4 DEF Serial, StepsInOrder, StampsGrow, RowsOfWritten, AtWork
<1>6. IsLast(LastScan, Completed)
  BY <1>2, LastChosen DEF IsLast
<1>7. ComparesWithLast
  BY <1>2, <1>6 DEF ComparesWithLast
<1>8. KeptIsListed /\ SessionFresh /\ ComparedWithKept
  BY <1>2 DEF KeptIsListed, SessionFresh, ComparedWithKept, KeptBefore, NoRow
<1> QED
  BY <1>3, <1>5, <1>7, <1>8 DEF SerialInv

\* A step of scan s that writes no rows, gets no stamp and decides nothing.
QuietStep(s) ==
  /\ row' = row /\ TypeOK'
  /\ \A t \in Scan : t # s => scan'[t] = scan[t]
  /\ \/ scan'[s].status = scan[s].status
     \/ scan[s].status = "none" /\ scan'[s].status = "running"
  /\ scan'[s].stamp = scan[s].stamp /\ scan'[s].kept = scan[s].kept
  /\ AtWork(s)' => AtWork(s) \/ (scan[s].stamp = 0 /\ \A t \in Scan : ~ AtWork(t))
  /\ scan[s].status \in {"completed", "failed"} =>
       scan'[s].seen = scan[s].seen /\ scan'[s].prev = scan[s].prev /\ scan'[s].before = scan[s].before

\* What the table holds and which scans wrote it stays as it was.
LEMMA Quiet ==
  ASSUME SerialInv, NEW s \in Scan, QuietStep(s)
  PROVE  /\ Completed' = Completed
         /\ \A t \in Scan : Written(t)' <=> Written(t)
         /\ \A f \in File : Taken(f)' <=> Taken(f)
         /\ \A l, S : S \subseteq Scan => (IsLast(l, S)' <=> IsLast(l, S))
         /\ IsLast(LastScan, Completed)'
         /\ Serial' /\ StampsGrow' /\ RowsOfWritten' /\ KeptIsListed'
<1>1. \A t \in Scan : /\ scan'[t].status = "completed" <=> scan[t].status = "completed"
                      /\ scan'[t].status = "failed" <=> scan[t].status = "failed"
                      /\ scan'[t].stamp = scan[t].stamp /\ scan'[t].kept = scan[t].kept
  BY DEF QuietStep
<1>2. \A t \in Scan : scan[t].status \in {"completed", "failed"} =>
                        scan'[t].seen = scan[t].seen /\ scan'[t].prev = scan[t].prev
  BY DEF QuietStep
<1>3. Completed' = Completed /\ Stamped' = Stamped /\ \A t \in Scan : Written(t)' <=> Written(t)
  BY <1>1 DEF Completed, Stamped, Written
<1>4. \A f \in File : Taken(f)' <=> Taken(f)
  BY <1>1, <1>2 DEF Taken
<1>5. \A l, S : S \subseteq Scan => (IsLast(l, S)' <=> IsLast(l, S))
  BY <1>1 DEF IsLast
<1>6. IsLast(LastScan, Completed)'
  <2>1. IsLast(LastScan, Completed) /\ Completed \subseteq Scan
    BY DEF SerialInv, ComparesWithLast, Completed
  <2>2. \E l : IsLast(l, Completed)'
    BY <1>1, <1>3, <2>1 DEF IsLast
  <2> QED
    BY <2>2, LastChosenNext
<1>7. Serial' /\ StampsGrow'
  <2>1. \A t \in Scan : AtWork(t)' => AtWork(t) \/ (t = s /\ scan[s].stamp = 0 /\ \A u \in Scan : ~ AtWork(u))
    BY DEF QuietStep, AtWork
  <2> QED
    BY <1>1, <1>3, <2>1 DEF SerialInv, Serial, StampsGrow
<1>8. RowsOfWritten'
  BY <1>1, <1>2, <1>3 DEF QuietStep, SerialInv, RowsOfWritten, Written
<1>9. KeptIsListed'
  <2> row' = row
    BY DEF QuietStep
  <2>1. \A f \in File : row[f] # NoRow => row[f].scan \in Scan
    BY DEF SerialInv, RowsOfWritten
  <2>2. KeptIsListed /\ NoRow' = NoRow
    BY DEF SerialInv, NoRow
  <2>3. Completed \subseteq Scan /\ \A c \in Scan : scan[c].kept \subseteq File
    BY Types DEF Completed, SerialInv
  <2>4. ASSUME NEW c \in Completed, NEW f \in scan'[c].kept
        PROVE  /\ row[f] # NoRow
               /\ \/ row[f].scan = c /\ row[f].status # "deleted"
                  \/ scan'[row[f].scan].stamp > scan'[c].stamp
    <3>1. f \in File /\ f \in scan[c].kept /\ scan'[c].stamp = scan[c].stamp
      BY <1>1, <2>3, <2>4
    <3>2. row[f] # NoRow /\ scan'[row[f].scan].stamp = scan[row[f].scan].stamp
      BY <1>1, <2>1, <2>2, <3>1 DEF KeptIsListed
    <3> QED
      BY <2>2, <3>1, <3>2 DEF KeptIsListed
  <2>5. ASSUME NEW f \in File, row[f] # NoRow, row[f].status # "deleted"
        PROVE  f \in scan'[row[f].scan].kept
    BY <1>1, <2>1, <2>2, <2>5 DEF KeptIsListed
  <2> QED
    BY ONLY <1>3, <2>2, <2>4, <2>5, row' = row DEF KeptIsListed
<1> QED
  BY <1>3, <1>4, <1>5, <1>6, <1>7, <1>8, <1>9

\* Unless it compares with another scan it still compares with the last one.
LEMMA QuietCompares ==
  ASSUME SerialInv, NEW s \in Scan, QuietStep(s), scan'[s].before = scan[s].before,
         scan'[s].pc \in {"items", "walk", "load", "stamp", "commit", "report"} =>
           scan[s].pc \in {"items", "walk", "load", "stamp", "commit", "report"}
  PROVE  ComparesWithLast'
<1>1. \A t \in Scan : /\ scan'[t].stamp = scan[t].stamp /\ scan'[t].before = scan[t].before
                      /\ scan'[t].pc \in {"items", "walk", "load", "stamp", "commit", "report"} =>
                           scan[t].pc \in {"items", "walk", "load", "stamp", "commit", "report"}
                      /\ scan'[t].status = "completed" <=> scan[t].status = "completed"
                      /\ scan'[t].status = "failed" <=> scan[t].status = "failed"
                      /\ scan[t].before \in Scan \cup {NoScan}
  BY Types DEF QuietStep, SerialInv
<1>2. Completed' = Completed /\ Completed \subseteq Scan /\ IsLast(LastScan, Completed)' /\ ComparesWithLast
  BY Quiet DEF Completed, SerialInv
<1>3. ASSUME NEW t \in Scan, scan'[t].pc \in {"items", "walk", "load", "stamp", "commit", "report"}
      PROVE  IsLast(scan[t].before, Completed \ {t})'
  <2>1. IsLast(scan[t].before, Completed \ {t})
    BY <1>1, <1>2, <1>3 DEF ComparesWithLast
  <2> QED
    BY <1>1, <1>2, <2>1 DEF IsLast
<1>4. ASSUME NEW t \in Scan, scan[t].before # NoScan
      PROVE  scan[t].before # t /\ Written(scan[t].before)'
  <2>1. scan[t].before \in Scan /\ scan[t].before # t /\ Written(scan[t].before)
    BY <1>1, <1>2, <1>4 DEF ComparesWithLast
  <2> QED
    BY <1>1, <2>1 DEF Written
<1> QED
  BY <1>1, <1>2, <1>3, <1>4 DEF ComparesWithLast

\* And what it compares is still what that scan kept.
LEMMA QuietKept ==
  ASSUME SerialInv, NEW s \in Scan, QuietStep(s), scan'[s].before = scan[s].before,
         scan'[s].pc \in {"walk", "load", "stamp", "commit"} =>
           scan[s].pc \in {"walk", "load", "stamp", "commit"} /\ scan'[s].prev = scan[s].prev
  PROVE  ComparedWithKept'
<1>1. \A t \in Scan : /\ scan'[t].stamp = scan[t].stamp /\ scan'[t].before = scan[t].before
                      /\ scan'[t].kept = scan[t].kept
                      /\ scan'[t].pc \in {"walk", "load", "stamp", "commit"} =>
                           scan[t].pc \in {"walk", "load", "stamp", "commit"} /\ scan'[t].prev = scan[t].prev
                      /\ scan'[t].status = "completed" => scan[t].status = "completed" /\ scan'[t].seen = scan[t].seen
  BY DEF QuietStep
<1>2. \A t \in Scan : KeptBefore(t)' = KeptBefore(t)
  BY <1>1, Types DEF KeptBefore, SerialInv
<1>3. row' = row /\ \A f \in File : (Taken(f)' <=> Taken(f)) /\ (row[f] # NoRow => row[f].scan \in Scan)
  BY Quiet DEF QuietStep, SerialInv, RowsOfWritten
<1>4. ComparedWithKept /\ NoRow' = NoRow
  BY DEF SerialInv, NoRow
<1> HIDE DEF SerialInv
<1>5. SUFFICES ASSUME NEW t \in Scan, NEW f \in File, ~ Taken(f)
      PROVE /\ scan'[t].pc \in {"walk", "load", "stamp", "commit"} /\ f \in KeptBefore(t) => f \in scan'[t].prev
            /\ scan'[t].status = "completed" /\ row[f] = [scan |-> t, status |-> "new"] => f \notin KeptBefore(t)
            /\ scan'[t].status = "completed" /\ f \in KeptBefore(t) \ scan'[t].seen =>
                 \/ row[f] = [scan |-> t, status |-> "deleted"]
                 \/ row[f] # NoRow /\ scan'[row[f].scan].stamp > scan'[t].stamp
  BY <1>2, <1>3, <1>4 DEF ComparedWithKept
<1> QED
  BY <1>1, <1>3, <1>4, <1>5 DEF ComparedWithKept

\* The stamp a scan takes is later than those of the scans before it.
LEMMA StampStep ==
  ASSUME SerialInv, NEW s \in Scan, Stamp(s)
  PROVE  SerialInv'
<1> USE DEF SerialInv
<1>1. /\ scan' \in [Scan -> ScanRecord] /\ \A t \in Scan : t # s => scan'[t] = scan[t]
      /\ scan'[s].pc = "commit" /\ scan'[s].stamp = 1 + Cardinality(Stamped)
      /\ scan'[s].status = scan[s].status /\ scan'[s].before = scan[s].before /\ scan'[s].prev = scan[s].prev
      /\ scan'[s].seen = scan[s].seen /\ scan'[s].loaded = scan[s].loaded /\ scan'[s].kept = scan[s].kept
  <2> DEFINE r == [scan[s] EXCEPT !.pc = "commit", !.stamp = 1 + Cardinality(Stamped)]
  <2>1. /\ r \in ScanRecord
        /\ r.pc = "commit" /\ r.stamp = 1 + Cardinality(Stamped)
        /\ r.status = scan[s].status /\ r.before = scan[s].before /\ r.prev = scan[s].prev
        /\ r.seen = scan[s].seen /\ r.loaded = scan[s].loaded /\ r.kept = scan[s].kept
    <3>1. scan[s] \in ScanRecord /\ 1 + Cardinality(Stamped) \in Nat
      BY Types, StampedCard
    <3> QED
      BY ONLY <3>1 DEF ScanRecord, Pc, ScanStatus
  <2>2. scan' = [scan EXCEPT ![s] = r]
    BY DEF Stamp, Stamped
  <2> HIDE DEF r
  <2> QED
    BY <2>1, <2>2 DEF TypeOK
<1>2. scan[s].pc = "stamp" /\ scan[s].status = "running" /\ scan[s].stamp = 0 /\ row' = row
  BY DEF Stamp, StepsInOrder
<1>3. TypeOK'
  BY <1>1 DEF Stamp, TypeOK
<1>4. /\ Completed' = Completed /\ Completed \subseteq Scan \ {s} /\ NoRow' = NoRow
      /\ \A t \in Scan : /\ Written(t)' <=> Written(t)
                         /\ Written(t) => t # s
                         /\ scan'[t].status = scan[t].status /\ scan'[t].before = scan[t].before
                         /\ scan'[t].seen = scan[t].seen /\ scan'[t].prev = scan[t].prev
                         /\ scan'[t].kept = scan[t].kept /\ scan'[t].loaded = scan[t].loaded
                         /\ t # s => scan'[t].stamp = scan[t].stamp
      /\ \A f \in File : Taken(f)' <=> Taken(f)
  BY <1>1, <1>2 DEF Completed, Written, Taken, NoRow
<1>5. Serial' /\ StepsInOrder'
  <2>1. 1 + Cardinality(Stamped) > 0
    BY StampedCard
  <2>2. \A t \in Scan : AtWork(t)' => AtWork(t)
    BY <1>1, <1>2 DEF AtWork
  <2>3. Serial'
    BY <2>2 DEF Serial
  <2>4. StepsInOrder'
    BY <1>1, <1>2, <2>1, Types DEF StepsInOrder
  <2> QED
    BY <2>3, <2>4
<1>6. StampsGrow'
  <2> DEFINE n == Cardinality(Stamped)
  <2>1. Stamped' = Stamped \cup {s} /\ s \notin Stamped
    BY <1>1, <1>2, StampedCard DEF Stamped
  <2>2. n \in Nat /\ Cardinality(Stamped)' = n + 1
    BY <2>1, StampedCard
  <2>3. \A t \in Scan : /\ scan[t].stamp \in Nat /\ scan[t].stamp <= n
                        /\ AtWork(t)' => t = s
    BY <1>1, <1>2, Types DEF StampsGrow, Serial, AtWork
  <2>4. \A t, u \in Scan : scan[t].stamp > 0 /\ scan[t].stamp = scan[u].stamp => t = u
    BY DEF StampsGrow
  <2>5. scan'[s].stamp = n + 1 /\ \A t \in Scan : t # s => scan'[t].stamp = scan[t].stamp
    BY <1>1, <1>4, <2>2
  <2> HIDE DEF n, SerialInv
  <2> QED
    BY <2>2, <2>3, <2>4, <2>5 DEF StampsGrow
<1>7. RowsOfWritten'
  BY <1>2, <1>4 DEF RowsOfWritten
<1>8. KeptIsListed' /\ SessionFresh'
  <2>1. \A f \in File : row[f] # NoRow => row[f].scan \in Scan /\ row[f].scan # s
    BY <1>4 DEF RowsOfWritten
  <2>2. \A c \in Completed : scan[c].kept \subseteq File
    BY <1>4, Types
  <2>3. KeptIsListed'
    BY <1>2, <1>4, <2>1, <2>2 DEF KeptIsListed
  <2>4. \A t \in Scan : scan'[t].pc \in {"stamp", "commit"} => scan[t].pc \in {"stamp", "commit"}
    BY <1>1, <1>2
  <2>5. SessionFresh'
    BY <1>2, <1>4, <2>4 DEF SessionFresh
  <2> QED
    BY <2>3, <2>5
<1>9. ComparesWithLast'
  <2>1. \A c \in Completed : scan'[c].stamp = scan[c].stamp
    BY <1>4
  <2>2. IsLast(LastScan, Completed)'
    <3>1. IsLast(LastScan, Completed)
      BY DEF ComparesWithLast
    <3>2. \E l : IsLast(l, Completed)'
      BY <1>4, <2>1, <3>1 DEF IsLast
    <3> QED
      BY <3>2, LastChosenNext
  <2>3. ASSUME NEW t \in Scan, scan'[t].pc \in {"items", "walk", "load", "stamp", "commit", "report"}
        PROVE  IsLast(scan[t].before, Completed \ {t})'
    <3>1. IsLast(scan[t].before, Completed \ {t})
      BY <1>1, <1>2, <2>3 DEF ComparesWithLast
    <3> QED
      BY <1>4, <2>1, <3>1 DEF IsLast
  <2>4. ASSUME NEW t \in Scan, scan[t].before # NoScan
        PROVE  scan[t].before # t /\ Written(scan[t].before)'
    <3>1. scan[t].before \in Scan /\ scan[t].before # t /\ Written(scan[t].before)
      BY <2>4, Types DEF ComparesWithLast
    <3>2. scan[t].before # s /\ scan'[scan[t].before] = scan[scan[t].before]
      BY <1>1, <1>4, <3>1
    <3> QED
      BY <1>4, <3>1, <3>2 DEF Written
  <2> QED
    BY <1>4, <2>2, <2>3, <2>4 DEF ComparesWithLast
<1>10. ComparedWithKept'
  <2>1. \A f \in File : row[f] # NoRow => row[f].scan \in Scan /\ row[f].scan # s
    BY <1>4 DEF RowsOfWritten
  <2>2. \A t \in Scan : KeptBefore(t)' = KeptBefore(t)
    BY <1>4, Types DEF KeptBefore
  <2>3. \A t \in Scan : /\ scan'[t].pc \in {"walk", "load", "stamp", "commit"} =>
                             scan[t].pc \in {"walk", "load", "stamp", "commit"}
                        /\ scan'[t].status = "completed" => t # s
    BY <1>1, <1>2
  <2> QED
    BY <1>2, <1>4, <2>1, <2>2, <2>3 DEF ComparedWithKept
<1> QED
  BY <1>3, <1>5, <1>6, <1>7, <1>8, <1>9, <1>10

\* The rows a scan updates when it commits are those it read: what it writes is
\* its own change for every file it saw, and for those it knew that are gone.
LEMMA CommitRows ==
  ASSUME SerialInv, NEW s \in Scan, Commit(s)
  PROVE  \E modified \in SUBSET scan[s].seen :
           LET W == {f \in scan[s].seen \cup scan[s].prev : f \in scan[s].seen \/ row[f] # NoRow}
           IN  \A f \in File :
                 /\ f \in W => row'[f] = [scan |-> s, status |-> NewStatus(s, f, modified)]
                 /\ f \notin W => row'[f] = row[f]
<1> DEFINE W == {f \in scan[s].seen \cup scan[s].prev : f \in scan[s].seen \/ row[f] # NoRow}
<1>1. PICK modified \in SUBSET scan[s].seen :
        row' = [f \in File |->
          IF f \in Inserted(s) THEN [scan |-> s, status |-> NewStatus(s, f, modified)]
          ELSE IF f \in Updated(s) THEN UpdatedRow(s, f, NewStatus(s, f, modified))
          ELSE row[f]]
  BY DEF Commit
<1>2. /\ scan[s].pc = "commit"
      /\ \A f \in Updated(s) : scan[s].loaded[f] # "gone"
  BY DEF Commit, Conflict
<1>3. ASSUME NEW f \in File, f \in Inserted(s)
      PROVE  f \in W /\ row'[f] = [scan |-> s, status |-> NewStatus(s, f, modified)]
  BY <1>1, <1>3 DEF Inserted
<1>4. ASSUME NEW f \in File, f \in Updated(s), f \notin Inserted(s)
      PROVE  f \in W /\ row'[f] = [scan |-> s, status |-> NewStatus(s, f, modified)]
  <2>1. f \in scan[s].seen \cup scan[s].prev /\ scan[s].loaded[f] \in ItemStatus
    <3>1. f \in scan[s].seen \cup scan[s].prev /\ scan[s].loaded[f] \notin {"none", "gone"}
      BY <1>2, <1>4 DEF Updated
    <3>2. scan[s].loaded[f] \in ItemStatus \cup {"none", "gone"}
      BY Types DEF SerialInv
    <3> QED
      BY <3>1, <3>2
  <2>2. row[f].status = scan[s].loaded[f]
    BY <1>2, <2>1 DEF SerialInv, SessionFresh, ItemStatus
  <2>3. row[f] # NoRow
    BY <2>1, <2>2 DEF ItemStatus, NoRow
  <2>4. UpdatedRow(s, f, NewStatus(s, f, modified)) = [scan |-> s, status |-> NewStatus(s, f, modified)]
    BY <2>2 DEF UpdatedRow
  <2> QED
    BY <1>1, <1>4, <2>1, <2>3, <2>4
<1>5. ASSUME NEW f \in File, f \notin Updated(s), f \notin Inserted(s)
      PROVE  f \notin W /\ row'[f] = row[f]
  <2>1. f \in scan[s].seen \cup scan[s].prev => scan[s].loaded[f] = "none" /\ f \notin scan[s].seen
    BY <1>5 DEF Updated, Inserted
  <2>2. f \in scan[s].seen \cup scan[s].prev => row[f] = NoRow
    BY <1>2, <2>1 DEF SerialInv, SessionFresh
  <2> QED
    BY <1>1, <1>5, <2>1, <2>2
<1> HIDE DEF W
<1>6. \A f \in File : /\ f \in W => row'[f] = [scan |-> s, status |-> NewStatus(s, f, modified)]
                      /\ f \notin W => row'[f] = row[f]
  BY <1>3, <1>4, <1>5
<1> QED
  BY <1>6 DEF W

\* A scan that commits becomes the last one, and its comparison the one shown.
LEMMA CommitStep ==
  ASSUME SerialInv, NEW s \in Scan, Commit(s)
  PROVE  SerialInv'
<1> USE DEF SerialInv
<1>1. /\ scan' \in [Scan -> ScanRecord] /\ \A t \in Scan : t # s => scan'[t] = scan[t]
      /\ scan'[s].pc = "report" /\ scan'[s].status = "completed" /\ scan'[s].kept = scan[s].seen
      /\ scan'[s].before = scan[s].before /\ scan'[s].prev = scan[s].prev /\ scan'[s].seen = scan[s].seen
      /\ scan'[s].loaded = scan[s].loaded /\ scan'[s].stamp = scan[s].stamp
  <2> DEFINE r == [scan[s] EXCEPT !.pc = "report", !.status = "completed", !.kept = scan[s].seen]
  <2>1. /\ r \in ScanRecord
        /\ r.pc = "report" /\ r.status = "completed" /\ r.kept = scan[s].seen
        /\ r.before = scan[s].before /\ r.prev = scan[s].prev /\ r.seen = scan[s].seen
        /\ r.loaded = scan[s].loaded /\ r.stamp = scan[s].stamp
    <3>1. scan[s] \in ScanRecord /\ scan[s].seen \subseteq File
      BY Types
    <3> QED
      BY ONLY <3>1 DEF ScanRecord, Pc, ScanStatus
  <2>2. scan' = [scan EXCEPT ![s] = r]
    BY DEF Commit
  <2> HIDE DEF r
  <2> QED
    BY <2>1, <2>2 DEF TypeOK
<1>2. /\ scan[s].pc = "commit" /\ scan[s].status = "running" /\ scan[s].stamp > 0
      /\ \A t \in Scan : t # s => scan[t].pc \in {"idle", "done"}
  BY Types DEF Commit, StepsInOrder, Serial, AtWork, Pc
<1> DEFINE W == {f \in scan[s].seen \cup scan[s].prev : f \in scan[s].seen \/ row[f] # NoRow}
<1>3. PICK modified \in SUBSET scan[s].seen :
        \A f \in File :
          /\ f \in W => row'[f] = [scan |-> s, status |-> NewStatus(s, f, modified)]
          /\ f \notin W => row'[f] = row[f]
  BY CommitRows
<1>4. \A f \in File :
        /\ NewStatus(s, f, modified) \in ItemStatus
        /\ f \in scan[s].seen => NewStatus(s, f, modified) # "deleted"
        /\ f \notin scan[s].seen => NewStatus(s, f, modified) = "deleted"
        /\ NewStatus(s, f, modified) = "new" => f \notin scan[s].prev
  BY DEF NewStatus, ItemStatus
<1>5. \A f \in File :
        /\ f \in W => /\ row'[f].scan = s /\ row'[f].status \in ItemStatus /\ row'[f] # NoRow
                      /\ f \in scan[s].seen \cup scan[s].prev
                      /\ row'[f].status # "deleted" <=> f \in scan[s].seen
                      /\ row'[f].status = "new" => f \notin scan[s].prev
                      /\ f \notin scan[s].seen => row'[f] = [scan |-> s, status |-> "deleted"]
        /\ f \notin W => row'[f] = row[f] /\ f \notin scan[s].seen
        /\ f \in W <=> f \in scan[s].seen \/ (f \in scan[s].prev /\ row[f] # NoRow)
  <2>1. \A f \in File : f \in W <=> f \in scan[s].seen \/ (f \in scan[s].prev /\ row[f] # NoRow)
    OBVIOUS
  <2> HIDE DEF W
  <2>2. ASSUME NEW f \in File, f \in W
        PROVE  /\ row'[f].scan = s /\ row'[f].status \in ItemStatus /\ row'[f] # NoRow
               /\ f \in scan[s].seen \cup scan[s].prev
               /\ row'[f].status # "deleted" <=> f \in scan[s].seen
               /\ row'[f].status = "new" => f \notin scan[s].prev
               /\ f \notin scan[s].seen => row'[f] = [scan |-> s, status |-> "deleted"]
    <3> DEFINE st == NewStatus(s, f, modified)
    <3>1. row'[f] = [scan |-> s, status |-> st]
      BY <1>3, <2>2
    <3>2. /\ st \in ItemStatus
          /\ f \in scan[s].seen => st # "deleted"
          /\ f \notin scan[s].seen => st = "deleted"
          /\ st = "new" => f \notin scan[s].prev
      BY <1>4
    <3> HIDE DEF st
    <3> QED
      BY <2>1, <2>2, <3>1, <3>2 DEF NoRow, ItemStatus
  <2> QED
    BY <1>3, <2>1, <2>2
<1> HIDE DEF W
<1>6. TypeOK'
  <2>1. row' \in [File -> Row]
    <3>1. ASSUME NEW f \in File PROVE row'[f] \in Row
      <4>1. CASE f \in W
        <5>1. row'[f].scan = s /\ row'[f].status \in ItemStatus /\ row'[f] = [scan |-> s, status |-> row'[f].status]
          <6> DEFINE st == NewStatus(s, f, modified)
          <6>1. st \in ItemStatus /\ row'[f] = [scan |-> s, status |-> st]
            BY <1>3, <1>4, <4>1
          <6> HIDE DEF st
          <6> QED
            BY ONLY <6>1
        <5> QED
          BY ONLY <5>1 DEF Row
      <4>2. CASE f \notin W
        BY <1>3, <4>2 DEF TypeOK
      <4> QED
        BY <4>1, <4>2
    <3>2. row' = [f \in File |-> row'[f]]
      BY DEF Commit
    <3> QED
      BY ONLY <3>1, <3>2
  <2> QED
    BY <1>1, <2>1 DEF Commit, TypeOK
<1>7. /\ Completed' = Completed \cup {s} /\ Completed \subseteq Scan \ {s} /\ NoRow' = NoRow /\ Stamped' = Stamped
      /\ \A t \in Scan : /\ Written(t)' <=> Written(t) \/ t = s
                         /\ Written(t) => t # s
                         /\ scan'[t].stamp = scan[t].stamp /\ scan'[t].before = scan[t].before
                         /\ scan'[t].seen = scan[t].seen /\ scan'[t].prev = scan[t].prev
                         /\ t # s => scan'[t].kept = scan[t].kept /\ scan'[t].status = scan[t].status
                         /\ scan'[t].pc \notin {"stamp", "commit", "walk", "load"}
                         /\ scan[t].stamp \in Nat /\ scan[t].stamp <= scan[s].stamp
                         /\ Written(t) => scan[t].stamp < scan[s].stamp
      /\ \A f \in File : Taken(f)' <=> Taken(f)
  <2>1. \A t \in Scan : /\ Written(t)' <=> Written(t) \/ t = s
                        /\ Written(t) => t # s
                        /\ scan'[t].stamp = scan[t].stamp /\ scan'[t].before = scan[t].before
                        /\ scan'[t].seen = scan[t].seen /\ scan'[t].prev = scan[t].prev
                        /\ t # s => scan'[t].kept = scan[t].kept /\ scan'[t].status = scan[t].status
                        /\ scan'[t].pc \notin {"stamp", "commit", "walk", "load"}
    BY <1>1, <1>2 DEF Written
  <2>2. Completed' = Completed \cup {s} /\ Completed \subseteq Scan \ {s} /\ NoRow' = NoRow /\ Stamped' = Stamped
    BY <1>1, <1>2 DEF Completed, NoRow, Stamped
  <2>3. \A f \in File : Taken(f)' <=> Taken(f)
    BY <1>1, <1>2 DEF Taken
  <2>4. \A t \in Scan : scan[t].stamp \in Nat /\ scan[t].stamp <= scan[s].stamp
    BY <1>2, Types DEF StampsGrow, AtWork
  <2>5. \A t \in Scan : Written(t) => scan[t].stamp > 0 /\ t # s
    BY <2>1 DEF Written, StepsInOrder
  <2>6. \A t \in Scan : Written(t) => scan[t].stamp < scan[s].stamp
    BY <2>4, <2>5 DEF StampsGrow
  <2> QED
    BY <2>1, <2>2, <2>3, <2>4, <2>6
<1>8. Serial' /\ StampsGrow' /\ SessionFresh'
  <2>1. \A t \in Scan : AtWork(t)' <=> AtWork(t)
    BY <1>1, <1>2 DEF AtWork
  <2> QED
    BY <1>7, <2>1 DEF Serial, StampsGrow, SessionFresh
<1>9. StepsInOrder'
  BY <1>1, <1>2, Types DEF StepsInOrder
<1>10. RowsOfWritten'
  <2>1. ASSUME NEW f \in File, row'[f] # NoRow
        PROVE  /\ row'[f].scan \in Scan /\ Written(row[f].scan)' /\ row'[f].status # "none"
               /\ f \in scan'[row'[f].scan].seen \cup scan'[row'[f].scan].prev
    <3>1. CASE f \in W
      BY <1>1, <1>5, <3>1 DEF Written, ItemStatus
    <3>2. CASE f \notin W
      <4>1. /\ row[f].scan \in Scan /\ Written(row[f].scan) /\ row[f].status # "none" /\ row'[f] = row[f]
            /\ f \in scan[row[f].scan].seen \cup scan[row[f].scan].prev
        BY <1>5, <2>1, <3>2 DEF RowsOfWritten
      <4>2. row[f].scan # s /\ scan'[row[f].scan] = scan[row[f].scan]
        BY <1>1, <1>7, <4>1
      <4> QED
        BY <4>1, <4>2 DEF Written
    <3> QED
      BY <3>1, <3>2
  <2> QED
    BY <1>7, <2>1 DEF RowsOfWritten
<1>11. ComparesWithLast'
  <2>1. IsLast(LastScan, Completed)'
    <3>1. IsLast(s, Completed)'
      BY <1>7 DEF IsLast
    <3> QED
      BY <3>1, LastChosenNext
  <2>2. IsLast(scan[s].before, Completed \ {s})'
    <3>1. IsLast(scan[s].before, Completed \ {s}) /\ Completed' \ {s} = Completed \ {s}
      BY <1>2, <1>7 DEF ComparesWithLast
    <3> QED
      BY <1>7, <3>1 DEF IsLast
  <2>3. ASSUME NEW t \in Scan, scan[t].before # NoScan
        PROVE  scan[t].before # t /\ Written(scan[t].before)'
    <3>1. scan[t].before \in Scan /\ scan[t].before # t /\ Written(scan[t].before)
      BY <2>3, Types DEF ComparesWithLast
    <3>2. scan[t].before # s /\ scan'[scan[t].before] = scan[scan[t].before]
      BY <1>1, <1>7, <3>1
    <3> QED
      BY <1>7, <3>1, <3>2 DEF Written
  <2>4. \A t \in Scan : scan'[t].pc \in {"items", "walk", "load", "stamp", "commit", "report"} => t = s
    BY <1>1, <1>2
  <2> QED
    BY <1>7, <2>1, <2>2, <2>3, <2>4 DEF ComparesWithLast
<1>12. KeptIsListed'
  <2>1. ASSUME NEW c \in Scan, c \in Completed', NEW f \in scan'[c].kept
        PROVE  /\ row'[f] # NoRow
               /\ \/ row'[f].scan = c /\ row'[f].status # "deleted"
                  \/ scan'[row'[f].scan].stamp > scan'[c].stamp
    <3>1. CASE c = s
      <4>1. f \in scan[s].seen /\ f \in File
        BY <1>1, <2>1, <3>1, Types
      <4> QED
        BY <1>5, <3>1, <4>1
    <3>2. CASE c # s
      <4>1. c \in Completed /\ Written(c) /\ f \in scan[c].kept /\ f \in File
        BY <1>7, <2>1, <3>2, Types DEF Completed, Written
      <4>2. /\ row[f] # NoRow
            /\ (row[f].scan = c /\ row[f].status # "deleted") \/ scan[row[f].scan].stamp > scan[c].stamp
        BY <4>1 DEF KeptIsListed
      <4>3. CASE f \in W
        BY <1>5, <1>7, <4>1, <4>3
      <4>4. CASE f \notin W
        <5>1. row'[f] = row[f] /\ row[f].scan \in Scan
          BY <1>5, <4>1, <4>2, <4>4 DEF RowsOfWritten
        <5> QED
          BY <1>7, <4>2, <5>1
      <4> QED
        BY <4>3, <4>4
    <3> QED
      BY <3>1, <3>2
  <2>2. ASSUME NEW f \in File, row'[f] # NoRow, row'[f].status # "deleted"
        PROVE  f \in scan'[row'[f].scan].kept
    <3>1. CASE f \in W
      BY <1>1, <1>5, <2>2, <3>1
    <3>2. CASE f \notin W
      <4>1. row'[f] = row[f] /\ row[f].scan \in Scan /\ row[f].scan # s
        BY <1>5, <1>7, <2>2, <3>2 DEF RowsOfWritten
      <4> QED
        BY <1>7, <2>2, <4>1 DEF KeptIsListed
    <3> QED
      BY <3>1, <3>2
  <2> QED
    BY <1>7, <2>1, <2>2 DEF KeptIsListed
<1>13. ComparedWithKept'
  <2>1. \A t \in Scan : KeptBefore(t)' = KeptBefore(t)
    <3>1. ASSUME NEW t \in Scan, scan[t].before # NoScan
          PROVE  scan[t].before \in Scan /\ scan[t].before # s
      BY <1>7, <3>1, Types DEF ComparesWithLast
    <3> QED
      BY <1>7, <3>1 DEF KeptBefore
  <2>2. \A f \in File : row[f] # NoRow => row[f].scan \in Scan /\ row[f].scan # s
    BY <1>7 DEF RowsOfWritten
  <2>3. \A f \in File : ~ Taken(f) /\ f \in KeptBefore(s) => f \in scan[s].prev /\ row[f] # NoRow
    <3>1. ASSUME NEW f \in File, ~ Taken(f), f \in KeptBefore(s) PROVE f \in scan[s].prev
      BY <1>2, <3>1 DEF ComparedWithKept
    <3>2. ASSUME NEW f \in File, f \in KeptBefore(s) PROVE row[f] # NoRow
      <4>1. scan[s].before \in Completed /\ f \in scan[scan[s].before].kept
        BY <1>2, <3>2 DEF KeptBefore, ComparesWithLast, IsLast
      <4> QED
        BY <4>1 DEF KeptIsListed
    <3> QED
      BY <3>1, <3>2
  <2>4. SUFFICES ASSUME NEW t \in Scan, NEW f \in File, ~ Taken(f), scan'[t].status = "completed"
        PROVE /\ row'[f] = [scan |-> t, status |-> "new"] => f \notin KeptBefore(t)
              /\ f \in KeptBefore(t) \ scan'[t].seen =>
                   \/ row'[f] = [scan |-> t, status |-> "deleted"]
                   \/ row'[f] # NoRow /\ scan'[row'[f].scan].stamp > scan'[t].stamp
    BY <1>7, <2>1 DEF ComparedWithKept
  <2>5. CASE t = s
    <3>1. row'[f] = [scan |-> s, status |-> "new"] => f \in W
      BY <1>5, <2>2, NoScanAssumption DEF NoScanAssumption, NoRow
    <3>2. row'[f] = [scan |-> s, status |-> "new"] => f \notin KeptBefore(s)
      BY <1>5, <2>3, <2>4, <3>1
    <3> QED
      BY <1>5, <1>7, <2>3, <2>4, <2>5, <3>2
  <2>6. CASE t # s
    <3>1. scan[t].status = "completed" /\ Written(t)
      BY <1>7, <2>4, <2>6 DEF Written
    <3>2. CASE f \in W
      BY <1>5, <1>7, <2>6, <3>1, <3>2
    <3>3. CASE f \notin W
      <4>1. /\ row[f] = [scan |-> t, status |-> "new"] => f \notin KeptBefore(t)
            /\ f \in KeptBefore(t) \ scan[t].seen =>
                 \/ row[f] = [scan |-> t, status |-> "deleted"]
                 \/ row[f] # NoRow /\ scan[row[f].scan].stamp > scan[t].stamp
        BY <2>4, <3>1 DEF ComparedWithKept
      <4> QED
        BY <1>5, <1>7, <2>2, <3>3, <4>1
    <3> QED
      BY <3>2, <3>3
  <2> QED
    BY <2>5, <2>6
<1> QED
  BY <1>6, <1>8, <1>9, <1>10, <1>11, <1>12, <1>13

\* A scan that fails after it has committed gives way to the one before it; its
\* rows stay, and so does what the others kept.
LEMMA FailStep ==
  ASSUME SerialInv, NEW s \in Scan, Fail(s)
  PROVE  SerialInv'
<1> USE DEF SerialInv
<1>1. /\ scan' \in [Scan -> ScanRecord] /\ \A t \in Scan : t # s => scan'[t] = scan[t]
      /\ scan'[s].pc = "done" /\ scan'[s].status = "failed"
      /\ scan'[s].before = scan[s].before /\ scan'[s].prev = scan[s].prev /\ scan'[s].seen = scan[s].seen
      /\ scan'[s].loaded = scan[s].loaded /\ scan'[s].stamp = scan[s].stamp /\ scan'[s].kept = scan[s].kept
  <2> DEFINE r == [scan[s] EXCEPT !.pc = "done", !.status = "failed"]
  <2>1. /\ r \in ScanRecord
        /\ r.pc = "done" /\ r.status = "failed"
        /\ r.before = scan[s].before /\ r.prev = scan[s].prev /\ r.seen = scan[s].seen
        /\ r.loaded = scan[s].loaded /\ r.stamp = scan[s].stamp /\ r.kept = scan[s].kept
    <3>1. scan[s] \in ScanRecord
      BY Types
    <3> QED
      BY ONLY <3>1 DEF ScanRecord, Pc, ScanStatus
  <2>2. scan' = [scan EXCEPT ![s] = r]
    BY DEF Fail
  <2> HIDE DEF r
  <2> QED
    BY <2>1, <2>2 DEF TypeOK
<1>2. /\ scan[s].pc \in {"previous", "items", "walk", "load", "report"} /\ row' = row
      /\ scan[s].status \in {"running", "completed"}
      /\ scan[s].status = "completed" => scan[s].pc = "report"
      /\ scan[s].status = "running" => scan[s].stamp = 0
      /\ scan[s].status = "completed" => scan[s].stamp > 0
  BY DEF Fail, StepsInOrder
<1>3. TypeOK'
  BY <1>1, ScanAssumption DEF Fail, TypeOK, ScanAssumption
<1>4. /\ Completed' = Completed \ {s} /\ Completed \subseteq Scan /\ NoRow' = NoRow /\ Stamped' = Stamped
      /\ \A t \in Scan : /\ Written(t)' <=> Written(t)
                         /\ scan'[t].stamp = scan[t].stamp /\ scan'[t].before = scan[t].before
                         /\ scan'[t].seen = scan[t].seen /\ scan'[t].prev = scan[t].prev
                         /\ scan'[t].kept = scan[t].kept
                         /\ scan'[t].status = "completed" => scan[t].status = "completed" /\ t # s
                         /\ scan'[t].pc \in {"idle", "done"}
      /\ \A f \in File : Taken(f) => Taken(f)'
  <2>1. \A t \in Scan : t # s => scan[t].pc \in {"idle", "done"}
    BY <1>2, Types DEF Serial, AtWork, Pc
  <2>2. \A t \in Scan : /\ Written(t)' <=> Written(t)
                        /\ scan'[t].stamp = scan[t].stamp /\ scan'[t].before = scan[t].before
                        /\ scan'[t].seen = scan[t].seen /\ scan'[t].prev = scan[t].prev
                        /\ scan'[t].kept = scan[t].kept
                        /\ scan'[t].status = "completed" => scan[t].status = "completed" /\ t # s
                        /\ scan'[t].pc \in {"idle", "done"}
    BY <1>1, <1>2, <2>1, Types DEF Written
  <2>3. Completed' = Completed \ {s} /\ Completed \subseteq Scan /\ NoRow' = NoRow /\ Stamped' = Stamped
    BY <1>1 DEF Completed, NoRow, Stamped
  <2>4. \A f \in File : Taken(f) => Taken(f)'
    BY <1>1, <1>2 DEF Taken
  <2> QED
    BY <2>2, <2>3, <2>4
<1>5. Serial' /\ StampsGrow' /\ SessionFresh'
  BY <1>4 DEF Serial, StampsGrow, SessionFresh, AtWork
<1>6. StepsInOrder'
  BY <1>1, <1>2, Types DEF StepsInOrder
<1>7. RowsOfWritten'
  BY <1>2, <1>4 DEF RowsOfWritten
<1>8. KeptIsListed'
  <2>1. \A f \in File : row[f] # NoRow => row[f].scan \in Scan
    BY DEF RowsOfWritten
  <2>2. \A c \in Completed : scan[c].kept \subseteq File
    BY <1>4, Types
  <2> QED
    BY <1>2, <1>4, <2>1, <2>2 DEF KeptIsListed
<1>9. ComparesWithLast'
  <2>1. \E l : IsLast(l, Completed)'
    <3>1. CASE s \in Completed
      <4>1. IsLast(scan[s].before, Completed \ {s})
        BY <1>2, <3>1 DEF ComparesWithLast, Completed
      <4> QED
        BY <1>4, <4>1 DEF IsLast
    <3>2. CASE s \notin Completed
      <4>1. IsLast(LastScan, Completed) /\ Completed \ {s} = Completed
        BY <3>2 DEF ComparesWithLast
      <4> QED
        BY <1>4, <4>1 DEF IsLast
    <3> QED
      BY <3>1, <3>2
  <2>2. IsLast(LastScan, Completed)'
    BY <2>1, LastChosenNext
  <2>3. ASSUME NEW t \in Scan, scan[t].before # NoScan
        PROVE  scan[t].before # t /\ Written(scan[t].before)'
    <3>1. scan[t].before \in Scan /\ scan[t].before # t /\ Written(scan[t].before)
      BY <2>3, Types DEF ComparesWithLast
    <3> QED
      BY <1>4, <3>1
  <2>4. ASSUME NEW t \in Scan PROVE (scan[t].before # NoScan => scan[t].before # t /\ Written(scan[t].before))'
    BY <1>4, <2>3 DEF Written
  <2> QED
    BY <1>4, <2>2, <2>4 DEF ComparesWithLast
<1>10. ComparedWithKept'
  <2>1. \A f \in File : row[f] # NoRow => row[f].scan \in Scan
    BY DEF RowsOfWritten
  <2>2. \A t \in Scan : KeptBefore(t)' = KeptBefore(t)
    BY <1>4, Types DEF KeptBefore
  <2> QED
    BY <1>2, <1>4, <2>1, <2>2 DEF ComparedWithKept
<1> QED
  BY <1>3, <1>5, <1>6, <1>7, <1>8, <1>9, <1>10

\* An import that takes a file away takes its row, and out of what scans kept.
LEMMA DropStep ==
  ASSUME SerialInv, NEW f \in File, DropItem(f)
  PROVE  SerialInv'
<1> USE DEF SerialInv
<1>1. /\ scan' \in [Scan -> ScanRecord]
      /\ \A t \in Scan :
           /\ scan'[t].pc = scan[t].pc /\ scan'[t].status = scan[t].status /\ scan'[t].before = scan[t].before
           /\ scan'[t].prev = scan[t].prev /\ scan'[t].seen = scan[t].seen /\ scan'[t].stamp = scan[t].stamp
           /\ scan'[t].kept = scan[t].kept \ {f}
           /\ scan'[t].loaded[f] \in {"none", "gone"}
           /\ \A g \in File : g # f => scan'[t].loaded[g] = scan[t].loaded[g]
  <2> DEFINE k(t) == scan[t].kept \ {f}
             l(t) == [g \in File |-> IF g = f /\ scan[t].loaded[f] # "none" THEN "gone" ELSE scan[t].loaded[g]]
             r(t) == [scan[t] EXCEPT !.kept = k(t), !.loaded = l(t)]
  <2>1. ASSUME NEW t \in Scan
        PROVE  /\ r(t) \in ScanRecord
               /\ r(t).pc = scan[t].pc /\ r(t).status = scan[t].status /\ r(t).before = scan[t].before
               /\ r(t).prev = scan[t].prev /\ r(t).seen = scan[t].seen /\ r(t).stamp = scan[t].stamp
               /\ r(t).kept = k(t) /\ r(t).loaded = l(t)
    <3>1. scan[t] \in ScanRecord /\ k(t) \subseteq File
      BY Types
    <3>2. l(t) \in [File -> ItemStatus \cup {"none", "gone"}]
      BY Types
    <3> HIDE DEF k, l
    <3> QED
      BY ONLY <3>1, <3>2 DEF ScanRecord
  <2>2. scan' = [t \in Scan |-> r(t)]
    BY DEF DropItem
  <2>3. \A t \in Scan : /\ l(t)[f] \in {"none", "gone"}
                        /\ \A g \in File : g # f => l(t)[g] = scan[t].loaded[g]
    BY Types
  <2> HIDE DEF r, l
  <2> QED
    BY <2>1, <2>2, <2>3
<1>2. /\ row' \in [File -> Row] /\ row'[f] = NoRow /\ \A g \in File : g # f => row'[g] = row[g]
  BY DEF DropItem, TypeOK, Row, NoRow
<1>3. NoRow' = NoRow
  BY DEF NoRow
<1>4. TypeOK'
  BY <1>1, <1>2 DEF DropItem, TypeOK
<1>5. Completed' = Completed /\ Completed \subseteq Scan /\ Stamped' = Stamped
  BY <1>1 DEF Completed, Stamped
<1>6. (\A t \in Scan : Written(t)' <=> Written(t)) /\ \A g \in File : Taken(g)' <=> Taken(g)
  BY <1>1 DEF Written, Taken
<1>7. Serial' /\ StepsInOrder' /\ StampsGrow'
  <2>1. \A t \in Scan : /\ scan'[t].pc = scan[t].pc /\ scan'[t].status = scan[t].status
                        /\ scan'[t].before = scan[t].before /\ scan'[t].stamp = scan[t].stamp
    BY <1>1
  <2> QED
    BY <1>5, <2>1 DEF Serial, StepsInOrder, StampsGrow, AtWork
<1>8. RowsOfWritten'
  <2>1. ASSUME NEW g \in File, row'[g] # NoRow
        PROVE  /\ row'[g].scan \in Scan /\ Written(row[g].scan)' /\ row'[g].status # "none"
               /\ g \in scan'[row'[g].scan].seen \cup scan'[row'[g].scan].prev
    <3>1. g # f /\ row'[g] = row[g]
      BY <1>2, <2>1
    <3>2. /\ row[g].scan \in Scan /\ Written(row[g].scan) /\ row[g].status # "none"
          /\ g \in scan[row[g].scan].seen \cup scan[row[g].scan].prev
      BY <2>1, <3>1 DEF RowsOfWritten
    <3> QED
      BY <1>1, <3>1, <3>2 DEF Written
  <2> QED
    BY <1>3, <2>1 DEF RowsOfWritten
<1>9. SessionFresh'
  <2>1. \A t \in Scan, g \in File : scan[t].pc \in {"stamp", "commit"} /\ g # f =>
          IF scan[t].loaded[g] \in {"none", "gone"} THEN row[g] = NoRow
          ELSE row[g].status = scan[t].loaded[g]
    BY DEF SessionFresh
  <2> QED
    <3>1. ASSUME NEW t \in Scan, NEW g \in File, scan'[t].pc \in {"stamp", "commit"}
          PROVE  IF scan'[t].loaded[g] \in {"none", "gone"} THEN row'[g] = NoRow
                 ELSE row'[g].status = scan'[t].loaded[g]
      <4>1. CASE g = f
        BY <1>1, <1>2, <4>1
      <4>2. CASE g # f
        BY <1>1, <1>2, <2>1, <3>1, <4>2
      <4> QED
        BY <4>1, <4>2
    <3> QED
      BY <1>3, <3>1 DEF SessionFresh
<1>10. ComparesWithLast'
  <2>1. IsLast(LastScan, Completed)'
    <3>1. IsLast(LastScan, Completed)
      BY DEF ComparesWithLast
    <3>2. \E l : IsLast(l, Completed)'
      BY <1>1, <1>5, <3>1 DEF IsLast
    <3> QED
      BY <3>2, LastChosenNext
  <2>2. ASSUME NEW t \in Scan, scan[t].pc \in {"items", "walk", "load", "stamp", "commit", "report"}
        PROVE  IsLast(scan[t].before, Completed \ {t})'
    <3>1. IsLast(scan[t].before, Completed \ {t})
      BY <2>2 DEF ComparesWithLast
    <3> QED
      BY <1>1, <1>5, <3>1 DEF IsLast
  <2>3. ASSUME NEW t \in Scan, scan[t].before # NoScan
        PROVE  scan[t].before # t /\ Written(scan[t].before)'
    <3>1. scan[t].before \in Scan /\ scan[t].before # t /\ Written(scan[t].before)
      BY <2>3, Types DEF ComparesWithLast
    <3> QED
      BY <1>1, <3>1 DEF Written
  <2> QED
    BY <1>1, <2>1, <2>2, <2>3 DEF ComparesWithLast
<1>11. KeptIsListed'
  <2>1. \A g \in File : row[g] # NoRow => row[g].scan \in Scan
    BY DEF RowsOfWritten
  <2>2. ASSUME NEW c \in Completed, NEW g \in scan'[c].kept
        PROVE  /\ row'[g] # NoRow
               /\ \/ row'[g].scan = c /\ row'[g].status # "deleted"
                  \/ scan'[row'[g].scan].stamp > scan'[c].stamp
    <3>1. c \in Scan /\ g \in scan[c].kept /\ g \in File /\ g # f /\ row'[g] = row[g]
      BY <1>1, <1>2, <1>5, <2>2, Types
    <3>2. /\ row[g] # NoRow
          /\ (row[g].scan = c /\ row[g].status # "deleted") \/ scan[row[g].scan].stamp > scan[c].stamp
      BY <2>2, <3>1 DEF KeptIsListed
    <3> QED
      BY <1>1, <2>1, <3>1, <3>2
  <2>3. ASSUME NEW g \in File, row'[g] # NoRow, row'[g].status # "deleted"
        PROVE  g \in scan'[row'[g].scan].kept
    <3>1. g # f /\ row'[g] = row[g] /\ row[g].scan \in Scan
      BY <1>2, <2>1, <2>3
    <3> QED
      BY <1>1, <2>3, <3>1 DEF KeptIsListed
  <2> QED
    BY <1>2, <1>5, <2>2, <2>3 DEF KeptIsListed
<1>12. ComparedWithKept'
  <2>1. \A t \in Scan : KeptBefore(t)' = KeptBefore(t) \ {f}
    BY <1>1, Types DEF KeptBefore
  <2>2. \A g \in File : row[g] # NoRow => row[g].scan \in Scan
    BY DEF RowsOfWritten
  <2> QED
    <3>1. ASSUME NEW t \in Scan, NEW g \in File, ~ Taken(g)
          PROVE  /\ scan'[t].pc \in {"walk", "load", "stamp", "commit"} /\ g \in KeptBefore(t) \ {f} =>
                      g \in scan'[t].prev
                 /\ scan'[t].status = "completed" /\ row'[g] = [scan |-> t, status |-> "new"] =>
                      g \notin KeptBefore(t) \ {f}
                 /\ scan'[t].status = "completed" /\ g \in (KeptBefore(t) \ {f}) \ scan'[t].seen =>
                      \/ row'[g] = [scan |-> t, status |-> "deleted"]
                      \/ row'[g] # NoRow /\ scan'[row'[g].scan].stamp > scan'[t].stamp
      <4>1. CASE g = f
        BY <1>1, <3>1, <4>1 DEF ComparedWithKept
      <4>2. CASE g # f
        <5>1. /\ scan[t].pc \in {"walk", "load", "stamp", "commit"} /\ g \in KeptBefore(t) => g \in scan[t].prev
              /\ scan[t].status = "completed" /\ row[g] = [scan |-> t, status |-> "new"] => g \notin KeptBefore(t)
              /\ scan[t].status = "completed" /\ g \in KeptBefore(t) \ scan[t].seen =>
                   \/ row[g] = [scan |-> t, status |-> "deleted"]
                   \/ row[g] # NoRow /\ scan[row[g].scan].stamp > scan[t].stamp
          BY <3>1 DEF ComparedWithKept
        <5>2. row'[g] = row[g] /\ (row[g] # NoRow => scan'[row[g].scan].stamp = scan[row[g].scan].stamp)
          BY <1>1, <1>2, <2>2, <4>2
        <5>3. /\ scan'[t].pc = scan[t].pc /\ scan'[t].status = scan[t].status
              /\ scan'[t].prev = scan[t].prev /\ scan'[t].seen = scan[t].seen /\ scan'[t].stamp = scan[t].stamp
          BY <1>1
        <5> HIDE DEF SerialInv
        <5> QED
          BY <5>1, <5>2, <5>3
      <4> QED
        BY <4>1, <4>2
    <3> QED
      BY <1>3, <1>6, <2>1, <3>1 DEF ComparedWithKept
<1> QED
  BY <1>4, <1>7, <1>8, <1>9, <1>10, <1>11, <1>12

\* Users who add and remove files change nothing but the folder.
LEMMA DiskStep ==
  ASSUME SerialInv, TypeOK', scan' = scan, row' = row
  PROVE  SerialInv'
<1>1. Completed' = Completed /\ LastScan' = LastScan /\ Stamped' = Stamped /\ NoRow' = NoRow
  BY DEF Completed, LastScan, Stamped, NoRow
<1>2. Serial' /\ StepsInOrder' /\ StampsGrow' /\ SessionFresh' /\ KeptIsListed' /\ RowsOfWritten'
  BY <1>1 DEF SerialInv, Serial, StepsInOrder, StampsGrow, SessionFresh, KeptIsListed,
     RowsOfWritten, AtWork, Written
<1>3. ComparesWithLast' /\ ComparedWithKept'
  BY <1>1 DEF SerialInv, ComparesWithLast, IsLast, Written, ComparedWithKept, KeptBefore, Taken
<1> QED
  BY <1>2, <1>3 DEF SerialInv

\* Every step of a scan, a user or an import keeps the invariant.
LEMMA SerialStep ==
  ASSUME Workers = 1, SerialInv, Next
  PROVE  SerialInv'
<1> USE DEF SerialInv
<1>1. ASSUME NEW s \in Scan, Start(s) PROVE SerialInv'
  <2>1. /\ scan' \in [Scan -> ScanRecord] /\ \A t \in Scan : t # s => scan'[t] = scan[t]
        /\ scan'[s].pc = "previous" /\ scan'[s].status = "running"
        /\ scan'[s].before = scan[s].before /\ scan'[s].prev = scan[s].prev /\ scan'[s].seen = scan[s].seen
        /\ scan'[s].loaded = scan[s].loaded /\ scan'[s].stamp = scan[s].stamp /\ scan'[s].kept = scan[s].kept
    <3> DEFINE r == [scan[s] EXCEPT !.pc = "previous", !.status = "running"]
    <3>1. /\ r \in ScanRecord
          /\ r.pc = "previous" /\ r.status = "running"
          /\ r.before = scan[s].before /\ r.prev = scan[s].prev /\ r.seen = scan[s].seen
          /\ r.loaded = scan[s].loaded /\ r.stamp = scan[s].stamp /\ r.kept = scan[s].kept
      <4>1. scan[s] \in ScanRecord
        BY Types
      <4> QED
        BY ONLY <4>1 DEF ScanRecord, Pc, ScanStatus
    <3>2. scan' = [scan EXCEPT ![s] = r]
      BY <1>1 DEF Start
    <3> HIDE DEF r
    <3> QED
      BY <3>1, <3>2 DEF TypeOK
  <2>2. scan[s].pc = "idle" /\ row' = row /\ disk' = disk
    BY <1>1 DEF Start
  <2>3. TypeOK'
    BY <1>1, <2>1 DEF Start, TypeOK
  <2>4. QuietStep(s)
    BY <2>1, <2>2, <2>3, <1>1, StartAlone DEF QuietStep, AtWork, StepsInOrder
  <2>5. StepsInOrder'
    BY <2>1, <2>2, Types DEF StepsInOrder
  <2>6. ComparesWithLast'
    BY <2>1, <2>2, <2>4, QuietCompares
  <2>7. SessionFresh'
    BY <2>1, <2>2 DEF SessionFresh
  <2>8. ComparedWithKept'
    BY <2>1, <2>2, <2>4, QuietKept
  <2> QED
    BY <2>3, <2>4, <2>5, <2>6, <2>7, <2>8, Quiet
<1>2. ASSUME NEW s \in Scan, FindPrevious(s) PROVE SerialInv'
  <2>1. /\ scan' \in [Scan -> ScanRecord] /\ \A t \in Scan : t # s => scan'[t] = scan[t]
        /\ scan'[s].pc = "items" /\ scan'[s].before = LastScan
        /\ scan'[s].status = scan[s].status /\ scan'[s].prev = scan[s].prev /\ scan'[s].seen = scan[s].seen
        /\ scan'[s].loaded = scan[s].loaded /\ scan'[s].stamp = scan[s].stamp /\ scan'[s].kept = scan[s].kept
    <3> DEFINE r == [scan[s] EXCEPT !.pc = "items", !.before = LastScan]
    <3>1. /\ r \in ScanRecord
          /\ r.pc = "items" /\ r.before = LastScan
          /\ r.status = scan[s].status /\ r.prev = scan[s].prev /\ r.seen = scan[s].seen
          /\ r.loaded = scan[s].loaded /\ r.stamp = scan[s].stamp /\ r.kept = scan[s].kept
      <4>1. scan[s] \in ScanRecord /\ LastScan \in Scan \cup {NoScan}
        BY Types DEF ComparesWithLast, IsLast, Completed
      <4> QED
        BY ONLY <4>1 DEF ScanRecord, Pc, ScanStatus
    <3>2. scan' = [scan EXCEPT ![s] = r]
      BY <1>2 DEF FindPrevious
    <3> HIDE DEF r
    <3> QED
      BY <3>1, <3>2 DEF TypeOK
  <2>2. scan[s].pc = "previous" /\ row' = row /\ disk' = disk
    BY <1>2 DEF FindPrevious
  <2>3. TypeOK'
    BY <1>2, <2>1 DEF FindPrevious, TypeOK
  <2>4. QuietStep(s)
    BY <2>1, <2>2, <2>3 DEF QuietStep, AtWork, StepsInOrder
  <2>5. StepsInOrder'
    BY <2>1, <2>2, Types DEF StepsInOrder
  <2>6. ComparesWithLast'
    <3>1. Completed \ {s} = Completed /\ Completed \subseteq Scan /\ IsLast(LastScan, Completed)
      BY <2>2 DEF StepsInOrder, Completed, ComparesWithLast
    <3>2. LastScan # NoScan => LastScan \in Scan /\ LastScan # s /\ Written(LastScan)
      BY <3>1 DEF IsLast, Completed, Written
    <3>3. \A t \in Scan : t # s => /\ scan'[t].pc \notin {"items", "walk", "load", "stamp", "commit", "report"}
                                   /\ scan'[t].before = scan[t].before /\ scan[t].before \in Scan \cup {NoScan}
      BY <2>1, <2>2, Types DEF Serial, AtWork
    <3>4. Completed' = Completed /\ IsLast(LastScan, Completed)'
      BY <2>4, Quiet
    <3>5. \A t \in Scan : /\ scan'[t].stamp = scan[t].stamp /\ scan'[t].status = scan[t].status
      BY <2>1
    <3>6. IsLast(scan[s].before, Completed \ {s})'
      BY <2>1, <3>1, <3>4, <3>5 DEF IsLast
    <3>7. ASSUME NEW t \in Scan, scan'[t].before # NoScan PROVE (scan[t].before # t /\ Written(scan[t].before))'
      <4>1. CASE t = s
        BY <2>1, <3>2, <3>5, <3>7, <4>1 DEF Written
      <4>2. CASE t # s
        <5>1. scan[t].before \in Scan /\ scan[t].before # t /\ Written(scan[t].before)
          BY <3>3, <3>7, <4>2 DEF ComparesWithLast
        <5> QED
          BY <3>3, <3>5, <4>2, <5>1 DEF Written
      <4> QED
        BY <4>1, <4>2
    <3> QED
      BY <3>3, <3>4, <3>6, <3>7 DEF ComparesWithLast
  <2>7. SessionFresh'
    BY <2>1, <2>2 DEF SessionFresh
  <2>8. ComparedWithKept'
    <3>1. \A t \in Scan : t # s => /\ scan'[t].pc \in {"idle", "done"} /\ KeptBefore(t)' = KeptBefore(t)
      BY <2>1, <2>2, Types DEF Serial, AtWork, KeptBefore, Pc
    <3>2. /\ \A f \in File : (Taken(f)' <=> Taken(f)) /\ (row[f] # NoRow => row[f].scan \in Scan)
          /\ \A t \in Scan : scan'[t].stamp = scan[t].stamp /\ scan'[t].status = scan[t].status
          /\ scan[s].status = "running" /\ NoRow' = NoRow
      BY <2>1, <2>2, <2>4, Quiet DEF RowsOfWritten, StepsInOrder, NoRow
    <3> QED
      BY <2>1, <2>2, <3>1, <3>2 DEF ComparedWithKept
  <2> QED
    BY <2>3, <2>4, <2>5, <2>6, <2>7, <2>8, Quiet
<1>3. ASSUME NEW s \in Scan, ReadPrevious(s) PROVE SerialInv'
  <2>1. /\ scan' \in [Scan -> ScanRecord] /\ \A t \in Scan : t # s => scan'[t] = scan[t]
        /\ scan'[s].pc = "walk" /\ scan'[s].prev = {f \in File : scan[s].before # NoScan /\ row[f].scan = scan[s].before}
        /\ scan'[s].status = scan[s].status /\ scan'[s].before = scan[s].before /\ scan'[s].seen = scan[s].seen
        /\ scan'[s].loaded = scan[s].loaded /\ scan'[s].stamp = scan[s].stamp /\ scan'[s].kept = scan[s].kept
    <3> DEFINE r == [scan[s] EXCEPT !.pc = "walk", !.prev = {f \in File : scan[s].before # NoScan /\ row[f].scan = scan[s].before}]
    <3>1. /\ r \in ScanRecord
          /\ r.pc = "walk" /\ r.prev = {f \in File : scan[s].before # NoScan /\ row[f].scan = scan[s].before}
          /\ r.status = scan[s].status /\ r.before = scan[s].before /\ r.seen = scan[s].seen
          /\ r.loaded = scan[s].loaded /\ r.stamp = scan[s].stamp /\ r.kept = scan[s].kept
      <4>1. scan[s] \in ScanRecord /\ {f \in File : scan[s].before # NoScan /\ row[f].scan = scan[s].before} \subseteq File
        BY Types
      <4> QED
        BY ONLY <4>1 DEF ScanRecord, Pc, ScanStatus
    <3>2. scan' = [scan EXCEPT ![s] = r]
      BY <1>3 DEF ReadPrevious
    <3> HIDE DEF r
    <3> QED
      BY <3>1, <3>2 DEF TypeOK
  <2>2. scan[s].pc = "items" /\ row' = row /\ disk' = disk
    BY <1>3 DEF ReadPrevious
  <2>3. TypeOK'
    BY <1>3, <2>1 DEF ReadPrevious, TypeOK
  <2>4. QuietStep(s)
    BY <2>1, <2>2, <2>3 DEF QuietStep, AtWork, StepsInOrder
  <2>5. StepsInOrder'
    BY <2>1, <2>2, Types DEF StepsInOrder
  <2>6. ComparesWithLast'
    BY <2>1, <2>2, <2>4, QuietCompares
  <2>7. SessionFresh'
    BY <2>1, <2>2 DEF SessionFresh
  <2>8. ComparedWithKept'
    <3>1. \A t \in Scan : t # s => /\ scan'[t].pc \in {"idle", "done"} /\ KeptBefore(t)' = KeptBefore(t)
      BY <2>1, <2>2, Types DEF Serial, AtWork, KeptBefore, Pc
    <3>2. /\ \A f \in File : (Taken(f)' <=> Taken(f)) /\ (row[f] # NoRow => row[f].scan \in Scan)
          /\ \A t \in Scan : scan'[t].stamp = scan[t].stamp /\ scan'[t].status = scan[t].status
          /\ scan[s].status = "running" /\ NoRow' = NoRow
      BY <2>1, <2>2, <2>4, Quiet DEF RowsOfWritten, StepsInOrder, NoRow
    <3>3. ASSUME NEW f \in File, ~ Taken(f), f \in KeptBefore(s)' PROVE f \in scan'[s].prev
      <4> DEFINE b == scan[s].before
      <4>1. b \in Scan /\ b \in Completed \ {s} /\ f \in scan[b].kept /\ IsLast(b, Completed \ {s})
        BY <2>1, <2>2, <3>3, Types DEF KeptBefore, ComparesWithLast, IsLast
      <4>2. /\ row[f] # NoRow
            /\ (row[f].scan = b /\ row[f].status # "deleted") \/ scan[row[f].scan].stamp > scan[b].stamp
        BY <4>1 DEF KeptIsListed
      <4> DEFINE u == row[f].scan
      <4>3. u \in Scan /\ u # s /\ Written(u) /\ f \in scan[u].seen \cup scan[u].prev
        BY <2>2, <4>2 DEF RowsOfWritten, StepsInOrder, Written
      <4>4. u \in Completed => u = b
        BY <4>1, <4>2, <4>3, Types DEF IsLast
      <4>5. u = b
        BY <3>3, <4>3, <4>4 DEF Written, Taken, Completed
      <4> QED
        BY <2>1, <4>1, <4>5, NoScanAssumption DEF NoScanAssumption
    <3> QED
      BY <2>1, <2>2, <3>1, <3>2, <3>3 DEF ComparedWithKept
  <2> QED
    BY <2>3, <2>4, <2>5, <2>6, <2>7, <2>8, Quiet
<1>4. ASSUME NEW s \in Scan, Walk(s) PROVE SerialInv'
  <2>1. /\ scan' \in [Scan -> ScanRecord] /\ \A t \in Scan : t # s => scan'[t] = scan[t]
        /\ scan'[s].pc = "load" /\ scan'[s].seen = disk
        /\ scan'[s].status = scan[s].status /\ scan'[s].before = scan[s].before /\ scan'[s].prev = scan[s].prev
        /\ scan'[s].loaded = scan[s].loaded /\ scan'[s].stamp = scan[s].stamp /\ scan'[s].kept = scan[s].kept
    <3> DEFINE r == [scan[s] EXCEPT !.pc = "load", !.seen = disk]
    <3>1. /\ r \in ScanRecord
          /\ r.pc = "load" /\ r.seen = disk
          /\ r.status = scan[s].status /\ r.before = scan[s].before /\ r.prev = scan[s].prev
          /\ r.loaded = scan[s].loaded /\ r.stamp = scan[s].stamp /\ r.kept = scan[s].kept
      <4>1. scan[s] \in ScanRecord /\ disk \subseteq File
        BY Types DEF TypeOK
      <4> QED
        BY ONLY <4>1 DEF ScanRecord, Pc, ScanStatus
    <3>2. scan' = [scan EXCEPT ![s] = r]
      BY <1>4 DEF Walk
    <3> HIDE DEF r
    <3> QED
      BY <3>1, <3>2 DEF TypeOK
  <2>2. scan[s].pc = "walk" /\ row' = row /\ disk' = disk
    BY <1>4 DEF Walk
  <2>3. TypeOK'
    BY <1>4, <2>1 DEF Walk, TypeOK
  <2>4. QuietStep(s)
    BY <2>1, <2>2, <2>3 DEF QuietStep, AtWork, StepsInOrder
  <2>5. StepsInOrder'
    BY <2>1, <2>2, Types DEF StepsInOrder
  <2>6. ComparesWithLast'
    BY <2>1, <2>2, <2>4, QuietCompares
  <2>7. SessionFresh'
    BY <2>1, <2>2 DEF SessionFresh
  <2>8. ComparedWithKept'
    BY <2>1, <2>2, <2>4, QuietKept
  <2> QED
    BY <2>3, <2>4, <2>5, <2>6, <2>7, <2>8, Quiet
<1>5. ASSUME NEW s \in Scan, Load(s) PROVE SerialInv'
  <2>1. /\ scan' \in [Scan -> ScanRecord] /\ \A t \in Scan : t # s => scan'[t] = scan[t]
        /\ scan'[s].pc = "stamp" /\ scan'[s].loaded = [f \in File |-> row[f].status]
        /\ scan'[s].status = scan[s].status /\ scan'[s].before = scan[s].before /\ scan'[s].prev = scan[s].prev
        /\ scan'[s].seen = scan[s].seen /\ scan'[s].stamp = scan[s].stamp /\ scan'[s].kept = scan[s].kept
    <3> DEFINE r == [scan[s] EXCEPT !.pc = "stamp", !.loaded = [f \in File |-> row[f].status]]
    <3>1. /\ r \in ScanRecord
          /\ r.pc = "stamp" /\ r.loaded = [f \in File |-> row[f].status]
          /\ r.status = scan[s].status /\ r.before = scan[s].before /\ r.prev = scan[s].prev
          /\ r.seen = scan[s].seen /\ r.stamp = scan[s].stamp /\ r.kept = scan[s].kept
      <4>1. scan[s] \in ScanRecord /\ [f \in File |-> row[f].status] \in [File -> ItemStatus \cup {"none", "gone"}]
        BY Types, RowFacts
      <4> QED
        BY ONLY <4>1 DEF ScanRecord, Pc, ScanStatus
    <3>2. scan' = [scan EXCEPT ![s] = r]
      BY <1>5 DEF Load
    <3> HIDE DEF r
    <3> QED
      BY <3>1, <3>2 DEF TypeOK
  <2>2. scan[s].pc = "load" /\ row' = row /\ disk' = disk
    BY <1>5 DEF Load
  <2>3. TypeOK'
    BY <1>5, <2>1 DEF Load, TypeOK
  <2>4. QuietStep(s)
    BY <2>1, <2>2, <2>3 DEF QuietStep, AtWork, StepsInOrder
  <2>5. StepsInOrder'
    BY <2>1, <2>2, Types DEF StepsInOrder
  <2>6. ComparesWithLast'
    BY <2>1, <2>2, <2>4, QuietCompares
  <2>7. SessionFresh'
    <3>1. \A f \in File : /\ row[f].status \in ItemStatus \cup {"none"} /\ scan'[s].loaded[f] = row[f].status
                          /\ row[f].status = "none" => row[f] = NoRow
      BY <2>1, RowFacts DEF RowsOfWritten
    <3>2. ASSUME NEW f \in File
          PROVE  IF scan'[s].loaded[f] \in {"none", "gone"} THEN row[f] = NoRow
                 ELSE row[f].status = scan'[s].loaded[f]
      BY <3>1 DEF ItemStatus
    <3>3. \A t \in Scan : t # s => scan'[t] = scan[t]
      BY <2>1
    <3>4. SessionFresh /\ row' = row /\ NoRow' = NoRow
      BY <2>2 DEF NoRow
    <3> HIDE DEF SerialInv
    <3> QED
      BY <3>2, <3>3, <3>4 DEF SessionFresh
  <2>8. ComparedWithKept'
    BY <2>1, <2>2, <2>4, QuietKept
  <2> QED
    BY <2>3, <2>4, <2>5, <2>6, <2>7, <2>8, Quiet
<1>6. ASSUME NEW s \in Scan, CommitConflict(s) PROVE SerialInv'
  <2>1. /\ scan' \in [Scan -> ScanRecord] /\ \A t \in Scan : t # s => scan'[t] = scan[t]
        /\ scan'[s].pc = "done"
        /\ scan'[s].status = scan[s].status /\ scan'[s].before = scan[s].before /\ scan'[s].prev = scan[s].prev
        /\ scan'[s].seen = scan[s].seen /\ scan'[s].loaded = scan[s].loaded /\ scan'[s].stamp = scan[s].stamp
        /\ scan'[s].kept = scan[s].kept
    <3> DEFINE r == [scan[s] EXCEPT !.pc = "done"]
    <3>1. /\ r \in ScanRecord
          /\ r.pc = "done"
          /\ r.status = scan[s].status /\ r.before = scan[s].before /\ r.prev = scan[s].prev
          /\ r.seen = scan[s].seen /\ r.loaded = scan[s].loaded /\ r.stamp = scan[s].stamp
          /\ r.kept = scan[s].kept
      <4>1. scan[s] \in ScanRecord
        BY Types
      <4> QED
        BY ONLY <4>1 DEF ScanRecord, Pc, ScanStatus
    <3>2. scan' = [scan EXCEPT ![s] = r]
      BY <1>6 DEF CommitConflict, Goto
    <3> HIDE DEF r
    <3> QED
      BY <3>1, <3>2 DEF TypeOK
  <2>2. scan[s].pc = "commit" /\ row' = row /\ disk' = disk
    BY <1>6 DEF CommitConflict, Goto
  <2>3. TypeOK'
    BY <1>6, <2>1 DEF CommitConflict, Goto, TypeOK
  <2>4. QuietStep(s)
    BY <2>1, <2>2, <2>3 DEF QuietStep, AtWork, StepsInOrder
  <2>5. StepsInOrder'
    BY <2>1, <2>2, Types DEF StepsInOrder
  <2>6. ComparesWithLast'
    BY <2>1, <2>2, <2>4, QuietCompares
  <2>7. SessionFresh'
    BY <2>1, <2>2 DEF SessionFresh
  <2>8. ComparedWithKept'
    BY <2>1, <2>2, <2>4, QuietKept
  <2> QED
    BY <2>3, <2>4, <2>5, <2>6, <2>7, <2>8, Quiet
<1>7. ASSUME NEW s \in Scan, Finish(s) PROVE SerialInv'
  <2>1. /\ scan' \in [Scan -> ScanRecord] /\ \A t \in Scan : t # s => scan'[t] = scan[t]
        /\ scan'[s].pc = "done"
        /\ scan'[s].status = scan[s].status /\ scan'[s].before = scan[s].before /\ scan'[s].prev = scan[s].prev
        /\ scan'[s].seen = scan[s].seen /\ scan'[s].loaded = scan[s].loaded /\ scan'[s].stamp = scan[s].stamp
        /\ scan'[s].kept = scan[s].kept
    <3> DEFINE r == [scan[s] EXCEPT !.pc = "done"]
    <3>1. /\ r \in ScanRecord
          /\ r.pc = "done"
          /\ r.status = scan[s].status /\ r.before = scan[s].before /\ r.prev = scan[s].prev
          /\ r.seen = scan[s].seen /\ r.loaded = scan[s].loaded /\ r.stamp = scan[s].stamp
          /\ r.kept = scan[s].kept
      <4>1. scan[s] \in ScanRecord
        BY Types
      <4> QED
        BY ONLY <4>1 DEF ScanRecord, Pc, ScanStatus
    <3>2. scan' = [scan EXCEPT ![s] = r]
      BY <1>7 DEF Finish, Goto
    <3> HIDE DEF r
    <3> QED
      BY <3>1, <3>2 DEF TypeOK
  <2>2. scan[s].pc = "report" /\ row' = row /\ disk' = disk
    BY <1>7 DEF Finish, Goto
  <2>3. TypeOK'
    BY <1>7, <2>1 DEF Finish, Goto, TypeOK
  <2>4. QuietStep(s)
    BY <2>1, <2>2, <2>3 DEF QuietStep, AtWork, StepsInOrder
  <2>5. StepsInOrder'
    BY <2>1, <2>2, Types DEF StepsInOrder
  <2>6. ComparesWithLast'
    BY <2>1, <2>2, <2>4, QuietCompares
  <2>7. SessionFresh'
    BY <2>1, <2>2 DEF SessionFresh
  <2>8. ComparedWithKept'
    BY <2>1, <2>2, <2>4, QuietKept
  <2> QED
    BY <2>3, <2>4, <2>5, <2>6, <2>7, <2>8, Quiet
<1>8. ASSUME NEW s \in Scan, Die(s) PROVE SerialInv'
  <2>1. /\ scan' \in [Scan -> ScanRecord] /\ \A t \in Scan : t # s => scan'[t] = scan[t]
        /\ scan'[s].pc = "done"
        /\ scan'[s].status = scan[s].status /\ scan'[s].before = scan[s].before /\ scan'[s].prev = scan[s].prev
        /\ scan'[s].seen = scan[s].seen /\ scan'[s].loaded = scan[s].loaded /\ scan'[s].stamp = scan[s].stamp
        /\ scan'[s].kept = scan[s].kept
    <3> DEFINE r == [scan[s] EXCEPT !.pc = "done"]
    <3>1. /\ r \in ScanRecord
          /\ r.pc = "done"
          /\ r.status = scan[s].status /\ r.before = scan[s].before /\ r.prev = scan[s].prev
          /\ r.seen = scan[s].seen /\ r.loaded = scan[s].loaded /\ r.stamp = scan[s].stamp
          /\ r.kept = scan[s].kept
      <4>1. scan[s] \in ScanRecord
        BY Types
      <4> QED
        BY ONLY <4>1 DEF ScanRecord, Pc, ScanStatus
    <3>2. scan' = [scan EXCEPT ![s] = r]
      BY <1>8 DEF Die, Goto
    <3> HIDE DEF r
    <3> QED
      BY <3>1, <3>2 DEF TypeOK
  <2>2. scan[s].pc \notin {"idle", "done"} /\ row' = row /\ disk' = disk
    BY <1>8 DEF Die, Goto, AtWork
  <2>3. TypeOK'
    BY <1>8, <2>1, ScanAssumption DEF Die, Goto, TypeOK, ScanAssumption
  <2>4. QuietStep(s)
    BY <2>1, <2>2, <2>3 DEF QuietStep, AtWork, StepsInOrder
  <2>5. StepsInOrder'
    BY <2>1, <2>2, Types DEF StepsInOrder
  <2>6. ComparesWithLast'
    BY <2>1, <2>2, <2>4, QuietCompares
  <2>7. SessionFresh'
    BY <2>1, <2>2 DEF SessionFresh
  <2>8. ComparedWithKept'
    BY <2>1, <2>2, <2>4, QuietKept
  <2> QED
    BY <2>3, <2>4, <2>5, <2>6, <2>7, <2>8, Quiet
<1>9. ASSUME NEW f \in File, AddFile(f) \/ RemoveFile(f) PROVE SerialInv'
  <2>1. scan' = scan /\ row' = row /\ TypeOK'
    BY <1>9 DEF AddFile, RemoveFile, TypeOK
  <2> QED
    BY <2>1, DiskStep
<1> QED
  BY <1>1, <1>2, <1>3, <1>4, <1>5, <1>6, <1>7, <1>8, <1>9, StampStep, CommitStep, FailStep,
     DropStep DEF Next

\* SerialInv holds in every state, if scans work one at a time.
LEMMA SerialAlways == ASSUME Workers = 1 PROVE Spec => []SerialInv
<1>1. SerialInv /\ [Next]_vars => SerialInv'
  <2> SUFFICES ASSUME SerialInv, [Next]_vars PROVE SerialInv'
    OBVIOUS
  <2>1. CASE Next
    BY <2>1, SerialStep
  <2>2. CASE UNCHANGED vars
    <3>1. scan' = scan /\ row' = row /\ TypeOK'
      BY <2>2 DEF vars, SerialInv, TypeOK
    <3> QED
      BY <3>1, DiskStep
  <2> QED
    BY <2>1, <2>2
<1> QED
  BY <1>1, SerialInit, PTL DEF Spec

\* What the last scan kept and the listing lacks was rewritten by a scan with a
\* later stamp, which can only have failed.
LEMMA ListingLemma == SerialInv => ListingFaithful
<1> SUFFICES ASSUME SerialInv, LastScan # NoScan
    PROVE /\ Listing \subseteq scan[LastScan].kept
          /\ \A f \in scan[LastScan].kept \ Listing :
               row[f].scan # NoScan /\ scan[row[f].scan].status = "failed"
  BY DEF ListingFaithful
<1> USE DEF SerialInv
<1> DEFINE l == LastScan
<1>1. l \in Completed /\ l \in Scan /\ \A c \in Completed : scan[c].stamp <= scan[l].stamp
  BY DEF ComparesWithLast, IsLast, Completed
<1>2. \A f \in File : row[f] = NoRow <=> row[f].scan = NoScan /\ row[f].status = "none"
  BY RowFacts
<1>3. scan[l].kept \subseteq File
  BY <1>1, Types
<1>4. ASSUME NEW f \in Listing PROVE f \in scan[l].kept
  BY <1>2, <1>4 DEF Listing, KeptIsListed
<1>5. ASSUME NEW f \in scan[l].kept, f \notin Listing
      PROVE  row[f].scan # NoScan /\ scan[row[f].scan].status = "failed"
  <2>1. /\ row[f] # NoRow /\ f \in File
        /\ (row[f].scan = l /\ row[f].status # "deleted") \/ scan[row[f].scan].stamp > scan[l].stamp
    BY <1>1, <1>3, <1>5 DEF KeptIsListed
  <2>2. row[f].scan \in Scan /\ Written(row[f].scan) /\ row[f].status # "none"
    BY <2>1 DEF RowsOfWritten
  <2>3. scan[row[f].scan].stamp > scan[l].stamp
    BY <1>5, <2>1, <2>2 DEF Listing
  <2>4. row[f].scan \notin Completed
    BY <1>1, <2>2, <2>3, Types
  <2> QED
    BY <2>2, <2>4, NoScanAssumption DEF NoScanAssumption, Written, Completed
<1> QED
  BY <1>4, <1>5

\* The last scan compared itself with what the one before it kept.
LEMMA ChangesLemma == SerialInv => ChangesFaithful
<1> DEFINE last == scan[LastScan]
           before == IF last.before = NoScan THEN {} ELSE scan[last.before].kept
<1> SUFFICES ASSUME SerialInv, LastScan # NoScan, NEW f \in File, ~ Taken(f)
    PROVE /\ f \in Listing /\ row[f].status = "new" => f \notin before
          /\ f \in before \ last.seen => row[f] = [scan |-> LastScan, status |-> "deleted"]
  BY DEF ChangesFaithful
<1> USE DEF SerialInv
<1> DEFINE l == LastScan
<1>1. l \in Completed /\ l \in Scan /\ \A c \in Completed : scan[c].stamp <= scan[l].stamp
  BY DEF ComparesWithLast, IsLast, Completed
<1>2. before = KeptBefore(l) /\ scan[l].status = "completed"
  BY <1>1 DEF KeptBefore, Completed
<1>3. row[f] # NoRow => /\ row[f].scan \in Scan
                        /\ scan[row[f].scan].status = "completed"
                        /\ scan[row[f].scan].stamp <= scan[l].stamp
  <2>1. row[f] # NoRow => /\ row[f].scan \in Scan /\ Written(row[f].scan)
                          /\ f \in scan[row[f].scan].seen \cup scan[row[f].scan].prev
    BY DEF RowsOfWritten
  <2>2. row[f] # NoRow => scan[row[f].scan].status = "completed"
    BY <2>1 DEF Written, Taken
  <2> QED
    BY <1>1, <2>1, <2>2 DEF Completed
<1>4. ASSUME f \in Listing, row[f].status = "new" PROVE f \notin before
  <2>1. row[f] \in Row /\ row[f].scan = l
    BY <1>4 DEF Listing, TypeOK
  <2>2. row[f] = [scan |-> l, status |-> "new"]
    BY <1>4, <2>1 DEF Row
  <2> QED
    BY <1>1, <1>2, <2>2 DEF ComparedWithKept
<1>5. ASSUME f \in before \ last.seen PROVE row[f] = [scan |-> l, status |-> "deleted"]
  <2>1. \/ row[f] = [scan |-> l, status |-> "deleted"]
        \/ row[f] # NoRow /\ scan[row[f].scan].stamp > scan[l].stamp
    BY <1>1, <1>2, <1>5 DEF ComparedWithKept
  <2> QED
    BY <1>1, <1>3, <2>1, Types
<1> QED
  BY <1>4, <1>5

---------------------------------------------------------------------------
\* Of scans one after the other, the listing shows what the last completed one
\* saw (list_import_items), less what imports took and what a scan that failed
\* after its commit rewrote.
THEOREM ListingCorrect == ASSUME Workers = 1 PROVE Spec => []ListingFaithful
  BY SerialAlways, ListingLemma, PTL

\* The change shown for a file (detect_changes) is relative to the scan before.
THEOREM ChangesCorrect == ASSUME Workers = 1 PROVE Spec => []ChangesFaithful
  BY SerialAlways, ChangesLemma, PTL

=============================================================================
