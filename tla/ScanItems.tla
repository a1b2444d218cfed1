----------------------------- MODULE ScanItems -----------------------------
(***************************************************************************)
(* What the scans of one library write, and what the user then sees: the   *)
(* rows of import_scans and import_items, and the listing of the items of  *)
(* the last completed scan.  ScanScheduler shows that two scans may work   *)
(* at the same time; here each is a sequence of transactions.              *)
(*                                                                         *)
(* Sessions do not flush before they commit (autoflush is off), so a scan  *)
(* writes all its items at once; an UPDATE carries the columns that differ *)
(* from what the session has read.                                         *)
(***************************************************************************)
EXTENDS Naturals, FiniteSets

CONSTANTS
  File,       \* files that may be in the import folder
  Scan,       \* execute_scan tasks, each of which runs once
  Workers,    \* scans of the library that may work at the same time
  MaxFaults,  \* bound on exceptions and dead processes
  NoScan      \* absence of a scan

ASSUME NoScanAssumption == NoScan \notin Scan
ASSUME ScanAssumption == IsFiniteSet(Scan) /\ MaxFaults \in Nat

VARIABLES
  disk,    \* files in the import folder
  scan,    \* the scans: their task, its local variables and their row
  row,     \* the rows of import_items
  faults   \* exceptions and dead processes so far

vars == <<disk, scan, row, faults>>

ItemStatus == {"new", "modified", "unchanged", "deleted"}

\* "running" is scanning or extracting_metadata.
ScanStatus == {"none", "running", "completed", "failed"}

Pc == {"idle", "previous", "items", "walk", "load", "stamp", "commit", "report", "done"}

\* before: the scan it compares with;  prev: the paths of that scan's items;
\* seen: what the walk found;  loaded: the status of the rows the session holds,
\* "gone" if the row was deleted since;  stamp: completed_at;
\* kept (history): what it committed, less what an import removed since.
ScanRecord ==
  [pc : Pc, status : ScanStatus, before : Scan \cup {NoScan}, prev : SUBSET File,
   seen : SUBSET File, loaded : [File -> ItemStatus \cup {"none", "gone"}],
   stamp : Nat, kept : SUBSET File]

NotStarted ==
  [pc |-> "idle", status |-> "none", before |-> NoScan, prev |-> {}, seen |-> {},
   loaded |-> [f \in File |-> "none"], stamp |-> 0, kept |-> {}]

Row == [scan : Scan \cup {NoScan}, status : ItemStatus \cup {"none"}]

NoRow == [scan |-> NoScan, status |-> "none"]

Init ==
  /\ disk \in SUBSET File
  /\ scan = [s \in Scan |-> NotStarted]
  /\ row = [f \in File |-> NoRow]
  /\ faults = 0

\* The completed scan with the latest completed_at, which list_import_items,
\* get_scan_status and the next scan look for.
Completed == {s \in Scan : scan[s].status = "completed"}

LastScan ==
  IF Completed = {} THEN NoScan
  ELSE CHOOSE s \in Completed : \A c \in Completed : scan[c].stamp <= scan[s].stamp

\* list_import_items without a status filter.
Listing == {f \in File : row[f].scan = LastScan /\ row[f].status \notin {"none", "deleted"}}

AtWork(s) == scan[s].pc \notin {"idle", "done"}

Goto(s, pc) == scan' = [scan EXCEPT ![s].pc = pc]

---------------------------------------------------------------------------
(***************************************************************************)
(* execute_scan                                                            *)
(***************************************************************************)

\* The row of the scan is committed.
Start(s) ==
  /\ scan[s].pc = "idle"
  /\ Cardinality({c \in Scan : AtWork(c)}) < Workers
  /\ scan' = [scan EXCEPT ![s].pc = "previous", ![s].status = "running"]
  /\ UNCHANGED <<disk, row, faults>>

\* Mutant: failed and unfinished scans count as previous ones too.
FindPreviousAnyStatus(s) ==
  /\ scan[s].pc = "previous"
  /\ \E c \in {d \in Scan \ {s} : scan[d].status # "none"} \cup {NoScan} :
       scan' = [scan EXCEPT ![s].pc = "items", ![s].before = c]
  /\ UNCHANGED <<disk, row, faults>>

FindPrevious(s) ==
  /\ scan[s].pc = "previous"
  /\ scan' = [scan EXCEPT ![s].pc = "items", ![s].before = LastScan]
  /\ UNCHANGED <<disk, row, faults>>

\* The items of the previous scan, those it marked deleted included.
ReadPrevious(s) ==
  /\ scan[s].pc = "items"
  /\ scan' = [scan EXCEPT ![s].pc = "walk",
       ![s].prev = {f \in File : scan[s].before # NoScan /\ row[f].scan = scan[s].before}]
  /\ UNCHANGED <<disk, row, faults>>

Walk(s) ==
  /\ scan[s].pc = "walk"
  /\ scan' = [scan EXCEPT ![s].pc = "load", ![s].seen = disk]
  /\ UNCHANGED <<disk, row, faults>>

\* The loop over the items queries the row of each path.
Load(s) ==
  /\ scan[s].pc = "load"
  /\ scan' = [scan EXCEPT ![s].pc = "stamp", ![s].loaded = [f \in File |-> row[f].status]]
  /\ UNCHANGED <<disk, row, faults>>

\* completed_at is read from the clock before the commit.
Stamp(s) ==
  /\ scan[s].pc = "stamp"
  /\ scan' = [scan EXCEPT ![s].pc = "commit",
                          ![s].stamp = 1 + Cardinality({c \in Scan : scan[c].stamp > 0})]
  /\ UNCHANGED <<disk, row, faults>>

\* Paths the session inserts, and those of which it updates the row.
Inserted(s) == {f \in scan[s].seen : scan[s].loaded[f] = "none"}
Updated(s) == {f \in scan[s].seen \cup scan[s].prev : scan[s].loaded[f] # "none"}

\* A row for an inserted path exists by now (the constraint on library and
\* path), or a row to update does not.
Conflict(s) ==
  \/ \E f \in Inserted(s) : row[f] # NoRow
  \/ \E f \in Updated(s) : scan[s].loaded[f] = "gone"

\* detect_changes, with the comparison of the metadata left open.
NewStatus(s, f, modified) ==
  IF f \notin scan[s].seen THEN "deleted"
  ELSE IF f \notin scan[s].prev THEN "new"
  ELSE IF f \in modified THEN "modified" ELSE "unchanged"

\* The row of f after the UPDATE: a status equal to the one read is not sent.
UpdatedRow(s, f, status) ==
  [scan |-> s, status |-> IF status = scan[s].loaded[f] THEN row[f].status ELSE status]

\* Mutant: an unchanged item keeps the scan that found it first.
CommitSkipsUnchanged(s) ==
  /\ scan[s].pc = "commit" /\ ~ Conflict(s)
  /\ \E modified \in SUBSET scan[s].seen :
       row' = [f \in File |->
         IF f \in Inserted(s) THEN [scan |-> s, status |-> NewStatus(s, f, modified)]
         ELSE IF f \in Updated(s) /\ NewStatus(s, f, modified) # "unchanged"
         THEN UpdatedRow(s, f, NewStatus(s, f, modified))
         ELSE row[f]]
  /\ scan' = [scan EXCEPT ![s].pc = "report", ![s].status = "completed",
                          ![s].kept = scan[s].seen]
  /\ UNCHANGED <<disk, faults>>

\* The items and the completed scan in one transaction.
Commit(s) ==
  /\ scan[s].pc = "commit" /\ ~ Conflict(s)
  /\ \E modified \in SUBSET scan[s].seen :
       row' = [f \in File |->
         IF f \in Inserted(s) THEN [scan |-> s, status |-> NewStatus(s, f, modified)]
         ELSE IF f \in Updated(s) THEN UpdatedRow(s, f, NewStatus(s, f, modified))
         ELSE row[f]]
  /\ scan' = [scan EXCEPT ![s].pc = "report", ![s].status = "completed",
                          ![s].kept = scan[s].seen]
  /\ UNCHANGED <<disk, faults>>

\* The commit raises; so does the one that should mark the scan failed, in a
\* session that was not rolled back.  The row of the scan stays as it was.
CommitConflict(s) ==
  /\ scan[s].pc = "commit" /\ Conflict(s)
  /\ Goto(s, "done")
  /\ UNCHANGED <<disk, row, faults>>

\* The end of the task; the progress and the queue are ScanScheduler's.
Finish(s) ==
  /\ scan[s].pc = "report"
  /\ Goto(s, "done")
  /\ UNCHANGED <<disk, row, faults>>

\* Mutant: a status of the exception handler's own.
FailAsError(s) ==
  /\ scan[s].pc \in {"previous", "items", "walk", "load", "report"} /\ faults < MaxFaults
  /\ faults' = faults + 1
  /\ scan' = [scan EXCEPT ![s].pc = "done", ![s].status = "error"]
  /\ UNCHANGED <<disk, row>>

\* An exception outside the database, from Redis or the file system: the scan
\* is marked failed, even if its items are committed ("report").
Fail(s) ==
  /\ scan[s].pc \in {"previous", "items", "walk", "load", "report"} /\ faults < MaxFaults
  /\ faults' = faults + 1
  /\ scan' = [scan EXCEPT ![s].pc = "done", ![s].status = "failed"]
  /\ UNCHANGED <<disk, row>>

\* The worker dies, or the connection to the database breaks.
Die(s) ==
  /\ AtWork(s) /\ faults < MaxFaults
  /\ faults' = faults + 1
  /\ Goto(s, "done")
  /\ UNCHANGED <<disk, row>>

---------------------------------------------------------------------------
(***************************************************************************)
(* Users and imports                                                       *)
(***************************************************************************)

AddFile(f) ==
  /\ f \notin disk
  /\ disk' = disk \cup {f}
  /\ UNCHANGED <<scan, row, faults>>

RemoveFile(f) ==
  /\ f \in disk
  /\ disk' = disk \ {f}
  /\ UNCHANGED <<scan, row, faults>>

\* An import moved the file away: _cleanup_import_drop_zone deletes the row.
DropItem(f) ==
  /\ f \notin disk /\ row[f] # NoRow
  /\ row' = [row EXCEPT ![f] = NoRow]
  /\ scan' = [s \in Scan |->
       [scan[s] EXCEPT !.kept = @ \ {f},
                       !.loaded = [g \in File |-> IF g = f /\ @[f] # "none" THEN "gone" ELSE @[g]]]]
  /\ UNCHANGED <<disk, faults>>

---------------------------------------------------------------------------
Next ==
  \/ \E s \in Scan :
       \/ Start(s) \/ FindPrevious(s) \/ ReadPrevious(s) \/ Walk(s) \/ Load(s) \/ Stamp(s)
       \/ Commit(s) \/ CommitConflict(s) \/ Finish(s) \/ Fail(s) \/ Die(s)
  \/ \E f \in File : AddFile(f) \/ RemoveFile(f) \/ DropItem(f)

Spec == Init /\ [][Next]_vars

---------------------------------------------------------------------------
TypeOK ==
  /\ disk \subseteq File
  /\ scan \in [Scan -> ScanRecord]
  /\ row \in [File -> Row]
  /\ faults \in 0..MaxFaults

\* Of scans one after the other the listing shows exactly what the last
\* completed one saw and no import has taken since; a scan that fails after it
\* has committed its items is the only one that takes files out of it.
ListingFaithful ==
  LastScan # NoScan =>
    /\ Listing \subseteq scan[LastScan].kept
    /\ \A f \in scan[LastScan].kept \ Listing :
         row[f].scan # NoScan /\ scan[row[f].scan].status = "failed"

\* A scan that failed after its commit wrote the row of f.
Taken(f) ==
  \E s \in Scan : /\ scan[s].status = "failed" /\ scan[s].stamp > 0
                  /\ f \in scan[s].seen \cup scan[s].prev

\* The change shown for a file is relative to the scan completed before: what
\* is new that one did not see, and what is gone is not forgotten but deleted.
ChangesFaithful ==
  LET last == scan[LastScan]
      before == IF last.before = NoScan THEN {} ELSE scan[last.before].kept
  IN LastScan # NoScan =>
       \A f \in File : ~ Taken(f) =>
         /\ f \in Listing /\ row[f].status = "new" => f \notin before
         /\ f \in before \ last.seen => row[f] = [scan |-> LastScan, status |-> "deleted"]

\* GET /import-items: "List import items discovered during the most recent
\* completed scan."
LastScanListed == LastScan # NoScan => scan[LastScan].kept \subseteq Listing

---------------------------------------------------------------------------
(***************************************************************************)
(* Why the listing and its changes are right when scans work one at a time *)
(* (Workers = 1).  A scan that commits has the latest stamp and compared   *)
(* itself with the one that was last before it; so the row of a file that  *)
(* a completed scan saw is still the row that scan wrote, or one written   *)
(* by a scan with a later stamp - which is not completed, and so has       *)
(* failed after its commit, when the first is the last completed one.      *)
(***************************************************************************)
Serial == \A s, t \in Scan : AtWork(s) /\ AtWork(t) => s = t

\* The status and the stamp follow the step the task has come to.
StepsInOrder ==
  \A s \in Scan :
    /\ scan[s].pc \in {"previous", "items", "walk", "load", "stamp", "commit"} =>
         scan[s].status = "running"
    /\ scan[s].pc = "report" => scan[s].status = "completed"
    /\ scan[s].pc = "idle" => scan[s].status = "none" /\ scan[s].before = NoScan
    /\ scan[s].status = "completed" => scan[s].pc \in {"report", "done"} /\ scan[s].stamp > 0
    /\ scan[s].pc \in {"idle", "previous", "items", "walk", "load", "stamp"} => scan[s].stamp = 0
    /\ scan[s].pc = "commit" => scan[s].stamp > 0

Stamped == {s \in Scan : scan[s].stamp > 0}

\* No two scans share a stamp, and the one at work has the latest.
StampsGrow ==
  \A s, t \in Scan :
    /\ scan[s].stamp <= Cardinality(Stamped)
    /\ scan[s].stamp > 0 /\ scan[s].stamp = scan[t].stamp => s = t
    /\ AtWork(s) /\ scan[s].stamp > 0 => scan[t].stamp <= scan[s].stamp

\* The items of the scan were committed.
Written(s) == scan[s].status = "completed" \/ (scan[s].status = "failed" /\ scan[s].stamp > 0)

RowsOfWritten ==
  \A f \in File :
    \/ row[f] = NoRow
    \/ /\ row[f].scan \in Scan /\ Written(row[f].scan) /\ row[f].status # "none"
       /\ f \in scan[row[f].scan].seen \cup scan[row[f].scan].prev

IsLast(l, S) ==
  \/ S = {} /\ l = NoScan
  \/ l \in S /\ \A c \in S : scan[c].stamp <= scan[l].stamp

\* A scan compares itself with the one that was last when it began, and still is.
ComparesWithLast ==
  /\ IsLast(LastScan, Completed)
  /\ \A s \in Scan :
       /\ scan[s].pc \in {"items", "walk", "load", "stamp", "commit", "report"} =>
            IsLast(scan[s].before, Completed \ {s})
       /\ scan[s].before # NoScan => scan[s].before # s /\ Written(scan[s].before)

\* A file is kept by a scan as long as it is the latest to have written its row.
KeptIsListed ==
  /\ \A c \in Completed : \A f \in scan[c].kept :
       /\ row[f] # NoRow
       /\ \/ row[f].scan = c /\ row[f].status # "deleted"
          \/ scan[row[f].scan].stamp > scan[c].stamp
  /\ \A f \in File : row[f] # NoRow /\ row[f].status # "deleted" => f \in scan[row[f].scan].kept

\* What the session holds is what the table holds, but for what was deleted.
SessionFresh ==
  \A s \in Scan, f \in File : scan[s].pc \in {"stamp", "commit"} =>
    IF scan[s].loaded[f] \in {"none", "gone"} THEN row[f] = NoRow
    ELSE row[f].status = scan[s].loaded[f]

KeptBefore(s) == IF scan[s].before = NoScan THEN {} ELSE scan[scan[s].before].kept

ComparedWithKept ==
  \A s \in Scan, f \in File : ~ Taken(f) =>
    /\ scan[s].pc \in {"walk", "load", "stamp", "commit"} /\ f \in KeptBefore(s) => f \in scan[s].prev
    /\ scan[s].status = "completed" /\ row[f] = [scan |-> s, status |-> "new"] => f \notin KeptBefore(s)
    /\ scan[s].status = "completed" /\ f \in KeptBefore(s) \ scan[s].seen =>
         \/ row[f] = [scan |-> s, status |-> "deleted"]
         \/ row[f] # NoRow /\ scan[row[f].scan].stamp > scan[s].stamp

SerialInv ==
  /\ TypeOK /\ Serial /\ StepsInOrder /\ StampsGrow /\ RowsOfWritten /\ ComparesWithLast
  /\ KeptIsListed /\ SessionFresh /\ ComparedWithKept
=============================================================================
