----------------------------- MODULE Downloads -----------------------------
(***************************************************************************)
(* The Download Center: a request queues a job, a task packs its albums    *)
(* and titles into one archive, the user fetches or deletes it, and a      *)
(* periodic task removes what has expired.                                 *)
(*                                                                         *)
(* Row and archive change in steps of their own, and each of them can fail *)
(* alone. The pack holds the archive open: removed meanwhile, what it      *)
(* writes is lost.                                                         *)
(***************************************************************************)
EXTENDS Naturals

CONSTANTS
  Download,      \* jobs
  Units,         \* albums and titles of a job
  MaxPackFaults  \* bound: dispatches, packs, removals, commits that fail; workers that die

VARIABLES
  dlRow,      \* download_jobs: status of the row, whether its zip_path is set
  dlArchive,  \* the file at the job's path: "none", "partial", "whole"
  dlPack,     \* pack_download_job: step, units written, whether its file is still linked
  dlDelete,   \* delete_download: step
  expired,    \* jobs older than DOWNLOAD_RETENTION_DAYS
  crossed,    \* history: jobs deleted while their task had not ended
  packFaults,
  sweep,      \* cleanup_expired_downloads: jobs whose rows it has yet to delete
  stripped,   \* history: jobs whose deletion came as far as the archive
  stuck       \* history: jobs whose archive could not be removed

historyVars == <<crossed, stripped, stuck>>
deletionVars == <<dlDelete, expired, sweep, historyVars>>
downloadVars == <<dlRow, dlArchive, dlPack, deletionVars, packFaults>>

NoRow == [status |-> "none", path |-> FALSE]
PackPc == {"none", "queued", "open", "unit", "close", "complete", "except", "ended", "dead"}
PackRunning == {"open", "unit", "close", "complete", "except"}

Init ==
  /\ dlRow = [d \in Download |-> NoRow]
  /\ dlArchive = [d \in Download |-> "none"]
  /\ dlPack = [d \in Download |-> [pc |-> "none", units |-> 0, linked |-> FALSE]]
  /\ dlDelete = [d \in Download |-> "none"]
  /\ expired = {} /\ sweep = {} /\ packFaults = 0
  /\ crossed = {} /\ stripped = {} /\ stuck = {}

PackFault == packFaults < MaxPackFaults /\ packFaults' = packFaults + 1

PackGoto(d, pc) == dlPack' = [dlPack EXCEPT ![d].pc = pc]

\* The file goes; a pack that has it open writes into nothing.
Unlinked(ds) ==
  /\ dlArchive' = [d \in Download |-> IF d \in ds THEN "none" ELSE dlArchive[d]]
  /\ dlPack' = [d \in Download |-> IF d \in ds THEN [dlPack[d] EXCEPT !.linked = FALSE]
                                   ELSE dlPack[d]]

---------------------------------------------------------------------------
\* queue_download: the row is committed before the task is sent.
QueueDownload(d) ==
  /\ dlRow[d].status = "none" /\ dlPack[d].pc = "none"
  /\ dlRow' = [dlRow EXCEPT ![d] = [status |-> "pending", path |-> FALSE]]
  /\ \/ PackGoto(d, "queued") /\ UNCHANGED packFaults
     \/ PackFault /\ PackGoto(d, "ended")              \* delay raises
  /\ UNCHANGED <<dlArchive, deletionVars>>

\* Mutant: the path is recorded with the result only.
StartPackUntracked(d) ==
  /\ dlPack[d].pc = "queued"
  /\ IF dlRow[d].status = "none" THEN PackGoto(d, "ended") /\ UNCHANGED <<dlRow, packFaults>>
     ELSE \/ /\ dlRow' = [dlRow EXCEPT ![d].status = "packing"]
             /\ PackGoto(d, "open") /\ UNCHANGED packFaults
          \/ /\ dlRow' = [dlRow EXCEPT ![d].status = "failed"]
             /\ PackFault /\ PackGoto(d, "ended")
  /\ UNCHANGED <<dlArchive, deletionVars>>

\* The job and its library are looked up; the destination is recorded before
\* anything is written to it.
StartPack(d) ==
  /\ dlPack[d].pc = "queued"
  /\ IF dlRow[d].status = "none" THEN PackGoto(d, "ended") /\ UNCHANGED <<dlRow, packFaults>>
     ELSE \/ /\ dlRow' = [dlRow EXCEPT ![d] = [status |-> "packing", path |-> TRUE]]
             /\ PackGoto(d, "open") /\ UNCHANGED packFaults
          \/ /\ dlRow' = [dlRow EXCEPT ![d].status = "failed"]
             /\ PackFault /\ PackGoto(d, "ended")      \* no library, no database
  /\ UNCHANGED <<dlArchive, deletionVars>>

OpenArchive(d) ==
  /\ dlPack[d].pc = "open"
  /\ dlArchive' = [dlArchive EXCEPT ![d] = "partial"]
  /\ dlPack' = [dlPack EXCEPT ![d].pc = "unit", ![d].linked = TRUE]
  /\ UNCHANGED <<dlRow, deletionVars, packFaults>>

\* An album or a title, skipped or written, and the commit of the progress: it
\* fails when the row is gone.
PackUnit(d) ==
  /\ dlPack[d].pc = "unit"
  /\ IF dlRow[d].status = "none" THEN PackGoto(d, "except")
     ELSE dlPack' = [dlPack EXCEPT ![d].units = @ + 1,
                                   ![d].pc = IF dlPack[d].units + 1 = Units THEN "close" ELSE "unit"]
  /\ UNCHANGED <<dlRow, dlArchive, deletionVars, packFaults>>

\* The archive gets its directory. Without any file in it, it is removed again;
\* when its file is gone its size cannot be read.
ClosePack(d) ==
  /\ dlPack[d].pc = "close"
  /\ \/ /\ dlPack[d].linked
        /\ dlArchive' = [dlArchive EXCEPT ![d] = "whole"]
        /\ PackGoto(d, "complete")
     \/ /\ dlArchive' = [dlArchive EXCEPT ![d] = "none"]
        /\ dlPack' = [dlPack EXCEPT ![d].pc = "except", ![d].linked = FALSE]
  /\ UNCHANGED <<dlRow, deletionVars, packFaults>>

CompletePack(d) ==
  /\ dlPack[d].pc = "complete"
  /\ IF dlRow[d].status = "none" THEN PackGoto(d, "except") /\ UNCHANGED dlRow
     ELSE /\ dlRow' = [dlRow EXCEPT ![d] = [status |-> "completed", path |-> TRUE]]
          /\ PackGoto(d, "ended")
  /\ UNCHANGED <<dlArchive, deletionVars, packFaults>>

\* A file that cannot be written, the soft time limit, a commit that fails.
RaisePack(d) ==
  /\ dlPack[d].pc \in {"open", "unit", "close", "complete"} /\ PackFault
  /\ PackGoto(d, "except")
  /\ UNCHANGED <<dlRow, dlArchive, deletionVars>>

\* The exception handler: the job has failed, unless its row is gone or the
\* session is broken by the commit that failed.
FailPack(d) ==
  /\ dlPack[d].pc = "except"
  /\ \/ /\ dlRow' = [dlRow EXCEPT ![d].status = IF @ = "none" THEN @ ELSE "failed"]
        /\ UNCHANGED packFaults
     \/ PackFault /\ UNCHANGED dlRow
  /\ PackGoto(d, "ended")
  /\ UNCHANGED <<dlArchive, deletionVars>>

\* The worker is killed, or the hard time limit strikes.
KillPack(d) ==
  /\ dlPack[d].pc \in PackRunning /\ PackFault
  /\ PackGoto(d, "dead")
  /\ UNCHANGED <<dlRow, dlArchive, deletionVars>>

---------------------------------------------------------------------------
AtWork(d) == dlPack[d].pc \in PackRunning \cup {"queued"}

\* The archives that are on record are removed; a removal that fails is logged
\* and no more.
RemoveArchives(ds) ==
  \E fails \in SUBSET {d \in ds : dlRow[d].path /\ dlArchive[d] # "none"} :
    /\ IF fails = {} THEN UNCHANGED packFaults ELSE PackFault
    /\ Unlinked({d \in ds : dlRow[d].path} \ fails)
    /\ crossed' = crossed \cup {d \in ds : AtWork(d)}
    /\ stripped' = stripped \cup ds
    /\ stuck' = stuck \cup fails

\* delete_download: the archive of the path it read, then the row. Without its
\* commit the row stays, and can be deleted again.
DeleteArchive(d) ==
  /\ dlDelete[d] = "none" /\ dlRow[d].status # "none"
  /\ dlDelete' = [dlDelete EXCEPT ![d] = "row"]
  /\ RemoveArchives({d})
  /\ UNCHANGED <<dlRow, expired, sweep>>

DeleteRow(d) ==
  /\ dlDelete[d] = "row"
  /\ \/ /\ dlDelete' = [dlDelete EXCEPT ![d] = "done"]
        /\ dlRow' = [dlRow EXCEPT ![d] = NoRow]
        /\ UNCHANGED packFaults
     \/ /\ dlDelete' = [dlDelete EXCEPT ![d] = "none"]
        /\ PackFault /\ UNCHANGED dlRow
  /\ UNCHANGED <<dlArchive, dlPack, expired, sweep, historyVars>>

Expire(d) ==
  /\ dlRow[d].status # "none" /\ d \notin expired
  /\ expired' = expired \cup {d}
  /\ UNCHANGED <<dlRow, dlArchive, dlPack, dlDelete, sweep, historyVars, packFaults>>

\* cleanup_expired_downloads: the archives of whatever has expired, finished or
\* not, one run at a time; then one commit for all their rows, without which
\* the rows stay.
CleanUpExpired ==
  LET due == {d \in expired : dlRow[d].status # "none"} IN
  /\ sweep = {} /\ due # {}
  /\ sweep' = due
  /\ RemoveArchives(due)
  /\ UNCHANGED <<dlRow, dlDelete, expired>>

CommitCleanUp ==
  /\ sweep # {} /\ sweep' = {}
  /\ \/ /\ dlRow' = [d \in Download |-> IF d \in sweep THEN NoRow ELSE dlRow[d]]
        /\ UNCHANGED packFaults
     \/ PackFault /\ UNCHANGED dlRow
  /\ UNCHANGED <<dlArchive, dlPack, dlDelete, expired, historyVars>>

\* download_zip: what the client gets.
Fetch(d) ==
  CASE dlRow[d].status = "none" -> 404
    [] dlRow[d].status \notin {"none", "completed"} -> 409
    [] OTHER -> IF dlArchive[d] = "none" THEN 410 ELSE 200

---------------------------------------------------------------------------
Next ==
  \/ \E d \in Download :
       \/ QueueDownload(d) \/ StartPack(d) \/ OpenArchive(d) \/ PackUnit(d) \/ ClosePack(d)
       \/ CompletePack(d) \/ RaisePack(d) \/ FailPack(d) \/ KillPack(d)
       \/ DeleteArchive(d) \/ DeleteRow(d) \/ Expire(d)
  \/ CleanUpExpired \/ CommitCleanUp

Spec == Init /\ [][Next]_downloadVars

\* Every variable keeps the type its comment gives.
TypeOK ==
  /\ dlRow \in [Download -> [status : {"none", "pending", "packing", "completed", "failed"},
                             path : BOOLEAN]]
  /\ dlArchive \in [Download -> {"none", "partial", "whole"}]
  /\ dlPack \in [Download -> [pc : PackPc, units : 0 .. Units, linked : BOOLEAN]]
  /\ dlDelete \in [Download -> {"none", "row", "done"}]
  /\ expired \subseteq Download /\ sweep \subseteq Download /\ crossed \subseteq Download
  /\ stripped \subseteq Download /\ stuck \subseteq Download
  /\ packFaults \in 0 .. MaxPackFaults

(***************************************************************************)
(* What the Download Center offers can be fetched whole (download_zip      *)
(* answers 200 and never with a part of an archive) until its deletion has *)
(* begun - one whose commit fails leaves a job that answers 410 - and no   *)
(* archive is left on disk that no row leads to, whatever step a pack      *)
(* fails or dies at. Two leaks are exempted: a job deleted or expired      *)
(* before its task opened the archive, and an archive that could not be    *)
(* removed, whose row goes all the same.                                   *)
(***************************************************************************)
DownloadsTracked ==
  \A d \in Download :
    /\ dlRow[d].status = "completed" /\ d \notin stripped => Fetch(d) = 200
    /\ Fetch(d) = 200 => dlArchive[d] = "whole"
    /\ dlArchive[d] # "none" /\ d \notin crossed \cup stuck => dlRow[d].path
---------------------------------------------------------------------------
(***************************************************************************)
(* Why it holds: a job that no deletion crossed has its path on record     *)
(* from before its archive is opened until the archive is removed, and the *)
(* file a pack finishes is whole as long as nobody removed it.             *)
(***************************************************************************)
\* What is known of a job before its task has written all of it, and once its
\* row is gone.
Untouched(d) ==
  /\ dlPack[d].pc = "none" =>
       dlRow[d] = NoRow /\ dlArchive[d] = "none" /\ dlDelete[d] = "none" /\ d \notin stripped
  /\ dlPack[d].pc = "queued" => ~dlRow[d].path /\ dlRow[d].status \in {"none", "pending"}
  /\ dlPack[d].pc \in {"queued", "open"} => dlArchive[d] = "none"
  /\ dlPack[d].pc \in {"none", "queued", "open", "unit"} => dlPack[d].units < Units
  /\ dlRow[d].status = "none" => dlRow[d] = NoRow
  /\ dlDelete[d] = "done" => dlRow[d].status = "none"
  /\ dlDelete[d] # "none" \/ d \in sweep => d \in stripped

\* A task at work on a job that is still there has recorded the path, and the
\* row says so; a deletion of a job whose task has ended leaves no archive
\* unless it cannot be removed.
PathRecorded(d) ==
  /\ dlPack[d].pc \in PackRunning /\ dlRow[d].status # "none" =>
       dlRow[d].status = "packing" /\ dlRow[d].path
  /\ d \notin crossed /\ dlPack[d].pc \in PackRunning => dlRow[d].status # "none"
  /\ d \in stripped \ crossed => ~AtWork(d) /\ (d \in stuck \/ dlArchive[d] = "none")
  /\ dlArchive[d] # "none" /\ d \notin crossed \cup stuck => dlRow[d].path

\* The archive a task writes, has closed, and has offered.
ArchiveWhole(d) ==
  /\ dlPack[d].linked => dlArchive[d] # "none"
  /\ dlPack[d].pc = "complete" =>
       /\ dlArchive[d] # "partial"
       /\ dlRow[d].status # "none" /\ d \notin stripped => dlArchive[d] = "whole"
  /\ dlRow[d].status = "completed" =>
       /\ dlPack[d].pc = "ended" /\ dlRow[d].path /\ dlArchive[d] # "partial"
       /\ d \notin stripped => dlArchive[d] = "whole"

JobInv(d) == Untouched(d) /\ PathRecorded(d) /\ ArchiveWhole(d)

DownloadInv == TypeOK /\ \A d \in Download : JobInv(d)
=============================================================================
