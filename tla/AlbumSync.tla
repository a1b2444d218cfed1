------------------------------ MODULE AlbumSync ------------------------------
(***************************************************************************)
(* A tag edit of library items and the job that follows it: the request    *)
(* writes the tags into the files and dispatches beets_update_albums,      *)
(* which runs `beet update` and a resumable `beet move` for each album     *)
(* name and reports every album through one JSON field in Redis.           *)
(*                                                                         *)
(* Albums are named, moves go by album id: a name is resolved to one album *)
(* before its files may give it another name.                              *)
(***************************************************************************)
EXTENDS Integers, FiniteSets

CONSTANTS
  Album,          \* albums of the library
  Name,           \* album names, in the order of the batch: 1 .. n
  AlbumsOf,       \* [Name -> SUBSET Album]: the albums with that name before the edit
  Files,          \* files of an album
  MoveAttempts,   \* _MOVE_MAX_ATTEMPTS
  MaxSyncFaults   \* bound: pretend runs, lookups and dispatches that fail

VARIABLES
  written,    \* files of each album whose tags the request rewrote
  misplaced,  \* files of each album that are not where the database wants them
  renamed,    \* the edit changes the name of the albums
  syncJob,    \* Redis batch_update:{job}: status and albums
  syncTask,   \* beets_update_albums: step, album at work, locals of _move_album_files
  results,    \* the task's own result of each album
  counted,    \* the albums behind albums_succeeded and albums_failed
  uncounted,  \* history: albums reported after a count that failed
  softLimit,  \* the soft time limit of the task: "ahead", "handled", "swallowed", "uncaught"
  syncFaults

syncVars == <<written, misplaced, renamed, syncJob, syncTask, results, counted, uncounted,
              softLimit, syncFaults>>

Unknown == -1   \* a count that could not be determined
NoAlbum == "no album"

AlbumStatus == {"none", "pending", "success", "failed"}
SyncPc == {"write", "dispatch", "resolve", "start", "update", "cover", "count", "move", "timedOut",
           "verify", "relocate", "report", "abort", "final", "done", "refused", "dead"}

Init ==
  /\ written = [a \in Album |-> 0]
  /\ misplaced = [a \in Album |-> 0]
  /\ renamed \in BOOLEAN
  /\ syncJob = [status |-> "none", albums |-> [n \in Name |-> "none"]]
  /\ syncTask = [pc |-> "write", at |-> 1, target |-> [n \in Name |-> NoAlbum],
                 pending |-> 0, attempt |-> 1]
  /\ results = [n \in Name |-> "none"]
  /\ counted = [succeeded |-> {}, failed |-> {}]
  /\ uncounted = {} /\ softLimit = "ahead" /\ syncFaults = 0

SyncFault == syncFaults < MaxSyncFaults /\ syncFaults' = syncFaults + 1

SyncGoto(pc) == syncTask' = [syncTask EXCEPT !.pc = pc]

---------------------------------------------------------------------------
(***************************************************************************)
(* The request: batch_update_library_items                                 *)
(***************************************************************************)

\* One file after the other; a file that cannot be written is reported to the
\* client and the others go on. Without a single success nothing is synced.
WriteTags ==
  /\ syncTask.pc = "write"
  /\ \E w \in [Album -> 0 .. Files] :
       /\ written' = w
       /\ SyncGoto(IF \E a \in Album : w[a] > 0 THEN "dispatch" ELSE "done")
  /\ UNCHANGED <<misplaced, renamed, syncJob, results, counted, uncounted, softLimit, syncFaults>>

\* The job is pending before the task is sent.
DispatchSync ==
  /\ syncTask.pc = "dispatch"
  /\ syncJob' = [status |-> "pending", albums |-> [n \in Name |-> "pending"]]
  /\ \/ SyncGoto("resolve") /\ UNCHANGED syncFaults
     \/ SyncFault /\ SyncGoto("refused")
  /\ UNCHANGED <<written, misplaced, renamed, results, counted, uncounted, softLimit>>

---------------------------------------------------------------------------
(***************************************************************************)
(* The task: names, `beet update`                                          *)
(***************************************************************************)

\* SELECT ... LIMIT 1: any one album of the name. A lookup that fails leaves
\* the remaining names without an id.
ResolveAlbums ==
  /\ syncTask.pc = "resolve"
  /\ \E known \in {1 .. n : n \in Name \cup {0}} :
       /\ IF known = Name THEN UNCHANGED syncFaults ELSE SyncFault
       /\ \E target \in [Name -> Album \cup {NoAlbum}] :
            /\ \A n \in Name : IF n \in known /\ AlbumsOf[n] # {} THEN target[n] \in AlbumsOf[n]
                               ELSE target[n] = NoAlbum
            /\ syncTask' = [syncTask EXCEPT !.pc = "start", !.target = target]
  /\ UNCHANGED <<written, misplaced, renamed, syncJob, results, counted, uncounted, softLimit>>

StartSync ==
  /\ syncTask.pc = "start"
  /\ syncJob' = [status |-> "running", albums |-> [n \in Name |-> "pending"]]
  /\ SyncGoto("update")
  /\ UNCHANGED <<written, misplaced, renamed, results, counted, uncounted, softLimit, syncFaults>>

\* The album at work has failed: it is counted and gets its result.  (A limit
\* between the two counts it once more, and only whether the count is 0 is asked.)
ConcludeFailed ==
  /\ results' = [results EXCEPT ![syncTask.at] = "failed"]
  /\ counted' = [counted EXCEPT !.failed = @ \cup {syncTask.at}]
  /\ SyncGoto("report")

\* All albums of the name take over the tags of their files.
UpdateAlbum ==
  /\ syncTask.pc = "update"
  /\ misplaced' = [a \in Album |-> IF a \in AlbumsOf[syncTask.at] THEN written[a] ELSE misplaced[a]]
  /\ SyncGoto(IF syncTask.target[syncTask.at] # NoAlbum THEN "cover" ELSE "count")
  /\ UNCHANGED <<written, renamed, syncJob, results, counted, uncounted, softLimit, syncFaults>>

\* A non-zero exit, a timeout or an exception.
UpdateAlbumFails ==
  /\ syncTask.pc = "update" /\ SyncFault
  /\ ConcludeFailed
  /\ UNCHANGED <<written, misplaced, renamed, syncJob, uncounted, softLimit>>

\* get_album_cover_path_with_fallback; whatever it raises is logged.
FindCover ==
  /\ syncTask.pc = "cover"
  /\ SyncGoto("count")
  /\ UNCHANGED <<written, misplaced, renamed, syncJob, results, counted, uncounted, softLimit,
                 syncFaults>>

---------------------------------------------------------------------------
(***************************************************************************)
(* _move_album_files                                                       *)
(***************************************************************************)

\* The albums the query of `beet move` matches: by id, or by a name that may
\* be gone.
MoveTargets ==
  IF syncTask.target[syncTask.at] # NoAlbum THEN {syncTask.target[syncTask.at]}
  ELSE IF renamed THEN {} ELSE AlbumsOf[syncTask.at]

MisplacedFiles(albums) ==
  Cardinality({file \in albums \X (1 .. Files) : file[2] <= misplaced[file[1]]})

\* `beet move --pretend`: the number of files to move, or Unknown.
CountPending(c) ==
  \/ c = MisplacedFiles(MoveTargets) /\ UNCHANGED <<syncFaults, uncounted>>
  \/ c = Unknown /\ SyncFault /\ uncounted' = uncounted \cup {syncTask.at}

\* The move is a success: it is counted before the cover is seen to, and the
\* album gets its result after that.
MoveSucceeds ==
  /\ counted' = [counted EXCEPT !.succeeded = @ \cup {syncTask.at}]
  /\ SyncGoto("relocate")
  /\ UNCHANGED results

Count ==
  /\ syncTask.pc = "count"
  /\ \E c \in {MisplacedFiles(MoveTargets), Unknown} :
       /\ CountPending(c)
       /\ IF c = 0 THEN MoveSucceeds
          ELSE /\ syncTask' = [syncTask EXCEPT !.pc = "move", !.pending = c, !.attempt = 1]
               /\ UNCHANGED <<results, counted>>
  /\ UNCHANGED <<written, misplaced, renamed, syncJob, softLimit>>

\* Files leave their old place one by one: any part of them has moved when the
\* command ends.
Moved(after) == \A a \in Album : IF a \in MoveTargets THEN after[a] \in 0 .. misplaced[a]
                                 ELSE after[a] = misplaced[a]

RunMove ==
  /\ syncTask.pc = "move"
  /\ \E after \in [Album -> 0 .. Files] :
       /\ Moved(after)
       /\ misplaced' = after
  /\ \/ SyncGoto("verify") /\ UNCHANGED <<results, counted>>       \* exit status 0
     \/ SyncGoto("timedOut") /\ UNCHANGED <<results, counted>>
     \/ ConcludeFailed                                 \* another exit status, an exception
  /\ UNCHANGED <<written, renamed, syncJob, uncounted, softLimit, syncFaults>>

\* Another attempt only after progress, and only MoveAttempts of them.
ResumeAfterTimeout ==
  /\ syncTask.pc = "timedOut"
  /\ \E c \in {MisplacedFiles(MoveTargets), Unknown} :
       /\ CountPending(c)
       /\ \/ c = 0 /\ MoveSucceeds
          \/ /\ c \notin {0, Unknown} /\ syncTask.pending # Unknown /\ c < syncTask.pending
             /\ syncTask.attempt < MoveAttempts
             /\ syncTask' = [syncTask EXCEPT !.pc = "move", !.pending = c, !.attempt = @ + 1]
             /\ UNCHANGED <<results, counted>>
          \/ /\ c # 0
             /\ \/ c = Unknown \/ syncTask.pending = Unknown \/ c >= syncTask.pending
                \/ syncTask.attempt = MoveAttempts
             /\ ConcludeFailed
  /\ UNCHANGED <<written, misplaced, renamed, syncJob, softLimit>>

\* Mutant: the exit status of `beet move` is believed.
VerifyNothing ==
  /\ syncTask.pc = "verify"
  /\ MoveSucceeds
  /\ UNCHANGED <<written, misplaced, renamed, syncJob, uncounted, softLimit, syncFaults>>

\* A final count that fails counts as success.
VerifyMove ==
  /\ syncTask.pc = "verify"
  /\ \E c \in {MisplacedFiles(MoveTargets), Unknown} :
       /\ CountPending(c)
       /\ IF c \in {0, Unknown} THEN MoveSucceeds ELSE ConcludeFailed
  /\ UNCHANGED <<written, misplaced, renamed, syncJob, softLimit>>

RelocateCover ==
  /\ syncTask.pc = "relocate"
  /\ results' = [results EXCEPT ![syncTask.at] = "success"]
  /\ SyncGoto("report")
  /\ UNCHANGED <<written, misplaced, renamed, syncJob, counted, uncounted, softLimit, syncFaults>>

---------------------------------------------------------------------------
(***************************************************************************)
(* Reports                                                                 *)
(***************************************************************************)

\* update_batch_update_album_status: read, change and write the albums field.
ReportAlbum ==
  /\ syncTask.pc = "report"
  /\ syncJob' = [syncJob EXCEPT !.albums[syncTask.at] = results[syncTask.at]]
  /\ syncTask' = [syncTask EXCEPT !.pc = IF syncTask.at + 1 \in Name THEN "update" ELSE "final",
                                  !.at = IF @ + 1 \in Name THEN @ + 1 ELSE @]
  /\ UNCHANGED <<written, misplaced, renamed, results, counted, uncounted, softLimit, syncFaults>>

\* Celery raises SoftTimeLimitExceeded wherever the task is. The two cover
\* blocks catch every exception, which the statements around them do not; after
\* the loop nothing does.
SoftTimeLimit ==
  /\ softLimit = "ahead"
  /\ \/ /\ syncTask.pc \in {"cover", "relocate"} /\ syncTask.target[syncTask.at] # NoAlbum
        /\ softLimit' = "swallowed" /\ UNCHANGED syncTask
     \/ /\ syncTask.pc \in {"update", "cover", "count", "move", "timedOut", "verify", "relocate",
                            "report"}
        /\ softLimit' = "handled" /\ SyncGoto("abort")
     \/ syncTask.pc = "final" /\ softLimit' = "uncaught" /\ SyncGoto("dead")
  /\ UNCHANGED <<written, misplaced, renamed, syncJob, results, counted, uncounted, syncFaults>>

\* except SoftTimeLimitExceeded: every album without a result has failed, and is
\* counted so, the one whose success was counted already too.
AbortSync ==
  /\ syncTask.pc = "abort"
  /\ LET unfinished == {n \in Name : results[n] = "none"} IN
     /\ results' = [n \in Name |-> IF n \in unfinished THEN "failed" ELSE results[n]]
     /\ counted' = [counted EXCEPT !.failed = @ \cup unfinished]
     /\ syncJob' = [syncJob EXCEPT !.albums =
                      [n \in Name |-> IF n \in unfinished THEN "failed" ELSE syncJob.albums[n]]]
  /\ SyncGoto("final")
  /\ UNCHANGED <<written, misplaced, renamed, uncounted, softLimit, syncFaults>>

Overall ==
  IF counted.failed = {} THEN "completed"
  ELSE IF counted.succeeded = {} THEN "failed" ELSE "partial"

FinishSync ==
  /\ syncTask.pc = "final"
  /\ syncJob' = [status |-> Overall,
                 albums |-> [n \in Name |-> IF results[n] = "none" THEN "pending" ELSE results[n]]]
  /\ SyncGoto("done")
  /\ UNCHANGED <<written, misplaced, renamed, results, counted, uncounted, softLimit, syncFaults>>

\* 300 seconds after a soft limit that nobody acted on; the handler's own
\* writes take less.
HardTimeLimit ==
  /\ softLimit = "swallowed" /\ syncTask.pc \notin {"done", "refused", "dead"}
  /\ SyncGoto("dead")
  /\ UNCHANGED <<written, misplaced, renamed, syncJob, results, counted, uncounted, softLimit,
                 syncFaults>>

\* get_batch_update_status: what the client polls.
ReportedStatus == IF syncJob.status = "partial" THEN "completed" ELSE syncJob.status

---------------------------------------------------------------------------
Next ==
  \/ WriteTags \/ DispatchSync \/ ResolveAlbums \/ StartSync
  \/ UpdateAlbum \/ UpdateAlbumFails \/ FindCover
  \/ Count \/ RunMove \/ ResumeAfterTimeout \/ VerifyMove \/ RelocateCover
  \/ ReportAlbum \/ AbortSync \/ FinishSync
  \/ SoftTimeLimit \/ HardTimeLimit

Spec == Init /\ [][Next]_syncVars

\* Every variable keeps the type its comment gives.
TypeOK ==
  /\ written \in [Album -> 0 .. Files] /\ misplaced \in [Album -> 0 .. Files]
  /\ renamed \in BOOLEAN
  /\ syncJob \in [status : {"none", "pending", "running", "completed", "failed", "partial"},
                  albums : [Name -> AlbumStatus]]
  /\ syncTask \in [pc : SyncPc, at : Name, target : [Name -> Album \cup {NoAlbum}],
                   pending : Nat \cup {Unknown}, attempt : 1 .. MoveAttempts]
  /\ results \in [Name -> {"none", "success", "failed"}]
  /\ counted \in [succeeded : SUBSET Name, failed : SUBSET Name]
  /\ uncounted \subseteq Name /\ softLimit \in {"ahead", "handled", "swallowed", "uncaught"}
  /\ syncFaults \in 0 .. MaxSyncFaults

(***************************************************************************)
(* An album reported as a success lies in one place: all its files have    *)
(* moved, however many attempts, timeouts and partial moves it took. The   *)
(* exceptions are the ones the code makes knowingly (a count that failed)  *)
(* or not (a name of two albums, of which LIMIT 1 moves one).              *)
(***************************************************************************)
MovedWhenReported ==
  \A n \in Name :
    syncJob.albums[n] = "success" /\ n \notin uncounted /\ syncTask.target[n] # NoAlbum =>
      misplaced[syncTask.target[n]] = 0

(***************************************************************************)
(* The final status of a job is the sum of what it says of its albums: no  *)
(* album stays pending, a completed job has only successes and a failed    *)
(* one none, even when the soft time limit cut it short. The one exception *)
(* is a limit that struck between the count of a success and its result:   *)
(* the album is counted both ways, and the job is partial, which the       *)
(* client reads as completed, although every album of it may have failed.  *)
(***************************************************************************)
SumOf(albums) ==
  IF \A n \in Name : albums[n] = "success" THEN "completed"
  ELSE IF \A n \in Name : albums[n] = "failed" THEN "failed" ELSE "partial"

CountedTwice == counted.succeeded \cap counted.failed # {}

SyncSummaryHonest ==
  syncJob.status \in {"completed", "failed", "partial"} =>
    /\ \A n \in Name : syncJob.albums[n] \in {"success", "failed"}
    /\ \/ syncJob.status = SumOf(syncJob.albums)
       \/ CountedTwice /\ syncJob.status = "partial" /\ SumOf(syncJob.albums) = "failed"
    /\ ~ CountedTwice =>
         (ReportedStatus = "completed" <=> \E n \in Name : syncJob.albums[n] = "success")

(***************************************************************************)
(* beets_tasks.py, on the soft time limit: "write an honest final state so *)
(* the job never sticks in "running" with albums half-synced". The code    *)
(* does not keep it when the limit strikes inside a cover block, or after  *)
(* the last album.                                                         *)
(***************************************************************************)
NeverStuckRunning == syncTask.pc = "dead" => syncJob.status # "running"

---------------------------------------------------------------------------
(***************************************************************************)
(* The inductive invariant of the job                                      *)
(***************************************************************************)

\* Nothing of the album n is left where it does not belong, but for the
\* exceptions.
MovedBut(n) ==
  n \notin uncounted /\ syncTask.target[n] # NoAlbum => misplaced[syncTask.target[n]] = 0

\* A target has the name it was resolved from.
TargetsNamed == \A n \in Name : syncTask.target[n] \in AlbumsOf[n] \cup {NoAlbum}

\* The albums get their results in turn, each before its report.
ResultsInTurn ==
  /\ syncTask.pc \in {"write", "dispatch", "resolve"} => syncTask.at = 1
  /\ syncTask.pc \notin {"abort", "final", "done", "dead"} =>
       \A n \in Name :
         results[n] # "none" <=> n < syncTask.at \/ (n = syncTask.at /\ syncTask.pc = "report")
  /\ syncTask.pc = "final" => \A n \in Name : results[n] # "none"

\* A success is reported of an album that has moved.
SuccessMoved ==
  /\ \A n \in Name : /\ results[n] = "success" => MovedBut(n)
                     /\ syncJob.albums[n] = "success" => results[n] = "success"
  /\ syncTask.pc = "relocate" => MovedBut(syncTask.at)

\* Who has a result was counted for it, and a success before that.
CountedByResult ==
  /\ \A n \in Name : /\ results[n] = "failed" <=> n \in counted.failed
                     /\ results[n] = "success" => n \in counted.succeeded
  /\ syncTask.pc = "relocate" => syncTask.at \in counted.succeeded

\* Only the end of the task gives the job its final status.
FinalAtEnd == syncJob.status \in {"completed", "failed", "partial"} => syncTask.pc = "done"

SyncInv ==
  /\ TypeOK /\ TargetsNamed /\ ResultsInTurn /\ SuccessMoved /\ CountedByResult
  /\ FinalAtEnd /\ SyncSummaryHonest

=============================================================================
