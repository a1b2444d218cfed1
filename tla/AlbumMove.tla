----------------------------- MODULE AlbumMove -----------------------------
(***************************************************************************)
(* The move of one album from a source library to a target library, and    *)
(* its deletion.                                                           *)
(*                                                                         *)
(* A move works on a folder and on two beets databases without a           *)
(* transaction around the three; an exception is answered by a rollback,   *)
(* each half of which can fail, a killed worker by nothing.  The delete    *)
(* request works on the same folder and the source database, and no lock   *)
(* keeps it, or a second move, away.                                       *)
(***************************************************************************)
EXTENDS Naturals

CONSTANTS
  Task,         \* move_album_task messages that may be sent
  MaxMoveFaults \* bound on exceptions and killed workers

VARIABLES
  shared,   \* another album of the source library has tracks in the folder
  oneDisk,  \* both libraries lie in one file system
  folder,   \* what each place holds of the album's folder
  srcRow,   \* the source database has the album's rows
  tgtRows,  \* the tasks whose rows the target database has
  mover,    \* the move tasks: step, moved_files, new_album_id, copies into the inner place
  del,      \* the DELETE request: step and mode
  mishaps,  \* exceptions and killed workers so far
  late,     \* history: a fault hit where the rollback is not complete, or a move
            \* went into a target another had created since the check
  stayed    \* history: what a rollback that failed left in the target library

setting == <<shared, oneDisk>>
history == <<late, stayed>>
moveVars == <<setting, folder, srcRow, tgtRows, mover, del, mishaps, history>>

\* "inner" is the folder's name once more, inside the target folder.
Place == {"source", "target", "inner", "import"}

Holds == {"none", "part", "full"}

Mode == {"delete_files", "move_to_import", "detach"}

MoverPc == {"unsent", "sent", "checked", "free", "copying", "removing", "register",
            "album", "delete", "prune", "rollback", "restore", "completed", "failed", "killed"}

DelPc == {"idle", "rows", "file", "deleted", "refused", "failed"}

Mover == [pc : MoverPc, moved : BOOLEAN, added : BOOLEAN, inner : BOOLEAN]

Init ==
  /\ shared \in BOOLEAN /\ oneDisk \in BOOLEAN
  /\ folder = [p \in Place |-> IF p = "source" THEN "full" ELSE "none"]
  /\ srcRow = TRUE
  /\ tgtRows = {}
  /\ mover = [t \in Task |-> [pc |-> "unsent", moved |-> FALSE, added |-> FALSE, inner |-> FALSE]]
  /\ del = [pc |-> "idle", mode |-> "detach"]
  /\ mishaps = 0
  /\ late = FALSE /\ stayed = {}

Goto(t, pc) == mover' = [mover EXCEPT ![t].pc = pc]

---------------------------------------------------------------------------
(***************************************************************************)
(* POST /albums/{album_id}/move and move_album_task                        *)
(***************************************************************************)

\* The pre-flight checks of the route: the album has tracks, the folder it
\* would get does not exist.
Request(t) ==
  /\ mover[t].pc = "unsent"
  /\ srcRow /\ folder["target"] = "none"
  /\ Goto(t, "sent")
  /\ UNCHANGED <<setting, folder, srcRow, tgtRows, del, mishaps, history>>

\* The album and its tracks are read; their common folder must be there and
\* hold no other album.
Check(t) ==
  /\ mover[t].pc = "sent"
  /\ Goto(t, IF srcRow /\ folder["source"] # "none" /\ ~ shared THEN "checked" ELSE "failed")
  /\ UNCHANGED <<setting, folder, srcRow, tgtRows, del, mishaps, history>>

\* The target folder must not exist.
SeeTargetFree(t) ==
  /\ mover[t].pc = "checked" /\ folder["target"] = "none"
  /\ Goto(t, "free")
  /\ UNCHANGED <<setting, folder, srcRow, tgtRows, del, mishaps, history>>

\* shutil.move goes into a target that was created since.
Destination == IF folder["target"] = "none" THEN "target" ELSE "inner"
CanMove == folder["source"] # "none" /\ folder[Destination] = "none"

\* shutil.move: within one file system that is a rename.
Rename(t) ==
  /\ mover[t].pc = "free" /\ oneDisk /\ CanMove
  /\ folder' = [folder EXCEPT ![Destination] = folder["source"], !["source"] = "none"]
  /\ mover' = [mover EXCEPT ![t].pc = "register", ![t].moved = TRUE]
  /\ late' = (late \/ Destination = "inner")
  /\ UNCHANGED <<setting, srcRow, tgtRows, del, mishaps, stayed>>

\* Between file systems it copies the tree and then removes the original.
BeginCopy(t) ==
  /\ mover[t].pc = "free" /\ ~ oneDisk /\ CanMove
  /\ folder' = [folder EXCEPT ![Destination] = "part"]
  /\ mover' = [mover EXCEPT ![t].pc = "copying", ![t].inner = (Destination = "inner")]
  /\ late' = (late \/ Destination = "inner")
  /\ UNCHANGED <<setting, srcRow, tgtRows, del, mishaps, stayed>>

CopyOf(t) == IF mover[t].inner THEN "inner" ELSE "target"

BeginRemove(t) ==
  /\ mover[t].pc = "copying" /\ folder["source"] # "none"
  /\ folder' = [folder EXCEPT ![CopyOf(t)] = folder["source"], !["source"] = "part"]
  /\ Goto(t, "removing")
  /\ UNCHANGED <<setting, srcRow, tgtRows, del, mishaps, history>>

FinishMove(t) ==
  /\ mover[t].pc = "removing" /\ folder["source"] # "none"
  /\ folder' = [folder EXCEPT !["source"] = "none"]
  /\ mover' = [mover EXCEPT ![t].pc = "register", ![t].moved = TRUE]
  /\ UNCHANGED <<setting, srcRow, tgtRows, del, mishaps, history>>

\* The target is taken, or the source has gone or is being taken away.
MoveRaises(t) ==
  /\ \/ mover[t].pc = "checked" /\ folder["target"] # "none"
     \/ mover[t].pc = "free" /\ ~ CanMove
     \/ /\ mover[t].pc \in {"copying", "removing"}
        /\ folder["source"] = "none" \/ \E u \in Task \ {t} : mover[u].pc = "removing"
  /\ Goto(t, "rollback")
  /\ UNCHANGED <<setting, folder, srcRow, tgtRows, del, mishaps, history>>

\* _add_moved_album_to_target_db adds the items one by one and then the album;
\* each is committed, but the caller has no id before it returns. It takes the
\* audio files that lie in the target folder itself, and raises without any.
AddItems(t) ==
  /\ mover[t].pc = "register"
  /\ \/ folder["target"] # "none" /\ Goto(t, "album") /\ tgtRows' = tgtRows \cup {t}
     \/ folder["target"] # "full" /\ Goto(t, "rollback") /\ UNCHANGED tgtRows
  /\ UNCHANGED <<setting, folder, srcRow, del, mishaps, history>>

\* The columns of the source album, the cover, and the return of its id.
StoreAlbum(t) ==
  /\ mover[t].pc = "album"
  /\ mover' = [mover EXCEPT ![t].pc = "delete", ![t].added = TRUE]
  /\ UNCHANGED <<setting, folder, srcRow, tgtRows, del, mishaps, history>>

\* Mutant: the source rows are left to a later clean-up.
DeleteSourceSkipped(t) ==
  /\ mover[t].pc = "delete"
  /\ Goto(t, "prune")
  /\ UNCHANGED <<setting, folder, srcRow, tgtRows, del, mishaps, history>>

DeleteSource(t) ==
  /\ mover[t].pc = "delete"
  /\ srcRow' = FALSE
  /\ Goto(t, "prune")
  /\ UNCHANGED <<setting, folder, tgtRows, del, mishaps, history>>

\* Empty parents are removed and the completion is recorded; both swallow
\* their own errors.
Complete(t) ==
  /\ mover[t].pc = "prune"
  /\ Goto(t, "completed")
  /\ UNCHANGED <<setting, folder, srcRow, tgtRows, del, mishaps, history>>

\* An exception in the try block: the soft time limit, a locked database, a
\* full disk.  It is late when the target has rows nobody knows the id of,
\* when the source rows are gone, or within the removal of the original.
Raise(t) ==
  /\ mover[t].pc \in MoverPc \ {"unsent", "rollback", "restore", "completed", "failed", "killed"}
  /\ mishaps < MaxMoveFaults
  /\ mishaps' = mishaps + 1
  /\ late' = (late \/ mover[t].pc \in {"copying", "removing", "album", "prune"})
  /\ Goto(t, "rollback")
  /\ UNCHANGED <<setting, folder, srcRow, tgtRows, del, stayed>>

\* First half of the rollback: the target rows, if their id is known. When it
\* fails that is logged, and the second half follows all the same.
RollbackRows(t) ==
  /\ mover[t].pc = "rollback"
  /\ \/ /\ tgtRows' = IF mover[t].added THEN tgtRows \ {t} ELSE tgtRows
        /\ UNCHANGED <<mishaps, stayed>>
     \/ /\ mover[t].added /\ mishaps < MaxMoveFaults
        /\ mishaps' = mishaps + 1 /\ stayed' = stayed \cup {"rows"}
        /\ UNCHANGED tgtRows
  /\ Goto(t, "restore")
  /\ UNCHANGED <<setting, folder, srcRow, del, late>>

\* Second half: the folder, with all that lies in it, if it was moved and its
\* old place is free; nobody else creates that place.
CanRestore(t) == mover[t].moved /\ folder["target"] # "none" /\ folder["source"] = "none"

RollbackFolder(t) ==
  /\ mover[t].pc = "restore"
  /\ folder' = IF CanRestore(t)
               THEN [folder EXCEPT !["source"] = folder["target"], !["target"] = "none",
                                   !["inner"] = "none"]
               ELSE folder
  /\ Goto(t, "failed")
  /\ UNCHANGED <<setting, srcRow, tgtRows, del, mishaps, history>>

\* It fails, and that is logged: before anything has moved or, between file
\* systems, within the copy or the removal.
RollbackFolderFails(t) ==
  /\ mover[t].pc = "restore" /\ CanRestore(t) /\ mishaps < MaxMoveFaults
  /\ mishaps' = mishaps + 1 /\ stayed' = stayed \cup {"folder"}
  /\ \/ folder' = folder
     \/ ~ oneDisk /\ folder' = [folder EXCEPT !["source"] = "part"]
     \/ /\ ~ oneDisk
        /\ folder' = [folder EXCEPT !["source"] = folder["target"], !["target"] = "part"]
  /\ Goto(t, "failed")
  /\ UNCHANGED <<setting, srcRow, tgtRows, del, late>>

\* The hard time limit, or the death of the worker.
Kill(t) ==
  /\ mover[t].pc \in MoverPc \ {"unsent", "completed", "failed", "killed"}
  /\ mishaps < MaxMoveFaults
  /\ mishaps' = mishaps + 1
  /\ late' = (late \/ mover[t].pc \notin {"sent", "checked", "free"})
  /\ Goto(t, "killed")
  /\ UNCHANGED <<setting, folder, srcRow, tgtRows, del, stayed>>

---------------------------------------------------------------------------
(***************************************************************************)
(* DELETE /albums/{album_id}                                               *)
(***************************************************************************)

\* The guards, all before anything is deleted; detach has none on the folder.
DeleteRequest(mode) ==
  /\ del.pc = "idle"
  /\ LET allowed == /\ srcRow
                    /\ mode # "detach" => folder["source"] # "none" /\ ~ shared
                    /\ mode = "move_to_import" => folder["import"] = "none"
     IN del' = [pc |-> IF allowed THEN "rows" ELSE "refused", mode |-> mode]
  /\ UNCHANGED <<setting, folder, srcRow, tgtRows, mover, mishaps, history>>

DeleteRows ==
  /\ del.pc = "rows"
  /\ srcRow' = FALSE
  /\ del' = [del EXCEPT !.pc = IF del.mode = "detach" THEN "deleted" ELSE "file"]
  /\ UNCHANGED <<setting, folder, tgtRows, mover, mishaps, history>>

\* rmtree or shutil.move; the folder may have gone by now.
DeleteFiles ==
  /\ del.pc = "file"
  /\ folder' = IF del.mode = "delete_files" THEN [folder EXCEPT !["source"] = "none"]
               ELSE [folder EXCEPT !["import"] = folder["source"], !["source"] = "none"]
  /\ del' = [del EXCEPT !.pc = IF folder["source"] = "none" THEN "failed" ELSE "deleted"]
  /\ UNCHANGED <<setting, srcRow, tgtRows, mover, mishaps, history>>

\* The file operation raises half way: the rows are gone, answered 500.
DeleteFilesFails ==
  /\ del.pc = "file" /\ folder["source"] # "none" /\ mishaps < MaxMoveFaults
  /\ mishaps' = mishaps + 1
  /\ folder' = [folder EXCEPT !["source"] = "part"]
  /\ del' = [del EXCEPT !.pc = "failed"]
  /\ UNCHANGED <<setting, srcRow, tgtRows, mover, history>>

---------------------------------------------------------------------------
TaskStep(t) ==
  \/ Check(t) \/ SeeTargetFree(t) \/ Rename(t) \/ BeginCopy(t) \/ BeginRemove(t)
  \/ FinishMove(t) \/ MoveRaises(t) \/ AddItems(t) \/ StoreAlbum(t) \/ DeleteSource(t)
  \/ Complete(t) \/ RollbackRows(t) \/ RollbackFolder(t) \/ RollbackFolderFails(t)

Next ==
  \/ \E t \in Task : Request(t) \/ TaskStep(t) \/ Raise(t) \/ Kill(t)
  \/ \E mode \in Mode : DeleteRequest(mode)
  \/ DeleteRows \/ DeleteFiles \/ DeleteFilesFails

Spec == Init /\ [][Next]_moveVars

---------------------------------------------------------------------------
TypeOK ==
  /\ shared \in BOOLEAN /\ oneDisk \in BOOLEAN
  /\ folder \in [Place -> Holds]
  /\ srcRow \in BOOLEAN
  /\ tgtRows \subseteq Task
  /\ mover \in [Task -> Mover]
  /\ del \in [pc : DelPc, mode : Mode]
  /\ mishaps \in 0..MaxMoveFaults
  /\ late \in BOOLEAN /\ stayed \subseteq {"rows", "folder"}

\* Nobody is in the middle of an operation.
AtRest ==
  /\ \A t \in Task : mover[t].pc \in {"unsent", "completed", "failed", "killed"}
  /\ del.pc \notin {"rows", "file"}

\* However moves and a deletion interleave, a database that has the album has
\* its files too once all is over: no row points at a vanished folder.  When one
\* half of a rollback fails the other half is done all the same: rows that could
\* not be dropped leave the source library in order, a folder that could not be
\* moved back leaves no rows in the target.  The folder of two albums stays
\* where it is at every moment.
RowsHaveFiles ==
  /\ AtRest /\ ~ late => /\ srcRow /\ "folder" \notin stayed => folder["source"] = "full"
                         /\ tgtRows # {} /\ "rows" \notin stayed => folder["target"] # "none"
  /\ shared => folder["source"] = "full"

\* Without a deletion the album ends whole, in one of the two places, and unless
\* a rollback failed in exactly one library, with its rows: the one it was moved
\* to, or the one the rollback put it back in.
AlbumInOneLibrary ==
  AtRest /\ ~ late /\ del.pc \in {"idle", "refused"} =>
    /\ folder["source"] = "full" \/ folder["target"] = "full"
    /\ stayed = {} =>
         IF srcRow THEN folder["source"] = "full" /\ folder["target"] = "none" /\ tgtRows = {}
         ELSE /\ folder["target"] = "full" /\ folder["source"] = "none"
              /\ \E t \in Task : tgtRows = {t}

\* move_album_task: "Drop any rows we wrote to the target beets DB so we don't
\* leave dangling album/items [...] Move the album folder back to the source
\* library so the source DB still matches disk", without the exemption of late
\* exceptions (and without a deletion, or a worker that was killed).
FailedMoveUndone ==
  \A t \in Task :
    mover[t].pc = "failed" /\ AtRest /\ del.pc = "idle"
    /\ (\A u \in Task \ {t} : mover[u].pc = "unsent") =>
      srcRow /\ folder["source"] = "full" /\ tgtRows = {}

---------------------------------------------------------------------------
(***************************************************************************)
(* Why it is safe: a task owns the target folder from the moment it takes  *)
(* the free place until it is done or has put the folder back, there is    *)
(* never more than one owner, and its step says what both places hold.     *)
(***************************************************************************)

Owner(t) ==
  \/ mover[t].pc \in {"copying", "removing", "register", "album", "delete", "prune", "completed"}
  \/ mover[t].pc \in {"rollback", "restore"} /\ mover[t].moved

\* Never more than one owner, and none of a place that is free, or of one where
\* a rollback left the folder.
OneOwner ==
  ~ late => /\ \A t \in Task :
                 /\ Owner(t) => /\ folder["target"] # "none"
                                /\ \A u \in Task : Owner(u) => u = t
                 /\ ~ mover[t].inner
            /\ "folder" \in stayed => folder["target"] # "none" /\ \A t \in Task : ~ Owner(t)

\* moved_files and new_album_id, by the step that sets them.
MovedByStep ==
  \A t \in Task :
    /\ mover[t].moved <=> mover[t].pc \in {"register", "album", "delete", "prune", "completed"}
                          \/ /\ mover[t].moved
                             /\ mover[t].pc \in {"rollback", "restore", "failed", "killed"}
    /\ mover[t].pc \in {"delete", "prune"} => mover[t].added

\* The target database has rows of the owner, and the rollback knows them; and
\* rows a rollback could not drop.
RowsOfOwner ==
  ~ late => \A t \in Task :
    /\ t \in tgtRows /\ "rows" \notin stayed =>
         /\ Owner(t)
         /\ \/ mover[t].pc \in {"album", "delete", "prune", "completed"}
            \/ mover[t].pc = "rollback" /\ mover[t].added
    /\ mover[t].pc \in {"album", "delete", "prune", "completed"} => t \in tgtRows

\* While the source database has the album, its folder is where the owner's
\* step says, and without one in its old place unless it could not be put back;
\* then, without a deletion, one of the two places still has all of it.
FolderByOwner ==
  /\ srcRow /\ ~ late =>
       /\ (\A t \in Task : ~ Owner(t)) /\ "folder" \notin stayed =>
            folder["source"] = "full" /\ folder["target"] = "none"
       /\ \A t \in Task :
            /\ mover[t].pc \notin {"prune", "completed"}
            /\ mover[t].pc = "copying" => folder["source"] = "full" /\ folder["target"] = "part"
            /\ mover[t].pc = "removing" => folder["source"] = "part" /\ folder["target"] = "full"
            /\ Owner(t) /\ mover[t].moved => folder["source"] = "none" /\ folder["target"] = "full"
  /\ "folder" \in stayed /\ ~ late /\ del.pc \in {"idle", "refused"} =>
       folder["source"] = "full" \/ folder["target"] = "full"

\* Without a deletion the source rows go with a move that is past its last
\* doubt, and the target has all of the album.
MovedAway ==
  ~ srcRow /\ ~ late /\ del.pc \in {"idle", "refused"} =>
    /\ folder["target"] = "full" /\ folder["source"] = "none"
    /\ \E t \in Task : mover[t].pc \in {"prune", "completed"} /\ (stayed = {} => tgtRows = {t})

\* A folder of two albums is left alone by every request.
SharedLeftAlone ==
  /\ del.pc \in {"file", "deleted", "failed"} => ~ srcRow
  /\ del.pc = "file" => del.mode # "detach"
  /\ shared =>
       /\ folder["source"] = "full"
       /\ \A t \in Task : mover[t].pc \in {"unsent", "sent", "rollback", "restore", "failed", "killed"}
                          /\ ~ mover[t].moved
       /\ del.pc \in {"rows", "file"} => del.mode = "detach"

MoveInv ==
  /\ TypeOK /\ OneOwner /\ MovedByStep /\ RowsOfOwner /\ FolderByOwner /\ MovedAway
  /\ SharedLeftAlone
=============================================================================
