------------------------- MODULE AlbumFiles_proofs -------------------------
(***************************************************************************)
(* Proofs about the components that keep the files of albums, for any sets *)
(* of requests, tasks, tracks, paths and names and any number of faults.   *)
(* Each component has an inductive invariant in its own module; a lemma    *)
(* says that it holds at first and one that every step keeps it, with a    *)
(* step of the proof for each action. FilesInv puts them together, and the *)
(* theorems draw each property of MCAlbumFiles from it. The algorithms of  *)
(* ReleaseLayout and DropZone have no state: their lemmas are about every  *)
(* release and every drop zone.                                            *)
(***************************************************************************)
EXTENDS MCAlbumFiles, Sequences, TLAPS

(***************************************************************************)
(* Moves and deletion of an album (move_album_task, delete_album)          *)
(***************************************************************************)

\* Before any request the album lies whole in the source library.
LEMMA MoveInit == Move!Init => Move!MoveInv
<1> SUFFICES ASSUME Move!Init PROVE Move!MoveInv
  OBVIOUS
<1>1. Move!TypeOK
  <2>1. s2 \in [Move!Place -> Move!Holds]
    BY DEF Move!Init, Move!Place, Move!Holds
  <2>2. s5 \in [Task -> Move!Mover]
    BY DEF Move!Init, Move!Mover, Move!MoverPc
  <2>3. s6 \in [pc : Move!DelPc, mode : Move!Mode]
    BY DEF Move!Init, Move!DelPc, Move!Mode
  <2>4. s7 \in 0..MaxMoveFaults
    BY BoundsAssumption DEF BoundsAssumption, Move!Init
  <2>5. /\ s3 \in BOOLEAN /\ s8 \in BOOLEAN /\ s4 \subseteq Task /\ s9 = {}
        /\ s10 \in BOOLEAN
    BY DEF Move!Init
  <2> QED
    BY <2>1, <2>2, <2>3, <2>4, <2>5 DEF Move!Init, Move!TypeOK
<1>2. Move!OneOwner /\ Move!MovedByStep /\ Move!RowsOfOwner
  BY DEF Move!Init, Move!OneOwner, Move!MovedByStep, Move!RowsOfOwner, Move!Owner
<1>3. Move!FolderByOwner /\ Move!MovedAway /\ Move!SharedLeftAlone
  BY DEF Move!Init, Move!FolderByOwner, Move!MovedAway, Move!SharedLeftAlone, Move!Owner, Move!Place
<1> QED
  BY <1>1, <1>2, <1>3 DEF Move!MoveInv

\* Every step of a move, its rollback and a deletion keeps MoveInv: one task at
\* most owns the folder, and rows and folder follow the step that task has come to.
LEMMA MoveStep == Move!MoveInv /\ Move!Next => Move!MoveInv'
<1> SUFFICES ASSUME Move!MoveInv, Move!Next PROVE Move!MoveInv'
  OBVIOUS
<1> USE BoundsAssumption DEF BoundsAssumption, Move!MoveInv, Move!Goto, Move!TypeOK, Move!Place,
   Move!Holds, Move!Mover, Move!MoverPc, Move!DelPc, Move!Mode,
     Move!OneOwner, Move!MovedByStep, Move!RowsOfOwner, Move!Owner, Move!FolderByOwner, Move!MovedAway, Move!SharedLeftAlone, Move!setting, Move!history
<1>1. ASSUME NEW t \in Task, Move!Request(t) PROVE Move!MoveInv'
  BY <1>1 DEF Move!Request
<1>2. ASSUME NEW t \in Task, Move!Check(t) PROVE Move!MoveInv'
  BY <1>2 DEF Move!Check
<1>3. ASSUME NEW t \in Task, Move!Rename(t) PROVE Move!MoveInv'
  BY SMTT(30), <1>3 DEF Move!Rename, Move!CanMove, Move!Destination
<1>4. ASSUME NEW t \in Task, Move!BeginCopy(t) PROVE Move!MoveInv'
  <2> USE <1>4 DEF Move!BeginCopy, Move!CanMove, Move!Destination
  <2>1. Move!TypeOK'
    <3>1. s5 \in [Task -> Move!Mover]
      OBVIOUS
    <3>2. PICK b \in BOOLEAN : s5' = [s5 EXCEPT ![t].pc = "copying", ![t].inner = b]
      <4>1. (Move!Destination = "inner") \in BOOLEAN
        OBVIOUS
      <4> QED
        BY ONLY <4>1, <1>4 DEF Move!BeginCopy
    <3>5. [s5[t] EXCEPT !.pc = "copying", !.inner = b] \in Move!Mover
      BY ONLY <3>1, t \in Task DEF Move!Mover, Move!MoverPc
    <3>3. s5' \in [Task -> Move!Mover]
      BY ONLY <3>1, <3>2, <3>5
    <3>4. s2' \in [Move!Place -> Move!Holds] /\ s8' \in BOOLEAN
      OBVIOUS
    <3> QED
      BY <3>3, <3>4
  <2>2. Move!OneOwner' /\ Move!MovedByStep'
    OBVIOUS
  <2>3. Move!RowsOfOwner' /\ Move!FolderByOwner'
    OBVIOUS
  <2>4. Move!MovedAway' /\ Move!SharedLeftAlone'
    OBVIOUS
  <2> QED
    BY <2>1, <2>2, <2>3, <2>4
<1>5. ASSUME NEW t \in Task, Move!BeginRemove(t) PROVE Move!MoveInv'
  BY <1>5 DEF Move!BeginRemove, Move!CopyOf
<1>6. ASSUME NEW t \in Task, Move!FinishMove(t) PROVE Move!MoveInv'
  BY SMTT(30), <1>6 DEF Move!FinishMove
<1>7. ASSUME NEW t \in Task, Move!MoveRaises(t) PROVE Move!MoveInv'
  BY <1>7 DEF Move!MoveRaises, Move!CanMove, Move!Destination
<1>8. ASSUME NEW t \in Task, Move!AddItems(t) PROVE Move!MoveInv'
  <2> USE <1>8 DEF Move!AddItems
  <2>1. Move!TypeOK'
    OBVIOUS
  <2>2. Move!OneOwner' /\ Move!MovedByStep'
    OBVIOUS
  <2>3. Move!RowsOfOwner' /\ Move!FolderByOwner'
    OBVIOUS
  <2>4. Move!MovedAway' /\ Move!SharedLeftAlone'
    OBVIOUS
  <2> QED
    BY <2>1, <2>2, <2>3, <2>4
<1>9. ASSUME NEW t \in Task, Move!StoreAlbum(t) PROVE Move!MoveInv'
  <2> USE <1>9 DEF Move!StoreAlbum
  <2>1. Move!TypeOK'
    <3>1. s5 \in [Task -> Move!Mover] /\ s5' = [s5 EXCEPT ![t].pc = "delete", ![t].added = TRUE]
      OBVIOUS
    <3>2. [s5[t] EXCEPT !.pc = "delete", !.added = TRUE] \in Move!Mover
      BY ONLY <3>1, t \in Task DEF Move!Mover, Move!MoverPc
    <3>3. s5' \in [Task -> Move!Mover]
      BY ONLY <3>1, <3>2
    <3> QED
      BY <3>3
  <2>2. Move!OneOwner' /\ Move!MovedByStep'
    OBVIOUS
  <2>3. Move!RowsOfOwner' /\ Move!FolderByOwner'
    OBVIOUS
  <2>4. Move!MovedAway' 
    OBVIOUS
  <2>5. Move!SharedLeftAlone'
    OBVIOUS
  <2> QED
    BY <2>1, <2>2, <2>3, <2>4, <2>5
<1>10. ASSUME NEW t \in Task, Move!DeleteSource(t) PROVE Move!MoveInv'
  <2> USE <1>10 DEF Move!DeleteSource
  <2>1. Move!TypeOK'
    <3>1. s5' \in [Task -> Move!Mover]
      OBVIOUS
    <3>2. s3' \in BOOLEAN
      OBVIOUS
    <3> QED
      BY <3>1, <3>2
  <2>2. Move!OneOwner' /\ Move!MovedByStep'
    OBVIOUS
  <2>3. Move!RowsOfOwner' /\ Move!FolderByOwner'
    OBVIOUS
  <2>4. Move!MovedAway' 
    OBVIOUS
  <2>5. Move!SharedLeftAlone'
    OBVIOUS
  <2> QED
    BY <2>1, <2>2, <2>3, <2>4, <2>5
<1>11. ASSUME NEW t \in Task, Move!Complete(t) PROVE Move!MoveInv'
  BY <1>11 DEF Move!Complete
<1>12. ASSUME NEW t \in Task, Move!Raise(t) PROVE Move!MoveInv'
  BY <1>12 DEF Move!Raise
<1>13. ASSUME NEW t \in Task, Move!RollbackRows(t) PROVE Move!MoveInv'
  BY <1>13 DEF Move!RollbackRows
<1>14. ASSUME NEW t \in Task, Move!RollbackFolder(t) PROVE Move!MoveInv'
  BY <1>14 DEF Move!RollbackFolder, Move!CanRestore
<1>15. ASSUME NEW t \in Task, Move!Kill(t) PROVE Move!MoveInv'
  BY <1>15 DEF Move!Kill
<1>20. ASSUME NEW t \in Task, Move!SeeTargetFree(t) PROVE Move!MoveInv'
  BY <1>20 DEF Move!SeeTargetFree
<1>21. ASSUME NEW t \in Task, Move!RollbackFolderFails(t) PROVE Move!MoveInv'
  BY <1>21 DEF Move!RollbackFolderFails, Move!CanRestore
<1>16. ASSUME NEW mode \in Move!Mode, Move!DeleteRequest(mode) PROVE Move!MoveInv'
  BY <1>16 DEF Move!DeleteRequest
<1>17. ASSUME Move!DeleteRows PROVE Move!MoveInv'
  BY ZenonT(60), <1>17 DEF Move!DeleteRows
<1>18. ASSUME Move!DeleteFiles PROVE Move!MoveInv'
  BY <1>18 DEF Move!DeleteFiles
<1>19. ASSUME Move!DeleteFilesFails PROVE Move!MoveInv'
  BY <1>19 DEF Move!DeleteFilesFails
<1> QED
  BY ZenonT(60), <1>1, <1>2, <1>3, <1>4, <1>5, <1>6, <1>7, <1>8, <1>9, <1>10, <1>11, <1>12, <1>13, <1>14,
     <1>15, <1>16, <1>17, <1>18, <1>19, <1>20, <1>21 DEF Move!Next, Move!TaskStep

(***************************************************************************)
(* Conversion and duplicate clean-up (audio_conversion_task and the like)  *)
(***************************************************************************)

\* At first no operation holds the lock and every row leads to a file.
LEMMA AudioInit == Audio!Init => Audio!AudioInv
<1> SUFFICES ASSUME Audio!Init PROVE Audio!AudioInv
  OBVIOUS
<1>1. Audio!TypeOK
  <2>1. s2 \in [Wav -> SUBSET Audio!Format] /\ s3 \in [Wav -> Audio!Format]
    BY DEF Audio!Init, Audio!Format
  <2>2. s5 \in [Op -> Audio!OpRecord]
    BY DEF Audio!Init, Audio!OpRecord, Audio!OpPc, Audio!Kind, Audio!OpStatus
  <2>3. s6 \in 0..MaxAudioFaults
    BY BoundsAssumption DEF BoundsAssumption, Audio!Init
  <2> QED
    BY <2>1, <2>2, <2>3 DEF Audio!Init, Audio!TypeOK
<1>2. Audio!LockHeld /\ Audio!AtHand /\ Audio!ListedAsWav
  BY DEF Audio!Init, Audio!LockHeld, Audio!Active, Audio!AtHand, Audio!ListedAsWav, Audio!Working
<1>3. Audio!DuplicatesStay /\ Audio!RowsLead
  BY DEF Audio!Init, Audio!DuplicatesStay, Audio!RowsLead, Audio!Working, Audio!Format
<1> QED
  BY <1>1, <1>2, <1>3 DEF Audio!AudioInv

\* Every step keeps AudioInv: the operation that works holds the lock, a source
\* is deleted only when what replaces it is there, and rows lead to files.
LEMMA AudioStep == Audio!AudioInv /\ Audio!Next => Audio!AudioInv'
<1> SUFFICES ASSUME Audio!AudioInv, Audio!Next PROVE Audio!AudioInv'
  OBVIOUS
<1> USE BoundsAssumption, NoneAssumption DEF BoundsAssumption, Audio!AudioInv, Audio!Goto,
   Audio!Fault, Audio!TypeOK, Audio!Format, Audio!OpRecord, Audio!OpPc, Audio!Kind, Audio!OpStatus,
   Audio!LockHeld, Audio!Active, Audio!AtHand, Audio!ListedAsWav, Audio!Working,
   Audio!DuplicatesStay, Audio!RowsLead, Audio!Wavs, Audio!DuplicateWavs
<1>1. ASSUME NEW o \in Op, NEW kind \in Audio!Kind, NEW keep \in BOOLEAN, Audio!Acquire(o, kind, keep)
      PROVE Audio!AudioInv'
  <2> USE <1>1 DEF Audio!Acquire
  <2>1. Audio!TypeOK'
    <3>1. s5 \in [Op -> Audio!OpRecord] /\ s5' = [s5 EXCEPT ![o].pc = "locked", ![o].kind = kind, ![o].keep = keep]
      OBVIOUS
    <3>2. [s5[o] EXCEPT !.pc = "locked", !.kind = kind, !.keep = keep] \in Audio!OpRecord
      BY ONLY <3>1, o \in Op, kind \in Audio!Kind, keep \in BOOLEAN DEF Audio!OpRecord, Audio!OpPc,
         Audio!Kind, Audio!OpStatus
    <3>3. s5' \in [Op -> Audio!OpRecord]
      BY ONLY <3>1, <3>2
    <3> QED
      BY <3>3
  <2>2. Audio!LockHeld'
    OBVIOUS
  <2>3. Audio!AtHand'
    OBVIOUS
  <2>4. Audio!DuplicatesStay' /\ Audio!RowsLead'
    OBVIOUS
  <2>5. Audio!ListedAsWav'
    OBVIOUS
  <2> QED
    BY <2>1, <2>2, <2>3, <2>4, <2>5
<1>2. ASSUME NEW o \in Op, Audio!Dispatch(o) PROVE Audio!AudioInv'
  <2> USE <1>2 DEF Audio!Dispatch
  <2>1. Audio!TypeOK'
    <3>1. s5 \in [Op -> Audio!OpRecord] /\ s5' = [s5 EXCEPT ![o].pc = "sent", ![o].status = "queued"]
      OBVIOUS
    <3>2. [s5[o] EXCEPT !.pc = "sent", !.status = "queued"] \in Audio!OpRecord
      BY ONLY <3>1, o \in Op DEF Audio!OpRecord, Audio!OpPc, Audio!Kind, Audio!OpStatus
    <3>3. s5' \in [Op -> Audio!OpRecord]
      BY ONLY <3>1, <3>2
    <3> QED
      BY <3>3
  <2>2. Audio!LockHeld'
    OBVIOUS
  <2>3. Audio!AtHand'
    OBVIOUS
  <2>4. Audio!DuplicatesStay' /\ Audio!RowsLead'
    OBVIOUS
  <2>5. Audio!ListedAsWav'
    OBVIOUS
  <2> QED
    BY <2>1, <2>2, <2>3, <2>4, <2>5
<1>3. ASSUME NEW o \in Op, Audio!DispatchFails(o) PROVE Audio!AudioInv'
  <2> USE <1>3 DEF Audio!DispatchFails
  <2>1. Audio!TypeOK'
    <3>1. s5 \in [Op -> Audio!OpRecord] /\ s5' = [s5 EXCEPT ![o].pc = "done", ![o].status = "queued"]
      OBVIOUS
    <3>2. [s5[o] EXCEPT !.pc = "done", !.status = "queued"] \in Audio!OpRecord
      BY ONLY <3>1, o \in Op DEF Audio!OpRecord, Audio!OpPc, Audio!Kind, Audio!OpStatus
    <3>3. s5' \in [Op -> Audio!OpRecord]
      BY ONLY <3>1, <3>2
    <3> QED
      BY <3>3
  <2>2. Audio!LockHeld'
    OBVIOUS
  <2>3. Audio!AtHand'
    OBVIOUS
  <2>4. Audio!DuplicatesStay' /\ Audio!RowsLead'
    OBVIOUS
  <2>5. Audio!ListedAsWav'
    OBVIOUS
  <2> QED
    BY <2>1, <2>2, <2>3, <2>4, <2>5
<1>4. ASSUME NEW o \in Op, Audio!Start(o) PROVE Audio!AudioInv'
  <2> DEFINE listed == IF s5[o].kind = "dedupe" THEN Audio!DuplicateWavs
                       ELSE IF s1 THEN {t \in Wav : s3[t] = "wav"} ELSE Audio!Wavs
  <2> USE <1>4 DEF Audio!Start
  <2>1. Audio!TypeOK'
    <3>1. s5 \in [Op -> Audio!OpRecord]
          /\ s5' = [s5 EXCEPT ![o].pc = "next", ![o].status = "running", ![o].todo = listed]
      OBVIOUS
    <3>2. listed \in SUBSET Wav
      OBVIOUS
    <3> HIDE DEF listed
    <3>3. [s5[o] EXCEPT !.pc = "next", !.status = "running", !.todo = listed] \in Audio!OpRecord
      BY ONLY <3>1, <3>2, o \in Op DEF Audio!OpRecord, Audio!OpPc, Audio!Kind, Audio!OpStatus
    <3>4. s5' \in [Op -> Audio!OpRecord]
      BY ONLY <3>1, <3>3
    <3> QED
      BY <3>4
  <2>2. Audio!LockHeld' /\ Audio!AtHand'
    OBVIOUS
  <2>3. Audio!DuplicatesStay' /\ Audio!RowsLead'
    OBVIOUS
  <2>4. Audio!ListedAsWav'
    OBVIOUS
  <2> QED
    BY <2>1, <2>2, <2>3, <2>4
<1>5. ASSUME NEW o \in Op, Audio!NextFile(o) PROVE Audio!AudioInv'
  <2>1. CASE s5[o].todo = {} /\ Audio!Goto(o, "report")
    BY <1>5, <2>1 DEF Audio!NextFile
  <2>2. ASSUME NEW t \in s5[o].todo,
               s5' = [s5 EXCEPT ![o].todo = @ \ {t}, ![o].at = t,
                   ![o].pc = IF s5[o].kind = "dedupe" THEN "remove"
                             ELSE IF "flac" \in s2[t] THEN "next" ELSE "transcode"]
        PROVE Audio!AudioInv'
    <3> DEFINE to == IF s5[o].kind = "dedupe" THEN "remove"
                     ELSE IF "flac" \in s2[t] THEN "next" ELSE "transcode"
               rest == s5[o].todo \ {t}
               rec == [s5[o] EXCEPT !.todo = rest, !.at = t, !.pc = to]
    <3>1. s5[o].pc = "next" /\ UNCHANGED <<s1, s2, s3, s4, s6, s7, s8>> /\ s5[o] \in Audio!OpRecord
      BY <1>5 DEF Audio!NextFile
    <3>2. t \in Wav /\ rest \in SUBSET Wav /\ to \in Audio!OpPc
      BY <3>1
    <3>3. s5' = [s5 EXCEPT ![o] = rec]
      BY <2>2
    <3>4. /\ rec \in Audio!OpRecord
          /\ rec.pc = to /\ rec.kind = s5[o].kind /\ rec.keep = s5[o].keep /\ rec.todo = rest
          /\ rec.at = t /\ rec.status = s5[o].status
      BY <3>1, <3>2
    <3> HIDE DEF rec
    <3>5. Audio!TypeOK'
      BY <3>1, <3>3, <3>4
    <3>6. Audio!LockHeld' /\ Audio!AtHand'
      BY <3>1, <3>2, <3>3, <3>4
    <3>7. Audio!DuplicatesStay' /\ Audio!RowsLead'
      BY <3>1, <3>2, <3>3, <3>4
    <3>8. Audio!ListedAsWav'
      BY <3>1, <3>2, <3>3, <3>4
    <3> QED
      BY <3>5, <3>6, <3>7, <3>8
  <2> QED
    BY <1>5, <2>1, <2>2 DEF Audio!NextFile
<1>6. ASSUME NEW o \in Op, Audio!Transcode(o) PROVE Audio!AudioInv'
  <2> USE <1>6 DEF Audio!Transcode
  <2>1. Audio!TypeOK'
    OBVIOUS
  <2>2. Audio!LockHeld'
    OBVIOUS
  <2>3. Audio!AtHand'
    OBVIOUS
  <2>4. Audio!DuplicatesStay' /\ Audio!RowsLead'
    BY SMTT(30)
  <2>5. Audio!ListedAsWav'
    OBVIOUS
  <2> QED
    BY <2>1, <2>2, <2>3, <2>4, <2>5
<1>7. ASSUME NEW o \in Op, Audio!TranscodeFails(o) PROVE Audio!AudioInv'
  BY <1>7 DEF Audio!TranscodeFails
<1>8. ASSUME NEW o \in Op, Audio!UpdateItem(o) PROVE Audio!AudioInv'
  BY <1>8 DEF Audio!UpdateItem
<1>9. ASSUME NEW o \in Op, Audio!UpdateItemFails(o) PROVE Audio!AudioInv'
  BY <1>9 DEF Audio!UpdateItemFails
<1>10. ASSUME NEW o \in Op, Audio!DeleteOriginal(o) PROVE Audio!AudioInv'
  BY <1>10 DEF Audio!DeleteOriginal
<1>11. ASSUME NEW o \in Op, Audio!RemoveDuplicate(o) PROVE Audio!AudioInv'
  BY <1>11 DEF Audio!RemoveDuplicate
<1>12. ASSUME NEW o \in Op, Audio!Report(o) PROVE Audio!AudioInv'
  <2> USE <1>12 DEF Audio!Report
  <2>1. Audio!TypeOK'
    <3>1. s5 \in [Op -> Audio!OpRecord] /\ s5' = [s5 EXCEPT ![o].pc = "release", ![o].status = "completed"]
      OBVIOUS
    <3>2. [s5[o] EXCEPT !.pc = "release", !.status = "completed"] \in Audio!OpRecord
      BY ONLY <3>1, o \in Op DEF Audio!OpRecord, Audio!OpPc, Audio!Kind, Audio!OpStatus
    <3>3. s5' \in [Op -> Audio!OpRecord]
      BY ONLY <3>1, <3>2
    <3> QED
      BY <3>3
  <2>2. Audio!LockHeld'
    OBVIOUS
  <2>3. Audio!AtHand'
    OBVIOUS
  <2>4. Audio!DuplicatesStay' /\ Audio!RowsLead'
    OBVIOUS
  <2>5. Audio!ListedAsWav'
    OBVIOUS
  <2> QED
    BY <2>1, <2>2, <2>3, <2>4, <2>5
<1>13. ASSUME NEW o \in Op, Audio!TaskFails(o) PROVE Audio!AudioInv'
  BY <1>13 DEF Audio!TaskFails
<1>14. ASSUME NEW o \in Op, Audio!Release(o) PROVE Audio!AudioInv'
  BY <1>14 DEF Audio!Release
<1>15. ASSUME NEW o \in Op, Audio!Kill(o) PROVE Audio!AudioInv'
  BY <1>15 DEF Audio!Kill
<1>16. ASSUME Audio!Expire PROVE Audio!AudioInv'
  BY <1>16 DEF Audio!Expire
<1> HIDE DEF Audio!AudioInv, Audio!Kind
<1> QED
  BY <1>1, <1>2, <1>3, <1>4, <1>5, <1>6, <1>7, <1>8, <1>9, <1>10, <1>11, <1>12, <1>13, <1>14,
     <1>15, <1>16 DEF Audio!Next, Audio!OpStep

(***************************************************************************)
(* Import of an album (start_import, import_album_task)                    *)
(***************************************************************************)

\* At first all files are in the drop zone and no request was made.
LEMMA ImportInit == Import!Init => Import!ImportInv
<1> SUFFICES ASSUME Import!Init PROVE Import!ImportInv
  OBVIOUS
<1>1. Import!TypeOK
  <2>1. s3 \in [Song -> [Song -> {"none", "old", "new"}]]
    BY DEF Import!Init
  <2>2. s7 \in [Job -> Import!JobRecord]
    BY DEF Import!Init, Import!JobRecord, Import!JobPc, Import!PartState
  <2>3. s5 \in [job : Job \cup {None}, status : Import!Status]
    BY DEF Import!Init, Import!Status
  <2>4. s8 \in 0..MaxImportFaults
    BY BoundsAssumption DEF BoundsAssumption, Import!Init
  <2>5. s4 \in [Song -> SUBSET (Job \cup {Old})]
    BY DEF Import!Init
  <2> QED
    BY <2>1, <2>2, <2>3, <2>4, <2>5 DEF Import!Init, Import!TypeOK
<1>2. Import!EntryOwned /\ Import!CopiedIsShelved
  BY DEF Import!Init, Import!EntryOwned, Import!CopiedIsShelved, Import!Importing, Import!AtWork
<1>3. Import!OnePartAtWork
  BY DEF Import!Init, Import!OnePartAtWork, Import!PartsInOrder, Import!AtWork
<1>4. Import!RowsAccounted
  BY DEF Import!Init, Import!RowsAccounted
<1> QED
  BY <1>1, <1>2, <1>3, <1>4 DEF Import!ImportInv

\* A step that moves one job on and touches no file, part or row keeps all but
\* the entry of the status, if the job is at a place its parts allow.
LEMMA ImportGoto ==
  ASSUME Import!TypeOK, Import!CopiedIsShelved, Import!OnePartAtWork, Import!RowsAccounted,
         NEW j \in Job, NEW p \in Import!JobPc, s7' = [s7 EXCEPT ![j].pc = p],
         UNCHANGED <<s1, s2, s3, s4, s10>>, s7[j].pc # "idle",
         p \notin {"idle", "replace", "copy", "register", "tags"},
         p \in {"parts", "record", "completed"} => Import!AtWork(j),
         p \in {"duplicate", "create", "dispatch", "sent"} =>
           s7[j].pc \in {"replace", "duplicate", "create", "dispatch"},
         p \in {"parts", "record", "completed"} => \A a \in Song : s7[j].part[a] # "open",
         p \in {"record", "completed"} =>
           /\ \A a \in Song : s7[j].part[a] # "todo"
           /\ \E a \in Song : s7[j].part[a] \in {"added", "silent"}
  PROVE  /\ s7' \in [Job -> Import!JobRecord]
         /\ Import!CopiedIsShelved' /\ Import!OnePartAtWork' /\ Import!RowsAccounted'
<1>1. s7 \in [Job -> Import!JobRecord]
  BY DEF Import!TypeOK
<1>2. [s7[j] EXCEPT !.pc = p] \in Import!JobRecord
  BY ONLY <1>1, j \in Job, p \in Import!JobPc DEF Import!JobRecord
<1>3. s7' \in [Job -> Import!JobRecord]
  BY ONLY <1>1, <1>2, s7' = [s7 EXCEPT ![j].pc = p]
<1>4. /\ s7'[j].pc = p
      /\ \A i \in Job : i # j => s7'[i].pc = s7[i].pc
  BY ONLY <1>1, s7' = [s7 EXCEPT ![j].pc = p], j \in Job DEF Import!JobRecord
<1>5. \A i \in Job : /\ s7'[i].asIs = s7[i].asIs /\ s7'[i].replace = s7[i].replace
                     /\ s7'[i].todo = s7[i].todo /\ s7'[i].part = s7[i].part
                     /\ s7'[i].removed = s7[i].removed
  BY ONLY <1>1, s7' = [s7 EXCEPT ![j].pc = p], j \in Job DEF Import!JobRecord
<1> DEFINE work == {"tags", "parts", "copy", "register", "record", "completed"}
<1>6. /\ \A i \in Job : Import!AtWork(i) <=> s7[i].pc \in work
      /\ \A i \in Job : Import!AtWork(i)' <=> s7'[i].pc \in work
  BY DEF Import!AtWork
<1>7. \A i \in Job : s7'[i].pc \in work => s7[i].pc \in work
  BY <1>4, <1>6
<1>8. Import!CopiedIsShelved'
  BY <1>5, <1>6, <1>7 DEF Import!CopiedIsShelved, Import!Shelved
<1>9. Import!OnePartAtWork'
  <2> SUFFICES ASSUME NEW i \in Job PROVE Import!PartsInOrder(i)'
    BY DEF Import!OnePartAtWork
  <2>1. Import!PartFiles(i)' = Import!PartFiles(i)
    BY <1>5 DEF Import!PartFiles
  <2>2. CASE i = j
    <3>1. s7[j].pc = "replace" => ~ s7[j].asIs
      BY DEF Import!RowsAccounted
    <3> QED
      BY <2>2, <3>1, <1>4, <1>5, <1>6, <1>7 DEF Import!OnePartAtWork, Import!PartsInOrder
  <2>3. CASE i # j
    BY <2>1, <2>3, <1>4, <1>5, <1>6, <1>7 DEF Import!OnePartAtWork, Import!PartsInOrder
  <2> QED
    BY <2>2, <2>3
<1>10. Import!RowsAccounted'
  BY <1>4, <1>5 DEF Import!RowsAccounted, Import!Replaced, Import!Candidate, Import!Known
<1> QED
  BY <1>3, <1>8, <1>9, <1>10

\* What a step does not touch of the other jobs keeps their part of the proof.
LEMMA ImportOthers ==
  ASSUME Import!OnePartAtWork, NEW j \in Job, UNCHANGED s10,
         \A i \in Job : i # j => s7'[i] = s7[i], Import!PartsInOrder(j)'
  PROVE  Import!OnePartAtWork'
<1> SUFFICES ASSUME NEW i \in Job, i # j PROVE Import!PartsInOrder(i)'
  BY DEF Import!OnePartAtWork
<1>1. Import!PartsInOrder(i) /\ s7'[i] = s7[i]
  BY DEF Import!OnePartAtWork
<1> QED
  BY <1>1 DEF Import!PartsInOrder, Import!PartFiles, Import!AtWork

\* The entry of the status stays with its import when a step writes none and
\* brings no job to work.
LEMMA ImportEntry ==
  ASSUME Import!EntryOwned, NEW j \in Job, UNCHANGED <<s5, s9>>,
         \A i \in Job : i # j => s7'[i] = s7[i],
         Import!Importing(j)' => Import!Importing(j),
         s7'[j].pc = "create" => s7[j].pc = "create" \/ ~ Import!Active
  PROVE  Import!EntryOwned'
BY DEF Import!EntryOwned, Import!Importing, Import!Active

\* The entry of the status follows a job that writes it: it is the job's own, or
\* the job leaves it to no import at work.
LEMMA ImportStatus ==
  ASSUME Import!TypeOK, Import!EntryOwned, NEW j \in Job, NEW status \in Import!Status,
         Import!SetStatus(j, status), \A i \in Job : i # j => s7'[i] = s7[i],
         s7'[j].pc # "create",
         s7[j].pc = "create" \/ s7[j].pc = "record" \/ Import!Importing(j),
         Import!Importing(j)' => /\ status \in {"pending", "in_progress"}
                                 /\ s7[j].pc = "create" \/ Import!Importing(j)
  PROVE  Import!EntryOwned' /\ s5' \in [job : Job \cup {None}, status : Import!Status]
         /\ s9' \in BOOLEAN
<1>1. s5' = [job |-> j, status |-> status] /\ s9' \in BOOLEAN
  BY DEF Import!SetStatus, Import!TypeOK
<1>2. ASSUME ~ s9' PROVE Import!EntryOwned'
  <2>1. /\ ~ s9
        /\ s7[j].pc = "record" => ~ Import!Active \/ s5.job = j
        /\ s7[j].pc = "create" => \A i \in Job \ {j} : s7[i].pc # "create"
    BY <1>2 DEF Import!SetStatus, Import!TypeOK
  <2>2. \A i \in Job \ {j} : ~ Import!Importing(i)
    BY <2>1 DEF Import!EntryOwned, Import!Importing
  <2>3. Import!Importing(j)' => \A i \in Job \ {j} : s7[i].pc # "create"
    BY <2>1 DEF Import!EntryOwned
  <2>4. \A i \in Job \ {j} : ~ Import!Importing(i)'
    BY <2>2 DEF Import!Importing
  <2> QED
    BY <1>1, <2>3, <2>4 DEF Import!EntryOwned, Import!Active
<1> QED
  BY <1>1, <1>2 DEF Import!EntryOwned

\* Every step keeps ImportInv: the entry of the status belongs to the import at
\* work, what was copied is on the shelf, one part is at work at a time, and rows
\* are accounted for.
LEMMA ImportStep == Import!ImportInv /\ Import!Next => Import!ImportInv'
<1> SUFFICES ASSUME Import!ImportInv, Import!Next PROVE Import!ImportInv'
  OBVIOUS
<1> USE BoundsAssumption, NoneAssumption, OldAssumption DEF BoundsAssumption
<1>i. /\ Import!TypeOK /\ Import!EntryOwned /\ Import!CopiedIsShelved /\ Import!OnePartAtWork
      /\ Import!RowsAccounted
  BY DEF Import!ImportInv
<1>t. s7 \in [Job -> Import!JobRecord]
  BY <1>i DEF Import!TypeOK
<1>p. \A i \in Job : Import!PartsInOrder(i)
  BY <1>i DEF Import!OnePartAtWork
<1>s. \A j \in Job, p \in Import!JobPc : s7' = [s7 EXCEPT ![j].pc = p] =>
        /\ s7'[j].pc = p /\ s7'[j].part = s7[j].part
        /\ \A i \in Job : i # j => s7'[i] = s7[i]
  BY ONLY <1>t DEF Import!JobRecord
<1>1. ASSUME NEW j \in Job, NEW asIs \in BOOLEAN, NEW replace \in BOOLEAN, Import!Lookup(j, asIs, replace)
      PROVE Import!ImportInv'
  <2>1. PICK c \in Song, found \in BOOLEAN :
          s7' = [s7 EXCEPT ![j].pc = IF asIs \/ ~ found THEN "duplicate"
                                     ELSE IF replace THEN "replace" ELSE "refused",
                           ![j].asIs = asIs, ![j].replace = replace,
                           ![j].part = [a \in Song |-> IF asIs \/ a # c THEN "none" ELSE "todo"]]
    BY <1>1 DEF Import!Lookup, Import!FindExisting
  <2>2. s7[j].pc = "idle" /\ UNCHANGED <<s1, s2, s3, s4, s5, s6, s8, s9, s10>>
    BY <1>1 DEF Import!Lookup, Import!files
  <2> DEFINE p == IF asIs \/ ~ found THEN "duplicate" ELSE IF replace THEN "replace" ELSE "refused"
             f == [a \in Song |-> IF asIs \/ a # c THEN "none" ELSE "todo"]
             b == [s7[j] EXCEPT !.pc = p, !.asIs = asIs, !.replace = replace, !.part = f]
  <2>3. f \in [Song -> Import!PartState] /\ p \in Import!JobPc
        /\ \A a \in Song : f[a] = IF asIs \/ a # c THEN "none" ELSE "todo"
    BY DEF Import!PartState, Import!JobPc
  <2>4. s7' = [s7 EXCEPT ![j] = b]
    BY ONLY <2>1, <1>t DEF Import!JobRecord
  <2>5. p \in {"duplicate", "replace", "refused"} /\ (p = "replace" => replace /\ ~ asIs)
    OBVIOUS
  <2> HIDE DEF f, p
  <2>6. /\ b \in Import!JobRecord /\ b.pc = p /\ b.asIs = asIs /\ b.replace = replace /\ b.part = f
        /\ b.todo = s7[j].todo /\ b.removed = s7[j].removed
    BY ONLY <1>t, <2>3, j \in Job, asIs \in BOOLEAN, replace \in BOOLEAN DEF Import!JobRecord
  <2> HIDE DEF b
  <2>7. s7' \in [Job -> Import!JobRecord] /\ s7'[j] = b /\ \A i \in Job : i # j => s7'[i] = s7[i]
    BY ONLY <1>t, <2>4, <2>6
  <2>8. s7[j].removed = {} /\ \A a \in Song : s7[j].part[a] = "none"
    BY <1>i, <1>p, <2>2 DEF Import!RowsAccounted, Import!PartsInOrder
  <2>9. ~ Import!AtWork(j)' /\ \A i \in Job : i # j => (Import!AtWork(i)' <=> Import!AtWork(i))
    BY <2>5, <2>6, <2>7 DEF Import!AtWork
  <2>10. Import!TypeOK'
    BY <1>i, <2>2, <2>7 DEF Import!TypeOK
  <2>11. Import!EntryOwned'
    <3>1. ~ Import!Importing(j)' /\ s7'[j].pc # "create"
      BY <2>5, <2>6, <2>7 DEF Import!Importing
    <3> QED
      BY <1>i, <2>2, <2>7, <3>1, ImportEntry
  <2>12. Import!CopiedIsShelved'
    <3>1. \A i \in Job : Import!AtWork(i)' => Import!AtWork(i) /\ s7'[i] = s7[i]
      BY <2>7, <2>9
    <3> QED
      BY <1>i, <2>2, <3>1 DEF Import!CopiedIsShelved, Import!Shelved
  <2>13. Import!PartsInOrder(j)'
    BY <2>2, <2>3, <2>5, <2>6, <2>7, <2>9 DEF Import!PartsInOrder
  <2>14. Import!OnePartAtWork'
    BY <1>i, <2>2, <2>7, <2>13, ImportOthers
  <2>15. Import!RowsAccounted'
    <3>1. \A i \in Job, a \in Song : /\ Import!Candidate(i, a) => i # j
                                        \/ s7[j].removed = {}
                                     /\ i # j => s7'[i] = s7[i]
      BY <2>7, <2>8
    <3>2. /\ s7'[j].removed = {} /\ \A a \in Song : s7'[j].part[a] \in {"none", "todo"}
          /\ s7'[j].pc = "replace" => s7'[j].replace /\ ~ s7'[j].asIs
      BY <2>3, <2>5, <2>6, <2>7, <2>8
    <3> QED
      BY <1>i, <2>2, <2>7, <2>8, <3>2
         DEF Import!RowsAccounted, Import!Replaced, Import!Candidate, Import!Known
  <2> QED
    BY <2>10, <2>11, <2>12, <2>14, <2>15 DEF Import!ImportInv
<1>2. ASSUME NEW j \in Job, Import!Replace(j) PROVE Import!ImportInv'
  <2>1. PICK c \in Song : Import!Candidate(j, c) /\ \E r \in (IF s4[c] = {} THEN {Old} ELSE s4[c]) :
          /\ s4' = [s4 EXCEPT ![c] = @ \ {r}]
          /\ s7' = [s7 EXCEPT ![j].pc = "duplicate", ![j].removed = {r} \cap s4[c]]
    BY <1>2 DEF Import!Replace
  <2>2. PICK r : /\ r \in IF s4[c] = {} THEN {Old} ELSE s4[c]
                 /\ s4' = [s4 EXCEPT ![c] = @ \ {r}]
                 /\ s7' = [s7 EXCEPT ![j].pc = "duplicate", ![j].removed = {r} \cap s4[c]]
    BY <2>1
  <2>3. s7[j].pc = "replace" /\ UNCHANGED <<s1, s2, s3, s5, s6, s8, s9, s10>>
    BY <1>2 DEF Import!Replace, Import!files
  <2> DEFINE gone == {r} \cap s4[c]
             b == [s7[j] EXCEPT !.pc = "duplicate", !.removed = gone]
  <2>4. s4 \in [Song -> SUBSET (Job \cup {Old})]
    BY <1>i DEF Import!TypeOK
  <2>5. gone \in SUBSET (Job \cup {Old})
    BY <2>4
  <2>6. s7' = [s7 EXCEPT ![j] = b]
    BY ONLY <2>2, <1>t DEF Import!JobRecord
  <2> HIDE DEF gone
  <2>7. /\ b \in Import!JobRecord /\ b.pc = "duplicate" /\ b.asIs = s7[j].asIs
        /\ b.replace = s7[j].replace /\ b.part = s7[j].part /\ b.todo = s7[j].todo
        /\ b.removed = gone
    BY ONLY <1>t, <2>5, j \in Job DEF Import!JobRecord, Import!JobPc
  <2> HIDE DEF b
  <2>8. s7' \in [Job -> Import!JobRecord] /\ s7'[j] = b /\ \A i \in Job : i # j => s7'[i] = s7[i]
    BY ONLY <1>t, <2>6, <2>7
  <2>9. /\ s7[j].removed = {} /\ s7[j].replace /\ ~ s7[j].asIs
        /\ \A a \in Song : s7[j].part[a] \in {"none", "todo"}
    BY <1>i, <1>p, <2>3 DEF Import!RowsAccounted, Import!PartsInOrder
  <2>10. s4' \in [Song -> SUBSET (Job \cup {Old})] /\ s4'[c] = s4[c] \ {r}
         /\ \A a \in Song : a # c => s4'[a] = s4[a]
    BY <2>2, <2>4
  <2>11. ~ Import!AtWork(j)' /\ \A i \in Job : Import!AtWork(i)' => Import!AtWork(i) /\ i # j
    BY <2>7, <2>8 DEF Import!AtWork
  <2>12. Import!TypeOK'
    BY <1>i, <2>3, <2>8, <2>10 DEF Import!TypeOK
  <2>13. Import!EntryOwned'
    <3>1. ~ Import!Importing(j)' /\ s7'[j].pc # "create"
      BY <2>7, <2>8 DEF Import!Importing
    <3> QED
      BY <1>i, <2>3, <2>8, <3>1, ImportEntry
  <2>14. Import!CopiedIsShelved'
    BY <1>i, <2>3, <2>8, <2>11 DEF Import!CopiedIsShelved, Import!Shelved
  <2>15. Import!PartsInOrder(j)'
    BY <1>p, <2>3, <2>7, <2>8, <2>9, <2>11 DEF Import!PartsInOrder
  <2>16. Import!OnePartAtWork'
    BY <1>i, <2>3, <2>8, <2>15, ImportOthers
  <2>17. Import!RowsAccounted'
    <3>1. \A i \in Job, a \in Song : Import!Candidate(i, a)' <=> Import!Candidate(i, a)
      BY <2>7, <2>8 DEF Import!Candidate
    <3>2. \A i \in Job : s7[i].removed \subseteq s7'[i].removed
      BY <2>7, <2>8, <2>9
    <3>3. \A a \in Song : Import!Known(a) => Import!Known(a)'
      <4> SUFFICES ASSUME NEW a \in Song, Import!Known(a) PROVE Import!Known(a)'
        OBVIOUS
      <4>1. CASE a = c /\ s4[c] # {}
        <5>1. s7'[j].removed # {} /\ Import!Candidate(j, a)'
          BY <4>1, <2>1, <2>2, <2>7, <2>8, <3>1 DEF gone
        <5> QED
          BY <5>1 DEF Import!Known
      <4>2. CASE ~ (a = c /\ s4[c] # {})
        BY <4>2, <2>10, <3>1, <3>2 DEF Import!Known
      <4> QED
        BY <4>1, <4>2
    <3>4. \A i \in Job, a \in Song : i \in s4[a] \/ Import!Replaced(i, a) => i \in s4'[a] \/ Import!Replaced(i, a)'
      <4> SUFFICES ASSUME NEW i \in Job, NEW a \in Song, i \in s4[a] \/ Import!Replaced(i, a),
                          i \notin s4'[a]
                   PROVE  Import!Replaced(i, a)'
        OBVIOUS
      <4>1. CASE Import!Replaced(i, a)
        BY <4>1, <3>1, <3>2 DEF Import!Replaced
      <4>2. CASE i \in s4[a]
        <5>1. a = c /\ i = r
          BY <4>2, <2>10
        <5>2. i \in s7'[j].removed /\ Import!Candidate(j, a)'
          BY <4>2, <5>1, <2>1, <2>7, <2>8, <3>1 DEF gone
        <5> QED
          BY <5>2 DEF Import!Replaced
      <4> QED
        BY <4>1, <4>2
    <3>5. \A i \in Job :
            /\ s7'[i].pc \in {"idle", "replace"} => s7'[i].removed = {}
            /\ s7'[i].pc = "replace" \/ s7'[i].removed # {} => s7'[i].replace /\ ~ s7'[i].asIs
            /\ s7'[i].part = s7[i].part
      BY ZenonT(60), <1>i, <2>7, <2>8, <2>9 DEF Import!RowsAccounted
    <3>6. ASSUME NEW a \in Song, NEW t \in Song, Old \notin s4'[a], s3[a][t] = "old"
          PROVE  \E i \in Job : Import!Candidate(i, a)' /\ Old \in s7'[i].removed
      <4>1. CASE Old \in s4[a]
        <5>1. a = c /\ r = Old
          BY <3>6, <4>1, <2>10
        <5>2. Old \in s7'[j].removed /\ Import!Candidate(j, a)'
          BY <4>1, <5>1, <2>1, <2>7, <2>8, <3>1 DEF gone
        <5> QED
          BY <5>2
      <4>2. CASE Old \notin s4[a]
        BY <4>2, <3>6, <1>i, <3>1, <3>2 DEF Import!RowsAccounted
      <4> QED
        BY <4>1, <4>2
    <3>7. ASSUME NEW a \in Song, NEW t \in Song, s4'[a] = {}, s3[a][t] # "none"
          PROVE  \E i \in Job : s7'[i].part[a] \in {"todo", "open", "silent"}
      <4>1. CASE a = c
        <5>1. s7'[j].part[a] = "todo"
          BY <4>1, <2>1, <2>7, <2>8, <2>9 DEF Import!Candidate
        <5> QED
          BY <5>1
      <4>2. CASE a # c
        BY <4>2, <3>7, <2>10, <1>i, <3>5 DEF Import!RowsAccounted
      <4> QED
        BY <4>1, <4>2
    <3> QED
      BY <1>i, <2>3, <3>3, <3>4, <3>5, <3>6, <3>7 DEF Import!RowsAccounted
  <2> QED
    BY <2>12, <2>13, <2>14, <2>16, <2>17 DEF Import!ImportInv
<1>3. ASSUME NEW j \in Job, Import!CheckDuplicate(j) PROVE Import!ImportInv'
  <2> DEFINE p == IF Import!Active THEN "refused" ELSE "create"
  <2>1. /\ s7[j].pc = "duplicate" /\ s7' = [s7 EXCEPT ![j].pc = p]
        /\ UNCHANGED <<s1, s2, s3, s4, s5, s6, s8, s9, s10>>
    BY <1>3 DEF Import!CheckDuplicate, Import!Goto, Import!files
  <2>2. p \in {"refused", "create"} /\ (p = "create" => ~ Import!Active)
    OBVIOUS
  <2> HIDE DEF p
  <2>3. p \in Import!JobPc
    BY <2>2 DEF Import!JobPc
  <2>4. /\ s7' \in [Job -> Import!JobRecord]
        /\ Import!CopiedIsShelved' /\ Import!OnePartAtWork' /\ Import!RowsAccounted'
    BY <1>i, <2>1, <2>2, <2>3, ImportGoto
  <2>5. Import!TypeOK'
    BY <1>i, <2>1, <2>4 DEF Import!TypeOK
  <2>6. Import!EntryOwned'
    <3>1. ~ Import!Importing(j)' /\ s7'[j].pc = p
      BY <1>s, <2>1, <2>2, <2>3 DEF Import!Importing
    <3> QED
      BY <1>i, <1>s, <2>1, <2>2, <2>3, <3>1, ImportEntry
  <2> QED
    BY <2>4, <2>5, <2>6 DEF Import!ImportInv
<1>4. ASSUME NEW j \in Job, Import!Create(j) PROVE Import!ImportInv'
  <2>1. /\ s7[j].pc = "create" /\ s7' = [s7 EXCEPT ![j].pc = "dispatch"]
        /\ UNCHANGED <<s1, s2, s3, s4, s6, s8, s10>> /\ Import!SetStatus(j, "pending")
        /\ "dispatch" \in Import!JobPc /\ "pending" \in Import!Status
    BY <1>4 DEF Import!Create, Import!Goto, Import!files, Import!JobPc, Import!Status
  <2>2. /\ s7' \in [Job -> Import!JobRecord]
        /\ Import!CopiedIsShelved' /\ Import!OnePartAtWork' /\ Import!RowsAccounted'
    BY <1>i, <2>1, ImportGoto
  <2>3. Import!EntryOwned' /\ s5' \in [job : Job \cup {None}, status : Import!Status] /\ s9' \in BOOLEAN
    BY <1>i, <1>s, <2>1, ImportStatus
  <2>4. Import!TypeOK'
    BY <1>i, <2>1, <2>2, <2>3 DEF Import!TypeOK
  <2> QED
    BY <2>2, <2>3, <2>4 DEF Import!ImportInv
<1>5. ASSUME NEW j \in Job, Import!Dispatch(j) PROVE Import!ImportInv'
  <2>1. /\ s7[j].pc = "dispatch" /\ s7' = [s7 EXCEPT ![j].pc = "sent"]
        /\ UNCHANGED <<s1, s2, s3, s4, s5, s6, s8, s9, s10>> /\ "sent" \in Import!JobPc
    BY <1>5 DEF Import!Dispatch, Import!Goto, Import!files, Import!JobPc
  <2>2. /\ s7' \in [Job -> Import!JobRecord]
        /\ Import!CopiedIsShelved' /\ Import!OnePartAtWork' /\ Import!RowsAccounted'
    BY <1>i, <2>1, ImportGoto
  <2>3. Import!Importing(j) /\ s7'[j].pc = "sent"
    BY <1>s, <2>1 DEF Import!Importing
  <2>4. Import!EntryOwned'
    BY <1>i, <1>s, <2>1, <2>3, ImportEntry
  <2>5. Import!TypeOK'
    BY <1>i, <2>1, <2>2 DEF Import!TypeOK
  <2> QED
    BY <2>2, <2>4, <2>5 DEF Import!ImportInv
<1>6. ASSUME NEW j \in Job, Import!Begin(j) PROVE Import!ImportInv'
  <2> DEFINE f == IF s7[j].asIs THEN [a \in Song |-> IF \E t \in s2 : s10[t] = a THEN "todo" ELSE "none"]
                  ELSE s7[j].part
             b == [s7[j] EXCEPT !.pc = "tags", !.todo = s2, !.part = f]
  <2>1. /\ s7[j].pc = "sent" /\ Import!SetStatus(j, "in_progress")
        /\ s7' = [s7 EXCEPT ![j].pc = "tags", ![j].todo = s2, ![j].part = f]
        /\ UNCHANGED <<s1, s2, s3, s4, s6, s8, s10>> /\ "in_progress" \in Import!Status
    BY <1>6, <1>t DEF Import!Begin, Import!files, Import!Status
  <2>2. s7' = [s7 EXCEPT ![j] = b]
    BY ONLY <2>1, <1>t DEF Import!JobRecord
  <2>3. /\ s7[j].part \in [Song -> Import!PartState] /\ s2 \in SUBSET Song
        /\ s10 \in [Song -> Song]
    BY <1>i, <1>t DEF Import!TypeOK, Import!JobRecord
  <2>4. f \in [Song -> Import!PartState]
    BY <2>3 DEF Import!PartState
  <2>5. /\ s7[j].asIs => \A a \in Song : /\ f[a] = "todo" <=> \E t \in s2 : s10[t] = a
                                         /\ f[a] \in {"todo", "none"}
        /\ ~ s7[j].asIs => f = s7[j].part
    OBVIOUS
  <2> HIDE DEF f
  <2>6. /\ b \in Import!JobRecord /\ b.pc = "tags" /\ b.asIs = s7[j].asIs
        /\ b.replace = s7[j].replace /\ b.part = f /\ b.todo = s2
        /\ b.removed = s7[j].removed
    BY ONLY <1>t, <2>3, <2>4, j \in Job DEF Import!JobRecord, Import!JobPc
  <2> HIDE DEF b
  <2>7. s7' \in [Job -> Import!JobRecord] /\ s7'[j] = b /\ \A i \in Job : i # j => s7'[i] = s7[i]
    BY ONLY <1>t, <2>2, <2>6
  <2>8. Import!EntryOwned' /\ s5' \in [job : Job \cup {None}, status : Import!Status] /\ s9' \in BOOLEAN
    <3>1. Import!Importing(j) /\ s7'[j].pc = "tags"
      BY <2>1, <2>6, <2>7 DEF Import!Importing
    <3> QED
      BY <1>i, <2>1, <2>7, <3>1, ImportStatus
  <2>9. Import!TypeOK'
    BY <1>i, <2>1, <2>7, <2>8 DEF Import!TypeOK
  <2>10. Import!CopiedIsShelved'
    <3>1. \A i \in Job : i # j => (Import!AtWork(i)' <=> Import!AtWork(i))
      BY <2>7 DEF Import!AtWork
    <3>2. \A t \in Song \ s7'[j].todo : Import!Shelved(t)' /\ s1' # "copy"
      BY <1>i, <2>1, <2>6, <2>7 DEF Import!CopiedIsShelved, Import!Shelved
    <3> QED
      BY <1>i, <2>1, <2>7, <3>1, <3>2 DEF Import!CopiedIsShelved, Import!Shelved
  <2>11. Import!PartsInOrder(j)'
    BY <1>p, <2>1, <2>3, <2>5, <2>6, <2>7 DEF Import!PartsInOrder, Import!AtWork
  <2>12. Import!OnePartAtWork'
    BY <1>i, <2>1, <2>7, <2>11, ImportOthers
  <2>13. Import!RowsAccounted'
    <3>1. \A a \in Song : s7[j].part[a] \in {"none", "todo"} /\ f[a] \in {"none", "todo"}
      BY <1>p, <2>1, <2>5 DEF Import!PartsInOrder
    <3>2. \A a \in Song : s7[j].part[a] = "todo" => f[a] = "todo"
      BY <1>p, <2>1, <2>5 DEF Import!PartsInOrder
    <3>3. \A i \in Job, a \in Song : Import!Candidate(i, a)' <=> Import!Candidate(i, a)
      BY <2>5, <2>6, <2>7 DEF Import!Candidate
    <3> QED
      BY <1>i, <2>1, <2>5, <2>6, <2>7, <3>1, <3>2, <3>3
         DEF Import!RowsAccounted, Import!Replaced, Import!Known
  <2> QED
    BY <2>8, <2>9, <2>10, <2>12, <2>13 DEF Import!ImportInv
<1>7. ASSUME NEW j \in Job, Import!WriteTags(j) PROVE Import!ImportInv'
  <2>1. /\ s7[j].pc = "tags" /\ s7' = [s7 EXCEPT ![j].pc = "parts"]
        /\ UNCHANGED <<s1, s2, s3, s4, s5, s6, s8, s9, s10>> /\ "parts" \in Import!JobPc
    BY <1>7 DEF Import!WriteTags, Import!Goto, Import!files, Import!JobPc
  <2>2. Import!AtWork(j) /\ \A a \in Song : s7[j].part[a] # "open"
    BY <1>p, <2>1 DEF Import!PartsInOrder, Import!AtWork
  <2>3. /\ s7' \in [Job -> Import!JobRecord]
        /\ Import!CopiedIsShelved' /\ Import!OnePartAtWork' /\ Import!RowsAccounted'
    BY <1>i, <2>1, <2>2, ImportGoto
  <2>4. Import!Importing(j) /\ s7'[j].pc = "parts"
    BY <1>s, <2>1 DEF Import!Importing
  <2>5. Import!EntryOwned'
    BY <1>i, <1>s, <2>1, <2>4, ImportEntry
  <2>6. Import!TypeOK'
    BY <1>i, <2>1, <2>3 DEF Import!TypeOK
  <2> QED
    BY <2>3, <2>5, <2>6 DEF Import!ImportInv
<1>8. ASSUME NEW j \in Job, Import!NextPart(j) PROVE Import!ImportInv'
  <2>1. /\ s7[j].pc = "parts" /\ UNCHANGED <<s1, s2, s3, s4, s5, s6, s8, s9, s10>>
    BY <1>8 DEF Import!NextPart, Import!files
  <2>0. PICK a \in Song : \E found \in Import!FindExisting(a) :
          /\ s7[j].part[a] = "todo"
          /\ IF s7[j].asIs /\ found
               THEN s7' = [s7 EXCEPT ![j].part[a] = "skipped"]
               ELSE s7' = [s7 EXCEPT ![j].part[a] = "open", ![j].pc = "copy"]
    BY <1>8 DEF Import!NextPart
  <2>2. PICK found \in Import!FindExisting(a) :
          /\ s7[j].part[a] = "todo"
          /\ IF s7[j].asIs /\ found
               THEN s7' = [s7 EXCEPT ![j].part[a] = "skipped"]
               ELSE s7' = [s7 EXCEPT ![j].part[a] = "open", ![j].pc = "copy"]
    BY <2>0
  <2> DEFINE skip == s7[j].asIs /\ found
             p == IF skip THEN "parts" ELSE "copy"
             st == IF skip THEN "skipped" ELSE "open"
             f == [s7[j].part EXCEPT ![a] = st]
             b == [s7[j] EXCEPT !.pc = p, !.part = f]
  <2>3. s7' = [s7 EXCEPT ![j] = b]
    <3>1. CASE skip
      <4>1. s7' = [s7 EXCEPT ![j].part[a] = "skipped"] /\ p = "parts" /\ st = "skipped"
        BY <3>1, <2>2
      <4>2. s7[j].pc = p /\ s7[j] \in Import!JobRecord
        BY <4>1, <2>1, <1>t
      <4> HIDE DEF p, st, skip
      <4>3. [s7[j] EXCEPT !.part[a] = st] = b
        BY ONLY <4>2 DEF Import!JobRecord
      <4> QED
        BY ONLY <1>t, <4>1, <4>3
    <3>2. CASE ~ skip
      <4>1. s7' = [s7 EXCEPT ![j].part[a] = "open", ![j].pc = "copy"] /\ p = "copy" /\ st = "open"
        BY <3>2, <2>2
      <4> HIDE DEF p, st, skip
      <4> QED
        BY ONLY <1>t, <4>1 DEF Import!JobRecord
    <3> QED
      BY <3>1, <3>2
  <2>4. s7[j].part \in [Song -> Import!PartState]
    BY ONLY <1>t, j \in Job DEF Import!JobRecord
  <2>5. /\ st \in {"skipped", "open"} /\ (st = "skipped" <=> skip) /\ (st = "skipped" <=> p = "parts")
        /\ (st = "open" <=> p = "copy") /\ p \in {"parts", "copy"}
        /\ st = "skipped" => s7[j].asIs /\ s4[a] # {}
    BY <2>2 DEF Import!FindExisting
  <2> HIDE DEF st, p
  <2>6. /\ f \in [Song -> Import!PartState] /\ f[a] = st
        /\ \A c \in Song : c # a => f[c] = s7[j].part[c]
    BY ONLY <2>4, <2>5, a \in Song DEF Import!PartState
  <2> HIDE DEF f
  <2>7. /\ b \in Import!JobRecord /\ b.pc = p /\ b.asIs = s7[j].asIs
        /\ b.replace = s7[j].replace /\ b.part = f /\ b.todo = s7[j].todo
        /\ b.removed = s7[j].removed
    BY ONLY <1>t, <2>5, <2>6, j \in Job DEF Import!JobRecord, Import!JobPc
  <2> HIDE DEF b
  <2>8. s7' \in [Job -> Import!JobRecord] /\ s7'[j] = b /\ \A i \in Job : i # j => s7'[i] = s7[i]
    BY ONLY <1>t, <2>3, <2>7
  <2>9. \A i \in Job : /\ Import!AtWork(i)' <=> Import!AtWork(i)
                       /\ s7'[i].todo = s7[i].todo /\ s7'[i].asIs = s7[i].asIs
                       /\ s7'[i].removed = s7[i].removed /\ s7'[i].replace = s7[i].replace
                       /\ \A c \in Song : s7'[i].part[c] # "none" <=> s7[i].part[c] # "none"
    BY <2>1, <2>2, <2>5, <2>6, <2>7, <2>8 DEF Import!AtWork
  <2>10. Import!TypeOK'
    BY <1>i, <2>1, <2>8 DEF Import!TypeOK
  <2>11. Import!EntryOwned'
    <3>1. Import!Importing(j) /\ s7'[j].pc # "create"
      BY <2>1, <2>5, <2>7, <2>8 DEF Import!Importing
    <3> QED
      BY <1>i, <2>1, <2>8, <3>1, ImportEntry
  <2>12. Import!CopiedIsShelved'
    BY <1>i, <2>1, <2>9 DEF Import!CopiedIsShelved, Import!Shelved
  <2>13. Import!PartsInOrder(j)'
    <3>1. Import!PartsInOrder(j) /\ \A c \in Song : s7[j].part[c] # "open"
      BY <1>p, <2>1 DEF Import!PartsInOrder
    <3>2. /\ s7'[j].pc = p /\ s7'[j].asIs = s7[j].asIs /\ s7'[j].todo = s7[j].todo
          /\ s7'[j].part = f
      BY <2>7, <2>8
    <3>3. \A c \in Song : /\ s7'[j].part[c] # "none" <=> s7[j].part[c] # "none"
                          /\ s7'[j].part[c] = "open" => c = a
                          /\ s7'[j].part[c] \in {"added", "silent"} <=>
                               s7[j].part[c] \in {"added", "silent"}
                          /\ s7'[j].part[c] = "skipped" => s7[j].part[c] = "skipped" \/ s7[j].asIs
                          /\ s7'[j].part[c] = "open" => p = "copy"
      BY <2>2, <2>5, <2>6, <3>1, <3>2
    <3>4. Import!AtWork(j) /\ Import!AtWork(j)'
      BY <2>1, <2>9 DEF Import!AtWork
    <3>5. ~ s7'[j].asIs =>
            /\ \A c, d \in Song : s7'[j].part[c] # "none" /\ s7'[j].part[d] # "none" => c = d
            /\ \E c \in Song : s7'[j].part[c] # "none"
            /\ \A c \in Song : s7'[j].part[c] # "skipped"
      BY <2>1, <3>1, <3>2, <3>3 DEF Import!PartsInOrder
    <3>6. \A u \in s7'[j].todo, c \in Song :
            s7'[j].part[c] \in {"added", "silent"} => s7'[j].asIs /\ s10'[u] # c
      BY <2>1, <3>1, <3>2, <3>3, <3>4 DEF Import!PartsInOrder
    <3>7. s7'[j].asIs => \A u \in s7'[j].todo : s7'[j].part[s10'[u]] # "none"
      <4> SUFFICES ASSUME s7'[j].asIs, NEW u \in s7'[j].todo PROVE s7'[j].part[s10'[u]] # "none"
        OBVIOUS
      <4>1. s10[u] \in Song /\ s7[j].part[s10[u]] # "none"
        BY <1>i, <1>t, <3>1, <3>2, <3>4 DEF Import!PartsInOrder, Import!TypeOK, Import!JobRecord
      <4> QED
        BY <2>1, <3>3, <4>1
    <3> QED
      BY <2>5, <3>2, <3>3, <3>5, <3>6, <3>7 DEF Import!PartsInOrder
  <2>14. Import!OnePartAtWork'
    BY <1>i, <2>1, <2>8, <2>13, ImportOthers
  <2>15. Import!RowsAccounted'
    <3>1. \A i \in Job, c \in Song : Import!Candidate(i, c)' <=> Import!Candidate(i, c)
      BY <2>9 DEF Import!Candidate
    <3>2. \A i \in Job : s7'[i].pc \in {"idle", "replace"} => s7[i].pc \in {"idle", "replace"}
      BY <2>5, <2>7, <2>8
    <3>3. \A i \in Job, c \in Song : /\ s7'[i].part[c] = "added" => s7[i].part[c] = "added"
                                     /\ s7'[i].part[c] = "skipped" =>
                                          s7[i].part[c] = "skipped" \/ s4[c] # {}
                                     /\ s7[i].part[c] \in {"todo", "open", "silent"} =>
                                          s7'[i].part[c] \in {"todo", "open", "silent"} \/ s4[c] # {}
      BY <2>5, <2>6, <2>7, <2>8
    <3>4. \A i \in Job : s7'[i].pc = "replace" => s7[i].pc = "replace"
      BY <2>5, <2>7, <2>8
    <3> QED
      BY <1>i, <2>1, <2>9, <3>1, <3>2, <3>3, <3>4
         DEF Import!RowsAccounted, Import!Replaced, Import!Known
  <2> QED
    BY <2>10, <2>11, <2>12, <2>14, <2>15 DEF Import!ImportInv
<1>9. ASSUME NEW j \in Job, Import!CopyFile(j) PROVE Import!ImportInv'
  <2>1. /\ s7[j].pc = "copy" /\ UNCHANGED <<s1, s4, s5, s6, s8, s9, s10>>
    BY <1>9 DEF Import!CopyFile
  <2>2. PICK a \in Song : s7[j].part[a] = "open" /\ \E t \in Import!PartFiles(j) \cap s2 :
          /\ s3' = [s3 EXCEPT ![a][t] = "new"]
          /\ s2' = IF s1 = "move" THEN s2 \ {t} ELSE s2
          /\ s7' = [s7 EXCEPT ![j].todo = @ \ {t},
                              ![j].pc = IF Import!PartFiles(j) = {t} THEN "register" ELSE "copy"]
    BY <1>9 DEF Import!CopyFile
  <2>3. PICK t \in Import!PartFiles(j) \cap s2 :
          /\ s3' = [s3 EXCEPT ![a][t] = "new"]
          /\ s2' = IF s1 = "move" THEN s2 \ {t} ELSE s2
          /\ s7' = [s7 EXCEPT ![j].todo = @ \ {t},
                              ![j].pc = IF Import!PartFiles(j) = {t} THEN "register" ELSE "copy"]
    BY <2>2
  <2> DEFINE p == IF Import!PartFiles(j) = {t} THEN "register" ELSE "copy"
             w == s7[j].todo \ {t}
             b == [s7[j] EXCEPT !.todo = w, !.pc = p]
  <2>4. s7' = [s7 EXCEPT ![j] = b]
    BY ONLY <2>3, <1>t DEF Import!JobRecord
  <2>5. /\ s3 \in [Song -> [Song -> {"none", "old", "new"}]] /\ s2 \in SUBSET Song
        /\ s7[j].todo \in SUBSET Song /\ s10 \in [Song -> Song]
    BY <1>i, <1>t DEF Import!TypeOK, Import!JobRecord
  <2>6. t \in s7[j].todo /\ t \in s2 /\ t \in Song
        /\ (s7[j].asIs => s7[j].part[s10[t]] = "open")
    BY <2>5 DEF Import!PartFiles
  <2>7. p \in {"copy", "register"} /\ (p = "register" => Import!PartFiles(j) = {t})
        /\ w \in SUBSET Song
    BY <2>5
  <2> HIDE DEF p, w
  <2>8. /\ b \in Import!JobRecord /\ b.pc = p /\ b.asIs = s7[j].asIs
        /\ b.replace = s7[j].replace /\ b.part = s7[j].part /\ b.todo = w
        /\ b.removed = s7[j].removed
    BY ONLY <1>t, <2>7, j \in Job DEF Import!JobRecord, Import!JobPc
  <2> HIDE DEF b
  <2>9. s7' \in [Job -> Import!JobRecord] /\ s7'[j] = b /\ \A i \in Job : i # j => s7'[i] = s7[i]
    BY ONLY <1>t, <2>4, <2>8
  <2>10. \A i \in Job : /\ Import!AtWork(i)' <=> Import!AtWork(i)
                        /\ s7'[i].part = s7[i].part /\ s7'[i].asIs = s7[i].asIs
                        /\ s7'[i].removed = s7[i].removed /\ s7'[i].replace = s7[i].replace
    BY <2>1, <2>7, <2>8, <2>9 DEF Import!AtWork
  <2>11. /\ s3' \in [Song -> [Song -> {"none", "old", "new"}]] /\ s3'[a][t] = "new"
         /\ \A c, u \in Song : s3'[c][u] = s3[c][u] \/ (c = a /\ u = t)
    BY ONLY <2>3, <2>5, <2>6, a \in Song
  <2>12. Import!TypeOK'
    <3>1. s2' \subseteq Song
      BY <2>3, <2>5
    <3> QED
      BY <1>i, <2>1, <2>9, <2>11, <3>1 DEF Import!TypeOK
  <2>13. Import!EntryOwned'
    <3>1. Import!Importing(j) /\ s7'[j].pc # "create"
      BY <2>1, <2>7, <2>8, <2>9 DEF Import!Importing
    <3> QED
      BY <1>i, <2>1, <2>9, <3>1, ImportEntry
  <2>14. Import!CopiedIsShelved'
    <3>1. \A u \in Song : Import!Shelved(u) => Import!Shelved(u)'
      BY <2>11 DEF Import!Shelved
    <3>2. Import!Shelved(t)'
      BY <2>11 DEF Import!Shelved
    <3>3. \A u \in Song : u \in s2' \/ Import!Shelved(u)'
      BY <1>i, <2>3, <3>1, <3>2 DEF Import!CopiedIsShelved
    <3>4. s1' = "copy" => s2' = Song
      BY <1>i, <2>1, <2>3 DEF Import!CopiedIsShelved
    <3>5. ASSUME NEW i \in Job, Import!AtWork(i)', NEW u \in Song \ s7'[i].todo, u \in s7[i].todo
          PROVE  i = j /\ u = t
      BY <3>5, <2>8, <2>9 DEF w
    <3>6. ASSUME s1 = "copy", NEW c \in Song, s7[j].part[c] # "none", s7[j].asIs => s10[t] = c
          PROVE  s3'[c][t] = "new"
      <4>1. c = a
        BY <3>6, <1>p, <2>1, <2>2, <2>5, <2>6 DEF Import!PartsInOrder
      <4> QED
        BY <4>1, <2>11
    <3>7. ASSUME NEW i \in Job, Import!AtWork(i)', NEW u \in Song \ s7'[i].todo
          PROVE  /\ Import!Shelved(u)'
                 /\ s1' = "copy" => \A c \in Song :
                      s7'[i].part[c] # "none" /\ (s7'[i].asIs => s10'[u] = c) => s3'[c][u] = "new"
      <4>1. CASE u \in s7[i].todo
        <5>1. i = j /\ u = t
          BY <3>5, <3>7, <4>1
        <5> QED
          BY <5>1, <3>2, <3>6, <2>1, <2>10
      <4>2. CASE u \notin s7[i].todo
        <5>1. /\ Import!Shelved(u)
              /\ s1 = "copy" => \A c \in Song :
                   s7[i].part[c] # "none" /\ (s7[i].asIs => s10[u] = c) => s3[c][u] = "new"
          BY <4>2, <3>7, <1>i, <2>10 DEF Import!CopiedIsShelved
        <5> QED
          BY <5>1, <3>1, <2>1, <2>10, <2>11
      <4> QED
        BY <4>1, <4>2
    <3> QED
      BY <3>3, <3>4, <3>7 DEF Import!CopiedIsShelved
  <2>15. Import!PartsInOrder(j)'
    <3>1. p = "register" => Import!PartFiles(j)' = {}
      BY <2>1, <2>7, <2>8, <2>9 DEF Import!PartFiles, w
    <3>2. Import!PartsInOrder(j)
      BY <1>p
    <3>3. /\ s7'[j].pc = p /\ s7'[j].asIs = s7[j].asIs /\ s7'[j].part = s7[j].part
          /\ s7'[j].todo \subseteq s7[j].todo
      BY <2>8, <2>9 DEF w
    <3>4. Import!AtWork(j) /\ Import!AtWork(j)'
      BY <2>1, <2>10 DEF Import!AtWork
    <3> QED
      BY <2>1, <2>7, <3>1, <3>2, <3>3, <3>4 DEF Import!PartsInOrder
  <2>16. Import!OnePartAtWork'
    BY <1>i, <2>1, <2>9, <2>15, ImportOthers
  <2>17. Import!RowsAccounted'
    <3>1. \A i \in Job, c \in Song : Import!Candidate(i, c)' <=> Import!Candidate(i, c)
      BY <2>10 DEF Import!Candidate
    <3>2. \A i \in Job : /\ s7'[i].pc \in {"idle", "replace"} => s7[i].pc \in {"idle", "replace"}
                         /\ s7'[i].pc = "replace" => s7[i].pc = "replace"
      BY <2>7, <2>8, <2>9
    <3>3. \A c, u \in Song : /\ s3'[c][u] = "old" => s3[c][u] = "old"
                             /\ s3'[c][u] # "none" => s3[c][u] # "none" \/ s7[j].part[c] = "open"
      BY <2>2, <2>11
    <3> QED
      BY <1>i, <2>1, <2>10, <3>1, <3>2, <3>3
         DEF Import!RowsAccounted, Import!Replaced, Import!Known
  <2> QED
    BY <2>12, <2>13, <2>14, <2>16, <2>17 DEF Import!ImportInv
<1>10. ASSUME NEW j \in Job, Import!ImportRefused(j) \/ Import!Fail(j) PROVE Import!ImportInv'
  <2>1. /\ s7[j].pc \in {"tags", "parts", "copy", "register", "record"}
        /\ s7' = [s7 EXCEPT ![j].pc = "failed"] /\ Import!SetStatus(j, "failed")
        /\ UNCHANGED <<s1, s2, s3, s4, s6, s10>>
        /\ "failed" \in Import!JobPc /\ "failed" \in Import!Status
    BY <1>10 DEF Import!ImportRefused, Import!Fail, Import!RecordFailure, Import!Goto, Import!files,
       Import!JobPc, Import!Status
  <2>2. s8' \in 0..MaxImportFaults
    BY <1>10, <1>i DEF Import!ImportRefused, Import!Fail, Import!Fault, Import!TypeOK
  <2>3. /\ s7' \in [Job -> Import!JobRecord]
        /\ Import!CopiedIsShelved' /\ Import!OnePartAtWork' /\ Import!RowsAccounted'
    BY <1>i, <2>1, ImportGoto
  <2>4. s7[j].pc = "record" \/ Import!Importing(j)
    BY <2>1 DEF Import!Importing
  <2>5. s7'[j].pc = "failed" /\ ~ Import!Importing(j)'
    BY <1>s, <2>1 DEF Import!Importing
  <2>6. Import!EntryOwned' /\ s5' \in [job : Job \cup {None}, status : Import!Status] /\ s9' \in BOOLEAN
    BY <1>i, <1>s, <2>1, <2>4, <2>5, ImportStatus
  <2>7. Import!TypeOK'
    BY <1>i, <2>1, <2>2, <2>3, <2>6 DEF Import!TypeOK
  <2> QED
    BY <2>3, <2>6, <2>7 DEF Import!ImportInv
<1>11. ASSUME NEW j \in Job, Import!Register(j) PROVE Import!ImportInv'
  <2>1. s7[j].pc = "register" /\ UNCHANGED <<s1, s2, s3, s5, s6, s9, s10>>
    BY <1>11 DEF Import!Register, Import!files
  <2>2. PICK a \in Song, st \in {"added", "silent"} :
          /\ s7[j].part[a] = "open"
          /\ s7' = [s7 EXCEPT ![j].pc = "parts", ![j].part[a] = st]
          /\ s4' = IF st = "added" THEN [s4 EXCEPT ![a] = @ \cup {j}] ELSE s4
          /\ s8' = IF st = "added" THEN s8 ELSE s8 + 1
          /\ st = "silent" => s8 < MaxImportFaults
    BY <1>11 DEF Import!Register, Import!Fault
  <2> DEFINE f == [s7[j].part EXCEPT ![a] = st]
             b == [s7[j] EXCEPT !.pc = "parts", !.part = f]
  <2>3. s7' = [s7 EXCEPT ![j] = b]
    BY ONLY <2>2, <1>t DEF Import!JobRecord
  <2>4. s7[j].part \in [Song -> Import!PartState]
    BY ONLY <1>t, j \in Job DEF Import!JobRecord
  <2>5. /\ f \in [Song -> Import!PartState] /\ f[a] = st
        /\ \A c \in Song : c # a => f[c] = s7[j].part[c]
    BY ONLY <2>4, a \in Song, st \in {"added", "silent"} DEF Import!PartState
  <2> HIDE DEF f
  <2>6. /\ b \in Import!JobRecord /\ b.pc = "parts" /\ b.asIs = s7[j].asIs
        /\ b.replace = s7[j].replace /\ b.part = f /\ b.todo = s7[j].todo
        /\ b.removed = s7[j].removed
    BY ONLY <1>t, <2>5, j \in Job DEF Import!JobRecord, Import!JobPc
  <2> HIDE DEF b
  <2>7. s7' \in [Job -> Import!JobRecord] /\ s7'[j] = b /\ \A i \in Job : i # j => s7'[i] = s7[i]
    BY ONLY <1>t, <2>3, <2>6
  <2>8. \A i \in Job : /\ Import!AtWork(i)' <=> Import!AtWork(i)
                       /\ s7'[i].todo = s7[i].todo /\ s7'[i].asIs = s7[i].asIs
                       /\ s7'[i].removed = s7[i].removed /\ s7'[i].replace = s7[i].replace
                       /\ \A c \in Song : s7'[i].part[c] # "none" <=> s7[i].part[c] # "none"
    BY <2>1, <2>2, <2>5, <2>6, <2>7 DEF Import!AtWork
  <2>9. /\ s4' \in [Song -> SUBSET (Job \cup {Old})] /\ \A c \in Song : s4[c] \subseteq s4'[c]
        /\ \A c \in Song : c # a => s4'[c] = s4[c]
        /\ st = "added" => j \in s4'[a]
    BY <1>i, <2>2 DEF Import!TypeOK
  <2>10. Import!TypeOK'
    BY <1>i, <2>1, <2>2, <2>7, <2>9 DEF Import!TypeOK
  <2>11. Import!EntryOwned'
    <3>1. Import!Importing(j) /\ s7'[j].pc # "create"
      BY <2>1, <2>6, <2>7 DEF Import!Importing
    <3> QED
      BY <1>i, <2>1, <2>7, <3>1, ImportEntry
  <2>12. Import!CopiedIsShelved'
    BY <1>i, <2>1, <2>8 DEF Import!CopiedIsShelved, Import!Shelved
  <2>13. Import!PartsInOrder(j)'
    <3>1. Import!PartsInOrder(j) /\ Import!AtWork(j) /\ Import!AtWork(j)'
      BY <1>p, <2>1, <2>8 DEF Import!AtWork
    <3>2. /\ s7'[j].pc = "parts" /\ s7'[j].asIs = s7[j].asIs /\ s7'[j].todo = s7[j].todo
          /\ s7'[j].part = f
      BY <2>6, <2>7
    <3>3. \A c \in Song : /\ s7'[j].part[c] # "none" <=> s7[j].part[c] # "none"
                          /\ s7'[j].part[c] # "open"
                          /\ s7'[j].part[c] = "skipped" => s7[j].part[c] = "skipped"
                          /\ s7'[j].part[c] \in {"added", "silent"} =>
                               s7[j].part[c] \in {"added", "silent"} \/ c = a
      BY <2>1, <2>2, <2>5, <3>1, <3>2 DEF Import!PartsInOrder
    <3>4. s7[j].todo \in SUBSET Song /\ s10 \in [Song -> Song]
      BY <1>i, <1>t DEF Import!TypeOK, Import!JobRecord
    <3>5. s7[j].asIs => \A u \in s7[j].todo : s10[u] # a
      BY <2>1, <2>2, <3>1, <3>4 DEF Import!PartsInOrder, Import!PartFiles
    <3>6. ~ s7[j].asIs => s7[j].todo = {}
      BY <2>1, <3>1, <3>4 DEF Import!PartsInOrder, Import!PartFiles
    <3>7. \A u \in s7'[j].todo, c \in Song :
            s7'[j].part[c] \in {"added", "silent"} => s7'[j].asIs /\ s10'[u] # c
      BY <2>1, <3>1, <3>2, <3>3, <3>5, <3>6 DEF Import!PartsInOrder
    <3>8. s7'[j].asIs => \A u \in s7'[j].todo : s7'[j].part[s10'[u]] # "none"
      BY <2>1, <3>1, <3>2, <3>3, <3>4 DEF Import!PartsInOrder
    <3>9. ~ s7'[j].asIs =>
            /\ \A c, d \in Song : s7'[j].part[c] # "none" /\ s7'[j].part[d] # "none" => c = d
            /\ \E c \in Song : s7'[j].part[c] # "none"
            /\ \A c \in Song : s7'[j].part[c] # "skipped"
      BY <2>1, <3>1, <3>2, <3>3 DEF Import!PartsInOrder
    <3> QED
      BY <3>2, <3>3, <3>7, <3>8, <3>9 DEF Import!PartsInOrder
  <2>14. Import!OnePartAtWork'
    BY <1>i, <2>1, <2>7, <2>13, ImportOthers
  <2>15. Import!RowsAccounted'
    <3>1. \A i \in Job, c \in Song : Import!Candidate(i, c)' <=> Import!Candidate(i, c)
      BY <2>8 DEF Import!Candidate
    <3>2. \A i \in Job : /\ s7'[i].pc \in {"idle", "replace"} => s7[i].pc \in {"idle", "replace"}
                         /\ s7'[i].pc = "replace" => s7[i].pc = "replace"
      BY <2>6, <2>7
    <3>3. \A i \in Job, c \in Song :
            /\ s7'[i].part[c] = "added" => s7[i].part[c] = "added" \/ i \in s4'[c]
            /\ s7'[i].part[c] = "skipped" => s7[i].part[c] = "skipped"
            /\ s7[i].part[c] \in {"todo", "open", "silent"} =>
                 s7'[i].part[c] \in {"todo", "open", "silent"} \/ s4'[c] # {}
      BY <2>2, <2>5, <2>6, <2>7, <2>9
    <3> QED
      BY <1>i, <2>1, <2>8, <2>9, <3>1, <3>2, <3>3
         DEF Import!RowsAccounted, Import!Replaced, Import!Known
  <2> QED
    BY <2>10, <2>11, <2>12, <2>14, <2>15 DEF Import!ImportInv
<1>12. ASSUME NEW j \in Job, Import!Report(j) PROVE Import!ImportInv'
  <2>1. /\ s7[j].pc = "parts" /\ s7' = [s7 EXCEPT ![j].pc = "record"]
        /\ UNCHANGED <<s1, s2, s3, s4, s8, s10>> /\ Import!SetStatus(j, "completed")
        /\ "record" \in Import!JobPc /\ "completed" \in Import!Status
        /\ \A a \in Song : s7[j].part[a] # "todo"
        /\ \E a \in Song : s7[j].part[a] \in {"added", "silent"}
    BY <1>12 DEF Import!Report, Import!PartsDone, Import!PartsIn, Import!Goto, Import!files,
       Import!JobPc, Import!Status
  <2>2. s6' \in BOOLEAN
    BY <1>12, <1>i DEF Import!Report, Import!TypeOK
  <2>3. Import!AtWork(j) /\ \A a \in Song : s7[j].part[a] # "open"
    BY <1>p, <2>1 DEF Import!PartsInOrder, Import!AtWork
  <2>4. /\ s7' \in [Job -> Import!JobRecord]
        /\ Import!CopiedIsShelved' /\ Import!OnePartAtWork' /\ Import!RowsAccounted'
    BY <1>i, <2>1, <2>3, ImportGoto
  <2>5. Import!Importing(j) /\ s7'[j].pc = "record" /\ ~ Import!Importing(j)'
    BY <1>s, <2>1 DEF Import!Importing
  <2>6. Import!EntryOwned' /\ s5' \in [job : Job \cup {None}, status : Import!Status] /\ s9' \in BOOLEAN
    BY <1>i, <1>s, <2>1, <2>5, ImportStatus
  <2>7. Import!TypeOK'
    BY <1>i, <2>1, <2>2, <2>4, <2>6 DEF Import!TypeOK
  <2> QED
    BY <2>4, <2>6, <2>7 DEF Import!ImportInv
<1>13. ASSUME NEW j \in Job, Import!Record(j) PROVE Import!ImportInv'
  <2>1. /\ s7[j].pc = "record" /\ s7' = [s7 EXCEPT ![j].pc = "completed"]
        /\ UNCHANGED <<s1, s2, s3, s4, s5, s6, s8, s9, s10>> /\ "completed" \in Import!JobPc
    BY <1>13 DEF Import!Record, Import!Goto, Import!files, Import!JobPc
  <2>2. /\ Import!AtWork(j) /\ \A a \in Song : s7[j].part[a] # "open"
        /\ \A a \in Song : s7[j].part[a] # "todo"
        /\ \E a \in Song : s7[j].part[a] \in {"added", "silent"}
    BY <1>p, <2>1 DEF Import!PartsInOrder, Import!AtWork
  <2>3. /\ s7' \in [Job -> Import!JobRecord]
        /\ Import!CopiedIsShelved' /\ Import!OnePartAtWork' /\ Import!RowsAccounted'
    BY <1>i, <2>1, <2>2, ImportGoto
  <2>4. ~ Import!Importing(j)' /\ s7'[j].pc = "completed"
    BY <1>s, <2>1 DEF Import!Importing
  <2>5. Import!EntryOwned'
    BY <1>i, <1>s, <2>1, <2>4, ImportEntry
  <2>6. Import!TypeOK'
    BY <1>i, <2>1, <2>3 DEF Import!TypeOK
  <2> QED
    BY <2>3, <2>5, <2>6 DEF Import!ImportInv
<1>14. ASSUME NEW j \in Job, Import!Lose(j) PROVE Import!ImportInv'
  <2>1. /\ s7[j].pc # "idle" /\ s7' = [s7 EXCEPT ![j].pc = "lost"]
        /\ UNCHANGED <<s1, s2, s3, s4, s5, s6, s9, s10>> /\ "lost" \in Import!JobPc
    BY <1>14 DEF Import!Lose, Import!Goto, Import!files, Import!JobPc
  <2>2. s8' \in 0..MaxImportFaults
    BY <1>14, <1>i DEF Import!Lose, Import!Fault, Import!TypeOK
  <2>3. /\ s7' \in [Job -> Import!JobRecord]
        /\ Import!CopiedIsShelved' /\ Import!OnePartAtWork' /\ Import!RowsAccounted'
    BY <1>i, <2>1, ImportGoto
  <2>4. ~ Import!Importing(j)' /\ s7'[j].pc = "lost"
    BY <1>s, <2>1 DEF Import!Importing
  <2>5. Import!EntryOwned'
    BY <1>i, <1>s, <2>1, <2>4, ImportEntry
  <2>6. Import!TypeOK'
    BY <1>i, <2>1, <2>2, <2>3 DEF Import!TypeOK
  <2> QED
    BY <2>3, <2>5, <2>6 DEF Import!ImportInv
<1>15. ASSUME Import!DoneExpires PROVE Import!ImportInv'
  <2>1. UNCHANGED <<s1, s2, s3, s4, s5, s7, s8, s9, s10>> /\ s6' = FALSE
    BY <1>15 DEF Import!DoneExpires, Import!files
  <2>2. Import!TypeOK'
    BY <1>i, <2>1 DEF Import!TypeOK
  <2>4. Import!EntryOwned'
    BY <1>i, <2>1 DEF Import!EntryOwned, Import!Importing, Import!Active
  <2>5. Import!CopiedIsShelved'
    BY <1>i, <2>1 DEF Import!CopiedIsShelved, Import!Shelved, Import!AtWork
  <2>3. Import!OnePartAtWork' /\ Import!RowsAccounted'
    BY <1>i, <2>1 DEF Import!OnePartAtWork, Import!PartsInOrder, Import!PartFiles, Import!AtWork,
       Import!RowsAccounted, Import!Replaced, Import!Candidate, Import!Known
  <2> QED
    BY <2>2, <2>3, <2>4, <2>5 DEF Import!ImportInv
<1> QED
  BY <1>1, <1>2, <1>3, <1>4, <1>5, <1>6, <1>7, <1>8, <1>9, <1>10, <1>11, <1>12, <1>13, <1>14,
     <1>15 DEF Import!Next, Import!JobStep

(***************************************************************************)
(* Uploads (upload_files)                                                  *)
(***************************************************************************)

\* At first nothing was written.
LEMMA UploadInit == Uploading!Init => Uploading!UploadInv
<1> SUFFICES ASSUME Uploading!Init PROVE Uploading!UploadInv
  OBVIOUS
<1> USE BoundsAssumption, PathAssumption DEF BoundsAssumption, PathAssumption, Uploading!Init,
   Uploading!NoUpload, Uploading!Before, Uploading!Nothing
<1>1. Uploading!UploadTypeOK
  <2>1. s2 \in [Post -> [pc : Uploading!UploadPc, paths : Seq(Path), at : 1 .. 2]]
    BY DEF Uploading!UploadPc
  <2>2. s1 \in [Path -> [by : SUBSET (Post \cup {"before"}), whole : BOOLEAN, open : SUBSET Post]]
    OBVIOUS
  <2>3. s4 = {} /\ s5 \in 0 .. MaxUploadFaults
    OBVIOUS
  <2>4. \A u \in Post : Len(s2[u].paths) = 0 /\ Uploading!Destinations(s2[u].paths) = {}
    BY DEF Uploading!Destinations
  <2> QED
    BY <2>1, <2>2, <2>3, <2>4 DEF Uploading!UploadTypeOK, Uploading!TypeOK, Uploading!UploadPc,
       Uploading!Admitted
<1>2. Uploading!WritersKnown /\ Uploading!ExistingKept
  BY DEF Uploading!WritersKnown, Uploading!ExistingKept, Uploading!Admitted
<1>3. Uploading!PathsApart /\ Uploading!OwnFilesWhole
  BY DEF Uploading!PathsApart, Uploading!OwnFilesWhole, Uploading!Admitted
<1> QED
  BY <1>1, <1>2, <1>3 DEF Uploading!UploadInv

\* The paths of an admitted upload, and that nobody who still writes or cleans
\* up has a path of one that mingled with none.
LEMMA UploadFacts ==
  ASSUME Uploading!UploadInv, NEW u \in Post, Uploading!Admitted(u)
  PROVE  /\ Uploading!Count(u) \in 1 .. 2 /\ s2[u].at \in 1 .. Uploading!Count(u)
         /\ \A n \in 1 .. Uploading!Count(u) : s2[u].paths[n] \in Path \ Taken
         /\ Uploading!At(u) \in Path \ Taken
         /\ Uploading!Finished(u) \subseteq 1 .. Uploading!Count(u)
         /\ s2[u].pc \in {"next", "writing", "clean"} =>
              \A w \in Post \ s3 : w # u /\ s2[w].pc \in {"next", "writing", "ok"} =>
                \A m \in 1 .. Uploading!Count(u), n \in 1 .. Uploading!Count(w) :
                  s2[w].paths[n] # s2[u].paths[m]
<1>1. s2[u].at \in 1 .. 2 /\ s2[u].paths \in Seq(Path)
  BY DEF Uploading!UploadInv, Uploading!UploadTypeOK
<1>2. Uploading!Count(u) \in Nat
  BY <1>1 DEF Uploading!Count
<1>3. s2[u].at <= Uploading!Count(u) /\ Uploading!Count(u) <= 2
  BY DEF Uploading!UploadInv, Uploading!UploadTypeOK, Uploading!TypeOK, Uploading!Count
<1>4. s2[u].at \in 1 .. 2
  BY <1>1
<1>5. Uploading!Count(u) \in 1 .. 2 /\ s2[u].at \in 1 .. Uploading!Count(u)
  BY <1>2, <1>3, <1>4
<1>6. \A n \in 1 .. Uploading!Count(u) : s2[u].paths[n] \in Path
  BY DEF Uploading!UploadInv, Uploading!UploadTypeOK, Uploading!TypeOK, Uploading!Destinations,
     Uploading!Count
<1>7. \A n \in 1 .. Uploading!Count(u) : s2[u].paths[n] \notin Taken
  BY DEF Uploading!UploadInv, Uploading!ExistingKept
<1>8. Uploading!At(u) \in Path \ Taken
  BY <1>5, <1>6, <1>7 DEF Uploading!At
<1>9. ASSUME s2[u].pc \in {"next", "writing", "clean"}, NEW w \in Post \ s3, w # u,
             s2[w].pc \in {"next", "writing", "ok"},
             NEW m \in 1 .. Uploading!Count(u), NEW n \in 1 .. Uploading!Count(w)
      PROVE  s2[w].paths[n] # s2[u].paths[m]
  BY <1>9 DEF Uploading!UploadInv, Uploading!PathsApart, Uploading!Admitted
<1>10. Uploading!Finished(u) \subseteq 1 .. Uploading!Count(u)
  BY <1>5 DEF Uploading!Finished
<1> QED
  BY <1>5, <1>6, <1>7, <1>8, <1>9, <1>10

\* Opening the next destination keeps UploadInv.
LEMMA UploadOpen ==
  ASSUME Uploading!UploadInv, NEW u \in Post, Uploading!OpenDestination(u)
  PROVE  Uploading!UploadInv'
<1> DEFINE A == Uploading!At(u)
           file == [by |-> {u}, whole |-> FALSE, open |-> s1[A].open \cup {u}]
<1>1. /\ s1 \in [Path -> [by : SUBSET (Post \cup {"before"}), whole : BOOLEAN, open : SUBSET Post]]
      /\ s2 \in [Post -> [pc : Uploading!UploadPc, paths : Seq(Path), at : 1 .. 2]]
  BY DEF Uploading!UploadInv, Uploading!UploadTypeOK, Uploading!TypeOK
<1>2. s2[u].pc = "next" /\ s1' = [s1 EXCEPT ![A] = file] /\ s2' = [s2 EXCEPT ![u].pc = "writing"]
  BY DEF Uploading!OpenDestination, Uploading!UploadGoto
<1>3. s3' = s3 /\ s4' = s4 /\ s5' = s5 /\ Uploading!Admitted(u)
  BY <1>2 DEF Uploading!OpenDestination, Uploading!Admitted
<1>4. /\ A \in Path \ Taken /\ s2[u].at \in 1 .. Uploading!Count(u)
      /\ Uploading!Count(u) \in 1 .. 2 /\ s2[u].pc = "next"
      /\ \A w \in Post \ s3 : w # u /\ s2[w].pc \in {"next", "writing", "ok"} =>
           \A n \in 1 .. Uploading!Count(w) : s2[w].paths[n] # A
  BY <1>2, <1>3, UploadFacts DEF Uploading!At
<1>5. /\ \A p \in Path \ {A} : s1'[p] = s1[p]
      /\ s1'[A].by = {u} /\ s1'[A].open = s1[A].open \cup {u}
  BY <1>1, <1>2, <1>4
<1>6. /\ \A v \in Post : s2'[v].paths = s2[v].paths /\ s2'[v].at = s2[v].at
      /\ \A v \in Post \ {u} : s2'[v].pc = s2[v].pc
      /\ s2'[u].pc = "writing"
  BY <1>1, <1>2
<1>7. \A v \in Post : /\ Uploading!Admitted(v)' <=> Uploading!Admitted(v)
                      /\ Uploading!At(v)' = Uploading!At(v) /\ Uploading!UpTo(v)' = Uploading!UpTo(v)
                      /\ Uploading!Count(v)' = Uploading!Count(v)
  BY <1>2, <1>6 DEF Uploading!Admitted, Uploading!At, Uploading!UpTo, Uploading!Count
<1>8. \A v \in Post : Uploading!Finished(v)' = Uploading!Finished(v)
  BY <1>4, <1>6, <1>7 DEF Uploading!Finished
<1> HIDE DEF A, file
<1>9. Uploading!UploadTypeOK'
  <2>1. s1' \in [Path -> [by : SUBSET (Post \cup {"before"}), whole : BOOLEAN, open : SUBSET Post]]
    BY <1>1, <1>2, <1>4 DEF file
  <2>2. s2' \in [Post -> [pc : Uploading!UploadPc, paths : Seq(Path), at : 1 .. 2]]
    BY <1>1, <1>2 DEF Uploading!UploadPc
  <2> QED
    BY <1>3, <1>6, <1>7, <2>1, <2>2 DEF Uploading!UploadInv, Uploading!UploadTypeOK,
       Uploading!TypeOK
<1>10. Uploading!WritersKnown'
  BY <1>4, <1>5, <1>6, <1>7 DEF Uploading!UploadInv, Uploading!WritersKnown, Uploading!Admitted,
     Uploading!UpTo, Uploading!At, A
<1>11. Uploading!ExistingKept'
  BY <1>4, <1>5, <1>6, <1>7, PathAssumption DEF PathAssumption, Uploading!UploadInv,
     Uploading!ExistingKept, Uploading!Before
<1>12. Uploading!PathsApart'
  BY <1>3, <1>4, <1>6, <1>7 DEF Uploading!UploadInv, Uploading!PathsApart
<1>13. Uploading!OwnFilesWhole'
  <2>1. ASSUME NEW w \in Post \ s3, w # u, s2[w].pc \in {"next", "writing", "ok"}, NEW n \in Uploading!Finished(w)
        PROVE  s1'[s2[w].paths[n]].by = {w} /\ s1'[s2[w].paths[n]].whole
    <3>1. Uploading!Admitted(w)
      BY <2>1 DEF Uploading!Admitted
    <3>2. n \in 1 .. Uploading!Count(w) /\ s2[w].paths[n] \in Path
      BY <3>1, UploadFacts
    <3>3. s1'[s2[w].paths[n]] = s1[s2[w].paths[n]]
      BY <1>4, <1>5, <2>1, <3>2
    <3> QED
      BY <2>1, <3>3 DEF Uploading!UploadInv, Uploading!OwnFilesWhole
  <2>2. ASSUME u \notin s3, NEW n \in Uploading!Finished(u)
        PROVE  s1'[s2[u].paths[n]].by = {u} /\ s1'[s2[u].paths[n]].whole
    <3>1. n \in 1 .. Uploading!Count(u) /\ s2[u].paths[n] \in Path
      BY <1>3, UploadFacts
    <3>2. n # s2[u].at
      BY <1>4 DEF Uploading!Finished
    <3>3. s2[u].paths[n] # A
      BY <1>3, <1>4, <2>2, <3>1, <3>2 DEF Uploading!UploadInv, Uploading!PathsApart, Uploading!At, A
    <3>4. s1'[s2[u].paths[n]] = s1[s2[u].paths[n]]
      BY <1>5, <3>1, <3>3
    <3> QED
      BY <1>4, <2>2, <3>4 DEF Uploading!UploadInv, Uploading!OwnFilesWhole
  <2>3. ASSUME NEW w \in Post \ s3, s2'[w].pc = "writing"
        PROVE  s1'[Uploading!At(w)].by = {w} /\ w \in s1'[Uploading!At(w)].open
    <3>1. CASE w = u
      BY <1>5, <3>1 DEF A
    <3>2. CASE w # u
      <4>1. s2[w].pc = "writing" /\ Uploading!Admitted(w)
        BY <1>6, <2>3, <3>2 DEF Uploading!Admitted
      <4>2. Uploading!At(w) \in Path /\ s2[w].at \in 1 .. Uploading!Count(w)
        BY <4>1, UploadFacts
      <4>3. Uploading!At(w) # A
        BY <1>4, <3>2, <4>1, <4>2 DEF Uploading!At
      <4>4. s1'[Uploading!At(w)] = s1[Uploading!At(w)]
        BY <1>5, <4>2, <4>3
      <4> QED
        BY <4>1, <4>4 DEF Uploading!UploadInv, Uploading!OwnFilesWhole
    <3> QED
      BY <3>1, <3>2
  <2>4. ASSUME NEW w \in Post \ s3, s2'[w].pc = "failed", NEW p \in Path, w \in s1'[p].by
        PROVE  p = Uploading!At(w) \/ <<w, p>> \in s4'
    <3>1. w # u /\ s2[w].pc = "failed"
      BY <1>6, <2>4
    <3>2. s1'[p] = s1[p]
      BY <1>5, <2>4, <3>1
    <3> QED
      BY <1>3, <2>4, <3>1, <3>2 DEF Uploading!UploadInv, Uploading!OwnFilesWhole
  <2> QED
    BY <1>3, <1>4, <1>6, <1>7, <1>8, <2>1, <2>2, <2>3, <2>4 DEF Uploading!OwnFilesWhole
<1> QED
  BY <1>9, <1>10, <1>11, <1>12, <1>13 DEF Uploading!UploadInv

\* A write that fails keeps UploadInv.
LEMMA UploadFail ==
  ASSUME Uploading!UploadInv, NEW u \in Post, Uploading!FailDestination(u)
  PROVE  Uploading!UploadInv'
<1> DEFINE A == Uploading!At(u)
<1>1. /\ s1 \in [Path -> [by : SUBSET (Post \cup {"before"}), whole : BOOLEAN, open : SUBSET Post]]
      /\ s2 \in [Post -> [pc : Uploading!UploadPc, paths : Seq(Path), at : 1 .. 2]]
  BY DEF Uploading!UploadInv, Uploading!UploadTypeOK, Uploading!TypeOK
<1>2. /\ s2[u].pc \in {"next", "writing"} /\ s1' = [s1 EXCEPT ![A].open = @ \ {u}]
      /\ s2' = [s2 EXCEPT ![u].pc = "clean"]
  BY DEF Uploading!FailDestination, Uploading!UploadGoto
<1>3. s3' = s3 /\ s4' = s4 /\ s5' \in 0 .. MaxUploadFaults /\ Uploading!Admitted(u)
  BY <1>2, BoundsAssumption DEF BoundsAssumption, Uploading!FailDestination, Uploading!Admitted,
     Uploading!UploadFault,
     Uploading!UploadInv, Uploading!UploadTypeOK, Uploading!TypeOK
<1>4. A \in Path \ Taken /\ s2[u].pc \in {"next", "writing"}
  BY <1>2, <1>3, UploadFacts
<1>5. /\ \A p \in Path \ {A} : s1'[p] = s1[p]
      /\ \A p \in Path : s1'[p].by = s1[p].by /\ s1'[p].whole = s1[p].whole
      /\ s1'[A].open = s1[A].open \ {u}
  BY <1>1, <1>2, <1>4
<1>6. /\ \A v \in Post : s2'[v].paths = s2[v].paths /\ s2'[v].at = s2[v].at
      /\ \A v \in Post \ {u} : s2'[v].pc = s2[v].pc
      /\ s2'[u].pc = "clean"
  BY <1>1, <1>2
<1>7. \A v \in Post : /\ Uploading!Admitted(v)' <=> Uploading!Admitted(v)
                      /\ Uploading!At(v)' = Uploading!At(v) /\ Uploading!UpTo(v)' = Uploading!UpTo(v)
                      /\ Uploading!Count(v)' = Uploading!Count(v)
  BY <1>2, <1>6 DEF Uploading!Admitted, Uploading!At, Uploading!UpTo, Uploading!Count
<1>8. \A v \in Post : Uploading!Finished(v)' = Uploading!Finished(v)
  BY <1>4, <1>6, <1>7 DEF Uploading!Finished
<1>9. Uploading!UploadTypeOK'
  <2>1. s1' \in [Path -> [by : SUBSET (Post \cup {"before"}), whole : BOOLEAN, open : SUBSET Post]]
    BY ZenonT(60), <1>1, <1>2, <1>4
  <2>2. s2' \in [Post -> [pc : Uploading!UploadPc, paths : Seq(Path), at : 1 .. 2]]
    BY <1>1, <1>2 DEF Uploading!UploadPc
  <2> QED
    BY <1>3, <1>6, <1>7, <2>1, <2>2 DEF Uploading!UploadInv, Uploading!UploadTypeOK,
       Uploading!TypeOK
<1> HIDE DEF A
<1>10. Uploading!WritersKnown'
  BY <1>4, <1>5, <1>6, <1>7 DEF Uploading!UploadInv, Uploading!WritersKnown, Uploading!Admitted, A
<1>11. Uploading!ExistingKept'
  BY <1>4, <1>5, <1>6, <1>7, PathAssumption DEF PathAssumption, Uploading!UploadInv,
     Uploading!ExistingKept
<1>12. Uploading!PathsApart'
  BY <1>3, <1>4, <1>6, <1>7 DEF Uploading!UploadInv, Uploading!PathsApart
<1>13. Uploading!OwnFilesWhole'
  <2>1. ASSUME NEW w \in Post \ s3, w # u, s2[w].pc \in {"next", "writing", "ok"}, NEW n \in Uploading!Finished(w)
        PROVE  s1'[s2[w].paths[n]].by = {w} /\ s1'[s2[w].paths[n]].whole
    <3>1. Uploading!Admitted(w)
      BY <2>1 DEF Uploading!Admitted
    <3>2. s2[w].paths[n] \in Path
      BY <3>1, UploadFacts
    <3> QED
      BY <1>5, <2>1, <3>2 DEF Uploading!UploadInv, Uploading!OwnFilesWhole
  <2>2. ASSUME NEW w \in Post \ s3, w # u, s2[w].pc = "writing"
        PROVE  s1'[Uploading!At(w)].by = {w} /\ w \in s1'[Uploading!At(w)].open
    <3>1. Uploading!At(w) \in Path
      BY <2>2, UploadFacts DEF Uploading!Admitted
    <3> QED
      BY <1>5, <2>2, <3>1 DEF Uploading!UploadInv, Uploading!OwnFilesWhole
  <2>3. ASSUME NEW w \in Post \ s3, w # u, s2[w].pc = "failed", NEW p \in Path, w \in s1'[p].by
        PROVE  p = Uploading!At(w) \/ <<w, p>> \in s4'
    BY <1>3, <1>5, <2>3 DEF Uploading!UploadInv, Uploading!OwnFilesWhole
  <2> QED
    BY <1>3, <1>6, <1>7, <1>8, <2>1, <2>2, <2>3 DEF Uploading!OwnFilesWhole
<1> QED
  BY <1>9, <1>10, <1>11, <1>12, <1>13 DEF Uploading!UploadInv

\* Finishing a file keeps UploadInv.
LEMMA UploadFinish ==
  ASSUME Uploading!UploadInv, NEW u \in Post, Uploading!FinishDestination(u)
  PROVE  Uploading!UploadInv'
<1> DEFINE A == Uploading!At(u)
           last == s2[u].at = Uploading!Count(u)
<1>1. /\ s1 \in [Path -> [by : SUBSET (Post \cup {"before"}), whole : BOOLEAN, open : SUBSET Post]]
      /\ s2 \in [Post -> [pc : Uploading!UploadPc, paths : Seq(Path), at : 1 .. 2]]
  BY DEF Uploading!UploadInv, Uploading!UploadTypeOK, Uploading!TypeOK
<1>2. /\ s2[u].pc = "writing" /\ s1' = [s1 EXCEPT ![A] = Uploading!Written(u, s1[A])]
      /\ s2' = [s2 EXCEPT ![u].pc = IF last THEN "ok" ELSE "next",
                          ![u].at = IF last THEN s2[u].at ELSE s2[u].at + 1]
  BY DEF Uploading!FinishDestination, Uploading!Count
<1>3. s3' = s3 /\ s4' = s4 /\ s5' = s5 /\ Uploading!Admitted(u)
  BY <1>2 DEF Uploading!FinishDestination, Uploading!Admitted
<1>4. /\ A \in Path \ Taken /\ s2[u].at \in 1 .. Uploading!Count(u)
      /\ Uploading!Count(u) \in 1 .. 2 /\ s2[u].pc = "writing"
      /\ \A w \in Post \ s3 : w # u /\ s2[w].pc \in {"next", "writing", "ok"} =>
           \A n \in 1 .. Uploading!Count(w) : s2[w].paths[n] # A
  BY <1>2, <1>3, UploadFacts DEF Uploading!At
<1>5. /\ \A p \in Path \ {A} : s1'[p] = s1[p]
      /\ s1[A].by \subseteq s1'[A].by /\ s1'[A].by \subseteq s1[A].by \cup {u}
      /\ s1'[A].open = s1[A].open \ {u}
      /\ u \in s1[A].open /\ s1[A].by = {u} => s1'[A].by = {u} /\ s1'[A].whole
  BY <1>1, <1>2, <1>4 DEF Uploading!Written
<1>6. /\ \A v \in Post : s2'[v].paths = s2[v].paths
      /\ \A v \in Post \ {u} : s2'[v].pc = s2[v].pc /\ s2'[v].at = s2[v].at
      /\ s2'[u].pc = (IF last THEN "ok" ELSE "next")
      /\ s2'[u].at = (IF last THEN s2[u].at ELSE s2[u].at + 1)
  BY <1>1, <1>2
<1>7. /\ \A v \in Post : /\ Uploading!Admitted(v)' <=> Uploading!Admitted(v)
                         /\ Uploading!Count(v)' = Uploading!Count(v)
      /\ \A v \in Post \ {u} : Uploading!At(v)' = Uploading!At(v) /\ Uploading!UpTo(v)' = Uploading!UpTo(v)
  BY <1>2, <1>6 DEF Uploading!Admitted, Uploading!At, Uploading!UpTo, Uploading!Count
<1>8. /\ \A v \in Post \ {u} : Uploading!Finished(v)' = Uploading!Finished(v)
      /\ Uploading!Finished(u)' = 1 .. s2[u].at /\ Uploading!Finished(u) = 1 .. s2[u].at - 1
      /\ Uploading!UpTo(u) \subseteq Uploading!UpTo(u)'
  <2>1. \A v \in Post \ {u} : Uploading!Finished(v)' = Uploading!Finished(v)
    BY <1>6, <1>7 DEF Uploading!Finished
  <2>2. Uploading!Finished(u)' = 1 .. s2[u].at
    BY <1>4, <1>6, <1>7 DEF Uploading!Finished
  <2> QED
    BY <1>4, <1>6, <2>1, <2>2 DEF Uploading!Finished, Uploading!UpTo
<1>9. Uploading!UploadTypeOK'
  <2>1. Uploading!Written(u, s1[A]) \in [by : SUBSET (Post \cup {"before"}), whole : BOOLEAN, open : SUBSET Post]
    BY <1>1, <1>4 DEF Uploading!Written
  <2>2. s1' \in [Path -> [by : SUBSET (Post \cup {"before"}), whole : BOOLEAN, open : SUBSET Post]]
    BY <1>1, <1>2, <2>1
  <2>3. (IF last THEN s2[u].at ELSE s2[u].at + 1) \in 1 .. 2 /\ s2'[u].at <= Uploading!Count(u)
    BY <1>4, <1>6
  <2>4. s2' \in [Post -> [pc : Uploading!UploadPc, paths : Seq(Path), at : 1 .. 2]]
    <3> DEFINE pc == IF last THEN "ok" ELSE "next"
               at == IF last THEN s2[u].at ELSE s2[u].at + 1
    <3>1. pc \in Uploading!UploadPc /\ at \in 1 .. 2
      BY <2>3 DEF Uploading!UploadPc
    <3>2. s2' = [s2 EXCEPT ![u].pc = pc, ![u].at = at]
      BY <1>2
    <3> HIDE DEF pc, at
    <3> QED
      BY <1>1, <3>1, <3>2
  <2>5. \A v \in Post : /\ s2'[v].pc \in Uploading!UploadPc /\ s2'[v].at \in 1 .. 2
                        /\ Uploading!Admitted(v) => s2'[v].at <= Uploading!Count(v)
    <3>1. \A v \in Post : Uploading!Admitted(v) => s2[v].at <= Uploading!Count(v)
      BY DEF Uploading!UploadInv, Uploading!UploadTypeOK, Uploading!Count
    <3> QED
      BY <1>6, <2>3, <2>4, <3>1
  <2>6. \A v \in Post : /\ Len(s2'[v].paths) <= 2
                        /\ Uploading!Destinations(s2'[v].paths) \subseteq Path
    BY <1>6 DEF Uploading!UploadInv, Uploading!UploadTypeOK, Uploading!TypeOK
  <2>7. \A v \in Post : Uploading!Admitted(v)' => s2'[v].at <= Uploading!Count(v)'
    BY <1>7, <2>5
  <2>8. s3' \subseteq Post /\ s4' \subseteq Post \X Path /\ s5' \in 0 .. MaxUploadFaults
    BY <1>3 DEF Uploading!UploadInv, Uploading!UploadTypeOK, Uploading!TypeOK
  <2>9. Uploading!TypeOK'
    BY ONLY <2>2, <2>5, <2>6, <2>8 DEF Uploading!TypeOK
  <2> QED
    BY ONLY <2>4, <2>7, <2>9 DEF Uploading!UploadTypeOK
<1> HIDE DEF A
<1>10. Uploading!WritersKnown'
  <2>1. ASSUME NEW p \in Path, NEW v \in Post, v \in s1'[p].by
        PROVE  Uploading!Admitted(v) /\ \E n \in Uploading!UpTo(v)' : s2[v].paths[n] = p
    <3>1. CASE v \in s1[p].by
      BY <1>7, <1>8, <3>1 DEF Uploading!UploadInv, Uploading!WritersKnown
    <3>2. CASE v \notin s1[p].by
      <4>1. v = u /\ p = A
        BY <1>5, <2>1, <3>2
      <4>2. s2[u].at \in Uploading!UpTo(u)'
        BY <1>4, <1>6 DEF Uploading!UpTo
      <4> QED
        BY <1>3, <4>1, <4>2 DEF A, Uploading!At
    <3> QED
      BY <3>1, <3>2
  <2>2. ASSUME NEW p \in Path, NEW v \in Post, v \in s1'[p].open
        PROVE  v # u /\ s2[v].pc = "writing" /\ Uploading!At(v) = p
    BY <1>5, <2>2 DEF Uploading!UploadInv, Uploading!WritersKnown, A
  <2> QED
    BY <1>6, <1>7, <2>1, <2>2 DEF Uploading!WritersKnown
<1>11. Uploading!ExistingKept'
  BY <1>4, <1>5, <1>6, <1>7, PathAssumption DEF PathAssumption, Uploading!UploadInv,
     Uploading!ExistingKept
<1>12. Uploading!PathsApart'
  BY <1>3, <1>4, <1>6, <1>7 DEF Uploading!UploadInv, Uploading!PathsApart
<1>13. Uploading!OwnFilesWhole'
  <2>1. ASSUME NEW w \in Post \ s3, w # u, s2[w].pc \in {"next", "writing", "ok"}, NEW n \in Uploading!Finished(w)
        PROVE  s1'[s2[w].paths[n]].by = {w} /\ s1'[s2[w].paths[n]].whole
    <3>1. Uploading!Admitted(w)
      BY <2>1 DEF Uploading!Admitted
    <3>2. n \in 1 .. Uploading!Count(w) /\ s2[w].paths[n] \in Path
      BY <3>1, UploadFacts
    <3>3. s1'[s2[w].paths[n]] = s1[s2[w].paths[n]]
      BY <1>4, <1>5, <2>1, <3>2
    <3> QED
      BY <2>1, <3>3 DEF Uploading!UploadInv, Uploading!OwnFilesWhole
  <2>2. ASSUME u \notin s3, NEW n \in Uploading!Finished(u)'
        PROVE  s1'[s2[u].paths[n]].by = {u} /\ s1'[s2[u].paths[n]].whole
    <3>1. CASE n = s2[u].at
      <4>1. s2[u].paths[n] = A /\ u \in s1[A].open /\ s1[A].by = {u}
        BY <1>4, <2>2, <3>1 DEF Uploading!UploadInv, Uploading!OwnFilesWhole, A, Uploading!At
      <4> QED
        BY <1>5, <4>1
    <3>2. CASE n # s2[u].at
      <4>1. n \in Uploading!Finished(u)
        BY <1>4, <1>8, <3>2
      <4>2. n \in 1 .. Uploading!Count(u) /\ s2[u].paths[n] \in Path
        BY <1>3, <4>1, UploadFacts
      <4>3. s2[u].paths[n] # A
        BY <1>3, <1>4, <2>2, <3>2, <4>2 DEF Uploading!UploadInv, Uploading!PathsApart,
           Uploading!At, A
      <4>4. s1'[s2[u].paths[n]] = s1[s2[u].paths[n]]
        BY <1>5, <4>2, <4>3
      <4> QED
        BY <1>4, <2>2, <4>1, <4>4 DEF Uploading!UploadInv, Uploading!OwnFilesWhole
    <3> QED
      BY <3>1, <3>2
  <2>3. ASSUME NEW w \in Post \ s3, w # u, s2[w].pc = "writing"
        PROVE  s1'[Uploading!At(w)].by = {w} /\ w \in s1'[Uploading!At(w)].open
    <3>1. Uploading!At(w) \in Path /\ s2[w].at \in 1 .. Uploading!Count(w)
      BY <2>3, UploadFacts DEF Uploading!Admitted
    <3>2. Uploading!At(w) # A
      BY <1>4, <2>3, <3>1 DEF Uploading!At
    <3>3. s1'[Uploading!At(w)] = s1[Uploading!At(w)]
      BY <1>5, <3>1, <3>2
    <3> QED
      BY <2>3, <3>3 DEF Uploading!UploadInv, Uploading!OwnFilesWhole
  <2>4. ASSUME NEW w \in Post \ s3, w # u, s2[w].pc = "failed", NEW p \in Path, w \in s1'[p].by
        PROVE  p = Uploading!At(w) \/ <<w, p>> \in s4'
    <3>1. w \in s1[p].by
      BY <1>5, <2>4
    <3> QED
      BY <1>3, <2>4, <3>1 DEF Uploading!UploadInv, Uploading!OwnFilesWhole
  <2>5. s2'[u].pc \in {"ok", "next"}
    BY <1>6
  <2> SUFFICES ASSUME NEW w \in Post \ s3
               PROVE  /\ s2'[w].pc \in {"next", "writing", "ok"} => \A n \in Uploading!Finished(w)' :
                           s1'[s2[w].paths[n]].by = {w} /\ s1'[s2[w].paths[n]].whole
                      /\ s2'[w].pc = "writing" => s1'[Uploading!At(w)'].by = {w} /\ w \in s1'[Uploading!At(w)'].open
                      /\ s2'[w].pc = "failed" => \A p \in Path : w \in s1'[p].by => p = Uploading!At(w)' \/ <<w, p>> \in s4'
    BY <1>3, <1>6 DEF Uploading!OwnFilesWhole
  <2>6. CASE w = u
    BY <2>2, <2>5, <2>6
  <2>7. CASE w # u
    <3>1. s2'[w].pc = s2[w].pc /\ Uploading!At(w)' = Uploading!At(w) /\ Uploading!Finished(w)' = Uploading!Finished(w)
      BY <1>6, <1>7, <1>8, <2>7
    <3> QED
      BY <2>1, <2>3, <2>4, <2>7, <3>1
  <2> QED
    BY <2>6, <2>7
<1> QED
  BY <1>9, <1>10, <1>11, <1>12, <1>13 DEF Uploading!UploadInv

\* Removing what was written after a failure keeps UploadInv: the files of
\* others are removed only when paths were shared.
LEMMA UploadCleanUp ==
  ASSUME Uploading!UploadInv, NEW u \in Post, Uploading!CleanUpUpload(u)
  PROVE  Uploading!UploadInv'
<1> DEFINE done == {s2[u].paths[n] : n \in 1 .. s2[u].at - 1}
<1>0. PICK stays \in SUBSET {p \in done : s1[p] # Uploading!Nothing} :
        /\ IF stays = {} THEN s5' = s5 ELSE Uploading!UploadFault
        /\ s1' = [p \in Path |-> IF p \in done \ stays THEN Uploading!Nothing ELSE s1[p]]
        /\ s4' = s4 \cup ({u} \X stays)
  BY DEF Uploading!CleanUpUpload
<1> DEFINE finished == done \ stays
<1>1. /\ s1 \in [Path -> [by : SUBSET (Post \cup {"before"}), whole : BOOLEAN, open : SUBSET Post]]
      /\ s2 \in [Post -> [pc : Uploading!UploadPc, paths : Seq(Path), at : 1 .. 2]]
  BY DEF Uploading!UploadInv, Uploading!UploadTypeOK, Uploading!TypeOK
<1>2. /\ s2[u].pc = "clean" /\ s1' = [p \in Path |-> IF p \in finished THEN Uploading!Nothing ELSE s1[p]]
      /\ s2' = [s2 EXCEPT ![u].pc = "failed"]
  BY <1>0 DEF Uploading!CleanUpUpload, Uploading!UploadGoto
<1>3. s3' = s3 /\ s5' \in 0 .. MaxUploadFaults /\ Uploading!Admitted(u)
  <2>1. s3' = s3 /\ Uploading!Admitted(u)
    BY <1>2 DEF Uploading!CleanUpUpload, Uploading!Admitted
  <2>2. s5 \in 0 .. MaxUploadFaults
    BY DEF Uploading!UploadInv, Uploading!UploadTypeOK, Uploading!TypeOK
  <2>3. s5' = s5 \/ (s5 < MaxUploadFaults /\ s5' = s5 + 1)
    BY <1>0 DEF Uploading!UploadFault
  <2> QED
    BY <2>1, <2>2, <2>3, BoundsAssumption DEF BoundsAssumption
<1>4. /\ s2[u].at \in 1 .. Uploading!Count(u) /\ Uploading!Count(u) \in 1 .. 2 /\ s2[u].pc = "clean"
      /\ done \subseteq Path \ Taken /\ finished \subseteq Path \ Taken
      /\ \A w \in Post \ s3 : w # u /\ s2[w].pc \in {"next", "writing", "ok"} =>
           \A n \in 1 .. Uploading!Count(w) : s2[w].paths[n] \notin finished
      /\ stays \subseteq Path
  <2>1. \A n \in 1 .. s2[u].at - 1 : n \in 1 .. Uploading!Count(u)
    BY <1>3, UploadFacts
  <2> QED
    BY <1>2, <1>3, <2>1, UploadFacts
<1>5. \A p \in Path : /\ p \notin finished => s1'[p] = s1[p]
                      /\ p \in finished => s1'[p].by = {} /\ s1'[p].open = {}
  BY <1>2 DEF Uploading!Nothing
<1>6. /\ \A v \in Post : s2'[v].paths = s2[v].paths /\ s2'[v].at = s2[v].at
      /\ \A v \in Post \ {u} : s2'[v].pc = s2[v].pc
      /\ s2'[u].pc = "failed"
  BY <1>1, <1>2
<1>7. \A v \in Post : /\ Uploading!Admitted(v)' <=> Uploading!Admitted(v)
                      /\ Uploading!At(v)' = Uploading!At(v) /\ Uploading!UpTo(v)' = Uploading!UpTo(v)
                      /\ Uploading!Count(v)' = Uploading!Count(v)
  BY <1>2, <1>6 DEF Uploading!Admitted, Uploading!At, Uploading!UpTo, Uploading!Count
<1>8. \A v \in Post \ {u} : Uploading!Finished(v)' = Uploading!Finished(v)
  BY <1>6, <1>7 DEF Uploading!Finished
<1> HIDE DEF finished, done
<1>14. /\ s4 \subseteq s4' /\ s4' \subseteq Post \X Path
       /\ \A p \in stays : <<u, p>> \in s4'
  <2>1. s4 \subseteq Post \X Path
    BY DEF Uploading!UploadInv, Uploading!UploadTypeOK, Uploading!TypeOK
  <2> QED
    BY <1>0, <1>4, <2>1
<1>9. Uploading!UploadTypeOK'
  <2>1. s1' \in [Path -> [by : SUBSET (Post \cup {"before"}), whole : BOOLEAN, open : SUBSET Post]]
    BY <1>1, <1>2 DEF Uploading!Nothing
  <2>2. s2' \in [Post -> [pc : Uploading!UploadPc, paths : Seq(Path), at : 1 .. 2]]
    BY <1>1, <1>2 DEF Uploading!UploadPc
  <2> QED
    BY <1>3, <1>6, <1>7, <1>14, <2>1, <2>2 DEF Uploading!UploadInv, Uploading!UploadTypeOK,
       Uploading!TypeOK
<1>10. Uploading!WritersKnown'
  <2> QED
    BY <1>4, <1>5, <1>6, <1>7 DEF Uploading!UploadInv, Uploading!WritersKnown
<1>11. Uploading!ExistingKept'
  <2> QED
    BY <1>4, <1>5, <1>6, <1>7, PathAssumption DEF PathAssumption, Uploading!UploadInv,
       Uploading!ExistingKept
<1>12. Uploading!PathsApart'
  BY ONLY Uploading!UploadInv, u \in Post, <1>3, <1>4, <1>6, <1>7 DEF Uploading!UploadInv,
     Uploading!PathsApart
<1>13. Uploading!OwnFilesWhole'
  <2>1. ASSUME NEW w \in Post \ s3, w # u, s2[w].pc \in {"next", "writing", "ok"}, NEW n \in Uploading!Finished(w)
        PROVE  s1'[s2[w].paths[n]].by = {w} /\ s1'[s2[w].paths[n]].whole
    <3>1. Uploading!Admitted(w)
      BY <2>1 DEF Uploading!Admitted
    <3>2. n \in 1 .. Uploading!Count(w) /\ s2[w].paths[n] \in Path
      BY <3>1, UploadFacts
    <3>3. s1'[s2[w].paths[n]] = s1[s2[w].paths[n]]
      BY <1>4, <1>5, <2>1, <3>2
    <3> QED
      BY <2>1, <3>3 DEF Uploading!UploadInv, Uploading!OwnFilesWhole
  <2>2. ASSUME NEW w \in Post \ s3, w # u, s2[w].pc = "writing"
        PROVE  s1'[Uploading!At(w)].by = {w} /\ w \in s1'[Uploading!At(w)].open
    <3>1. Uploading!At(w) \in Path /\ s2[w].at \in 1 .. Uploading!Count(w)
      BY <2>2, UploadFacts DEF Uploading!Admitted
    <3>2. Uploading!At(w) \notin finished
      BY <1>4, <2>2, <3>1 DEF Uploading!At
    <3>3. s1'[Uploading!At(w)] = s1[Uploading!At(w)]
      BY <1>5, <3>1, <3>2
    <3> QED
      BY <2>2, <3>3 DEF Uploading!UploadInv, Uploading!OwnFilesWhole
  <2>3. ASSUME NEW w \in Post \ s3, s2'[w].pc = "failed", NEW p \in Path, w \in s1'[p].by
        PROVE  p = Uploading!At(w) \/ <<w, p>> \in s4'
    <3>1. p \notin finished /\ w \in s1[p].by
      BY <1>5, <2>3
    <3>2. CASE w # u
      BY <1>6, <1>14, <2>3, <3>1, <3>2 DEF Uploading!UploadInv, Uploading!OwnFilesWhole
    <3>3. CASE w = u
      <4>1. PICK n \in 1 .. s2[u].at : s2[u].paths[n] = p
        BY <3>1, <3>3 DEF Uploading!UploadInv, Uploading!WritersKnown, Uploading!UpTo
      <4>2. CASE n = s2[u].at
        BY <3>3, <4>1, <4>2 DEF Uploading!At
      <4>3. CASE n # s2[u].at
        <5>1. n \in 1 .. s2[u].at - 1
          BY <1>4, <4>1, <4>3
        <5>2. p \in stays
          BY <3>1, <4>1, <5>1 DEF finished, done
        <5> QED
          BY <1>14, <3>3, <5>2
      <4> QED
        BY <4>2, <4>3
    <3> QED
      BY <3>2, <3>3
  <2> QED
    BY <1>3, <1>6, <1>7, <1>8, <2>1, <2>2, <2>3 DEF Uploading!OwnFilesWhole
<1> QED
  BY <1>9, <1>10, <1>11, <1>12, <1>13 DEF Uploading!UploadInv

\* A request whose process dies keeps UploadInv.
LEMMA UploadDie ==
  ASSUME Uploading!UploadInv, Uploading!DieUploading
  PROVE  Uploading!UploadInv'
<1> DEFINE atWork(v) == s2[v].pc \in {"next", "writing", "clean"}
<1>1. /\ s1 \in [Path -> [by : SUBSET (Post \cup {"before"}), whole : BOOLEAN, open : SUBSET Post]]
      /\ s2 \in [Post -> [pc : Uploading!UploadPc, paths : Seq(Path), at : 1 .. 2]]
  BY DEF Uploading!UploadInv, Uploading!UploadTypeOK, Uploading!TypeOK
<1>2. /\ s1' = [p \in Path |-> [s1[p] EXCEPT !.open = {}]]
      /\ s2' = [v \in Post |-> IF atWork(v) THEN [s2[v] EXCEPT !.pc = "dead"] ELSE s2[v]]
  BY DEF Uploading!DieUploading
<1>3. s3' = s3 /\ s4' = s4 /\ s5' \in 0 .. MaxUploadFaults
  BY BoundsAssumption DEF BoundsAssumption, Uploading!DieUploading, Uploading!UploadFault,
     Uploading!UploadInv, Uploading!UploadTypeOK, Uploading!TypeOK
<1>4. \A p \in Path : s1'[p].by = s1[p].by /\ s1'[p].whole = s1[p].whole /\ s1'[p].open = {}
  BY <1>1, <1>2
<1>5. \A v \in Post : /\ s2'[v].paths = s2[v].paths /\ s2'[v].at = s2[v].at
                      /\ s2'[v].pc = IF atWork(v) THEN "dead" ELSE s2[v].pc
  BY <1>1, <1>2
<1>6. \A v \in Post : /\ Uploading!Admitted(v)' <=> Uploading!Admitted(v)
                      /\ Uploading!At(v)' = Uploading!At(v) /\ Uploading!UpTo(v)' = Uploading!UpTo(v)
                      /\ Uploading!Count(v)' = Uploading!Count(v)
  BY <1>5 DEF Uploading!Admitted, Uploading!At, Uploading!UpTo, Uploading!Count
<1>7. \A v \in Post : s2'[v].pc = "ok" => Uploading!Finished(v)' = Uploading!Finished(v)
  BY <1>5, <1>6 DEF Uploading!Finished
<1>8. Uploading!UploadTypeOK'
  <2>1. s1' \in [Path -> [by : SUBSET (Post \cup {"before"}), whole : BOOLEAN, open : SUBSET Post]]
    BY <1>1, <1>2
  <2>2. s2' \in [Post -> [pc : Uploading!UploadPc, paths : Seq(Path), at : 1 .. 2]]
    BY <1>1, <1>2 DEF Uploading!UploadPc
  <2>3. \A v \in Post : s2'[v].pc \in Uploading!UploadPc
    BY <2>2
  <2> QED
    BY <1>3, <1>5, <1>6, <2>1, <2>2, <2>3 DEF Uploading!UploadInv, Uploading!UploadTypeOK,
       Uploading!TypeOK
<1>9. Uploading!WritersKnown'
  BY <1>4, <1>5, <1>6 DEF Uploading!UploadInv, Uploading!WritersKnown
<1>10. Uploading!ExistingKept'
  <2>1. [Uploading!Before EXCEPT !.open = {}] = Uploading!Before
    BY DEF Uploading!Before
  <2>2. \A p \in Path : s1[p] = Uploading!Before => s1'[p] = Uploading!Before
    BY <1>2, <2>1
  <2> QED
    BY <1>5, <1>6, <2>2, PathAssumption DEF PathAssumption, Uploading!UploadInv,
       Uploading!ExistingKept
<1>11. Uploading!PathsApart'
  <2> HIDE DEF atWork
  <2>1. \A v \in Post : s2'[v].pc \notin {"next", "writing", "clean"}
    BY <1>5 DEF atWork
  <2> QED
    BY <1>3, <1>5, <1>6, <2>1 DEF Uploading!UploadInv, Uploading!PathsApart
<1>12. Uploading!OwnFilesWhole'
  <2>1. \A v \in Post : s2'[v].pc \notin {"next", "writing"} /\ (s2'[v].pc \in {"ok", "failed"} => s2'[v].pc = s2[v].pc)
    BY <1>5
  <2>2. ASSUME NEW w \in Post \ s3, s2'[w].pc = "ok", NEW n \in Uploading!Finished(w)
        PROVE  s1'[s2[w].paths[n]].by = {w} /\ s1'[s2[w].paths[n]].whole
    <3>1. s2[w].pc = "ok" /\ Uploading!Admitted(w)
      BY <2>1, <2>2 DEF Uploading!Admitted
    <3>2. s2[w].paths[n] \in Path
      BY <3>1, UploadFacts
    <3> QED
      BY <1>4, <3>1, <3>2 DEF Uploading!UploadInv, Uploading!OwnFilesWhole
  <2>3. ASSUME NEW w \in Post \ s3, s2'[w].pc = "failed", NEW p \in Path, w \in s1'[p].by
        PROVE  p = Uploading!At(w) \/ <<w, p>> \in s4'
    BY <1>3, <1>4, <2>1, <2>3 DEF Uploading!UploadInv, Uploading!OwnFilesWhole
  <2> HIDE DEF atWork
  <2> QED
    BY <1>3, <1>5, <1>6, <1>7, <2>1, <2>2, <2>3 DEF Uploading!OwnFilesWhole
<1> QED
  BY <1>8, <1>9, <1>10, <1>11, <1>12 DEF Uploading!UploadInv

\* What BeginUpload draws: one or two destinations.
LEMMA UploadPaths ==
  ASSUME NEW paths \in {<<p>> : p \in Path} \cup (Path \X Path)
  PROVE  /\ paths \in Seq(Path) /\ Len(paths) \in 1 .. 2
         /\ \A n \in 1 .. Len(paths) : paths[n] \in Path
         /\ Uploading!Destinations(paths) \subseteq Path
<1>1. CASE paths \in {<<p>> : p \in Path}
  <2>1. PICK p \in Path : paths = <<p>>
    BY <1>1
  <2>2. Len(paths) = 1 /\ paths \in Seq(Path) /\ paths[1] = p
    BY <2>1
  <2> QED
    BY <2>2 DEF Uploading!Destinations
<1>2. CASE paths \in Path \X Path
  <2>1. PICK p \in Path, q \in Path : paths = <<p, q>>
    BY <1>2
  <2>2. Len(paths) = 2 /\ paths \in Seq(Path) /\ paths[1] = p /\ paths[2] = q
    BY <2>1
  <2> QED
    BY <2>2 DEF Uploading!Destinations
<1> QED
  BY <1>1, <1>2

\* Validation and the check for conflicts keep UploadInv: a request is admitted
\* only when nothing lies at its paths.
LEMMA UploadBegin ==
  ASSUME Uploading!UploadInv, NEW u \in Post, Uploading!BeginUpload(u)
  PROVE  Uploading!UploadInv'
<1>1. /\ s1 \in [Path -> [by : SUBSET (Post \cup {"before"}), whole : BOOLEAN, open : SUBSET Post]]
      /\ s2 \in [Post -> [pc : Uploading!UploadPc, paths : Seq(Path), at : 1 .. 2]]
  BY DEF Uploading!UploadInv, Uploading!UploadTypeOK, Uploading!TypeOK
<1>2. s2[u].pc = "new" /\ s1' = s1 /\ s4' = s4 /\ s5' = s5
  BY DEF Uploading!BeginUpload
<1>3. PICK paths \in {<<p>> : p \in Path} \cup (Path \X Path) :
        LET pc == IF ~ Uploading!PathsValid(paths) THEN "invalid"
                  ELSE IF Uploading!Conflicts(paths) # {} THEN "conflict" ELSE "next"
            twice == \E m, n \in 1 .. Len(paths) : m # n /\ paths[m] = paths[n]
        IN /\ s2' = [s2 EXCEPT ![u] = [pc |-> pc, paths |-> paths, at |-> 1]]
           /\ s3' = s3 \cup
                (IF pc # "next" THEN {}
                 ELSE {v \in Uploading!Rivals(u, paths) : s2[v].pc # "clean"}
                      \cup (IF twice \/ Uploading!Rivals(u, paths) # {} THEN {u} ELSE {}))
  BY DEF Uploading!BeginUpload
<1> DEFINE pc == IF ~ Uploading!PathsValid(paths) THEN "invalid"
                 ELSE IF Uploading!Conflicts(paths) # {} THEN "conflict" ELSE "next"
           twice == \E m, n \in 1 .. Len(paths) : m # n /\ paths[m] = paths[n]
           new == [pc |-> pc, paths |-> paths, at |-> 1]
<1>4. /\ paths \in Seq(Path) /\ Len(paths) \in 1 .. 2
      /\ \A n \in 1 .. Len(paths) : paths[n] \in Path
      /\ Uploading!Destinations(paths) \subseteq Path
      /\ twice \/ \A m, n \in 1 .. Len(paths) : paths[m] = paths[n] => m = n
  BY UploadPaths
<1>5. pc \in {"next", "invalid", "conflict"} /\ s2' = [s2 EXCEPT ![u] = new]
  BY <1>3
<1>6. /\ pc # "next" => s3' = s3
      /\ pc = "next" => s3' = s3 \cup {v \in Uploading!Rivals(u, paths) : s2[v].pc # "clean"}
                              \cup (IF twice \/ Uploading!Rivals(u, paths) # {} THEN {u} ELSE {})
  BY <1>3
<1>7. pc = "next" => \A n \in 1 .. Len(paths) : paths[n] \in Path /\ s1[paths[n]] = Uploading!Nothing
  BY <1>4 DEF Uploading!Conflicts, Uploading!Destinations
<1>8. new.pc = pc /\ new.paths = paths /\ new.at = 1
      /\ new \in [pc : Uploading!UploadPc, paths : Seq(Path), at : 1 .. 2]
  BY <1>4, <1>5 DEF Uploading!UploadPc
<1> HIDE DEF pc, new, twice
<1>9. /\ s2'[u].pc = pc /\ s2'[u].paths = paths /\ s2'[u].at = 1
      /\ \A v \in Post \ {u} : s2'[v] = s2[v]
  BY <1>1, <1>5, <1>8
<1>10. \A v \in Post \ {u} : /\ Uploading!Admitted(v)' <=> Uploading!Admitted(v)
                             /\ Uploading!At(v)' = Uploading!At(v) /\ Uploading!UpTo(v)' = Uploading!UpTo(v)
                             /\ Uploading!Count(v)' = Uploading!Count(v)
                             /\ Uploading!Finished(v)' = Uploading!Finished(v)
  BY <1>9 DEF Uploading!Admitted, Uploading!At, Uploading!UpTo, Uploading!Count, Uploading!Finished
<1>11. /\ Uploading!Admitted(u)' <=> pc = "next"
       /\ Uploading!Count(u)' = Len(paths) /\ Uploading!Finished(u)' = 1 .. 0
  BY <1>5, <1>9 DEF Uploading!Admitted, Uploading!Count, Uploading!Finished
<1>12. \A p \in Path : u \notin s1[p].by /\ u \notin s1[p].open
  BY <1>2 DEF Uploading!UploadInv, Uploading!WritersKnown, Uploading!Admitted
<1>13. s3 \subseteq s3' /\ s3' \subseteq Post
  BY <1>5, <1>6 DEF Uploading!Rivals, Uploading!UploadInv, Uploading!UploadTypeOK, Uploading!TypeOK
\* A request at work with a path of the new one is a rival.
<1>14. ASSUME NEW v \in Post \ {u}, s2[v].pc \in {"next", "writing", "clean"},
              NEW m \in 1 .. Len(paths), NEW n \in 1 .. Uploading!Count(v), paths[m] = s2[v].paths[n]
       PROVE  v \in Uploading!Rivals(u, paths)
  BY <1>14 DEF Uploading!Rivals, Uploading!Destinations, Uploading!Count
<1>15. Uploading!UploadTypeOK'
  <2>1. s2' \in [Post -> [pc : Uploading!UploadPc, paths : Seq(Path), at : 1 .. 2]]
    BY <1>1, <1>5, <1>8
  <2>2. Len(s2'[u].paths) <= 2 /\ Uploading!Destinations(s2'[u].paths) \subseteq Path
    BY <1>4, <1>9
  <2>3. \A v \in Post : s2'[v].pc \in Uploading!UploadPc /\ s2'[v].at \in 1 .. 2
    BY <2>1
  <2>4. \A v \in Post : Len(s2'[v].paths) <= 2 /\ Uploading!Destinations(s2'[v].paths) \subseteq Path
    BY <1>9, <2>2 DEF Uploading!UploadInv, Uploading!UploadTypeOK, Uploading!TypeOK
  <2>5. \A v \in Post : Uploading!Admitted(v)' => s2'[v].at <= Uploading!Count(v)'
    BY <1>4, <1>9, <1>10, <1>11 DEF Uploading!UploadInv, Uploading!UploadTypeOK
  <2> QED
    BY <1>2, <1>13, <2>1, <2>3, <2>4, <2>5 DEF Uploading!UploadInv, Uploading!UploadTypeOK,
       Uploading!TypeOK
<1>16. Uploading!WritersKnown'
  BY <1>2, <1>9, <1>10, <1>12 DEF Uploading!UploadInv, Uploading!WritersKnown
<1>17. Uploading!ExistingKept'
  <2>1. pc = "next" => \A n \in 1 .. Len(paths) : paths[n] \notin Taken
    BY <1>7 DEF Uploading!UploadInv, Uploading!ExistingKept, Uploading!Nothing, Uploading!Before
  <2> QED
    BY <1>2, <1>9, <1>10, <1>11, <2>1 DEF Uploading!UploadInv, Uploading!ExistingKept
<1>18. Uploading!PathsApart'
  <2>1. ASSUME u \notin s3', pc = "next"
        PROVE  /\ \A m, n \in 1 .. Len(paths) : paths[m] = paths[n] => m = n
               /\ \A v \in Post \ {u} : s2[v].pc \in {"next", "writing", "clean"} =>
                    \A m \in 1 .. Len(paths), n \in 1 .. Uploading!Count(v) : paths[m] # s2[v].paths[n]
    <3>1. ~ twice /\ Uploading!Rivals(u, paths) = {}
      BY <1>6, <2>1
    <3> QED
      BY <1>4, <1>14, <3>1
  <2>2. ASSUME NEW w \in Post \ s3', w # u, pc = "next", s2[w].pc \in {"next", "writing", "ok"},
               NEW n \in 1 .. Uploading!Count(w), NEW m \in 1 .. Len(paths)
        PROVE  s2[w].paths[n] # paths[m]
    <3>1. CASE s2[w].pc = "ok"
      <4>1. s1[s2[w].paths[n]].by = {w}
        BY <1>13, <2>2, <3>1 DEF Uploading!UploadInv, Uploading!OwnFilesWhole, Uploading!Finished
      <4> QED
        BY <1>7, <2>2, <4>1 DEF Uploading!Nothing
    <3>2. CASE s2[w].pc \in {"next", "writing"}
      BY <1>6, <1>14, <2>2, <3>2
    <3> QED
      BY <2>2, <3>1, <3>2
  <2>3. ASSUME NEW w \in Post \ s3', w # u, Uploading!Admitted(w)
        PROVE  /\ \A m, n \in 1 .. Uploading!Count(w) : s2[w].paths[m] = s2[w].paths[n] => m = n
               /\ s2[w].pc \in {"next", "writing", "ok"} =>
                    \A v \in Post \ {u, w} : s2[v].pc \in {"next", "writing", "clean"} =>
                      \A m \in 1 .. Uploading!Count(w), n \in 1 .. Uploading!Count(v) :
                        s2[w].paths[m] # s2[v].paths[n]
    BY <1>13, <2>3 DEF Uploading!UploadInv, Uploading!PathsApart
  <2>4. ASSUME NEW w \in Post \ s3', w # u, Uploading!Admitted(w)'
        PROVE  /\ \A m, n \in 1 .. Uploading!Count(w)' : s2'[w].paths[m] = s2'[w].paths[n] => m = n
               /\ s2'[w].pc \in {"next", "writing", "ok"} =>
                    \A v \in Post \ {w} : s2'[v].pc \in {"next", "writing", "clean"} =>
                      \A m \in 1 .. Uploading!Count(w)', n \in 1 .. Uploading!Count(v)' :
                        s2'[w].paths[m] # s2'[v].paths[n]
    BY <1>5, <1>9, <1>10, <1>11, <2>2, <2>3, <2>4
  <2>5. ASSUME u \notin s3', Uploading!Admitted(u)'
        PROVE  /\ \A m, n \in 1 .. Uploading!Count(u)' : s2'[u].paths[m] = s2'[u].paths[n] => m = n
               /\ s2'[u].pc \in {"next", "writing", "ok"} =>
                    \A v \in Post \ {u} : s2'[v].pc \in {"next", "writing", "clean"} =>
                      \A m \in 1 .. Uploading!Count(u)', n \in 1 .. Uploading!Count(v)' :
                        s2'[u].paths[m] # s2'[v].paths[n]
    BY <1>9, <1>10, <1>11, <2>1, <2>5
  <2> QED
    BY <2>4, <2>5 DEF Uploading!PathsApart
<1>19. Uploading!OwnFilesWhole'
  BY <1>2, <1>5, <1>9, <1>10, <1>11, <1>12, <1>13 DEF Uploading!UploadInv, Uploading!OwnFilesWhole
<1> QED
  BY <1>15, <1>16, <1>17, <1>18, <1>19 DEF Uploading!UploadInv

\* Every step of upload_files keeps UploadInv.
LEMMA UploadStep == Uploading!UploadInv /\ Uploading!Next => Uploading!UploadInv'
  BY UploadBegin, UploadOpen, UploadFinish, UploadFail, UploadCleanUp, UploadDie DEF Uploading!Next

(***************************************************************************)
(* Downloads (pack_download_job, delete_download)                         *)
(***************************************************************************)

\* At first there is no job and no archive.
LEMMA DownloadInit == Packing!Init => Packing!DownloadInv
  BY BoundsAssumption DEF BoundsAssumption, Packing!Init, Packing!DownloadInv, Packing!TypeOK,
     Packing!PackPc, Packing!JobInv, Packing!Untouched, Packing!PathRecorded, Packing!ArchiveWhole,
     Packing!NoRow, Packing!PackRunning, Packing!AtWork

\* Every step keeps DownloadInv: the row has the path before the archive is
\* started, and a job that is complete has a whole archive.
LEMMA DownloadStep == Packing!DownloadInv /\ Packing!Next => Packing!DownloadInv'
<1> SUFFICES ASSUME Packing!DownloadInv, Packing!Next PROVE Packing!DownloadInv'
  OBVIOUS
<1> DEFINE Row == [status : {"none", "pending", "packing", "completed", "failed"}, path : BOOLEAN]
           Pack == [pc : Packing!PackPc, units : 0 .. Units, linked : BOOLEAN]
<1>a. /\ s1 \in [Download -> Row] /\ s2 \in [Download -> {"none", "partial", "whole"}]
      /\ s3 \in [Download -> Pack] /\ s4 \in [Download -> {"none", "row", "done"}]
      /\ s5 \subseteq Download /\ s6 \subseteq Download /\ s7 \in 0 .. MaxPackFaults
      /\ s8 \subseteq Download /\ s9 \subseteq Download /\ s10 \subseteq Download
  BY DEF Packing!DownloadInv, Packing!TypeOK
<1>b. \A e \in Download : Packing!JobInv(e)
  BY DEF Packing!DownloadInv
<1>c. MaxPackFaults \in Nat /\ Units \in Nat \ {0}
  BY BoundsAssumption DEF BoundsAssumption
<1>d. ASSUME NEW d \in Download, NEW pc \in Packing!PackPc
      PROVE  /\ [s3 EXCEPT ![d].pc = pc] \in [Download -> Pack]
             /\ \A e \in Download \ {d} : [s3 EXCEPT ![d].pc = pc][e] = s3[e]
             /\ [s3 EXCEPT ![d].pc = pc][d].pc = pc
             /\ [s3 EXCEPT ![d].pc = pc][d].linked = s3[d].linked
             /\ [s3 EXCEPT ![d].pc = pc][d].units = s3[d].units
  BY ONLY <1>a, <1>d
<1>e. ASSUME NEW d \in Download, NEW row \in Row
      PROVE  /\ [s1 EXCEPT ![d] = row] \in [Download -> Row]
             /\ \A e \in Download \ {d} : [s1 EXCEPT ![d] = row][e] = s1[e]
             /\ [s1 EXCEPT ![d] = row][d] = row
  BY ONLY <1>a, <1>e
\* The step both deletions share: the archives of the jobs ds go, or stay
\* because they cannot be removed.
<1>f. ASSUME NEW ds \in SUBSET Download, \A e \in ds : s1[e].status # "none",
             Packing!RemoveArchives(ds), s1' = s1, s5' = s5,
             s4' \in [Download -> {"none", "row", "done"}],
             \A e \in Download : s4'[e] = s4[e] \/ (e \in ds /\ s4'[e] = "row"),
             s8' \subseteq Download, \A e \in s8' : e \in s8 \/ e \in ds
      PROVE  Packing!DownloadInv'
  <2>1. PICK fails \in SUBSET {d \in ds : s1[d].path /\ s2[d] # "none"} :
          /\ IF fails = {} THEN s7' = s7 ELSE Packing!PackFault
          /\ Packing!Unlinked({d \in ds : s1[d].path} \ fails)
          /\ s6' = s6 \cup {d \in ds : Packing!AtWork(d)}
          /\ s9' = s9 \cup ds /\ s10' = s10 \cup fails
    BY <1>f DEF Packing!RemoveArchives
  <2> DEFINE gone == {d \in ds : s1[d].path} \ fails
  <2>2. /\ s2' = [e \in Download |-> IF e \in gone THEN "none" ELSE s2[e]]
        /\ s3' = [e \in Download |-> IF e \in gone THEN [s3[e] EXCEPT !.linked = FALSE] ELSE s3[e]]
    BY <2>1 DEF Packing!Unlinked
  <2>3. s7' \in 0 .. MaxPackFaults
    <3>1. s7' = s7 \/ (s7 < MaxPackFaults /\ s7' = s7 + 1)
      BY <2>1 DEF Packing!PackFault
    <3> QED
      BY <1>a, <1>c, <3>1
  <2>4. fails \subseteq ds /\ gone \subseteq ds
    BY <2>1
  <2>5. \A e \in ds : e \in gone \/ e \in fails \/ ~ s1[e].path
    OBVIOUS
  <2> HIDE DEF gone
  <2>6. s2' \in [Download -> {"none", "partial", "whole"}] /\ s3' \in [Download -> Pack]
    BY <1>a, <2>2
  <2>7. Packing!TypeOK'
    BY <1>a, <1>f, <2>1, <2>3, <2>4, <2>6 DEF Packing!TypeOK
  <2>8. ASSUME NEW e \in Download PROVE Packing!JobInv(e)'
    <3>1. s3'[e].pc = s3[e].pc /\ s3'[e].units = s3[e].units
      BY <1>a, <2>2
    <3>2. CASE e \notin ds
      <4>1. /\ s2'[e] = s2[e] /\ s3'[e] = s3[e] /\ s4'[e] = s4[e] /\ s1'[e] = s1[e]
            /\ (e \in s6' <=> e \in s6) /\ (e \in s9' <=> e \in s9) /\ (e \in s10' <=> e \in s10)
            /\ (e \in s8' => e \in s8)
        BY <1>f, <2>1, <2>2, <2>4, <3>2
      <4> QED
        BY <1>b, <4>1 DEF Packing!JobInv, Packing!Untouched,
             Packing!PathRecorded, Packing!ArchiveWhole, Packing!NoRow, Packing!PackRunning, Packing!AtWork
    <3>3. CASE e \in ds
      <4>1. /\ e \in s9' /\ (e \in s6' <=> e \in s6 \/ Packing!AtWork(e))
            /\ s1'[e] = s1[e] /\ s1[e].status # "none"
            /\ s4'[e] = s4[e] \/ s4'[e] = "row"
            /\ e \in s10 => e \in s10'
        BY <1>f, <2>1, <3>3
      <4>2. CASE e \in gone
        <5>1. s2'[e] = "none" /\ ~ s3'[e].linked
          BY <1>a, <2>2, <4>2
        <5> QED
          BY <1>b, <3>1, <4>1, <5>1 DEF Packing!JobInv, Packing!Untouched,
               Packing!PathRecorded, Packing!ArchiveWhole, Packing!NoRow, Packing!PackRunning, Packing!AtWork
      <4>3. CASE e \notin gone
        <5>1. s2'[e] = s2[e] /\ s3'[e] = s3[e] /\ (e \in s10' \/ ~ s1[e].path)
          BY <2>1, <2>2, <2>5, <3>3, <4>3
        <5> QED
          BY <1>b, <4>1, <5>1 DEF Packing!JobInv, Packing!Untouched,
               Packing!PathRecorded, Packing!ArchiveWhole, Packing!NoRow, Packing!PackRunning, Packing!AtWork
      <4> QED
        BY <4>2, <4>3
    <3> QED
      BY <3>2, <3>3
  <2> QED
    BY <2>7, <2>8 DEF Packing!DownloadInv
\* The other step they share: the rows of jobs that are stripped go.
<1>g. ASSUME NEW ds \in SUBSET s9, s2' = s2, s3' = s3, s5' = s5, s6' = s6, s9' = s9, s10' = s10,
             s7' \in 0 .. MaxPackFaults, s8' \subseteq s8,
             s4' \in [Download -> {"none", "row", "done"}],
             s1' \in [Download -> Row],
             \A e \in Download : s1'[e] = IF e \in ds THEN Packing!NoRow ELSE s1[e],
             \A e \in Download : s4'[e] \in {s4[e], "none"} \/ (e \in ds /\ s4'[e] = "done")
      PROVE  Packing!DownloadInv'
  <2>3. Packing!TypeOK'
    BY <1>a, <1>g DEF Packing!TypeOK
  <2>4. ASSUME NEW e \in Download PROVE Packing!JobInv(e)'
    <3>1. CASE e \in ds
      <4>1. s1'[e] = Packing!NoRow /\ e \in s9 /\ (s4'[e] \in {s4[e], "none"} \/ s4'[e] = "done")
        BY <1>g, <3>1
      <4> QED
        BY <1>b, <1>g, <4>1 DEF Packing!JobInv, Packing!Untouched,
             Packing!PathRecorded, Packing!ArchiveWhole, Packing!NoRow, Packing!PackRunning, Packing!AtWork
    <3>2. CASE e \notin ds
      <4>1. s1'[e] = s1[e] /\ s4'[e] \in {s4[e], "none"}
        BY <1>g, <3>2
      <4> QED
        BY <1>b, <1>g, <4>1 DEF Packing!JobInv, Packing!Untouched,
             Packing!PathRecorded, Packing!ArchiveWhole, Packing!NoRow, Packing!PackRunning, Packing!AtWork
    <3> QED
      BY <3>1, <3>2
  <2> QED
    BY <2>3, <2>4 DEF Packing!DownloadInv
<1>1. ASSUME NEW d \in Download, Packing!QueueDownload(d) PROVE Packing!DownloadInv'
  <2>1. s1' \in [Download -> Row] /\ s2' \in [Download -> {"none", "partial", "whole"}]
    BY <1>a, <1>1 DEF Packing!QueueDownload, Packing!deletionVars, Packing!historyVars, Packing!PackGoto, Packing!PackFault, Packing!Unlinked,
       Packing!NoRow
  <2>2. s3' \in [Download -> Pack]
    <3>1. PICK pc \in {"queued", "ended"} : s3' = [s3 EXCEPT ![d].pc = pc]
      BY <1>1 DEF Packing!QueueDownload, Packing!deletionVars, Packing!historyVars, Packing!PackGoto
    <3> QED
      BY <1>d, <3>1 DEF Packing!PackPc
  <2>3. /\ s4' \in [Download -> {"none", "row", "done"}]
        /\ s5' \subseteq Download /\ s6' \subseteq Download /\ s7' \in 0 .. MaxPackFaults
        /\ s8' \subseteq Download /\ s9' \subseteq Download /\ s10' \subseteq Download
    BY <1>a, <1>c, <1>1 DEF Packing!QueueDownload, Packing!deletionVars, Packing!historyVars, Packing!PackGoto, Packing!PackFault,
       Packing!Unlinked
  <2>4. ASSUME NEW e \in Download, e # d PROVE Packing!JobInv(e)'
    BY <1>a, <1>b, <1>1, <2>4 DEF Packing!QueueDownload, Packing!deletionVars, Packing!historyVars, Packing!PackGoto, Packing!PackFault,
       Packing!Unlinked, Packing!JobInv, Packing!Untouched, Packing!PathRecorded,
       Packing!ArchiveWhole, Packing!NoRow, Packing!PackRunning, Packing!AtWork
  <2>5. Packing!JobInv(d)'
    <3>1. PICK pc \in {"queued", "ended"} : s3' = [s3 EXCEPT ![d].pc = pc]
      BY <1>1 DEF Packing!QueueDownload, Packing!deletionVars, Packing!historyVars, Packing!PackGoto
    <3>2. s3'[d].pc = pc /\ s3'[d].linked = s3[d].linked /\ s3'[d].units = s3[d].units
      BY <1>a, <3>1
    <3>3. s1'[d] = [status |-> "pending", path |-> FALSE] /\ s2' = s2 /\ s4' = s4 /\ s6' = s6
      /\ s8' = s8 /\ s9' = s9 /\ s10' = s10
      BY <1>a, <1>1 DEF Packing!QueueDownload, Packing!deletionVars, Packing!historyVars
    <3>4. s2[d] = "none" /\ s4[d] = "none" /\ d \notin s8 /\ d \notin s9 /\ s3[d].units < Units
      BY <1>b, <1>1 DEF Packing!QueueDownload, Packing!deletionVars, Packing!historyVars, Packing!JobInv, Packing!Untouched
    <3> QED
      BY <1>b, <3>1, <3>2, <3>3, <3>4 DEF Packing!JobInv, Packing!Untouched, Packing!PathRecorded,
         Packing!ArchiveWhole, Packing!NoRow, Packing!PackRunning, Packing!AtWork
  <2> QED
    BY <2>1, <2>2, <2>3, <2>4, <2>5 DEF Packing!DownloadInv, Packing!TypeOK
<1>2. ASSUME NEW d \in Download, Packing!StartPack(d) PROVE Packing!DownloadInv'
  <2>1. PICK row \in Row, pc \in {"open", "ended"} :
          /\ s1' = [s1 EXCEPT ![d] = row] /\ s3' = [s3 EXCEPT ![d].pc = pc]
          /\ \/ row = s1[d] /\ pc = "ended"
             \/ row = [status |-> "packing", path |-> TRUE] /\ pc = "open" /\ s1[d].status # "none"
             \/ row = [s1[d] EXCEPT !.status = "failed"] /\ pc = "ended" /\ s1[d].status # "none"
    <3>1. CASE s1[d].status = "none"
      <4>1. s1' = s1 /\ s3' = [s3 EXCEPT ![d].pc = "ended"]
        BY <1>2, <3>1 DEF Packing!StartPack, Packing!deletionVars, Packing!historyVars, Packing!PackGoto
      <4>2. s1' = [s1 EXCEPT ![d] = s1[d]] /\ s1[d] \in Row
        BY <1>a, <4>1
      <4> QED
        BY <4>1, <4>2
    <3>2. CASE s1[d].status # "none"
      <4>1. CASE s1' = [s1 EXCEPT ![d] = [status |-> "packing", path |-> TRUE]] /\ s3' = [s3 EXCEPT ![d].pc = "open"]
        BY <3>2, <4>1
      <4>2. CASE s1' = [s1 EXCEPT ![d].status = "failed"] /\ s3' = [s3 EXCEPT ![d].pc = "ended"]
        <5>1. [s1[d] EXCEPT !.status = "failed"] \in Row
          BY <1>a
        <5>2. s1' = [s1 EXCEPT ![d] = [s1[d] EXCEPT !.status = "failed"]]
          BY <4>2
        <5> QED
          BY <3>2, <4>2, <5>1, <5>2
      <4> QED
        BY <1>2, <3>2, <4>1, <4>2 DEF Packing!StartPack, Packing!deletionVars, Packing!historyVars, Packing!PackGoto
    <3> QED
      BY <3>1, <3>2
  <2>2. /\ s3[d].pc = "queued" /\ s2' = s2 /\ s4' = s4 /\ s5' = s5 /\ s6' = s6
        /\ s8' = s8 /\ s9' = s9 /\ s10' = s10 /\ s7' \in 0 .. MaxPackFaults
    BY <1>a, <1>c, <1>2 DEF Packing!StartPack, Packing!deletionVars, Packing!historyVars, Packing!PackFault
  <2>3. /\ s1' \in [Download -> Row] /\ s3' \in [Download -> Pack]
        /\ s1'[d] = row /\ s3'[d].pc = pc /\ s3'[d].linked = s3[d].linked
        /\ s3'[d].units = s3[d].units
        /\ \A e \in Download \ {d} : s1'[e] = s1[e] /\ s3'[e] = s3[e]
    <3>1. pc \in Packing!PackPc
      BY <2>1 DEF Packing!PackPc
    <3>2. s1' \in [Download -> Row] /\ s1'[d] = row /\ \A e \in Download \ {d} : s1'[e] = s1[e]
      BY <1>e, <2>1
    <3> QED
      BY <1>d, <2>1, <3>1, <3>2
  <2>4. ASSUME NEW e \in Download, e # d PROVE Packing!JobInv(e)'
    BY <1>b, <2>2, <2>3, <2>4 DEF Packing!JobInv, Packing!Untouched, Packing!PathRecorded,
       Packing!ArchiveWhole, Packing!NoRow, Packing!PackRunning, Packing!AtWork
  <2>5. Packing!JobInv(d)'
    <3>1. /\ row.status = "completed" => s1[d].status = "completed"
          /\ row.status = "none" => row = Packing!NoRow
          /\ pc = "open" => row.status = "packing" /\ row.path
          /\ ~ s1[d].path /\ s2[d] = "none"
      BY <1>a, <1>b, <2>1, <2>2 DEF Packing!JobInv, Packing!Untouched
    <3>2. s4[d] = "done" => row.status = "none"
      BY <1>b, <2>1 DEF Packing!JobInv, Packing!Untouched
    <3>3. d \notin s6 => d \notin s9
      BY <1>b, <2>2 DEF Packing!JobInv, Packing!PathRecorded, Packing!AtWork
    <3> QED
      BY <1>b, <2>1, <2>2, <2>3, <3>1, <3>2, <3>3 DEF Packing!JobInv, Packing!Untouched,
         Packing!PathRecorded, Packing!ArchiveWhole, Packing!NoRow, Packing!PackRunning,
         Packing!AtWork
  <2> QED
    BY <1>a, <2>2, <2>3, <2>4, <2>5 DEF Packing!DownloadInv, Packing!TypeOK
<1>3. ASSUME NEW d \in Download, Packing!OpenArchive(d) PROVE Packing!DownloadInv'
  <2>1. s1' \in [Download -> Row] /\ s2' \in [Download -> {"none", "partial", "whole"}]
    BY <1>a, <1>3 DEF Packing!OpenArchive, Packing!deletionVars, Packing!historyVars, Packing!PackGoto, Packing!PackFault, Packing!Unlinked,
       Packing!NoRow
  <2>2. s3' \in [Download -> Pack]
    BY ZenonT(60), <1>a, <1>c, <1>3 DEF Packing!OpenArchive, Packing!deletionVars, Packing!historyVars, Packing!PackGoto, Packing!PackFault,
       Packing!Unlinked, Packing!PackPc
  <2>3. /\ s4' \in [Download -> {"none", "row", "done"}]
        /\ s5' \subseteq Download /\ s6' \subseteq Download /\ s7' \in 0 .. MaxPackFaults
        /\ s8' \subseteq Download /\ s9' \subseteq Download /\ s10' \subseteq Download
    BY <1>a, <1>c, <1>3 DEF Packing!OpenArchive, Packing!deletionVars, Packing!historyVars, Packing!PackGoto, Packing!PackFault,
       Packing!Unlinked
  <2>4. ASSUME NEW e \in Download, e # d PROVE Packing!JobInv(e)'
    BY <1>a, <1>b, <1>3, <2>4 DEF Packing!OpenArchive, Packing!deletionVars, Packing!historyVars, Packing!PackGoto, Packing!PackFault,
       Packing!Unlinked, Packing!JobInv, Packing!Untouched, Packing!PathRecorded,
       Packing!ArchiveWhole, Packing!NoRow, Packing!PackRunning, Packing!AtWork
  <2>5. Packing!JobInv(d)'
    BY <1>a, <1>b, <1>c, <1>3 DEF Packing!OpenArchive, Packing!deletionVars, Packing!historyVars, Packing!PackGoto, Packing!PackFault,
       Packing!Unlinked, Packing!PackPc, Packing!JobInv, Packing!Untouched, Packing!PathRecorded,
       Packing!ArchiveWhole, Packing!NoRow, Packing!PackRunning, Packing!AtWork
  <2> QED
    BY <2>1, <2>2, <2>3, <2>4, <2>5 DEF Packing!DownloadInv, Packing!TypeOK
<1>4. ASSUME NEW d \in Download, Packing!PackUnit(d) PROVE Packing!DownloadInv'
  <2>1. s1' \in [Download -> Row] /\ s2' \in [Download -> {"none", "partial", "whole"}]
    BY <1>a, <1>4 DEF Packing!PackUnit, Packing!deletionVars, Packing!historyVars, Packing!PackGoto, Packing!PackFault, Packing!Unlinked,
       Packing!NoRow
  <2>2. s3' \in [Download -> Pack]
    <3>1. CASE s3' = [s3 EXCEPT ![d].pc = "except"]
      BY <1>d, <3>1 DEF Packing!PackPc
    <3>2. CASE s3' = [s3 EXCEPT ![d].units = s3[d].units + 1,
                                ![d].pc = IF s3[d].units + 1 = Units THEN "close" ELSE "unit"]
      <4> DEFINE pack == [s3[d] EXCEPT !.units = s3[d].units + 1,
                                       !.pc = IF s3[d].units + 1 = Units THEN "close" ELSE "unit"]
      <4>1. s3' = [s3 EXCEPT ![d] = pack]
        BY <3>2
      <4>2. s3[d] \in Pack
        BY <1>a
      <4>3. pack.units = s3[d].units + 1
        BY <4>2
      <4>4. s3[d].units + 1 <= Units
        BY <1>a, <1>b, <1>c, <1>4, <3>2 DEF Packing!JobInv, Packing!Untouched, Packing!PackUnit
      <4>5. s3[d].units + 1 \in 0 .. Units 
        BY ONLY <1>c, <4>2, <4>4
      <4>6. pack \in Pack
        BY ONLY <4>2, <4>5 DEF Packing!PackPc
      <4> HIDE DEF pack, Pack
      <4> QED
        BY ONLY <1>a, <4>1, <4>6
    <3> QED
      BY <1>4, <3>1, <3>2 DEF Packing!PackUnit, Packing!deletionVars, Packing!historyVars, Packing!PackGoto
  <2>3. /\ s4' \in [Download -> {"none", "row", "done"}]
        /\ s5' \subseteq Download /\ s6' \subseteq Download /\ s7' \in 0 .. MaxPackFaults
        /\ s8' \subseteq Download /\ s9' \subseteq Download /\ s10' \subseteq Download
    BY <1>a, <1>c, <1>4 DEF Packing!PackUnit, Packing!deletionVars, Packing!historyVars, Packing!PackGoto, Packing!PackFault, Packing!Unlinked
  <2>4. ASSUME NEW e \in Download, e # d PROVE Packing!JobInv(e)'
    BY <1>a, <1>b, <1>4, <2>4 DEF Packing!PackUnit, Packing!deletionVars, Packing!historyVars, Packing!PackGoto, Packing!PackFault,
       Packing!Unlinked, Packing!JobInv, Packing!Untouched, Packing!PathRecorded,
       Packing!ArchiveWhole, Packing!NoRow, Packing!PackRunning, Packing!AtWork
  <2>5. Packing!JobInv(d)'
    <3>1. s3[d].pc = "unit" /\ s1' = s1 /\ s2' = s2 /\ s4' = s4 /\ s6' = s6
      /\ s8' = s8 /\ s9' = s9 /\ s10' = s10
      BY <1>4 DEF Packing!PackUnit, Packing!deletionVars, Packing!historyVars
    <3>2. /\ s3'[d].linked = s3[d].linked /\ s3'[d].pc \in {"except", "unit", "close"}
          /\ s3'[d].pc = "unit" => s3'[d].units < Units
      <4>1. CASE s1[d].status = "none"
        BY <1>a, <1>4, <4>1 DEF Packing!PackUnit, Packing!deletionVars, Packing!historyVars, Packing!PackGoto
      <4>2. CASE s1[d].status # "none"
        <5>1. /\ s3'[d].units = s3[d].units + 1 /\ s3'[d].linked = s3[d].linked
              /\ s3'[d].pc = IF s3[d].units + 1 = Units THEN "close" ELSE "unit"
          BY <1>a, <1>4, <4>2 DEF Packing!PackUnit, Packing!deletionVars, Packing!historyVars
        <5>2. s3[d].units + 1 <= Units
          BY <1>a, <1>b, <1>c, <3>1 DEF Packing!JobInv, Packing!Untouched
        <5>3. s3[d].units \in Nat /\ Units \in Nat
          BY <1>a, <1>c
        <5> QED
          BY <5>1, <5>2, <5>3
      <4> QED
        BY <4>1, <4>2
    <3> QED
      BY <1>b, <3>1, <3>2 DEF Packing!JobInv, Packing!Untouched, Packing!PathRecorded,
         Packing!ArchiveWhole, Packing!NoRow, Packing!PackRunning, Packing!AtWork
  <2> QED
    BY <2>1, <2>2, <2>3, <2>4, <2>5 DEF Packing!DownloadInv, Packing!TypeOK
<1>5. ASSUME NEW d \in Download, Packing!ClosePack(d) PROVE Packing!DownloadInv'
  <2>1. s1' \in [Download -> Row] /\ s2' \in [Download -> {"none", "partial", "whole"}]
    BY <1>a, <1>5 DEF Packing!ClosePack, Packing!deletionVars, Packing!historyVars, Packing!PackGoto, Packing!PackFault, Packing!Unlinked,
       Packing!NoRow
  <2>2. s3' \in [Download -> Pack]
    <3>1. CASE s3' = [s3 EXCEPT ![d].pc = "complete"]
      BY <1>d, <3>1 DEF Packing!PackPc
    <3>2. CASE s3' = [s3 EXCEPT ![d].pc = "except", ![d].linked = FALSE]
      <4>1. s3[d] \in Pack
        BY <1>a
      <4>2. [s3[d] EXCEPT !.pc = "except", !.linked = FALSE] \in Pack
        BY ONLY <4>1 DEF Packing!PackPc
      <4>3. s3' = [s3 EXCEPT ![d] = [s3[d] EXCEPT !.pc = "except", !.linked = FALSE]]
        BY <3>2
      <4> HIDE DEF Pack
      <4> QED
        BY ONLY <1>a, <4>2, <4>3
    <3> QED
      BY <1>5, <3>1, <3>2 DEF Packing!ClosePack, Packing!deletionVars, Packing!historyVars, Packing!PackGoto
  <2>3. /\ s4' \in [Download -> {"none", "row", "done"}]
        /\ s5' \subseteq Download /\ s6' \subseteq Download /\ s7' \in 0 .. MaxPackFaults
        /\ s8' \subseteq Download /\ s9' \subseteq Download /\ s10' \subseteq Download
    BY <1>a, <1>c, <1>5 DEF Packing!ClosePack, Packing!deletionVars, Packing!historyVars, Packing!PackGoto, Packing!PackFault, Packing!Unlinked
  <2>4. ASSUME NEW e \in Download, e # d PROVE Packing!JobInv(e)'
    BY <1>a, <1>b, <1>5, <2>4 DEF Packing!ClosePack, Packing!deletionVars, Packing!historyVars, Packing!PackGoto, Packing!PackFault,
       Packing!Unlinked, Packing!JobInv, Packing!Untouched, Packing!PathRecorded,
       Packing!ArchiveWhole, Packing!NoRow, Packing!PackRunning, Packing!AtWork
  <2>5. Packing!JobInv(d)'
    BY <1>a, <1>b, <1>c, <1>5 DEF Packing!ClosePack, Packing!deletionVars, Packing!historyVars, Packing!PackGoto, Packing!PackFault,
       Packing!Unlinked, Packing!PackPc, Packing!JobInv, Packing!Untouched, Packing!PathRecorded,
       Packing!ArchiveWhole, Packing!NoRow, Packing!PackRunning, Packing!AtWork
  <2> QED
    BY <2>1, <2>2, <2>3, <2>4, <2>5 DEF Packing!DownloadInv, Packing!TypeOK
<1>6. ASSUME NEW d \in Download, Packing!CompletePack(d) PROVE Packing!DownloadInv'
  <2>1. PICK row \in Row, pc \in {"except", "ended"} :
          /\ s1' = [s1 EXCEPT ![d] = row] /\ s3' = [s3 EXCEPT ![d].pc = pc]
          /\ \/ row = s1[d] /\ pc = "except" /\ s1[d].status = "none"
             \/ row = [status |-> "completed", path |-> TRUE] /\ pc = "ended" /\ s1[d].status # "none"
    <3>1. CASE s1[d].status = "none"
      <4>1. s1' = s1 /\ s3' = [s3 EXCEPT ![d].pc = "except"]
        BY <1>6, <3>1 DEF Packing!CompletePack, Packing!deletionVars, Packing!historyVars, Packing!PackGoto
      <4>2. s1' = [s1 EXCEPT ![d] = s1[d]] /\ s1[d] \in Row
        BY <1>a, <4>1
      <4> QED
        BY <3>1, <4>1, <4>2
    <3>2. CASE s1[d].status # "none"
      BY <1>6, <3>2 DEF Packing!CompletePack, Packing!deletionVars, Packing!historyVars, Packing!PackGoto
    <3> QED
      BY <3>1, <3>2
  <2>2. /\ s3[d].pc = "complete" /\ s2' = s2 /\ s4' = s4 /\ s5' = s5 /\ s6' = s6 /\ s7' = s7
        /\ s8' = s8 /\ s9' = s9 /\ s10' = s10
    BY <1>6 DEF Packing!CompletePack, Packing!deletionVars, Packing!historyVars
  <2>3. /\ s1' \in [Download -> Row] /\ s3' \in [Download -> Pack]
        /\ s1'[d] = row /\ s3'[d].pc = pc /\ s3'[d].linked = s3[d].linked
        /\ \A e \in Download \ {d} : s1'[e] = s1[e] /\ s3'[e] = s3[e]
    <3>1. pc \in Packing!PackPc
      BY <2>1 DEF Packing!PackPc
    <3>2. s1' \in [Download -> Row] /\ s1'[d] = row /\ \A e \in Download \ {d} : s1'[e] = s1[e]
      BY <1>e, <2>1
    <3> QED
      BY <1>d, <2>1, <3>1, <3>2
  <2>4. ASSUME NEW e \in Download, e # d PROVE Packing!JobInv(e)'
    BY <1>b, <2>2, <2>3, <2>4 DEF Packing!JobInv, Packing!Untouched, Packing!PathRecorded,
       Packing!ArchiveWhole, Packing!NoRow, Packing!PackRunning, Packing!AtWork
  <2>5. Packing!JobInv(d)'
    BY <1>b, <2>1, <2>2, <2>3 DEF Packing!JobInv, Packing!Untouched, Packing!PathRecorded,
       Packing!ArchiveWhole, Packing!NoRow, Packing!PackRunning, Packing!AtWork
  <2> QED
    BY <1>a, <2>2, <2>3, <2>4, <2>5 DEF Packing!DownloadInv, Packing!TypeOK
<1>7. ASSUME NEW d \in Download, Packing!RaisePack(d) PROVE Packing!DownloadInv'
  <2>1. s1' \in [Download -> Row] /\ s2' \in [Download -> {"none", "partial", "whole"}]
    BY <1>a, <1>7 DEF Packing!RaisePack, Packing!deletionVars, Packing!historyVars, Packing!PackGoto, Packing!PackFault, Packing!Unlinked,
       Packing!NoRow
  <2>2. s3' \in [Download -> Pack]
    BY <1>a, <1>c, <1>7 DEF Packing!RaisePack, Packing!deletionVars, Packing!historyVars, Packing!PackGoto, Packing!PackFault,
       Packing!Unlinked, Packing!PackPc
  <2>3. /\ s4' \in [Download -> {"none", "row", "done"}]
        /\ s5' \subseteq Download /\ s6' \subseteq Download /\ s7' \in 0 .. MaxPackFaults
        /\ s8' \subseteq Download /\ s9' \subseteq Download /\ s10' \subseteq Download
    BY <1>a, <1>c, <1>7 DEF Packing!RaisePack, Packing!deletionVars, Packing!historyVars, Packing!PackGoto, Packing!PackFault, Packing!Unlinked
  <2>4. ASSUME NEW e \in Download, e # d PROVE Packing!JobInv(e)'
    BY <1>a, <1>b, <1>7, <2>4 DEF Packing!RaisePack, Packing!deletionVars, Packing!historyVars, Packing!PackGoto, Packing!PackFault,
       Packing!Unlinked, Packing!JobInv, Packing!Untouched, Packing!PathRecorded,
       Packing!ArchiveWhole, Packing!NoRow, Packing!PackRunning, Packing!AtWork
  <2>5. Packing!JobInv(d)'
    BY <1>a, <1>b, <1>c, <1>7 DEF Packing!RaisePack, Packing!deletionVars, Packing!historyVars, Packing!PackGoto, Packing!PackFault,
       Packing!Unlinked, Packing!PackPc, Packing!JobInv, Packing!Untouched, Packing!PathRecorded,
       Packing!ArchiveWhole, Packing!NoRow, Packing!PackRunning, Packing!AtWork
  <2> QED
    BY <2>1, <2>2, <2>3, <2>4, <2>5 DEF Packing!DownloadInv, Packing!TypeOK
<1>8. ASSUME NEW d \in Download, Packing!FailPack(d) PROVE Packing!DownloadInv'
  <2>1. s1' \in [Download -> Row] /\ s2' \in [Download -> {"none", "partial", "whole"}]
    BY <1>a, <1>8 DEF Packing!FailPack, Packing!deletionVars, Packing!historyVars, Packing!PackGoto, Packing!PackFault, Packing!Unlinked,
       Packing!NoRow
  <2>2. s3' \in [Download -> Pack]
    BY <1>a, <1>c, <1>8 DEF Packing!FailPack, Packing!deletionVars, Packing!historyVars, Packing!PackGoto, Packing!PackFault,
       Packing!Unlinked, Packing!PackPc
  <2>3. /\ s4' \in [Download -> {"none", "row", "done"}]
        /\ s5' \subseteq Download /\ s6' \subseteq Download /\ s7' \in 0 .. MaxPackFaults
        /\ s8' \subseteq Download /\ s9' \subseteq Download /\ s10' \subseteq Download
    BY <1>a, <1>c, <1>8 DEF Packing!FailPack, Packing!deletionVars, Packing!historyVars, Packing!PackGoto, Packing!PackFault, Packing!Unlinked
  <2>4. ASSUME NEW e \in Download, e # d PROVE Packing!JobInv(e)'
    BY ZenonT(60), <1>a, <1>b, <1>8, <2>4 DEF Packing!FailPack, Packing!deletionVars, Packing!historyVars, Packing!PackGoto, Packing!PackFault,
       Packing!Unlinked, Packing!JobInv, Packing!Untouched, Packing!PathRecorded,
       Packing!ArchiveWhole, Packing!NoRow, Packing!PackRunning, Packing!AtWork
  <2>5. Packing!JobInv(d)'
    <3>1. s3[d].pc = "except" /\ s2' = s2 /\ s4' = s4 /\ s6' = s6
      /\ s8' = s8 /\ s9' = s9 /\ s10' = s10
      BY <1>8 DEF Packing!FailPack, Packing!deletionVars, Packing!historyVars
    <3>2. s3'[d].pc = "ended" /\ s3'[d].linked = s3[d].linked
      BY <1>a, <1>8 DEF Packing!FailPack, Packing!deletionVars, Packing!historyVars, Packing!PackGoto
    <3>3. s1'[d] = s1[d] \/ (s1'[d].status = "failed" /\ s1'[d].path = s1[d].path /\ s1[d].status # "none")
      <4>1. CASE s1' = s1
        BY <4>1
      <4>2. CASE s1' = [s1 EXCEPT ![d].status = IF @ = "none" THEN @ ELSE "failed"]
        <5>1. CASE s1[d].status = "none"
          <6>1. s1'[d] = [s1[d] EXCEPT !.status = "none"]
            BY <1>a, <4>2, <5>1
          <6> QED
            BY <1>a, <5>1, <6>1
        <5>2. CASE s1[d].status # "none"
          BY <1>a, <4>2, <5>2
        <5> QED
          BY <5>1, <5>2
      <4> QED
        BY <1>8, <4>1, <4>2 DEF Packing!FailPack, Packing!deletionVars, Packing!historyVars
    <3> QED
      BY <1>b, <3>1, <3>2, <3>3 DEF Packing!JobInv, Packing!Untouched, Packing!PathRecorded,
         Packing!ArchiveWhole, Packing!NoRow, Packing!PackRunning, Packing!AtWork
  <2> QED
    BY <2>1, <2>2, <2>3, <2>4, <2>5 DEF Packing!DownloadInv, Packing!TypeOK
<1>9. ASSUME NEW d \in Download, Packing!KillPack(d) PROVE Packing!DownloadInv'
  <2>1. s1' \in [Download -> Row] /\ s2' \in [Download -> {"none", "partial", "whole"}]
    BY <1>a, <1>9 DEF Packing!KillPack, Packing!deletionVars, Packing!historyVars, Packing!PackGoto, Packing!PackFault, Packing!Unlinked,
       Packing!NoRow
  <2>2. s3' \in [Download -> Pack]
    BY <1>a, <1>c, <1>9 DEF Packing!KillPack, Packing!deletionVars, Packing!historyVars, Packing!PackGoto, Packing!PackFault,
       Packing!Unlinked, Packing!PackPc
  <2>3. /\ s4' \in [Download -> {"none", "row", "done"}]
        /\ s5' \subseteq Download /\ s6' \subseteq Download /\ s7' \in 0 .. MaxPackFaults
        /\ s8' \subseteq Download /\ s9' \subseteq Download /\ s10' \subseteq Download
    BY <1>a, <1>c, <1>9 DEF Packing!KillPack, Packing!deletionVars, Packing!historyVars, Packing!PackGoto, Packing!PackFault, Packing!Unlinked
  <2>4. ASSUME NEW e \in Download, e # d PROVE Packing!JobInv(e)'
    BY <1>a, <1>b, <1>9, <2>4 DEF Packing!KillPack, Packing!deletionVars, Packing!historyVars, Packing!PackGoto, Packing!PackFault,
       Packing!Unlinked, Packing!JobInv, Packing!Untouched, Packing!PathRecorded,
       Packing!ArchiveWhole, Packing!NoRow, Packing!PackRunning, Packing!AtWork
  <2>5. Packing!JobInv(d)'
    BY <1>a, <1>b, <1>c, <1>9 DEF Packing!KillPack, Packing!deletionVars, Packing!historyVars, Packing!PackGoto, Packing!PackFault,
       Packing!Unlinked, Packing!PackPc, Packing!JobInv, Packing!Untouched, Packing!PathRecorded,
       Packing!ArchiveWhole, Packing!NoRow, Packing!PackRunning, Packing!AtWork
  <2> QED
    BY <2>1, <2>2, <2>3, <2>4, <2>5 DEF Packing!DownloadInv, Packing!TypeOK
<1>10. ASSUME NEW d \in Download, Packing!DeleteArchive(d) PROVE Packing!DownloadInv'
  <2>1. /\ s4' = [s4 EXCEPT ![d] = "row"] /\ s1[d].status # "none"
        /\ Packing!RemoveArchives({d}) /\ s1' = s1 /\ s5' = s5 /\ s8' = s8
    BY <1>10 DEF Packing!DeleteArchive
  <2>2. /\ s4' \in [Download -> {"none", "row", "done"}] /\ s4'[d] = "row"
        /\ \A e \in Download \ {d} : s4'[e] = s4[e]
    BY <1>a, <2>1
  <2> QED
    BY <1>a, <1>f, <2>1, <2>2
<1>11. ASSUME NEW d \in Download, Packing!DeleteRow(d) PROVE Packing!DownloadInv'
  <2>1. /\ s4[d] = "row" /\ s2' = s2 /\ s3' = s3 /\ s5' = s5 /\ s6' = s6 /\ s8' = s8
        /\ s9' = s9 /\ s10' = s10 /\ d \in s9
    BY <1>b, <1>11 DEF Packing!DeleteRow, Packing!historyVars, Packing!JobInv, Packing!Untouched
  <2>2. CASE s4' = [s4 EXCEPT ![d] = "done"] /\ s1' = [s1 EXCEPT ![d] = Packing!NoRow] /\ s7' = s7
    <3>1. /\ s4' \in [Download -> {"none", "row", "done"}] /\ s4'[d] = "done"
          /\ \A e \in Download \ {d} : s4'[e] = s4[e]
      BY <1>a, <2>2
    <3>2. /\ s1' \in [Download -> Row] /\ {d} \in SUBSET s9
          /\ \A e \in Download : s1'[e] = IF e \in {d} THEN Packing!NoRow ELSE s1[e]
      BY <1>a, <2>1, <2>2 DEF Packing!NoRow
    <3>3. \A e \in Download : s4'[e] \in {s4[e], "none"} \/ (e \in {d} /\ s4'[e] = "done")
      BY <3>1
    <3> QED
      BY <1>a, <1>g, <2>1, <2>2, <3>1, <3>2, <3>3
  <2>3. CASE s4' = [s4 EXCEPT ![d] = "none"] /\ Packing!PackFault /\ s1' = s1
    <3>1. /\ s4' \in [Download -> {"none", "row", "done"}]
          /\ \A e \in Download : s4'[e] \in {s4[e], "none"}
      BY <1>a, <2>3
    <3>2. /\ s1' \in [Download -> Row] /\ {} \in SUBSET s9
          /\ \A e \in Download : s1'[e] = IF e \in {} THEN Packing!NoRow ELSE s1[e]
      BY <1>a, <2>3
    <3>3. s7' \in 0 .. MaxPackFaults
      BY <1>a, <1>c, <2>3 DEF Packing!PackFault
    <3> QED
      BY <1>a, <1>g, <2>1, <3>1, <3>2, <3>3
  <2> QED
    BY <1>11, <2>2, <2>3 DEF Packing!DeleteRow
<1>12. ASSUME NEW d \in Download, Packing!Expire(d) PROVE Packing!DownloadInv'
  <2>1. s1' \in [Download -> Row] /\ s2' \in [Download -> {"none", "partial", "whole"}]
    BY <1>a, <1>12 DEF Packing!Expire, Packing!historyVars, Packing!PackGoto, Packing!PackFault, Packing!Unlinked,
       Packing!NoRow
  <2>2. s3' \in [Download -> Pack]
    BY <1>a, <1>c, <1>12 DEF Packing!Expire, Packing!historyVars, Packing!PackGoto, Packing!PackFault, Packing!Unlinked,
       Packing!PackPc
  <2>3. /\ s4' \in [Download -> {"none", "row", "done"}]
        /\ s5' \subseteq Download /\ s6' \subseteq Download /\ s7' \in 0 .. MaxPackFaults
        /\ s8' \subseteq Download /\ s9' \subseteq Download /\ s10' \subseteq Download
    BY <1>a, <1>c, <1>12 DEF Packing!Expire, Packing!historyVars, Packing!PackGoto, Packing!PackFault, Packing!Unlinked
  <2>4. ASSUME NEW e \in Download, e # d PROVE Packing!JobInv(e)'
    BY <1>a, <1>b, <1>12, <2>4 DEF Packing!Expire, Packing!historyVars, Packing!PackGoto, Packing!PackFault,
       Packing!Unlinked, Packing!JobInv, Packing!Untouched, Packing!PathRecorded,
       Packing!ArchiveWhole, Packing!NoRow, Packing!PackRunning, Packing!AtWork
  <2>5. Packing!JobInv(d)'
    BY <1>a, <1>b, <1>c, <1>12 DEF Packing!Expire, Packing!historyVars, Packing!PackGoto, Packing!PackFault,
       Packing!Unlinked, Packing!PackPc, Packing!JobInv, Packing!Untouched, Packing!PathRecorded,
       Packing!ArchiveWhole, Packing!NoRow, Packing!PackRunning, Packing!AtWork
  <2> QED
    BY <2>1, <2>2, <2>3, <2>4, <2>5 DEF Packing!DownloadInv, Packing!TypeOK
<1>13. ASSUME Packing!CleanUpExpired PROVE Packing!DownloadInv'
  <2> DEFINE due == {x \in s5 : s1[x].status # "none"}
  <2>1. s8' = due /\ Packing!RemoveArchives(due) /\ s1' = s1 /\ s4' = s4 /\ s5' = s5
    BY <1>13 DEF Packing!CleanUpExpired
  <2>2. due \in SUBSET Download /\ \A e \in due : s1[e].status # "none"
    BY <1>a
  <2> HIDE DEF due
  <2> QED
    BY <1>a, <1>f, <2>1, <2>2
<1>14. ASSUME Packing!CommitCleanUp PROVE Packing!DownloadInv'
  <2>1. /\ s2' = s2 /\ s3' = s3 /\ s4' = s4 /\ s5' = s5 /\ s6' = s6 /\ s8' = {}
        /\ s9' = s9 /\ s10' = s10
    BY <1>14 DEF Packing!CommitCleanUp, Packing!historyVars
  <2>2. s8 \subseteq s9
    BY <1>a, <1>b DEF Packing!JobInv, Packing!Untouched
  <2>3. CASE /\ s1' = [e \in Download |-> IF e \in s8 THEN Packing!NoRow ELSE s1[e]] /\ s7' = s7
    <3>1. /\ s1' \in [Download -> Row] /\ s8 \in SUBSET s9
          /\ \A e \in Download : s1'[e] = IF e \in s8 THEN Packing!NoRow ELSE s1[e]
      BY <1>a, <2>2, <2>3 DEF Packing!NoRow
    <3> QED
      BY <1>a, <1>g, <2>1, <2>3, <3>1
  <2>4. CASE Packing!PackFault /\ s1' = s1
    <3>1. /\ s1' \in [Download -> Row] /\ {} \in SUBSET s9
          /\ \A e \in Download : s1'[e] = IF e \in {} THEN Packing!NoRow ELSE s1[e]
      BY <1>a, <2>4
    <3>2. s7' \in 0 .. MaxPackFaults
      BY <1>a, <1>c, <2>4 DEF Packing!PackFault
    <3> QED
      BY <1>a, <1>g, <2>1, <3>1, <3>2
  <2> QED
    BY <1>14, <2>3, <2>4 DEF Packing!CommitCleanUp
<1> QED
  BY <1>1, <1>2, <1>3, <1>4, <1>5, <1>6, <1>7, <1>8, <1>9, <1>10, <1>11, <1>12, <1>13, <1>14
     DEF Packing!Next

(***************************************************************************)
(* Libraries (LibraryProvisioningService, create_library, delete_library)  *)
(***************************************************************************)

\* At first there is one library at most, with its config and folders.
LEMMA ProvisionInit == Provision!Init => Provision!ProvisionInv
<1> SUFFICES ASSUME Provision!Init PROVE Provision!ProvisionInv
  OBVIOUS
<1> USE BoundsAssumption, SlugAssumption DEF BoundsAssumption, SlugAssumption, Provision!Init,
   Provision!Idle,
    Provision!OldRow, Provision!Slug, Provision!Kind, Provision!Pcs
<1>1. Provision!TypeOK /\ Provision!Records
  BY DEF Provision!TypeOK, Provision!Records, Provision!At, Provision!Holding, Provision!Removing
<1>2. \A r \in Admin : ~ Provision!Holding(r) /\ ~ Provision!Removing(r) /\ s5[r].pc = "idle"
  BY DEF Provision!Holding, Provision!Removing
<1>3. /\ \A row, other \in s1 : row = other
      /\ \A row \in s1 : Provision!RowTaken(row)
  <2>1. CASE s1 = {}
    BY <2>1
  <2>2. CASE s1 = {Provision!OldRow}
    <3>1. s2 = {1} /\ 1 \in Provision!Slug /\ \A row \in s1 : row.at = 1
      BY <2>2
    <3>2. s4[<<"library", 1>>] = "full" /\ s4[<<"import", 1>>] = "full"
      BY <3>1
    <3> QED
      BY <2>2, <3>1, <3>2 DEF Provision!RowTaken
  <2> QED
    BY <2>1, <2>2
<1>4. Provision!OneParty
  BY <1>2, <1>3 DEF Provision!OneParty
<1>5. Provision!TakenOnDisk
  BY <1>2, <1>3 DEF Provision!TakenOnDisk, Provision!RequestTaken
<1> QED
  BY <1>1, <1>4, <1>5 DEF Provision!ProvisionInv

\* Every step of a creation, its clean-up, an adoption, an update and a deletion
\* keeps ProvisionInv: at a slug nobody spoiled there is one party, and the disk
\* shows that it is taken.
LEMMA ProvisionStep == Provision!ProvisionInv /\ Provision!Next => Provision!ProvisionInv'
<1> SUFFICES ASSUME Provision!ProvisionInv, Provision!Next PROVE Provision!ProvisionInv'
  OBVIOUS
<1> DEFINE Rows == [id : Admin \cup {"old"}, name : LibName, slug : Provision!Slug, at : Provision!Slug]
           Requests == [pc : Provision!Pcs, name : LibName \cup {0}, slug : 0 .. MaxSlug,
                        known : SUBSET Provision!Slug, todo : SUBSET Provision!Resource]
           Folders == [Provision!Kind \X Provision!Slug -> {"absent", "empty", "full"}]
<1>a. /\ s1 \subseteq Rows /\ s2 \subseteq Provision!Slug /\ s3 \subseteq Provision!Slug
      /\ s4 \in Folders
      /\ s5 \in [Admin -> Requests] /\ s6 \in 0 .. MaxProvFaults /\ s7 \subseteq Provision!Slug
  BY DEF Provision!ProvisionInv, Provision!TypeOK, Provision!Records
<1>b. Provision!OneParty /\ Provision!TakenOnDisk
  BY DEF Provision!ProvisionInv
<1>c. \A r \in Admin : /\ Provision!Holding(r) => s5[r].slug \in Provision!Slug /\ s5[r].name \in LibName
                       /\ s5[r].pc = "checked" => s5[r].name \in LibName
                       /\ Provision!Removing(r) => s5[r].slug \in Provision!Slug
  BY DEF Provision!ProvisionInv, Provision!Records, Provision!At
<1>d. MaxProvFaults \in Nat /\ MaxSlug \in Nat /\ Provision!Slug = 1 .. MaxSlug
  BY BoundsAssumption, SlugAssumption DEF BoundsAssumption, SlugAssumption, Provision!Slug
<1>e. Provision!Kind = {"library", "import"}
  BY DEF Provision!Kind
\* What a request that moves on leaves as it was.
<1>f. ASSUME NEW r \in Admin, NEW x \in Requests
      PROVE  /\ [s5 EXCEPT ![r] = x] \in [Admin -> Requests] /\ [s5 EXCEPT ![r] = x][r] = x
             /\ \A q \in Admin \ {r} : [s5 EXCEPT ![r] = x][q] = s5[q]
  BY ONLY <1>a, <1>f
<1>g. ASSUME NEW r \in Admin, NEW pc \in Provision!Pcs, Provision!Go(r, pc)
      PROVE  /\ s5' \in [Admin -> Requests] /\ s5'[r].pc = pc /\ s5'[r].slug = s5[r].slug
             /\ s5'[r].name = s5[r].name /\ s5'[r].todo = s5[r].todo
             /\ \A q \in Admin \ {r} : s5'[q] = s5[q]
  <2>1. s5' = [s5 EXCEPT ![r].pc = pc]
    BY <1>g DEF Provision!Go
  <2> QED
    BY ONLY <1>a, <1>g, <2>1
<1>1. ASSUME NEW r \in Admin, NEW n \in LibName, NEW s \in Provision!Slug \cup {0}, Provision!CheckTable(r, n, s)
      PROVE  Provision!ProvisionInv'
  <2>1. /\ s5' \in [Admin -> Requests] /\ s5'[r].pc = "checked" /\ s5'[r].name \in LibName /\ s5[r].pc = "idle"
        /\ \A q \in Admin \ {r} : s5'[q] = s5[q]
    <3> DEFINE x == [Provision!Idle EXCEPT !.pc = "checked", !.name = n, !.slug = s, !.known = Provision!Slugs]
    <3>1. Provision!Idle \in Requests /\ Provision!Slugs \in SUBSET Provision!Slug /\ s \in 0 .. MaxSlug
      BY <1>a, <1>d DEF Provision!Idle, Provision!Pcs, Provision!Slugs
    <3>2. x \in Requests /\ x.pc = "checked" /\ x.name = n
      BY ONLY <1>1, <3>1 DEF Provision!Pcs
    <3>3. s5' = [s5 EXCEPT ![r] = x] /\ s5[r].pc = "idle"
      BY <1>1 DEF Provision!CheckTable, Provision!At
    <3> HIDE DEF x
    <3> QED
      BY <1>f, <3>2, <3>3
  <2>2. /\ s1' \subseteq Rows /\ s2' \subseteq Provision!Slug /\ s3' \subseteq Provision!Slug
        /\ s6' \in 0 .. MaxProvFaults /\ s7' \subseteq Provision!Slug
    BY <1>a, <1>c, <1>d, <1>1, <2>1 DEF Provision!CheckTable, Provision!disk, Provision!Holding,
       Provision!At
  <2>3. s4' \in Folders
    BY <1>a, <1>c, <1>e, <1>1 DEF Provision!CheckTable, Provision!disk, Provision!Holding,
       Provision!At
  <2>4. \A q \in Admin : /\ Provision!Holding(q)' => s5'[q].slug \in Provision!Slug /\ s5'[q].name \in LibName
                         /\ s5'[q].pc = "checked" => s5'[q].name \in LibName
                         /\ Provision!Removing(q)' => s5'[q].slug \in Provision!Slug
    BY <1>a, <1>c, <1>d, <2>1 DEF Provision!Holding, Provision!Removing, Provision!At
  <2>5. Provision!OneParty'
    BY <1>a, <1>b, <1>1, <2>1 DEF Provision!CheckTable, Provision!disk, Provision!OneParty,
       Provision!Holding, Provision!Removing, Provision!At
  <2>6. Provision!TakenOnDisk'
    <3>1. ASSUME NEW lib \in s1', lib.at \notin s7' PROVE Provision!RowTaken(lib)'
      BY <1>a, <1>b, <1>c, <1>e, <1>1, <2>1, <2>2, <3>1 DEF Provision!CheckTable, Provision!disk,
         Provision!OneParty, Provision!TakenOnDisk, Provision!RowTaken, Provision!RequestTaken,
         Provision!Holding, Provision!Removing, Provision!At
    <3>2. ASSUME NEW q \in Admin \ {r}, s5'[q].slug \notin s7' PROVE Provision!RequestTaken(q)'
      BY <1>a, <1>b, <1>c, <1>e, <1>1, <2>1, <3>2 DEF Provision!CheckTable, Provision!disk,
         Provision!OneParty, Provision!TakenOnDisk, Provision!RowTaken, Provision!RequestTaken,
         Provision!Holding, Provision!Removing, Provision!At
    <3>3. ASSUME s5'[r].slug \notin s7' PROVE Provision!RequestTaken(r)'
      BY <1>a, <1>b, <1>c, <1>e, <1>1, <2>1, <3>3 DEF Provision!CheckTable, Provision!disk,
         Provision!OneParty, Provision!TakenOnDisk, Provision!RowTaken, Provision!RequestTaken,
         Provision!Holding, Provision!Removing, Provision!At
    <3> QED
      BY <2>1, <3>1, <3>2, <3>3 DEF Provision!TakenOnDisk
  <2> QED
    BY <2>1, <2>2, <2>3, <2>4, <2>5, <2>6 DEF Provision!ProvisionInv, Provision!TypeOK,
       Provision!Records, Provision!At
<1>2. ASSUME NEW r \in Admin, Provision!ChooseSlug(r)
      PROVE  Provision!ProvisionInv'
  <2>1. /\ s5' \in [Admin -> Requests] /\ s5'[r].pc \in {"chosen", "done"} /\ s5[r].pc = "checked"
        /\ s5'[r].name = s5[r].name /\ \A q \in Admin \ {r} : s5'[q] = s5[q]
        /\ s5'[r].pc = "done" => s7' = s7
        /\ s5'[r].pc = "chosen" =>
             /\ s5'[r].slug \in Provision!Slug /\ ~ Provision!Collision(s5'[r].slug)
             /\ s7' = IF Provision!Holders(s5'[r].slug) = {} THEN s7 ELSE s7 \cup {s5'[r].slug}
    <3>1. CASE s5[r].slug # 0
      <4>1. PICK pc \in {"done", "chosen"} : /\ Provision!Go(r, pc)
                                             /\ pc = "done" <=> Provision!Collision(s5[r].slug)
        BY <1>2, <3>1 DEF Provision!ChooseSlug
      <4>2. /\ s5' \in [Admin -> Requests] /\ s5'[r].pc = pc /\ s5'[r].slug = s5[r].slug
            /\ s5'[r].name = s5[r].name /\ \A q \in Admin \ {r} : s5'[q] = s5[q]
        BY <1>g, <4>1 DEF Provision!Pcs
      <4>3. s5[r].slug \in Provision!Slug
        BY <1>a, <1>d, <3>1
      <4> QED
        BY <1>2, <3>1, <4>1, <4>2, <4>3 DEF Provision!ChooseSlug, Provision!At
    <3>2. CASE s5[r].slug = 0
      <4>1. PICK s \in Provision!Slug :
              /\ Provision!Unique(s, s5[r].name, s5[r].known)
              /\ s5' = [s5 EXCEPT ![r].pc = "chosen", ![r].slug = s]
              /\ s7' = IF Provision!Holders(s) = {} THEN s7 ELSE s7 \cup {s}
        BY <1>2, <3>2 DEF Provision!ChooseSlug
      <4> DEFINE x == [s5[r] EXCEPT !.pc = "chosen", !.slug = s]
      <4>2. s5[r] \in Requests /\ s \in 0 .. MaxSlug
        BY <1>a, <1>d
      <4>3. x \in Requests /\ x.pc = "chosen" /\ x.slug = s /\ x.name = s5[r].name
        BY ONLY <4>2 DEF Provision!Pcs
      <4>4. s5' = [s5 EXCEPT ![r] = x]
        BY <4>1
      <4> HIDE DEF x
      <4>5. /\ s5' \in [Admin -> Requests] /\ s5'[r].pc = "chosen" /\ s5'[r].slug = s
            /\ s5'[r].name = s5[r].name /\ \A q \in Admin \ {r} : s5'[q] = s5[q]
        BY <1>f, <4>3, <4>4
      <4> QED
        BY <1>2, <4>1, <4>5 DEF Provision!ChooseSlug, Provision!At, Provision!Unique
    <3> QED
      BY <3>1, <3>2
  <2>2. /\ s1' \subseteq Rows /\ s2' \subseteq Provision!Slug /\ s3' \subseteq Provision!Slug
        /\ s6' \in 0 .. MaxProvFaults /\ s7' \subseteq Provision!Slug
    BY <1>a, <1>c, <1>d, <1>2, <2>1 DEF Provision!ChooseSlug, Provision!disk, Provision!Holding,
       Provision!At
  <2>3. s4' \in Folders
    BY <1>a, <1>c, <1>e, <1>2 DEF Provision!ChooseSlug, Provision!disk, Provision!Holding,
       Provision!At
  <2>4. \A q \in Admin : /\ Provision!Holding(q)' => s5'[q].slug \in Provision!Slug /\ s5'[q].name \in LibName
                         /\ s5'[q].pc = "checked" => s5'[q].name \in LibName
                         /\ Provision!Removing(q)' => s5'[q].slug \in Provision!Slug
    BY <1>a, <1>c, <1>d, <2>1 DEF Provision!Holding, Provision!Removing, Provision!At
  <2>5. Provision!OneParty'
    <3>1. s1' = s1 /\ s2' = s2 /\ s3' = s3 /\ s4' = s4 /\ s7 \subseteq s7'
      BY <1>2, <2>1 DEF Provision!ChooseSlug, Provision!disk
    <3>2. ASSUME s5'[r].pc = "chosen", s5'[r].slug \notin s7'
          PROVE  /\ \A row \in s1 : row.at # s5'[r].slug
                 /\ \A q \in Admin \ {r} : Provision!Holding(q) \/ Provision!Removing(q) => s5[q].slug # s5'[r].slug
      <4>1. s5'[r].slug \notin s7 /\ Provision!Holders(s5'[r].slug) = {}
        BY <2>1, <3>2
      <4>2. \A q \in Admin : Provision!Holding(q) => s5[q].slug # s5'[r].slug
        BY <4>1 DEF Provision!Holders, Provision!Holding
      <4>3. /\ s5'[r].slug \notin s2
            /\ \A k \in Provision!Kind : s4[k, s5'[r].slug] = "absent"
        BY <2>1, <3>2 DEF Provision!Collision
      <4>4. \A row \in s1 : row.at # s5'[r].slug
        BY <1>b, <4>1, <4>3 DEF Provision!TakenOnDisk, Provision!RowTaken
      <4>5. \A q \in Admin : Provision!Removing(q) => s5[q].slug # s5'[r].slug
        BY <1>b, <1>e, <4>1, <4>3 DEF Provision!TakenOnDisk, Provision!RequestTaken
      <4> QED
        BY <4>2, <4>4, <4>5
    <3>3. \A q \in Admin : q # r => (Provision!Holding(q)' <=> Provision!Holding(q)) /\ (Provision!Removing(q)' <=> Provision!Removing(q))
      BY <2>1 DEF Provision!Holding, Provision!Removing
    <3>4. ~ Provision!Removing(r)' /\ (Provision!Holding(r)' => s5'[r].pc = "chosen")
      BY <2>1 DEF Provision!Holding, Provision!Removing
    <3>5. \A row, other \in s1' : row.at = other.at /\ row.at \notin s7' => other = row
      BY <1>b, <3>1 DEF Provision!OneParty
    <3>6. ASSUME NEW q \in Admin, Provision!Holding(q)' \/ Provision!Removing(q)', s5'[q].slug \notin s7'
          PROVE  /\ \A row \in s1' : row.at # s5'[q].slug
                 /\ \A p \in Admin \ {q} : Provision!Holding(p)' \/ Provision!Removing(p)' => s5'[p].slug # s5'[q].slug
      <4>1. CASE q = r
        BY <2>1, <3>1, <3>2, <3>3, <3>4, <3>6, <4>1
      <4>2. CASE q # r
        <5>1. /\ Provision!Holding(q) \/ Provision!Removing(q)
              /\ s5[q].slug \notin s7 /\ s5'[q].slug = s5[q].slug
          BY <2>1, <3>1, <3>3, <3>6, <4>2
        <5>2. /\ \A row \in s1 : row.at # s5[q].slug
              /\ \A p \in Admin \ {q} : Provision!Holding(p) \/ Provision!Removing(p) => s5[p].slug # s5[q].slug
          BY <1>b, <5>1 DEF Provision!OneParty
        <5>3. Provision!Holding(r)' \/ Provision!Removing(r)' => s5'[r].slug # s5'[q].slug
          BY <2>1, <3>2, <3>4, <3>6, <4>2, <5>1
        <5> QED
          BY <2>1, <3>1, <3>3, <5>1, <5>2, <5>3
      <4> QED
        BY <4>1, <4>2
    <3> QED
      BY <3>5, <3>6 DEF Provision!OneParty
  <2>6. Provision!TakenOnDisk'
    <3>1. s1' = s1 /\ s2' = s2 /\ s4' = s4 /\ s7 \subseteq s7'
      BY <1>2, <2>1 DEF Provision!ChooseSlug, Provision!disk
    <3> QED
      BY <1>b, <2>1, <3>1 DEF Provision!TakenOnDisk, Provision!RowTaken, Provision!RequestTaken,
         Provision!Removing
  <2> QED
    BY <2>1, <2>2, <2>3, <2>4, <2>5, <2>6 DEF Provision!ProvisionInv, Provision!TypeOK,
       Provision!Records, Provision!At
<1>3. ASSUME NEW r \in Admin, NEW k \in Provision!Kind, Provision!MakeFolder(r, k)
      PROVE  Provision!ProvisionInv'
  <2>1. /\ s5' \in [Admin -> Requests] /\ s5'[r].pc = (IF k = "library" THEN "one" ELSE "two") /\ s5'[r].slug = s5[r].slug
        /\ s5'[r].name = s5[r].name /\ s5[r].pc = (IF k = "library" THEN "chosen" ELSE "one")
        /\ \A q \in Admin \ {r} : s5'[q] = s5[q]
    BY <1>g, <1>3 DEF Provision!MakeFolder, Provision!At, Provision!Pcs
  <2>2. /\ s1' \subseteq Rows /\ s2' \subseteq Provision!Slug /\ s3' \subseteq Provision!Slug
        /\ s6' \in 0 .. MaxProvFaults /\ s7' \subseteq Provision!Slug
    BY <1>a, <1>c, <1>d, <1>3, <2>1 DEF Provision!MakeFolder, Provision!disk, Provision!Make,
       Provision!Holding, Provision!At
  <2>3. s4' \in Folders
    BY <1>a, <1>c, <1>e, <1>3 DEF Provision!MakeFolder, Provision!disk, Provision!Make,
       Provision!Holding, Provision!At
  <2>4. \A q \in Admin : /\ Provision!Holding(q)' => s5'[q].slug \in Provision!Slug /\ s5'[q].name \in LibName
                         /\ s5'[q].pc = "checked" => s5'[q].name \in LibName
                         /\ Provision!Removing(q)' => s5'[q].slug \in Provision!Slug
    BY <1>a, <1>c, <1>d, <2>1 DEF Provision!Holding, Provision!Removing, Provision!At
  <2>5. Provision!OneParty'
    BY SMTT(30), <1>a, <1>b, <1>3, <2>1 DEF Provision!MakeFolder, Provision!disk, Provision!Make,
       Provision!OneParty, Provision!Holding, Provision!Removing, Provision!At
  <2>6. Provision!TakenOnDisk'
    <3>1. /\ s1' = s1 /\ s2' = s2 /\ s7' = s7
          /\ s4' = [s4 EXCEPT ![<<k, s5[r].slug>>] = IF @ = "absent" THEN "empty" ELSE @]
      BY <1>3 DEF Provision!MakeFolder, Provision!Make
    <3>2. s5[r].slug \in Provision!Slug
      BY <1>c, <2>1 DEF Provision!Holding
    <3>3. /\ \A j \in Provision!Kind, s \in Provision!Slug : s4[<<j, s>>] # "absent" => s4'[<<j, s>>] # "absent"
          /\ s4'[<<k, s5[r].slug>>] # "absent"
      BY ONLY <1>a, <1>3, <3>1, <3>2
    <3>4. ASSUME NEW lib \in s1', lib.at \notin s7' PROVE Provision!RowTaken(lib)'
      BY <1>a, <1>b, <1>e, <3>1, <3>3, <3>4 DEF Provision!TakenOnDisk, Provision!RowTaken
    <3>5. ASSUME NEW q \in Admin \ {r}, s5'[q].slug \notin s7' PROVE Provision!RequestTaken(q)'
      BY <1>b, <1>c, <1>e, <2>1, <3>1, <3>3, <3>5 DEF Provision!TakenOnDisk,
         Provision!RequestTaken, Provision!Holding, Provision!Removing
    <3>6. ASSUME s5'[r].slug \notin s7' PROVE Provision!RequestTaken(r)'
      BY <1>3, <1>b, <1>e, <2>1, <3>1, <3>2, <3>3, <3>6 DEF Provision!TakenOnDisk,
         Provision!RequestTaken, Provision!Removing
    <3> QED
      BY <2>1, <3>4, <3>5, <3>6 DEF Provision!TakenOnDisk
  <2> QED
    BY <2>1, <2>2, <2>3, <2>4, <2>5, <2>6 DEF Provision!ProvisionInv, Provision!TypeOK,
       Provision!Records, Provision!At
<1>4. ASSUME NEW r \in Admin, Provision!WriteConfig(r)
      PROVE  Provision!ProvisionInv'
  <2>1. /\ s5' \in [Admin -> Requests] /\ s5'[r].pc = "written" /\ s5'[r].slug = s5[r].slug
        /\ s5'[r].name = s5[r].name /\ s5[r].pc = "two"
        /\ \A q \in Admin \ {r} : s5'[q] = s5[q]
    BY <1>g, <1>4 DEF Provision!WriteConfig, Provision!At, Provision!Pcs
  <2>2. /\ s1' \subseteq Rows /\ s2' \subseteq Provision!Slug /\ s3' \subseteq Provision!Slug
        /\ s6' \in 0 .. MaxProvFaults /\ s7' \subseteq Provision!Slug
    BY <1>a, <1>c, <1>d, <1>4, <2>1 DEF Provision!WriteConfig, Provision!disk, Provision!Holding,
       Provision!At
  <2>3. s4' \in Folders
    BY <1>a, <1>c, <1>e, <1>4 DEF Provision!WriteConfig, Provision!disk, Provision!Holding,
       Provision!At
  <2>4. \A q \in Admin : /\ Provision!Holding(q)' => s5'[q].slug \in Provision!Slug /\ s5'[q].name \in LibName
                         /\ s5'[q].pc = "checked" => s5'[q].name \in LibName
                         /\ Provision!Removing(q)' => s5'[q].slug \in Provision!Slug
    BY <1>a, <1>c, <1>d, <2>1 DEF Provision!Holding, Provision!Removing, Provision!At
  <2>5. Provision!OneParty'
    BY <1>a, <1>b, <1>4, <2>1 DEF Provision!WriteConfig, Provision!disk, Provision!OneParty,
       Provision!Holding, Provision!Removing, Provision!At
  <2>6. Provision!TakenOnDisk'
    <3>1. ASSUME NEW lib \in s1', lib.at \notin s7' PROVE Provision!RowTaken(lib)'
      BY <1>a, <1>b, <1>c, <1>e, <1>4, <2>1, <2>2, <3>1 DEF Provision!WriteConfig, Provision!disk,
         Provision!OneParty, Provision!TakenOnDisk, Provision!RowTaken, Provision!RequestTaken,
         Provision!Holding, Provision!Removing, Provision!At
    <3>2. ASSUME NEW q \in Admin \ {r}, s5'[q].slug \notin s7' PROVE Provision!RequestTaken(q)'
      BY ZenonT(60), <1>a, <1>b, <1>c, <1>e, <1>4, <2>1, <3>2 DEF Provision!WriteConfig,
         Provision!disk,
         Provision!OneParty, Provision!TakenOnDisk, Provision!RowTaken, Provision!RequestTaken,
         Provision!Holding, Provision!Removing, Provision!At
    <3>3. ASSUME s5'[r].slug \notin s7' PROVE Provision!RequestTaken(r)'
      BY <1>a, <1>b, <1>c, <1>e, <1>4, <2>1, <3>3 DEF Provision!WriteConfig, Provision!disk,
         Provision!OneParty, Provision!TakenOnDisk, Provision!RowTaken, Provision!RequestTaken,
         Provision!Holding, Provision!Removing, Provision!At
    <3> QED
      BY <2>1, <3>1, <3>2, <3>3 DEF Provision!TakenOnDisk
  <2> QED
    BY <2>1, <2>2, <2>3, <2>4, <2>5, <2>6 DEF Provision!ProvisionInv, Provision!TypeOK,
       Provision!Records, Provision!At
<1>5. ASSUME NEW r \in Admin, Provision!ProvisionFails(r)
      PROVE  Provision!ProvisionInv'
  <2>1. /\ s5' \in [Admin -> Requests] /\ s5'[r].pc = "done" /\ s5'[r].slug = s5[r].slug
        /\ s5'[r].name = s5[r].name
        /\ \A q \in Admin \ {r} : s5'[q] = s5[q]
    BY <1>g, <1>5 DEF Provision!ProvisionFails, Provision!At, Provision!Pcs
  <2>2. /\ s1' \subseteq Rows /\ s2' \subseteq Provision!Slug /\ s3' \subseteq Provision!Slug
        /\ s6' \in 0 .. MaxProvFaults /\ s7' \subseteq Provision!Slug
    BY <1>a, <1>c, <1>d, <1>5, <2>1 DEF Provision!ProvisionFails, Provision!disk,
       Provision!Holding, Provision!At
  <2>3. s4' \in Folders
    BY <1>a, <1>c, <1>e, <1>5 DEF Provision!ProvisionFails, Provision!disk, Provision!Holding,
       Provision!At
  <2>4. \A q \in Admin : /\ Provision!Holding(q)' => s5'[q].slug \in Provision!Slug /\ s5'[q].name \in LibName
                         /\ s5'[q].pc = "checked" => s5'[q].name \in LibName
                         /\ Provision!Removing(q)' => s5'[q].slug \in Provision!Slug
    BY <1>a, <1>c, <1>d, <2>1 DEF Provision!Holding, Provision!Removing, Provision!At
  <2>5. Provision!OneParty'
    BY <1>a, <1>b, <1>5, <2>1 DEF Provision!ProvisionFails, Provision!disk, Provision!OneParty,
       Provision!Holding, Provision!Removing, Provision!At
  <2>6. Provision!TakenOnDisk'
    <3>1. ASSUME NEW lib \in s1', lib.at \notin s7' PROVE Provision!RowTaken(lib)'
      BY <1>a, <1>b, <1>c, <1>e, <1>5, <2>1, <2>2, <3>1 DEF Provision!ProvisionFails,
         Provision!disk, Provision!OneParty, Provision!TakenOnDisk, Provision!RowTaken,
         Provision!RequestTaken, Provision!Holding, Provision!Removing, Provision!At
    <3>2. ASSUME NEW q \in Admin \ {r}, s5'[q].slug \notin s7' PROVE Provision!RequestTaken(q)'
      BY ZenonT(60), <1>a, <1>b, <1>c, <1>e, <1>5, <2>1, <3>2 DEF Provision!ProvisionFails, Provision!disk,
         Provision!OneParty, Provision!TakenOnDisk, Provision!RowTaken, Provision!RequestTaken,
         Provision!Holding, Provision!Removing, Provision!At
    <3>3. ASSUME s5'[r].slug \notin s7' PROVE Provision!RequestTaken(r)'
      BY <1>a, <1>b, <1>c, <1>e, <1>5, <2>1, <3>3 DEF Provision!ProvisionFails, Provision!disk,
         Provision!OneParty, Provision!TakenOnDisk, Provision!RowTaken, Provision!RequestTaken,
         Provision!Holding, Provision!Removing, Provision!At
    <3> QED
      BY <2>1, <3>1, <3>2, <3>3 DEF Provision!TakenOnDisk
  <2> QED
    BY <2>1, <2>2, <2>3, <2>4, <2>5, <2>6 DEF Provision!ProvisionInv, Provision!TypeOK,
       Provision!Records, Provision!At
<1>6. ASSUME NEW r \in Admin, Provision!VerifyConfig(r)
      PROVE  Provision!ProvisionInv'
  <2>1. /\ s5' \in [Admin -> Requests] /\ s5'[r].pc = "provisioned" /\ s5'[r].slug = s5[r].slug
        /\ s5'[r].name = s5[r].name /\ s5[r].pc = "written"
        /\ \A q \in Admin \ {r} : s5'[q] = s5[q]
    BY <1>g, <1>6 DEF Provision!VerifyConfig, Provision!At, Provision!Pcs
  <2>2. /\ s1' \subseteq Rows /\ s2' \subseteq Provision!Slug /\ s3' \subseteq Provision!Slug
        /\ s6' \in 0 .. MaxProvFaults /\ s7' \subseteq Provision!Slug
    BY <1>a, <1>c, <1>d, <1>6, <2>1 DEF Provision!VerifyConfig, Provision!disk, Provision!Holding,
       Provision!At
  <2>3. s4' \in Folders
    BY <1>a, <1>c, <1>e, <1>6 DEF Provision!VerifyConfig, Provision!disk, Provision!Holding,
       Provision!At
  <2>4. \A q \in Admin : /\ Provision!Holding(q)' => s5'[q].slug \in Provision!Slug /\ s5'[q].name \in LibName
                         /\ s5'[q].pc = "checked" => s5'[q].name \in LibName
                         /\ Provision!Removing(q)' => s5'[q].slug \in Provision!Slug
    BY <1>a, <1>c, <1>d, <2>1 DEF Provision!Holding, Provision!Removing, Provision!At
  <2>5. Provision!OneParty'
    BY <1>a, <1>b, <1>6, <2>1 DEF Provision!VerifyConfig, Provision!disk, Provision!OneParty,
       Provision!Holding, Provision!Removing, Provision!At
  <2>6. Provision!TakenOnDisk'
    <3>1. ASSUME NEW lib \in s1', lib.at \notin s7' PROVE Provision!RowTaken(lib)'
      BY <1>a, <1>b, <1>c, <1>e, <1>6, <2>1, <2>2, <3>1 DEF Provision!VerifyConfig, Provision!disk,
         Provision!OneParty, Provision!TakenOnDisk, Provision!RowTaken, Provision!RequestTaken,
         Provision!Holding, Provision!Removing, Provision!At
    <3>2. ASSUME NEW q \in Admin \ {r}, s5'[q].slug \notin s7' PROVE Provision!RequestTaken(q)'
      BY ZenonT(60), <1>a, <1>b, <1>c, <1>e, <1>6, <2>1, <3>2 DEF Provision!VerifyConfig, Provision!disk,
         Provision!OneParty, Provision!TakenOnDisk, Provision!RowTaken, Provision!RequestTaken,
         Provision!Holding, Provision!Removing, Provision!At
    <3>3. ASSUME s5'[r].slug \notin s7' PROVE Provision!RequestTaken(r)'
      BY <1>a, <1>b, <1>c, <1>e, <1>6, <2>1, <3>3 DEF Provision!VerifyConfig, Provision!disk,
         Provision!OneParty, Provision!TakenOnDisk, Provision!RowTaken, Provision!RequestTaken,
         Provision!Holding, Provision!Removing, Provision!At
    <3> QED
      BY <2>1, <3>1, <3>2, <3>3 DEF Provision!TakenOnDisk
  <2> QED
    BY <2>1, <2>2, <2>3, <2>4, <2>5, <2>6 DEF Provision!ProvisionInv, Provision!TypeOK,
       Provision!Records, Provision!At
<1>7. ASSUME NEW r \in Admin, Provision!CommitRow(r)
      PROVE  Provision!ProvisionInv'
  <2>1. /\ s5' \in [Admin -> Requests] /\ s5'[r].pc = "done" /\ s5'[r].slug = s5[r].slug
        /\ s5'[r].name = s5[r].name /\ s5[r].pc = "provisioned"
        /\ \A q \in Admin \ {r} : s5'[q] = s5[q]
    BY <1>g, <1>7 DEF Provision!CommitRow, Provision!At, Provision!Pcs
  <2>2. /\ s1' \subseteq Rows /\ s2' \subseteq Provision!Slug /\ s3' \subseteq Provision!Slug
        /\ s6' \in 0 .. MaxProvFaults /\ s7' \subseteq Provision!Slug
    BY <1>a, <1>c, <1>d, <1>7, <2>1 DEF Provision!CommitRow, Provision!disk, Provision!NewRow,
       Provision!Holding, Provision!At
  <2>3. s4' \in Folders
    BY <1>a, <1>c, <1>e, <1>7 DEF Provision!CommitRow, Provision!disk, Provision!NewRow,
       Provision!Holding, Provision!At
  <2>4. \A q \in Admin : /\ Provision!Holding(q)' => s5'[q].slug \in Provision!Slug /\ s5'[q].name \in LibName
                         /\ s5'[q].pc = "checked" => s5'[q].name \in LibName
                         /\ Provision!Removing(q)' => s5'[q].slug \in Provision!Slug
    BY <1>a, <1>c, <1>d, <2>1 DEF Provision!Holding, Provision!Removing, Provision!At
  <2>5. Provision!OneParty'
    BY SMTT(30), <1>a, <1>b, <1>7, <2>1 DEF Provision!CommitRow, Provision!disk, Provision!NewRow,
       Provision!OneParty, Provision!Holding, Provision!Removing, Provision!At
  <2>6. Provision!TakenOnDisk'
    <3>1. /\ s2' = s2 /\ s4' = s4 /\ s7 \subseteq s7'
          /\ s1' = s1 \/ s1' = s1 \cup {Provision!NewRow(r)}
      BY <1>7 DEF Provision!CommitRow, Provision!disk
    <3>2. Provision!NewRow(r).at = s5[r].slug
      BY DEF Provision!NewRow
    <3>3. s5[r].slug \notin s7 => Provision!RowTaken(Provision!NewRow(r))
      BY <1>b, <2>1, <3>2 DEF Provision!TakenOnDisk, Provision!RowTaken, Provision!RequestTaken
    <3>4. ASSUME NEW lib \in s1', lib.at \notin s7' PROVE Provision!RowTaken(lib)
      BY <1>b, <3>1, <3>2, <3>3, <3>4 DEF Provision!TakenOnDisk
    <3>5. ASSUME NEW q \in Admin, s5'[q].slug \notin s7' PROVE Provision!RequestTaken(q)'
      BY <1>b, <2>1, <3>1, <3>5 DEF Provision!TakenOnDisk, Provision!RequestTaken,
         Provision!Removing
    <3> QED
      BY <3>1, <3>4, <3>5 DEF Provision!TakenOnDisk, Provision!RowTaken
  <2> QED
    BY <2>1, <2>2, <2>3, <2>4, <2>5, <2>6 DEF Provision!ProvisionInv, Provision!TypeOK,
       Provision!Records, Provision!At
<1>8. ASSUME NEW r \in Admin, Provision!CommitRefused(r)
      PROVE  Provision!ProvisionInv'
  <2>1. /\ s5' \in [Admin -> Requests] /\ s5'[r].pc = "undoing" /\ s5'[r].slug = s5[r].slug
        /\ s5'[r].name = s5[r].name /\ s5[r].pc = "provisioned"
        /\ \A q \in Admin \ {r} : s5'[q] = s5[q]
    <3>1. s5' = [s5 EXCEPT ![r].pc = "undoing", ![r].todo = {"config", "library", "import"}] /\ s5[r].pc = "provisioned"
      BY <1>8 DEF Provision!CommitRefused, Provision!Undo, Provision!At
    <3> DEFINE x == [s5[r] EXCEPT !.pc = "undoing", !.todo = {"config", "library", "import"}]
    <3>2. s5[r] \in Requests
      BY <1>a
    <3>3. x \in Requests /\ x.pc = "undoing" /\ x.slug = s5[r].slug /\ x.name = s5[r].name
      BY ONLY <3>2 DEF Provision!Pcs, Provision!Resource
    <3>4. s5' = [s5 EXCEPT ![r] = x]
      BY <3>1
    <3> HIDE DEF x
    <3> QED
      BY <1>f, <3>1, <3>3, <3>4
  <2>2. /\ s1' \subseteq Rows /\ s2' \subseteq Provision!Slug /\ s3' \subseteq Provision!Slug
        /\ s6' \in 0 .. MaxProvFaults /\ s7' \subseteq Provision!Slug
    BY <1>a, <1>c, <1>d, <1>8, <2>1 DEF Provision!CommitRefused, Provision!disk, Provision!Holding,
       Provision!At
  <2>3. s4' \in Folders
    BY <1>a, <1>c, <1>e, <1>8 DEF Provision!CommitRefused, Provision!disk, Provision!Holding,
       Provision!At
  <2>4. \A q \in Admin : /\ Provision!Holding(q)' => s5'[q].slug \in Provision!Slug /\ s5'[q].name \in LibName
                         /\ s5'[q].pc = "checked" => s5'[q].name \in LibName
                         /\ Provision!Removing(q)' => s5'[q].slug \in Provision!Slug
    BY <1>a, <1>c, <1>d, <2>1 DEF Provision!Holding, Provision!Removing, Provision!At
  <2>5. Provision!OneParty'
    BY <1>a, <1>b, <1>8, <2>1 DEF Provision!CommitRefused, Provision!disk, Provision!OneParty,
       Provision!Holding, Provision!Removing, Provision!At
  <2>6. Provision!TakenOnDisk'
    <3>1. ASSUME NEW lib \in s1', lib.at \notin s7' PROVE Provision!RowTaken(lib)'
      BY <1>a, <1>b, <1>c, <1>e, <1>8, <2>1, <2>2, <3>1 DEF Provision!CommitRefused,
         Provision!disk, Provision!OneParty, Provision!TakenOnDisk, Provision!RowTaken,
         Provision!RequestTaken, Provision!Holding, Provision!Removing, Provision!At
    <3>2. ASSUME NEW q \in Admin \ {r}, s5'[q].slug \notin s7' PROVE Provision!RequestTaken(q)'
      BY ZenonT(60), <1>a, <1>b, <1>c, <1>e, <1>8, <2>1, <3>2 DEF Provision!CommitRefused, Provision!disk,
         Provision!OneParty, Provision!TakenOnDisk, Provision!RowTaken, Provision!RequestTaken,
         Provision!Holding, Provision!Removing, Provision!At
    <3>3. ASSUME s5'[r].slug \notin s7' PROVE Provision!RequestTaken(r)'
      BY <1>a, <1>b, <1>c, <1>e, <1>8, <2>1, <3>3 DEF Provision!CommitRefused, Provision!disk,
         Provision!OneParty, Provision!TakenOnDisk, Provision!RowTaken, Provision!RequestTaken,
         Provision!Holding, Provision!Removing, Provision!At
    <3> QED
      BY <2>1, <3>1, <3>2, <3>3 DEF Provision!TakenOnDisk
  <2> QED
    BY <2>1, <2>2, <2>3, <2>4, <2>5, <2>6 DEF Provision!ProvisionInv, Provision!TypeOK,
       Provision!Records, Provision!At
<1>9. ASSUME NEW r \in Admin, Provision!CommitFails(r)
      PROVE  Provision!ProvisionInv'
  <2>1. /\ s5' \in [Admin -> Requests] /\ s5'[r].pc = "undoing" /\ s5'[r].slug = s5[r].slug
        /\ s5'[r].name = s5[r].name /\ s5[r].pc = "provisioned"
        /\ \A q \in Admin \ {r} : s5'[q] = s5[q]
    <3>1. s5' = [s5 EXCEPT ![r].pc = "undoing", ![r].todo = {"config", "library", "import"}] /\ s5[r].pc = "provisioned"
      BY <1>9 DEF Provision!CommitFails, Provision!Undo, Provision!At
    <3> DEFINE x == [s5[r] EXCEPT !.pc = "undoing", !.todo = {"config", "library", "import"}]
    <3>2. s5[r] \in Requests
      BY <1>a
    <3>3. x \in Requests /\ x.pc = "undoing" /\ x.slug = s5[r].slug /\ x.name = s5[r].name
      BY ONLY <3>2 DEF Provision!Pcs, Provision!Resource
    <3>4. s5' = [s5 EXCEPT ![r] = x]
      BY <3>1
    <3> HIDE DEF x
    <3> QED
      BY <1>f, <3>1, <3>3, <3>4
  <2>2. /\ s1' \subseteq Rows /\ s2' \subseteq Provision!Slug /\ s3' \subseteq Provision!Slug
        /\ s6' \in 0 .. MaxProvFaults /\ s7' \subseteq Provision!Slug
    <3>1. s5[r].slug \in Provision!Slug /\ s5[r].name \in LibName
      BY <1>c, <2>1 DEF Provision!Holding
    <3>2. Provision!NewRow(r) \in Rows
      BY <3>1 DEF Provision!NewRow
    <3>3. s6' \in 0 .. MaxProvFaults
      BY <1>a, <1>d, <1>9 DEF Provision!CommitFails
    <3> HIDE DEF Rows
    <3>4. s1' \subseteq Rows /\ s7' \subseteq Provision!Slug
      BY <1>a, <1>9, <3>1, <3>2 DEF Provision!CommitFails
    <3> QED
      BY <1>a, <1>9, <3>3, <3>4 DEF Provision!CommitFails, Provision!disk
  <2>3. s4' \in Folders
    BY <1>a, <1>c, <1>e, <1>9 DEF Provision!CommitFails, Provision!disk, Provision!NewRow,
       Provision!At, Provision!Holding, Provision!At
  <2>4. \A q \in Admin : /\ Provision!Holding(q)' => s5'[q].slug \in Provision!Slug /\ s5'[q].name \in LibName
                         /\ s5'[q].pc = "checked" => s5'[q].name \in LibName
                         /\ Provision!Removing(q)' => s5'[q].slug \in Provision!Slug
    BY <1>a, <1>c, <1>d, <2>1 DEF Provision!Holding, Provision!Removing, Provision!At
  <2>5. Provision!OneParty'
    BY <1>a, <1>b, <1>9, <2>1 DEF Provision!CommitFails, Provision!disk, Provision!NewRow,
       Provision!At, Provision!OneParty, Provision!Holding, Provision!Removing, Provision!At
  <2>6. Provision!TakenOnDisk'
    <3>1. /\ s2' = s2 /\ s4' = s4 /\ s7 \subseteq s7'
          /\ s1' = s1 \/ s1' = s1 \cup {Provision!NewRow(r)}
      BY <1>9 DEF Provision!CommitFails, Provision!disk
    <3>2. Provision!NewRow(r).at = s5[r].slug
      BY DEF Provision!NewRow
    <3>3. s5[r].slug \notin s7 => Provision!RowTaken(Provision!NewRow(r))
      BY <1>b, <2>1, <3>2 DEF Provision!TakenOnDisk, Provision!RowTaken, Provision!RequestTaken
    <3>4. ASSUME NEW lib \in s1', lib.at \notin s7' PROVE Provision!RowTaken(lib)
      BY <1>b, <3>1, <3>2, <3>3, <3>4 DEF Provision!TakenOnDisk
    <3>5. ASSUME NEW q \in Admin, s5'[q].slug \notin s7' PROVE Provision!RequestTaken(q)'
      BY <1>b, <2>1, <3>1, <3>5 DEF Provision!TakenOnDisk, Provision!RequestTaken,
         Provision!Removing
    <3> QED
      BY <3>1, <3>4, <3>5 DEF Provision!TakenOnDisk, Provision!RowTaken
  <2> QED
    BY <2>1, <2>2, <2>3, <2>4, <2>5, <2>6 DEF Provision!ProvisionInv, Provision!TypeOK,
       Provision!Records, Provision!At
<1>10. ASSUME NEW r \in Admin, Provision!RemoveNext(r)
      PROVE  Provision!ProvisionInv'
  <2> DEFINE S == s5[r].slug
  <2>1. PICK it \in s5[r].todo :
          /\ \A other \in s5[r].todo : Provision!Turn[it] <= Provision!Turn[other]
          /\ s2' = IF it = "config" THEN s2 \ {S} ELSE s2
          /\ s3' = IF it = "database" THEN s3 \ {S} ELSE s3
          /\ s4' = IF it \in Provision!Kind /\ (Provision!At(r, "removing") \/ s4[it, S] = "empty")
                   THEN [s4 EXCEPT ![<<it, S>>] = "absent"] ELSE s4
          /\ s5' = [s5 EXCEPT ![r].todo = s5[r].todo \ {it}, ![r].pc = IF s5[r].todo = {it} THEN "done" ELSE s5[r].pc]
    BY <1>10 DEF Provision!RemoveNext
  <2>2. /\ s1' = s1 /\ s6' = s6 /\ s7' = s7 /\ s5[r].pc \in {"undoing", "removing"}
        /\ Provision!Holding(r) \/ Provision!Removing(r)
    BY <1>10 DEF Provision!RemoveNext, Provision!Holding, Provision!Removing
  <2>3. S \in Provision!Slug
    BY <1>c, <2>2
  <2>4. /\ s5' \in [Admin -> Requests] /\ s5'[r].slug = S /\ s5'[r].name = s5[r].name
        /\ s5'[r].pc = IF s5[r].todo = {it} THEN "done" ELSE s5[r].pc
        /\ s5'[r].todo = s5[r].todo \ {it} /\ \A q \in Admin \ {r} : s5'[q] = s5[q]
    <3> DEFINE pc == IF s5[r].todo = {it} THEN "done" ELSE s5[r].pc
               todo == s5[r].todo \ {it}
               x == [s5[r] EXCEPT !.todo = todo, !.pc = pc]
    <3>1. s5[r] \in Requests /\ pc \in Provision!Pcs /\ todo \in SUBSET Provision!Resource
      BY <1>a, <2>2 DEF Provision!Pcs
    <3>2. s5' = [s5 EXCEPT ![r] = x]
      BY <2>1
    <3> HIDE DEF pc, todo
    <3>3. x \in Requests /\ x.pc = pc /\ x.slug = S /\ x.name = s5[r].name /\ x.todo = todo
      BY ONLY <3>1
    <3> HIDE DEF x
    <3>4. /\ s5' \in [Admin -> Requests] /\ s5'[r].pc = pc /\ s5'[r].slug = S
          /\ s5'[r].name = s5[r].name /\ s5'[r].todo = todo
          /\ \A q \in Admin \ {r} : s5'[q] = s5[q]
      BY <1>f, <3>2, <3>3
    <3> QED
      BY <3>4 DEF pc, todo
  <2>5. s2' \subseteq Provision!Slug /\ s3' \subseteq Provision!Slug /\ s4' \in Folders
    BY <1>a, <2>1, <2>3
  <2>6. /\ \A q \in Admin : q # r => (Provision!Holding(q)' <=> Provision!Holding(q)) /\ (Provision!Removing(q)' <=> Provision!Removing(q))
        /\ Provision!Holding(r)' => Provision!Holding(r)
        /\ Provision!Removing(r)' => Provision!Removing(r) /\ s5[r].todo # {it}
        /\ s5'[r].pc \in {"done", "undoing", "removing"}
    BY <2>2, <2>4 DEF Provision!Holding, Provision!Removing
  <2>7. \A q \in Admin : /\ Provision!Holding(q)' => s5'[q].slug \in Provision!Slug /\ s5'[q].name \in LibName
                         /\ s5'[q].pc = "checked" => s5'[q].name \in LibName
                         /\ Provision!Removing(q)' => s5'[q].slug \in Provision!Slug
    <3>1. ASSUME NEW q \in Admin, q # r
          PROVE  /\ Provision!Holding(q)' => s5'[q].slug \in Provision!Slug /\ s5'[q].name \in LibName
                 /\ s5'[q].pc = "checked" => s5'[q].name \in LibName
                 /\ Provision!Removing(q)' => s5'[q].slug \in Provision!Slug
      BY <1>c, <2>4, <3>1 DEF Provision!Holding, Provision!Removing
    <3>2. /\ Provision!Holding(r)' => s5'[r].slug \in Provision!Slug /\ s5'[r].name \in LibName
          /\ s5'[r].pc # "checked" /\ (Provision!Removing(r)' => s5'[r].slug \in Provision!Slug)
      BY <1>c, <2>3, <2>4, <2>6
    <3> QED
      BY <3>1, <3>2
  <2>8. Provision!OneParty'
    <3>1. /\ \A q \in Admin : s5'[q].slug = s5[q].slug
          /\ \A q \in Admin : (Provision!Holding(q)' => Provision!Holding(q)) /\ (Provision!Removing(q)' => Provision!Removing(q))
      BY <2>4, <2>6
    <3> QED
      BY <1>b, <2>2, <3>1 DEF Provision!OneParty
\* What is removed stands at the slug of the request.
  <2>9. \A s \in Provision!Slug \ {S} : /\ s \in s2 => s \in s2'
                                       /\ \A k \in Provision!Kind : s4'[<<k, s>>] = s4[<<k, s>>]
    BY <1>a, <2>1, <2>3
  <2>10. S \notin s7 => /\ \A row \in s1 : row.at # S
                        /\ \A q \in Admin \ {r} : Provision!Holding(q) \/ Provision!Removing(q) => s5[q].slug # S
    BY <1>b, <2>2 DEF Provision!OneParty
  <2>11. Provision!TakenOnDisk'
    <3>1. ASSUME NEW lib \in s1', lib.at \notin s7' PROVE Provision!RowTaken(lib)'
      <4>1. Provision!RowTaken(lib) /\ lib.at \in Provision!Slug
        BY <1>a, <1>b, <2>2, <3>1 DEF Provision!TakenOnDisk
      <4>2. lib.at # S
        BY <2>2, <2>10, <3>1
      <4> QED
        BY <1>e, <2>9, <4>1, <4>2 DEF Provision!RowTaken
    <3>2. ASSUME NEW q \in Admin \ {r}, s5'[q].slug \notin s7' PROVE Provision!RequestTaken(q)'
      <4>1. Provision!RequestTaken(q) /\ s5'[q] = s5[q]
        BY <1>b, <2>2, <2>4, <3>2 DEF Provision!TakenOnDisk
      <4>2. CASE Provision!Holding(q) \/ Provision!Removing(q)
        <5>1. s5[q].slug \in Provision!Slug \ {S}
          BY <1>c, <2>2, <2>10, <3>2, <4>1, <4>2
        <5> QED
          BY <1>e, <2>9, <4>1, <5>1 DEF Provision!RequestTaken, Provision!Removing
      <4>3. CASE ~ (Provision!Holding(q) \/ Provision!Removing(q))
        BY <4>1, <4>3 DEF Provision!RequestTaken, Provision!Holding, Provision!Removing
      <4> QED
        BY <4>2, <4>3
    <3>3. ASSUME S \notin s7 PROVE Provision!RequestTaken(r)'
      <4>1. CASE ~ Provision!Removing(r)'
        BY <2>6, <4>1 DEF Provision!RequestTaken
      <4>2. CASE Provision!Removing(r)'
        <5>1. /\ Provision!Removing(r) /\ s5[r].todo # {it} /\ s5[r].todo \subseteq Provision!Resource
              /\ IF "import" \in s5[r].todo THEN s4[<<"import", S>>] # "absent"
                 ELSE "library" \notin s5[r].todo /\ s4[<<"library", S>>] # "absent"
          BY <1>a, <1>b, <2>6, <3>3, <4>2 DEF Provision!TakenOnDisk, Provision!RequestTaken
        <5>2. it # "import"
          <6>1. ASSUME it = "import" PROVE s5[r].todo = {"import"}
            <7>1. \A other \in s5[r].todo : other \in {"config", "database", "library", "import"}
              BY <5>1 DEF Provision!Resource
            <7>2. \A other \in s5[r].todo : 4 <= Provision!Turn[other]
              BY <2>1, <6>1 DEF Provision!Turn
            <7>3. "config" \notin s5[r].todo /\ "database" \notin s5[r].todo /\ "library" \notin s5[r].todo
              BY <7>2 DEF Provision!Turn
            <7> QED
              BY <2>1, <6>1, <7>1, <7>3
          <6> QED
            BY <5>1, <6>1
        <5>3. s4'[<<"import", S>>] = s4[<<"import", S>>]
          BY <1>a, <1>e, <2>1, <2>3, <5>2
        <5>4. "import" \notin s5[r].todo => s4'[<<"library", S>>] = s4[<<"library", S>>]
          BY <1>e, <2>1, <5>1
        <5> QED
          BY <2>4, <2>6, <5>1, <5>2, <5>3, <5>4 DEF Provision!RequestTaken
      <4> QED
        BY <4>1, <4>2
    <3> QED
      BY <2>2, <2>4, <3>1, <3>2, <3>3 DEF Provision!TakenOnDisk
  <2> QED
    BY <1>a, <2>2, <2>4, <2>5, <2>7, <2>8, <2>11 DEF Provision!ProvisionInv, Provision!TypeOK,
       Provision!Records, Provision!At
<1>11. ASSUME NEW r \in Admin, NEW n \in LibName, NEW s \in Provision!Slug, NEW at \in Provision!Slug, Provision!AdoptLibrary(r, n, s, at)
      PROVE  Provision!ProvisionInv'
  <2>1. /\ s5' \in [Admin -> Requests] /\ s5'[r].pc = "done" /\ s5'[r].slug = s5[r].slug
        /\ s5'[r].name = s5[r].name /\ s5[r].pc = "idle"
        /\ \A q \in Admin \ {r} : s5'[q] = s5[q]
    BY <1>g, <1>11 DEF Provision!AdoptLibrary, Provision!At, Provision!Pcs
  <2>2. /\ s1' \subseteq Rows /\ s2' \subseteq Provision!Slug /\ s3' \subseteq Provision!Slug
        /\ s6' \in 0 .. MaxProvFaults /\ s7' \subseteq Provision!Slug
    <3> DEFINE lib == [id |-> r, name |-> n, slug |-> s, at |-> at]
    <3>1. lib \in Rows /\ s1' = s1 \cup {lib}
      BY <1>11 DEF Provision!AdoptLibrary
    <3> HIDE DEF Rows, lib
    <3>2. s1' \subseteq Rows
      BY <1>a, <3>1
    <3> QED
      BY <1>a, <1>11, <3>2 DEF Provision!AdoptLibrary
  <2>3. s4' \in Folders
    BY <1>a, <1>c, <1>e, <1>11 DEF Provision!AdoptLibrary, Provision!disk, Provision!Holding,
       Provision!At
  <2>4. \A q \in Admin : /\ Provision!Holding(q)' => s5'[q].slug \in Provision!Slug /\ s5'[q].name \in LibName
                         /\ s5'[q].pc = "checked" => s5'[q].name \in LibName
                         /\ Provision!Removing(q)' => s5'[q].slug \in Provision!Slug
    BY <1>a, <1>c, <1>d, <2>1 DEF Provision!Holding, Provision!Removing, Provision!At
  <2>5. Provision!OneParty'
    BY <1>a, <1>b, <1>11, <2>1 DEF Provision!AdoptLibrary, Provision!disk, Provision!OneParty,
       Provision!Holding, Provision!Removing, Provision!At
  <2>6. Provision!TakenOnDisk'
    <3>1. /\ s2' = s2 /\ s4' = s4 /\ s7' = s7 \cup {at}
          /\ s1' = s1 \cup {[id |-> r, name |-> n, slug |-> s, at |-> at]}
      BY <1>11 DEF Provision!AdoptLibrary
    <3>2. ASSUME NEW lib \in s1', lib.at \notin s7' PROVE lib \in s1 /\ lib.at \notin s7
      BY <3>1, <3>2
    <3>3. ASSUME NEW q \in Admin, s5'[q].slug \notin s7' PROVE Provision!RequestTaken(q)'
      BY <1>b, <2>1, <3>1, <3>3 DEF Provision!TakenOnDisk, Provision!RequestTaken,
         Provision!Removing
    <3> QED
      BY <1>b, <3>1, <3>2, <3>3 DEF Provision!TakenOnDisk, Provision!RowTaken
  <2> QED
    BY <2>1, <2>2, <2>3, <2>4, <2>5, <2>6 DEF Provision!ProvisionInv, Provision!TypeOK,
       Provision!Records, Provision!At
<1>12. ASSUME NEW r \in Admin, NEW row \in s1, NEW s \in Provision!Slug, Provision!UpdateLibrary(r, row, s)
      PROVE  Provision!ProvisionInv'
  <2>1. /\ s5' \in [Admin -> Requests] /\ s5'[r].pc = "done" /\ s5'[r].slug = s5[r].slug
        /\ s5'[r].name = s5[r].name /\ s5[r].pc = "idle"
        /\ \A q \in Admin \ {r} : s5'[q] = s5[q]
    BY <1>g, <1>12 DEF Provision!UpdateLibrary, Provision!At, Provision!Pcs
  <2>2. /\ s1' \subseteq Rows /\ s2' \subseteq Provision!Slug /\ s3' \subseteq Provision!Slug
        /\ s6' \in 0 .. MaxProvFaults /\ s7' \subseteq Provision!Slug
    BY <1>a, <1>c, <1>d, <1>12, <2>1 DEF Provision!UpdateLibrary, Provision!disk,
       Provision!Holding, Provision!At
  <2>3. s4' \in Folders
    BY <1>a, <1>c, <1>e, <1>12 DEF Provision!UpdateLibrary, Provision!disk, Provision!Holding,
       Provision!At
  <2>4. \A q \in Admin : /\ Provision!Holding(q)' => s5'[q].slug \in Provision!Slug /\ s5'[q].name \in LibName
                         /\ s5'[q].pc = "checked" => s5'[q].name \in LibName
                         /\ Provision!Removing(q)' => s5'[q].slug \in Provision!Slug
    BY <1>a, <1>c, <1>d, <2>1 DEF Provision!Holding, Provision!Removing, Provision!At
  <2>5. Provision!OneParty'
    BY <1>a, <1>b, <1>12, <2>1 DEF Provision!UpdateLibrary, Provision!disk, Provision!OneParty,
       Provision!Holding, Provision!Removing, Provision!At
  <2>6. Provision!TakenOnDisk'
    <3>1. ASSUME NEW lib \in s1', lib.at \notin s7' PROVE Provision!RowTaken(lib)'
      BY <1>a, <1>b, <1>c, <1>e, <1>12, <2>1, <2>2, <3>1 DEF Provision!UpdateLibrary,
         Provision!disk, Provision!OneParty, Provision!TakenOnDisk, Provision!RowTaken,
         Provision!RequestTaken, Provision!Holding, Provision!Removing, Provision!At
    <3>2. ASSUME NEW q \in Admin \ {r}, s5'[q].slug \notin s7' PROVE Provision!RequestTaken(q)'
      BY ZenonT(60), <1>a, <1>b, <1>c, <1>e, <1>12, <2>1, <3>2 DEF Provision!UpdateLibrary,
         Provision!disk,
         Provision!OneParty, Provision!TakenOnDisk, Provision!RowTaken, Provision!RequestTaken,
         Provision!Holding, Provision!Removing, Provision!At
    <3>3. ASSUME s5'[r].slug \notin s7' PROVE Provision!RequestTaken(r)'
      BY <1>a, <1>b, <1>c, <1>e, <1>12, <2>1, <3>3 DEF Provision!UpdateLibrary, Provision!disk,
         Provision!OneParty, Provision!TakenOnDisk, Provision!RowTaken, Provision!RequestTaken,
         Provision!Holding, Provision!Removing, Provision!At
    <3> QED
      BY <2>1, <3>1, <3>2, <3>3 DEF Provision!TakenOnDisk
  <2> QED
    BY <2>1, <2>2, <2>3, <2>4, <2>5, <2>6 DEF Provision!ProvisionInv, Provision!TypeOK,
       Provision!Records, Provision!At
<1>13. ASSUME NEW r \in Admin, NEW row \in s1, NEW kc \in BOOLEAN, NEW kd \in BOOLEAN, NEW kf \in BOOLEAN, Provision!DeleteLibrary(r, row, Provision!Unkept(kc, kd, kf))
      PROVE  Provision!ProvisionInv'
  <2>1. /\ s5' \in [Admin -> Requests] /\ s5'[r].pc \in {"done", "removing"} /\ s5'[r].slug = row.at
        /\ s5'[r].name = s5[r].name /\ s5'[r].todo = Provision!Unkept(kc, kd, kf) /\ s5[r].pc = "idle"
        /\ \A q \in Admin \ {r} : s5'[q] = s5[q]
    <3>1. /\ s5[r].pc = "idle"
          /\ s5' = [s5 EXCEPT ![r].pc = IF Provision!Unkept(kc, kd, kf) = {} THEN "done" ELSE "removing",
                              ![r].slug = row.at, ![r].todo = Provision!Unkept(kc, kd, kf)]
      BY <1>13 DEF Provision!DeleteLibrary, Provision!At
    <3> DEFINE rest == Provision!Unkept(kc, kd, kf)
               pc == IF rest = {} THEN "done" ELSE "removing"
               x == [s5[r] EXCEPT !.pc = pc, !.slug = row.at, !.todo = rest]
    <3>2. s5[r] \in Requests /\ row.at \in 0 .. MaxSlug /\ rest \in SUBSET Provision!Resource
      BY <1>a, <1>d DEF Provision!Unkept
    <3>3. s5' = [s5 EXCEPT ![r] = x] /\ pc \in {"done", "removing"} /\ (rest = {} => pc = "done")
      BY <3>1
    <3> HIDE DEF pc, rest
    <3>4. x \in Requests /\ x.pc = pc /\ x.slug = row.at /\ x.name = s5[r].name /\ x.todo = rest
      BY ONLY <3>2, <3>3 DEF Provision!Pcs
    <3> HIDE DEF x
    <3>5. /\ s5' \in [Admin -> Requests] /\ s5'[r].pc = pc /\ s5'[r].slug = row.at
          /\ s5'[r].name = s5[r].name /\ s5'[r].todo = rest
          /\ \A q \in Admin \ {r} : s5'[q] = s5[q]
      BY <1>f, <3>3, <3>4
    <3> QED
      BY <3>1, <3>3, <3>5 DEF rest
  <2>2. /\ s1' \subseteq Rows /\ s2' \subseteq Provision!Slug /\ s3' \subseteq Provision!Slug
        /\ s6' \in 0 .. MaxProvFaults /\ s7' \subseteq Provision!Slug
    BY <1>a, <1>c, <1>d, <1>13, <2>1 DEF Provision!DeleteLibrary, Provision!disk,
       Provision!Holding, Provision!At
  <2>3. s4' \in Folders
    BY <1>a, <1>c, <1>e, <1>13 DEF Provision!DeleteLibrary, Provision!disk, Provision!Holding,
       Provision!At
  <2>4. \A q \in Admin : /\ Provision!Holding(q)' => s5'[q].slug \in Provision!Slug /\ s5'[q].name \in LibName
                         /\ s5'[q].pc = "checked" => s5'[q].name \in LibName
                         /\ Provision!Removing(q)' => s5'[q].slug \in Provision!Slug
    BY <1>a, <1>c, <1>d, <2>1 DEF Provision!Holding, Provision!Removing, Provision!At
  <2>5. Provision!OneParty'
    <3>1. s1' = s1 \ {row} /\ s7' = s7
      BY <1>13 DEF Provision!DeleteLibrary
    <3>2. \A q \in Admin : q # r => (Provision!Holding(q)' <=> Provision!Holding(q)) /\ (Provision!Removing(q)' <=> Provision!Removing(q))
      BY <2>1 DEF Provision!Holding, Provision!Removing
    <3>3. row.at \notin s7 => /\ \A other \in s1' : other.at # row.at
                             /\ \A q \in Admin : Provision!Holding(q) \/ Provision!Removing(q) => s5[q].slug # row.at
      BY <1>b, <3>1 DEF Provision!OneParty
    <3>4. ASSUME NEW q \in Admin, Provision!Holding(q)' \/ Provision!Removing(q)', s5'[q].slug \notin s7'
          PROVE  /\ \A lib \in s1' : lib.at # s5'[q].slug
                 /\ \A p \in Admin \ {q} : Provision!Holding(p)' \/ Provision!Removing(p)' => s5'[p].slug # s5'[q].slug
      <4>1. CASE q = r
        BY <2>1, <3>1, <3>2, <3>3, <3>4, <4>1
      <4>2. CASE q # r
        <5>1. /\ Provision!Holding(q) \/ Provision!Removing(q)
              /\ s5[q].slug \notin s7 /\ s5'[q].slug = s5[q].slug
          BY <2>1, <3>1, <3>2, <3>4, <4>2
        <5>2. /\ \A lib \in s1 : lib.at # s5[q].slug
              /\ \A p \in Admin \ {q} : Provision!Holding(p) \/ Provision!Removing(p) => s5[p].slug # s5[q].slug
          BY <1>b, <5>1 DEF Provision!OneParty
        <5> QED
          BY <2>1, <3>1, <3>2, <5>1, <5>2
      <4> QED
        BY <4>1, <4>2
    <3>5. \A lib, other \in s1' : lib.at = other.at /\ lib.at \notin s7' => other = lib
      BY <1>b, <3>1 DEF Provision!OneParty
    <3> QED
      BY <3>4, <3>5 DEF Provision!OneParty
  <2>6. Provision!TakenOnDisk'
    <3>1. s1' = s1 \ {row} /\ s2' = s2 /\ s4' = s4 /\ s7' = s7
      BY <1>13 DEF Provision!DeleteLibrary, Provision!disk
    <3>2. ASSUME NEW q \in Admin \ {r}, s5'[q].slug \notin s7' PROVE Provision!RequestTaken(q)'
      BY <1>b, <2>1, <3>1, <3>2 DEF Provision!TakenOnDisk, Provision!RequestTaken,
         Provision!Removing
    <3>3. ASSUME s5'[r].slug \notin s7' PROVE Provision!RequestTaken(r)'
      <4>1. Provision!RowTaken(row)
        BY <1>b, <2>1, <3>1, <3>3 DEF Provision!TakenOnDisk
      <4>2. "import" \in Provision!Unkept(kc, kd, kf) \/ "library" \notin Provision!Unkept(kc, kd, kf)
        BY <1>e DEF Provision!Unkept, Provision!Resource
      <4> QED
        BY <2>1, <3>1, <4>1, <4>2 DEF Provision!RequestTaken, Provision!RowTaken, Provision!Removing
    <3> QED
      BY <1>b, <2>1, <3>1, <3>2, <3>3 DEF Provision!TakenOnDisk, Provision!RowTaken
  <2> QED
    BY <2>1, <2>2, <2>3, <2>4, <2>5, <2>6 DEF Provision!ProvisionInv, Provision!TypeOK,
       Provision!Records, Provision!At
<1>14. ASSUME NEW row \in s1, Provision!InitializeLibrary(row)
      PROVE  Provision!ProvisionInv'
  <2>1. row.at \in Provision!Slug
    BY <1>a
  <2>2. /\ s1' \subseteq Rows /\ s2' \subseteq Provision!Slug /\ s3' \subseteq Provision!Slug
        /\ s6' \in 0 .. MaxProvFaults /\ s7' \subseteq Provision!Slug
    BY <1>a, <1>c, <1>d, <1>14, <2>1 DEF Provision!InitializeLibrary, Provision!disk,
       Provision!Make, Provision!Holding, Provision!At
  <2>3. s4' \in Folders
    BY <1>a, <1>c, <1>e, <1>14 DEF Provision!InitializeLibrary, Provision!disk, Provision!Make,
       Provision!Holding, Provision!At
  <2>4. s5' = s5
    BY <1>14 DEF Provision!InitializeLibrary, Provision!disk, Provision!Make
  <2>5. Provision!OneParty'
    BY <1>a, <1>b, <1>14, <2>1 DEF Provision!InitializeLibrary, Provision!disk, Provision!Make,
       Provision!OneParty, Provision!Holding, Provision!Removing, Provision!At
  <2>6. Provision!TakenOnDisk'
    <3>1. ASSUME NEW lib \in s1', lib.at \notin s7' PROVE Provision!RowTaken(lib)'
      BY <1>a, <1>b, <1>c, <1>e, <1>14, <2>1, <2>2, <3>1 DEF Provision!InitializeLibrary,
         Provision!disk, Provision!Make, Provision!OneParty, Provision!TakenOnDisk,
         Provision!RowTaken, Provision!RequestTaken, Provision!Holding, Provision!Removing,
         Provision!At
    <3>2. ASSUME NEW q \in Admin, s5'[q].slug \notin s7' PROVE Provision!RequestTaken(q)'
      BY <1>a, <1>b, <1>c, <1>e, <1>14, <2>1, <3>2 DEF Provision!InitializeLibrary, Provision!disk,
         Provision!Make, Provision!OneParty, Provision!TakenOnDisk, Provision!RowTaken,
         Provision!RequestTaken, Provision!Holding, Provision!Removing, Provision!At
    <3> QED
      BY <3>1, <3>2 DEF Provision!TakenOnDisk
  <2> QED
    BY <1>a, <1>c, <2>1, <2>2, <2>3, <2>4, <2>5, <2>6 DEF Provision!ProvisionInv, Provision!TypeOK,
       Provision!Records, Provision!At, Provision!Holding, Provision!Removing
<1>15. ASSUME NEW row \in s1, NEW k \in Provision!Kind, Provision!Fill(row, k)
      PROVE  Provision!ProvisionInv'
  <2>1. row.at \in Provision!Slug
    BY <1>a
  <2>2. /\ s1' \subseteq Rows /\ s2' \subseteq Provision!Slug /\ s3' \subseteq Provision!Slug
        /\ s6' \in 0 .. MaxProvFaults /\ s7' \subseteq Provision!Slug
    BY <1>a, <1>c, <1>d, <1>15, <2>1 DEF Provision!Fill, Provision!disk, Provision!Holding,
       Provision!At
  <2>3. s4' \in Folders
    BY <1>a, <1>c, <1>e, <1>15 DEF Provision!Fill, Provision!disk, Provision!Holding, Provision!At
  <2>4. s5' = s5
    BY <1>15 DEF Provision!Fill, Provision!disk
  <2>5. Provision!OneParty'
    BY <1>a, <1>b, <1>15, <2>1 DEF Provision!Fill, Provision!disk, Provision!OneParty,
       Provision!Holding, Provision!Removing, Provision!At
  <2>6. Provision!TakenOnDisk'
    <3>1. ASSUME NEW lib \in s1', lib.at \notin s7' PROVE Provision!RowTaken(lib)'
      BY <1>a, <1>b, <1>c, <1>e, <1>15, <2>1, <2>2, <3>1 DEF Provision!Fill, Provision!disk,
         Provision!OneParty, Provision!TakenOnDisk, Provision!RowTaken, Provision!RequestTaken,
         Provision!Holding, Provision!Removing, Provision!At
    <3>2. ASSUME NEW q \in Admin, s5'[q].slug \notin s7' PROVE Provision!RequestTaken(q)'
      BY <1>a, <1>b, <1>c, <1>e, <1>15, <2>1, <3>2 DEF Provision!Fill, Provision!disk,
         Provision!OneParty, Provision!TakenOnDisk, Provision!RowTaken, Provision!RequestTaken,
         Provision!Holding, Provision!Removing, Provision!At
    <3> QED
      BY <3>1, <3>2 DEF Provision!TakenOnDisk
  <2> QED
    BY <1>a, <1>c, <2>1, <2>2, <2>3, <2>4, <2>5, <2>6 DEF Provision!ProvisionInv, Provision!TypeOK,
       Provision!Records, Provision!At, Provision!Holding, Provision!Removing
<1> QED
  BY <1>1, <1>2, <1>3, <1>4, <1>5, <1>6, <1>7, <1>8, <1>9, <1>10, <1>11, <1>12, <1>13, <1>14,
     <1>15 DEF Provision!Next, Provision!Step

(***************************************************************************)
(* Covers (the uploads, backfill_cover_art_task, get_album_cover)          *)
(***************************************************************************)

\* At first no cover was uploaded, recorded or remembered.
LEMMA CoverInit == Cover!Init => Cover!CoverInv
<1> SUFFICES ASSUME Cover!Init PROVE Cover!CoverInv
  OBVIOUS
<1>1. s1 \in [Cover!Name -> Cover!Picture]
  BY DEF Cover!Init, Cover!Picture, Cover!Found, Cover!Nothing
<1>2. /\ s5 \in [Sleeve -> [pc : {"start"}, name : Cover!Own]] /\ \A u \in Sleeve : s5[u].pc = "start"
  BY DEF Cover!Init
<1>3. s5 \in [Sleeve -> [pc : {"start", "variants", "artpath", "cache", "done"}, name : Cover!Own]]
  <2>1. [pc : {"start"}, name : Cover!Own]
          \subseteq [pc : {"start", "variants", "artpath", "cache", "done"}, name : Cover!Own]
    OBVIOUS
  <2> QED
    BY <1>2, <2>1
<1>4. s6 = [pc |-> "idle", stored |-> "nothing", cover |-> "nothing"]
  BY DEF Cover!Init, Cover!Rest, Cover!Nothing
<1>5. Cover!TypeOK
  <2>1. s6 \in [pc : {"idle", "album", "write", "artpath", "cache"},
                stored : Cover!Name \cup {"nothing"}, cover : Cover!Name \cup {"nothing"}]
    BY ONLY <1>4
  <2> QED
    BY <1>1, <1>3, <2>1 DEF Cover!Init, Cover!TypeOK, Cover!Nothing
<1>6. Cover!CopyNamed /\ Cover!UploadAlone /\ Cover!CoverStands
  BY <1>2, <1>4 DEF Cover!Init, Cover!CopyNamed, Cover!UploadAlone, Cover!CoverStands, Cover!At
<1>7. Cover!NoCoverTrue
  BY DEF Cover!Init, Cover!NoCoverTrue, Cover!NoCoverAbout, Cover!NoCover, Cover!Nothing
<1> QED
  BY <1>5, <1>6, <1>7 DEF Cover!CoverInv

\* Every step of an upload, the backfill and a reader, and what is done by hand,
\* keeps CoverInv: an upload nobody disturbed leads the column to its picture, and
\* a "no cover" is remembered only while the column leads to what there is.
LEMMA CoverStep == Cover!CoverInv /\ Cover!Next => Cover!CoverInv'
<1> SUFFICES ASSUME Cover!CoverInv, Cover!Next PROVE Cover!CoverInv'
  OBVIOUS
<1> DEFINE Uploads == [pc : {"start", "variants", "artpath", "cache", "done"}, name : Cover!Own]
           Visits == [pc : {"idle", "album", "write", "artpath", "cache"},
                      stored : Cover!Name \cup {"nothing"}, cover : Cover!Name \cup {"nothing"}]
<1>a. /\ s1 \in [Cover!Name -> Cover!Picture] /\ s2 \in {"known", "other"}
      /\ s3 \in Cover!Name \cup {"nothing"} /\ s4 \in Cover!Name \cup {"nothing", "no cover"}
      /\ s5 \in [Sleeve -> Uploads] /\ s6 \in Visits
      /\ s7 \in Cover!Name \cup {"nothing", "no cover"} /\ s8 \in Sleeve \cup {"nothing"}
      /\ s9 \subseteq Sleeve /\ s10 \in BOOLEAN /\ s11 \in BOOLEAN
  BY DEF Cover!CoverInv, Cover!TypeOK, Cover!Nothing, Cover!NoCover
<1>b. Cover!CopyNamed /\ Cover!UploadAlone /\ Cover!CoverStands /\ Cover!NoCoverTrue
  BY DEF Cover!CoverInv
<1>c. /\ Cover!Name = {"art.jpg", "art.png", "cover.jpg", "00-scene.jpg"} /\ Cover!Own = {"art.jpg", "art.png"}
      /\ Cover!Picture = Sleeve \cup {"found", "nothing"}
      /\ "found" \notin Sleeve /\ "nothing" \notin Sleeve
  BY SleeveAssumption DEF Cover!Name, Cover!Own, Cover!Picture, Cover!Found, Cover!Nothing,
     SleeveAssumption
<1>d. Cover!Nothing = "nothing" /\ Cover!NoCover = "no cover" /\ Cover!Found = "found"
  BY DEF Cover!Nothing, Cover!NoCover, Cover!Found
\* A name leads to a recognised cover when there is such a picture.
<1>e. /\ \A n : n \in Cover!Shown <=> n \in Cover!Recognised /\ n \in Cover!Name /\ s1[n] # "nothing"
      /\ \A n : n \in Cover!Shown' <=> n \in Cover!Recognised' /\ n \in Cover!Name /\ s1'[n] # "nothing"
      /\ Cover!Recognised \subseteq Cover!Name
      /\ s2' = s2 => Cover!Recognised' = Cover!Recognised
  BY <1>c, <1>d DEF Cover!Shown, Cover!Images, Cover!Exists, Cover!Recognised
<1>f. s1' = s1 /\ s2' = s2 => Cover!Shown' = Cover!Shown
  BY DEF Cover!Shown, Cover!Images, Cover!Exists, Cover!Recognised
\* What an upload that moves on leaves as it was.
<1>g. ASSUME NEW u \in Sleeve, NEW step \in {"start", "variants", "artpath", "cache", "done"}, Cover!UploadGo(u, step)
      PROVE  /\ s5' \in [Sleeve -> Uploads] /\ s5'[u].pc = step
             /\ \A v \in Sleeve : s5'[v].name = s5[v].name
             /\ \A v \in Sleeve : v # u => s5'[v] = s5[v]
             /\ \A v \in Sleeve : Cover!At(v)' <=> IF v = u THEN step \in {"variants", "artpath", "cache"}
                                                            ELSE Cover!At(v)
  <2>1. s5' = [s5 EXCEPT ![u].pc = step]
    BY <1>g DEF Cover!UploadGo
  <2>2. /\ s5' \in [Sleeve -> Uploads] /\ s5'[u].pc = step
        /\ \A v \in Sleeve : s5'[v].name = s5[v].name
        /\ \A v \in Sleeve : v # u => s5'[v] = s5[v]
    BY ONLY <1>a, <1>g, <2>1
  <2> QED
    BY <2>2 DEF Cover!At
<1>h. /\ s5' = s5 => \A v \in Sleeve : Cover!At(v)' <=> Cover!At(v)
      /\ \A v \in Sleeve : s5[v].pc \in {"artpath", "cache"} => Cover!At(v)
      /\ \A v \in Sleeve : s5'[v].pc \in {"artpath", "cache"} => Cover!At(v)'
  BY DEF Cover!At
\* An upload that nothing disturbed has the album to itself.
<1>i. \A v \in Sleeve : v \notin s9 /\ Cover!At(v) =>
        /\ s6.pc = "idle" /\ \A w \in Sleeve : Cover!At(w) => w = v
        /\ s1[s5[v].name] = v /\ (s5[v].pc = "cache" => s3 = s5[v].name)
  BY <1>b DEF Cover!UploadAlone
<1>1. ASSUME NEW u \in Sleeve, Cover!WriteCover(u) PROVE Cover!CoverInv'
  <2>1. /\ s5' \in [Sleeve -> Uploads] /\ s5'[u].pc = "variants"
        /\ \A v \in Sleeve : s5'[v].name = s5[v].name
        /\ \A v \in Sleeve : v # u => s5'[v] = s5[v]
        /\ \A v \in Sleeve : v # u => (Cover!At(v)' <=> Cover!At(v))
        /\ Cover!At(u)'
    BY <1>g, <1>1 DEF Cover!WriteCover, Cover!Replaced, Cover!history
  <2>2. Cover!TypeOK'
    BY ZenonT(60), <1>a, <1>b, <1>c, <1>d, <1>1, <2>1 DEF Cover!WriteCover, Cover!Replaced,
       Cover!history,
       Cover!TypeOK
  <2>3. Cover!CopyNamed'
    BY <1>a, <1>b, <1>c, <1>d, <1>1 DEF Cover!WriteCover, Cover!Replaced, Cover!history,
       Cover!CopyNamed
  <2>4. Cover!UploadAlone'
    <3> SUFFICES ASSUME NEW v \in Sleeve, v \notin s9', Cover!At(v)'
                 PROVE  /\ s6'.pc = "idle" /\ \A w \in Sleeve : Cover!At(w)' => w = v
                        /\ s1'[s5'[v].name] = v /\ (s5'[v].pc = "cache" => s3' = s5'[v].name)
      BY DEF Cover!UploadAlone
    <3>1. v = u /\ s6.pc = "idle" /\ \A w \in Sleeve : ~ Cover!At(w)
      BY <1>1, <2>1 DEF Cover!WriteCover
    <3>2. s1' = [s1 EXCEPT ![s5[u].name] = u] /\ s6' = s6 /\ s5[u].name \in Cover!Name
      BY <1>a, <1>c, <1>1 DEF Cover!WriteCover, Cover!Replaced
    <3> QED
      BY <1>a, <2>1, <3>1, <3>2
  <2>5. Cover!CoverStands'
    BY <1>a, <1>b, <1>c, <1>d, <1>1, <2>1 DEF Cover!WriteCover, Cover!Replaced, Cover!history,
       Cover!CoverStands, Cover!UploadAlone, Cover!Exists, Cover!At
  <2>6. Cover!NoCoverTrue'
    <3>1. \A v \in Sleeve : v \notin s9' => s5'[v].pc \notin {"artpath", "cache"}
      BY <1>h, <1>1, <2>1 DEF Cover!WriteCover
    <3> QED
      BY <2>1, <3>1 DEF Cover!NoCoverTrue
  <2> QED
    BY <2>2, <2>3, <2>4, <2>5, <2>6 DEF Cover!CoverInv
<1>2. ASSUME NEW u \in Sleeve, Cover!RemoveVariants(u) PROVE Cover!CoverInv'
  <2>1. /\ s5' \in [Sleeve -> Uploads] /\ s5'[u].pc = "artpath"
        /\ \A v \in Sleeve : s5'[v].name = s5[v].name
        /\ \A v \in Sleeve : v # u => s5'[v] = s5[v]
        /\ \A v \in Sleeve : v # u => (Cover!At(v)' <=> Cover!At(v))
        /\ Cover!At(u)'
    BY <1>g, <1>2 DEF Cover!RemoveVariants, Cover!history
  <2>2. Cover!TypeOK'
    <3>1. s1' \in [Cover!Name -> Cover!Picture]
      <4>1. "nothing" \in Cover!Picture /\ \A n \in Cover!Name : s1[n] \in Cover!Picture
        BY <1>a, <1>c
      <4>2. s1' = [n \in Cover!Name |-> IF n \in (Cover!Recognised \cup Cover!Own) \ {s5[u].name}
                                         THEN "nothing" ELSE s1[n]]
        BY <1>d, <1>2 DEF Cover!RemoveVariants
      <4> QED
        BY ONLY <4>1, <4>2
    <3> QED
      BY ZenonT(60), <1>a, <1>d, <1>2, <2>1, <3>1 DEF Cover!RemoveVariants, Cover!history,
         Cover!TypeOK
  <2>3. Cover!CopyNamed'
    BY <1>a, <1>b, <1>c, <1>d, <1>2 DEF Cover!RemoveVariants, Cover!history, Cover!CopyNamed
  <2>4. Cover!UploadAlone'
    <3> SUFFICES ASSUME NEW v \in Sleeve, v \notin s9', Cover!At(v)'
                 PROVE  /\ s6'.pc = "idle" /\ \A w \in Sleeve : Cover!At(w)' => w = v
                        /\ s1'[s5'[v].name] = v /\ (s5'[v].pc = "cache" => s3' = s5'[v].name)
      BY DEF Cover!UploadAlone
    <3>1. s9' = s9 /\ s6' = s6 /\ s3' = s3 /\ Cover!At(u)
      BY <1>2 DEF Cover!RemoveVariants, Cover!history, Cover!At
    <3>2. v = u
      BY <1>i, <2>1, <3>1
    <3>3. s1'[s5[u].name] = s1[s5[u].name]
      BY <1>a, <1>c, <1>2 DEF Cover!RemoveVariants
    <3> QED
      BY <1>i, <2>1, <3>1, <3>2, <3>3
  <2>5. Cover!CoverStands'
    BY <1>a, <1>b, <1>c, <1>d, <1>2, <2>1 DEF Cover!RemoveVariants, Cover!history,
       Cover!CoverStands, Cover!UploadAlone, Cover!Exists, Cover!At
  <2>6. Cover!NoCoverTrue'
    <3>1. s9' = s9 /\ s2' = s2 /\ Cover!At(u)
      BY <1>2 DEF Cover!RemoveVariants, Cover!history, Cover!At
    <3>2. \A v \in Sleeve : v \notin s9' /\ s5'[v].pc \in {"artpath", "cache"} => v = u
      BY <1>h, <1>i, <2>1, <3>1
    <3>3. Cover!Shown' \subseteq {s5[u].name}
      BY <1>c, <1>d, <1>e, <1>2, <3>1 DEF Cover!RemoveVariants
    <3> QED
      BY <2>1, <3>2, <3>3 DEF Cover!NoCoverTrue
  <2> QED
    BY <2>2, <2>3, <2>4, <2>5, <2>6 DEF Cover!CoverInv
<1>3. ASSUME NEW u \in Sleeve, Cover!SetArtpath(u) PROVE Cover!CoverInv'
  <2>1. /\ s5' \in [Sleeve -> Uploads] /\ s5'[u].pc = "cache"
        /\ \A v \in Sleeve : s5'[v].name = s5[v].name
        /\ \A v \in Sleeve : v # u => s5'[v] = s5[v]
        /\ \A v \in Sleeve : v # u => (Cover!At(v)' <=> Cover!At(v))
        /\ Cover!At(u)'
    BY <1>g, <1>3 DEF Cover!SetArtpath, Cover!UpdateArtpath, Cover!history
  <2>2. Cover!TypeOK'
    BY ZenonT(60), <1>a, <1>b, <1>c, <1>d, <1>3, <2>1 DEF Cover!SetArtpath, Cover!UpdateArtpath,
       Cover!history,
       Cover!TypeOK
  <2>3. Cover!CopyNamed'
    BY <1>a, <1>b, <1>c, <1>d, <1>3 DEF Cover!SetArtpath, Cover!UpdateArtpath, Cover!history,
       Cover!CopyNamed
  <2>4. Cover!UploadAlone'
    <3> SUFFICES ASSUME NEW v \in Sleeve, v \notin s9', Cover!At(v)'
                 PROVE  /\ s6'.pc = "idle" /\ \A w \in Sleeve : Cover!At(w)' => w = v
                        /\ s1'[s5'[v].name] = v /\ (s5'[v].pc = "cache" => s3' = s5'[v].name)
      BY DEF Cover!UploadAlone
    <3>1. s9' = s9 /\ s6' = s6 /\ s1' = s1 /\ s3' = s5[u].name /\ Cover!At(u)
      BY <1>3 DEF Cover!SetArtpath, Cover!UpdateArtpath, Cover!history, Cover!At
    <3>2. v = u
      BY <1>i, <2>1, <3>1
    <3> QED
      BY <1>i, <2>1, <3>1, <3>2
  <2>5. Cover!CoverStands'
    BY <1>a, <1>b, <1>c, <1>d, <1>3, <2>1 DEF Cover!SetArtpath, Cover!UpdateArtpath, Cover!history,
       Cover!CoverStands, Cover!UploadAlone, Cover!Exists, Cover!At
  <2>6. Cover!NoCoverTrue'
    <3>1. s9' = s9 /\ s4' = s4 /\ s7' = s7 /\ s11' = s11 /\ Cover!Shown' = Cover!Shown /\ s5[u].pc = "artpath"
      BY <1>f, <1>3 DEF Cover!SetArtpath, Cover!history
    <3>2. ASSUME NEW v \in Sleeve, v \notin s9', s5'[v].pc \in {"artpath", "cache"}
          PROVE  s5[v].pc \in {"artpath", "cache"}
      BY <2>1, <3>1, <3>2
    <3> QED
      BY <1>b, <2>1, <3>1, <3>2 DEF Cover!NoCoverTrue, Cover!NoCoverAbout
  <2> QED
    BY <2>2, <2>3, <2>4, <2>5, <2>6 DEF Cover!CoverInv
<1>4. ASSUME NEW u \in Sleeve, Cover!Answer(u) PROVE Cover!CoverInv'
  <2>1. /\ s5' \in [Sleeve -> Uploads] /\ s5'[u].pc = "done"
        /\ \A v \in Sleeve : s5'[v].name = s5[v].name
        /\ \A v \in Sleeve : v # u => s5'[v] = s5[v]
        /\ \A v \in Sleeve : v # u => (Cover!At(v)' <=> Cover!At(v))
        /\ ~ Cover!At(u)'
    BY <1>g, <1>4 DEF Cover!Answer, Cover!Finish, Cover!history
  <2>2. Cover!TypeOK'
    BY <1>a, <1>b, <1>c, <1>d, <1>4, <2>1 DEF Cover!Answer, Cover!Finish, Cover!history,
       Cover!TypeOK
  <2>3. Cover!CopyNamed'
    BY <1>a, <1>b, <1>c, <1>d, <1>4 DEF Cover!Answer, Cover!Finish, Cover!history, Cover!CopyNamed
  <2>4. Cover!UploadAlone'
    <3> SUFFICES ASSUME NEW v \in Sleeve, v \notin s9', Cover!At(v)'
                 PROVE  /\ s6'.pc = "idle" /\ \A w \in Sleeve : Cover!At(w)' => w = v
                        /\ s1'[s5'[v].name] = v /\ (s5'[v].pc = "cache" => s3' = s5'[v].name)
      BY DEF Cover!UploadAlone
    <3>1. s9' = s9 \ {u} /\ s6' = s6 /\ s1' = s1 /\ s3' = s3 /\ Cover!At(u)
      BY <1>4 DEF Cover!Answer, Cover!Finish, Cover!At
    <3> QED
      BY <1>i, <2>1, <3>1
  <2>5. Cover!CoverStands'
    <3>1. /\ s6' = s6 /\ s1' = s1 /\ s3' = s3 /\ Cover!At(u) /\ s5[u].pc = "cache"
          /\ s8' = IF u \in s9 THEN "nothing" ELSE u
      BY <1>d, <1>4 DEF Cover!Answer, Cover!Finish, Cover!At
    <3> SUFFICES ASSUME u \notin s9 PROVE Cover!CoverStands'
      BY <1>d, <3>1 DEF Cover!CoverStands
    <3>2. /\ s6.pc = "idle" /\ \A v \in Sleeve : ~ Cover!At(v)'
          /\ s1[s3] = u /\ s3 = s5[u].name
      BY <1>i, <2>1, <3>1
    <3>3. Cover!Exists(s3)'
      BY <1>a, <1>c, <1>d, <3>1, <3>2 DEF Cover!Exists
    <3> QED
      BY <3>1, <3>2, <3>3 DEF Cover!CoverStands, Cover!Exists
  <2>6. Cover!NoCoverTrue'
    <3> SUFFICES ASSUME Cover!NoCoverAbout' PROVE Cover!NoCoverTrue'
      BY DEF Cover!NoCoverTrue
    <3>1. /\ s6' = s6 /\ s1' = s1 /\ s3' = s3 /\ s10' = s10 /\ Cover!At(u) /\ s5[u].pc = "cache"
          /\ Cover!Shown' = Cover!Shown /\ u \notin s9 /\ Cover!NoCoverAbout
      BY <1>a, <1>c, <1>d, <1>f, <1>4 DEF Cover!Answer, Cover!Finish, Cover!At, Cover!NoCoverAbout
    <3>2. Cover!Shown \subseteq {s5[u].name}
      BY <1>b, <3>1 DEF Cover!NoCoverTrue
    <3>3. s6.pc = "idle" /\ s1[s3] = u /\ s3 = s5[u].name /\ \A v \in Sleeve : ~ Cover!At(v)'
      BY <1>i, <2>1, <3>1
    <3>4. Cover!LeadsTo(s3)'
      <4>1. Cover!Shown' # {} => Cover!Shown' = {s3}
        BY <3>1, <3>2, <3>3
      <4>2. s3 \in Cover!Name /\ s1'[s3] # "nothing"
        BY <1>a, <1>c, <3>1, <3>3
      <4> QED
        BY <1>d, <3>1, <4>1, <4>2 DEF Cover!LeadsTo, Cover!Exists
    <3> QED
      BY <1>h, <3>1, <3>3, <3>4 DEF Cover!NoCoverTrue, Cover!LeadsTo, Cover!Exists
  <2> QED
    BY <2>2, <2>3, <2>4, <2>5, <2>6 DEF Cover!CoverInv
<1>5. ASSUME NEW u \in Sleeve, Cover!Attach(u) PROVE Cover!CoverInv'
  <2>1. /\ s5' \in [Sleeve -> Uploads] /\ s5'[u].pc = "done"
        /\ \A v \in Sleeve : s5'[v].name = s5[v].name
        /\ \A v \in Sleeve : v # u => s5'[v] = s5[v]
        /\ \A v \in Sleeve : v # u => (Cover!At(v)' <=> Cover!At(v))
        /\ ~ Cover!At(u)'
    BY <1>g, <1>5 DEF Cover!Attach, Cover!Finish, Cover!history
  <2>2. Cover!TypeOK'
    BY <1>a, <1>b, <1>c, <1>d, <1>5, <2>1 DEF Cover!Attach, Cover!Finish, Cover!history,
       Cover!TypeOK
  <2>3. Cover!CopyNamed'
    BY <1>a, <1>b, <1>c, <1>d, <1>5 DEF Cover!Attach, Cover!Finish, Cover!history, Cover!CopyNamed
  <2>4. Cover!UploadAlone'
    <3> SUFFICES ASSUME NEW v \in Sleeve, v \notin s9', Cover!At(v)'
                 PROVE  /\ s6'.pc = "idle" /\ \A w \in Sleeve : Cover!At(w)' => w = v
                        /\ s1'[s5'[v].name] = v /\ (s5'[v].pc = "cache" => s3' = s5'[v].name)
      BY DEF Cover!UploadAlone
    <3>1. s9' = s9 \ {u} /\ s6' = s6 /\ s1' = s1 /\ s3' = s3 /\ Cover!At(u)
      BY <1>5 DEF Cover!Attach, Cover!Finish, Cover!At
    <3> QED
      BY <1>i, <2>1, <3>1
  <2>5. Cover!CoverStands'
    <3>1. /\ s6' = s6 /\ s1' = s1 /\ s3' = s3 /\ Cover!At(u) /\ s5[u].pc = "cache"
          /\ s8' = IF u \in s9 THEN "nothing" ELSE u
      BY <1>d, <1>5 DEF Cover!Attach, Cover!Finish, Cover!At
    <3> SUFFICES ASSUME u \notin s9 PROVE Cover!CoverStands'
      BY <1>d, <3>1 DEF Cover!CoverStands
    <3>2. /\ s6.pc = "idle" /\ \A v \in Sleeve : ~ Cover!At(v)'
          /\ s1[s3] = u /\ s3 = s5[u].name
      BY <1>i, <2>1, <3>1
    <3>3. Cover!Exists(s3)'
      BY <1>a, <1>c, <1>d, <3>1, <3>2 DEF Cover!Exists
    <3> QED
      BY <3>1, <3>2, <3>3 DEF Cover!CoverStands, Cover!Exists
  <2>6. Cover!NoCoverTrue'
    <3> SUFFICES ASSUME Cover!NoCoverAbout' PROVE Cover!NoCoverTrue'
      BY DEF Cover!NoCoverTrue
    <3>1. /\ s6' = s6 /\ s1' = s1 /\ s3' = s3 /\ s10' = s10 /\ Cover!At(u) /\ s5[u].pc = "cache"
          /\ Cover!Shown' = Cover!Shown /\ u \notin s9 /\ Cover!NoCoverAbout
      BY <1>a, <1>c, <1>d, <1>f, <1>5 DEF Cover!Attach, Cover!Finish, Cover!At, Cover!NoCoverAbout
    <3>2. Cover!Shown \subseteq {s5[u].name}
      BY <1>b, <3>1 DEF Cover!NoCoverTrue
    <3>3. s6.pc = "idle" /\ s1[s3] = u /\ s3 = s5[u].name /\ \A v \in Sleeve : ~ Cover!At(v)'
      BY <1>i, <2>1, <3>1
    <3>4. Cover!LeadsTo(s3)'
      <4>1. Cover!Shown' # {} => Cover!Shown' = {s3}
        BY <3>1, <3>2, <3>3
      <4>2. s3 \in Cover!Name /\ s1'[s3] # "nothing"
        BY <1>a, <1>c, <3>1, <3>3
      <4> QED
        BY <1>d, <3>1, <4>1, <4>2 DEF Cover!LeadsTo, Cover!Exists
    <3> QED
      BY <1>h, <3>1, <3>3, <3>4 DEF Cover!NoCoverTrue, Cover!LeadsTo, Cover!Exists
  <2> QED
    BY <2>2, <2>3, <2>4, <2>5, <2>6 DEF Cover!CoverInv
<1>6. ASSUME NEW u \in Sleeve, Cover!UploadFails(u) PROVE Cover!CoverInv'
  <2>1. /\ s5' \in [Sleeve -> Uploads] /\ s5'[u].pc = "done"
        /\ \A v \in Sleeve : s5'[v].name = s5[v].name
        /\ \A v \in Sleeve : v # u => s5'[v] = s5[v]
        /\ \A v \in Sleeve : v # u => (Cover!At(v)' <=> Cover!At(v))
        /\ ~ Cover!At(u)'
    BY <1>g, <1>6 DEF Cover!UploadFails, Cover!history
  <2>2. Cover!TypeOK'
    BY ZenonT(60), <1>a, <1>b, <1>c, <1>d, <1>6, <2>1 DEF Cover!UploadFails, Cover!history,
       Cover!TypeOK
  <2>3. Cover!CopyNamed'
    BY <1>a, <1>b, <1>c, <1>d, <1>6 DEF Cover!UploadFails, Cover!history, Cover!CopyNamed
  <2>4. Cover!UploadAlone'
    <3> SUFFICES ASSUME NEW v \in Sleeve, v \notin s9', Cover!At(v)'
                 PROVE  /\ s6'.pc = "idle" /\ \A w \in Sleeve : Cover!At(w)' => w = v
                        /\ s1'[s5'[v].name] = v /\ (s5'[v].pc = "cache" => s3' = s5'[v].name)
      BY DEF Cover!UploadAlone
    <3>1. s9' = s9 \ {u} /\ s6' = s6 /\ s1' = s1 /\ s3' = s3 /\ Cover!At(u)
      BY <1>6 DEF Cover!UploadFails, Cover!At
    <3> QED
      BY <1>i, <2>1, <3>1
  <2>5. Cover!CoverStands'
    BY <1>a, <1>b, <1>c, <1>d, <1>6, <2>1 DEF Cover!UploadFails, Cover!history, Cover!CoverStands,
       Cover!UploadAlone, Cover!Exists, Cover!At
  <2>6. Cover!NoCoverTrue'
    BY <1>a, <1>b, <1>c, <1>d, <1>e, <1>f, <1>6, <2>1 DEF Cover!UploadFails, Cover!history,
       Cover!NoCoverTrue, Cover!NoCoverAbout, Cover!LeadsTo, Cover!UploadAlone, Cover!CopyNamed,
       Cover!Exists
  <2> QED
    BY <2>2, <2>3, <2>4, <2>5, <2>6 DEF Cover!CoverInv
<1>7. ASSUME Cover!Snapshot PROVE Cover!CoverInv'
  <2>1. s5' = s5 /\ \A v \in Sleeve : Cover!At(v)' <=> Cover!At(v)
    BY <1>h, <1>7 DEF Cover!Snapshot, Cover!history
  <2>2. Cover!TypeOK'
    BY <1>a, <1>b, <1>c, <1>d, <1>7, <2>1 DEF Cover!Snapshot, Cover!history, Cover!TypeOK
  <2>3. Cover!CopyNamed'
    BY <1>a, <1>b, <1>c, <1>d, <1>7 DEF Cover!Snapshot, Cover!history, Cover!CopyNamed
  <2>4. Cover!UploadAlone'
    BY <1>a, <1>b, <1>c, <1>d, <1>7, <2>1 DEF Cover!Snapshot, Cover!history, Cover!UploadAlone,
       Cover!At
  <2>5. Cover!CoverStands'
    BY <1>a, <1>b, <1>c, <1>d, <1>7, <2>1 DEF Cover!Snapshot, Cover!history, Cover!CoverStands,
       Cover!UploadAlone, Cover!Exists, Cover!At
  <2>6. Cover!NoCoverTrue'
    BY <1>a, <1>b, <1>c, <1>d, <1>e, <1>f, <1>7, <2>1 DEF Cover!Snapshot, Cover!history,
       Cover!NoCoverTrue, Cover!NoCoverAbout, Cover!LeadsTo, Cover!UploadAlone, Cover!CopyNamed,
       Cover!Exists
  <2> QED
    BY <2>2, <2>3, <2>4, <2>5, <2>6 DEF Cover!CoverInv
<1>8. ASSUME Cover!VisitAlbum PROVE Cover!CoverInv'
  <2>1. s5' = s5 /\ \A v \in Sleeve : Cover!At(v)' <=> Cover!At(v)
    BY <1>h, <1>8 DEF Cover!VisitAlbum, Cover!Resolve, Cover!Rest, Cover!Candidates, Cover!history
  <2>0. /\ s1' = s1 /\ s2' = s2 /\ s3' = s3 /\ s4' = s4 /\ s7' = s7 /\ s8' = s8 /\ s9' = s9
        /\ s10' = s10 /\ s11' = s11 /\ Cover!Shown' = Cover!Shown /\ s6.pc = "album"
    BY <1>f, <1>8 DEF Cover!VisitAlbum, Cover!history
  \* The album is passed by, its cover recorded, or a picture written first.
  <2>a. /\ s6' \in Visits
        /\ \/ s6'.pc = "idle"
           \/ /\ ~ Cover!Exists(s6.stored)
              /\ \/ s6'.pc = "artpath" /\ s6'.cover \in Cover!Shown
                 \/ s6'.pc = "artpath" /\ Cover!Shown = {}
                 \/ s6'.pc = "write" /\ s6'.cover = "art.jpg" /\ Cover!Shown = {}
    <3>1. CASE Cover!Exists(s6.stored)
      <4>1. s6' = [pc |-> "idle", stored |-> "nothing", cover |-> "nothing"]
        BY <1>d, <1>8, <3>1 DEF Cover!VisitAlbum, Cover!Rest
      <4> QED
        BY ONLY <4>1
    <3>2. CASE ~ Cover!Exists(s6.stored)
      <4> DEFINE Found(n) == [s6 EXCEPT !.pc = "artpath", !.cover = n]
                 Copied == [s6 EXCEPT !.pc = "write", !.cover = "art.jpg"]
                 Passed == [pc |-> "idle", stored |-> "nothing", cover |-> "nothing"]
      <4>1. \/ \E n \in Cover!Shown : s6' = Found(n)
            \/ Cover!Shown = {} /\ \E n \in Cover!Candidates : n \in Cover!Own /\ s6' = Found(n)
            \/ Cover!Shown = {} /\ s6' = Copied
            \/ s6' = Passed
        BY <1>d, <1>8, <3>2 DEF Cover!VisitAlbum, Cover!Resolve, Cover!Rest
      <4>2. \A n \in Cover!Name : Found(n) \in Visits /\ Found(n).pc = "artpath" /\ Found(n).cover = n
        BY ONLY <1>a
      <4>3. "art.jpg" \in Cover!Name /\ Cover!Own \subseteq Cover!Name /\ Cover!Shown \subseteq Cover!Name
        BY <1>c, <1>e
      <4>4. Copied \in Visits /\ Copied.pc = "write" /\ Copied.cover = "art.jpg"
        BY ONLY <1>a, <4>3
      <4>5. Passed \in Visits /\ Passed.pc = "idle"
        OBVIOUS
      <4> HIDE DEF Found, Copied, Passed
      <4> QED
        BY <3>2, <4>1, <4>2, <4>3, <4>4, <4>5
    <3> QED
      BY <3>1, <3>2
  <2>2. Cover!TypeOK'
    BY <1>a, <1>d, <2>0, <2>1, <2>a DEF Cover!TypeOK
  <2>3. Cover!CopyNamed'
    BY <2>a DEF Cover!CopyNamed
  <2>4. Cover!UploadAlone'
    BY <1>a, <1>b, <1>c, <1>d, <1>8, <2>1 DEF Cover!VisitAlbum, Cover!Resolve, Cover!Rest,
       Cover!Candidates, Cover!history, Cover!UploadAlone, Cover!At
  <2>5. Cover!CoverStands'
    BY <1>b, <2>0, <2>1, <2>a DEF Cover!CoverStands, Cover!Exists
  <2>6. Cover!NoCoverTrue'
    <3> SUFFICES ASSUME Cover!NoCoverAbout, \A v \in Sleeve : ~ Cover!At(v)
                 PROVE  /\ s6'.pc \in {"idle", "album", "cache"} => Cover!LeadsTo(s3)
                        /\ s6'.pc = "write" => Cover!Shown = {}
                        /\ s6'.pc = "artpath" => Cover!LeadsTo(s6'.cover)
      BY <1>b, <2>0, <2>1 DEF Cover!NoCoverTrue, Cover!NoCoverAbout, Cover!LeadsTo, Cover!Exists
    <3>1. Cover!LeadsTo(s3)
      BY <1>b, <2>0 DEF Cover!NoCoverTrue
    <3> QED
      BY <1>d, <1>e, <2>a, <3>1 DEF Cover!LeadsTo, Cover!Exists
  <2> QED
    BY <2>2, <2>3, <2>4, <2>5, <2>6 DEF Cover!CoverInv
<1>9. ASSUME Cover!Promote PROVE Cover!CoverInv'
  <2>1. s5' = s5 /\ \A v \in Sleeve : Cover!At(v)' <=> Cover!At(v)
    BY <1>h, <1>9 DEF Cover!Promote, Cover!history
  <2>2. Cover!TypeOK'
    BY ZenonT(60), <1>a, <1>b, <1>c, <1>d, <1>9, <2>1 DEF Cover!Promote, Cover!history, Cover!TypeOK
  <2>3. Cover!CopyNamed'
    BY <1>a, <1>b, <1>c, <1>d, <1>9 DEF Cover!Promote, Cover!history, Cover!CopyNamed
  <2>4. Cover!UploadAlone'
    BY <1>a, <1>b, <1>c, <1>d, <1>9, <2>1 DEF Cover!Promote, Cover!history, Cover!UploadAlone,
       Cover!At
  <2>5. Cover!CoverStands'
    BY <1>a, <1>b, <1>c, <1>d, <1>9, <2>1 DEF Cover!Promote, Cover!history, Cover!CoverStands,
       Cover!UploadAlone, Cover!Exists, Cover!At
  <2>6. Cover!NoCoverTrue'
    <3> SUFFICES ASSUME Cover!NoCoverAbout, \A v \in Sleeve : ~ Cover!At(v)
                 PROVE  Cover!LeadsTo(s6.cover)'
      <4>1. /\ s3' = s3 /\ s4' = s4 /\ s7' = s7 /\ s9' = s9 /\ s11' = s11 /\ s6.pc = "write"
            /\ s6'.pc = "artpath" /\ s6'.cover = s6.cover
        BY <1>a, <1>9 DEF Cover!Promote, Cover!history
      <4>2. \A v \in Sleeve : v \notin s9' => ~ Cover!At(v)
        BY <1>i, <4>1
      <4> QED
        BY <1>h, <2>1, <4>1, <4>2 DEF Cover!NoCoverTrue, Cover!NoCoverAbout
    <3>1. /\ s1' = [s1 EXCEPT !["art.jpg"] = "found"] /\ s2' = s2 /\ s6.cover = "art.jpg" /\ Cover!Shown = {}
      BY <1>b, <1>d, <1>9 DEF Cover!Promote, Cover!CopyNamed, Cover!NoCoverTrue
    <3>2. Cover!Shown' \subseteq {"art.jpg"} /\ s1'["art.jpg"] = "found"
      BY <1>a, <1>c, <1>e, <3>1
    <3>3. s6'.cover = "art.jpg" /\ "art.jpg" \in Cover!Name
      BY <1>a, <1>c, <1>9, <3>1 DEF Cover!Promote
    <3>4. Cover!Shown' # {} => Cover!Shown' = {"art.jpg"}
      BY <3>2
    <3> QED
      BY <1>d, <3>2, <3>3, <3>4 DEF Cover!LeadsTo, Cover!Exists
  <2> QED
    BY <2>2, <2>3, <2>4, <2>5, <2>6 DEF Cover!CoverInv
<1>10. ASSUME Cover!BackfillArtpath PROVE Cover!CoverInv'
  <2>1. s5' = s5 /\ \A v \in Sleeve : Cover!At(v)' <=> Cover!At(v)
    BY <1>h, <1>10 DEF Cover!BackfillArtpath, Cover!history
  <2>2. Cover!TypeOK'
    BY <1>a, <1>b, <1>c, <1>d, <1>10, <2>1 DEF Cover!BackfillArtpath, Cover!history, Cover!TypeOK
  <2>3. Cover!CopyNamed'
    BY <1>a, <1>b, <1>c, <1>d, <1>10 DEF Cover!BackfillArtpath, Cover!history, Cover!CopyNamed
  <2>4. Cover!UploadAlone'
    BY <1>a, <1>b, <1>c, <1>d, <1>10, <2>1 DEF Cover!BackfillArtpath, Cover!history,
       Cover!UploadAlone, Cover!At
  <2>5. Cover!CoverStands'
    BY <1>a, <1>b, <1>c, <1>d, <1>10, <2>1 DEF Cover!BackfillArtpath, Cover!history,
       Cover!CoverStands, Cover!UploadAlone, Cover!Exists, Cover!At
  <2>6. Cover!NoCoverTrue'
    BY <1>a, <1>b, <1>c, <1>d, <1>e, <1>f, <1>10, <2>1 DEF Cover!BackfillArtpath, Cover!history,
       Cover!NoCoverTrue, Cover!NoCoverAbout, Cover!LeadsTo, Cover!UploadAlone, Cover!CopyNamed,
       Cover!Exists
  <2> QED
    BY <2>2, <2>3, <2>4, <2>5, <2>6 DEF Cover!CoverInv
<1>11. ASSUME Cover!BackfillCache PROVE Cover!CoverInv'
  <2>1. s5' = s5 /\ \A v \in Sleeve : Cover!At(v)' <=> Cover!At(v)
    BY <1>h, <1>11 DEF Cover!BackfillCache, Cover!Rest, Cover!history
  <2>2. Cover!TypeOK'
    BY <1>a, <1>b, <1>c, <1>d, <1>11, <2>1 DEF Cover!BackfillCache, Cover!Rest, Cover!history,
       Cover!TypeOK
  <2>3. Cover!CopyNamed'
    BY <1>a, <1>b, <1>c, <1>d, <1>11 DEF Cover!BackfillCache, Cover!Rest, Cover!history,
       Cover!CopyNamed
  <2>4. Cover!UploadAlone'
    BY <1>a, <1>b, <1>c, <1>d, <1>11, <2>1 DEF Cover!BackfillCache, Cover!Rest, Cover!history,
       Cover!UploadAlone, Cover!At
  <2>5. Cover!CoverStands'
    BY <1>a, <1>b, <1>c, <1>d, <1>11, <2>1 DEF Cover!BackfillCache, Cover!Rest, Cover!history,
       Cover!CoverStands, Cover!UploadAlone, Cover!Exists, Cover!At
  <2>6. Cover!NoCoverTrue'
    BY <1>a, <1>b, <1>c, <1>d, <1>e, <1>f, <1>11, <2>1 DEF Cover!BackfillCache, Cover!Rest,
       Cover!history, Cover!NoCoverTrue, Cover!NoCoverAbout, Cover!LeadsTo, Cover!UploadAlone,
       Cover!CopyNamed, Cover!Exists
  <2> QED
    BY <2>2, <2>3, <2>4, <2>5, <2>6 DEF Cover!CoverInv
<1>12. ASSUME Cover!BackfillFails PROVE Cover!CoverInv'
  <2>1. s5' = s5 /\ \A v \in Sleeve : Cover!At(v)' <=> Cover!At(v)
    BY <1>h, <1>12 DEF Cover!BackfillFails, Cover!Rest, Cover!history
  <2>2. Cover!TypeOK'
    BY <1>a, <1>b, <1>c, <1>d, <1>12, <2>1 DEF Cover!BackfillFails, Cover!Rest, Cover!history,
       Cover!TypeOK
  <2>3. Cover!CopyNamed'
    BY <1>a, <1>b, <1>c, <1>d, <1>12 DEF Cover!BackfillFails, Cover!Rest, Cover!history,
       Cover!CopyNamed
  <2>4. Cover!UploadAlone'
    BY <1>a, <1>b, <1>c, <1>d, <1>12, <2>1 DEF Cover!BackfillFails, Cover!Rest, Cover!history,
       Cover!UploadAlone, Cover!At
  <2>5. Cover!CoverStands'
    BY <1>a, <1>b, <1>c, <1>d, <1>12, <2>1 DEF Cover!BackfillFails, Cover!Rest, Cover!history,
       Cover!CoverStands, Cover!UploadAlone, Cover!Exists, Cover!At
  <2>6. Cover!NoCoverTrue'
    BY <1>a, <1>b, <1>c, <1>d, <1>e, <1>f, <1>12, <2>1 DEF Cover!BackfillFails, Cover!Rest,
       Cover!history, Cover!NoCoverTrue, Cover!NoCoverAbout, Cover!LeadsTo, Cover!UploadAlone,
       Cover!CopyNamed, Cover!Exists
  <2> QED
    BY <2>2, <2>3, <2>4, <2>5, <2>6 DEF Cover!CoverInv
<1>13. ASSUME Cover!Discover PROVE Cover!CoverInv'
  <2>1. s5' = s5 /\ \A v \in Sleeve : Cover!At(v)' <=> Cover!At(v)
    BY <1>h, <1>13 DEF Cover!Discover, Cover!history
  <2>2. Cover!TypeOK'
    <3>1. Cover!Shown \subseteq Cover!Name
      BY <1>e
    <3> QED
      BY <1>a, <1>d, <1>13, <2>1, <3>1 DEF Cover!Discover, Cover!history, Cover!TypeOK
  <2>3. Cover!CopyNamed'
    BY <1>a, <1>b, <1>c, <1>d, <1>13 DEF Cover!Discover, Cover!history, Cover!CopyNamed
  <2>4. Cover!UploadAlone'
    BY ZenonT(60), <1>a, <1>b, <1>c, <1>d, <1>13, <2>1 DEF Cover!Discover, Cover!history,
       Cover!UploadAlone,
       Cover!At
  <2>5. Cover!CoverStands'
    BY <1>a, <1>b, <1>c, <1>d, <1>13, <2>1 DEF Cover!Discover, Cover!history, Cover!CoverStands,
       Cover!UploadAlone, Cover!Exists, Cover!At
  <2>6. Cover!NoCoverTrue'
    BY <1>a, <1>b, <1>c, <1>d, <1>e, <1>f, <1>13, <2>1 DEF Cover!Discover, Cover!history,
       Cover!NoCoverTrue, Cover!NoCoverAbout, Cover!LeadsTo, Cover!UploadAlone, Cover!CopyNamed,
       Cover!Exists
  <2> QED
    BY <2>2, <2>3, <2>4, <2>5, <2>6 DEF Cover!CoverInv
<1>14. ASSUME Cover!Remember PROVE Cover!CoverInv'
  <2>1. s5' = s5 /\ \A v \in Sleeve : Cover!At(v)' <=> Cover!At(v)
    BY <1>h, <1>14 DEF Cover!Remember, Cover!history
  <2>2. Cover!TypeOK'
    BY <1>a, <1>b, <1>c, <1>d, <1>14, <2>1 DEF Cover!Remember, Cover!history, Cover!TypeOK
  <2>3. Cover!CopyNamed'
    BY <1>a, <1>b, <1>c, <1>d, <1>14 DEF Cover!Remember, Cover!history, Cover!CopyNamed
  <2>4. Cover!UploadAlone'
    BY ZenonT(60), <1>a, <1>b, <1>c, <1>d, <1>14, <2>1 DEF Cover!Remember, Cover!history,
       Cover!UploadAlone,
       Cover!At
  <2>5. Cover!CoverStands'
    BY <1>a, <1>b, <1>c, <1>d, <1>14, <2>1 DEF Cover!Remember, Cover!history, Cover!CoverStands,
       Cover!UploadAlone, Cover!Exists, Cover!At
  <2>6. Cover!NoCoverTrue'
    BY <1>a, <1>b, <1>c, <1>d, <1>e, <1>f, <1>14, <2>1 DEF Cover!Remember, Cover!history,
       Cover!NoCoverTrue, Cover!NoCoverAbout, Cover!LeadsTo, Cover!UploadAlone, Cover!CopyNamed,
       Cover!Exists
  <2> QED
    BY <2>2, <2>3, <2>4, <2>5, <2>6 DEF Cover!CoverInv
<1>15. ASSUME Cover!Expire PROVE Cover!CoverInv'
  <2>1. s5' = s5 /\ \A v \in Sleeve : Cover!At(v)' <=> Cover!At(v)
    BY <1>h, <1>15 DEF Cover!Expire, Cover!history
  <2>2. Cover!TypeOK'
    BY <1>a, <1>b, <1>c, <1>d, <1>15, <2>1 DEF Cover!Expire, Cover!history, Cover!TypeOK
  <2>3. Cover!CopyNamed'
    BY <1>a, <1>b, <1>c, <1>d, <1>15 DEF Cover!Expire, Cover!history, Cover!CopyNamed
  <2>4. Cover!UploadAlone'
    BY ZenonT(60), <1>a, <1>b, <1>c, <1>d, <1>15, <2>1 DEF Cover!Expire, Cover!history,
       Cover!UploadAlone,
       Cover!At
  <2>5. Cover!CoverStands'
    BY <1>a, <1>b, <1>c, <1>d, <1>15, <2>1 DEF Cover!Expire, Cover!history, Cover!CoverStands,
       Cover!UploadAlone, Cover!Exists, Cover!At
  <2>6. Cover!NoCoverTrue'
    BY <1>a, <1>b, <1>c, <1>d, <1>e, <1>f, <1>15, <2>1 DEF Cover!Expire, Cover!history,
       Cover!NoCoverTrue, Cover!NoCoverAbout, Cover!LeadsTo, Cover!UploadAlone, Cover!CopyNamed,
       Cover!Exists
  <2> QED
    BY <2>2, <2>3, <2>4, <2>5, <2>6 DEF Cover!CoverInv
<1>16. ASSUME Cover!PutCover PROVE Cover!CoverInv'
  <2>1. s5' = s5 /\ \A v \in Sleeve : Cover!At(v)' <=> Cover!At(v)
    BY <1>h, <1>16 DEF Cover!PutCover, Cover!history
  <2>2. Cover!TypeOK'
    BY <1>a, <1>b, <1>c, <1>d, <1>16, <2>1 DEF Cover!PutCover, Cover!history, Cover!TypeOK
  <2>3. Cover!CopyNamed'
    BY <1>a, <1>b, <1>c, <1>d, <1>16 DEF Cover!PutCover, Cover!history, Cover!CopyNamed
  <2>4. Cover!UploadAlone'
    <3> SUFFICES ASSUME NEW v \in Sleeve, v \notin s9', Cover!At(v)'
                 PROVE  /\ s6'.pc = "idle" /\ \A w \in Sleeve : Cover!At(w)' => w = v
                        /\ s1'[s5'[v].name] = v /\ (s5'[v].pc = "cache" => s3' = s5'[v].name)
      BY DEF Cover!UploadAlone
    <3>1. /\ s9' = s9 /\ s6' = s6 /\ s3' = s3 /\ s5[v].name # "cover.jpg" /\ s5[v].name \in Cover!Name
          /\ s1' = [s1 EXCEPT !["cover.jpg"] = "found"]
      BY <1>a, <1>c, <1>d, <1>16 DEF Cover!PutCover
    <3>2. s1'[s5[v].name] = s1[s5[v].name]
      BY <1>a, <3>1
    <3> QED
      BY <1>i, <2>1, <3>1, <3>2
  <2>5. Cover!CoverStands'
    BY <1>a, <1>b, <1>c, <1>d, <1>16, <2>1 DEF Cover!PutCover, Cover!history, Cover!CoverStands,
       Cover!UploadAlone, Cover!Exists, Cover!At
  <2>6. Cover!NoCoverTrue'
    BY <1>a, <1>b, <1>c, <1>d, <1>e, <1>f, <1>16, <2>1 DEF Cover!PutCover, Cover!history,
       Cover!NoCoverTrue, Cover!NoCoverAbout, Cover!LeadsTo, Cover!UploadAlone, Cover!CopyNamed,
       Cover!Exists
  <2> QED
    BY <2>2, <2>3, <2>4, <2>5, <2>6 DEF Cover!CoverInv
<1>17. ASSUME Cover!RemovePicture PROVE Cover!CoverInv'
  <2>1. s5' = s5 /\ \A v \in Sleeve : Cover!At(v)' <=> Cover!At(v)
    BY <1>h, <1>17 DEF Cover!RemovePicture, Cover!history
  <2>2. Cover!TypeOK'
    BY ZenonT(60), <1>a, <1>b, <1>c, <1>d, <1>17, <2>1 DEF Cover!RemovePicture, Cover!history,
       Cover!TypeOK
  <2>3. Cover!CopyNamed'
    BY <1>a, <1>b, <1>c, <1>d, <1>17 DEF Cover!RemovePicture, Cover!history, Cover!CopyNamed
  <2>4. Cover!UploadAlone'
    BY <1>a, <1>b, <1>c, <1>d, <1>17, <2>1 DEF Cover!RemovePicture, Cover!history,
       Cover!UploadAlone, Cover!At
  <2>5. Cover!CoverStands'
    BY <1>a, <1>b, <1>c, <1>d, <1>17, <2>1 DEF Cover!RemovePicture, Cover!history,
       Cover!CoverStands, Cover!UploadAlone, Cover!Exists, Cover!At
  <2>6. Cover!NoCoverTrue'
    <3>1. PICK n \in Cover!Images : s1' = [s1 EXCEPT ![n] = "nothing"]
      BY <1>d, <1>17 DEF Cover!RemovePicture
    <3>2. /\ s2' = s2 /\ s3' = s3 /\ s4' = s4 /\ s6' = s6 /\ s7' = s7 /\ s11' = s11 /\ ~ s10 /\ s10'
          /\ \A v \in Sleeve : v \notin s9' => ~ Cover!At(v)
      BY <1>17 DEF Cover!RemovePicture
    <3>3. Cover!Shown' \subseteq Cover!Shown
      BY <1>a, <1>c, <1>e, <3>1, <3>2
    <3>4. ASSUME NEW m, Cover!LeadsTo(m) PROVE Cover!LeadsTo(m)'
      BY <1>d, <1>e, <3>2, <3>3, <3>4 DEF Cover!LeadsTo, Cover!Exists
    <3>5. Cover!LeadsTo(s3) => Cover!LeadsTo(s3)'
      BY <3>2, <3>4 DEF Cover!LeadsTo, Cover!Exists
    <3>6. Cover!LeadsTo(s6.cover) => Cover!LeadsTo(s6.cover)'
      BY <3>2, <3>4 DEF Cover!LeadsTo, Cover!Exists
    <3> QED
      BY <1>b, <1>h, <2>1, <3>2, <3>3, <3>5, <3>6 DEF Cover!NoCoverTrue, Cover!NoCoverAbout
  <2> QED
    BY <2>2, <2>3, <2>4, <2>5, <2>6 DEF Cover!CoverInv
<1> QED
  BY <1>1, <1>2, <1>3, <1>4, <1>5, <1>6, <1>7, <1>8, <1>9, <1>10, <1>11, <1>12, <1>13, <1>14,
     <1>15, <1>16, <1>17 DEF Cover!Next

(***************************************************************************)
(* Releases and drop zones: algorithms without state                       *)
(***************************************************************************)

\* split_release_parts, by folders, by prefixes or not at all, gives every file to
\* one part.
LEMMA PartsShareOut ==
  ASSUME NEW files
  PROVE  LET parts == Layout!SplitReleaseParts(files)
         IN  /\ UNION {p.files : p \in parts} = files
             /\ \A p, q \in parts : p # q => p.files \cap q.files = {} /\ p.name # q.name
<1> DEFINE parts == Layout!SplitReleaseParts(files)
           folders == Layout!FoldersOf(files)
           byFolder == {[name |-> d, files |-> {f \in files : f.folder = d}] : d \in folders}
           groups == {Layout!PrefixOf(f) : f \in files}
           byPrefix == {[name |-> g, files |-> {f \in files : Layout!PrefixOf(f) = g}] : g \in groups}
           Shared(ps) == /\ UNION {p.files : p \in ps} = files
                         /\ \A p, q \in ps : p # q => p.files \cap q.files = {} /\ p.name # q.name
<1>1. parts \in {byFolder, byPrefix, Layout!SinglePart(files)}
  BY DEF Layout!SplitReleaseParts, Layout!SplitBySubfolder, Layout!SplitByPrefix
<1>2. Shared(byFolder)
  <2>1. \A f \in files : f.folder \in folders
    BY DEF Layout!FoldersOf
  <2>2. \A p \in byFolder : p.files = {f \in files : f.folder = p.name}
    OBVIOUS
  <2>3. \A d \in folders : [name |-> d, files |-> {f \in files : f.folder = d}] \in byFolder
    OBVIOUS
  <2>4. \A p, q \in byFolder : p.name = q.name => p = q
    OBVIOUS
  <2>5. \A f \in files : \E p \in byFolder : f \in p.files
    BY <2>1, <2>3
  <2> HIDE DEF byFolder, folders
  <2> QED
    BY <2>2, <2>4, <2>5
<1>3. Shared(byPrefix)
  <2>1. \A f \in files : Layout!PrefixOf(f) \in groups
    OBVIOUS
  <2>2. \A p \in byPrefix : p.files = {f \in files : Layout!PrefixOf(f) = p.name}
    OBVIOUS
  <2>3. \A g \in groups : [name |-> g, files |-> {f \in files : Layout!PrefixOf(f) = g}] \in byPrefix
    OBVIOUS
  <2>4. \A p, q \in byPrefix : p.name = q.name => p = q
    OBVIOUS
  <2>5. \A f \in files : \E p \in byPrefix : f \in p.files
    BY <2>1, <2>3
  <2> HIDE DEF byPrefix, groups
  <2> QED
    BY <2>2, <2>4, <2>5
<1>4. Shared(Layout!SinglePart(files))
  BY DEF Layout!SinglePart
<1> QED
  BY <1>1, <1>2, <1>3, <1>4

\* A release the import tree shows as one multi-disc album is not split.
LEMMA SplitKeepsAlbums == ASSUME NEW files PROVE Layout!SplitKeepsAlbums(files)
<1> DEFINE folders == Layout!FoldersOf(files) \ {Layout!Root}
           flat == \E f \in files : f.folder = Layout!Root
<1>1. ASSUME Layout!IsAlbum(Layout!Root, {Layout!Root}, folders, flat), folders # {}
      PROVE  Layout!SplitReleaseParts(files) = Layout!SinglePart(files)
  <2>1. \E d \in Layout!FoldersOf(files) : d.disc > 0
    BY <1>1 DEF Layout!IsAlbum, Layout!MultiDiscFolders
  <2>2. Layout!SplitBySubfolder(files) = {}
    BY <2>1 DEF Layout!SplitBySubfolder
  <2>3. \E f \in files : f.folder # Layout!Root
    BY <1>1 DEF Layout!FoldersOf
  <2>4. Layout!SplitByPrefix(files) = {}
    BY <2>3 DEF Layout!SplitByPrefix
  <2> QED
    BY <2>2, <2>4 DEF Layout!SplitReleaseParts
<1> QED
  BY <1>1, PartsShareOut DEF Layout!SplitKeepsAlbums

\* Parts that share a title get their names as suffixes, and these differ.
LEMMA PartsStayApart == ASSUME NEW files, NEW title PROVE Layout!PartsStayApart(files, title)
<1> DEFINE parts == Layout!SplitReleaseParts(files)
           titles == [p \in parts |-> [text |-> title[p.name], suffix |-> {}]]
           after == Layout!Disambiguate(titles)
           shares(p) == \E q \in parts \ {p} : titles[q] = titles[p]
<1>1. \A p \in parts : /\ shares(p) => after[p].suffix = {p.name}
                       /\ ~ shares(p) => after[p] = titles[p] /\ after[p].suffix = {}
  <2>1. DOMAIN titles = parts /\ \A p \in parts : titles[p] = [text |-> title[p.name], suffix |-> {}]
    OBVIOUS
  <2>2. \A p \in parts : after[p] = IF shares(p) THEN [titles[p] EXCEPT !.suffix = @ \cup {p.name}] ELSE titles[p]
    BY <2>1 DEF Layout!Disambiguate
  <2>3. ASSUME NEW p \in parts, shares(p) PROVE after[p].suffix = {p.name}
    <3> DEFINE x == title[p.name]
               y == p.name
    <3>1. [[text |-> x, suffix |-> {}] EXCEPT !.suffix = @ \cup {y}] = [text |-> x, suffix |-> {y}]
      BY ONLY TRUE
    <3>2. after[p] = [titles[p] EXCEPT !.suffix = @ \cup {y}] /\ titles[p] = [text |-> x, suffix |-> {}]
      BY <2>1, <2>2, <2>3
    <3>3. after[p] = [text |-> x, suffix |-> {y}]
      BY ONLY <3>1, <3>2
    <3>4. [text |-> x, suffix |-> {y}].suffix = {y}
      BY ONLY TRUE
    <3> HIDE DEF after
    <3> QED
      BY <3>3, <3>4
  <2>4. \A p \in parts : titles[p].suffix = {}
    BY <2>1
  <2> QED
    BY <2>2, <2>3, <2>4
<1>2. \A p, q \in parts : p # q => p.name # q.name
  BY PartsShareOut
<1> HIDE DEF titles, after, parts
<1>3. \A p, q \in parts : p # q => after[p] # after[q]
  BY <1>1, <1>2
<1> QED
  BY <1>3 DEF Layout!PartsStayApart, titles, after, parts

\* The files of a folder-per-disc rip get destinations of their own: names differ
\* within a disc, and the disc is put in front as soon as there are two.
LEMMA DiscsKeptApart ==
  ASSUME NEW files, NEW tracks,
         \A f \in files : f = [folder |-> f.folder, name |-> f.name] /\ f.folder.disc \in Nat
  PROVE  Layout!DiscsKeptApart(files, tracks)
<1> DEFINE paired == Layout!PairTracks(tracks, files)
           plan == Layout!Destination(files, paired)
           discs == {Layout!InferDisc(f, paired) : f \in files} \ {0}
<1> SUFFICES ASSUME \A f \in files : f.folder.disc > 0,
                    \A f, g \in files : f.folder.disc = g.folder.disc => f.folder = g.folder,
                    \/ tracks = {}
                    \/ /\ {t.path : t \in tracks} = files
                       /\ \A t \in tracks : t.disc = t.path.folder.disc
             PROVE  ~ Layout!Refused(plan) /\ (tracks # {} => \A f \in files : paired[f].path = f)
  BY DEF Layout!DiscsKeptApart
<1>1. tracks # {} => \A f \in files : paired[f].path = f /\ paired[f].disc = f.folder.disc
  <2> SUFFICES ASSUME tracks # {}, NEW f \in files
               PROVE  paired[f].path = f /\ paired[f].disc = f.folder.disc
    OBVIOUS
  <2>1. PICK u \in tracks : u.path = f
    OBVIOUS
  <2>2. paired[f] = CHOOSE t \in {t \in tracks : t.path = f} : TRUE
    BY <2>1 DEF Layout!PairTracks
  <2>3. paired[f] \in {t \in tracks : t.path = f}
    BY <2>1, <2>2
  <2> QED
    BY <2>3
<1>2. tracks = {} => \A f \in files : paired[f].disc = 0
  BY DEF Layout!PairTracks, Layout!Unpaired
<1>3. \A f \in files : Layout!InferDisc(f, paired) = f.folder.disc
  <2>1. \A f \in files : f.folder # Layout!Root
    BY DEF Layout!Root
  <2> QED
    BY <1>1, <1>2, <2>1 DEF Layout!InferDisc, Layout!InferDiscNumber
<1>4. /\ DOMAIN plan = files
      /\ \A f \in files : plan[f] = [disc |-> IF \A d, e \in discs : d = e THEN 0 ELSE f.folder.disc,
                                     name |-> f.name]
  BY <1>3 DEF Layout!Destination
<1>5. \A f \in files : f.folder.disc \in discs
  BY <1>3
<1> HIDE DEF discs, plan, paired
<1>6. \A f, g \in files : plan[f] = plan[g] => f.folder.disc = g.folder.disc /\ f.name = g.name
  BY <1>4, <1>5
<1>7. ~ Layout!Refused(plan)
  BY <1>4, <1>6 DEF Layout!Refused
<1> QED
  BY <1>1, <1>7

\* The clean-up after an import, for every drop zone, albums, settings, set of files
\* that cannot be removed and failure of the database.
LEMMA CleanUpHarmlessAlways ==
  ASSUME NEW zone, NEW albums, NEW readable \in BOOLEAN, NEW global, NEW library, NEW stuck,
         NEW stored \in BOOLEAN, NEW Levels, NEW Entries,
         Levels \in Nat \ {0}, zone.others \in [1 .. Levels -> SUBSET Entries]
  PROVE  /\ Zone!ArtworkKept(zone, albums, Zone!ReadConfig(readable, global, library), stuck)
         /\ Zone!NothingElseLost(zone, albums, readable, global, library, stuck, stored)
<1> DEFINE config == Zone!ReadConfig(readable, global, library)
           result == Zone!CleanUp(zone, albums, config, stuck)
           listed == Zone!Listed(zone.files, config)
           sorted == (zone.files \ listed) \cup Zone!RemoveFiles(listed, stuck)
           images == Zone!HandleImages(Zone!Images(sorted), albums[1], config, stuck)
           files == (sorted \ Zone!Images(sorted)) \cup images.left
           below(kept) == [zone.others EXCEPT ![1] = @ \cup kept]
           covered == Zone!AlbumHasCover(albums[1])
\* Images go only when the album has a cover or one of them becomes it.
<1>1. /\ images.left \subseteq Zone!Images(sorted)
      /\ Zone!Images(sorted) # {} =>
           covered \/ images.promoted # {} \/ images.left = Zone!Images(sorted)
  <2> DEFINE pictures == Zone!Images(sorted)
  <2>1. /\ images.left \subseteq pictures
        /\ pictures # {} => covered \/ images.promoted # {} \/ images.left = pictures
    <3> DEFINE best == Zone!PickPromotable(pictures)
    <3>1. \/ images = [left |-> pictures, promoted |-> {}]
          \/ covered /\ images = [left |-> Zone!RemoveFiles(pictures, stuck), promoted |-> {}]
          \/ images = [left |-> Zone!RemoveFiles(pictures \ {best}, stuck), promoted |-> {best}]
      BY DEF Zone!HandleImages
    <3> HIDE DEF images, pictures, best, covered
    <3>2. CASE images = [left |-> pictures, promoted |-> {}]
      BY <3>2
    <3>3. CASE covered /\ images = [left |-> Zone!RemoveFiles(pictures, stuck), promoted |-> {}]
      BY <3>3 DEF Zone!RemoveFiles
    <3>4. CASE images = [left |-> Zone!RemoveFiles(pictures \ {best}, stuck), promoted |-> {best}]
      BY <3>4 DEF Zone!RemoveFiles
    <3> QED
      BY <3>1, <3>2, <3>3, <3>4
  <2> QED
    BY <2>1
<1>2. /\ Zone!Images(sorted) \subseteq sorted /\ sorted \subseteq zone.files
      /\ zone.files \ sorted \subseteq listed
      /\ Zone!Images(zone.files) \ listed \subseteq Zone!Images(sorted)
  BY DEF Zone!Images, Zone!RemoveFiles, Zone!Listed
<1>3. ASSUME NEW kept
      PROVE  \A level \in Zone!Pruned(below(kept)) :
               /\ zone.others[level] = {} /\ 1 \in Zone!Pruned(below(kept))
               /\ kept = {}
  <2> SUFFICES ASSUME NEW level \in Zone!Pruned(below(kept))
               PROVE  zone.others[level] = {} /\ 1 \in Zone!Pruned(below(kept)) /\ kept = {}
    OBVIOUS
  <2>1. DOMAIN below(kept) = 1 .. Levels
    OBVIOUS
  <2>2. level \in 1 .. Levels /\ \A l \in 1 .. level : below(kept)[l] = {}
    BY <2>1 DEF Zone!Pruned
  <2>3. 1 \in 1 .. level /\ level \in 1 .. level /\ 1 \in 1 .. Levels
    BY <2>2
  <2>4. below(kept)[1] = zone.others[1] \cup kept /\ below(kept)[1] = {}
    BY <2>2, <2>3
  <2>5. level # 1 => below(kept)[level] = zone.others[level]
    BY <2>2
  <2>6. zone.others[level] = {}
    BY <2>2, <2>3, <2>4, <2>5
  <2>7. \A l \in 1 .. 1 : l = 1
    OBVIOUS
  <2> HIDE DEF below
  <2>8. 1 \in Zone!Pruned(below(kept))
    BY <2>1, <2>3, <2>4, <2>7 DEF Zone!Pruned
  <2> QED
    BY <2>4, <2>6, <2>8
\* What each kind of clean-up leaves.
<1>4. CASE ~config.enabled
  <2>1. result = Zone!PruneOnly(zone)
    BY <1>4 DEF Zone!CleanUp
  <2>2. /\ result.files = zone.files /\ result.promoted = {}
        /\ result.pruned \subseteq Zone!Pruned(below(zone.files))
        /\ result.pruned \in {{}, Zone!Pruned(below(zone.files)),
                              Zone!Pruned(below(zone.files)) \cap {1}}
    BY <2>1 DEF Zone!PruneOnly
  <2> HIDE DEF result, below, config
  <2>3. /\ \A level \in result.pruned : zone.others[level] = {}
        /\ 1 \in result.pruned => result.files = {}
        /\ result.pruned # {} => 1 \in result.pruned
    BY <1>3, <2>2
  <2>4. /\ result.files \subseteq zone.files /\ zone.files \ result.files = {}
    BY <2>2
  <2>5. Zone!ArtworkKept(zone, albums, config, stuck)
    BY <1>4, <2>2 DEF Zone!ArtworkKept, result
  <2>6. Zone!NothingElseLost(zone, albums, readable, global, library, stuck, stored)
    BY <2>3, <2>4 DEF Zone!NothingElseLost, result, config
  <2> QED
    BY <2>5, <2>6 DEF config
<1>5. CASE config.enabled
  <2>1. ~readable => ~config.enabled
    BY DEF Zone!ReadConfig, Zone!DefaultConfig
  <2>2. readable /\ "enabled" \in DOMAIN library => config.enabled = library.enabled
    <3>1. readable => config = [key \in DOMAIN Zone!OverlayConfig(Zone!DefaultConfig, global) |->
                                  IF key \in DOMAIN library THEN library[key]
                                  ELSE Zone!OverlayConfig(Zone!DefaultConfig, global)[key]]
      BY DEF Zone!ReadConfig, Zone!ResolveConfig, Zone!OverlayConfig
    <3>2. "enabled" \in DOMAIN Zone!OverlayConfig(Zone!DefaultConfig, global)
      BY DEF Zone!OverlayConfig, Zone!DefaultConfig
    <3> QED
      BY <3>1, <3>2
  <2>3. /\ readable
        /\ ~ ("enabled" \in DOMAIN library /\ ~ library.enabled)
    BY <1>5, <2>1, <2>2
  <2> DEFINE inside == zone.place = "inside"
  <2>4. /\ inside => /\ result.files = files /\ result.promoted = images.promoted
                     /\ result.pruned = Zone!Pruned(below(files))
        /\ ~ inside => /\ result.files = zone.files /\ result.promoted = {}
                       /\ result.pruned = {}
    <3> HIDE DEF config
    <3> QED
      BY <1>5 DEF Zone!CleanUp, Zone!CleanUpInside
  <2> HIDE DEF result, below, images, sorted, listed, config, covered
  <2>5. files \subseteq sorted /\ sorted \ files \subseteq Zone!Images(sorted) \ images.left
    BY <1>1, <1>2
  <2>6. Zone!Images(sorted) \subseteq Zone!Images(zone.files)
    BY <1>2 DEF Zone!Images
  <2>7. images.left \subseteq Zone!Images(files)
    BY <1>1 DEF Zone!Images
  <2> HIDE DEF files, inside
  <2>8. /\ result.files \subseteq zone.files
        /\ zone.files \ result.files \subseteq Zone!Images(zone.files) \cup listed
    BY <1>2, <2>4, <2>5, <2>6
  <2>9. /\ \A level \in result.pruned : zone.others[level] = {}
        /\ 1 \in result.pruned => result.files = {}
        /\ result.pruned # {} => 1 \in result.pruned
    BY <1>3, <2>4
  <2>10. Zone!Images(zone.files) \ listed # {} \/ covered =>
           covered \/ result.promoted # {} \/ Zone!Images(result.files) # {}
    <3>1. SUFFICES ASSUME Zone!Images(zone.files) \ listed # {}, ~ covered, result.promoted = {}
                   PROVE  Zone!Images(result.files) # {}
      OBVIOUS
    <3>2. ~ inside => Zone!Images(result.files) # {}
      BY <2>4, <3>1
    <3>3. inside => images.left = Zone!Images(sorted) /\ Zone!Images(sorted) # {}
      BY <1>1, <1>2, <2>4, <3>1
    <3> QED
      BY <2>4, <2>7, <3>2, <3>3
  <2>11. Zone!ArtworkKept(zone, albums, config, stuck)
    BY <1>5, <2>10 DEF Zone!ArtworkKept, result, listed, covered
  <2>12. stored => zone.files \ result.files \subseteq Zone!RowsDropped(zone, config, result, stored)
    BY <1>5 DEF Zone!RowsDropped
  <2>13. Zone!NothingElseLost(zone, albums, readable, global, library, stuck, stored)
    BY <2>3, <2>8, <2>9, <2>12 DEF Zone!NothingElseLost, result, config, listed
  <2> QED
    BY <2>11, <2>13 DEF config
<1> QED
  BY <1>4, <1>5

(***************************************************************************)
(* All parts together                                                      *)
(***************************************************************************)

\* The invariant of the part at work.
FilesInv ==
  /\ part = "move" => Move!MoveInv
  /\ part = "audio" => Audio!AudioInv
  /\ part = "import" => Import!ImportInv
  /\ part = "upload" => Uploading!UploadInv
  /\ part = "download" => Packing!DownloadInv
  /\ part = "provision" => Provision!ProvisionInv
  /\ part = "cover" => Cover!CoverInv
  /\ part = "layout" => s1 \in LayoutInputs
  /\ part = "zone" => s1 \in ZoneInputs
  /\ part \in {"layout", "zone"} => s2 \in BOOLEAN
  /\ part \in {"move", "audio", "import", "upload", "download", "provision", "cover", "layout", "zone"}

\* The invariant holds at first, whatever part is at work.
LEMMA FilesInitial == Init => FilesInv
  BY MoveInit, AudioInit, ImportInit, UploadInit, DownloadInit, ProvisionInit, CoverInit DEF Init,
     FilesInv

\* Every step keeps the invariant of the part that takes it.
LEMMA FilesStep == FilesInv /\ [Next]_<<part, s1, s2, From3>> => FilesInv'
<1> SUFFICES ASSUME FilesInv, [Next]_<<part, s1, s2, From3>> PROVE FilesInv'
  OBVIOUS
<1>1. CASE Next
  BY <1>1, MoveStep, AudioStep, ImportStep, UploadStep, DownloadStep, ProvisionStep, CoverStep
     DEF Next, Ask, FilesInv
<1>2. CASE UNCHANGED <<part, s1, s2, From3>>
  <2>1. /\ part' = part /\ s1' = s1 /\ s2' = s2 /\ s3' = s3 /\ s4' = s4 /\ s5' = s5
        /\ s6' = s6 /\ s7' = s7 /\ s8' = s8 /\ s9' = s9 /\ s10' = s10 /\ s11' = s11
    BY <1>2 DEF From3
  <2>2. Move!MoveInv => Move!MoveInv'
    BY <2>1 DEF Move!MoveInv, Move!TypeOK, Move!OneOwner, Move!Owner, Move!MovedByStep,
       Move!RowsOfOwner, Move!FolderByOwner, Move!MovedAway, Move!SharedLeftAlone
  <2>3. Audio!AudioInv => Audio!AudioInv'
    BY <2>1 DEF Audio!AudioInv, Audio!TypeOK, Audio!LockHeld, Audio!Active, Audio!AtHand,
       Audio!DuplicatesStay, Audio!Working, Audio!RowsLead, Audio!ListedAsWav
  <2>4. Import!ImportInv => Import!ImportInv'
    <3>1. Import!TypeOK' = Import!TypeOK /\ Import!EntryOwned' = Import!EntryOwned
      BY <2>1 DEF Import!TypeOK, Import!EntryOwned, Import!Importing, Import!Active
    <3>2. Import!CopiedIsShelved' = Import!CopiedIsShelved
      BY <2>1 DEF Import!CopiedIsShelved, Import!Shelved, Import!AtWork
    <3>3. Import!OnePartAtWork' = Import!OnePartAtWork
      <4>1. ASSUME NEW j PROVE Import!PartsInOrder(j)' = Import!PartsInOrder(j)
        BY <2>1 DEF Import!PartsInOrder, Import!PartFiles, Import!AtWork
      <4> QED
        BY <2>1, <4>1 DEF Import!OnePartAtWork
    <3>4. Import!RowsAccounted' = Import!RowsAccounted
      BY <2>1 DEF Import!RowsAccounted, Import!Replaced, Import!Candidate, Import!Known
    <3> QED
      BY <3>1, <3>2, <3>3, <3>4 DEF Import!ImportInv
  <2>5. Uploading!UploadInv => Uploading!UploadInv'
    BY <2>1 DEF Uploading!UploadInv, Uploading!UploadTypeOK, Uploading!TypeOK, Uploading!Admitted,
       Uploading!Count, Uploading!WritersKnown, Uploading!UpTo, Uploading!At,
       Uploading!ExistingKept, Uploading!PathsApart, Uploading!OwnFilesWhole, Uploading!Finished
  <2>6. Packing!DownloadInv => Packing!DownloadInv'
    BY <2>1 DEF Packing!DownloadInv, Packing!TypeOK, Packing!JobInv, Packing!Untouched,
       Packing!PathRecorded, Packing!AtWork, Packing!ArchiveWhole
  <2>7. Provision!ProvisionInv => Provision!ProvisionInv'
    BY <2>1 DEF Provision!ProvisionInv, Provision!TypeOK, Provision!Records, Provision!OneParty,
       Provision!Holding, Provision!Removing, Provision!At, Provision!RowTaken,
       Provision!RequestTaken, Provision!TakenOnDisk
  <2>8. Cover!CoverInv => Cover!CoverInv'
    BY <2>1 DEF Cover!CoverInv, Cover!TypeOK, Cover!CopyNamed, Cover!UploadAlone, Cover!CoverStands,
       Cover!NoCoverTrue, Cover!NoCoverAbout, Cover!LeadsTo, Cover!Shown, Cover!Images, Cover!Exists,
       Cover!Recognised, Cover!At
  <2> QED
    BY <2>1, <2>2, <2>3, <2>4, <2>5, <2>6, <2>7, <2>8 DEF FilesInv
<1> QED
  BY <1>1, <1>2

\* The invariant of the part at work holds in every state.
LEMMA FilesInvariant == Spec => []FilesInv
  BY FilesInitial, FilesStep, PTL DEF Spec

\* Moves and deletion: for any number of tasks and faults, once all is over a
\* database that has the album has its files, and without a deletion the album is
\* whole in one library, and in no other but for a half of the rollback that
\* failed; a fault after the last point of rollback, and a move into the folder of
\* another, are exempt.
THEOREM MovesCorrect == Spec => []MovesSafe
<1>1. FilesInv => MovesSafe
  <2> SUFFICES ASSUME Move!MoveInv PROVE Move!RowsHaveFiles /\ Move!AlbumInOneLibrary
    BY DEF FilesInv, MovesSafe
  <2>1. /\ s4 \subseteq Task
        /\ "rows" \notin s9 => \A t \in Task : t \in s4 /\ ~ s8 => Move!Owner(t)
    BY DEF Move!MoveInv, Move!TypeOK, Move!RowsOfOwner
  <2>2. Move!AtRest => \A t \in Task : Move!Owner(t) => s5[t].pc = "completed"
    BY DEF Move!AtRest, Move!Owner
  <2>3. Move!AtRest /\ ~ s8 /\ s3 => \A t \in Task : ~ Move!Owner(t)
    <3>1. s3 /\ ~ s8 => \A t \in Task : s5[t].pc # "completed"
      BY DEF Move!MoveInv, Move!FolderByOwner
    <3> QED
      BY <2>2, <3>1
  <2>4. Move!AtRest /\ ~ s8 /\ s3 =>
          /\ "folder" \notin s9 => s2["source"] = "full" /\ s2["target"] = "none"
          /\ "rows" \notin s9 => s4 = {}
    BY <2>1, <2>3 DEF Move!MoveInv, Move!FolderByOwner
  <2>5. ~ s8 /\ s4 # {} /\ "rows" \notin s9 => s2["target"] # "none"
    BY <2>1 DEF Move!MoveInv, Move!OneOwner
  <2>6. Move!RowsHaveFiles
    BY <2>4, <2>5 DEF Move!MoveInv, Move!SharedLeftAlone, Move!RowsHaveFiles
  <2>7. ASSUME Move!AtRest, ~ s8, s6.pc \in {"idle", "refused"}
        PROVE  /\ s2["source"] = "full" \/ s2["target"] = "full"
               /\ s9 = {} => IF s3 THEN s2["source"] = "full" /\ s2["target"] = "none" /\ s4 = {}
                             ELSE /\ s2["target"] = "full" /\ s2["source"] = "none"
                                  /\ \E t \in Task : s4 = {t}
    <3>1. CASE s3
      BY <2>4, <2>7, <3>1 DEF Move!MoveInv, Move!FolderByOwner
    <3>2. CASE ~ s3
      BY <2>7, <3>2 DEF Move!MoveInv, Move!MovedAway
    <3> QED
      BY <3>1, <3>2
  <2>8. Move!AlbumInOneLibrary
    BY <2>7 DEF Move!AlbumInOneLibrary
  <2> QED
    BY <2>6, <2>8
<1> QED
  BY <1>1, FilesInvariant, PTL

\* Audio operations: for any tracks, operations and faults no track loses its last
\* file and no row its file, and one operation works at a time while the lock lasts.
THEOREM TracksCorrect == Spec => []TracksKept
<1>1. FilesInv => TracksKept
  <2> SUFFICES ASSUME Audio!AudioInv PROVE Audio!AudioKept /\ Audio!ItemHasFile /\ Audio!OneOpAtATime
    BY DEF FilesInv, TracksKept
  <2>1. ~ (s7 /\ s8) => ~ s8
    BY DEF Audio!AudioInv, Audio!LockHeld
  <2>2. Audio!ItemHasFile
    BY <2>1 DEF Audio!AudioInv, Audio!RowsLead, Audio!ItemHasFile
  <2>3. Audio!AudioKept
    BY <2>1, <2>2 DEF Audio!AudioInv, Audio!DuplicatesStay, Audio!ItemHasFile, Audio!AudioKept,
       Audio!TypeOK
  <2>4. Audio!OneOpAtATime
    BY DEF Audio!AudioInv, Audio!LockHeld, Audio!Active, Audio!Working, Audio!OneOpAtATime
  <2> QED
    BY <2>2, <2>3, <2>4
<1> QED
  BY <1>1, FilesInvariant, PTL

\* Imports: for any requests, parts and faults no two run at once but for the races
\* named, a completed import has every part on the shelf that the library did not
\* have, and an earlier edition is forgotten only for a replacement.
THEOREM ImportsCorrect == Spec => []ImportsSafe
<1>1. FilesInv => ImportsSafe
  <2> SUFFICES ASSUME Import!ImportInv
               PROVE  Import!OneImportAtATime /\ Import!AlbumComplete /\ Import!ReplacedNotLost
    BY DEF FilesInv, ImportsSafe
  <2>1. Import!OneImportAtATime
    BY DEF Import!ImportInv, Import!EntryOwned, Import!Active, Import!OneImportAtATime,
       Import!BulkState
  <2>2. Import!AlbumComplete
    <3>1. \A t \in Song : t \in s2 \/ Import!Shelved(t)
      BY DEF Import!ImportInv, Import!CopiedIsShelved
    <3>2. ASSUME NEW j \in Job, s7[j].pc = "completed"
          PROVE  /\ Import!PartsIn(j, {"todo", "open"}) = {}
                 /\ Import!PartsIn(j, {"added", "silent"}) # {}
                 /\ \A t \in Song : (s7[j].asIs /\ s7[j].part[s10[t]] = "skipped") \/ Import!Shelved(t)
                 /\ s1 = "copy" => \A t \in Song, a \in Import!PartsIn(j, {"added", "silent"}) :
                                    (s7[j].asIs => s10[t] = a) => s3[a][t] = "new"
                 /\ \A a \in Import!PartsIn(j, {"added"}) : j \in s4[a] \/ Import!Replaced(j, a)
                 /\ \A a \in Import!PartsIn(j, {"skipped"}) : Import!Known(a)
      <4>1. Import!PartsInOrder(j) /\ Import!AtWork(j)
        BY <3>2 DEF Import!ImportInv, Import!OnePartAtWork, Import!AtWork
      <4>2. s7 \in [Job -> Import!JobRecord] /\ s10 \in [Song -> Song]
        BY DEF Import!ImportInv, Import!TypeOK
      <4>3. s7[j].part \in [Song -> Import!PartState] /\ s7[j].todo \in SUBSET Song
        BY ONLY <4>2, j \in Job DEF Import!JobRecord
      <4>4. /\ \A a \in Song : s7[j].part[a] \notin {"todo", "open"}
            /\ \E a \in Song : s7[j].part[a] \in {"added", "silent"}
        BY <3>2, <4>1 DEF Import!PartsInOrder
      <4>5. Import!PartsIn(j, {"todo", "open"}) = {} /\ Import!PartsIn(j, {"added", "silent"}) # {}
        BY <4>4 DEF Import!PartsIn
      <4>6. \A t \in s7[j].todo : s7[j].asIs /\ s7[j].part[s10[t]] = "skipped"
        <5> SUFFICES ASSUME NEW t \in s7[j].todo
                     PROVE  s7[j].asIs /\ s7[j].part[s10[t]] = "skipped"
          OBVIOUS
        <5>1. s7[j].asIs
          BY <4>1, <4>4 DEF Import!PartsInOrder
        <5>2. s10[t] \in Song /\ s7[j].part[s10[t]] # "none"
          BY <4>1, <4>2, <4>3, <5>1 DEF Import!PartsInOrder
        <5>3. s7[j].part[s10[t]] \notin {"added", "silent"}
          BY <4>1, <5>2 DEF Import!PartsInOrder
        <5> QED
          BY <4>3, <4>4, <5>1, <5>2, <5>3 DEF Import!PartState
      <4>7. \A t \in Song \ s7[j].todo :
              /\ Import!Shelved(t)
              /\ s1 = "copy" => \A a \in Song :
                   s7[j].part[a] # "none" /\ (s7[j].asIs => s10[t] = a) => s3[a][t] = "new"
        BY <4>1 DEF Import!ImportInv, Import!CopiedIsShelved
      <4>8. ASSUME s1 = "copy", NEW t \in Song, NEW a \in Import!PartsIn(j, {"added", "silent"}),
                   s7[j].asIs => s10[t] = a
            PROVE  s3[a][t] = "new"
        <5>1. a \in Song /\ s7[j].part[a] \in {"added", "silent"}
          BY <4>8 DEF Import!PartsIn
        <5>2. t \notin s7[j].todo
          BY <4>6, <4>8, <5>1
        <5> QED
          BY <4>7, <4>8, <5>1, <5>2
      <4>9. \A a \in Song : s7[j].part[a] = "added" => j \in s4[a] \/ Import!Replaced(j, a)
        BY DEF Import!ImportInv, Import!RowsAccounted
      <4>10. \A a \in Import!PartsIn(j, {"added"}) : j \in s4[a] \/ Import!Replaced(j, a)
        BY <4>9, Zenon DEF Import!PartsIn
      <4>11. \A a \in Song : s7[j].part[a] = "skipped" => Import!Known(a)
        BY DEF Import!ImportInv, Import!RowsAccounted
      <4>12. \A a \in Import!PartsIn(j, {"skipped"}) : Import!Known(a)
        BY <4>11 DEF Import!PartsIn
      <4> QED
        BY <4>5, <4>6, <4>7, <4>8, <4>10, <4>12
    <3> QED
      BY <3>1, <3>2 DEF Import!AlbumComplete
  <2>3. Import!ReplacedNotLost
    <3>1. ASSUME NEW a \in Song, Old \notin s4[a], NEW t \in Song, s3[a][t] = "old"
          PROVE  \E j \in Job : Import!Candidate(j, a) /\ s7[j].replace /\ Old \in s7[j].removed
      BY <3>1 DEF Import!ImportInv, Import!RowsAccounted
    <3>2. ASSUME NEW a \in Song, s4[a] = {}, NEW t \in Song, s3[a][t] # "none"
          PROVE  \E j \in Job : /\ s7[j].part[a] \in {"todo", "open", "silent"}
                                /\ s7[j].pc # "completed" \/ s7[j].part[a] = "silent"
      <4>1. PICK j \in Job : s7[j].part[a] \in {"todo", "open", "silent"}
        BY <3>2 DEF Import!ImportInv, Import!RowsAccounted
      <4>2. s7[j].pc = "completed" => s7[j].part[a] \notin {"todo", "open"}
        BY DEF Import!ImportInv, Import!OnePartAtWork, Import!PartsInOrder
      <4> QED
        BY <4>1, <4>2
    <3> QED
      BY <3>1, <3>2 DEF Import!ReplacedNotLost
  <2> QED
    BY <2>1, <2>2, <2>3
<1> QED
  BY <1>1, FilesInvariant, PTL

\* upload_files: for any requests, paths and faults an upload that shares no path
\* is all or nothing, but for the files its clean-up fails to remove, and no file
\* that lay there before is changed.
THEOREM UploadsCorrect == Spec => []UploadAllOrNothing
<1>1. FilesInv => UploadAllOrNothing
  <2> SUFFICES ASSUME Uploading!UploadInv PROVE Uploading!UploadAllOrNothing
    BY DEF FilesInv, UploadAllOrNothing
  <2>1. \A p \in Taken : s1[p] = Uploading!Before
    BY DEF Uploading!UploadInv, Uploading!ExistingKept
  <2>2. ASSUME NEW u \in Post \ s3, s2[u].pc = "ok", NEW p \in Uploading!Destinations(s2[u].paths)
        PROVE  s1[p].by = {u} /\ s1[p].whole
    <3>1. PICK n \in 1 .. Uploading!Count(u) : p = s2[u].paths[n]
      BY <2>2 DEF Uploading!Destinations, Uploading!Count
    <3> QED
      BY <2>2, <3>1 DEF Uploading!UploadInv, Uploading!OwnFilesWhole, Uploading!Finished
  <2>3. ASSUME NEW u \in Post \ s3, s2[u].pc = "failed", NEW p \in Path, u \in s1[p].by
        PROVE  p = Uploading!At(u) \/ <<u, p>> \in s4
    BY <2>3 DEF Uploading!UploadInv, Uploading!OwnFilesWhole
  <2>4. ASSUME NEW u \in Post \ s3, s2[u].pc \in {"invalid", "conflict"}, NEW p \in Path, u \in s1[p].by
        PROVE  FALSE
    BY <2>4 DEF Uploading!UploadInv, Uploading!WritersKnown, Uploading!Admitted
  <2> QED
    BY <2>1, <2>2, <2>3, <2>4 DEF Uploading!UploadAllOrNothing
<1> QED
  BY <1>1, FilesInvariant, PTL

\* Download Center: for any jobs and faults a completed job can be fetched whole
\* until its deletion begins, and an archive on disk has a row that leads to it,
\* but for jobs deleted before their archive was opened and archives that could
\* not be removed.
THEOREM DownloadsCorrect == Spec => []DownloadsTracked
<1>1. FilesInv => DownloadsTracked
  <2> SUFFICES ASSUME Packing!DownloadInv, NEW d \in Download
               PROVE  /\ s1[d].status = "completed" /\ d \notin s9 => Packing!Fetch(d) = 200
                      /\ Packing!Fetch(d) = 200 => s2[d] = "whole"
                      /\ s2[d] # "none" /\ d \notin s6 \cup s10 => s1[d].path
    BY DEF FilesInv, DownloadsTracked, Packing!DownloadsTracked
  <2>1. /\ s1[d].status \in {"none", "pending", "packing", "completed", "failed"}
        /\ s2[d] \in {"none", "partial", "whole"} /\ Packing!JobInv(d)
    BY DEF Packing!DownloadInv, Packing!TypeOK
  <2>2. /\ s1[d].status # "completed" => Packing!Fetch(d) \in {404, 409}
        /\ s1[d].status = "completed" => Packing!Fetch(d) = IF s2[d] = "none" THEN 410 ELSE 200
    BY <2>1 DEF Packing!Fetch
  <2> QED
    BY <2>1, <2>2 DEF Packing!JobInv, Packing!PathRecorded, Packing!ArchiveWhole
<1> QED
  BY <1>1, FilesInvariant, PTL

\* Libraries: for any requests, names, slugs and faults every library has its
\* config and its folders, and to itself, at a slug nobody spoiled.
THEOREM LibrariesCorrect == Spec => []FilesKept
<1>1. FilesInv => FilesKept
  <2> SUFFICES ASSUME Provision!ProvisionInv PROVE Provision!FilesKept
    BY DEF FilesInv, FilesKept
  <2>1. \A row \in s1 : row.at \notin s7 => Provision!RowTaken(row)
    BY DEF Provision!ProvisionInv, Provision!TakenOnDisk
  <2>2. \A row, other \in s1 : row.at = other.at /\ row.at \notin s7 => other = row
    BY DEF Provision!ProvisionInv, Provision!OneParty
  <2> QED
    BY <2>1, <2>2 DEF Provision!FilesKept, Provision!RowTaken, Provision!Kind
<1> QED
  BY <1>1, FilesInvariant, PTL

\* Covers: for any uploads, one after the other or several at once, the picture
\* answered last is what get_album_cover serves until it is replaced or removed or
\* a writer that overlapped disturbs it, and a cover in the folder is found, but
\* for the cases the module names.
THEOREM CoversCorrect == Spec => []CoverServed
<1>1. FilesInv => CoverServed
  <2> SUFFICES ASSUME Cover!CoverInv PROVE Cover!CoverServed
    BY DEF FilesInv, CoverServed
  <2>1. s8 # Cover!Nothing => Cover!Served = {s8}
    BY DEF Cover!CoverInv, Cover!CoverStands, Cover!Served
  <2>2. ASSUME Cover!Shown # {}, ~ s11, \A u \in Sleeve : ~ Cover!At(u), s6.pc = "idle"
        PROVE  Cover!Nothing \notin Cover!Served
    <3>1. CASE Cover!Exists(s3)
      BY <3>1 DEF Cover!Served, Cover!Exists
    <3>2. CASE ~ Cover!Exists(s3) /\ Cover!Exists(s4)
      BY <3>2 DEF Cover!Served, Cover!Exists
    <3>3. CASE ~ Cover!Exists(s3) /\ ~ Cover!Exists(s4)
      <4>1. s4 # Cover!NoCover
        BY <2>2, <3>3 DEF Cover!CoverInv, Cover!NoCoverTrue, Cover!NoCoverAbout, Cover!LeadsTo
      <4>2. \A n \in Cover!Shown : s1[n] # Cover!Nothing
        BY DEF Cover!Shown, Cover!Images, Cover!Exists
      <4> QED
        BY <2>2, <3>3, <4>1, <4>2 DEF Cover!Served
    <3> QED
      BY <3>1, <3>2, <3>3
  <2> QED
    BY <2>1, <2>2 DEF Cover!CoverServed
<1> QED
  BY <1>1, FilesInvariant, PTL

\* Every component keeps the types of its variables.
THEOREM TypesCorrect == Spec => []TypeOK
<1>1. FilesInv => TypeOK
  <2> SUFFICES ASSUME FilesInv PROVE TypeOK
    OBVIOUS
  <2>1. part = "provision" => Provision!TypeOK
    BY DEF FilesInv, Provision!ProvisionInv
  <2>2. part = "cover" => Cover!TypeOK
    BY DEF FilesInv, Cover!CoverInv
  <2>3. part = "move" => Move!TypeOK
    BY DEF FilesInv, Move!MoveInv
  <2>4. part = "audio" => Audio!TypeOK
    BY DEF FilesInv, Audio!AudioInv
  <2>5. part = "import" => Import!TypeOK
    BY DEF FilesInv, Import!ImportInv
  <2>6. part = "upload" => Uploading!TypeOK
    BY DEF FilesInv, Uploading!UploadInv, Uploading!UploadTypeOK
  <2>7. part = "download" => Packing!TypeOK
    BY DEF FilesInv, Packing!DownloadInv
  <2> QED
    BY <2>1, <2>2, <2>3, <2>4, <2>5, <2>6, <2>7 DEF FilesInv, TypeOK
<1> QED
  BY <1>1, FilesInvariant, PTL

\* Releases: the split, the titles and the destinations keep files apart.
THEOREM LayoutCorrect == Spec => []LayoutKeepsFilesApart
<1>1. FilesInv => LayoutKeepsFilesApart
  <2> SUFFICES ASSUME s1 \in LayoutInputs
               PROVE  /\ Layout!SplitKeepsAlbums(s1.files) /\ Layout!PartsStayApart(s1.files, Titles(s1))
                      /\ Layout!DiscsKeptApart(s1.files, IF s1.matched THEN Matched(s1.files) ELSE {})
    BY DEF FilesInv, LayoutKeepsFilesApart
  <2>1. \A f \in s1.files : f = [folder |-> f.folder, name |-> f.name] /\ f.folder.disc \in Nat
    <3>1. s1.files \in Releases
      BY DEF LayoutInputs
    <3>2. \A f \in (DiscFiles \cup FlatFiles) \cup BoxFiles :
            f = [folder |-> f.folder, name |-> f.name] /\ f.folder.disc \in Nat
      BY DEF DiscFiles, FlatFiles, BoxFiles, Layout!Root
    <3> QED
      BY <3>1, <3>2 DEF Releases
  <2> QED
    BY <2>1, SplitKeepsAlbums, PartsStayApart, DiscsKeptApart
<1> QED
  BY <1>1, FilesInvariant, PTL

\* The drop zone: no clean-up costs the album of a release its only artwork (listed
\* images aside), loses anything but images and listed files, prunes a folder that is
\* not empty, or deletes a file where it is turned off.
THEOREM CleanUpCorrect == Spec => []CleanUpHarmless
<1>1. FilesInv => CleanUpHarmless
  <2> DEFINE config == Zone!ReadConfig(s1.readable, s1.global, s1.library)
             harmless == /\ Zone!ArtworkKept(s1.zone, s1.albums, config, s1.stuck)
                         /\ Zone!NothingElseLost(s1.zone, s1.albums, s1.readable, s1.global,
                                                 s1.library, s1.stuck, s1.stored)
  <2>1. SUFFICES ASSUME s1 \in ZoneInputs
                 PROVE  harmless
    BY DEF FilesInv, CleanUpHarmless
  <2>2. /\ s1.zone.others \in [1 .. 2 -> SUBSET {[id |-> 8]}]
        /\ s1.readable \in BOOLEAN /\ s1.stored \in BOOLEAN
    BY <2>1 DEF ZoneInputs
  <2>3. 2 \in Nat \ {0}
    OBVIOUS
  <2>4. ASSUME NEW Levels, NEW Entries, Levels \in Nat \ {0},
               s1.zone.others \in [1 .. Levels -> SUBSET Entries],
               s1.readable \in BOOLEAN, s1.stored \in BOOLEAN
        PROVE  harmless
    BY ONLY CleanUpHarmlessAlways, <2>4
  <2> QED
    BY ONLY <2>2, <2>3, <2>4
<1> QED
  BY <1>1, FilesInvariant, PTL
=============================================================================
