---------------------------- MODULE AlbumImport ----------------------------
(***************************************************************************)
(* The import of one folder of the drop zone into the library: the route   *)
(* with its checks, the status in Redis, and the task that copies or moves *)
(* the files and writes the rows of beets.                                 *)
(*                                                                         *)
(* A candidate makes one album of the folder.  An import as it is makes an *)
(* album of every part of it, one after the other, and skips the parts the *)
(* library has.  The check for an existing album, the removal of the one   *)
(* to be replaced, the check for a running import and the creation of the  *)
(* job are separate steps; the task writes files one by one and undoes     *)
(* nothing.                                                                *)
(***************************************************************************)
EXTENDS Naturals

CONSTANTS
  Track,           \* audio files of the folder
  Title,           \* albums they can become: artist and title, and a destination folder
  Job,             \* POST /import requests, each with a job id of its own
  MaxImportFaults, \* bound on failures and dead processes
  NoJob, Old       \* absence of a job; the rows of an album imported earlier

VARIABLES
  mode,      \* import mode of the beets configuration
  inbox,     \* files in the folder of the drop zone
  shelf,     \* per title and track, the file in the destination folder
  rows,      \* per title, its rows in the beets database, by who wrote them
  current,   \* entry of the library's status hash for the folder: job, status
  done,      \* the folder is in the done hash (copy mode)
  job,       \* requests and their tasks
  importFaults,
  raced,     \* history: two requests were past the check for duplicates at once, or
             \* an ended import wrote over the entry of one under way
  title      \* the part of the release each file belongs to, by the title of the part

importVars == <<mode, inbox, shelf, rows, current, done, job, importFaults, raced, title>>

ImportModes == {"copy", "move"}

JobPc == {"idle", "replace", "duplicate", "create", "dispatch", "sent", "tags", "parts", "copy",
          "register", "record", "completed", "failed", "refused", "lost"}

Status == {"none", "pending", "in_progress", "completed", "failed"}

\* What an import makes of a title: nothing, an album to come or being written,
\* one the library has, one with its rows, one whose rows could not be written.
PartState == {"none", "todo", "open", "skipped", "added", "silent"}

\* asIs: no candidate; todo: files not yet copied; removed: rows it deleted
\* to replace them.
JobRecord == [pc : JobPc, asIs : BOOLEAN, replace : BOOLEAN, todo : SUBSET Track,
              part : [Title -> PartState], removed : SUBSET (Job \cup {Old})]

\* The library may have earlier editions of the albums, with all the tracks.
Init ==
  /\ mode \in ImportModes
  /\ title \in [Track -> Title]
  /\ inbox = Track
  /\ rows \in [Title -> {{}, {Old}}]
  /\ shelf = [a \in Title |-> [t \in Track |-> IF rows[a] = {} THEN "none" ELSE "old"]]
  /\ current = [job |-> NoJob, status |-> "none"]
  /\ done = FALSE
  /\ job = [j \in Job |-> [pc |-> "idle", asIs |-> FALSE, replace |-> FALSE, todo |-> {},
                           part |-> [a \in Title |-> "none"], removed |-> {}]]
  /\ importFaults = 0
  /\ raced = FALSE

files == <<mode, title, inbox, shelf>>

Fault == importFaults < MaxImportFaults /\ importFaults' = importFaults + 1

Goto(j, pc) == job' = [job EXCEPT ![j].pc = pc]

\* set_import_job_status: job hash, set of active jobs and status hash in one
\* pipeline; only the job hash of an ended job expires.
Active == current.status \in {"pending", "in_progress"}

SetStatus(j, status) ==
  /\ current' = [job |-> j, status |-> status]
  /\ raced' = (raced \/ (job[j].pc = "record" /\ Active /\ current.job # j)
                     \/ (job[j].pc = "create" /\ \E i \in Job \ {j} : job[i].pc = "create"))

\* validate_album_path: the folder is in the drop zone and has audio files.
AlbumPathValid == inbox # {}

\* find_existing_album: by MusicBrainz id, or by album artist and title.  An
\* error of the lookup counts as "not found", and parts whose tags all name one
\* album have their rows under that name, not the part's.
FindExisting(a) == {found \in BOOLEAN : found => rows[a] # {}}

Candidate(j, a) == ~ job[j].asIs /\ job[j].part[a] # "none"

---------------------------------------------------------------------------
(***************************************************************************)
(* POST /import                                                            *)
(***************************************************************************)

\* find_existing_album for the candidate, which an as-is import does not have:
\* 409 unless the album is to be replaced.
Lookup(j, asIs, replace) ==
  /\ job[j].pc = "idle" /\ AlbumPathValid
  /\ \E c \in Title : \E found \in FindExisting(c) :
       job' = [job EXCEPT ![j].pc = IF asIs \/ ~ found THEN "duplicate"
                                    ELSE IF replace THEN "replace" ELSE "refused",
                          ![j].asIs = asIs, ![j].replace = replace,
                          ![j].part = [a \in Title |-> IF asIs \/ a # c THEN "none" ELSE "todo"]]
  /\ UNCHANGED <<files, rows, current, done, importFaults, raced>>

\* The rows of one existing album are deleted before anything else is known.
Replace(j) ==
  /\ job[j].pc = "replace"
  /\ \E c \in Title : Candidate(j, c) /\ \E r \in (IF rows[c] = {} THEN {Old} ELSE rows[c]) :
       /\ rows' = [rows EXCEPT ![c] = @ \ {r}]
       /\ job' = [job EXCEPT ![j].pc = "duplicate", ![j].removed = {r} \cap rows[c]]
  /\ UNCHANGED <<files, current, done, importFaults, raced>>

\* Mutant: only a pending import counts as a duplicate.
CheckDuplicatePendingOnly(j) ==
  /\ job[j].pc = "duplicate"
  /\ Goto(j, IF current.status = "pending" THEN "refused" ELSE "create")
  /\ UNCHANGED <<files, rows, current, done, importFaults, raced>>

\* check_duplicate_import.
CheckDuplicate(j) ==
  /\ job[j].pc = "duplicate"
  /\ Goto(j, IF Active THEN "refused" ELSE "create")
  /\ UNCHANGED <<files, rows, current, done, importFaults, raced>>

Create(j) ==
  /\ job[j].pc = "create"
  /\ SetStatus(j, "pending")
  /\ Goto(j, "dispatch")
  /\ UNCHANGED <<files, rows, done, importFaults>>

Dispatch(j) ==
  /\ job[j].pc = "dispatch"
  /\ Goto(j, "sent")
  /\ UNCHANGED <<files, rows, current, done, importFaults, raced>>

---------------------------------------------------------------------------
(***************************************************************************)
(* import_album_task                                                       *)
(***************************************************************************)

\* in_progress, then the audio files of the folder and, as it is, its parts.
Begin(j) ==
  /\ job[j].pc = "sent"
  /\ SetStatus(j, "in_progress")
  /\ job' = [job EXCEPT ![j].pc = "tags", ![j].todo = inbox,
                        ![j].part = IF job[j].asIs
                                    THEN [a \in Title |-> IF \E t \in inbox : title[t] = a
                                                          THEN "todo" ELSE "none"]
                                    ELSE @]
  /\ UNCHANGED <<files, rows, done, importFaults>>

\* Tags are written for a candidate only.
WriteTags(j) ==
  /\ job[j].pc = "tags" /\ job[j].todo # {}
  /\ job[j].asIs \/ job[j].todo \subseteq inbox
  /\ Goto(j, "parts")
  /\ UNCHANGED <<files, rows, current, done, importFaults, raced>>

\* The loop over the parts: an import as it is looks each one up itself and
\* skips it when the library has it.
NextPart(j) ==
  /\ job[j].pc = "parts"
  /\ \E a \in Title : \E found \in FindExisting(a) :
       /\ job[j].part[a] = "todo"
       /\ IF job[j].asIs /\ found
            THEN job' = [job EXCEPT ![j].part[a] = "skipped"]
            ELSE job' = [job EXCEPT ![j].part[a] = "open", ![j].pc = "copy"]
  /\ UNCHANGED <<files, rows, current, done, importFaults, raced>>

\* The files of the part at work that are not copied yet.
PartFiles(j) == {t \in job[j].todo : job[j].asIs => job[j].part[title[t]] = "open"}

\* copy2 or move, over a file of the same name.
CopyFile(j) ==
  /\ job[j].pc = "copy"
  /\ \E a \in Title : job[j].part[a] = "open" /\ \E t \in PartFiles(j) \cap inbox :
       /\ shelf' = [shelf EXCEPT ![a][t] = "new"]
       /\ inbox' = IF mode = "move" THEN inbox \ {t} ELSE inbox
       /\ job' = [job EXCEPT ![j].todo = @ \ {t},
                             ![j].pc = IF PartFiles(j) = {t} THEN "register" ELSE "copy"]
  /\ UNCHANGED <<mode, title, rows, current, done, importFaults, raced>>

\* _record_import_failure: nothing is moved back.
RecordFailure(j) == SetStatus(j, "failed") /\ Goto(j, "failed")

PartsIn(j, states) == {a \in Title : job[j].part[a] \in states}

\* No files, one of them is gone, or the library has every part.
ImportRefused(j) ==
  /\ \/ job[j].pc = "tags" /\ (job[j].todo = {} \/ ~ (job[j].asIs \/ job[j].todo \subseteq inbox))
     \/ job[j].pc = "copy" /\ ~ PartFiles(j) \subseteq inbox
     \/ job[j].pc = "parts" /\ PartsIn(j, {"todo", "added", "silent"}) = {}
  /\ RecordFailure(j)
  /\ UNCHANGED <<files, rows, done, importFaults>>

\* _add_to_beets_library: an item for every audio file of the folder, and an
\* album.  An exception is logged and the import goes on.
Register(j) ==
  /\ job[j].pc = "register"
  /\ \E a \in Title : job[j].part[a] = "open" /\
       \/ /\ rows' = [rows EXCEPT ![a] = @ \cup {j}]
          /\ job' = [job EXCEPT ![j].pc = "parts", ![j].part[a] = "added"]
          /\ UNCHANGED importFaults
       \/ /\ Fault
          /\ job' = [job EXCEPT ![j].pc = "parts", ![j].part[a] = "silent"]
          /\ UNCHANGED rows
  /\ UNCHANGED <<files, current, done, raced>>

\* The loop is over and something was imported.
PartsDone(j) == /\ job[j].pc = "parts" /\ PartsIn(j, {"todo"}) = {}
                /\ PartsIn(j, {"added", "silent"}) # {}

\* Mutant: the status is the page's name for it.
ReportDone(j) ==
  /\ PartsDone(j)
  /\ SetStatus(j, "done")
  /\ done' = (done \/ mode = "copy")
  /\ Goto(j, "record")
  /\ UNCHANGED <<files, rows, importFaults>>

\* The clean-up of the drop zone (which swallows its errors), status
\* completed, though parts were skipped, and the done hash in copy mode.
Report(j) ==
  /\ PartsDone(j)
  /\ SetStatus(j, "completed")
  /\ done' = (done \/ mode = "copy")
  /\ Goto(j, "record")
  /\ UNCHANGED <<files, rows, importFaults>>

Record(j) ==
  /\ job[j].pc = "record"
  /\ Goto(j, "completed")
  /\ UNCHANGED <<files, rows, current, done, importFaults, raced>>

\* An exception anywhere in the task, even after the status was completed.
Fail(j) ==
  /\ job[j].pc \in {"tags", "parts", "copy", "register", "record"} /\ Fault
  /\ RecordFailure(j)
  /\ UNCHANGED <<files, rows, done>>

\* The message is not sent, or the process dies: the status is never changed
\* again.
Lose(j) ==
  /\ job[j].pc \in {"replace", "duplicate", "create", "dispatch", "tags", "parts", "copy",
                    "register", "record"}
  /\ Fault
  /\ Goto(j, "lost")
  /\ UNCHANGED <<files, rows, current, done, raced>>

\* The done hash lives 24 hours.
DoneExpires ==
  /\ done /\ done' = FALSE
  /\ UNCHANGED <<files, rows, current, job, importFaults, raced>>

---------------------------------------------------------------------------
JobStep(j) ==
  \/ Replace(j) \/ CheckDuplicate(j) \/ Create(j) \/ Dispatch(j) \/ Begin(j) \/ WriteTags(j)
  \/ NextPart(j) \/ CopyFile(j) \/ ImportRefused(j) \/ Register(j) \/ Report(j) \/ Record(j)

Next ==
  \/ \E j \in Job : \/ \E asIs, replace \in BOOLEAN : Lookup(j, asIs, replace)
                    \/ JobStep(j) \/ Fail(j) \/ Lose(j)
  \/ DoneExpires

Spec == Init /\ [][Next]_importVars

---------------------------------------------------------------------------
TypeOK ==
  /\ mode \in ImportModes /\ title \in [Track -> Title] /\ inbox \subseteq Track
  /\ shelf \in [Title -> [Track -> {"none", "old", "new"}]]
  /\ rows \in [Title -> SUBSET (Job \cup {Old})]
  /\ current \in [job : Job \cup {NoJob}, status : Status]
  /\ done \in BOOLEAN /\ raced \in BOOLEAN
  /\ job \in [Job -> JobRecord]
  /\ importFaults \in 0..MaxImportFaults

\* get_bulk_status: what the import page shows for the album.
BulkState == IF Active THEN current.status ELSE IF done THEN "done" ELSE "pending"

Importing(j) == job[j].pc \in {"dispatch", "sent", "tags", "parts", "copy", "register"}

\* POST /import, "409: Import already in progress for this album": two imports
\* of an album run at once only if both requests read the status before either
\* wrote it, or a late failure of an ended one wrote over it; and while one
\* runs, the page shows it.
OneImportAtATime ==
  ~ raced => /\ \A i, j \in Job : Importing(i) /\ Importing(j) => i = j
             /\ \A j \in Job : Importing(j) => BulkState \in {"pending", "in_progress"}

\* The rows j wrote for the title went for a later replacement.
Replaced(j, a) == \E i \in Job : Candidate(i, a) /\ j \in job[i].removed

Known(a) == rows[a] # {} \/ \E i \in Job : Candidate(i, a) /\ job[i].removed # {}

Shelved(t) == \E a \in Title : shelf[a][t] = "new"

\* A file is always in the drop zone or in the library.  An import that has
\* ended well imported something, and left nothing in the drop zone but the
\* parts it skipped, even if earlier attempts moved some of the files; in copy
\* mode each file lies under the title it was imported as.  The library knows
\* every album of it, and every part it skipped, unless the write of the rows
\* failed or a later request replaced them.
AlbumComplete ==
  /\ \A t \in Track : t \in inbox \/ Shelved(t)
  /\ \A j \in Job : job[j].pc = "completed" =>
       /\ PartsIn(j, {"todo", "open"}) = {} /\ PartsIn(j, {"added", "silent"}) # {}
       /\ \A t \in Track : (job[j].asIs /\ job[j].part[title[t]] = "skipped") \/ Shelved(t)
       /\ mode = "copy" => \A t \in Track, a \in PartsIn(j, {"added", "silent"}) :
                             (job[j].asIs => title[t] = a) => shelf[a][t] = "new"
       /\ \A a \in PartsIn(j, {"added"}) : j \in rows[a] \/ Replaced(j, a)
       /\ \A a \in PartsIn(j, {"skipped"}) : Known(a)

\* An edition the library had is forgotten only by a request that was to replace
\* it; and when files lie under a title the library has no album of, an import
\* of it is under way, was refused, failed or died, or its rows were not
\* written: one that may be refused for another import that failed, too.
ReplacedNotLost ==
  \A a \in Title :
    /\ Old \notin rows[a] /\ (\E t \in Track : shelf[a][t] = "old") =>
         \E j \in Job : Candidate(j, a) /\ job[j].replace /\ Old \in job[j].removed
    /\ rows[a] = {} /\ (\E t \in Track : shelf[a][t] # "none") =>
         \E j \in Job : /\ job[j].part[a] \in {"todo", "open", "silent"}
                        /\ job[j].pc # "completed" \/ job[j].part[a] = "silent"

---------------------------------------------------------------------------
(***************************************************************************)
(* Why it is safe: the status entry is the running import's own unless a   *)
(* race went before; the files a job still has to copy are the only ones   *)
(* that may be missing on the shelf, and they belong to parts it has still *)
(* to import or has skipped; rows go only with a request that remembers    *)
(* it, and whoever empties a title or copies under it has its own to write.*)
(***************************************************************************)

\* The entry of the status hash belongs to the running import, and no other
\* request is past the check for a running one.
EntryOwned ==
  ~ raced => \A j \in Job : Importing(j) => /\ Active /\ current.job = j
                                           /\ \A i \in Job : job[i].pc # "create"

AtWork(j) == job[j].pc \in {"tags", "parts", "copy", "register", "record", "completed"}

\* From the listing of its files on, what a job has not to copy is on the
\* shelf, whoever put it there; in copy mode the job did, each file in its place.
CopiedIsShelved ==
  /\ \A t \in Track : t \in inbox \/ Shelved(t)
  /\ mode = "copy" => inbox = Track
  /\ \A j \in Job : AtWork(j) => \A t \in Track \ job[j].todo :
       /\ Shelved(t)
       /\ mode = "copy" => \A a \in Title : /\ job[j].part[a] # "none"
                                            /\ job[j].asIs => title[t] = a
                                            => shelf[a][t] = "new"

\* A candidate has one title.  One part is at work at a time, and what is left
\* to copy belongs to it, to a part to come, or to a skipped one.
PartsInOrder(j) ==
  /\ job[j].pc = "idle" => \A a \in Title : job[j].part[a] = "none"
  /\ job[j].asIs /\ job[j].pc \in {"duplicate", "create", "dispatch", "sent"} =>
       \A a \in Title : job[j].part[a] = "none"
  /\ ~ job[j].asIs => /\ \A a, b \in Title :
                           job[j].part[a] # "none" /\ job[j].part[b] # "none" => a = b
                      /\ job[j].pc # "idle" => \E a \in Title : job[j].part[a] # "none"
                      /\ \A a \in Title : job[j].part[a] # "skipped"
  /\ job[j].pc \in {"idle", "replace", "duplicate", "create", "dispatch", "sent", "tags"} =>
       \A a \in Title : job[j].part[a] \in {"none", "todo"}
  /\ job[j].pc \in {"parts", "record", "completed"} =>
       \A a \in Title : job[j].part[a] # "open"
  /\ \A a, b \in Title : job[j].part[a] = "open" /\ job[j].part[b] = "open" => a = b
  /\ job[j].pc = "register" => PartFiles(j) = {}
  /\ AtWork(j) => \A t \in job[j].todo, a \in Title :
       job[j].part[a] \in {"added", "silent"} => job[j].asIs /\ title[t] # a
  /\ AtWork(j) /\ job[j].asIs => \A t \in job[j].todo : job[j].part[title[t]] # "none"
  /\ job[j].pc \in {"record", "completed"} =>
       /\ \A a \in Title : job[j].part[a] # "todo"
       /\ \E a \in Title : job[j].part[a] \in {"added", "silent"}

OnePartAtWork == \A j \in Job : PartsInOrder(j)

\* Rows go only with a request that replaces them and remembers it.
RowsAccounted ==
  /\ \A j \in Job :
       /\ job[j].pc \in {"idle", "replace"} => job[j].removed = {}
       /\ job[j].pc = "replace" \/ job[j].removed # {} => job[j].replace /\ ~ job[j].asIs
       /\ \A a \in Title : job[j].part[a] = "added" => j \in rows[a] \/ Replaced(j, a)
       /\ \A a \in Title : job[j].part[a] = "skipped" => Known(a)
  /\ \A a \in Title : \A t \in Track :
       /\ Old \notin rows[a] /\ shelf[a][t] = "old" =>
            \E j \in Job : Candidate(j, a) /\ Old \in job[j].removed
       /\ rows[a] = {} /\ shelf[a][t] # "none" =>
            \E j \in Job : job[j].part[a] \in {"todo", "open", "silent"}

ImportInv == TypeOK /\ EntryOwned /\ CopiedIsShelved /\ OnePartAtWork /\ RowsAccounted
=============================================================================
