# A verification project for beet-it

beet-it is a web application for managing several [beets](https://beets.io)
music libraries: it watches and scans import folders, analyses the album
folders it finds, imports them, and maintains the libraries that result.  This
directory holds TLA+ models of its backend, the TLC configurations that check them
on small instances, and TLAPS proofs of their safety results for every value of the
parameters.

All paths below are relative to `src/`; `redis_keys.py`, `maintenance.py` and so
on are files of `backend/app/`.

## 1. The system

Four kinds of processes share their state through Redis, PostgreSQL, one SQLite
database per beets library, and the file system:

* the **web process** (FastAPI, async handlers) answers the React frontend;
* **Celery workers** run tasks; a message is acknowledged when the task starts
  (Celery's default, `acks_late` is not set), so a task that dies is not run again;
* **Celery beat** sends periodic tasks: `check_watcher_health` every 60 s,
  `cleanup_stale` and `resume_stalled_bpm_backfills` every 900 s,
  `cleanup_expired_downloads` once a day;
* the **watcher** runs watchdog observers in threads.

There are hardly any transactions: most decisions read Redis keys one command
at a time and act with later commands, so the steps of different processes
interleave.  The only atomic compound step is one Lua script.

### Components

| Component | State | Operations | Hard behaviour | Correct when |
|---|---|---|---|---|
| **Analysis queue** `api/routes/beets_autotag.py`, `tasks/beets_tasks.py`, `redis_keys.py` | list `beets:queue`, hash `beets:active_analyses`, job status hashes, album-path cache | POST `/analyze`, `/analyze-folder`, auto-analyze after a scan, `analyze_album_task`, `drain_analysis_queue` | stale HLEN; a push after the last drain; failed dispatch; a killed worker; two job ids for one album | slots match work, the cap is overshot by a bounded number, the queue has a drainer, slots come free |
| **BPM backfill** `tasks/maintenance.py`, `api/maintenance.py` | status hash, cancel flag, failed set, attempts hash, link lock, operation-lock set, the `bpm` column | `bpm_backfill` (a chain of tasks), `resume_stalled_bpm_backfills`, start, cancel | duplicate links; a killed link; a guard that writes back what it read; retries across links | one link works, scans are blocked exactly then, counters bounded, a job ends, complete means complete |
| **Import scans** `api/routes/scan.py`, `tasks/scan_tasks.py` | scan progress, scan queue, operation locks, debounce key, import items | manual trigger, `trigger_scan`, `execute_scan`, `_process_scan_queue`, `_refresh_import_items` | check, then act; a queue processed by the end of a scan only; keys without time to live | a requested scan runs; progress is shown only while a scan runs; scans and blocking operations exclude each other |
| **Watcher** `services/watcher/` | an observer and a local debounce per pool process; state, heartbeat and debounce key in Redis | resume, start, stop, health check, change | threads; any process runs any task; keys that expire | a wanted watcher is started again |
| **Scanner** `services/scanner/` | none (walk of the file system) | scan, detect changes | I/O | changes are found |
| **Import** `api/routes/beets_autotag.py`, `tasks/beets_tasks.py` | job status, rows of the beets database, files | `start_import`, `import_album_task` | a check far from what it permits; replace before dispatch; nothing is undone | one import at a time, the album complete, nothing forgotten |
| **Move and deletion of an album** `tasks/beets_tasks.py`, `api/libraries.py` | rows in two databases, a folder | `move_album_task` and its rollback, `delete_album` | exceptions, soft time limit and crashes between the steps; a deletion meanwhile | the album is in exactly one library |
| **Audio operations** `tasks/beets_tasks.py`, `services/wav_flac_service.py` | a lock per album with a time to live, files, rows | convert WAV, clean duplicates, convert an imported album | expiry under the operation, deletion by whoever ends | no track loses its last file |
| **Drop-zone clean-up** `services/import_cleanup.py` | files of the import folder | clean-up after a move | removals and the promotion of a cover that fail | artwork survives, only empty folders go |
| **Layout of a release** `services/import_tree.py`, `release_parts.py`, planning in `tasks/beets_tasks.py` | none | disc detection, parts, pairing, destinations | boundary cases | one destination per file |
| **Activity monitor** `services/task_events.py` | rows, an index and progress hashes in Redis | start, progress, completion, clean-up | clean-up of a task that is alive | a finished task is not shown as failed |
| **Batch tags, rules, tag writers** `api/routes/batch_tag.py`, `services/transformations/`, `services/tag_writer/` | rows and files | plan, commit, write | rows first, files later; four formats | row and file agree, a preview is what happens |
| **Library item edits** `api/routes/library_items.py`, `tasks/beets_tasks.py` | one JSON status per job, files | write tags, `beets_update_albums` | resumed moves, both time limits | what is reported as moved has moved |
| **Covers** `services/cover_art.py`, `api/libraries.py` | pictures, `artpath`, a cache of 7 days | upload, download, backfill, read | three writers and a cache without coordination | an uploaded cover is served |
| **Libraries** `services/library_provisioning.py`, `api/libraries.py` | a row, a config, a database, two folders | create, adopt, rename, initialize, delete | undo by path | a library keeps its files |
| **Configuration, settings** `services/beets_config_service.py`, `api/routes/settings.py` | a YAML file; one JSON row | load, merge, save | lost updates | a change of one option costs no other |
| **Downloads, uploads** `tasks/download_tasks.py`, `api/routes/upload.py` | rows, archives; files | queue, pack, delete, expire; check, write, clean up | deletion under the task, check then act | what is offered is there; all or nothing |
| **Autotag and search** `services/beets_autotag_service.py`, `beets_search_service.py`, `candidate_resolvers.py` | the beets configuration of a process, under a lock; the cached answer | matching, provider searches, resolving, pairing of files with tracks, manual candidates | threads that outlive their analysis; partial failure; read-modify-write of the cache | an analysis works under its library's configuration, an added candidate stays, chapters are not scrambled |
| **Everything else** | listings, statistics, Emby, reports, the frontend | | I/O | |

### How they interact

A change of the import folder or a user starts a scan; the end of a scan starts
the next queued scan and, when enabled, analyses the album folders (the bulk
loop of the analysis queue).  A user imports an analysed album, which rescans
the folder (`_refresh_import_items`) without asking the scan scheduler.  The
BPM backfill writes the beets database of a library and puts `bpm_backfill` in
the operation-lock set, which the scan scheduler reads.  The frontend polls job
and progress keys.

`PROJECT.json` lists every component with its status, and under `hazards` every
place found in this code that a test would hardly reach, with the properties that
would catch it going wrong.

## 2. The plan

The order follows what can go wrong: first the protocols between processes, then
what moves files, then what the user is told.

| Module | Models | Checked by |
|---|---|---|
| `AnalysisQueue` | the analysis queue of one library | `queue_*` |
| `AnalysisService` | abstract: what that queue promises; implemented by it | `queue_races`, `queue_liveness` |
| `AnalysisQueue_proofs` | its safety and the refinement for every value of the constants | |
| `BpmBackfill`, `BpmBackfill_proofs`, `BpmProgress_proofs` | the BPM backfill of one library; exclusion of links and the operation lock for any jobs, the progress of the first job | `bpm_*` |
| `ScanScheduler`, `ScanScheduler_proofs` | triggers, scans, scan queue, debounce, operation locks; progress key and hand-over of the queue | `scan_*` |
| `ScanItems`, `ScanItems_proofs` | what scans write: rows, comparison with the scan before, the listing | `records`, `items_overlap` |
| `AlbumMove`, `AlbumImport`, `AudioOps`, `Covers`, `Uploads`, `Downloads`, `Provisioning` | what moves, converts, writes and removes files | `files` |
| `ReleaseLayout`, `DropZone` | the algorithms that decide about files | `files` |
| `AlbumFiles_proofs` | all of the last two rows, for every value of the constants | |
| `TaskEvents`, `AlbumSync`, `BatchTag`, `Settings`, `Watcher`, `LibraryConfig`, `CandidateCache` | what the user is told, or has set | `records` |
| `CandidateSearch` | how an analysis comes to its candidates: threads, configuration lock, partial answers | `records` |
| `TagRules`, `TagFiles`, `TrackPairing` | the algorithms that decide about tags, and about which file is which track | `records` |
| `Records_proofs`, `Algorithms_proofs` | the last three rows: the components for every value of the constants, the algorithms for every input | |

`MCAlbumFiles` and `MCRecords` are unions: a behaviour has one part at work, on
its own instance, so that one run covers components that share nothing but
their kind.

Where components meet.  `ScanScheduler` reads the operation lock that
`BpmBackfill` sets and ends with the bulk loop of `AnalysisQueue`: a set with one
possible member and a call, each an environment action on the other side.
`Watcher` and `ScanScheduler` share the debounce key.  `CandidateSearch` is what an
analysis of `AnalysisQueue` does inside, `TrackPairing` what each of its candidates is
paired by, and `CandidateCache` holds the answer it stores.  `AlbumMove` has the deletion of
the album beside its move, because they work on the same folder without a lock;
`Covers` has all three writers of a cover and the reader.  `DropZone` runs at the
end of an import in `move` mode.

Left, in this order: an abstract specification of the life of one BPM job (queued,
running, end), implemented by `BpmBackfill` with a single job; import and audio
conversion on one folder at once; the purge of an import folder while a scan runs.

## 3. The models and the code

The first four modules model one library: all Redis keys carry the library id, and the
libraries share nothing but worker children.  The others model one album, one
file or one document, except `Provisioning` and `Settings`, whose hazards are between libraries.  A step is one Redis command, one
database transaction, or one decision between two of them, so an interleaving
of processes can fall between any two commands of the code.  Messages are not
ordered and may wait in the broker for any time; a message is acknowledged when
its task starts, so a dead task is not run again.

### AnalysisQueue

| Variable | In the code |
|---|---|
| `queue` | list `beets:queue:{library}` (`redis_keys.py`) |
| `active`, `readable` | fields of `beets:active_analyses:{library}`, and those whose value `get_active_analysis_items` can parse back to an album path |
| `cache` | albums with a result under the album-path key |
| `job[j]` | the work under a job id (message, task, the job it has dequeued) and its status hash |
| `req[r]` | a request handler: the album it decides about and where it is |
| `late`, `faults` | history of a push after the last drain; faults so far |

`analyze_album`, `analyze_folder` and the bulk loop (also run by the
auto-analysis at the end of a scan) are the handler's actions, one per command:
the cache, the list, the hash, HLEN, the registration, the dispatch and its
failure path, the push.  `analyze_album_task` is the `Task...` actions: taking
the message, the result or the failure, storing the status, leaving the hash in
`finally`, and the drain (one Lua script, then the dispatch of the new job and
its failure path).  A killed worker (the hard limit `task_time_limit` of
`celery_app.py` kills one, too) is `TaskCrash`, a dead web process `HandlerCrash`.

### BpmBackfill

`hash`, `cancel`, `excluded`, `attempts`, `linkLock` and `ops` are the six Redis
keys of the job; `bpm` is the column of the beets database; `link[l]` is a
message or a running task with its local variables; `user[u]` a start or a cancel
request between its commands; `guard` the beat task with the copy of the hash it
has read.  A link goes through lock, state, cancel flag, item list, operation
lock, announcement, the pool of subprocesses (`Submit`, `Store`, `Account`,
`GiveUp`, `Report`), the decision of what comes after (`After`, `Requeue`,
`SendNext`, `Finalize`) and its `finally` (`ReleaseOps`, `ReleaseLink`).
Exceptions (`Abandon`, `Fail`), the soft time limit and crashes can come at any
of them.

Clocks are abstracted to the order their constants guarantee: a link ends before
its lock expires, and publishes before its heartbeat counts as stale.  The 24 h
time to live of the job's keys, the estimate of the duration, the activity event and
the error text are left out.  The subprocesses of a crashed link are taken as gone.

### ScanScheduler

`progress`, `queue`, `ops` and `debounce` are the four keys a decision reads
(for the set and the hash only whether they are there; the queue as a length,
since its entries differ in a label only).  `req[r]` is a manual request
(`ScanRequest`, `ReadProgress`, `ReadOps`, then `PushRequest` or `StartScan`) or
the rescan that an audio operation sends (`RefreshImportItems`).  `task[t]` is a
message, a `trigger_scan` (`CheckDebounce` to `SendScan`) or an `execute_scan`
(`Begin` to `Forward`), with `failed` for the exception handler, which clears the
progress and processes the queue a second time.  The module composes: the
operation lock is set and removed by the backfill (`BpmBackfill` proves when), and
the end of a scan calls the bulk loop of `AnalysisQueue`, which touches none of
this module's keys.  The watcher is `ChangeDetected`: it sets the debounce key, and
nothing follows, because `_on_scan_trigger` is stored (`watcher_service.py:225`)
and called nowhere.

### ScanItems

`ScanScheduler` shows that scans overlap; `ScanItems` models what they write.
`row` is the table `import_items` (one row per path, with the scan and the status
last written), `scan[s]` a task with its locals and its row of `import_scans`,
`disk` the import folder.  Sessions do not autoflush (`database.py:20`), so a scan
reads rows at `Load` and writes everything at `Commit`; an UPDATE sends the columns that
differ from what was read; an INSERT of a path that has a row by then, or an
UPDATE of a row that is gone, raises (`CommitConflict`), and so does the attempt
to mark the scan failed in the same, not rolled back session.  An import that
moved a file away deletes its row (`DropItem`).  The query of all paths is one
step; the loop of the code reads them one after another.

Two details the model follows and a reader should know.  The previous items
include rows the previous scan marked deleted, so a file that comes back is shown
as unchanged or modified, not as new.  And `detect_changes` compares `track_total`
(`scanner_service.py:554`) with a map that never contains it
(`scan_tasks.py:249-256`), so every audio file with a track total is "modified"
on each scan; the comparison of metadata is left open in the model, which
covers that.

### AnalysisService

What a client may rely on: albums wait in a list, jobs have slots, a slot works on one album, and
dead processes cost slots.  `AnalysisQueue` implements it under

| Service | In the queue |
|---|---|
| `waiting` | `queue` |
| `slots` | `active` |
| `working` | `AtWork`: the album of a job that has a slot and a task |
| `lost` | `Lost`: slots of dead processes |
| `Limit` | `Cap + Cardinality(Request)` |
| `MaxLosses` | `MaxFaults` |

so an album is taken from the list in the order it came and below the cap, and
the stale reads of the handlers can overshoot by one slot each and by no other
step.  `Accept`, `Take`, `Begin`, `HandOver`, `End` and `Lose` are the only visible
steps; the other commands of handlers and tasks are stutters.

### AlbumMove

`folder` says what each place holds of the album's folder: nothing, a part, all.
The places are the source and the target library, the import folder, and the folder's
name once more inside the target (`inner`), which is where `shutil.move` goes when the target
is there.  `srcRow` and `tgtRows` are the two databases.  A task reads the album
(`Check`), sees that the target is free (`SeeTargetFree`, a step of its own: another move may
create it before the next one), renames the folder, or copies and removes it when the
libraries are on two file systems (`oneDisk`), and goes on with the target rows, the album row, the
source rows and the pruning; `Raise` is an exception or the soft limit at any of them,
`Kill` the hard limit.  The handler is `RollbackRows` and `RollbackFolder`; the code logs a
failure of either and does the other, so either can fail (`RollbackFolderFails` may
leave a part of the folder in either place), and `stayed` remembers which one did.
`DeleteRequest` and its steps are `delete_album` in its three modes.
`late` remembers a fault at a point the rollback cannot undo (after the
source rows are gone, while the id of the target rows is unknown, within the copy or the
removal, a kill), and a move into a target created since the check; `MovesSafe` makes no claim
then, and `RowsHaveFiles` none about the files of a folder that a deletion
has partly removed at the target.

### AlbumImport

`job[j]` is a request and its task.  The request looks for an existing album,
removes it when it is to be replaced, checks the status for a running import, creates the
pending job and dispatches; the task writes tags, and then takes the parts of the folder one by
one: `NextPart` opens a part or, in an import as it is, skips one that the library has;
the files of the part at work are copied or moved one after another, and its rows written
(`Register`).  A part is a title; an import with a candidate has one, an import as it is one
for each title the tags name (`title`).  When all parts are done the task reports and records; it
refuses when every part was skipped, and completes when some were, with their files
still in the import folder.  The lookup of an album (`FindExisting`) may miss one that is
there, since an error counts as "not found".  `current` is the status hash of the album,
`done` the hash of finished imports that the page reads.  `raced` marks two requests between
check and creation, or the late failure of an ended import; `OneImportAtATime`
excepts it, `AlbumComplete` and `ReplacedNotLost` do not.

### AudioOps

The lock is acquired by the request and deleted by the task; `Expire` takes
it away when its time to live may run out before its operation has ended (600 s against 1800 s
before the import).  A conversion transcodes, updates the row of an imported item,
and removes the original or, if the update failed, the FLAC.  `unlinked` marks the
one loss: such a FLAC was made by another conversion under an expired lock.

### Uploads, Downloads

`Uploads` has requests that check all paths and write one after the other, with files open in
several hands.  `mingled` marks requests that shared a path.  The clean-up of a failing request
removes its earlier files one by one and swallows what the removal raises: `left` has the
files that stayed.  `Downloads` has the row, the archive, the pack and the removal in steps of their
own; an archive removed while it is open takes what is still written with it.  A deletion
removes the archive, then commits the row away; the periodic clean-up removes all that
has expired, then commits once for all their rows (`sweep`).  A removal that fails is logged
and the row goes all the same (`stuck`), a commit that fails leaves rows without
archives (`stripped`).  One run of the clean-up goes at a time: beat sends it once a day.

### Provisioning

Names are numbers and slugs too (`n`, then `n + 1`, `n + 2` for the numbered
variants), and one slug stands for the four paths derived from it.  A creation chooses
a slug against table and disk, makes folders, writes the config, verifies it,
commits; what fails is undone by path (`RemoveNext`).  `spoiled` marks slugs that
two requests chose together, that were adopted, or whose creation failed after the commit.

### Covers

`files` is what the album folder shows by name; the names stand for the cover in
two formats (`art.jpg`, `art.png`), a cover put there by others and a picture that is
no cover.  An upload writes, removes the variants, sets `artpath` and the
cache; the backfill reads the row, decides, promotes, and writes back later; a
reader remembers for seven days what it has found.  `standing` is the upload that was
answered last and that nobody overlapped.

### ReleaseLayout, DropZone

Algorithms without state, on sets of files; names are reduced to what the code
compares (a prefix and a disc number, a number and a part).  They are
evaluated for every input of the instance.  The clean-up takes as inputs its settings,
in three layers of which each may leave keys out, the list of extensions that the user
typed (any extension, those of images too: such a file is deleted before the images are
looked at), whether the settings could be read, which removals fail (`stuck`), whether
the database works (`stored`), where the release folder lies, and the albums it was imported
to, one for each part; only the first of these is looked at.

### TaskEvents

A task inserts its row, joins the index, publishes progress, reports, leaves the index
and removes its hash; the clean-up does its index, its query, its look at the
hashes and its commit in steps of their own.  `aged` and `silent` are the two
clocks (started, last heard of two hours ago); `overtaken` marks a task that ended
between the query and the look.

### AlbumSync

The request writes tags file by file and dispatches one job; for each name the task resolves an album
(one, of possibly two), runs `beet update`, looks for the cover, counts what is
pending, runs `beet move` with resumption, verifies, relocates the cover and
reports.  `counted` has the albums behind the counters `albums_succeeded` and `albums_failed`,
from which the status of the job is computed, `results` what is said of each album; a success is
counted before the cover is relocated and gets its result after that.  The soft time limit
strikes at any statement: between the two, the handler counts the album as failed as well.
Within the cover blocks `except Exception` swallows the limit.

### BatchTag, TagRules, TagFiles

`BatchTag` plans from the rows, commits all rows, then writes file by file; the
streaming variant yields after each, the JSON variant never does (`LoopFree`).
`TagRules` is the engine, with the table of a regular expression as input; a rule
compares with the unchanged item.  `TagFiles` gives what a track text becomes in a row and in each format,
and the alias keys of an album artist.

### Settings, LibraryConfig, CandidateCache

Three documents that are read, changed and written back as a whole.  `Settings` has
SQLAlchemy's comparison by value: a block changed inside the document that was
read is no change (`WrittenBack`, `Emitted`).  `lost` has the settings whose last
answered value was not stored, or was taken back; each step that stores a document says what
it loses.  `LibraryConfig` has five options that
stand for the kinds of option (with default, omitted when empty, taken as a
whole, merged by entry, unknown to the schema) and merges with the file read at the save; a
write that fails leaves any part of the text, or none (`WriteFails`).
`CandidateCache` has analyses and additions; `standing` are the additions nothing has
replaced.

### CandidateSearch, TrackPairing

An analysis runs the autotagger (`tag_album`, in a thread of its own, because of the
timeout) beside a search of the enabled providers, then resolves the best hits one
by one and merges.  Beets has one configuration in a process, so the autotagger, the
Spotify search and each resolve take `_beets_config_lock`, load the configuration of
their library and use it; a search that timed out is no longer waited for but goes on
and takes the lock when it gets it.  A timeout of the autotagger or of a resolve is no
step of its own: leaving `with ThreadPoolExecutor(...)` waits for the thread, so it is
an error that comes when the thread is done.  The analyses of a worker process follow
each other (prefork, one task at a time); requests that search in the API process are
not in the model.  Which hits are "best" is left open.

`TrackPairing` has no state.  `PairLocalTracks` is for the user's candidates,
`AssignItems` replaces beets' own function in an analysis.  Both put the files into playback
order and align their lengths by dynamic programming; costs are the code's times
`n * m`, because positions are relative.  The analysis takes a length of 0 for an unknown
one (`WithItemLengths`), the pairing of the user's candidates does not.  Beets' matcher, for
albums without order, is an input.

### Watcher

Each pool process has its own observer and local debounce, and any process may
run any task.  `wstate.active` in Redis is the memory that a watcher is wanted.  A health
check that finds a stale watcher stops it, which writes inactive (`CheckHealth`), and
starts it anew, which writes active (`RestartStale`); its process may die in between.

## 4. The runs

| Run | Instance | Shows |
|---|---|---|
| `queue_races` | 1 album, 2 handlers, 4 job ids, cap 1, 2 workers, 1 fault | `SlotsAccountedFor`: an entry of the hash is live work or a dead process, on every exit. `QueueHasDrainer`: the queue is left without a drainer by a late push or a fault only. `ImplementsService`: every step is one the service promises, or none |
| `queue_liveness` | 2 albums, 1 handler, 2 job ids, cap 1, 1 worker | `SlotReleased`, `DrainChain`: every slot comes free, one task drains the whole queue once requests stop. `OvershootBounded` and `ImplementsService` with bulk loops and an order of two albums |
| `queue_duplicate` | 3 albums, 1 handler, 4 job ids, cap 2 | **violated** `NoDoubleAnalysis` |
| `queue_ticket` | 2 albums, 1 handler, cap 1 | **violated** `QueuedJobResolves` |
| `bpm_job` | 1 job, 2 items, 1 user, 2 links, 2 subprocesses, 1 fault | `LinkExclusion`, `ScansBlockedExactly`, `WarmUpAlone`, `Accounting` (counters bounded, written off after the last attempt), `CompleteCovers` |
| `bpm_ends` | 1 job, 1 item, 1 user, 2 links, 1 fault | `JobEnds`: a job ends whatever the guard, a cancel request and a fault do |
| `bpm_cancel` | the same without faults | **violated** `CancelledStays` |
| `scan_chain` | 2 requests, 3 tasks, 1 fault | `ProgressHonest`: the progress key never outlives the scans. `QueueHandedOn`: a queue loses its last runner by a deferral, an operation or a late push only |
| `scan_queued` | 1 request, 2 tasks, no fault | **violated** `QueuedScanStarts` |
| `files` | move: 2 tasks, a deletion, 2 faults, one or two file systems. audio: 1 track, 2 operations, 2 faults. import: 2 tracks of 1 or 2 titles, 2 requests, 1 fault. upload: 4 paths, 2 requests, 2 faults. download: 2 jobs of 2 units, 1 fault. provision: 2 requests, 2 names, 3 slugs, 1 fault. cover: 2 uploads, the backfill, a reader. layout, zone: every enumerated input | one property for each part, below |
| `records` | events: 2. sync: 3 albums of 2 names, 2 files each, 2 attempts, 1 fault. tagging: 2 items, 2 batches, 2 faults. settings: 2 libraries, 2 requests at once, 3 changes. watcher: 2 processes, 2 faults. config: 1 editor, 1 change from outside. answers: 3 additions, 2 analyses, 2 providers. search: 2 analyses of 2 libraries, 2 providers with 3 releases, 2 resolves. rules, tags, pairing: every enumerated input. items: 2 files, 3 scans one at a time, 1 fault | one property for each part, below |
| `items_overlap` | 1 file, 3 scans, 2 at a time, no fault | **violated** `LastScanListed` |

| Property of `files` | Says |
|---|---|
| `MovesSafe` | once all is over rows have files and, without a deletion, the album is whole and in exactly one library; of a rollback whose one half failed the other half is done |
| `TracksKept` | no track loses its last file, a row points at a file at every moment, operations exclude each other until a lock expires |
| `ImportsSafe` | imports exclude each other but for the named race, a file is always somewhere, a completed import left only the parts it skipped, which the library has, and the library knows the rest; a replaced album is forgotten for a request to replace it only |
| `UploadAllOrNothing` | an upload that shares no path succeeds with all its files or leaves none but the one it failed at and those it could not remove; no file that was there is changed |
| `DownloadsTracked` | what is offered can be fetched whole until its deletion begins, and never in part; no archive without a row, but for jobs deleted before their task opened it and archives that could not be removed |
| `FilesKept` | a library in the table has its config and folders, and to itself |
| `CoverServed` | an answered upload is what later requests get; a cover in the folder is found |
| `LayoutKeepsFilesApart` | no file is lost between the parts, no disc is split off, no destination is shared by two discs |
| `CleanUpHarmless` | the only artwork of the first part's album survives, but for images listed as sidecars; nothing is lost but images and listed files; pruned folders are empty, rows follow files, a library's "off" wins and so do settings that cannot be read |

| Property of `records` | Says |
|---|---|
| `ActivityFaithful` | the list of active tasks is right, the history never contradicts a task that spoke within two hours |
| `SyncHonest` | an album reported as moved has moved; the status of a job is the sum of its albums, or "partial" where an album was counted both ways |
| `DivergenceExplained` | a row and its file differ only where a failure, an abort or a crossing stream is on record |
| `SettingsKept` | every setting reads as it was last answered unless its loss is on record; with requests one at a time there is one row, and nothing is lost but an auto-analyze switch that is changed when the document has a block of them |
| `WatcherRestorable` | a wanted watcher is marked as wanted, or a check is about to start it, whatever dies and whoever checks; but not after a death between the stop and the start of a check |
| `SaveFaithful` | a save reads back as sent and changes nothing its editor did not change |
| `AnswersKept` | an added candidate stays until something replaces it, a degraded analysis is never cached; beets works under the configuration of the library it works for, a release is in an answer once |
| `PairingFaithful` | an alignment is in order and none is cheaper; the user's candidate and the analysis pair alike, but where a number or a length is 0; chapters keep their order |
| `TagsFaithful` | a preview is what the last effective rule says, and applying it again changes nothing; a value means the same in row and formats and reads back |
| `ListingFaithful`, `ChangesFaithful` | the listing is what the last completed scan saw, less what imports took; the change shown is relative to the scan completed before |

**Bounds.**  Two actors of each kind make every race between two commands
possible: two handlers against two workers, two links of one job (the chained one and the
guard's), two requests against three scan tasks (one running, one yielding, one
in the broker), two moves and a deletion, two uploads of one path.  A fault may hit
any step; one is enough to leave each key, file and row in each state a dead process can
leave it in, and two where a fault while recovering from a fault matters (audio
operations, moves with their rollback, uploads with their clean-up, watchers, batches).  The properties that count faults are proved for
any number.  A cap of 1 makes the boundary of the queue reachable with few jobs.  Two attempts
are the least with which an item, or a move, is tried again before it is given up.
Two files of an album make a partial move or import, and two titles an import of which one
part is skipped.  Three slugs give a name one
numbered variant that collides with the next name.  Three additions are two of one
provider and one of another.  Three files and tracks are the least with a gap in
the middle of an alignment, and with two discs of which one repeats a number.  Three scans are the least for "the scan before the one
before" to matter, and for two that overlap to update the rows of a third.  The two uploads of a
cover may overlap; what they then do to each other is excepted by `disturbed` (section 8).
Two parts of a release are the least of which the clean-up looks at one only.  Where a run had to keep the
number of jobs at one, the reason is in section 6.

**Symmetry** is used in safety runs only, over sets whose members are interchangeable (in
`files` the tracks and requests of an import, and the uploads of a cover); no run with a
liveness property uses it.  The CHOOSE in
`LastScan` is unique, since stamps differ.

**Deadlock.**  The BPM runs and the two unions switch the check off: job ids are used
up, requests run once, an algorithm is asked once, and what has ended leaves nothing
to do.  In all the other runs the system can always go on (requests, the watcher,
users of the folder), and the check is on.

## 5. Fairness

Only weak fairness, on steps the code's scheduling guarantees once they are
begun, and never on requests, cancellations, faults or the arrival of files:

* handlers and tasks that have begun go on, and a worker takes messages;
* `BpmBackfill`: beat sends the guard every 900 s, the link lock of a dead link
  expires (`BPM_LINK_LOCK_TTL`), and a heartbeat nobody renews goes stale;
* `ScanScheduler`: a backfill gives its operation lock back (this is what
  `bpm_ends` and `ScansBlockedExactly` show of a link without a crash), the debounce
  key expires;
* `AnalysisQueue`: an analysis ends (one that takes an hour is killed, which is a fault), a
  status hash expires.

`DrainChain` assumes in its antecedent that requests stop: while they keep arriving, each can take
the slot a task frees between its HDEL and its drain, and a queued album starves.  The union runs claim safety only: a task of theirs that waits for a
worker shares the pool with every other task, and nothing in the code bounds that wait.

## 6. What the checks do not say

* With two BPM jobs the data properties (`Accounting`, `CompleteCovers`, `JobEnds`) do
  not hold: a duplicate link of an old job swallows the only message of a new one and then
  overwrites its hash.  The runs keep to one job, and what is proved of the data is
  about the first one; only the two lock properties are claimed, and proved, for any
  number.
* `ChangesFaithful` leaves out files that a scan wrote which failed after its
  commit: such a scan takes its items out of the listing and out of later
  comparisons (hazard at `scan_tasks.py:426`).
* After a dead scan the progress key stays for ever; `ProgressHonest` says so with
  `died`.
* The removal of a library deletes rows by cascade; `ScanScheduler` has it,
  `ScanItems` does not.
* Several properties except a race the code leaves open, by a history variable: `raced`
  (imports, settings), `late` and `stayed` (moves), `expired` with `unlinked` (conversions), `mingled` and `left`
  (uploads), `crossed`, `stripped` and `stuck` (downloads), `spoiled` (libraries), `disturbed` and `unseen`
  (covers), `silent` and `overtaken` (events), `uncounted` (moves after an edit), `lost` (settings),
  `failedOnce` and `overlapped` (batches), `stale` (config), `givenUp` (watcher).  Each is set
  by the step that makes the race or fails, so the property still holds everything else to account;
  section 8 says what happens then.  Three exceptions need no history: an album that is counted
  both ways (`CountedTwice`), images that the user lists as sidecars and the albums of the parts
  after the first (`ArtworkKept`), and lengths of 0 (`NoLengthZero`).
* Eight definitions state what a text promises and the code does not keep; no run
  checks them, and TLC finds each violated if it is added to a run:
  `Settings!AutoAnalyzeAsAnswered`, `AlbumSync!NeverStuckRunning`,
  `TaskEvents!OnlyCrashDebris`, `AlbumMove!FailedMoveUndone`,
  `CandidateSearch!OutageNotCached`, `Watcher!RestartSurvivesKill`,
  `DropZone!NeverItsOnlyCover`, `LibraryConfig!OnlyChangedApplied`.

## 7. What is proved

All theorems hold for every value of the constants; the assumptions are the
named ASSUMEs (positive caps, workers and chunk sizes, finite sets where
a cardinality is taken, absent values that are not members).  Every inductive invariant
is stated in the module of its component, and was checked by TLC on the
instance of its run before it was proved.

* **AnalysisQueue_proofs.**  `IInv` is the conjunction of `TypeOK`, `AlbumsKnown`,
  `Ownership`, `SlotsAccountedFor` and `UndoAfterFault`.  `SlotsAccountedFor` is not
  inductive alone: a dispatch moves a job id from a handler or a finishing task to
  the broker, and without `Ownership` (an id is in one hand, and registered) the
  same slot could be released twice.  `OvershootCorrect` and `DrainerCorrect` add
  their property to `IInv`; the first counts the handlers between HLEN and
  registration with the lemmas on cardinalities, the second shows that every step
  keeps a drainer or empties the queue, or records `late` or a fault.
  `ServiceImplemented` is the refinement: the initial states
  map, and each action of the queue is `Accept`, `Take`, `Begin`, `HandOver`, `End`,
  `Lose` or a stutter of the service.  It takes `IInv` and `OvershootBounded`
  as they are; what is new are lemmas on how each kind of step
  changes `AtWork` and `Lost` (a registration, a hand-over, a fault), and the count
  of losses against faults, which bounds `Lose`.
* **BpmBackfill_proofs.**  `IInv` is `TypeOK`, `LinkExclusion`, `OpsHeld` and
  `ScansBlockedExactly`.  `OpsHeld` says for each place of a link whether it added
  the operation lock and whether the lock is there; it is needed because a link that
  finds the lock set does not own it, and only the exclusion of links makes
  "found it set" mean "left by a crash".
* **BpmProgress_proofs.**  `WarmUpAlone`, `Accounting` and `CompleteCovers` for the
  first job of a library: `FirstJobInv` says what holds while one job id has been
  used (`OneJob`), which is as far as the properties go (section 6).  The counters
  bound nothing by themselves: a report is added to what a link read when it
  started, and the copy may be stale.  `OpenCounted` relates each copy (hash, guard, links) to the
  set of items whose end no report has counted yet, and a crash may cost one chunk of
  them.  `StartsOnce` (one message of the job in one hand), `ChunksApart` (chunks in
  flight are disjoint, and so are what is to do and what is given up),
  `AttemptsSpent`, `WarmUpSteps` and `EndCovers` are the other parts.
* **ScanScheduler_proofs.**  `IInv` is `TypeOK` and `ProgressHonest`, which is
  inductive with it: the key is written by a task in `Announced` and each way out
  of `Announced` clears it or is a death.  `QueueCorrect` is the action property
  `QueueHandedOn`: a runner stays a runner unless it ends with an empty
  queue, is deferred or blocked; one that yields to a running scan leaves that
  scan, which `ProgressHonest` provides.
* **ScanItems_proofs.**  `ListingFaithful` and `ChangesFaithful` for any files, scans
  and faults, when scans work one at a time (`Workers = 1`).  The hypothesis is the order the
  properties speak of ("the scan before"); two at a time violate the listing, which
  `items_overlap` shows.  `SerialInv` carries what a scan has read while it works: that
  its stamp is the newest, that the scan it compares with is still the last one
  completed, and what became of each row since it was loaded (an import may delete
  it, and the table is then not what the session remembers).
* **AlbumFiles_proofs.**  Every property of `files`.  The module of the run is the
  union, so the theorems are about the union; each component has an invariant of
  its own, `FilesInv` puts them together by part.
  `MoveInv`: a task owns the target folder from the step that takes the free place until it is
  done or has put it back; there is one owner at most, and its step says what the places and
  the rows hold, as long as no fault was late; what a half of a rollback left is in `stayed`,
  and a shared folder is left alone.  `AudioInv`: the lock names the operation at
  work until it expires; what an operation holds (a FLAC it has made, a WAV it has
  listed) is still there.  `ImportInv`: the hash of the album names the job that
  imports; one part of a job is at work at a time, and what is left to copy belongs to it, to a part
  to come or to a skipped one (`PartsInOrder`); rows go only with a request that remembers it, and
  files under a title without rows have a job that has yet to write them (`RowsAccounted`).  `UploadInv`: who writes
  into which file, and that a request which shares no path finds its files as it left
  them, and after a clean-up only those it could not remove.  `DownloadInv`: row, archive, task and
  deletion of one job agree at each step; jobs share nothing but the commit of the clean-up.
  `ProvisionInv`: an unspoiled slug has one party, a row or a request,
  and what that party has made is on the disk.  `CoverInv`: an undisturbed upload is alone with
  the variants, `standing` names what the folder shows or a cache knows, and a remembered "no
  cover" is true unless it is recorded in `unseen`.  It needs no bound on uploads at
  once; the run has two that may overlap.
  The lemmas about `ReleaseLayout` and `DropZone` hold for every release, and for
  every folder, list of extensions, album and failure, not only for those the run enumerates.
  The proof of `UploadInv` corrected the model: `mingled` had missed a request whose
  path is removed by the clean-up of one that failed before, which takes three
  requests and two faults to happen.

* **Records_proofs.**  Every property of `records` about a component with a state, again
  for the union; `RecordsInv` puts the components' invariants together.
  `EventInv`: `StepsRecorded` says for each step of a task what is in the table, the index
  and Redis; `OrphansSilent` says that what a clean-up has read as debris is still
  debris when it marks it, which is what the race between its query and its
  UPDATE turns on.  `SyncInv`: albums get their results in turn, each before its report
  (`ResultsInTurn`), what is counted differs from the results only where an album was counted
  both ways, and a success stands for an album with nothing left to move, since a target
  has the name it was resolved from and no two names share an album.
  `BatchInv`: what a stream has yet to write is what it put in the row, unless another stream
  crossed it.  `SettingsInv`: a request alone still finds what it read (`ReadStands`), and the one
  row says what was answered, but for what is in `lost`.  `WatchInv` adds that nothing watches before
  the worker is ready.
  `ConfigInv`: unless the file changed, the form an editor loaded is the view of what
  the file says, and a save merges into just that; the lemmas on `View`, `Merge` and
  `MergeFields` hold for every file and form, and `SaveCorrect`, an action
  property, follows from them.  `CacheInv`: the answer an addition has read is the
  cached one unless it was told otherwise.  `SearchInv`: who holds the lock and which threads an
  analysis may have at each step, and that a release that was found counts as an attempt
  that did not fail, so that an answer with candidates of the providers is never degraded.
  `ItemsInv` keeps the types of the scans with any number of workers: any set
  of scans has one with the latest stamp, so that `LastScan` is a scan.
  For these proofs the sizes of the components became constants of `MCRecords`; `AlbumAssumption`
  (albums of a batch have one name each), `AbsenceAssumption` (no row and no
  candidate is "none") and `KnownAssumption` (the autotagger lists a release once) are what
  the code gives: the names are a set (`unique_albums`) and albums are looked up by the
  exact name, ids are generated, and beets keeps the candidates of an album in a dict by release.
* **Algorithms_proofs.**  The algorithms that keep no state, for every input.
  `AlignmentCorrect`: the table of `_align_ordered_lengths` gives each cell the cost of
  the way back from it, which is a matching in order, and no matching of the files and
  tracks before a cell costs less; lengths are whole numbers or unknown.
  `ChaptersCorrect`: the playback order is the rank of each file's key, an alignment in
  order stays so when its positions are put back, and where the numbers decide, the keys
  of the files that the rows take go up with the rows.  It speaks of rows as the
  resolvers build them (`AsBuilt`: without discs, or sorted by disc and place, with the place as the
  only number; `candidate_resolvers.py:691-716`).
  `PairingsCorrect`: both pairings agree on a tagged album without a length of 0; it rests on
  `NamesDecideNothing`: where discs and numbers tell all files apart, the
  names beets sorts by last change no order.
  `SequenceCorrect`: the stable sort puts an item behind the chosen ones ahead of it, so
  its number counts them, whatever the order of the request.  `PreviewCorrect`: a
  preview has a change exactly for the rules that change something, and applying it moves no
  file in a sequence and changes no source of an independent rule.  Both speak of items
  with one id each, as the rows of a table have.
  `TrackNumbersCorrect` and `AliasCorrect` are about the tag writers.
  `TagsCorrect` and `PairingCorrect` state the two properties of the run: `AskInv` keeps the
  question what it was, and each question the run enumerates meets the hypotheses of
  the theorems above.

  These proofs go by induction over lists and sets, though the library's induction theorems,
  which take an operator, cannot be used.  `Induction` is the same fact about sets of
  naturals: it is of first order and follows from a least element, which
  `WFMin` gives.  A recursive function, and a fold of the community
  modules, is a CHOOSE of a function that equals its definition; that there is one is proved for
  each (`TableExists`, `BackExists`, `SumExists`, `SortsExist`, `PreviewExists`) by
  induction on the size of the argument, and only then has the CHOOSE its equation.
  For the proofs three definitions got another form with the same values: the sort
  and the maps of `TagRules` are folds and sets, the recursive functions of `TrackPairing`
  take a cell as one argument, and the tags of the run's items are functions by name.
  One property was wrong: `ChaptersInOrder` excepted albums by number whose rows
  repeat a number; rows whose numbers go down (a provider that numbers some of its tracks
  only, `candidate_resolvers.py:848-850`; no release of the run) break it too, and
  `NumberedOnce` now asks that the numbers of the rows go up.

Only model-checked:

* the liveness properties `SlotReleased`, `DrainChain`, `JobEnds`: ENABLED and fairness
  are out of the prover's reach;
* what the violated runs show.

Every other property of a passing run is a theorem.

## 8. Where the code and its texts disagree

1. `queue_duplicate`: the Lua script stores the queue item's JSON where the album path is
   expected, so the documented 409 "Album already queued or being analyzed" is
   not given for an album that came from the queue.
2. `queue_ticket`: a queued album gets a new job id when it is dispatched; the one
   the client was told to poll stays "queued" until it expires.
3. `bpm_cancel`: the guard's duplicate message outlives the cancellation of its
   job and runs it on, though "the link lock makes an accidental double fire
   harmless".
4. `scan_queued`: a scan queued behind an operation is not started when the
   operation ends, and keeps every later manual scan out with a 409.
5. `items_overlap`: of two overlapping scans the one stamped first may commit
   last; the listing "of the most recent completed scan" then misses items.

These five have a run of their own.  Others, met while modelling, that the
models contain and the properties except:

**Stated and not kept.**
* `beets_autotag.py:1791-1795` changes the block inside the document it read, so the second
  update of a library's auto-analyze switch compares equal and is never written; line
  1837 says "Updates the auto_analyze_after_scan setting for the library."
  (`AutoAnalyzeAsAnswered`)
* `beets_tasks.py:1989` "write an honest final state so the job never sticks in
  "running"": a soft limit inside a cover block is swallowed by `except Exception`, and the
  hard limit then kills the task. (`NeverStuckRunning`)
* `cleanup_stale_entries` calls a task crash debris that ended between its query and its look
  at the hash. (`OnlyCrashDebris`)
* `beets_tasks.py:260` caches a result "only when the provider augmentation actually ran"; a
  provider that fails or is late leaves an empty group, and nothing but empty groups
  leaves nothing to resolve, so the answer of an outage of every provider is cached
  for seven days. (`OutageNotCached`)
* `import_cleanup.py:10` and `beets_tasks.py:981` "never at the cost of an album's only cover": a
  file whose extension the user lists as a sidecar is deleted first, also a `.jpg` that is the only
  artwork; and of an import of several parts only the album of the first one is looked at (975), so
  a second album without a cover loses the pictures of the release. (`NeverItsOnlyCover`)
* `scan_tasks.py:756` `check_watcher_health` "restarts any that have become stale": a process killed
  between its stop (806), which writes inactive, and its start (807) leaves a watcher that no later
  check looks at. (`RestartSurvivesKill`)
* `beets_config_service.py:383` "Only the fields the editor actually changed are applied; everything
  else in the file [...] is left untouched": the baseline of the merge is the file at save time, not
  what the editor was shown, so what another changed in between is set back.
  (`OnlyChangedApplied`)
* The rollback of a move that fails after the source rows are deleted moves the
  folder back to a library that no longer knows it. (`FailedMoveUndone`)
* `api/libraries.py:127` "If any step fails (except verification), all created resources
  are cleaned up.": an OSError inside `provision_library` leaves what it made.
* `upload.py:289` "Existing files are never overwritten (409 Conflict is returned)": two
  uploads of one path pass the check together; `created_dirs` is never used, and the
  file an upload failed at stays.

**Races and failures that cost something.**
* Two creations of one slug: the clean-up of the one that loses removes the config of the one
  that wins; a refresh that fails after the commit removes the files of a library in the table.
* Two covers with different extensions at once can leave `artpath` at a removed file; the
  backfill beside an upload may promote another picture over it; a cover put by hand stays hidden
  behind a remembered "no cover" for seven days.
* Two moves that both see the target free (`beets_tasks.py:2433`), across file systems: the later
  one copies its folder into the folder of the first, while that one still copies.
* A half of a rollback that fails (2534, 2551) is logged: rows without a folder stay in the target
  database, or the folder stays there without rows.
* The clean-up of a failed upload (`upload.py:404-405`, `415-416`) swallows the error of a removal
  and leaves the file.
* An archive that cannot be removed loses its row all the same (`downloads.py:122-125`,
  `download_tasks.py:39-44`); a commit that fails after the removals leaves completed jobs that
  answer 410.
* An import as it is that skips some of its parts ends as completed (`beets_tasks.py:876-888`) with
  their files still in the import folder.  Parts whose tags all name one album get one row under
  that name, so that a later import does not find them under their own.
* A job cut short between the count of a success and its result (1920, 1975) is "partial", which the
  client is told as completed, although every album of it may be shown as failed.
* With the clean-up off an empty release folder is removed also where it lies outside the import
  folder.  A clean-up that changed anything drops the rows of all files of the release, also of those
  that are still there, until the next scan.
* The lock of an audio operation lives 600 s, its task 1800 s, and whoever ends deletes
  it; two conversions under it and a failed row update remove the only file of a track.
* `POST /import` with `replace` deletes the rows of the old album before the check that may
  refuse the import; `lib.close()` raises inside a handler that swallows it, so the cover step
  after it never runs on an import (`beets_tasks.py:2223-2226`).
* A library deleted with downloads leaks their archives; a progress commit that fails
  leaves a row at "packing".
* A watcher whose start once finds no folder is not tried again until the worker
  restarts; several processes watch one library.
* Of two albums with one name `LIMIT 1` moves one after an edit.
* A batch whose files were not written reports success without writing when it is tried
  again, since the rows already hold the values.
* Clearing `item_fields` is lost for a file without that section; a write of the configuration
  that fails leaves the file empty or cut off.
* A candidate added before any analysis makes an answer that later requests take as the
  album's for seven days.
* A library without a configuration file is analysed under the one another
  library loaded last in the process.
* Manual and automatic pairing order an album differently where a number is 0 or stands in the
  file name only, and where numbers that run through the album go back from one disc to
  the next; with a length of 0, which only the analysis takes for unknown
  (`candidate_resolvers.py:401-402`), they may pair differently.  When an alignment fails,
  pairing by number takes one file for several tracks where discs, or the rows of the
  candidate, repeat their numbers, and pairs out of order where the numbers of the rows go down.
* A rule that gives back the current value does not cancel the change of a rule
  before it; `"5/x"` changes the row and not the file; M4A cannot tell track 0 from none.

## 9. Not modelled

* **Of the candidate search**: the requests to beets and to the web providers, and the scoring of what they
  answer, by floating-point weights and fuzzy comparison of titles
  (`CandidateSearch` leaves open which hits are best); reading tags from the files of
  an album; the search for covers (`cover_search_service.py`).
* **Listings, filters and statistics** (most of `beets_library_service.py` and
  `library_items.py`): SQL that changes nothing.  The statements that change rows are
  actions of `AlbumMove`, `AlbumImport`, `AudioOps`, `Covers` and `AlbumSync`.
* **Maintenance reports**, **Emby** (one request whose answer changes nothing) and the **frontend**.
* Request parsing, formatting, logging, the event streams; metadata extraction;
  thumbnails; beets, ffmpeg, the web providers and Celery, which appear as the
  external steps the code relies on.

`PROJECT.json` gives the reason per component, and says of each that is modelled in part what
is left out.
