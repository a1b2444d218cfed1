---------------------------- MODULE MCAlbumFiles ----------------------------
(***************************************************************************)
(* The components that keep the files of albums, each on small sets: in a  *)
(* behaviour one of them (part) works alone, on its own view of the disk,  *)
(* the databases and Redis, and keeps its variables in s1, s2, ... in the  *)
(* order of its module.  Algorithms without state are asked one question:  *)
(* the input is s1, and s2 says that it was put.                           *)
(***************************************************************************)
EXTENDS Naturals, FiniteSets, TLC

CONSTANTS
  Task, MaxMoveFaults,          \* AlbumMove: moves of the album, exceptions and deaths
  Wav, Op, MaxAudioFaults,      \* AudioOps: tracks, operations, failures and deaths
  Song, Job, MaxImportFaults,   \* AlbumImport: tracks, requests, failures and deaths
  Path, Inside, Taken, Post,    \* Uploads: paths, those in the folder, those taken; requests
  MaxUploadFaults,
  Download, Units, MaxPackFaults, \* Downloads: jobs, their albums, failures and deaths
  Admin, LibName, MaxSlug,      \* Provisioning: requests, names of libraries, largest slug
  MaxProvFaults,
  Sleeve,                       \* Covers: replacements of the cover
  ImageExtensions, SidecarExtensions, \* DropZone: extensions of images, of sidecars
  Old, None                     \* the earlier edition of an imported album; nobody, nothing

\* Faults are counted, and nobody and nothing are no one and no thing.
ASSUME BoundsAssumption ==
  /\ MaxMoveFaults \in Nat /\ MaxAudioFaults \in Nat /\ MaxImportFaults \in Nat
  /\ MaxUploadFaults \in Nat /\ MaxPackFaults \in Nat /\ Units \in Nat \ {0}
  /\ MaxProvFaults \in Nat
ASSUME NoneAssumption == None \notin Wav \cup Op \cup Job
ASSUME OldAssumption == Old \notin Job
ASSUME PathAssumption == Inside \subseteq Path /\ Taken \subseteq Path /\ "before" \notin Post

\* The library that may be there from the start has name 1, paths 1 and slug 2.
ASSUME SlugAssumption == 1 \in LibName /\ MaxSlug \in Nat /\ MaxSlug >= 2

\* A picture that was there, and none, are no replacement.
ASSUME SleeveAssumption == "found" \notin Sleeve /\ "nothing" \notin Sleeve

VARIABLES part, s1, s2, s3, s4, s5, s6, s7, s8, s9, s10, s11

\* Tracks, requests and uploads have nothing but their names.
Symmetry == Permutations(Song) \cup Permutations(Job) \cup Permutations(Sleeve)

Move == INSTANCE AlbumMove WITH
  shared <- s1, folder <- s2, srcRow <- s3, tgtRows <- s4, mover <- s5, del <- s6,
  mishaps <- s7, late <- s8, stayed <- s9, oneDisk <- s10

Audio == INSTANCE AudioOps WITH
  Track <- Wav, NoTrack <- None, NoOp <- None,
  imported <- s1, files <- s2, item <- s3, lock <- s4, op <- s5, audioFaults <- s6,
  expired <- s7, unlinked <- s8

Import == INSTANCE AlbumImport WITH
  Track <- Song, Title <- Song, NoJob <- None,
  mode <- s1, inbox <- s2, shelf <- s3, rows <- s4, current <- s5, done <- s6, job <- s7,
  importFaults <- s8, raced <- s9, title <- s10

Uploading == INSTANCE Uploads WITH
  Request <- Post, Existing <- Taken,
  folder <- s1, upload <- s2, mingled <- s3, left <- s4, uploadFaults <- s5

Packing == INSTANCE Downloads WITH
  dlRow <- s1, dlArchive <- s2, dlPack <- s3, dlDelete <- s4, expired <- s5, crossed <- s6,
  packFaults <- s7, sweep <- s8, stripped <- s9, stuck <- s10

Provision == INSTANCE Provisioning WITH
  Request <- Admin, Name <- LibName,
  rows <- s1, config <- s2, database <- s3, folder <- s4, req <- s5, provFaults <- s6,
  spoiled <- s7

Cover == INSTANCE Covers WITH
  Upload <- Sleeve,
  files <- s1, stem <- s2, artpath <- s3, cache <- s4, upload <- s5, backfill <- s6,
  reader <- s7, standing <- s8, disturbed <- s9, outside <- s10, unseen <- s11

Layout == INSTANCE ReleaseLayout WITH MinFilesPerPart <- 2, MaxParts <- 3
Zone == INSTANCE DropZone WITH
  ImageExtensions <- ImageExtensions, SidecarExtensions <- SidecarExtensions

\* The variables from the n-th on, and their rest while a part has fewer.
From3 == <<s3, s4, s5, s6, s7, s8, s9, s10, s11>>
From6 == <<s6, s7, s8, s9, s10, s11>>
From8 == <<s8, s9, s10, s11>>
From9 == <<s9, s10, s11>>
Rest9 == s9 = "unused" /\ s10 = "unused" /\ s11 = "unused"
Rest8 == s8 = "unused" /\ Rest9
Rest6 == s6 = "unused" /\ s7 = "unused" /\ Rest8
Rest3 == s3 = "unused" /\ s4 = "unused" /\ s5 = "unused" /\ Rest6

-----------------------------------------------------------------------------
(* Releases and what beets proposed for them: rips with two discs in       *)
(* folders and flat ones with prefixed names, with a matched track for     *)
(* every file or for none.                                                 *)
DiscFiles == [folder : {Layout!Root} \cup [prefix : {1}, disc : 0 .. 2],
              name : [num : 1 .. 2, part : {0}]]
FlatFiles == [folder : {Layout!Root}, name : [num : 1 .. 2, part : 0 .. 2, rest : 1 .. 2]]
BoxFiles == [folder : [prefix : 1 .. 2, disc : 0 .. 1], name : [num : {1}, part : {0}]]
Releases == ((SUBSET DiscFiles) \cup {f \in SUBSET FlatFiles : Cardinality(f) <= 5}
             \cup (SUBSET BoxFiles)) \ {{}}
Matched(files) == {[path |-> f, disc |-> f.folder.disc] : f \in files}
LayoutInputs == [files : Releases, same : BOOLEAN, matched : BOOLEAN]
Titles(in) == [n \in {p.name : p \in Layout!SplitReleaseParts(in.files)} |->
                 IF in.same THEN 1 ELSE n]

(* What a clean-up can find: a sidecar and two images, an album with a     *)
(* cover, art in its audio or neither, under the settings that decide; the *)
(* second part, if any, has no cover.                                      *)
Picture == {[id |-> 1, ext |-> "jpg", named |-> 1, size |-> 1],
            [id |-> 2, ext |-> "png", named |-> 5, size |-> 2]}
Leftover == Picture \cup {[id |-> 3, ext |-> "nfo", named |-> 5, size |-> 0]}
Bare == [exists |-> TRUE, coverFile |-> FALSE, embedded |-> FALSE, nameTaken |-> FALSE]
Home == {Bare} \cup {[Bare EXCEPT !.exists = FALSE], [Bare EXCEPT !.coverFile = TRUE],
                    [Bare EXCEPT !.embedded = TRUE], [Bare EXCEPT !.nameTaken = TRUE]}
Switch == [enabled : BOOLEAN]
SidecarList == [sidecars : {{}, {"jpg", "nfo"}}]
NoBlock == [key \in {} |-> TRUE]
ZoneInputs ==
  [zone : [files : SUBSET Leftover, others : [1 .. 2 -> SUBSET {[id |-> 8]}],
           place : {"inside", "outside", "gone"}],
   albums : {<<a>> : a \in Home}
            \cup {<<a, Bare>> : a \in {Bare, [Bare EXCEPT !.coverFile = TRUE]}},
   readable : BOOLEAN,
   global : {NoBlock} \cup Switch \cup SidecarList,
   library : {NoBlock} \cup Switch \cup SidecarList \cup [deleteImages : {FALSE}]
             \cup [promote : {FALSE}],
   stuck : SUBSET Picture, stored : BOOLEAN]

Ask == s2 = FALSE /\ s2' = TRUE /\ UNCHANGED <<s1, From3>>

-----------------------------------------------------------------------------
Init ==
  \/ part = "move" /\ Move!Init /\ s11 = "unused"
  \/ part = "audio" /\ Audio!Init /\ Rest9
  \/ part = "import" /\ Import!Init /\ s11 = "unused"
  \/ part = "upload" /\ Uploading!Init /\ Rest6
  \/ part = "download" /\ Packing!Init /\ s11 = "unused"
  \/ part = "provision" /\ Provision!Init /\ Rest8
  \/ part = "cover" /\ Cover!Init
  \/ part = "layout" /\ s1 \in LayoutInputs /\ s2 = FALSE /\ Rest3
  \/ part = "zone" /\ s1 \in ZoneInputs /\ s2 = FALSE /\ Rest3

Next ==
  /\ UNCHANGED part
  /\ \/ part = "move" /\ Move!Next /\ UNCHANGED s11
     \/ part = "audio" /\ Audio!Next /\ UNCHANGED From9
     \/ part = "import" /\ Import!Next /\ UNCHANGED s11
     \/ part = "upload" /\ Uploading!Next /\ UNCHANGED From6
     \/ part = "download" /\ Packing!Next /\ UNCHANGED s11
     \/ part = "provision" /\ Provision!Next /\ UNCHANGED From8
     \/ part = "cover" /\ Cover!Next
     \/ part \in {"layout", "zone"} /\ Ask

Spec == Init /\ [][Next]_<<part, s1, s2, From3>>

-----------------------------------------------------------------------------
\* Every component keeps the types of its variables.
TypeOK ==
  CASE part = "move" -> Move!TypeOK
    [] part = "audio" -> Audio!TypeOK
    [] part = "import" -> Import!TypeOK
    [] part = "upload" -> Uploading!TypeOK
    [] part = "download" -> Packing!TypeOK
    [] part = "provision" -> Provision!TypeOK
    [] part = "cover" -> Cover!TypeOK
    [] OTHER -> s2 \in BOOLEAN

\* move_album_task and delete_album: once all is over a database that has the
\* album has its files, and without a deletion the album is in exactly one
\* library, whole - moved, or rolled back - unless a fault came after the point
\* the rollback can undo or a move went into the folder of another; a half of
\* the rollback that fails costs no more than what it was to undo.
MovesSafe == part = "move" => Move!RowsHaveFiles /\ Move!AlbumInOneLibrary

\* Conversions and clean-ups never take the last file of a track, and a row of
\* an imported album points at a file at every moment, whatever fails, dies or
\* overlaps when the lock has expired; until then one of them works at a time.
TracksKept ==
  part = "audio" => Audio!AudioKept /\ Audio!ItemHasFile /\ Audio!OneOpAtATime

\* Imports: two of an album run at once only if both requests read the status
\* before either wrote it, or the late failure of an ended one wrote over it (POST
\* /import: "409: Import already in progress for this album"); no file is lost
\* between the drop zone and the library, a completed import has every part on the
\* shelf that the library did not have, and an album is forgotten only for a
\* replacement or an import that was refused, failed or is under way.
ImportsSafe ==
  part = "import" => Import!OneImportAtATime /\ Import!AlbumComplete /\ Import!ReplacedNotLost

\* upload_files: an upload that shares no path with another is all or nothing,
\* but for the files its clean-up fails to remove, and no upload changes a file
\* that lay there before.
UploadAllOrNothing == part = "upload" => Uploading!UploadAllOrNothing

\* What the Download Center offers can be fetched whole, and no archive is left
\* on disk that no row leads to, but for jobs deleted while their task worked
\* and archives that cannot be removed.
DownloadsTracked == part = "download" => Packing!DownloadsTracked

\* Libraries are created, adopted, renamed, initialized and deleted in any order
\* and fail at any step, and a library has its config and folders to itself,
\* unless two requests claimed one slug together or a fault hit the creation.
FilesKept == part = "provision" => Provision!FilesKept

\* An uploaded cover is what later requests get until it is replaced or removed,
\* and a cover in the folder is found, but for the cases the module names.
CoverServed == part = "cover" => Cover!CoverServed

\* A release is split without losing a file and never through its discs, the
\* parts get titles of their own, and the files of two discs get destinations
\* of their own.
LayoutKeepsFilesApart ==
  part = "layout" /\ s2 =>
    /\ Layout!SplitKeepsAlbums(s1.files)
    /\ Layout!PartsStayApart(s1.files, Titles(s1))
    /\ Layout!DiscsKeptApart(s1.files, IF s1.matched THEN Matched(s1.files) ELSE {})

\* The clean-up of the drop zone never costs the album of a release its only
\* artwork (listed images aside), removes nothing else, prunes only empty folders,
\* leaves no row of a file that is gone, and obeys a library that turned it off.
CleanUpHarmless ==
  part = "zone" /\ s2 =>
    /\ Zone!ArtworkKept(s1.zone, s1.albums,
                         Zone!ReadConfig(s1.readable, s1.global, s1.library), s1.stuck)
    /\ Zone!NothingElseLost(s1.zone, s1.albums, s1.readable, s1.global, s1.library, s1.stuck,
                             s1.stored)
=============================================================================
