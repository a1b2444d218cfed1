--------------------------- MODULE ReleaseLayout ---------------------------
(***************************************************************************)
(* From the files of a release in the import folder to the files of albums *)
(* in the library: disc folders, parts of a multi-part release, candidate  *)
(* tracks and destination names.                                           *)
(*                                                                         *)
(* A folder is a record of a prefix and a disc number, 0 for a folder that *)
(* is no disc folder ("Album CD 2" is [prefix |-> 1, disc |-> 2]); a file  *)
(* is its folder and its name, and a name the number and the part in front *)
(* of it, 0 for none ("01 - Part - 00001.mp3").                            *)
(***************************************************************************)
EXTENDS Naturals, FiniteSets

CONSTANTS
  MinFilesPerPart,  \* MIN_FILES_PER_PREFIX_PART
  MaxParts          \* MAX_PARTS

Root == [prefix |-> 0, disc |-> 0]   \* the release folder itself

---------------------------------------------------------------------------
(***************************************************************************)
(* The import tree                                                         *)
(***************************************************************************)

\* The disc folders that share a prefix, where there are two of them.
MultiDiscFolders(folders) ==
  {f \in folders : f.disc > 0 /\ \E g \in folders \ {f} : g.disc > 0 /\ g.prefix = f.prefix}

\* A node of the tree is an album with its siblings, the folders with audio
\* below it (a folder without any is not shown) and whether it holds audio.
IsAlbum(folder, siblings, children, audio) ==
  /\ folder \notin MultiDiscFolders(siblings)
  /\ MultiDiscFolders(children) # {} \/ (children = {} /\ audio)

---------------------------------------------------------------------------
(***************************************************************************)
(* Parts                                                                   *)
(***************************************************************************)

FoldersOf(files) == {f.folder : f \in files}

\* Mutant: a disc folder is a folder like any other.
SplitBySubfolderDiscs(files) ==
  LET folders == FoldersOf(files) IN
  IF Root \in folders \/ Cardinality(folders) \notin 2 .. MaxParts THEN {}
  ELSE {[name |-> folder, files |-> {f \in files : f.folder = folder}] : folder \in folders}

\* All audio lies in two or more folders of which none is a disc folder.
SplitBySubfolder(files) ==
  LET folders == FoldersOf(files) IN
  IF Root \in folders \/ Cardinality(folders) \notin 2 .. MaxParts
     \/ \E f \in folders : f.disc > 0
  THEN {}
  ELSE {[name |-> folder, files |-> {f \in files : f.folder = folder}] : folder \in folders}

PrefixOf(f) == [num |-> f.name.num, part |-> f.name.part]

\* A flat release whose names all carry a number and a part.
SplitByPrefix(files) ==
  LET groups == {PrefixOf(f) : f \in files} IN
  IF \/ \E f \in files : f.folder # Root \/ f.name.num = 0 \/ f.name.part = 0
     \/ Cardinality(groups) \notin 2 .. MaxParts
     \/ \E g \in groups : Cardinality({f \in files : PrefixOf(f) = g}) < MinFilesPerPart
     \/ \E g, h \in groups : g # h /\ g.num = h.num
     \/ \A g, h \in groups : g.part = h.part
  THEN {}
  ELSE {[name |-> g, files |-> {f \in files : PrefixOf(f) = g}] : g \in groups}

SinglePart(files) == {[name |-> Root, files |-> files]}

SplitReleaseParts(files) ==
  IF SplitBySubfolder(files) # {} THEN SplitBySubfolder(files)
  ELSE IF SplitByPrefix(files) # {} THEN SplitByPrefix(files) ELSE SinglePart(files)

\* Titles that two parts share get the name of the part as a suffix. A title
\* is a pair of the text in the tags and the suffix.
Disambiguate(titles) ==
  [p \in DOMAIN titles |->
     IF \E q \in DOMAIN titles \ {p} : titles[q] = titles[p]
     THEN [titles[p] EXCEPT !.suffix = @ \cup {p.name}] ELSE titles[p]]

---------------------------------------------------------------------------
(***************************************************************************)
(* Candidate tracks and destinations                                       *)
(***************************************************************************)

Unpaired == [disc |-> 0, path |-> [folder |-> Root, name |-> Root]]

\* By the path beets matched; else by the name alone, which the first track
\* with that name keeps.
PairTracks(tracks, files) ==
  [f \in files |->
     LET byPath == {t \in tracks : t.path = f}
         byName == {t \in tracks : t.path.name = f.name}
     IN IF byPath # {} THEN CHOOSE t \in byPath : TRUE
        ELSE IF byName # {} THEN CHOOSE t \in byName : TRUE ELSE Unpaired]

\* The folder's number, for a file below the release folder.
InferDiscNumber(f) == IF f.folder = Root THEN 0 ELSE f.folder.disc

InferDisc(f, paired) == IF paired[f].disc > 0 THEN paired[f].disc ELSE InferDiscNumber(f)

\* The names in the flat album folder: with the disc in front when the files
\* span several discs.
Destination(files, paired) ==
  LET discs == {InferDisc(f, paired) : f \in files} \ {0} IN
  [f \in files |-> [disc |-> IF \A d, e \in discs : d = e THEN 0
                             ELSE IF InferDisc(f, paired) = 0 THEN 1 ELSE InferDisc(f, paired),
                    name |-> f.name]]

\* plan_destination_files refuses to plan two files onto one name.
Refused(plan) == \E f, g \in DOMAIN plan : f # g /\ plan[f] = plan[g]

---------------------------------------------------------------------------
(***************************************************************************)
(* A folder-per-disc rip, with a track for every file or for none, can be  *)
(* imported: every file keeps the track beets matched it with and gets a   *)
(* destination of its own, however many discs start at track 1. (With a    *)
(* file that has no track, its name may borrow the track of another disc   *)
(* and the import is refused.)                                             *)
(***************************************************************************)
DiscsKeptApart(files, tracks) ==
  LET paired == PairTracks(tracks, files)
      exact == /\ {t.path : t \in tracks} = files
               /\ \A t \in tracks : t.disc = t.path.folder.disc
               /\ \A t, u \in tracks : t.path = u.path => t = u
      discRip == /\ \A f \in files : f.folder.disc > 0
                 /\ \A f, g \in files : f.folder.disc = g.folder.disc => f.folder = g.folder
  IN discRip /\ (tracks = {} \/ exact) =>
       /\ ~Refused(Destination(files, paired))
       /\ tracks # {} => \A f \in files : paired[f].path = f

(***************************************************************************)
(* A release is split without losing a file and never through its discs:   *)
(* the parts share out all files, and what the import tree shows as one    *)
(* multi-disc album is imported as one.                                    *)
(***************************************************************************)
SplitKeepsAlbums(files) ==
  LET parts == SplitReleaseParts(files)
      folders == FoldersOf(files) \ {Root}
      flat == \E f \in files : f.folder = Root
  IN /\ UNION {p.files : p \in parts} = files
     /\ \A p, q \in parts : p # q => p.files \cap q.files = {} /\ p.name # q.name
     /\ IsAlbum(Root, {Root}, folders, flat) /\ folders # {} => parts = SinglePart(files)

(***************************************************************************)
(* The albums of a split release stay apart: after disambiguation no two   *)
(* parts have the same title, if no title carried a part's suffix before.  *)
(***************************************************************************)
PartsStayApart(files, title) ==
  LET parts == SplitReleaseParts(files)
      titles == [p \in parts |-> [text |-> title[p.name], suffix |-> {}]]
      after == Disambiguate(titles)
  IN \A p, q \in parts : p # q => after[p] # after[q]
=============================================================================
