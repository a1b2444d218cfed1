------------------------------ MODULE Uploads ------------------------------
(***************************************************************************)
(* Uploads into the import folder. A request checks all its destinations   *)
(* for files that exist and then writes one after the other; between the   *)
(* check and the writes, and within every write, other requests run.       *)
(***************************************************************************)
EXTENDS Naturals, Sequences

CONSTANTS
  Path,            \* destinations, resolved
  Inside,          \* those that lie inside the import folder
  Existing,        \* those where a file lies before the first upload
  Request,         \* upload_files
  MaxUploadFaults  \* bound: writes and clean-ups that fail, processes that die

VARIABLES
  folder,    \* what lies at each path: Nothing or the requests whose bytes it holds
  upload,    \* each request: step, destinations, the one at work
  mingled,   \* history: requests with a path another request (or they) took as well
  left,      \* history: a request and the path of a file its clean-up could not remove
  uploadFaults

uploadVars == <<folder, upload, mingled, left, uploadFaults>>

\* A file: who wrote into it, whether its last writer has finished, and who
\* still has it open.
Nothing == [by |-> {}, whole |-> FALSE, open |-> {}]
Before == [by |-> {"before"}, whole |-> TRUE, open |-> {}]

UploadPc == {"new", "next", "writing", "clean", "ok", "failed", "invalid", "conflict", "dead"}

NoUpload == [pc |-> "new", paths |-> <<>>, at |-> 1]

Init ==
  /\ folder = [p \in Path |-> IF p \in Existing THEN Before ELSE Nothing]
  /\ upload = [u \in Request |-> NoUpload]
  /\ mingled = {} /\ left = {} /\ uploadFaults = 0

UploadFault == uploadFaults < MaxUploadFaults /\ uploadFaults' = uploadFaults + 1

Destinations(paths) == {paths[n] : n \in 1 .. Len(paths)}
At(u) == upload[u].paths[upload[u].at]
UploadGoto(u, pc) == upload' = [upload EXCEPT ![u].pc = pc]

---------------------------------------------------------------------------
\* validate_paths: every destination lies inside the import folder.
PathsValid(paths) == Destinations(paths) \subseteq Inside

\* Mutant: only the first destination is looked at.
ConflictsFirst(paths) == {p \in {paths[1]} : folder[p] # Nothing}

\* check_conflicts
Conflicts(paths) == {p \in Destinations(paths) : folder[p] # Nothing}

\* Requests at work that will write a path of this one, or remove it again.
Rivals(u, paths) ==
  {v \in Request \ {u} :
     /\ upload[v].pc \in {"next", "writing", "clean"}
     /\ Destinations(paths) \cap Destinations(upload[v].paths) # {}}

BeginUpload(u) ==
  /\ upload[u].pc = "new"
  /\ \E paths \in {<<p>> : p \in Path} \cup (Path \X Path) :
       LET pc == IF ~PathsValid(paths) THEN "invalid"
                 ELSE IF Conflicts(paths) # {} THEN "conflict" ELSE "next"
           twice == \E m, n \in 1 .. Len(paths) : m # n /\ paths[m] = paths[n]
       IN /\ upload' = [upload EXCEPT ![u] = [pc |-> pc, paths |-> paths, at |-> 1]]
          /\ mingled' = mingled \cup
               IF pc # "next" THEN {}
               ELSE {v \in Rivals(u, paths) : upload[v].pc # "clean"}
                    \cup (IF twice \/ Rivals(u, paths) # {} THEN {u} ELSE {})
  /\ UNCHANGED <<folder, left, uploadFaults>>

\* stream_to_file: the destination is created, or emptied.
OpenDestination(u) ==
  /\ upload[u].pc = "next"
  /\ folder' = [folder EXCEPT ![At(u)] = [by |-> {u}, whole |-> FALSE, open |-> @.open \cup {u}]]
  /\ UploadGoto(u, "writing")
  /\ UNCHANGED <<mingled, left, uploadFaults>>

\* What a request writes into a file that was removed is lost.
Written(u, file) ==
  IF u \in file.open
  THEN [by |-> file.by \cup {u}, whole |-> TRUE, open |-> file.open \ {u}] ELSE file

FinishDestination(u) ==
  /\ upload[u].pc = "writing"
  /\ folder' = [folder EXCEPT ![At(u)] = Written(u, @)]
  /\ upload' = [upload EXCEPT ![u].pc = IF upload[u].at = Len(upload[u].paths) THEN "ok" ELSE "next",
                              ![u].at = IF @ = Len(upload[u].paths) THEN @ ELSE @ + 1]
  /\ UNCHANGED <<mingled, left, uploadFaults>>

\* A full disk, a missing permission, an error while reading the body.
FailDestination(u) ==
  /\ upload[u].pc \in {"next", "writing"} /\ UploadFault
  /\ folder' = [folder EXCEPT ![At(u)].open = @ \ {u}]
  /\ UploadGoto(u, "clean")
  /\ UNCHANGED <<mingled, left>>

\* The files written before the one that failed are removed, by path, each for
\* itself: one that cannot be removed is logged and stays. What there is of the
\* file that failed stays as well.
CleanUpUpload(u) ==
  LET done == {upload[u].paths[n] : n \in 1 .. upload[u].at - 1} IN
  /\ upload[u].pc = "clean"
  /\ \E stays \in SUBSET {p \in done : folder[p] # Nothing} :
       /\ IF stays = {} THEN UNCHANGED uploadFaults ELSE UploadFault
       /\ folder' = [p \in Path |-> IF p \in done \ stays THEN Nothing ELSE folder[p]]
       /\ left' = left \cup ({u} \X stays)
  /\ UploadGoto(u, "failed")
  /\ UNCHANGED mingled

\* The process dies with every request in it.
DieUploading ==
  /\ \E u \in Request : upload[u].pc \in {"next", "writing", "clean"}
  /\ UploadFault
  /\ upload' = [u \in Request |-> IF upload[u].pc \in {"next", "writing", "clean"}
                                  THEN [upload[u] EXCEPT !.pc = "dead"] ELSE upload[u]]
  /\ folder' = [p \in Path |-> [folder[p] EXCEPT !.open = {}]]
  /\ UNCHANGED <<mingled, left>>

---------------------------------------------------------------------------
Next ==
  \/ \E u \in Request : \/ BeginUpload(u) \/ OpenDestination(u) \/ FinishDestination(u)
                        \/ FailDestination(u) \/ CleanUpUpload(u)
  \/ DieUploading

Spec == Init /\ [][Next]_uploadVars

\* Every variable keeps the type its comment gives.
TypeOK ==
  /\ folder \in [Path -> [by : SUBSET (Request \cup {"before"}), whole : BOOLEAN,
                          open : SUBSET Request]]
  /\ \A u \in Request : /\ upload[u].pc \in UploadPc /\ Len(upload[u].paths) <= 2
                        /\ Destinations(upload[u].paths) \subseteq Path
                        /\ upload[u].at \in 1 .. 2
  /\ mingled \subseteq Request /\ left \subseteq Request \X Path
  /\ uploadFaults \in 0 .. MaxUploadFaults

(***************************************************************************)
(* An upload that shares no path with another at work is all or nothing:   *)
(* answered with success, all its files lie there whole and its own; one   *)
(* that failed leaves at most what there is of the file it failed at, and  *)
(* the files whose removal failed too; a refused one leaves nothing, and   *)
(* no upload changes a file that lay there before. (Two uploads of one     *)
(* path pass check_conflicts together: the later write empties the file,   *)
(* and a failing one removes the other's.)                                 *)
(***************************************************************************)
UploadAllOrNothing ==
  /\ \A p \in Existing : folder[p] = Before
  /\ \A u \in Request \ mingled :
       LET mine == {p \in Path : u \in folder[p].by} IN
       CASE upload[u].pc = "ok" -> \A p \in Destinations(upload[u].paths) :
                                      folder[p].by = {u} /\ folder[p].whole
         [] upload[u].pc = "failed" -> mine \subseteq {At(u)} \cup {p \in Path : <<u, p>> \in left}
         [] upload[u].pc \in {"invalid", "conflict"} -> mine = {}
         [] OTHER -> TRUE

---------------------------------------------------------------------------
(***************************************************************************)
(* Why it holds: an upload that mingled with none has its paths, distinct, *)
(* to itself among all that still write or clean up, so what it wrote      *)
(* stays its own; and no admitted upload has a path that was taken.        *)
(***************************************************************************)
Count(u) == Len(upload[u].paths)

Admitted(u) == upload[u].pc \in {"next", "writing", "clean", "ok", "failed", "dead"}

\* The destinations it has finished, and with these the one at work.
Finished(u) == IF upload[u].pc = "ok" THEN 1 .. Count(u) ELSE 1 .. upload[u].at - 1
UpTo(u) == 1 .. upload[u].at

UploadTypeOK ==
  /\ TypeOK
  /\ upload \in [Request -> [pc : UploadPc, paths : Seq(Path), at : 1 .. 2]]
  /\ \A u \in Request : Admitted(u) => upload[u].at <= Count(u)

\* A file is written by admitted requests only, at a path of their own they
\* have come to, and is open to a request that writes it.
WritersKnown ==
  \A p \in Path, u \in Request :
    /\ u \in folder[p].by => Admitted(u) /\ \E n \in UpTo(u) : upload[u].paths[n] = p
    /\ u \in folder[p].open => upload[u].pc = "writing" /\ At(u) = p

ExistingKept ==
  /\ \A p \in Existing : folder[p] = Before
  /\ \A u \in Request : Admitted(u) =>
       \A n \in 1 .. Count(u) : upload[u].paths[n] \notin Existing

\* The paths of an upload that mingled with none are its own.
PathsApart ==
  \A u \in Request \ mingled : Admitted(u) =>
    /\ \A m, n \in 1 .. Count(u) : upload[u].paths[m] = upload[u].paths[n] => m = n
    /\ upload[u].pc \in {"next", "writing", "ok"} =>
         \A v \in Request \ {u} : upload[v].pc \in {"next", "writing", "clean"} =>
           \A m \in 1 .. Count(u), n \in 1 .. Count(v) :
             upload[u].paths[m] # upload[v].paths[n]

\* What it has finished lies there whole, what it writes is open to it, and
\* what it has cleaned up is gone unless it could not be removed.
OwnFilesWhole ==
  \A u \in Request \ mingled :
    /\ upload[u].pc \in {"next", "writing", "ok"} => \A n \in Finished(u) :
         folder[upload[u].paths[n]].by = {u} /\ folder[upload[u].paths[n]].whole
    /\ upload[u].pc = "writing" => folder[At(u)].by = {u} /\ u \in folder[At(u)].open
    /\ upload[u].pc = "failed" => \A p \in Path :
         u \in folder[p].by => p = At(u) \/ <<u, p>> \in left

UploadInv == UploadTypeOK /\ WritersKnown /\ ExistingKept /\ PathsApart /\ OwnFilesWhole
=============================================================================
