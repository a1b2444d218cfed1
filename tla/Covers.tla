------------------------------- MODULE Covers -------------------------------
(***************************************************************************)
(* The cover of one album: its image files, the artpath column of beets,   *)
(* and the discovered path that Redis remembers for seven days.  Written   *)
(* by uploads (the two routes of libraries.py, and download_cover_to_album *)
(* of an import, in a worker) and by backfill_cover_art_task; read by      *)
(* get_album_cover, which remembers what it finds, "no cover" included.    *)
(***************************************************************************)
EXTENDS FiniteSets, Integers

CONSTANT Upload      \* replacements of the cover: a request, or an import's download

VARIABLES
  files,      \* the pictures of the folder, by name
  stem,       \* art_filename of the library's configuration: "known" to discovery or "other"
  artpath,    \* albums.artpath
  cache,      \* discovered cover art in Redis
  upload,     \* the step of each upload, and the extension of its picture
  backfill,   \* the step of backfill_cover_art_task and what it read
  reader,     \* a request for the cover that is about to remember what it found
  standing,   \* history: the upload that was answered last, undisturbed
  disturbed,  \* history: the uploads that overlapped another writer
  outside,    \* a picture was put or removed by hand (once, a bound)
  unseen      \* history: a cover came behind the cache, a write failed or two overlapped

vars == <<files, stem, artpath, cache, upload, backfill, reader, standing, disturbed,
          unseen, outside>>
history == <<standing, disturbed, unseen, outside>>

Nothing == "nothing"      \* no file, no path, a NULL column, no key
NoCover == "no cover"     \* the empty string in Redis
Name == {"art.jpg", "art.png", "cover.jpg", "00-scene.jpg"}
Own == {"art.jpg", "art.png"}
Found == "found"          \* a picture that was there, or is embedded in a track
Picture == Upload \cup {Found, Nothing}

Recognised == {"cover.jpg"} \cup (IF stem = "known" THEN Own ELSE {})
Exists(n) == n \in Name /\ files[n] # Nothing
Images == {n \in Name : Exists(n)}
Shown == Recognised \cap Images      \* the covers that are recognised

TypeOK ==
  /\ files \in [Name -> Picture]
  /\ stem \in {"known", "other"}
  /\ artpath \in Name \cup {Nothing}
  /\ cache \in Name \cup {Nothing, NoCover}
  /\ upload \in [Upload -> [pc : {"start", "variants", "artpath", "cache", "done"},
                            name : Own]]
  /\ backfill \in [pc : {"idle", "album", "write", "artpath", "cache"},
                   stored : Name \cup {Nothing}, cover : Name \cup {Nothing}]
  /\ reader \in Name \cup {Nothing, NoCover}
  /\ standing \in Upload \cup {Nothing}
  /\ disturbed \subseteq Upload
  /\ unseen \in BOOLEAN /\ outside \in BOOLEAN

Rest == [pc |-> "idle", stored |-> Nothing, cover |-> Nothing]

Init ==
  /\ files \in {[n \in Name |-> IF n \in S THEN Found ELSE Nothing]
                  : S \in SUBSET {"cover.jpg", "00-scene.jpg"}}
  /\ stem \in {"known", "other"}
  /\ artpath = Nothing /\ cache = Nothing
  /\ upload \in [Upload -> [pc : {"start"}, name : Own]]
  /\ backfill = Rest /\ reader = Nothing
  /\ standing = Nothing /\ disturbed = {} /\ unseen = FALSE /\ outside = FALSE

At(u) == upload[u].pc \in {"variants", "artpath", "cache"}
UploadGo(u, step) == upload' = [upload EXCEPT ![u].pc = step]

-----------------------------------------------------------------------------
(* Uploads                                                                 *)

\* write_cover_file renames a finished file to the configured stem.
Replaced(u) == [files EXCEPT ![upload[u].name] = u]

\* The picture has been received, checked, and the folder of the album found.
WriteCover(u) ==
  /\ upload[u].pc = "start"
  /\ files' = Replaced(u)
  /\ UploadGo(u, "variants")
  /\ standing' = Nothing
  /\ LET rivals == {v \in Upload : At(v)}
     IN disturbed' = disturbed \cup rivals
          \cup (IF rivals # {} \/ backfill.pc # "idle" THEN {u} ELSE {})
  /\ UNCHANGED <<stem, artpath, cache, backfill, reader, unseen, outside>>

\* Every other recognised variant goes: those of the configured stem count, too.
RemoveVariants(u) ==
  /\ upload[u].pc = "variants"
  /\ files' = [n \in Name |-> IF n \in (Recognised \cup Own) \ {upload[u].name}
                                THEN Nothing ELSE files[n]]
  /\ UploadGo(u, "artpath")
  /\ UNCHANGED <<stem, artpath, cache, backfill, reader, history>>

\* Mutant: only an empty column is filled in.
FillArtpath(u) == artpath' = IF artpath = Nothing THEN upload[u].name ELSE artpath
UpdateArtpath(u) == artpath' = upload[u].name

SetArtpath(u) ==
  /\ upload[u].pc = "artpath"
  /\ UpdateArtpath(u)
  /\ UploadGo(u, "cache")
  /\ UNCHANGED <<files, stem, cache, backfill, reader, history>>

Finish(u) ==
  /\ upload[u].pc = "cache"
  /\ UploadGo(u, "done")
  /\ standing' = IF u \in disturbed THEN Nothing ELSE u
  /\ unseen' = (unseen \/ u \in disturbed)
  /\ disturbed' = disturbed \ {u}
  /\ UNCHANGED <<files, stem, artpath, backfill, reader, outside>>

\* The two routes overwrite what was remembered; the import's download does not.
Answer(u) == Finish(u) /\ cache' = upload[u].name
Attach(u) == Finish(u) /\ UNCHANGED cache

\* The database is locked, or the process ends: the files stay as they are.  (A step
\* that fails is not followed by another before the cache has expired: a bound.)
UploadFails(u) ==
  /\ At(u) /\ ~unseen
  /\ UploadGo(u, "done")
  /\ unseen' = TRUE
  /\ disturbed' = disturbed \ {u}
  /\ UNCHANGED <<files, stem, artpath, cache, backfill, reader, standing, outside>>

-----------------------------------------------------------------------------
(* backfill_cover_art_task                                                 *)

\* All the artpaths are read first; an album comes up when those before it are done.
Snapshot ==
  /\ backfill.pc = "idle"
  /\ backfill' = [pc |-> "album", stored |-> artpath, cover |-> Nothing]
  /\ disturbed' = disturbed \cup {u \in Upload : At(u)}
  /\ UNCHANGED <<files, stem, artpath, cache, upload, reader, standing, unseen, outside>>

\* A scene picture, or the only stray one, if there is no recognised cover.
Candidates ==
  LET stray == Images \ Recognised
  IN IF "00-scene.jpg" \in stray THEN {"00-scene.jpg"}
     ELSE IF Cardinality(stray) = 1 THEN stray ELSE {}

\* The cover there is, or a picture to be copied (or taken from a track) under the
\* configured name; a stray picture that has this name is left where it is.
Resolve ==
  \/ \E n \in Shown : backfill' = [backfill EXCEPT !.pc = "artpath", !.cover = n]
  \/ /\ Shown = {}
     /\ \/ \E n \in Candidates :
             backfill' = IF n \in Own
                           THEN [backfill EXCEPT !.pc = "artpath", !.cover = n]
                           ELSE [backfill EXCEPT !.pc = "write", !.cover = "art.jpg"]
        \/ Candidates = {} /\ backfill' \in {Rest, [backfill EXCEPT !.pc = "write", !.cover = "art.jpg"]}

VisitAlbum ==
  /\ backfill.pc = "album"
  /\ IF Exists(backfill.stored) THEN backfill' = Rest ELSE Resolve
  /\ UNCHANGED <<files, stem, artpath, cache, upload, reader, history>>

Promote ==
  /\ backfill.pc = "write"
  /\ files' = [files EXCEPT ![backfill.cover] = Found]
  /\ backfill' = [backfill EXCEPT !.pc = "artpath"]
  /\ UNCHANGED <<stem, artpath, cache, upload, reader, history>>

BackfillArtpath ==
  /\ backfill.pc = "artpath"
  /\ artpath' = backfill.cover
  /\ backfill' = [backfill EXCEPT !.pc = "cache"]
  /\ UNCHANGED <<files, stem, cache, upload, reader, history>>

BackfillCache ==
  /\ backfill.pc = "cache"
  /\ cache' = backfill.cover
  /\ backfill' = Rest
  /\ UNCHANGED <<files, stem, artpath, upload, reader, history>>

\* A locked database is logged; the next album follows.
BackfillFails ==
  /\ backfill.pc = "artpath" /\ ~unseen
  /\ backfill' = Rest
  /\ unseen' = TRUE
  /\ UNCHANGED <<files, stem, artpath, cache, upload, reader, standing, disturbed, outside>>

-----------------------------------------------------------------------------
(* get_album_cover, and what happens from outside                          *)

\* Neither the column nor the cache leads to a file: the folder is searched.
Discover ==
  /\ reader = Nothing
  /\ ~Exists(artpath) /\ cache # NoCover /\ ~Exists(cache)
  /\ reader' \in IF Shown = {} THEN {NoCover} ELSE Shown
  /\ UNCHANGED <<files, stem, artpath, cache, upload, backfill, history>>

Remember ==
  /\ reader # Nothing
  /\ cache' = reader /\ reader' = Nothing
  /\ UNCHANGED <<files, stem, artpath, upload, backfill, history>>

Expire ==
  /\ cache # Nothing
  /\ cache' = Nothing
  /\ unseen' = (unseen /\ reader = NoCover)
  /\ UNCHANGED <<files, stem, artpath, upload, backfill, reader, standing, disturbed, outside>>

\* Somebody puts a cover into the folder, or removes a picture.
PutCover ==
  /\ ~outside /\ outside' = TRUE
  /\ files["cover.jpg"] = Nothing
  /\ files' = [files EXCEPT !["cover.jpg"] = Found]
  /\ unseen' = (unseen \/ cache = NoCover \/ reader = NoCover)
  /\ UNCHANGED <<stem, artpath, cache, upload, backfill, reader, standing, disturbed>>

RemovePicture ==
  /\ ~outside /\ outside' = TRUE
  /\ \E n \in Images : /\ files' = [files EXCEPT ![n] = Nothing]
                       /\ standing' = IF files[n] = standing THEN Nothing ELSE standing
  /\ disturbed' = disturbed \cup {u \in Upload : At(u)}
  /\ UNCHANGED <<stem, artpath, cache, upload, backfill, reader, unseen>>

Next ==
  \/ \E u \in Upload : WriteCover(u) \/ RemoveVariants(u) \/ SetArtpath(u)
                      \/ Answer(u) \/ Attach(u) \/ UploadFails(u)
  \/ Snapshot \/ VisitAlbum \/ Promote \/ BackfillArtpath \/ BackfillCache \/ BackfillFails
  \/ Discover \/ Remember \/ Expire \/ PutCover \/ RemovePicture

Spec == Init /\ [][Next]_vars

-----------------------------------------------------------------------------
\* What get_album_cover answers in this state.
Served ==
  IF Exists(artpath) THEN {files[artpath]}
  ELSE IF Exists(cache) THEN {files[cache]}
  ELSE IF cache = NoCover \/ Shown = {} THEN {Nothing}
  ELSE {files[n] : n \in Shown}

(* An upload that was answered, and that no other writer overlapped, is    *)
(* the picture every later request gets, whatever the backfill and the     *)
(* cache do afterwards, until it is replaced or removed; and a recognised  *)
(* cover of the folder is found, unless it came behind a remembered "no    *)
(* cover" or a write of the database failed (write_cover_file,             *)
(* get_album_cover_path_with_fallback, backfill_cover_art_task).           *)
CoverServed ==
  /\ standing # Nothing => Served = {standing}
  /\ Shown # {} /\ ~unseen /\ (\A u \in Upload : ~At(u)) /\ backfill.pc = "idle"
       => Nothing \notin Served

-----------------------------------------------------------------------------
(* Why it holds: an upload that nothing disturbs has the album to itself   *)
(* and leads the column to its picture, and the backfill goes past a       *)
(* column that leads to one; and while "no cover" is remembered or about   *)
(* to be, a recognised cover can only be one the column leads to.          *)
UploadAlone ==
  \A u \in Upload \ disturbed : At(u) =>
    /\ backfill.pc = "idle" /\ \A v \in Upload : At(v) => v = u
    /\ files[upload[u].name] = u
    /\ upload[u].pc = "cache" => artpath = upload[u].name

CoverStands ==
  standing # Nothing =>
    /\ Exists(artpath) /\ files[artpath] = standing
    /\ \A u \in Upload : ~At(u)
    /\ backfill.pc = "idle" \/ (backfill.pc = "album" /\ backfill.stored = artpath)

NoCoverAbout == (cache = NoCover \/ reader = NoCover) /\ ~unseen

\* Whatever recognised cover there is, n leads to one, and to the only one while
\* pictures may still vanish.
LeadsTo(n) ==
  Shown # {} =>
    Exists(n) /\ (~outside => Shown = {n})

NoCoverTrue ==
  NoCoverAbout =>
    /\ \A u \in Upload \ disturbed :
         upload[u].pc \in {"artpath", "cache"} => Shown \subseteq {upload[u].name}
    /\ (\A u \in Upload : ~At(u)) =>
         /\ backfill.pc \in {"idle", "album", "cache"} => LeadsTo(artpath)
         /\ backfill.pc = "write" => Shown = {}
         /\ backfill.pc = "artpath" => LeadsTo(backfill.cover)

\* A picture is copied under the configured name.
CopyNamed == backfill.pc = "write" => backfill.cover = "art.jpg"

CoverInv == TypeOK /\ CopyNamed /\ UploadAlone /\ CoverStands /\ NoCoverTrue
=============================================================================
