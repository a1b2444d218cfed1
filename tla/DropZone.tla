------------------------------ MODULE DropZone ------------------------------
(***************************************************************************)
(* The clean-up of the import folder after a release was moved out of it:  *)
(* files with a listed extension go, loose images go when the album has a  *)
(* cover, the best one becomes the cover when it has none, and empty       *)
(* folders are pruned.                                                     *)
(*                                                                         *)
(* A zone is the files of the release folder, what else is in it (level 1) *)
(* and in its parents below the import folder, and its place: "inside" the *)
(* import folder, "outside" of it (or the folder itself), or "gone".  The  *)
(* release was imported to a sequence of albums, one for each part of it   *)
(* that was imported.                                                      *)
(***************************************************************************)
EXTENDS Naturals, FiniteSets, Sequences

CONSTANTS
  ImageExtensions,     \* COVER_IMAGE_EXTENSIONS
  SidecarExtensions    \* IMPORT_SIDECAR_EXTENSIONS, the list of a user who set none

\* Layers of settings, the later over the earlier; a block holds the keys that
\* are set, and its list of sidecars is whatever the user typed, in lower case and
\* with a leading dot.
OverlayConfig(target, block) ==
  [key \in DOMAIN target |-> IF key \in DOMAIN block THEN block[key] ELSE target[key]]

DefaultConfig ==
  [enabled |-> TRUE, sidecars |-> SidecarExtensions, deleteImages |-> TRUE, promote |-> TRUE]

\* resolve_import_cleanup_config: defaults, global block, block of the library.
ResolveConfig(global, library) == OverlayConfig(OverlayConfig(DefaultConfig, global), library)

\* Settings that cannot be read turn the clean-up off.
ReadConfig(readable, global, library) ==
  IF readable THEN ResolveConfig(global, library) ELSE [DefaultConfig EXCEPT !.enabled = FALSE]

---------------------------------------------------------------------------
Images(files) == {f \in files : f.ext \in ImageExtensions}
Listed(files, config) == {f \in files : f.ext \in config.sidecars}

\* _album_has_cover: a cover file in the album folder or art in its audio.
AlbumHasCover(album) == album.exists /\ (album.coverFile \/ album.embedded)

\* Cover-like names first, in their order, then by size.
Better(i, j) ==
  \/ i.named < j.named
  \/ i.named = j.named /\ i.size > j.size

PickPromotable(images) == CHOOSE i \in images : \A j \in images \ {i} : ~Better(j, i)

\* What cannot be removed stays; removals are tried one by one.
RemoveFiles(files, stuck) == files \cap stuck

\* The image is moved to the album unless its name is taken there.
Promoted(image, album, stuck) == album.exists /\ ~album.nameTaken /\ image \notin stuck

\* Mutant: the images are deleted whether the promotion worked or not.
HandleImagesAnyway(images, album, config, stuck) ==
  IF images = {} \/ ~config.deleteImages THEN [left |-> images, promoted |-> {}]
  ELSE [left |-> RemoveFiles(images, stuck), promoted |-> {}]

\* _handle_images: which images are left, and which became the cover.
HandleImages(images, album, config, stuck) ==
  IF images = {} \/ ~config.deleteImages THEN [left |-> images, promoted |-> {}]
  ELSE IF AlbumHasCover(album) THEN [left |-> RemoveFiles(images, stuck), promoted |-> {}]
  ELSE IF ~config.promote THEN [left |-> images, promoted |-> {}]
  ELSE LET best == PickPromotable(images) IN
       IF Promoted(best, album, stuck)
       THEN [left |-> RemoveFiles(images \ {best}, stuck), promoted |-> {best}]
       ELSE [left |-> images, promoted |-> {}]

\* The folders removed: the release (level 1) and its parents below the root,
\* upwards as long as nothing else is in them.
Pruned(others) == {level \in DOMAIN others : \A below \in 1 .. level : others[below] = {}}

\* prune_empty_drop_zone_folders alone, when the clean-up is turned off: it
\* removes an empty release folder wherever it is, parents only on the inside.
PruneOnly(zone) ==
  LET left == [zone.others EXCEPT ![1] = @ \cup zone.files]
      pruned == CASE zone.place = "inside" -> Pruned(left)
                  [] zone.place = "outside" -> Pruned(left) \cap {1}
                  [] OTHER -> {}
  IN [files |-> zone.files, promoted |-> {}, pruned |-> pruned]

\* cleanup_import_drop_zone: every file with a listed extension, images too,
\* then the images, by the cover of the album of the first part alone.
CleanUpInside(zone, albums, config, stuck) ==
  LET listed == Listed(zone.files, config)
      sorted == (zone.files \ listed) \cup RemoveFiles(listed, stuck)
      images == HandleImages(Images(sorted), albums[1], config, stuck)
      files == (sorted \ Images(sorted)) \cup images.left
  IN [files |-> files, promoted |-> images.promoted,
      pruned |-> Pruned([zone.others EXCEPT ![1] = @ \cup files])]

\* Step 5 of an import that moved the release. With the clean-up on, a release
\* that is not inside the import folder is not touched.
CleanUp(zone, albums, config, stuck) ==
  IF ~config.enabled THEN PruneOnly(zone)
  ELSE IF zone.place = "inside" THEN CleanUpInside(zone, albums, config, stuck)
  ELSE [files |-> zone.files, promoted |-> {}, pruned |-> {}]

\* _cleanup_import_drop_zone drops the rows of every file of the release when
\* the clean-up changed anything; a failure of the database is swallowed.
RowsDropped(zone, config, result, stored) ==
  IF /\ config.enabled /\ stored
     /\ result.files # zone.files \/ result.promoted # {} \/ result.pruned # {}
  THEN zone.files ELSE {}

---------------------------------------------------------------------------
(***************************************************************************)
(* No clean-up costs the album of the first part its only artwork: when    *)
(* the release had an image or the album a cover, then afterwards the      *)
(* album has a cover or an image is still in the import folder, whichever  *)
(* deletions or moves fail.  An image whose extension the user listed as a *)
(* sidecar does not count: the code deletes it first.                      *)
(***************************************************************************)
ArtworkKept(zone, albums, config, stuck) ==
  LET result == CleanUp(zone, albums, config, stuck)
      spared == Images(zone.files) \ (IF config.enabled THEN Listed(zone.files, config) ELSE {})
  IN spared # {} \/ AlbumHasCover(albums[1]) =>
       AlbumHasCover(albums[1]) \/ result.promoted # {} \/ Images(result.files) # {}

(***************************************************************************)
(* "Never at the cost of an album's only cover" (import_cleanup.py:10,     *)
(* beets_tasks.py:981), without exception.  It does not hold: a listed     *)
(* image extension deletes the only artwork, and the images of a release   *)
(* with several parts go when the album of the first part has a cover.     *)
(***************************************************************************)
NeverItsOnlyCover(zone, albums, config, stuck) ==
  LET result == CleanUp(zone, albums, config, stuck) IN
  \A part \in DOMAIN albums :
    Images(zone.files) # {} \/ AlbumHasCover(albums[part]) =>
      \/ AlbumHasCover(albums[part])
      \/ part = 1 /\ result.promoted # {}
      \/ Images(result.files) # {}

(***************************************************************************)
(* Only images and files with a listed extension are ever lost, and none   *)
(* where the library turned the clean-up off or the settings cannot be     *)
(* read; a file that is gone leaves no row behind unless the database      *)
(* failed; and a folder is pruned only when nothing is left in it.         *)
(***************************************************************************)
NothingElseLost(zone, albums, readable, global, library, stuck, stored) ==
  LET config == ReadConfig(readable, global, library)
      result == CleanUp(zone, albums, config, stuck)
      lost == zone.files \ result.files
  IN /\ result.files \subseteq zone.files
     /\ lost \subseteq Images(zone.files) \cup Listed(zone.files, config)
     /\ ~readable \/ ("enabled" \in DOMAIN library /\ ~library.enabled) => lost = {}
     /\ stored => lost \subseteq RowsDropped(zone, config, result, stored)
     /\ \A level \in result.pruned : zone.others[level] = {}
     /\ 1 \in result.pruned => result.files = {}
     /\ result.pruned # {} => 1 \in result.pruned
=============================================================================
