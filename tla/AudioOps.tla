------------------------------ MODULE AudioOps ------------------------------
(***************************************************************************)
(* Conversion of WAV tracks and removal of duplicate WAVs, on the folder   *)
(* of one album: before its import (convert_audio_task,                    *)
(* remove_duplicate_wavs_task) or after it (convert_imported_album_task,   *)
(* which also repoints the rows of beets).                                 *)
(*                                                                         *)
(* A Redis lock should keep operations on one album apart.  It expires     *)
(* (600 s before the import, where a task may run for 1800 s; 1860 s from  *)
(* the request on after it), and whoever ends deletes it, holder or not.   *)
(***************************************************************************)
EXTENDS Naturals

CONSTANTS
  Track,          \* tracks of the album
  Op,             \* audio operations that may be requested
  MaxAudioFaults, \* bound on failures and killed workers
  NoTrack, NoOp   \* absence of a track, of a lock holder

VARIABLES
  imported,  \* beets owns the album
  files,     \* the audio files of each track
  item,      \* the file the row of each track points at
  lock,      \* value of the lock key
  op,        \* the operations: kind, step, tracks to do, track at hand
  audioFaults,
  expired,   \* history: a lock expired before its operation had ended
  unlinked   \* history: a failed update removed a FLAC that another operation had made

audioVars == <<imported, files, item, lock, op, audioFaults, expired, unlinked>>

Format == {"wav", "flac"}

Kind == {"convert", "dedupe"}

OpPc == {"idle", "locked", "sent", "next", "transcode", "update", "delete", "remove",
         "report", "release", "done", "killed"}

OpStatus == {"none", "queued", "running", "completed", "failed"}

OpRecord == [pc : OpPc, kind : Kind, keep : BOOLEAN, todo : SUBSET Track,
             at : Track \cup {NoTrack}, status : OpStatus]

Init ==
  /\ imported \in BOOLEAN
  /\ files \in [Track -> {{"wav"}, Format}]
  /\ item = [t \in Track |-> "wav"]
  /\ lock = NoOp
  /\ op = [o \in Op |-> [pc |-> "idle", kind |-> "convert", keep |-> TRUE, todo |-> {},
                         at |-> NoTrack, status |-> "none"]]
  /\ audioFaults = 0
  /\ expired = FALSE
  /\ unlinked = FALSE

\* Between the start of the task and its end.
Working(o) == op[o].pc \in {"next", "transcode", "update", "delete", "remove", "report", "release"}

Fault == audioFaults < MaxAudioFaults /\ audioFaults' = audioFaults + 1

Goto(o, pc) == op' = [op EXCEPT ![o].pc = pc]

Wavs == {t \in Track : "wav" \in files[t]}

DuplicateWavs == {t \in Wavs : "flac" \in files[t]}

---------------------------------------------------------------------------
(***************************************************************************)
(* POST convert-audio, dedupe-wav, albums/{album_id}/convert-wav           *)
(***************************************************************************)

\* There is something to do (otherwise 400), and the lock is free (otherwise 409).
Acquire(o, kind, keep) ==
  /\ op[o].pc = "idle"
  /\ kind = "dedupe" => ~ imported /\ DuplicateWavs # {} /\ keep
  /\ kind = "convert" => IF imported THEN \E t \in Track : item[t] = "wav" ELSE Wavs # {}
  /\ lock = NoOp
  /\ lock' = o
  /\ op' = [op EXCEPT ![o].pc = "locked", ![o].kind = kind, ![o].keep = keep]
  /\ UNCHANGED <<imported, files, item, audioFaults, expired, unlinked>>

Dispatch(o) ==
  /\ op[o].pc = "locked"
  /\ op' = [op EXCEPT ![o].pc = "sent", ![o].status = "queued"]
  /\ UNCHANGED <<imported, files, item, lock, audioFaults, expired, unlinked>>

\* The message cannot be sent: the lock is released, the answer is 500.
DispatchFails(o) ==
  /\ op[o].pc = "locked" /\ Fault
  /\ lock' = NoOp
  /\ op' = [op EXCEPT ![o].pc = "done", ![o].status = "queued"]
  /\ UNCHANGED <<imported, files, item, expired, unlinked>>

\* The time to live runs from the request, through the wait in the broker.
Expire ==
  /\ lock # NoOp /\ op[lock].pc # "locked"
  /\ lock' = NoOp
  /\ expired' = (expired \/ op[lock].pc \notin {"killed", "done"})
  /\ UNCHANGED <<imported, files, item, op, audioFaults, unlinked>>

---------------------------------------------------------------------------
(***************************************************************************)
(* The tasks                                                               *)
(***************************************************************************)

\* The files to work on are listed once: WAVs on disk, duplicates among them,
\* or the rows of the album that point at one.
Start(o) ==
  /\ op[o].pc = "sent"
  /\ op' = [op EXCEPT ![o].pc = "next", ![o].status = "running",
       ![o].todo = IF op[o].kind = "dedupe" THEN DuplicateWavs
                   ELSE IF imported THEN {t \in Track : item[t] = "wav"} ELSE Wavs]
  /\ UNCHANGED <<imported, files, item, lock, audioFaults, expired, unlinked>>

\* The next file; an existing FLAC is never overwritten but skipped.
NextFile(o) ==
  /\ op[o].pc = "next"
  /\ \/ /\ op[o].todo = {}
        /\ Goto(o, "report")
     \/ \E t \in op[o].todo :
          op' = [op EXCEPT ![o].todo = @ \ {t}, ![o].at = t,
                   ![o].pc = IF op[o].kind = "dedupe" THEN "remove"
                             ELSE IF "flac" \in files[t] THEN "next" ELSE "transcode"]
  /\ UNCHANGED <<imported, files, item, lock, audioFaults, expired, unlinked>>

\* transcode_file: a temporary file, verified and renamed.  It fails when the
\* source has gone; a failure, the soft time limit among them, concerns the
\* one file only.
Transcode(o) ==
  /\ op[o].pc = "transcode"
  /\ IF "wav" \in files[op[o].at]
     THEN /\ files' = [files EXCEPT ![op[o].at] = @ \cup {"flac"}]
          /\ Goto(o, IF imported THEN "update" ELSE "delete")
     ELSE Goto(o, "next") /\ UNCHANGED files
  /\ UNCHANGED <<imported, item, lock, audioFaults, expired, unlinked>>

TranscodeFails(o) ==
  /\ op[o].pc = "transcode" /\ Fault
  /\ Goto(o, "next")
  /\ UNCHANGED <<imported, files, item, lock, expired, unlinked>>

\* The beets item is pointed at the FLAC and stored.
UpdateItem(o) ==
  /\ op[o].pc = "update"
  /\ item' = [item EXCEPT ![op[o].at] = "flac"]
  /\ Goto(o, "delete")
  /\ UNCHANGED <<imported, files, lock, audioFaults, expired, unlinked>>

\* The item is not stored: the FLAC is removed, "so disk matches the DB row,
\* which still points at the untouched WAV".
UpdateItemFails(o) ==
  /\ op[o].pc = "update" /\ Fault
  /\ files' = [files EXCEPT ![op[o].at] = @ \ {"flac"}]
  /\ unlinked' = (unlinked \/ item[op[o].at] = "flac"
                  \/ \E p \in Op \ {o} : op[p].at = op[o].at /\ op[p].pc \in {"update", "delete"})
  /\ Goto(o, "next")
  /\ UNCHANGED <<imported, item, lock, expired>>

\* Mutant: the original is removed without a look at its FLAC.
DeleteOriginalUnverified(o) ==
  /\ op[o].pc = "next" /\ op[o].at # NoTrack /\ ~ op[o].keep
  /\ files' = [files EXCEPT ![op[o].at] = @ \ {"wav"}]
  /\ op' = [op EXCEPT ![o].at = NoTrack]
  /\ UNCHANGED <<imported, item, lock, audioFaults, expired, unlinked>>

\* The original goes only once the FLAC is seen to exist.
DeleteOriginal(o) ==
  /\ op[o].pc = "delete"
  /\ files' = IF ~ op[o].keep /\ "flac" \in files[op[o].at]
              THEN [files EXCEPT ![op[o].at] = @ \ {"wav"}] ELSE files
  /\ Goto(o, "next")
  /\ UNCHANGED <<imported, item, lock, audioFaults, expired, unlinked>>

\* remove_duplicate_wavs: the listed file, without a second look at its twin.
RemoveDuplicate(o) ==
  /\ op[o].pc = "remove"
  /\ files' = [files EXCEPT ![op[o].at] = @ \ {"wav"}]
  /\ Goto(o, "next")
  /\ UNCHANGED <<imported, item, lock, audioFaults, expired, unlinked>>

\* Rescan or Emby refresh (neither raises), then status and activity.
Report(o) ==
  /\ op[o].pc = "report"
  /\ op' = [op EXCEPT ![o].pc = "release", ![o].status = "completed"]
  /\ UNCHANGED <<imported, files, item, lock, audioFaults, expired, unlinked>>

\* An exception outside the loop over the files, before it or in the report.
TaskFails(o) ==
  /\ op[o].pc \in {"next", "release"} /\ op[o].status # "failed" /\ Fault
  /\ op' = [op EXCEPT ![o].pc = "release", ![o].status = "failed"]
  /\ UNCHANGED <<imported, files, item, lock, expired, unlinked>>

\* finally: the key is deleted, whosever it is.
Release(o) ==
  /\ op[o].pc = "release"
  /\ lock' = NoOp
  /\ Goto(o, "done")
  /\ UNCHANGED <<imported, files, item, audioFaults, expired, unlinked>>

\* The hard limit (an operation that swallowed the soft one reaches it), or
\* a dead worker: status and lock stay until they expire.
Kill(o) ==
  /\ Working(o) /\ Fault
  /\ Goto(o, "killed")
  /\ UNCHANGED <<imported, files, item, lock, expired, unlinked>>

---------------------------------------------------------------------------
OpStep(o) ==
  \/ Dispatch(o) \/ Start(o) \/ NextFile(o) \/ Transcode(o) \/ UpdateItem(o)
  \/ DeleteOriginal(o) \/ RemoveDuplicate(o) \/ Report(o) \/ Release(o)

Next ==
  \/ \E o \in Op :
       \/ \E kind \in Kind, keep \in BOOLEAN : Acquire(o, kind, keep)
       \/ OpStep(o)
       \/ DispatchFails(o) \/ TranscodeFails(o) \/ UpdateItemFails(o) \/ TaskFails(o) \/ Kill(o)
  \/ Expire

Spec == Init /\ [][Next]_audioVars

---------------------------------------------------------------------------
TypeOK ==
  /\ imported \in BOOLEAN
  /\ files \in [Track -> SUBSET Format]
  /\ item \in [Track -> Format]
  /\ lock \in Op \cup {NoOp}
  /\ op \in [Op -> OpRecord]
  /\ audioFaults \in 0..MaxAudioFaults
  /\ expired \in BOOLEAN /\ unlinked \in BOOLEAN

\* wav_flac_service: "never the sole copy of a track".  No interleaving of
\* conversions and clean-ups, and no failure or dead worker, takes the last
\* file of a track, even when the lock no longer keeps two of them apart; the
\* one way to lose it is, under an expired lock, the removal of a FLAC that
\* another conversion made.
AudioKept == ~ (expired /\ unlinked) => \A t \in Track : files[t] # {}

\* A row of an imported album points at a file that exists, at every moment.
ItemHasFile == imported /\ ~ (expired /\ unlinked) => \A t \in Track : item[t] \in files[t]

\* Two operations work on the album at once only after a lock has expired
\* under its operation.
OneOpAtATime ==
  ~ expired => \A o, p \in Op : Working(o) /\ Working(p) => o = p

---------------------------------------------------------------------------
(***************************************************************************)
(* Why it is safe: the lock of an operation that has not ended is its own  *)
(* until it expires; before the import no step takes a FLAC away, so what  *)
(* was listed as a duplicate stays one; after it, the row of a track at    *)
(* hand is where the operation's step says.                                *)
(***************************************************************************)

Active(o) == op[o].pc \notin {"idle", "done", "killed"}

\* An expired lock is what every trouble begins with.
LockHeld ==
  ~ expired => ~ unlinked /\ \A o \in Op : Active(o) => lock = o

\* Which steps an operation can reach, and that they have a track at hand.
AtHand ==
  \A o \in Op :
    /\ op[o].pc \in {"transcode", "update", "delete", "remove"} => op[o].at \in Track
    /\ op[o].pc = "update" => imported
    /\ op[o].pc = "remove" => op[o].kind = "dedupe"
    /\ op[o].kind = "dedupe" => ~ imported
    /\ op[o].pc \in {"transcode", "update"} => op[o].at \notin op[o].todo

\* Before the import: no track without a file, and a FLAC beside every WAV
\* that a clean-up has on its list or at hand.
DuplicatesStay ==
  ~ imported =>
    /\ \A t \in Track : files[t] # {}
    /\ \A o \in Op :
         /\ op[o].kind = "dedupe" /\ Working(o) => \A t \in op[o].todo : "flac" \in files[t]
         /\ op[o].pc = "remove" => "flac" \in files[op[o].at]

\* After the import: every row has its file, the FLAC is there before the row
\* points at it, and the row points at it before the WAV goes.
RowsLead ==
  imported /\ ~ unlinked =>
    /\ \A t \in Track : item[t] \in files[t]
    /\ \A o \in Op :
         /\ op[o].pc \in {"update", "delete"} => "flac" \in files[op[o].at]
         /\ op[o].pc = "delete" => item[op[o].at] = "flac"

\* What a conversion listed still points at its WAV, until the lock expires.
ListedAsWav ==
  imported /\ ~ expired =>
    \A o \in Op :
      /\ Working(o) => \A t \in op[o].todo : item[t] = "wav"
      /\ op[o].pc \in {"transcode", "update"} => item[op[o].at] = "wav"

AudioInv == TypeOK /\ LockHeld /\ AtHand /\ DuplicatesStay /\ RowsLead /\ ListedAsWav
=============================================================================
