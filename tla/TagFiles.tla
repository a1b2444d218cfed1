------------------------------ MODULE TagFiles ------------------------------
(***************************************************************************)
(* The tag writers: what a value of a batch update becomes in the row of   *)
(* an item and in a FLAC, OGG, MP3 or M4A file. A track number is written  *)
(* as text, with or without a total: <<"5">> or <<"5", "12">>, each part   *)
(* a number, blank or something else.                                      *)
(***************************************************************************)
EXTENDS Naturals, Sequences

\* No track numbers: none, a blank part of a text, a part that is no number.
Absent == 97
Blank == 98
Junk == 99

Unset == <<>>   \* a file without the tag

\* The pair (number, total) of a text: none of either if a part is no number.
NormalizeTrackNumber(text) ==
  IF Junk \in {text[n] : n \in 1 .. Len(text)} THEN [track |-> Absent, total |-> Absent]
  ELSE [track |-> IF text[1] = Blank THEN Absent ELSE text[1],
        total |-> IF Len(text) = 1 \/ text[Len(text)] = Blank THEN Absent ELSE text[Len(text)]]

\* The row of an import item: an empty text clears it, a text whose first part
\* is no number leaves it.
RowTrack(row, text) ==
  IF text = <<Blank>> THEN Absent
  ELSE IF text[1] \in {Blank, Junk} THEN row ELSE text[1]

\* FLAC, OGG: a comment holds the text again, a blank one is deleted.
VorbisTrack(file, text) ==
  LET number == NormalizeTrackNumber(text) IN
  IF text = <<Blank>> THEN Unset
  ELSE IF number.track = Absent THEN file
  ELSE IF number.total = Absent THEN <<number.track>> ELSE <<number.track, number.total>>

\* MP3: the same in a frame.
Id3Track(file, text) ==
  IF text = <<Blank>> THEN Unset
  ELSE LET number == NormalizeTrackNumber(text) IN
       CASE number.track = Absent -> file
         [] number.track # Absent /\ number.total = Absent -> <<number.track>>
         [] OTHER -> <<number.track, number.total>>

\* M4A: a pair of numbers, 0 for no total.
Mp4Track(file, text) ==
  LET number == NormalizeTrackNumber(text) IN
  IF text = <<Blank>> THEN Unset
  ELSE IF number.track = Absent THEN file
  ELSE <<number.track, IF number.total = Absent THEN 0 ELSE number.total>>

\* What read_tags of the M4A writer makes of the pair: 0 of 0 is no number.
ReadMp4Track(file) ==
  CASE file = Unset -> Unset
    [] file # Unset /\ file[2] > 0 -> file
    [] file # Unset /\ file[2] = 0 -> IF file[1] > 0 THEN <<file[1]>> ELSE Unset

Number(tag) == IF tag = Unset THEN Absent ELSE tag[1]

---------------------------------------------------------------------------
(***************************************************************************)
(* Vorbis comments and their aliases                                       *)
(***************************************************************************)

\* The keys of the album artist, in the order mediafile reads them.
AliasKeys == <<"ALBUM ARTIST", "ALBUM_ARTIST", "ALBUMARTIST">>

\* Every alias gets the value; the empty value deletes every alias.
ApplyVorbisTag(comments, value) == [key \in DOMAIN comments |-> value]

\* mediafile: the first key that is not empty.
ReadAlias(comments) ==
  LET present == {n \in 1 .. Len(AliasKeys) : comments[AliasKeys[n]] # Absent} IN
  IF present = {} THEN Absent
  ELSE comments[AliasKeys[CHOOSE n \in present : \A m \in present : n <= m]]

---------------------------------------------------------------------------
(***************************************************************************)
(* After an update that succeeds the row and the file have the same track  *)
(* number in every format, if they had before and the total is one: with a *)
(* total that is no number the row changes and the file does not, and an   *)
(* M4A file cannot hold a track 0.                                         *)
(***************************************************************************)
TrackNumbersAgree(text, old) ==
  LET file == IF old = Absent THEN Unset ELSE <<old>>
      pair == IF old = Absent THEN Unset ELSE <<old, 0>>
      row == RowTrack(old, text)
  IN (text[1] \in {Blank, Junk} \/ text[Len(text)] # Junk) =>
       /\ Number(VorbisTrack(file, text)) = row
       /\ Number(Id3Track(file, text)) = row
       /\ row # 0 => Number(ReadMp4Track(Mp4Track(pair, text))) = row

(***************************************************************************)
(* What beets reads back as the album artist is the value written, or none *)
(* when it was cleared, whatever aliases another program left in the file. *)
(***************************************************************************)
AliasReadsBack(comments, value) == ReadAlias(ApplyVorbisTag(comments, value)) = value
=============================================================================
