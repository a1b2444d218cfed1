---------------------------- MODULE TrackPairing ----------------------------
(***************************************************************************)
(* Which file of an album becomes which track of a candidate.  The user's  *)
(* candidates (links, provider hits) and the candidates of beets are       *)
(* paired by two functions that put the files into playback order and      *)
(* align their lengths with the candidate's; where the files have no order *)
(* beets' matcher decides, and where a step fails the numbers do.          *)
(*                                                                         *)
(* A file is [tag, prefix, disc, name, length]: the number in its tag and  *)
(* the one its name begins with, the disc (tag or folder), its place in    *)
(* natural order of the names.  A row is [index, medium, place, length].   *)
(***************************************************************************)
EXTENDS Integers, FiniteSetsExt, Sequences

CONSTANTS
  Absent,        \* a number or a length that is not known
  Gap,           \* _ALIGNMENT_GAP_COST
  Neutral,       \* _ALIGNMENT_NEUTRAL_COST
  DriftWeight    \* _ALIGNMENT_DRIFT_WEIGHT

Abs(x) == IF x < 0 THEN -x ELSE x

---------------------------------------------------------------------------
(***************************************************************************)
(* Playback order                                                          *)
(***************************************************************************)

Less(k, l) == \E i \in DOMAIN k : k[i] < l[i] /\ \A j \in 1 .. i - 1 : k[j] = l[j]

\* The positions of a list in the order of their keys; equal keys stay in place.
OrderOf(keys) ==
  LET Rank(i) == Cardinality({j \in DOMAIN keys : Less(keys[j], keys[i])
                                                  \/ (keys[j] = keys[i] /\ j <= i)})
  IN [k \in DOMAIN keys |-> CHOOSE i \in DOMAIN keys : Rank(i) = k]

OnePerKey(key) == \A i, j \in DOMAIN key : i # j => key[i] # key[j]
OrZero(n) == IF n = Absent THEN 0 ELSE n

\* A track's number is that of its tag, or else of its name; a beets item knows
\* the tag alone, and there 0 means none.
Number(f) == IF f.tag # Absent THEN f.tag ELSE f.prefix
ItemNumber(f) == OrZero(f.tag)

Numbers(files) == [i \in DOMAIN files |-> <<Number(files[i])>>]
Places(files) == [i \in DOMAIN files |-> <<OrZero(files[i].disc), Number(files[i])>>]
ItemPlaces(files) == [i \in DOMAIN files |-> <<OrZero(files[i].disc), ItemNumber(files[i])>>]
Names(files) == [i \in DOMAIN files |-> <<OrZero(files[i].disc), files[i].name>>]

Numbered(files) == \A i \in DOMAIN files : Number(files[i]) # Absent

LocalsAreOrdered(files) ==
  DOMAIN files # {} /\ Numbered(files)
  /\ (OnePerKey(Numbers(files)) \/ OnePerKey(Places(files)))

ItemsAreOrdered(files) ==
  /\ DOMAIN files # {} /\ \A i \in DOMAIN files : ItemNumber(files[i]) # 0
  /\ \/ OnePerKey([i \in DOMAIN files |-> ItemNumber(files[i])])
     \/ OnePerKey(ItemPlaces(files))

\* Mutant: discs that repeat their numbers are shuffled into each other.
PlaybackOrderByNumber(files) ==
  IF Numbered(files) THEN OrderOf(Numbers(files)) ELSE OrderOf(Names(files))

\* The numbers where they are complete and each occurs once, then discs and
\* numbers, then discs and names.
PlaybackOrder(files) ==
  IF Numbered(files) /\ OnePerKey(Numbers(files)) THEN OrderOf(Numbers(files))
  ELSE IF Numbered(files) /\ OnePerKey(Places(files)) THEN OrderOf(Places(files))
  ELSE OrderOf(Names(files))

ItemOrder(files) ==
  OrderOf([i \in DOMAIN files |-> ItemPlaces(files)[i] \o <<files[i].name>>])

---------------------------------------------------------------------------
(***************************************************************************)
(* Alignment.  Costs are those of the code times n * m, to stay whole: a   *)
(* pair costs the difference of its lengths and of its relative positions. *)
(***************************************************************************)

MatchCost(ll, cl, i, j) ==
  LET n == Len(ll)  m == Len(cl) IN
  n * m * (IF Absent \in {ll[i], cl[j]} THEN Neutral ELSE Abs(ll[i] - cl[j]))
  + DriftWeight * Abs((i - 1) * m - (j - 1) * n)

\* The table of the cheapest way to each cell and the step that leads there: a
\* pair, else a file without a track, else a track without a file.
Table(ll, cl) ==
  LET gap == Gap * Len(ll) * Len(cl)
      Cell[at \in (0 .. Len(ll)) \X (0 .. Len(cl))] ==
        LET i == at[1]  j == at[2] IN
        IF i = 0 THEN [cost |-> j * gap, step |-> "track"]
        ELSE IF j = 0 THEN [cost |-> i * gap, step |-> "file"]
        ELSE LET pair == Cell[<<i - 1, j - 1>>].cost + MatchCost(ll, cl, i, j)
                 file == Cell[<<i - 1, j>>].cost + gap
                 track == Cell[<<i, j - 1>>].cost + gap
             IN IF pair <= file /\ pair <= track THEN [cost |-> pair, step |-> "pair"]
                ELSE IF file <= track THEN [cost |-> file, step |-> "file"]
                ELSE [cost |-> track, step |-> "track"]
  IN Cell

\* Back from the last cell: the pairs of positions that are aligned.
AlignOrderedLengths(ll, cl) ==
  LET table == Table(ll, cl)
      Back[at \in (0 .. Len(ll)) \X (0 .. Len(cl))] ==
        LET i == at[1]  j == at[2] IN
        IF i = 0 \/ j = 0 THEN {}
        ELSE CASE table[at].step = "pair" -> {at} \cup Back[<<i - 1, j - 1>>]
               [] table[at].step = "file" -> Back[<<i - 1, j>>]
               [] table[at].step = "track" -> Back[<<i, j - 1>>]
  IN Back[<<Len(ll), Len(cl)>>]

\* A beets item and its tracks have no length of 0: it is not known.
ItemLength(n) == IF n = 0 THEN Absent ELSE n
WithItemLengths(list) == [i \in DOMAIN list |-> [list[i] EXCEPT !.length = ItemLength(@)]]

Lengths(list) == [i \in DOMAIN list |-> list[i].length]

\* The pairs of an ordered alignment, as positions in the lists given.
PairByOrder(order, files, rows) ==
  LET sorted == [k \in DOMAIN order |-> files[order[k]].length] IN
  {<<order[p[1]], p[2]>> : p \in AlignOrderedLengths(sorted, Lengths(rows))}

---------------------------------------------------------------------------
(***************************************************************************)
(* The two pairings.  matched is the answer of beets' matcher, or Failed.  *)
(***************************************************************************)

Failed == "failed"

\* The last of several files, as in a dict built from the list.
LastOf(positions) == {i \in positions : \A j \in positions : j <= i}

\* A row takes the file in its place on its disc, or else the file of its number.
PairByTrackNumber(files, rows) ==
  LET InPlace(row) == LastOf({i \in DOMAIN files :
                                /\ Absent \notin {row.medium, files[i].disc, Number(files[i])}
                                /\ <<files[i].disc, Number(files[i])>> = <<row.medium, row.place>>})
      OfNumber(row) == LastOf({i \in DOMAIN files : Number(files[i]) = row.index})
      Taken(row) == IF InPlace(row) # {} THEN InPlace(row) ELSE OfNumber(row)
  IN UNION {Taken(rows[r]) \X {r} : r \in DOMAIN rows}

PairLocalTracks(files, rows, large, matched, alignFails) ==
  IF large \/ LocalsAreOrdered(files)
  THEN IF alignFails THEN PairByTrackNumber(files, rows)
       ELSE PairByOrder(PlaybackOrder(files), files, rows)
  ELSE IF matched = Failed THEN PairByTrackNumber(files, rows) ELSE matched

\* What replaces beets' own function in an analysis.  The user's candidates keep
\* a length of 0 as it is.
AssignItems(files, rows, large, matched, alignFails) ==
  IF ~large /\ (alignFails \/ ~ItemsAreOrdered(files)) THEN matched
  ELSE IF alignFails THEN {<<k, k>> : k \in DOMAIN files \cap DOMAIN rows}
  ELSE PairByOrder(ItemOrder(files), WithItemLengths(files), WithItemLengths(rows))

---------------------------------------------------------------------------
Monotone(pairs) ==
  \A p, q \in pairs : p # q => (p[1] < q[1] /\ p[2] < q[2]) \/ (q[1] < p[1] /\ q[2] < p[2])

\* Every way to pair some of n files with some of m tracks in order.
Matchings(n, m) == {pairs \in SUBSET ((1 .. n) \X (1 .. m)) : Monotone(pairs)}

AlignmentCost(ll, cl, pairs) ==
  MapThenSumSet(LAMBDA p : MatchCost(ll, cl, p[1], p[2]), pairs)
  + Gap * Len(ll) * Len(cl) * (Len(ll) + Len(cl) - 2 * Cardinality(pairs))

(***************************************************************************)
(* The table finds an alignment in order that no other one undercuts.      *)
(***************************************************************************)
AlignmentCheapest(ll, cl) ==
  LET pairs == AlignOrderedLengths(ll, cl) IN
  /\ Monotone(pairs)
  /\ \A other \in Matchings(Len(ll), Len(cl)) :
       AlignmentCost(ll, cl, pairs) <= AlignmentCost(ll, cl, other)

(***************************************************************************)
(* An album whose tags are numbered is in order for both pairings or for   *)
(* neither, and in the same order: a manual candidate and an automatic one *)
(* with the same tracks pair the same files. (Not so where a number or a   *)
(* length is 0, a number comes from the name, or numbers that run through  *)
(* the album go back from one disc to the next.)                           *)
(***************************************************************************)
Tagged(files) == \A i \in DOMAIN files : ItemNumber(files[i]) # 0
GoesBack(files) ==
  OnePerKey(Numbers(files)) /\ OrderOf(Numbers(files)) # OrderOf(Places(files))

NoLengthZero(list) == \A i \in DOMAIN list : list[i].length # 0

PairingsAgree(files, rows, large) ==
  Tagged(files) /\ ~GoesBack(files) =>
    /\ LocalsAreOrdered(files) <=> ItemsAreOrdered(files)
    /\ LocalsAreOrdered(files) /\ NoLengthZero(files) /\ NoLengthZero(rows) =>
         PairLocalTracks(files, rows, large, Failed, FALSE)
         = AssignItems(files, rows, large, Failed, FALSE)

(***************************************************************************)
(* A pairing of a numbered album never puts a later file before an earlier *)
(* one nor takes a file twice, also when the alignment fails. (By number   *)
(* alone it does, where the files of several discs repeat their numbers or *)
(* the rows do not go up, unless each row finds its place on its disc.)    *)
(***************************************************************************)
RankIn(order, i) == CHOOSE k \in DOMAIN order : order[k] = i
NumberedOnce(files, rows) ==
  OnePerKey(Numbers(files)) /\ \A r, s \in DOMAIN rows : r < s => rows[r].index < rows[s].index
AllInPlace(files, rows) ==
  /\ ~GoesBack(files)
  /\ \A r \in DOMAIN rows : \E i \in DOMAIN files :
       /\ Absent \notin {files[i].disc, rows[r].medium}
       /\ <<files[i].disc, Number(files[i])>> = <<rows[r].medium, rows[r].place>>

ChaptersInOrder(files, rows, large, alignFails) ==
  LocalsAreOrdered(files) /\ (alignFails => NumberedOnce(files, rows) \/ AllInPlace(files, rows))
  => Monotone({<<RankIn(PlaybackOrder(files), p[1]), p[2]>> :
                p \in PairLocalTracks(files, rows, large, Failed, alignFails)})
=============================================================================
