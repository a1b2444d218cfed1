----------------------------- MODULE MCRecords -----------------------------
(***************************************************************************)
(* The components that keep what the user is told - rows, settings, tags,  *)
(* watchers, cached answers - each on small sets: in a behaviour one of    *)
(* them (part) works alone and keeps its variables in v1, v2, ... in the   *)
(* order of its module; the scans of ScanItems keep their own.  Algorithms *)
(* without state are asked one question: the input is v1, and v2 says that *)
(* it was put.                                                             *)
(***************************************************************************)
EXTENDS ScanItems, Integers, Sequences, TLC

CONSTANTS
  f1, f2, s1, s2, s3,              \* ScanItems: files and scans
  Event,                           \* TaskEvents: tasks
  Album, Name, AlbumsOf, AlbumSize, \* AlbumSync: albums, by name; their files
  MoveAttempts, MaxSyncFaults,
  Item, Batch, Value, OldValue,    \* BatchTag: items, requests, values of the tag
  MaxWriteFaults,
  Library, Request, SettingsRow,   \* Settings: libraries, requests, rows of the table
  MaxChanges,
  Process, MaxWatcherFaults,       \* Watcher: processes of the pool
  Editor, MaxFileChanges,          \* LibraryConfig: clients, changes from outside
  Addition, Analysis, Provider,    \* CandidateCache: manual candidates, analyses, providers
  LibraryOf, HitsOf, Known,        \* CandidateSearch: whose analysis, and what can be found
  MaxResolves

\* Faults and changes are counted.
ASSUME CountAssumption ==
  /\ MaxWriteFaults \in Nat /\ MaxChanges \in Nat /\ MaxWatcherFaults \in Nat
  /\ MaxFileChanges \in Nat /\ MaxResolves \in Nat

\* A batch names the albums of at least one name, and an album has one name.
ASSUME AlbumAssumption ==
  /\ IsFiniteSet(Name) /\ Name # {} /\ Name = 1 .. Cardinality(Name)
  /\ AlbumsOf \in [Name -> SUBSET Album] /\ "no album" \notin Album /\ IsFiniteSet(Album)
  /\ \A m, n \in Name : m # n => AlbumsOf[m] \cap AlbumsOf[n] = {}
  /\ AlbumSize \in Nat /\ MoveAttempts \in Nat \ {0} /\ MaxSyncFaults \in Nat

\* No row and no candidate are none.
ASSUME AbsenceAssumption == "none" \notin SettingsRow /\ "none" \notin Addition

\* The autotagger finds a release of a source once; none of its candidates comes
\* from a hit.
ASSUME KnownAssumption ==
  /\ LibraryOf \in [Analysis -> Library] /\ "spotify" \in Provider
  /\ \A c \in Known : c.from = 0
  /\ \A c, d \in Known : c.source = d.source /\ c.id = d.id => c = d

VARIABLES part, v1, v2, v3, v4, v5, v6, v7, v8, v9, v10

Symmetry == Permutations(File) \cup Permutations(Scan)

\* Values of constants: one album with a name of its own and two that share one;
\* an analysis in each of two libraries; three releases, of which the autotagger
\* may find one.
OneAlbumAndTwo == 1 :> {"a1"} @@ 2 :> {"a2", "a3"}
OneEach == "a1" :> "l1" @@ "a2" :> "l2"
TwoAndOne == "discogs" :> {1, 2} @@ "spotify" :> {1}
OneRelease == {[source |-> "discogs", id |-> 1, from |-> 0]}

Activity == INSTANCE TaskEvents WITH
  event <- v1, eventRow <- v2, index <- v3, progress <- v4, aged <- v5, silent <- v6,
  overtaken <- v7, cleanup <- v8

Sync == INSTANCE AlbumSync WITH
  Files <- AlbumSize,
  written <- v1, misplaced <- v2, renamed <- v3, syncJob <- v4, syncTask <- v5, results <- v6,
  uncounted <- v7, softLimit <- v8, syncFaults <- v9, counted <- v10

Tagging == INSTANCE BatchTag WITH
  itemRow <- v1, itemFile <- v2, gone <- v3, batch <- v4, failedOnce <- v5, overlapped <- v6,
  writeFaults <- v7

Setting == INSTANCE Settings WITH
  Change <- Request, Row <- SettingsRow,
  document <- v1, change <- v2, answered <- v3, raced <- v4, changes <- v5, lost <- v6

Watch == INSTANCE Watcher WITH
  watch <- v1, timer <- v2, wstate <- v3, heartbeat <- v4, debounce <- v5, folder <- v6,
  blocked <- v7, resumed <- v8, givenUp <- v9, watcherFaults <- v10

Config == INSTANCE LibraryConfig WITH file <- v1, editor <- v2, fileChanges <- v3

Answers == INSTANCE CandidateCache WITH
  cached <- v1, analysis <- v2, addition <- v3, standing <- v4

Search == INSTANCE CandidateSearch WITH
  configured <- v1, lock <- v2, loaded <- v3, thread <- v4, work <- v5, answer <- v6

Pairing == INSTANCE TrackPairing WITH Absent <- -1, Gap <- 30, Neutral <- 5, DriftWeight <- 10
Tags == INSTANCE TagRules
Files == INSTANCE TagFiles

\* The variables from the n-th on, and their rest while a part has fewer.
From3 == <<v3, v4, v5, v6, v7, v8, v9, v10>>
From4 == <<v4, v5, v6, v7, v8, v9, v10>>
From5 == <<v5, v6, v7, v8, v9, v10>>
From6 == <<v6, v7, v8, v9, v10>>
From7 == <<v7, v8, v9, v10>>
From8 == <<v8, v9, v10>>
From9 == <<v9, v10>>
Slots == <<v1, v2, From3>>
Rest10 == v10 = "unused"
Rest9 == v9 = "unused" /\ Rest10
Rest8 == v8 = "unused" /\ Rest9
Rest7 == v7 = "unused" /\ Rest8
Rest6 == v6 = "unused" /\ Rest7
Rest5 == v5 = "unused" /\ Rest6
Rest4 == v4 = "unused" /\ Rest5
Rest3 == v3 = "unused" /\ Rest4
Rest1 == v1 = "unused" /\ v2 = "unused" /\ Rest3

-----------------------------------------------------------------------------
(* Two items whose tags two rules change, three items to number, track     *)
(* texts of one and two parts, and a file that spells a tag three ways.    *)
RuleTags == {"title", "album"}
RuleItem == {[id |-> i, kind |-> "file", dir |-> 1, name |-> n,
              tags |-> [t \in RuleTags |-> IF t = "title" THEN v ELSE 2]] :
             i \in 1 .. 2, n \in 1 .. 2, v \in 0 .. 1}
Rules == [tag : RuleTags, mode : {"fixed"}, value : 0 .. 1]
         \cup [tag : {"album"}, mode : {"regex"}, source : RuleTags,
               table : [1 .. 2 -> {Tags!NoMatch, Tags!Timeout, 1}]]
         \cup [tag : {"title"}, mode : {"sequence"}, start : {1}, perDirectory : BOOLEAN]
         \cup [tag : {"title"}, mode : {"explicit"}, values : [{1} -> 0 .. 2]]
RuleInputs == [alg : {"rules"}, items : {s \in [1 .. 2 -> RuleItem] : s[1].id # s[2].id},
               rules : UNION {[1 .. n -> Rules] : n \in 1 .. 2}]

NumberItem == [id : 1 .. 3, kind : {"file", "album"}, dir : 1 .. 2, name : 1 .. 2,
               tags : {[t \in RuleTags |-> 0]}]
NumberInputs ==
  [alg : {"numbers"},
   items : {s \in [1 .. 3 -> NumberItem] : \A a, b \in 1 .. 3 : a # b => s[a].id # s[b].id},
   rule : [start : {1, 3}, perDirectory : BOOLEAN, mode : {"sequence"}, tag : {"title"}]]

TextPart == {0, 5, 12, Files!Blank, Files!Junk}
TrackInputs == [alg : {"track"}, text : UNION {[1 .. n -> TextPart] : n \in 1 .. 2},
                old : {1, Files!Absent}]
AliasKey == {Files!AliasKeys[n] : n \in 1 .. 3}
AliasInputs == [alg : {"alias"}, comments : [AliasKey -> {1, 2, Files!Absent}],
                value : {1, Files!Absent}]

(* Lengths of up to three files and tracks, one of them unknown; albums of *)
(* three files with every tag, number in the name and disc (but the third  *)
(* is not of disc 1), the first one perhaps of no length, against releases *)
(* of one disc, whose first track has a length that is unknown or 0, and   *)
(* one of two.                                                             *)
LengthList == UNION {[1 .. n -> {-1, 20, 90}] : n \in 0 .. 3}
AlignInputs == [alg : {"align"}, files : LengthList, rows : LengthList]

SomeNumber == [tag : 0 .. 2, prefix : {-1}] \cup [tag : {-1}, prefix : {-1, 1}]
SomeFile(i) == {[tag |-> n.tag, prefix |-> n.prefix, disc |-> d,
                 name |-> (i % 3) + 1, length |-> l] :
                n \in SomeNumber, d \in {-1, 1, 2} \ (IF i = 3 THEN {1} ELSE {}),
                l \in {25 * i} \cup (IF i = 1 THEN {0} ELSE {})}
SomeRow(i, d, k, l) == [index |-> i, medium |-> d, place |-> k, length |-> l]
OneDisc(l) == [i \in 1 .. 4 |-> SomeRow(i, -1, -1, IF i = 1 THEN l ELSE 25 * i)]
Release == {OneDisc(-1), OneDisc(0),
            <<SomeRow(1, 1, 1, 25), SomeRow(2, 1, 2, 50), SomeRow(1, 2, 1, 75)>>}
PairInputs == [alg : {"pair"}, files : {<<a, b, c>> : a \in SomeFile(1), b \in SomeFile(2),
                                                      c \in SomeFile(3)}, rows : Release]

Inputs == RuleInputs \cup NumberInputs \cup TrackInputs \cup AliasInputs
          \cup AlignInputs \cup PairInputs

Ask == v2 = FALSE /\ v2' = TRUE /\ UNCHANGED <<v1, From3>>

-----------------------------------------------------------------------------
NoScans == disk = {} /\ scan = [s \in Scan |-> NotStarted] /\ row = [f \in File |-> NoRow]
           /\ faults = 0

RecordsInit ==
  \/ part = "items" /\ Init /\ Rest1
  \/ /\ NoScans
     /\ \/ part = "events" /\ Activity!Init /\ Rest9
        \/ part = "sync" /\ Sync!Init
        \/ part = "tagging" /\ Tagging!Init /\ Rest8
        \/ part = "settings" /\ Setting!Init /\ Rest7
        \/ part = "watcher" /\ Watch!Init
        \/ part = "config" /\ Config!Init /\ Rest4
        \/ part = "answers" /\ Answers!Init /\ Rest5
        \/ part = "search" /\ Search!Init /\ Rest7
        \/ part = "ask" /\ v1 \in Inputs /\ v2 = FALSE /\ Rest3

RecordsNext ==
  /\ UNCHANGED part
  /\ \/ part = "items" /\ Next /\ UNCHANGED Slots
     \/ /\ UNCHANGED vars
        /\ \/ part = "events" /\ Activity!Next /\ UNCHANGED From9
           \/ part = "sync" /\ Sync!Next
           \/ part = "tagging" /\ Tagging!Next /\ UNCHANGED From8
           \/ part = "settings" /\ Setting!Next /\ UNCHANGED From7
           \/ part = "watcher" /\ Watch!Next
           \/ part = "config" /\ Config!Next /\ UNCHANGED From4
           \/ part = "answers" /\ Answers!Next /\ UNCHANGED From5
           \/ part = "search" /\ Search!Next /\ UNCHANGED From7
           \/ part = "ask" /\ Ask

RecordsSpec == RecordsInit /\ [][RecordsNext]_<<part, Slots, vars>>

-----------------------------------------------------------------------------
\* Every component keeps the types of its variables.
RecordsTypeOK ==
  /\ TypeOK
  /\ CASE part = "events" -> Activity!TypeOK
       [] part = "sync" -> Sync!TypeOK
       [] part = "tagging" -> Tagging!TypeOK
       [] part = "settings" -> Setting!TypeOK
       [] part = "watcher" -> Watch!TypeOK
       [] part = "config" -> Config!TypeOK
       [] part = "answers" -> Answers!TypeOK
       [] part = "search" -> Search!TypeOK
       [] part = "ask" -> v2 \in BOOLEAN
       [] OTHER -> v1 = "unused"

\* Activity monitor: a running task is listed as active, and the history never
\* calls failed what ended well, but for the races the module names.
ActivityFaithful == part = "events" => Activity!ActiveFaithful /\ Activity!HistoryFaithful

\* batch-update-albums: an album reported as moved has its files where the
\* database says, and the summary of an ended job adds up to its albums though the
\* soft time limit ends it, unless the limit made the task count one both ways.
SyncHonest == part = "sync" => Sync!MovedWhenReported /\ Sync!SyncSummaryHonest

\* batch-update stream: once it is quiet the row of an item and the tag in its
\* file differ only where some stream reported a failed write, a client went
\* away, or two streams crossed.
DivergenceExplained == part = "tagging" => Tagging!DivergenceExplained

\* User settings: a setting reads as the last request to set it was answered, in
\* the one row of the table, but for what overlapping requests and the auto-analyze
\* switches lose.
SettingsKept == part = "settings" => Setting!SettingsKept

\* Folder watcher: an observer that is wanted runs, or a health check, at work or
\* to come, starts it again; but not after a start that failed or was killed, nor
\* when the process of a check is killed between its stop and its start.
WatcherRestorable == part = "watcher" => Watch!WatcherRestorable

\* PUT /config: each save gives the options the editor can show the values it
\* sent, and changes no other option of the file and none the editor left alone.
SaveFaithful ==
  [][part = "config" => \A e \in Editor : Config!Saves(e) => Config!SavedAsSent(e)]_Slots

\* A manual candidate that was answered is in the cached answer until an
\* analysis replaces it, or is lost to a race the module names; and an analysis
\* works under the configuration of its own library and lists a release once.
AnswersKept ==
  /\ part = "answers" => Answers!ManualKept
  /\ part = "search" => Search!OwnConfig /\ Search!AnswersWhole

\* Rules change a batch as their preview said, whatever order they come in, a
\* sequence numbers the files of a directory in the order of their names, a track
\* number means the same in every file format, and a tag reads back as it was
\* written when the file spells its key in several ways.
TagsFaithful ==
  part = "ask" /\ v2 =>
    CASE v1.alg = "rules" -> Tags!PreviewStable(v1.items, v1.rules)
      [] v1.alg = "numbers" -> Tags!SequenceRanks(v1.items, v1.rule)
      [] v1.alg = "track" -> Files!TrackNumbersAgree(v1.text, v1.old)
      [] v1.alg = "alias" -> Files!AliasReadsBack(v1.comments, v1.value)
      [] OTHER -> TRUE

\* Lengths are aligned at the least cost, a candidate added by link and one of
\* an analysis pair the same files, and the chapters are never scrambled, but for
\* the albums the module names.
PairingFaithful ==
  part = "ask" /\ v2 =>
    CASE v1.alg = "align" -> Pairing!AlignmentCheapest(v1.files, v1.rows)
      [] v1.alg = "pair" -> \A large, fails \in BOOLEAN :
           /\ Pairing!PairingsAgree(v1.files, v1.rows, large)
           /\ Pairing!ChaptersInOrder(v1.files, v1.rows, large, fails)
      [] OTHER -> TRUE
=============================================================================
