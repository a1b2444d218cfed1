------------------------------ MODULE Settings ------------------------------
(***************************************************************************)
(* The user settings: one row with one JSON document that three kinds of   *)
(* request read, change and write back as a whole: the theme, the          *)
(* auto-analyze switch of a library and its clean-up override.             *)
(*                                                                         *)
(* The handlers run in threads, each with a session of its own. A session  *)
(* writes the document when the assigned one differs from the one it read, *)
(* by value: a block that was changed inside the document read differs     *)
(* from nothing.                                                           *)
(***************************************************************************)
EXTENDS Naturals

CONSTANTS
  Library,
  Change,     \* requests that change a setting
  Row,        \* bound: rows the table may get
  MaxChanges  \* bound: changes requested

VARIABLES
  document,  \* user_settings: what is in each row, NoRow for none
  change,    \* each request: step, what it sets, the row and the document it read
  answered,  \* history: the last value each setting was answered to have
  raced,     \* history: two requests overlapped
  changes,
  lost       \* history: the settings whose last answered value was not stored, or was
             \* put back by a request that had read the document before

settingsVars == <<document, change, answered, raced, changes, lost>>

Unset == "unset"
NoBlock == [l \in Library |-> Unset]   \* no "auto_analyze_settings" in the document
Default == [theme |-> "system", auto |-> NoBlock, cleanup |-> [l \in Library |-> Unset]]
NoRow == [Default EXCEPT !.theme = "none"]
Empty == [Default EXCEPT !.theme = Unset]   \* a document that holds one block only

NoLoss == [theme |-> FALSE, auto |-> {}, cleanup |-> {}]

Theme == {"system", "dark"}
Toggle == {"on", "off"}
Override == {Unset, "keep"}   \* Unset: the request clears the override

Idle == [pc |-> "idle", sets |-> "theme", of |-> "none", to |-> Unset, row |-> "none",
         read |-> NoRow]

Init ==
  /\ document = [r \in Row |-> NoRow]
  /\ change = [c \in Change |-> Idle]
  /\ answered = Default
  /\ raced = FALSE /\ changes = 0 /\ lost = NoLoss

Present == {r \in Row : document[r] # NoRow}

---------------------------------------------------------------------------
\* get_settings, and update_settings before it reads: an empty table gets the
\* default row.
GetSettings ==
  /\ Present = {}
  /\ \E r \in Row : document' = [document EXCEPT ![r] = Default]
  /\ raced' = (raced \/ \E d \in Change : change[d].pc = "write")
  /\ UNCHANGED <<change, answered, changes, lost>>

\* db.query(UserSettings).first(): any row, when there are several.
ReadSettings(c) ==
  /\ change[c].pc = "idle" /\ changes < MaxChanges
  /\ \E sets \in {"theme", "auto", "cleanup"}, l \in Library,
        to \in Theme \cup Toggle \cup Override :
       /\ CASE sets = "theme" -> to \in Theme [] sets = "auto" -> to \in Toggle
            [] OTHER -> to \in Override
       /\ sets = "theme" => Present # {}
       /\ \E r \in IF Present = {} THEN {"none"} ELSE Present :
            change' = [change EXCEPT ![c] =
              [pc |-> "write", sets |-> sets, of |-> l, to |-> to, row |-> r,
               read |-> IF r = "none" THEN NoRow ELSE document[r]]]
  /\ raced' = (raced \/ \E d \in Change : change[d].pc = "write")
  /\ changes' = changes + 1
  /\ UNCHANGED <<document, answered, lost>>

\* The document with the change: a shallow merge of the theme, this library's
\* entry of a block.
Merged(prefs, sets, l, to) ==
  CASE sets = "theme" -> [prefs EXCEPT !.theme = to]
    [] sets = "auto" -> [prefs EXCEPT !.auto[l] = to]
    [] OTHER -> [prefs EXCEPT !.cleanup[l] = to]

\* The document _set_auto_analyze_setting or _set_import_cleanup_override adds
\* to an empty table.
Created(sets, l, to) == Merged(Empty, sets, l, to)

\* Mutant: the override replaces the block of all libraries.
WrittenBackBlock(prefs, sets, l, to) ==
  IF sets = "cleanup" THEN [prefs EXCEPT !.cleanup = [[m \in Library |-> Unset] EXCEPT ![l] = to]]
  ELSE IF sets = "auto" /\ prefs.auto # NoBlock THEN prefs ELSE Merged(prefs, sets, l, to)

\* What the UPDATE leaves: _set_auto_analyze_setting copies the document, not
\* the block in it, and changes the block of the document it read.
WrittenBack(prefs, sets, l, to) ==
  IF sets = "auto" /\ prefs.auto # NoBlock THEN prefs ELSE Merged(prefs, sets, l, to)

Emitted(prefs, sets, l, to) == WrittenBack(prefs, sets, l, to) # prefs

\* An UPDATE puts back what the document read had, whatever was stored since, and
\* stores what was asked.
LostByUpdate(now, a) ==
  LET stale(block) == {l \in Library : now[block][l] # a.read[block][l]}
      asked(block) == IF a.sets = block THEN {a.of} ELSE {}
  IN [theme |-> a.sets # "theme" /\ (lost.theme \/ now.theme # a.read.theme),
      auto |-> (lost.auto \cup stale("auto")) \ asked("auto"),
      cleanup |-> (lost.cleanup \cup stale("cleanup")) \ asked("cleanup")]

\* Without one nothing else is lost, and what was asked unless it is there.
LostWithout(now, a) ==
  CASE a.sets = "theme" -> [lost EXCEPT !.theme = now.theme # a.to]
    [] a.sets = "auto" ->
         [lost EXCEPT !.auto = IF now.auto[a.of] # a.to THEN @ \cup {a.of} ELSE @ \ {a.of}]
    [] OTHER ->
         [lost EXCEPT !.cleanup = IF now.cleanup[a.of] # a.to THEN @ \cup {a.of} ELSE @ \ {a.of}]

\* The commit; the answer repeats the request.
WriteSettings(c) ==
  LET a == change[c] IN
  /\ a.pc = "write"
  /\ \/ /\ a.row = "none"
        /\ \E r \in Row \ Present : document' = [document EXCEPT ![r] = Created(a.sets, a.of, a.to)]
        /\ UNCHANGED lost
     \/ /\ a.row # "none" /\ Emitted(a.read, a.sets, a.of, a.to)
        /\ document' = [document EXCEPT ![a.row] = WrittenBack(a.read, a.sets, a.of, a.to)]
        /\ lost' = LostByUpdate(document[a.row], a)
     \/ /\ a.row # "none" /\ ~ Emitted(a.read, a.sets, a.of, a.to)
        /\ UNCHANGED document
        /\ lost' = LostWithout(document[a.row], a)
  /\ answered' = Merged(answered, a.sets, a.of, a.to)
  /\ change' = [change EXCEPT ![c] = Idle]
  /\ UNCHANGED <<raced, changes>>

\* _get_auto_analyze_setting: what a scan and the user read.
AutoAnalyze(r, l) == r # "none" /\ document[r].auto[l] = "on"

---------------------------------------------------------------------------
Next == \/ \E c \in Change : ReadSettings(c) \/ WriteSettings(c)
        \/ GetSettings

Spec == Init /\ [][Next]_settingsVars

\* Every variable keeps the type its comment gives.
TypeOK ==
  LET Document == [theme : Theme \cup {"none", Unset}, auto : [Library -> Toggle \cup {Unset}],
                   cleanup : [Library -> Override]] IN
  /\ document \in [Row -> Document]
  /\ change \in [Change -> [pc : {"idle", "write"}, sets : {"theme", "auto", "cleanup"},
                            of : Library \cup {"none"}, to : Theme \cup Toggle \cup Override,
                            row : Row \cup {"none"}, read : Document]]
  /\ answered \in Document /\ raced \in BOOLEAN /\ changes \in 0 .. MaxChanges
  /\ lost \in [theme : BOOLEAN, auto : SUBSET Library, cleanup : SUBSET Library]

(***************************************************************************)
(* In the one row of the table every setting of every library reads as the *)
(* last request to set it was answered: no change of one setting costs     *)
(* another one. What is lost is lost in one of two ways. A request that    *)
(* overlaps another writes back the document it read, or nothing where     *)
(* that had the value it asks for; and overlapping first requests may add  *)
(* a second row, which some later requests read and others do not. And a   *)
(* change of an auto-analyze switch is not stored once the document has a  *)
(* block of such switches (AutoAnalyzeAsAnswered, below, is violated);     *)
(* this is all that is lost while no two requests overlap.                 *)
(***************************************************************************)
OneRow == \A r, s \in Present : r = s
ThemeRead(doc) == IF doc.theme = Unset THEN "system" ELSE doc.theme

SettingsKept ==
  /\ OneRow => \A r \in Present :
       /\ ~ lost.theme => ThemeRead(document[r]) = answered.theme
       /\ \A l \in Library \ lost.auto : document[r].auto[l] = answered.auto[l]
       /\ \A l \in Library \ lost.cleanup : document[r].cleanup[l] = answered.cleanup[l]
  /\ ~ raced => /\ OneRow /\ ~ lost.theme /\ lost.cleanup = {}
                /\ lost.auto # {} => \E r \in Present : document[r].auto # NoBlock

(***************************************************************************)
(* beets_autotag.py, set_auto_analyze_setting: "Updates the                *)
(* auto_analyze_after_scan setting for the library." The second update of  *)
(* a library is answered and never stored.                                 *)
(***************************************************************************)
AutoAnalyzeAsAnswered ==
  ~raced => \A r \in Present, l \in Library : AutoAnalyze(r, l) = (answered.auto[l] = "on")

---------------------------------------------------------------------------
(***************************************************************************)
(* The inductive invariant of the settings                                 *)
(***************************************************************************)

\* What a request asks for is a value of the setting it asks for.
RequestsValid ==
  \A c \in Change : change[c].pc = "write" =>
    CASE change[c].sets = "theme" -> change[c].to \in Theme
      [] change[c].sets = "auto" -> change[c].of \in Library /\ change[c].to \in Toggle
      [] OTHER -> change[c].of \in Library /\ change[c].to \in Override

\* A row that was read is still there.
RowsStay == \A c \in Change : change[c].pc = "write" => change[c].row \in Present \cup {"none"}

\* A request alone writes over what it has read; an empty table is still empty,
\* and only a theme needs a row.
ReadStands ==
  /\ \A c \in Change : change[c].pc = "write" /\ change[c].row = "none" => change[c].sets # "theme"
  /\ ~raced =>
       /\ \A c, d \in Change : change[c].pc = "write" /\ change[d].pc = "write" => c = d
       /\ \A c \in Change : change[c].pc = "write" =>
            IF change[c].row = "none" THEN Present = {}
            ELSE change[c].read = document[change[c].row]

\* A row that is there has a document; nothing was answered before there is one.
AnsweredInRow ==
  /\ \A r \in Present : document[r].theme # "none"
  /\ \A c \in Change : change[c].pc = "write" /\ change[c].row # "none" =>
       change[c].read.theme # "none"
  /\ Present = {} => answered = Default /\ lost = NoLoss

SettingsInv ==
  /\ TypeOK /\ RequestsValid /\ RowsStay /\ ReadStands /\ AnsweredInRow /\ SettingsKept

=============================================================================
