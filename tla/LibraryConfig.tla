--------------------------- MODULE LibraryConfig ---------------------------
(***************************************************************************)
(* The editor of a library's beets config.  The file is a YAML mapping; an *)
(* editor is shown the options the schema models, with the defaults where  *)
(* the file says nothing, and sends all of them back; the save merges them *)
(* into the file, which may hold options the schema does not know and may  *)
(* have been changed by hand or by another editor meanwhile.               *)
(*                                                                         *)
(* Five options stand for the forty-odd: "directory" for those with a      *)
(* default, "log" for the one that is left out when empty, "replace" for   *)
(* the collections taken as a whole, "item_fields" for the one merged      *)
(* entry by entry, "backend" for those not modelled.                       *)
(***************************************************************************)
EXTENDS Naturals

CONSTANTS Editor,          \* clients that load and save the config
          MaxFileChanges   \* bound: changes of the file by others, writes that fail

Absent == "absent"
NoFields == {Absent}       \* no item_fields section
Modelled == {"directory", "log", "replace", "item_fields"}
Option == Modelled \union {"backend"}

Default == [directory |-> "", log |-> Absent, replace |-> "defaults",
            item_fields |-> {"multidisc"}]

(* What an editor may send, and what a file may hold, for each option. *)
InForm(k) == CASE k = "directory"   -> {"", "x", "y"}
               [] k = "log"         -> {Absent, "l"}
               [] k = "replace"     -> {"defaults", "rules", "none"}
               [] k = "item_fields" -> SUBSET {"multidisc", "own"}
InFile(k) == CASE k = "directory"   -> InForm(k) \union {Absent}
               [] k = "log"         -> InForm(k) \union {""}
               [] k = "replace"     -> InForm(k) \union {Absent, "malformed"}
               [] k = "item_fields" -> {NoFields, {}, {"multidisc", "own"}}
               [] k = "backend"     -> {Absent, "b"}

Empty == [directory |-> Absent, log |-> Absent, replace |-> Absent,
          item_fields |-> NoFields, backend |-> Absent]

Yaml(opts) == [kind |-> "yaml", opts |-> opts]
NoFile == [kind |-> "none", opts |-> Empty]
Unparsable == [kind |-> "unparsable", opts |-> Empty]

VARIABLES file,         \* the config file
          editor,       \* editor -> what it loaded, what it sends, what its save read
          fileChanges

vars == <<file, editor, fileChanges>>

Idle == [pc |-> "idle", loaded |-> Default, sent |-> Default, read |-> Empty, stale |-> FALSE]

Init ==
    /\ \/ file \in {NoFile, Unparsable}
       \/ \E d \in InFile("directory"), l \in InFile("log"), r \in InFile("replace"),
             i \in InFile("item_fields"), b \in InFile("backend") :
            file = Yaml([directory |-> d, log |-> l, replace |-> r, item_fields |-> i, backend |-> b])
    /\ editor = [e \in Editor |-> Idle] /\ fileChanges = 0

(* Options of a file, as it was written by hand or by a save. *)
FileValue(k) == IF k = "item_fields" THEN InForm(k) \union {NoFields} ELSE InFile(k)
ValidFile(opts) ==
    /\ opts = [k \in Option |-> opts[k]]
    /\ \A k \in Option : opts[k] \in FileValue(k)

(* Options of a form. *)
ValidForm(form) ==
    /\ form = [k \in Modelled |-> form[k]]
    /\ \A k \in Modelled : form[k] \in InForm(k)

TypeOK ==
    /\ file = [kind |-> file.kind, opts |-> file.opts]
    /\ file.kind \in {"yaml", "none", "unparsable"} /\ ValidFile(file.opts)
    /\ editor = [e \in Editor |-> editor[e]]
    /\ \A e \in Editor :
         /\ DOMAIN editor[e] = {"pc", "loaded", "sent", "read", "stale"}
         /\ editor[e].pc \in {"idle", "editing", "merging"} /\ editor[e].stale \in BOOLEAN
         /\ ValidFile(editor[e].read) /\ ValidForm(editor[e].loaded) /\ ValidForm(editor[e].sent)
    /\ fileChanges \in 0..MaxFileChanges

(* _yaml_dict_to_schema, then _schema_to_yaml_dict: an absent option shows *)
(* its default, an empty log is none, replace rules of another shape than  *)
(* a mapping or a list are no rules - but an absent replace is not.        *)
View(opts) ==
    [k \in Modelled |->
        CASE opts[k] = Empty[k]                        -> Default[k]
          [] k = "log" /\ opts[k] = ""                 -> Absent
          [] k = "replace" /\ opts[k] = "malformed"    -> "none"
          [] OTHER                                     -> opts[k]]

(* _merge_changes in a section: entries that differ from the baseline are  *)
(* added, entries missing from the form are deleted, and a section that is *)
(* not there is made only for an added entry.                              *)
MergeFields(fields, base, form) ==
    LET merged == ((fields \ NoFields) \union (form \ base)) \ (base \ form) IN
    IF merged = {} /\ fields = NoFields THEN NoFields ELSE merged

(* _merge_changes: an option that differs from the baseline is taken from  *)
(* the form, one that is missing there is deleted; the rest of the file    *)
(* stays as it is.                                                         *)
Merge(opts, base, form) ==
    [k \in Option |->
        CASE k = "item_fields"                  -> MergeFields(opts[k], base[k], form[k])
          [] k \in Modelled \ {"item_fields"}   -> IF form[k] # base[k] THEN form[k] ELSE opts[k]
          [] OTHER                              -> opts[k]]

(* serialize_config: the whole form, defaults included. *)
Serialized(form) == [k \in Option |-> IF k \in Modelled THEN form[k] ELSE Absent]

(* Mutant: a save of the form alone. *)
SavedWhole(opts, form) == Serialized(form)

(* What save_config writes over the options it read. *)
Saved(opts, form) == IF opts = Empty THEN Serialized(form) ELSE Merge(opts, View(opts), form)

(* When the file changes, what the others loaded is stale. *)
Ageing == [e \in Editor |-> IF editor[e].pc = "idle" THEN editor[e]
                                                   ELSE [editor[e] EXCEPT !.stale = TRUE]]

(* get_library_config; 404 and 500 answers leave the editor without form. *)
Load(e) ==
    /\ editor[e].pc = "idle" /\ file.kind = "yaml"
    /\ editor' = [editor EXCEPT ![e] = [Idle EXCEPT !.pc = "editing", !.loaded = View(file.opts),
                                                    !.sent = View(file.opts)]]
    /\ UNCHANGED <<file, fileChanges>>

(* The user changes an option; several changes are several saves. *)
Change(e, k, v) ==
    /\ editor[e].pc = "editing" /\ editor[e].sent = editor[e].loaded
    /\ editor' = [editor EXCEPT ![e].sent[k] = v]
    /\ UNCHANGED <<file, fileChanges>>

(* save_config reads the file; one it cannot parse is left alone. *)
ReadForMerge(e) ==
    /\ editor[e].pc = "editing"
    /\ editor' = [editor EXCEPT ![e] = IF file = Unparsable THEN Idle
                                       ELSE [@ EXCEPT !.pc = "merging", !.read = file.opts]]
    /\ UNCHANGED <<file, fileChanges>>

(* save_config writes the file. *)
WriteMerged(e) ==
    /\ editor[e].pc = "merging"
    /\ file' = Yaml(Saved(editor[e].read, editor[e].sent))
    /\ editor' = [Ageing EXCEPT ![e] = Idle]
    /\ UNCHANGED fileChanges

(* The write fails, after it has emptied the file or before: any part of  *)
(* the text may be there. The answer is 500; the form can be sent again.   *)
WriteFails(e) ==
    /\ editor[e].pc = "merging"
    /\ fileChanges < MaxFileChanges /\ fileChanges' = fileChanges + 1
    /\ LET new == Saved(editor[e].read, editor[e].sent) IN
       \/ file' \in {file, Unparsable}
       \/ \E kept \in SUBSET Option :
            file' = Yaml([k \in Option |-> IF k \in kept THEN new[k] ELSE Empty[k]])
    /\ editor' = [Ageing EXCEPT ![e].pc = "editing"]

(* The file is changed by hand, or by another editor; or it is broken. *)
ChangeFile ==
    /\ fileChanges < MaxFileChanges /\ fileChanges' = fileChanges + 1
    /\ \/ \E k \in Option : \E v \in InFile(k) \ {file.opts[k]} :
            file.kind = "yaml" /\ file' = [file EXCEPT !.opts[k] = v]
       \/ file' \in {Unparsable, NoFile} \ {file}
    /\ editor' = Ageing

Next == \/ \E e \in Editor : \/ Load(e) \/ ReadForMerge(e) \/ WriteMerged(e) \/ WriteFails(e)
                             \/ \E k \in Modelled : \E v \in InForm(k) : Change(e, k, v)
        \/ ChangeFile

Spec == Init /\ [][Next]_vars

-----------------------------------------------------------------------------
Saves(e) == editor[e].pc = "merging" /\ editor'[e].pc = "idle"

(* A save reads back as the form it was sent, keeps the options the schema *)
(* does not know, and changes an option its editor did not change only if  *)
(* the file was changed after the editor loaded it or was empty.  What it  *)
(* reads back differently is item_fields in a file that had none.          *)
SavedAsSent(e) ==
    LET read == editor[e].read
        sent == editor[e].sent IN
    /\ \A k \in Modelled : \/ View(file'.opts)[k] = sent[k]
                           \/ k = "item_fields" /\ read[k] = NoFields
    /\ \/ editor[e].stale \/ read = Empty
       \/ \A k \in Option : file'.opts[k] # file.opts[k] =>
            k \in Modelled /\ sent[k] # editor[e].loaded[k]

(* beets_config_service.py:383, "Only the fields the editor actually       *)
(* changed are applied; everything else in the file - modeled or not - is  *)
(* left untouched." It is not: what was changed since the editor was shown *)
(* the file is set back, since the save compares with the file it finds.   *)
OnlyChangedApplied(e) ==
    Saves(e) => \A k \in Option : file'.opts[k] # file.opts[k] =>
                  k \in Modelled /\ editor[e].sent[k] # editor[e].loaded[k]

-----------------------------------------------------------------------------
(* The inductive invariant of the editor: unless the file has changed, the *)
(* form was loaded from what the file says, and a save has read just that. *)
ConfigInv ==
    /\ TypeOK
    /\ file.kind # "yaml" => file.opts = Empty
    /\ \A e \in Editor : editor[e].pc # "idle" /\ ~editor[e].stale =>
         /\ file.kind = "yaml" /\ editor[e].loaded = View(file.opts)
         /\ editor[e].pc = "merging" => editor[e].read = file.opts

=============================================================================
