------------------------------ MODULE TagRules ------------------------------
(***************************************************************************)
(* The transformation engine: what a list of rules changes in the tags of  *)
(* a list of items. Tag values are numbers, 0 the empty value; the regular *)
(* expression itself is external, a rule brings the table of what it makes *)
(* of each source value.                                                   *)
(***************************************************************************)
EXTENDS Naturals, FiniteSets, Sequences, SequencesExt

\* No values of a tag: what a search finds when it finds nothing.
NoValue == 97
NoMatch == 98
Timeout == 99

\* What a rule says of an item: a value, or nothing with a warning.
Says(value) == [value |-> value, warning |-> "none"]
Nothing(warning) == [value |-> NoValue, warning |-> warning]

FixedTransform(rule, item) == Says(rule.value)

\* An explicit rule touches the items it was given.
ExplicitTransform(rule, item) ==
  IF item.id \in DOMAIN rule.values THEN Says(rule.values[item.id]) ELSE Nothing("none")

\* Empty sources and values without a match leave a warning, a search that is
\* not over in time an error.
RegexTransform(rule, item) ==
  LET source == item.tags[rule.source] IN
  IF source = 0 THEN Nothing("EMPTY_SOURCE")
  ELSE IF rule.table[source] = NoMatch THEN Nothing("NO_REGEX_MATCH")
  ELSE IF rule.table[source] = Timeout THEN Nothing("TRANSFORM_ERROR")
  ELSE Says(rule.table[source])

\* Sorted by folder and file name without case; equal keys keep their order.
Before(a, b) == a.dir < b.dir \/ (a.dir = b.dir /\ a.name < b.name)

\* An item goes behind all that it is not before: the sort is stable, as sorted() is.
InsertItem(sorted, item) ==
  InsertAt(sorted, 1 + Cardinality({k \in DOMAIN sorted : ~Before(item, sorted[k])}), item)

SortItems(items, chosen) ==
  FoldLeft(LAMBDA sorted, item : IF item \in chosen THEN InsertItem(sorted, item) ELSE sorted,
           <<>>, items)

IndexIn(items, id) == CHOOSE n \in 1 .. Len(items) : items[n].id = id

\* The numbers of a sequence rule, for the items that are files.
SequenceMap(rule, items) ==
  LET files == {items[n] : n \in {m \in 1 .. Len(items) : items[m].kind = "file"}}
      group(id) == IF rule.perDirectory
                   THEN {f \in files : f.dir = items[IndexIn(items, id)].dir}
                   ELSE files
  IN [id \in {f.id : f \in files} |->
        rule.start + IndexIn(SortItems(items, group(id)), id) - 1]

SequenceTransform(rule, item, items) ==
  LET map == SequenceMap(rule, items) IN
  IF item.id \in DOMAIN map THEN Says(map[item.id]) ELSE Nothing("SEQUENCE_ERROR")

Transform(rule, item, items) ==
  CASE rule.mode = "fixed" -> FixedTransform(rule, item)
    [] rule.mode = "regex" -> RegexTransform(rule, item)
    [] rule.mode = "sequence" -> SequenceTransform(rule, item, items)
    [] rule.mode = "explicit" -> ExplicitTransform(rule, item)

NoChanges == [changes |-> <<>>, warnings |-> {}]

WithChange(changes, tag, value) ==
  [t \in DOMAIN changes \cup {tag} |-> IF t = tag THEN value ELSE changes[t]]

\* Mutant: every value is a change, also the one the item has.
ApplyRuleAlways(item, items, rule, acc) ==
  LET said == Transform(rule, item, items) IN
  [changes |-> IF said.value = NoValue THEN acc.changes
               ELSE WithChange(acc.changes, rule.tag, said.value),
   warnings |-> acc.warnings]

\* A rule adds a change when its value is not the current one. A rule that
\* gives back the current value does not take back an earlier change.
ApplyRule(item, items, rule, acc) ==
  LET said == Transform(rule, item, items) IN
  [changes |-> IF said.value \in {NoValue, item.tags[rule.tag]} THEN acc.changes
               ELSE WithChange(acc.changes, rule.tag, said.value),
   warnings |-> IF said.warning = "none" THEN acc.warnings
                ELSE acc.warnings \cup {<<rule.tag, said.warning>>}]

TransformItem(item, items, rules) ==
  FoldLeft(LAMBDA acc, rule : ApplyRule(item, items, rule, acc), NoChanges, rules)

\* compute_previews: all rules over all items, from the tags as they are.
Previews(items, rules) == [n \in 1 .. Len(items) |-> TransformItem(items[n], items, rules)]

Applied(items, previews) ==
  [n \in 1 .. Len(items) |->
     [items[n] EXCEPT !.tags = [t \in DOMAIN @ |-> IF t \in DOMAIN previews[n].changes
                                                   THEN previews[n].changes[t] ELSE @[t]]]]

---------------------------------------------------------------------------
\* No two rules of the list set one tag, and no regular expression reads a
\* tag that a rule sets.
Independent(rules) ==
  /\ \A m, n \in 1 .. Len(rules) : m # n => rules[m].tag # rules[n].tag
  /\ \A m, n \in 1 .. Len(rules) : rules[m].mode = "regex" => rules[m].source # rules[n].tag

(***************************************************************************)
(* What a preview shows is what an update leaves: once its changes are     *)
(* applied, independent rules find nothing more to change, and what a      *)
(* preview lists is never the value the item already has.                  *)
(***************************************************************************)
PreviewStable(items, rules) ==
  LET previews == Previews(items, rules) IN
  /\ \A n \in 1 .. Len(items) : \A t \in DOMAIN previews[n].changes :
       previews[n].changes[t] # items[n].tags[t]
  /\ Independent(rules) =>
       \A n \in 1 .. Len(items) :
         Previews(Applied(items, previews), rules)[n].changes = <<>>

(***************************************************************************)
(* A sequence numbers the files of its folder from start without gaps, in  *)
(* the order of their names and whatever the order of the request: the     *)
(* number of a file is start plus the files before it.                     *)
(***************************************************************************)
SequenceRanks(items, rule) ==
  LET files == {items[n] : n \in {m \in 1 .. Len(items) : items[m].kind = "file"}}
      rank(f) == Cardinality({g \in files : /\ Before(g, f)
                                            /\ rule.perDirectory => g.dir = f.dir})
      distinct == \A f, g \in files : f # g => Before(f, g) \/ Before(g, f)
  IN distinct => SequenceMap(rule, items) = [id \in {f.id : f \in files} |->
                   rule.start + rank(CHOOSE f \in files : f.id = id)]
=============================================================================
