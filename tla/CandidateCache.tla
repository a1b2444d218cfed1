--------------------------- MODULE CandidateCache ---------------------------
(***************************************************************************)
(* The cached answer of an album's analysis: the candidates a task found   *)
(* and, beside them, one candidate per provider that a user added by link. *)
(* Tasks replace the answer, additions read it and write it back changed,  *)
(* a forced analysis deletes it; analyses of one album exclude each other  *)
(* (AnalysisQueue has the cases where they do not).                        *)
(***************************************************************************)
EXTENDS FiniteSets

CONSTANTS
  Addition,   \* requests that add a manual candidate
  Analysis,   \* analyses of the album
  Provider

VARIABLES
  cached,     \* Redis beets:album: the cached answer, NoAnswer for none
  analysis,   \* each analysis: "none", "at work", "ended"
  addition,   \* each addition: step, provider, the answer it read
  standing    \* history: answered additions nothing has replaced

cacheVars == <<cached, analysis, addition, standing>>

None == "none"
NoManual == [p \in Provider |-> None]
Answer == [by : {"analysis", "degraded", "addition"}, manual : [Provider -> Addition \cup {None}]]
NoAnswer == [by |-> None, manual |-> NoManual]
Stub == [by |-> "addition", manual |-> NoManual]

NewAddition == [pc |-> "new", provider |-> None, read |-> NoAnswer, overtaken |-> FALSE]

Init ==
  /\ cached = NoAnswer
  /\ analysis = [a \in Analysis |-> "none"]
  /\ addition = [r \in Addition |-> NewAddition]
  /\ standing = {}

\* The answer changed: who has read it before will write back an old one.
Overtaken == [r \in Addition |-> IF addition[r].pc = "write"
                                 THEN [addition[r] EXCEPT !.overtaken = TRUE] ELSE addition[r]]

---------------------------------------------------------------------------
\* analyze_album and analyze_folder: the album is free, and without force
\* nothing is cached - a cached answer is given back as a completed job.
StartAnalysis(a) ==
  /\ analysis[a] = "none" /\ \A b \in Analysis : analysis[b] # "at work"
  /\ cached = NoAnswer
  /\ analysis' = [analysis EXCEPT ![a] = "at work"]
  /\ UNCHANGED <<cached, addition, standing>>

\* With force the cached answer is deleted first.
ForceAnalysis(a) ==
  /\ analysis[a] = "none" /\ \A b \in Analysis : analysis[b] # "at work"
  /\ cached' = NoAnswer /\ standing' = {}
  /\ addition' = Overtaken
  /\ analysis' = [analysis EXCEPT ![a] = "at work"]

\* The task: an answer whose providers were asked is cached for seven days.
CacheResult(a) ==
  /\ analysis[a] = "at work"
  /\ cached' = [by |-> "analysis", manual |-> NoManual] /\ standing' = {}
  /\ addition' = Overtaken
  /\ analysis' = [analysis EXCEPT ![a] = "ended"]

\* A provider was out of reach, or the analysis failed: nothing is cached.
SkipCache(a) ==
  /\ analysis[a] = "at work"
  /\ analysis' = [analysis EXCEPT ![a] = "ended"]
  /\ UNCHANGED <<cached, addition, standing>>

Expire ==
  /\ cached # NoAnswer /\ cached' = NoAnswer /\ standing' = {}
  /\ addition' = Overtaken
  /\ UNCHANGED analysis

---------------------------------------------------------------------------
\* add_manual_candidate: the link is resolved at its provider; a request that
\* is refused there changes nothing.
Resolve(r, p) ==
  /\ addition[r].pc = "new"
  /\ addition' = [addition EXCEPT ![r].pc = "read", ![r].provider = p]
  /\ UNCHANGED <<cached, analysis, standing>>

\* store_manual_candidate_in_cache: the cached answer, or a new one that has no
\* candidates but the manual ones.
ReadCached(r) ==
  /\ addition[r].pc = "read"
  /\ addition' = [addition EXCEPT ![r].pc = "write",
                                  ![r].read = IF cached = NoAnswer THEN Stub ELSE cached]
  /\ UNCHANGED <<cached, analysis, standing>>

\* The provider's earlier candidate is replaced, the others' are kept.
WithManual(answer, p, r) == [answer EXCEPT !.manual[p] = r]

WriteCached(r) ==
  LET a == addition[r] IN
  /\ a.pc = "write"
  /\ cached' = WithManual(a.read, a.provider, r)
  /\ addition' = [Overtaken EXCEPT ![r].pc = "done"]
  /\ standing' = {r} \cup (IF a.overtaken THEN {}
                           ELSE {s \in standing : addition[s].provider # a.provider})
  /\ UNCHANGED analysis

---------------------------------------------------------------------------
Next ==
  \/ \E a \in Analysis : StartAnalysis(a) \/ ForceAnalysis(a) \/ CacheResult(a) \/ SkipCache(a)
  \/ \E r \in Addition : \/ \E p \in Provider : Resolve(r, p)
                         \/ ReadCached(r) \/ WriteCached(r)
  \/ Expire

Spec == Init /\ [][Next]_cacheVars

\* Every variable keeps the type its comment gives.
TypeOK ==
  /\ cached \in Answer \cup {NoAnswer}
  /\ analysis \in [Analysis -> {"none", "at work", "ended"}]
  /\ addition \in [Addition -> [pc : {"new", "read", "write", "done"},
                                provider : Provider \cup {None},
                                read : Answer \cup {NoAnswer}, overtaken : BOOLEAN]]
  /\ standing \subseteq Addition

(***************************************************************************)
(* A candidate a user added is in the cached answer until an analysis ends *)
(* or is forced, the answer expires, the provider's candidate is replaced, *)
(* or an addition that read before it writes; and a degraded analysis      *)
(* never becomes the cached answer. (An addition that comes before any     *)
(* analysis makes an answer without candidates, which every analysis       *)
(* without force then takes for the album's.)                              *)
(***************************************************************************)
ManualKept ==
  /\ \A r \in standing : cached.manual[addition[r].provider] = r
  /\ cached.by \in {None, "analysis", "addition"}
  /\ cached.by = "addition" => cached.manual # NoManual

\* The answer an addition has read is the one it would read now, unless it was
\* told of a change; it has none but real ones, and only with its provider.
ReadIsCurrent ==
  \A r \in Addition :
    /\ addition[r].pc \in {"read", "write", "done"} => addition[r].provider \in Provider
    /\ addition[r].pc = "write" =>
         /\ addition[r].read.by \in {"analysis", "addition"}
         /\ ~ addition[r].overtaken =>
              addition[r].read = IF cached = NoAnswer THEN Stub ELSE cached

CacheInv ==
  /\ TypeOK /\ ManualKept /\ ReadIsCurrent
  /\ cached.by = None => cached = NoAnswer
  /\ \A r \in standing : addition[r].pc = "done"

=============================================================================
