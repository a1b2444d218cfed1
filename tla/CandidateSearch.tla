-------------------------- MODULE CandidateSearch --------------------------
(***************************************************************************)
(* How an analysis comes to its candidates: beets' autotagger and a search *)
(* of the providers side by side, then the best hits resolved one by one.  *)
(* The analyses of one worker process follow each other, but the threads   *)
(* of a search that took too long go on, and all of them use the one beets *)
(* configuration of the process, under one lock.                           *)
(***************************************************************************)
EXTENDS Naturals, FiniteSetsExt

CONSTANTS
  Analysis,
  Library, LibraryOf,   \* the library each analysis is for
  Provider,             \* the providers that are searched, "spotify" among them
  HitsOf,               \* what each provider can find: releases of its own
  Known,                \* what the autotagger can find: candidates
  MaxResolves           \* _MAX_PROVIDER_RESOLVES

VARIABLES
  configured,  \* the libraries whose beets configuration exists
  lock,        \* _beets_config_lock: the threads that hold it, one at most
  loaded,      \* the library whose configuration beets has read last
  thread,      \* each thread that uses beets: "idle", "waiting", "holding", "using"
  work,        \* each analysis: step, enabled providers, answers, hits, candidates
  answer       \* each analysis: the candidates it ended with, and if they are cached

searchVars == <<configured, lock, loaded, thread, work, answer>>

None == "none"
Autotag == "autotag"
Failed == "failed"
Thread == Analysis \X {Autotag, "spotify", "resolve"}

\* A candidate is a release of a source and the hit that led to it, 0 for one
\* of the autotagger.
Candidate(source, id, from) == [source |-> source, id |-> id, from |-> from]
Hit == UNION {[provider : {p}, id : HitsOf[p]] : p \in Provider}
\* The candidates a hit can lead to.
Found == UNION {[source : {p}, id : HitsOf[p], from : HitsOf[p]] : p \in Provider}

NoWork == [pc |-> "new", autotag |-> None, auto |-> {}, group |-> [p \in Provider |-> "off"],
           hits |-> {}, todo |-> {}, at |-> {}, found |-> {}, failures |-> 0, tried |-> 0]
NoAnswer == [outcome |-> None, candidates |-> {}]

Init ==
  /\ configured \in SUBSET Library
  /\ lock = {} /\ loaded = None
  /\ thread = [t \in Thread |-> "idle"]
  /\ work = [a \in Analysis |-> NoWork]
  /\ answer = [a \in Analysis |-> NoAnswer]

---------------------------------------------------------------------------
(***************************************************************************)
(* The configuration of the process                                        *)
(***************************************************************************)

\* Mutant: a lock of each thread's own.
AcquireAnyway(t) ==
  /\ thread[t] = "waiting"
  /\ lock' = lock \cup {t} /\ thread' = [thread EXCEPT ![t] = "holding"]
  /\ UNCHANGED <<configured, loaded, work, answer>>

Acquire(t) ==
  /\ thread[t] = "waiting" /\ lock = {}
  /\ lock' = {t} /\ thread' = [thread EXCEPT ![t] = "holding"]
  /\ UNCHANGED <<configured, loaded, work, answer>>

\* A library without a configuration leaves what another one loaded.
LoadConfig(t) ==
  /\ thread[t] = "holding"
  /\ loaded' = IF LibraryOf[t[1]] \in configured THEN LibraryOf[t[1]] ELSE loaded
  /\ thread' = [thread EXCEPT ![t] = "using"]
  /\ UNCHANGED <<configured, lock, work, answer>>

\* Beets, or the provider through beets, has answered.
Release(t) ==
  /\ thread[t] = "using"
  /\ thread' = [thread EXCEPT ![t] = "idle"]
  /\ lock' = lock \ {t}
  /\ UNCHANGED <<configured, loaded>>

---------------------------------------------------------------------------
(***************************************************************************)
(* Autotagger and providers                                                *)
(***************************************************************************)

AtWork(a) == work[a].pc \notin {"new", "ended"}
End(a, outcome, candidates) ==
  /\ work' = [work EXCEPT ![a] = [NoWork EXCEPT !.pc = "ended"]]
  /\ answer' = [answer EXCEPT ![a] = [outcome |-> outcome, candidates |-> candidates]]

\* The enabled providers are asked for the artist and the album, none of them
\* where the files name neither.
Begin(a, enabled) ==
  /\ work[a].pc = "new" /\ \A b \in Analysis : ~AtWork(b)
  /\ work' = [work EXCEPT ![a].pc = "search",
                          ![a].group = [p \in Provider |-> IF p \in enabled THEN "asked" ELSE "off"]]
  /\ thread' = [thread EXCEPT ![<<a, Autotag>>] = "waiting",
                              ![<<a, "spotify">>] = IF "spotify" \in enabled THEN "waiting" ELSE @]
  /\ UNCHANGED <<configured, lock, loaded, answer>>

\* There is no folder, or no audio in it.
NothingToAnalyze(a) ==
  /\ work[a].pc = "new" /\ \A b \in Analysis : ~AtWork(b)
  /\ End(a, Failed, {})
  /\ UNCHANGED <<configured, lock, loaded, thread>>

\* An error and a timeout are the same here: the result waits for the thread.
AutotagAnswers(a, outcome, candidates) ==
  /\ Release(<<a, Autotag>>)
  /\ work' = [work EXCEPT ![a].autotag = outcome, ![a].auto = candidates]
  /\ UNCHANGED answer

\* A group has the hits of its provider, or none when the provider failed.
WithGroup(a, p, outcome, ids) ==
  [work EXCEPT ![a].group[p] = outcome,
               ![a].hits = @ \cup [provider : {p}, id : ids]]

ProviderAnswers(a, p, outcome, ids) ==
  /\ p # "spotify" /\ work[a].group[p] = "asked"
  /\ work' = WithGroup(a, p, outcome, ids)
  /\ UNCHANGED <<configured, lock, loaded, thread, answer>>

\* Nobody waits any more for an answer that comes late.
SpotifyAnswers(a, outcome, ids) ==
  /\ Release(<<a, "spotify">>)
  /\ work' = IF work[a].group["spotify"] = "asked" THEN WithGroup(a, "spotify", outcome, ids)
             ELSE work
  /\ UNCHANGED answer

SearchTimesOut(a, p) ==
  /\ work[a].group[p] = "asked"
  /\ work' = [work EXCEPT ![a].group[p] = "late"]
  /\ UNCHANGED <<configured, lock, loaded, thread, answer>>

---------------------------------------------------------------------------
(***************************************************************************)
(* Resolving the hits                                                      *)
(***************************************************************************)

Searched(a) ==
  work[a].pc = "search" /\ work[a].autotag # None /\ \A p \in Provider : work[a].group[p] # "asked"

IsKnown(source, id, candidates) == \E c \in candidates : c.source = source /\ c.id = id
Fresh(a) == {h \in work[a].hits : ~IsKnown(h.provider, h.id, work[a].auto)}

\* The error of the autotagger is that of the analysis.
AutotagFails(a) ==
  /\ Searched(a) /\ work[a].autotag = Failed
  /\ End(a, Failed, {})
  /\ UNCHANGED <<configured, lock, loaded, thread>>

\* The search as a whole breaks.
SearchFails(a) ==
  /\ Searched(a) /\ work[a].autotag = "answered"
  /\ End(a, "degraded", work[a].auto)
  /\ UNCHANGED <<configured, lock, loaded, thread>>

\* The best hits that the autotagger has not found itself; which ones are the
\* best is left open.
ChooseHits(a) ==
  /\ Searched(a) /\ work[a].autotag = "answered" /\ Fresh(a) # {}
  /\ \E best \in kSubset(IF Cardinality(Fresh(a)) < MaxResolves THEN Cardinality(Fresh(a))
                         ELSE MaxResolves, Fresh(a)) :
       work' = [work EXCEPT ![a].pc = "resolve", ![a].todo = best]
  /\ UNCHANGED <<configured, lock, loaded, thread, answer>>

NoHits(a) ==
  /\ Searched(a) /\ work[a].autotag = "answered" /\ Fresh(a) = {}
  /\ End(a, "cached", work[a].auto)
  /\ UNCHANGED <<configured, lock, loaded, thread>>

StartResolve(a, h) ==
  /\ work[a].pc = "resolve" /\ work[a].at = {} /\ h \in work[a].todo
  /\ work' = [work EXCEPT ![a].at = {h}, ![a].todo = @ \ {h}, ![a].tried = @ + 1]
  /\ thread' = [thread EXCEPT ![<<a, "resolve">>] = "waiting"]
  /\ UNCHANGED <<configured, lock, loaded, answer>>

\* The release that comes back may be one that is there already: a provider
\* leads several links to one release.
Resolved(a, h, id) ==
  LET found == work[a].found IN
  /\ Release(<<a, "resolve">>) /\ h \in work[a].at
  /\ work' = [work EXCEPT ![a].at = {},
                          ![a].found = IF IsKnown(h.provider, id, found \cup work[a].auto) THEN found
                                       ELSE found \cup {Candidate(h.provider, id, h.id)}]
  /\ UNCHANGED answer

ResolveFails(a) ==
  /\ Release(<<a, "resolve">>)
  /\ work' = [work EXCEPT ![a].at = {}, ![a].failures = @ + 1]
  /\ UNCHANGED answer

\* An answer is cached unless every hit that was tried failed.
Merge(a) ==
  /\ work[a].pc = "resolve" /\ work[a].at = {} /\ work[a].todo = {}
  /\ End(a, IF work[a].failures = work[a].tried THEN "degraded" ELSE "cached",
         work[a].auto \cup work[a].found)
  /\ UNCHANGED <<configured, lock, loaded, thread>>

\* An error beside the single hits costs all of them.
MergeFails(a) ==
  /\ work[a].pc = "resolve" /\ work[a].at = {}
  /\ End(a, "degraded", work[a].auto)
  /\ UNCHANGED <<configured, lock, loaded, thread>>

---------------------------------------------------------------------------
Next ==
  \/ \E t \in Thread : Acquire(t) \/ LoadConfig(t)
  \/ \E a \in Analysis :
       \/ \E enabled \in SUBSET Provider : Begin(a, enabled)
       \/ NothingToAnalyze(a)
       \/ \E candidates \in SUBSET Known : AutotagAnswers(a, "answered", candidates)
       \/ AutotagAnswers(a, Failed, {})
       \/ \E p \in Provider :
            \/ SearchTimesOut(a, p)
            \/ \E ids \in SUBSET HitsOf[p] : ProviderAnswers(a, p, "answered", ids)
            \/ ProviderAnswers(a, p, Failed, {})
       \/ \E ids \in SUBSET HitsOf["spotify"] : SpotifyAnswers(a, "answered", ids)
       \/ SpotifyAnswers(a, Failed, {})
       \/ AutotagFails(a) \/ SearchFails(a) \/ ChooseHits(a) \/ NoHits(a)
       \/ \E h \in Hit : \/ StartResolve(a, h)
                         \/ \E id \in HitsOf[h.provider] : Resolved(a, h, id)
       \/ ResolveFails(a) \/ Merge(a) \/ MergeFails(a)

Spec == Init /\ [][Next]_searchVars

\* Every variable keeps the type its comment gives.
TypeOK ==
  /\ configured \subseteq Library /\ loaded \in Library \cup {None} /\ lock \subseteq Thread
  /\ thread \in [Thread -> {"idle", "waiting", "holding", "using"}]
  /\ work \in [Analysis -> [pc : {"new", "search", "resolve", "ended"},
                           autotag : {None, "answered", Failed}, auto : SUBSET Known,
                           group : [Provider -> {"off", "asked", "answered", Failed, "late"}],
                           hits : SUBSET Hit, todo : SUBSET Hit, at : SUBSET Hit,
                           found : SUBSET Found, failures : Nat, tried : Nat]]
  /\ answer \in [Analysis -> [outcome : {None, Failed, "degraded", "cached"},
                             candidates : SUBSET (Known \cup Found)]]

(***************************************************************************)
(* Beets works for an analysis under the configuration of its library,     *)
(* also when the search of an earlier analysis has not come back. (A       *)
(* library whose configuration does not exist gets that of another.)       *)
(***************************************************************************)
OwnConfig ==
  \A t \in Thread :
    thread[t] = "using" /\ LibraryOf[t[1]] \in configured => loaded = LibraryOf[t[1]]

(***************************************************************************)
(* A release is in an answer once, and what the autotagger found is not    *)
(* replaced by a hit that leads to it; an answer with candidates of the    *)
(* providers is cached.                                                    *)
(***************************************************************************)
AnswersWhole ==
  \A a \in Analysis :
    /\ \A c, d \in work[a].auto \cup work[a].found \cup answer[a].candidates :
         c.source = d.source /\ c.id = d.id => c = d
    /\ answer[a].outcome = "degraded" => \A c \in answer[a].candidates : c.from = 0

(***************************************************************************)
(* Stated by a comment of the task (beets_tasks.py:260: "only when the     *)
(* provider augmentation actually ran") and not kept: a provider that      *)
(* fails or is late leaves an empty group, and a search with nothing but   *)
(* empty groups counts as one that ran.                                    *)
(***************************************************************************)
Outage(a) ==
  /\ Searched(a) /\ \E p \in Provider : work[a].group[p] # "off"
  /\ \A p \in Provider : work[a].group[p] # "answered"
OutageNotCached == [][\A a \in Analysis : Outage(a) => answer'[a].outcome # "cached"]_searchVars

---------------------------------------------------------------------------
(***************************************************************************)
(* The inductive invariant of the search                                   *)
(***************************************************************************)

\* The threads that hold the lock are those that load and use the configuration.
LockHeld ==
  /\ \A t, u \in lock : t = u
  /\ \A t \in Thread : thread[t] \in {"holding", "using"} <=> t \in lock

\* Which threads an analysis may have at each step; only that of Spotify may
\* outlive it.
ThreadsOfStep ==
  \A a \in Analysis :
    /\ work[a].pc = "new" => \A kind \in {Autotag, "spotify", "resolve"} : thread[<<a, kind>>] = "idle"
    /\ thread[<<a, Autotag>>] # "idle" => work[a].pc = "search" /\ work[a].autotag = None
    /\ thread[<<a, "resolve">>] # "idle" => work[a].pc = "resolve" /\ work[a].at # {}

\* A release that was found counts as an attempt that did not fail.
FoundByAttempt ==
  \A a \in Analysis :
    /\ work[a].pc # "resolve" => /\ work[a].at = {} /\ work[a].found = {}
                                 /\ work[a].failures = 0 /\ work[a].tried = 0
    /\ work[a].failures + Cardinality(work[a].at) <= work[a].tried
    /\ work[a].found # {} => work[a].failures + Cardinality(work[a].at) < work[a].tried
    /\ \A h, i \in work[a].at : h = i

\* Candidates come from the work of an analysis into its answer, at its end.
AnswerAtEnd ==
  \A a \in Analysis :
    /\ work[a].pc \in {"new", "ended"} => work[a].autotag = None /\ work[a].auto = {}
    /\ work[a].pc # "ended" => answer[a] = NoAnswer

SearchInv ==
  /\ TypeOK /\ LockHeld /\ ThreadsOfStep /\ FoundByAttempt /\ AnswerAtEnd
  /\ OwnConfig /\ AnswersWhole

=============================================================================
