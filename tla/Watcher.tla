------------------------------ MODULE Watcher ------------------------------
(***************************************************************************)
(* The watcher of a library's import folder. Every process of the worker   *)
(* pool has a WatcherService of its own; they share the watcher's state,   *)
(* heartbeat and debounce key in Redis. A task of the pool, in whichever   *)
(* process it runs, resumes the watcher when the worker starts, checks its *)
(* health every minute, starts it or stops it.                             *)
(***************************************************************************)
EXTENDS Naturals

CONSTANTS
  Process,          \* pool processes of the worker
  MaxWatcherFaults  \* bound: folders that vanish, observers and processes that die

VARIABLES
  watch,       \* _observers and _handlers of each process: "none", "alive", "dead" (thread),
               \* "stopped": none, by a health check that goes on to start it anew
  timer,       \* the handler's local debounce: "off", "armed", "fired" (its thread runs)
  wstate,      \* Redis watcher:state: active, pending_scan; "none" for no key
  heartbeat,   \* Redis watcher:heartbeat exists
  debounce,    \* Redis watcher:debounce exists
  folder,      \* the import folder is there
  blocked,     \* an operation that blocks scans is at work
  resumed,     \* resume_watchers has run
  givenUp,     \* history: a start found no folder, failed or was killed ("start"), a stop
               \* was asked for ("stop"), or a restart was killed in the middle ("killed")
  watcherFaults

watcherVars == <<watch, timer, wstate, heartbeat, debounce, folder, blocked, resumed, givenUp,
                 watcherFaults>>

keyVars == <<wstate, heartbeat, debounce>>
worldVars == <<folder, blocked>>

NoState == [active |-> FALSE, pending |-> FALSE]

Init ==
  /\ watch = [p \in Process |-> "none"]
  /\ timer = [p \in Process |-> "off"]
  /\ wstate \in {NoState, [active |-> TRUE, pending |-> FALSE]}   \* of an earlier worker
  /\ heartbeat = FALSE /\ debounce = FALSE
  /\ folder = TRUE /\ blocked = FALSE
  /\ resumed = FALSE /\ givenUp = {} /\ watcherFaults = 0

WatcherFault == watcherFaults < MaxWatcherFaults /\ watcherFaults' = watcherFaults + 1

---------------------------------------------------------------------------
(***************************************************************************)
(* start_watcher and stop_watcher                                          *)
(***************************************************************************)

\* What a start leaves when the process does not watch yet.
Started(p) ==
  /\ watch' = [watch EXCEPT ![p] = "alive"] /\ timer' = timer
  /\ wstate' = [active |-> TRUE, pending |-> FALSE]
  /\ heartbeat' = TRUE

\* _cleanup_watcher: an armed timer is cancelled, one that fired is not.
Cleaned(p) ==
  /\ watch' = [watch EXCEPT ![p] = "none"]
  /\ timer' = [timer EXCEPT ![p] = IF @ = "armed" THEN "off" ELSE @]
  /\ wstate' = [wstate EXCEPT !.active = FALSE, !.pending = FALSE]
  /\ heartbeat' = FALSE

\* The start of a watcher: already there, no folder, done, failed half-way, or
\* killed before the state is written, with the threads it had begun.
Start(p) ==
  \/ watch[p] # "none" /\ UNCHANGED <<watch, timer, wstate, heartbeat, givenUp, watcherFaults>>
  \/ /\ watch[p] = "none" /\ ~folder
     /\ givenUp' = givenUp \cup {"start"}
     /\ UNCHANGED <<watch, timer, wstate, heartbeat, watcherFaults>>
  \/ /\ watch[p] = "none" /\ folder
     /\ Started(p)
     /\ UNCHANGED <<givenUp, watcherFaults>>
  \/ /\ watch[p] = "none" /\ folder /\ WatcherFault
     /\ Cleaned(p)
     /\ givenUp' = givenUp \cup {"start"}
  \/ /\ watch[p] = "none" /\ folder /\ WatcherFault
     /\ timer' = [timer EXCEPT ![p] = "off"]
     /\ givenUp' = givenUp \cup {"start"}
     /\ UNCHANGED <<watch, wstate, heartbeat>>

\* A process of the pool works on one task at a time.
Free(p) == watch[p] # "stopped"

\* resume_watchers, sent when the worker is ready.
ResumeWatchers(p) ==
  /\ ~resumed /\ resumed' = TRUE /\ Free(p)
  /\ Start(p)
  /\ UNCHANGED <<debounce, worldVars>>

\* start_watcher_for_library
StartWatcher(p) ==
  /\ resumed /\ Free(p)
  /\ Start(p)
  /\ UNCHANGED <<debounce, resumed, worldVars>>

\* stop_watcher_for_library: cleanup_library_keys deletes the keys.
StopWatcher(p) ==
  /\ resumed /\ Free(p) /\ WatcherFault
  /\ watch' = [watch EXCEPT ![p] = "none"]
  /\ timer' = [timer EXCEPT ![p] = IF @ = "armed" THEN "off" ELSE @]
  /\ wstate' = NoState /\ heartbeat' = FALSE /\ debounce' = FALSE
  /\ givenUp' = givenUp \cup {"stop"}
  /\ UNCHANGED <<resumed, worldVars>>

---------------------------------------------------------------------------
(***************************************************************************)
(* check_watcher_health                                                    *)
(***************************************************************************)

\* check_health: this process watches, and someone's heart beats.
Healthy(p) == watch[p] = "alive" /\ heartbeat

\* What stop_watcher leaves of a stale watcher.
StaleStopped(p) ==
  /\ timer' = [timer EXCEPT ![p] = IF @ = "armed" THEN "off" ELSE @]
  /\ wstate' = [wstate EXCEPT !.active = FALSE, !.pending = FALSE]
  /\ heartbeat' = FALSE

\* Mutant: the check stops a stale watcher and leaves the start to the next.
CheckHealthStopsOnly(p) ==
  /\ resumed /\ Free(p) /\ wstate.active /\ ~Healthy(p)
  /\ watch' = [watch EXCEPT ![p] = "none"]
  /\ StaleStopped(p)
  /\ UNCHANGED <<debounce, resumed, givenUp, worldVars, watcherFaults>>

\* First half: the stale watcher is stopped, and its state says inactive.
CheckHealth(p) ==
  /\ resumed /\ Free(p) /\ wstate.active /\ ~Healthy(p)
  /\ watch' = [watch EXCEPT ![p] = "stopped"]
  /\ StaleStopped(p)
  /\ UNCHANGED <<debounce, resumed, givenUp, worldVars, watcherFaults>>

\* Second half: it is started anew; the start may find no folder, or fail.
RestartStale(p) ==
  /\ watch[p] = "stopped"
  /\ \/ folder /\ Started(p) /\ UNCHANGED <<givenUp, watcherFaults>>
     \/ /\ ~folder /\ watch' = [watch EXCEPT ![p] = "none"]
        /\ givenUp' = givenUp \cup {"start"}
        /\ UNCHANGED <<timer, wstate, heartbeat, watcherFaults>>
     \/ folder /\ WatcherFault /\ Cleaned(p) /\ givenUp' = givenUp \cup {"start"}
  /\ UNCHANGED <<debounce, resumed, worldVars>>

---------------------------------------------------------------------------
(***************************************************************************)
(* Threads: heartbeat, events, local debounce                              *)
(***************************************************************************)

\* _heartbeat_loop, of a dead observer too.
Beat(p) ==
  /\ watch[p] \in {"alive", "dead"} /\ ~heartbeat
  /\ heartbeat' = TRUE
  /\ UNCHANGED <<watch, timer, wstate, debounce, resumed, givenUp, worldVars, watcherFaults>>

\* The key lives for two intervals.
HeartbeatExpires ==
  /\ heartbeat /\ \A p \in Process : watch[p] \notin {"alive", "dead"}
  /\ heartbeat' = FALSE
  /\ UNCHANGED <<watch, timer, wstate, debounce, resumed, givenUp, worldVars, watcherFaults>>

\* A file changes: every observer arms its timer, or ignores the event while an
\* operation blocks it.
FileEvent ==
  /\ folder /\ ~blocked
  /\ timer' = [p \in Process |-> IF watch[p] = "alive" /\ timer[p] = "off" THEN "armed"
                                 ELSE timer[p]]
  /\ timer' # timer
  /\ UNCHANGED <<watch, keyVars, resumed, givenUp, worldVars, watcherFaults>>

TimerFires(p) ==
  /\ timer[p] = "armed"
  /\ timer' = [timer EXCEPT ![p] = "fired"]
  /\ UNCHANGED <<watch, keyVars, resumed, givenUp, worldVars, watcherFaults>>

\* _on_local_debounce_complete: a scan is pending and the debounce key is set or
\* prolonged. Nobody waits for its end.
LocalDebounce(p) ==
  /\ timer[p] = "fired"
  /\ timer' = [timer EXCEPT ![p] = "off"]
  /\ wstate' = [active |-> TRUE, pending |-> TRUE]
  /\ debounce' = TRUE
  /\ UNCHANGED <<watch, heartbeat, resumed, givenUp, worldVars, watcherFaults>>

DebounceExpires ==
  /\ debounce /\ debounce' = FALSE
  /\ UNCHANGED <<watch, timer, wstate, heartbeat, resumed, givenUp, worldVars, watcherFaults>>

---------------------------------------------------------------------------
(***************************************************************************)
(* Faults and the world                                                    *)
(***************************************************************************)

ObserverDies(p) ==
  /\ watch[p] = "alive" /\ WatcherFault
  /\ watch' = [watch EXCEPT ![p] = "dead"]
  /\ UNCHANGED <<timer, keyVars, resumed, givenUp, worldVars>>

\* A new process takes its place, without a watcher and without the task.
ProcessDies(p) ==
  /\ watch[p] # "none" /\ WatcherFault
  /\ watch' = [watch EXCEPT ![p] = "none"]
  /\ timer' = [timer EXCEPT ![p] = "off"]
  /\ givenUp' = IF watch[p] = "stopped" THEN givenUp \cup {"killed"} ELSE givenUp
  /\ UNCHANGED <<keyVars, resumed, worldVars>>

FolderLost ==
  /\ folder /\ WatcherFault /\ folder' = FALSE
  /\ UNCHANGED <<watch, timer, keyVars, resumed, givenUp, blocked>>

FolderBack ==
  /\ ~folder /\ folder' = TRUE
  /\ UNCHANGED <<watch, timer, keyVars, resumed, givenUp, blocked, watcherFaults>>

Block ==
  /\ blocked' = ~blocked
  /\ UNCHANGED <<watch, timer, keyVars, resumed, givenUp, folder, watcherFaults>>

Next ==
  \/ \E p \in Process :
       \/ ResumeWatchers(p) \/ StartWatcher(p) \/ StopWatcher(p)
       \/ CheckHealth(p) \/ RestartStale(p)
       \/ Beat(p) \/ TimerFires(p) \/ LocalDebounce(p) \/ ObserverDies(p) \/ ProcessDies(p)
  \/ HeartbeatExpires \/ FileEvent \/ DebounceExpires \/ FolderLost \/ FolderBack \/ Block

Spec == Init /\ [][Next]_watcherVars

\* Every variable keeps the type its comment gives.
TypeOK ==
  /\ watch \in [Process -> {"none", "stopped", "alive", "dead"}]
  /\ timer \in [Process -> {"off", "armed", "fired"}]
  /\ wstate \in [active : BOOLEAN, pending : BOOLEAN]
  /\ {heartbeat, debounce, folder, blocked, resumed} \subseteq BOOLEAN
  /\ givenUp \subseteq {"start", "stop", "killed"}
  /\ watcherFaults \in 0 .. MaxWatcherFaults

(***************************************************************************)
(* No watcher is lost for good: after the resume the state in Redis says   *)
(* that it should run, so that the next health check starts it again, or a *)
(* health check is about to start it, whatever observers and processes die *)
(* and whichever processes run the checks - unless a stop was asked for, a *)
(* start failed or was killed, or a process was killed between the stop    *)
(* and the start of a check.                                               *)
(***************************************************************************)
Restorable == wstate.active \/ \E p \in Process : watch[p] = "stopped"

WatcherRestorable == resumed /\ givenUp = {} => Restorable

(***************************************************************************)
(* check_watcher_health: "checks the health of watchers using the global   *)
(* singleton and restarts any that have become stale." A process killed    *)
(* between its stop and its start leaves a state no later check restarts.  *)
(***************************************************************************)
RestartSurvivesKill == resumed /\ givenUp \subseteq {"killed"} => Restorable

\* Before the worker is ready nothing watches, and nobody gave up.
WatchInv ==
  /\ TypeOK /\ WatcherRestorable
  /\ ~ resumed => \A p \in Process : watch[p] = "none" /\ timer[p] = "off"

=============================================================================
