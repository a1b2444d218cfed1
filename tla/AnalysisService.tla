-------------------------- MODULE AnalysisService --------------------------
(***************************************************************************)
(* What the analysis queue of a library promises: albums that have to wait *)
(* are taken from the list in the order they came, and only while there is *)
(* room under the cap; each slot works on one album; what has begun ends   *)
(* or is lost with its process, and no more slots are lost than processes  *)
(* have died.  AnalysisQueue implements it (ImplementsService) with        *)
(* separate Redis commands of handlers and workers, which may overshoot    *)
(* the cap, but not Limit.                                                 *)
(***************************************************************************)
EXTENDS Naturals, Sequences, FiniteSets

CONSTANTS
  Album,
  Job,        \* slots are taken under job ids
  Cap,        \* slots up to which waiting albums are taken
  Limit,      \* slots that may be taken in all
  MaxLosses,  \* slots that may be lost
  NoAlbum

VARIABLES
  waiting,  \* albums that wait, in order
  slots,    \* jobs that have a slot
  working,  \* the album each of them works on
  lost      \* slots nobody will give back

serviceVars == <<waiting, slots, working, lost>>

Init ==
  /\ waiting = <<>>
  /\ slots = {}
  /\ working = [k \in Job |-> NoAlbum]
  /\ lost = {}

\* An album has to wait.
Accept(a) ==
  /\ waiting' = Append(waiting, a)
  /\ UNCHANGED <<slots, working, lost>>

\* A job takes a slot for an album.
Take(k, a) ==
  /\ slots' = slots \cup {k}
  /\ working' = [working EXCEPT ![k] = a]
  /\ UNCHANGED lost

\* An album that has just been asked for goes ahead of those that wait.
Begin(k, a) ==
  /\ k \notin slots /\ Take(k, a)
  /\ Cardinality(slots) < Limit
  /\ UNCHANGED waiting

\* The album that has waited longest gets a slot.
HandOver(k) ==
  /\ waiting # <<>> /\ waiting' = Tail(waiting)
  /\ k \notin slots /\ Take(k, Head(waiting))
  /\ Cardinality(slots) < Cap

\* The analysis ended, or could not be dispatched.
End(k) ==
  /\ k \in slots /\ slots' = slots \ {k}
  /\ k \notin lost
  /\ working' = [working EXCEPT ![k] = NoAlbum]
  /\ UNCHANGED <<waiting, lost>>

Lose(k) ==
  /\ k \in slots /\ k \notin lost /\ Cardinality(lost) < MaxLosses
  /\ lost' = lost \cup {k}
  /\ UNCHANGED <<waiting, slots, working>>

Next ==
  \/ \E a \in Album : Accept(a)
  \/ \E k \in Job : \/ \E a \in Album : Begin(k, a)
                    \/ HandOver(k) \/ End(k) \/ Lose(k)

Spec == Init /\ [][Next]_serviceVars
=============================================================================
