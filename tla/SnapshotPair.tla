---------------------------- MODULE SnapshotPair ----------------------------
(***************************************************************************)
(* A pair of snapshots under construction, as a caller of evaluate() and   *)
(* apply() makes them: next starts as a copy of prev, and its objects are  *)
(* added, deleted and changed.                                             *)
(***************************************************************************)
EXTENDS Snapshots

VARIABLES prev, next

vars == <<prev, next>>

NoObjects == [i \in {} |-> 0]

Init ==
  /\ prev = [tick |-> 0, objects |-> NoObjects]
  /\ next = CopyOf(prev)

\* add_object, which replaces an object that has the id.
Put(i, o) ==
  next' = [next EXCEPT !.objects =
             [j \in DOMAIN @ \cup {i} |-> IF j = i THEN o ELSE @[j]]]

Delete(i) ==
  next' = [next EXCEPT !.objects = [j \in DOMAIN @ \ {i} |-> @[j]]]

\* Start over from the objects of next.
Turn == prev' = [next EXCEPT !.tick = 0] /\ next' = CopyOf(prev')

Next ==
  \/ UNCHANGED prev /\ \E i \in Id : Delete(i) \/ \E o \in Object : Put(i, o)
  \/ Turn

Spec == Init /\ [][Next]_vars

(***************************************************************************)
(* Both are snapshots, one tick apart.                                     *)
(***************************************************************************)
TypeOK ==
  /\ prev \in Snapshot
  /\ next \in Snapshot
  /\ next.tick = prev.tick + 1

Delta == Evaluate(prev, next)

(***************************************************************************)
(* The snapshot that a full apply of a delta makes is the one the delta    *)
(* was evaluated from, tick included: evaluate() misses no difference and  *)
(* apply() undoes it, unless an id changes its class, which no delta can   *)
(* tell (snapshot.cpp:55-86, 140-180).                                     *)
(***************************************************************************)
RoundTrip ==
  ~ EvaluateThrows(prev, next) /\ SameClasses(prev, next) =>
    Applicable(prev, Delta) /\ Apply(prev, Delta, Full) = next

(***************************************************************************)
(* snapshot.hpp:48-51: before the time 1.0 no object is added or removed;  *)
(* what next does not hold, or holds unchanged, is as it was, and what it  *)
(* changes is on its way from prev to next.                                *)
(***************************************************************************)
InterpolatedView ==
  \A t \in Time \ {Full} :
    ~ EvaluateThrows(prev, next) /\ SameClasses(prev, next) =>
      LET view == Apply(prev, Delta, t).objects
      IN  /\ DOMAIN view = DOMAIN prev.objects
          /\ \A i \in DOMAIN view :
               /\ view[i].class = prev.objects[i].class
               /\ \A n \in DOMAIN view[i].values :
                    LET from == prev.objects[i].values[n]
                        to   == IF i \in DOMAIN next.objects
                                THEN next.objects[i].values[n] ELSE from
                    IN  view[i].values[n] \in from .. to \cup to .. from
=============================================================================
