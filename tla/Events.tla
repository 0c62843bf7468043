------------------------------- MODULE Events -------------------------------
(***************************************************************************)
(* core::Observable and core::Observer (sources/core/events.cpp) as        *)
(* gfx::DrawInstance uses them (sources/graphics/draw_instance.cpp): a     *)
(* draw instance observes one game object, by a raw pointer to itself in   *)
(* the object's list, for as long as it exists.                            *)
(*                                                                         *)
(* Everything happens on one thread.  While notify() walks the list of an  *)
(* object, an observer that reacts may create and destroy draw instances   *)
(* of other objects only: to change a vector that is iterated over is      *)
(* undefined.                                                              *)
(***************************************************************************)
EXTENDS Naturals, Sequences, Lists

CONSTANTS
  GameObject,  \* observables
  Instance,    \* draw instances
  Nobody       \* no object

VARIABLES observers,  \* _observers of each object
          object,     \* _object of each draw instance, Nobody if there is none
          notifying,  \* the object whose notify() runs, or Nobody
          at,         \* its iterator
          reacted     \* history: whom it has called

vars == <<observers, object, notifying, at, reacted>>

loop == <<notifying, at, reacted>>

Init ==
  /\ observers = [o \in GameObject |-> <<>>]
  /\ object = [d \in Instance |-> Nobody]
  /\ notifying = Nobody
  /\ at = 1
  /\ reacted = <<>>

AddObserver(list, d) == Append(list, d)

\* Mutant of RemoveObserver: what remove_if returns is erased to the end, from
\* one position too early.
RemoveObserverEarly(list, d) ==
  LET others == Without(list, d)
  IN  SubSeq(others, 1, Len(others) - 1)

\* remove_if moves the others to the front, and what was behind them stays; one
\* element is erased, the first behind the others.  (Without d in the list that
\* is end(), which is undefined.)
RemoveObserver(list, d) ==
  LET others == Without(list, d)
  IN  others \o SubSeq(list, Len(others) + 2, Len(list))

\* DrawInstance's constructor and destructor.
Create(d, o) ==
  /\ object[d] = Nobody
  /\ notifying # o
  /\ object' = [object EXCEPT ![d] = o]
  /\ observers' = [observers EXCEPT ![o] = AddObserver(@, d)]
  /\ UNCHANGED loop

Destroy(d) ==
  /\ object[d] # Nobody
  /\ notifying # object[d]
  /\ observers' = [observers EXCEPT ![object[d]] = RemoveObserver(@, d)]
  /\ object' = [object EXCEPT ![d] = Nobody]
  /\ UNCHANGED loop

Notify(o) ==
  /\ notifying = Nobody
  /\ notifying' = o
  /\ at' = 1
  /\ reacted' = <<>>
  /\ UNCHANGED <<observers, object>>

\* The call of react_event.
React ==
  /\ notifying # Nobody
  /\ at <= Len(observers[notifying])
  /\ reacted' = Append(reacted, observers[notifying][at])
  /\ at' = at + 1
  /\ UNCHANGED <<observers, object, notifying>>

NotifyReturns ==
  /\ notifying # Nobody
  /\ at > Len(observers[notifying])
  /\ notifying' = Nobody
  /\ UNCHANGED <<observers, object, at, reacted>>

Next ==
  \/ \E d \in Instance : Destroy(d) \/ \E o \in GameObject : Create(d, o)
  \/ \E o \in GameObject : Notify(o)
  \/ React
  \/ NotifyReturns

Spec == Init /\ [][Next]_vars
-----------------------------------------------------------------------------
(***************************************************************************)
(* The list of an object holds the draw instances that exist and show it,  *)
(* once each: removing one leaves no pointer to it behind and loses no     *)
(* other (events.cpp:11-29).                                               *)
(***************************************************************************)
ObserversExist ==
  \A o \in GameObject :
    /\ \A k \in DOMAIN observers[o] : object[observers[o][k]] = o
    /\ \A j, k \in DOMAIN observers[o] : observers[o][j] = observers[o][k] => j = k
    /\ \A d \in Instance : object[d] = o => \E k \in DOMAIN observers[o] : observers[o][k] = d
=============================================================================
