----------------------------- MODULE Snapshots -----------------------------
(***************************************************************************)
(* core::Snapshot, core::DeltaSnapshot and the part of core::GameObject    *)
(* they use (sources/core/snapshot.cpp, sources/core/game_object.cpp).     *)
(*                                                                         *)
(* An object is a class, which names its values, and a value under each    *)
(* name; a snapshot is a tick and the objects it holds by id.  The game    *)
(* values themselves (include/core/types.hpp) are parameters; GameValues   *)
(* defines the ones of the library.                                        *)
(***************************************************************************)
EXTENDS Integers, Sequences

CONSTANTS
  Id,               \* ids of objects
  Class,            \* registered subclasses of GameObject
  NamesOf,          \* the names add_values() registers for each class
  NameOrder,        \* all names of values, in the order of a std::map
  Value,            \* what a game value can hold
  GetDelta(_, _),   \* old->get_delta(new)
  Interp(_, _, _),  \* old->interp(delta, time)
  Crc(_),           \* the checksum of a list of values
  Time,             \* interpolation times
  Full              \* the time 1.0

ASSUME SnapshotAssumption ==
  /\ Full \in Time
  /\ \A c \in Class : \A n \in NamesOf[c] : \E k \in DOMAIN NameOrder : NameOrder[k] = n

Object ==
  UNION {[class : {c}, values : [NamesOf[c] -> Value]] : c \in Class}

\* _objects: a map from some of the ids to objects.
Objects == UNION {[ids -> Object] : ids \in SUBSET Id}

Snapshot == [tick : Nat, objects : Objects]

\* Mutant of CopyOf: the tick is copied too.
CopyOfSameTick(s) == s

\* The copy constructor.  Its clones are equal to the originals.
CopyOf(s) == [s EXCEPT !.tick = @ + 1]

\* Mutant of Checksum: the exclusive or that game_object.hpp:71 announces does
\* not see the order of the values; here, their set.
ChecksumXor(o) == {o.values[n] : n \in DOMAIN o.values}

\* The checksums of the values, without their names and without the class.
Checksum(o) ==
  LET names == SelectSeq(NameOrder, LAMBDA n : n \in DOMAIN o.values)
  IN  Crc([k \in DOMAIN names |-> o.values[names[k]]])

\* One delta for every value of o, changed or not.
Compare(o, other) ==
  [n \in DOMAIN o.values |-> GetDelta(o.values[n], other.values[n])]

\* _values.at(name) throws std::out_of_range: other is not of o's class.
CompareThrows(o, other) == ~ (DOMAIN o.values \subseteq DOMAIN other.values)

Interpolate(o, diff, time) ==
  [o EXCEPT !.values =
     [n \in DOMAIN o.values |-> IF n \in DOMAIN diff
                                THEN Interp(o.values[n], diff[n], time)
                                ELSE o.values[n]]]
-----------------------------------------------------------------------------
(***************************************************************************)
(* DeltaSnapshot(prev.tick(), next.tick()) followed by evaluate(prev, next).*)
(***************************************************************************)
Changed(prev, next) ==
  {i \in DOMAIN prev \cap DOMAIN next : Checksum(prev[i]) # Checksum(next[i])}

Evaluate(prev, next) ==
  [prev_tick |-> prev.tick,
   next_tick |-> next.tick,
   values    |-> [i \in Changed(prev.objects, next.objects) |->
                    Compare(prev.objects[i], next.objects[i])],
   deleted   |-> DOMAIN prev.objects \ DOMAIN next.objects,
   added     |-> [i \in DOMAIN next.objects \ DOMAIN prev.objects |-> next.objects[i]]]

EvaluateThrows(prev, next) ==
  \E i \in Changed(prev.objects, next.objects) :
    CompareThrows(prev.objects[i], next.objects[i])

\* Mutant of IdsAt: objects come and go at every time.
IdsAtAnyTime(s, delta, time) ==
  (DOMAIN s.objects \cup DOMAIN delta.added) \ delta.deleted

\* The ids after the first part of apply: objects come and go at the time 1.0.
IdsAt(s, delta, time) ==
  IF time = Full THEN (DOMAIN s.objects \cup DOMAIN delta.added) \ delta.deleted
  ELSE DOMAIN s.objects

(***************************************************************************)
(* s.apply(delta, time).  The tick is that of a copy of s, whatever the    *)
(* ticks of the delta.  The code throws for a time outside [0, 1], and     *)
(* dereferences null when delta has values for an object s does not hold:  *)
(* Applicable is its precondition.                                         *)
(***************************************************************************)
Applicable(s, delta) ==
  /\ DOMAIN delta.values \subseteq DOMAIN s.objects
  /\ delta.deleted \subseteq DOMAIN s.objects

Apply(s, delta, time) ==
  [tick    |-> CopyOf(s).tick,
   objects |-> [i \in IdsAt(s, delta, time) \cup DOMAIN delta.values |->
      IF i \in DOMAIN delta.values
      THEN Interpolate(s.objects[i], delta.values[i], time)
      ELSE IF i \in DOMAIN delta.added THEN delta.added[i] ELSE s.objects[i]]]
-----------------------------------------------------------------------------
(***************************************************************************)
(* What the game values owe the snapshots.  ExactValues holds of integers  *)
(* and floats only in a range (see GameValues), and never of a             *)
(* PrimitiveValueNoInterp, which keeps its old value (types.hpp:318);      *)
(* ValuesInterpolate holds of small ints (SmallIntsInterpolate), a value   *)
(* being the int it holds; CRC-32 separates the values of two objects with *)
(* the same names only with high probability, and nothing separates those  *)
(* of objects whose names differ.                                          *)
(***************************************************************************)
ExactValues == \A v, w \in Value : Interp(v, GetDelta(v, w), Full) = w

ValuesInterpolate ==
  /\ Value \subseteq Int
  /\ \A v, w \in Value, t \in Time \ {Full} :
       Interp(v, GetDelta(v, w), t) \in v .. w \cup w .. v

FaithfulCrc ==
  \A o, p \in Object :
    DOMAIN o.values = DOMAIN p.values /\ Checksum(o) = Checksum(p) => o.values = p.values

\* No object changes its class under the same id.
SameClasses(prev, next) ==
  \A i \in DOMAIN prev.objects \cap DOMAIN next.objects :
    prev.objects[i].class = next.objects[i].class
=============================================================================
