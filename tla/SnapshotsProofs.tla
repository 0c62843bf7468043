-------------------------- MODULE SnapshotsProofs --------------------------
(***************************************************************************)
(* Lemmas about Snapshots and Serialization: a full apply undoes           *)
(* evaluate(), for every set of ids, classes and values, as soon as single *)
(* values do so and checksums tell them apart; messages give back what     *)
(* they were made from, if the bytes of single values do (ExactBytes).     *)
(***************************************************************************)
EXTENDS Serialization, TLAPS

(***************************************************************************)
(* An object is its class and the values its class names.                  *)
(***************************************************************************)
LEMMA ObjectParts ==
  ASSUME NEW o \in Object
  PROVE  /\ o.class \in Class
         /\ o.values \in [NamesOf[o.class] -> Value]
         /\ o = [class |-> o.class, values |-> o.values]
<1>1. PICK c \in Class : o \in [class : {c}, values : [NamesOf[c] -> Value]]
  BY DEF Object
<1>2. o.class = c /\ o.values \in [NamesOf[c] -> Value]
  BY <1>1
<1>3. o = [class |-> o.class, values |-> o.values]
  BY <1>1
<1> QED
  BY <1>2, <1>3

LEMMA SnapshotParts ==
  ASSUME NEW s \in Snapshot
  PROVE  /\ s.tick \in Nat
         /\ DOMAIN s.objects \subseteq Id
         /\ s.objects \in [DOMAIN s.objects -> Object]
         /\ s = [tick |-> s.tick, objects |-> s.objects]
<1>1. s \in [tick : Nat, objects : Objects]
  BY DEF Snapshot
<1>2. s.tick \in Nat /\ s.objects \in Objects /\ s = [tick |-> s.tick, objects |-> s.objects]
  BY <1>1
<1>3. PICK ids \in SUBSET Id : s.objects \in [ids -> Object]
  BY <1>2 DEF Objects
<1> QED
  BY <1>2, <1>3

(***************************************************************************)
(* Objects of one class: interpolate() in full undoes compare(), and       *)
(* equal checksums mean that nothing has changed.                          *)
(***************************************************************************)
LEMMA ObjectRoundTrip ==
  ASSUME ExactValues, NEW o \in Object, NEW p \in Object, o.class = p.class
  PROVE  Interpolate(o, Compare(o, p), Full) = p
<1> DEFINE N == NamesOf[o.class]
           diff == Compare(o, p)
<1>1. /\ o.values \in [N -> Value]
      /\ p.values \in [N -> Value]
      /\ o = [class |-> o.class, values |-> o.values]
      /\ p = [class |-> o.class, values |-> p.values]
  BY ObjectParts
<1>2. diff = [n \in N |-> GetDelta(o.values[n], p.values[n])]
  BY <1>1 DEF Compare
<1>3. ASSUME NEW n \in N
      PROVE  Interp(o.values[n], GetDelta(o.values[n], p.values[n]), Full) = p.values[n]
  <2>1. o.values[n] \in Value /\ p.values[n] \in Value
    BY <1>1
  <2> QED
    BY <2>1 DEF ExactValues
<1>4. [n \in N |-> Interp(o.values[n], diff[n], Full)] = p.values
  BY <1>1, <1>2, <1>3
<1>5. Interpolate(o, diff, Full)
        = [o EXCEPT !.values = [n \in N |-> Interp(o.values[n], diff[n], Full)]]
  BY <1>1, <1>2 DEF Interpolate
<1>6. [o EXCEPT !.values = p.values] = p
  BY <1>1
<1> QED
  BY <1>4, <1>5, <1>6

LEMMA ObjectUnchanged ==
  ASSUME FaithfulCrc, NEW o \in Object, NEW p \in Object,
         o.class = p.class, Checksum(o) = Checksum(p)
  PROVE  o = p
<1>1. DOMAIN o.values = NamesOf[o.class] /\ DOMAIN p.values = NamesOf[o.class]
  BY ObjectParts
<1>2. o.values = p.values
  BY <1>1 DEF FaithfulCrc
<1> QED
  BY <1>2, ObjectParts

(***************************************************************************)
(* The round trip of two snapshots.                                        *)
(***************************************************************************)
LEMMA ApplyUndoesEvaluate ==
  ASSUME ExactValues, FaithfulCrc,
         NEW p \in Snapshot, NEW n \in Snapshot,
         n.tick = p.tick + 1, SameClasses(p, n)
  PROVE  /\ Applicable(p, Evaluate(p, n))
         /\ Apply(p, Evaluate(p, n), Full) = n
<1> DEFINE delta == Evaluate(p, n)
           P == DOMAIN p.objects
           N == DOMAIN n.objects
           C == Changed(p.objects, n.objects)
<1>1. /\ p.objects \in [P -> Object]
      /\ n.objects \in [N -> Object]
      /\ n = [tick |-> n.tick, objects |-> n.objects]
  BY SnapshotParts
<1>2. /\ DOMAIN delta.values = C
      /\ DOMAIN delta.added = N \ P
      /\ delta.deleted = P \ N
  BY DEF Evaluate
<1>3. C \subseteq P \cap N
  BY DEF Changed
<1>4. Applicable(p, delta)
  BY <1>2, <1>3 DEF Applicable
<1>5. IdsAt(p, delta, Full) \cup DOMAIN delta.values = N
  BY <1>2, <1>3 DEF IdsAt
<1>6. ASSUME NEW i \in C
      PROVE  Interpolate(p.objects[i], delta.values[i], Full) = n.objects[i]
  <2>1. delta.values[i] = Compare(p.objects[i], n.objects[i])
    BY DEF Evaluate
  <2>2. p.objects[i].class = n.objects[i].class
    BY <1>3 DEF SameClasses
  <2>3. p.objects[i] \in Object /\ n.objects[i] \in Object
    BY <1>1, <1>3
  <2> QED
    BY <2>1, <2>2, <2>3, ObjectRoundTrip
<1>7. ASSUME NEW i \in N \ P
      PROVE  delta.added[i] = n.objects[i]
  BY DEF Evaluate
<1>8. ASSUME NEW i \in (P \cap N) \ C
      PROVE  p.objects[i] = n.objects[i]
  <2>1. p.objects[i].class = n.objects[i].class
    BY DEF SameClasses
  <2>2. p.objects[i] \in Object /\ n.objects[i] \in Object
    BY <1>1
  <2>3. Checksum(p.objects[i]) = Checksum(n.objects[i])
    BY DEF Changed
  <2> QED
    BY <2>1, <2>2, <2>3, ObjectUnchanged
<1> DEFINE result ==
      [i \in N |-> IF i \in C THEN Interpolate(p.objects[i], delta.values[i], Full)
                   ELSE IF i \in N \ P THEN delta.added[i] ELSE p.objects[i]]
<1>9. Apply(p, delta, Full) = [tick |-> CopyOf(p).tick, objects |-> result]
  BY <1>2, <1>5 DEF Apply
<1>10. result = n.objects
  <2>1. ASSUME NEW i \in N
        PROVE  result[i] = n.objects[i]
    <3> HIDE DEF delta, C
    <3> QED
      BY <1>6, <1>7, <1>8
  <2> HIDE DEF result, delta, C
  <2>2. DOMAIN result = N /\ result = [i \in N |-> result[i]]
    BY DEF result
  <2> QED
    BY <1>1, <2>1, <2>2
<1>11. CopyOf(p).tick = n.tick
  BY SnapshotParts DEF CopyOf
<1> HIDE DEF result, delta
<1>12. Apply(p, delta, Full) = n
  BY <1>1, <1>9, <1>10, <1>11
<1> QED
  BY <1>4, <1>12 DEF delta
-----------------------------------------------------------------------------
(***************************************************************************)
(* Objects, alone and by id.                                               *)
(***************************************************************************)
LEMMA ObjectTravels ==
  ASSUME ExactBytes, NEW o \in Object
  PROVE  DeserializeObject(SerializeObject(o)) = o
<1> DEFINE N == NamesOf[o.class]
           m == SerializeObject(o)
<1>1. /\ o.values \in [N -> Value]
      /\ o = [class |-> o.class, values |-> o.values]
  BY ObjectParts
<1>2. m.type_name = o.class /\ m.values = [n \in N |-> Bytes(o.values[n])]
  BY <1>1 DEF SerializeObject
<1>3. ASSUME NEW n \in N
      PROVE  Parse(m.values[n]) = o.values[n]
  <2>1. o.values[n] \in Value
    BY <1>1
  <2>2. m.values[n] = Bytes(o.values[n])
    BY <1>2
  <2> QED
    BY <2>1, <2>2 DEF ExactBytes
<1> HIDE DEF m
<1>4. DeserializeObject(m) = [class |-> o.class, values |-> [n \in N |-> Parse(m.values[n])]]
  BY <1>2 DEF DeserializeObject
<1>5. [n \in N |-> Parse(m.values[n])] = o.values
  BY <1>1, <1>3
<1> QED
  BY <1>1, <1>4, <1>5 DEF m

LEMMA ObjectsTravel ==
  ASSUME ExactBytes, NEW ids, NEW objects \in [ids -> Object]
  PROVE  DeserializeAll(SerializeAll(objects)) = objects
<1> DEFINE m == SerializeAll(objects)
<1>1. m = [i \in ids |-> SerializeObject(objects[i])]
  BY DEF SerializeAll
<1>2. DeserializeAll(m) = [i \in ids |-> DeserializeObject(m[i])]
  BY <1>1 DEF DeserializeAll
<1>3. ASSUME NEW i \in ids
      PROVE  DeserializeObject(m[i]) = objects[i]
  BY <1>1, ObjectTravels
<1> HIDE DEF m
<1>4. [i \in ids |-> DeserializeObject(m[i])] = objects
  BY <1>3
<1> QED
  BY <1>2, <1>4 DEF m

LEMMA SnapshotTravels ==
  ASSUME ExactBytes, NEW s \in Snapshot
  PROVE  DeserializeSnapshot(SerializeSnapshot(s)) = s
<1>1. /\ s.objects \in [DOMAIN s.objects -> Object]
      /\ s = [tick |-> s.tick, objects |-> s.objects]
  BY SnapshotParts
<1>2. DeserializeAll(SerializeAll(s.objects)) = s.objects
  BY <1>1, ObjectsTravel
<1>3. DeserializeSnapshot(SerializeSnapshot(s))
        = [tick |-> s.tick, objects |-> DeserializeAll(SerializeAll(s.objects))]
  BY DEF SerializeSnapshot, DeserializeSnapshot
<1> QED
  BY <1>1, <1>2, <1>3

(***************************************************************************)
(* The deltas that evaluate() makes.                                       *)
(***************************************************************************)
LEMMA CompareTravels ==
  ASSUME ExactBytes, NEW o \in Object, NEW p \in Object, ~ CompareThrows(o, p),
         NEW n \in DOMAIN o.values
  PROVE  Parse(Bytes(Compare(o, p)[n])) = Compare(o, p)[n]
<1>1. o.values[n] \in Value /\ p.values[n] \in Value
  <2>1. n \in DOMAIN p.values
    BY DEF CompareThrows
  <2> QED
    BY <2>1, ObjectParts
<1>2. Compare(o, p)[n] = GetDelta(o.values[n], p.values[n])
  BY DEF Compare
<1> QED
  BY <1>1, <1>2 DEF ExactBytes

LEMMA DeltaTravels ==
  ASSUME ExactBytes, NEW p \in Snapshot, NEW n \in Snapshot, ~ EvaluateThrows(p, n)
  PROVE  DeserializeDelta(SerializeDelta(Evaluate(p, n))) = Evaluate(p, n)
<1> DEFINE d == Evaluate(p, n)
           m == SerializeDelta(d)
           C == Changed(p.objects, n.objects)
<1>1. /\ p.objects \in [DOMAIN p.objects -> Object]
      /\ n.objects \in [DOMAIN n.objects -> Object]
  BY SnapshotParts
<1>2. d.values = [i \in C |-> Compare(p.objects[i], n.objects[i])]
  BY DEF Evaluate
<1>3. d = [prev_tick |-> d.prev_tick, next_tick |-> d.next_tick, values |-> d.values,
           deleted |-> d.deleted, added |-> d.added]
  BY DEF Evaluate
<1>4. d.added \in [DOMAIN n.objects \ DOMAIN p.objects -> Object]
  BY <1>1 DEF Evaluate
<1> HIDE DEF d
<1>5. /\ m.delta_objects = [i \in C |->
                              [x \in DOMAIN d.values[i] |-> Bytes(d.values[i][x])]]
      /\ m.added_objects = SerializeAll(d.added)
      /\ m.deleted_objects = d.deleted
      /\ m.prev_tick = d.prev_tick
      /\ m.next_tick = d.next_tick
  BY <1>2 DEF SerializeDelta
<1> HIDE DEF m
<1>6. ASSUME NEW i \in C
      PROVE  [x \in DOMAIN m.delta_objects[i] |-> Parse(m.delta_objects[i][x])]
               = d.values[i]
  <2> DEFINE o == p.objects[i]
             q == n.objects[i]
  <2>1. o \in Object /\ q \in Object
    BY <1>1 DEF Changed
  <2>2. ~ CompareThrows(o, q)
    BY DEF EvaluateThrows
  <2>3. d.values[i] = Compare(o, q)
    BY <1>2
  <2>4. m.delta_objects[i] = [x \in DOMAIN o.values |-> Bytes(Compare(o, q)[x])]
    BY <1>5, <2>3 DEF Compare
  <2>5. \A x \in DOMAIN o.values : Parse(Bytes(Compare(o, q)[x])) = Compare(o, q)[x]
    BY <2>1, <2>2, CompareTravels
  <2>6. Compare(o, q) = [x \in DOMAIN o.values |-> Compare(o, q)[x]]
    BY DEF Compare
  <2> HIDE DEF o, q
  <2> QED
    BY <2>3, <2>4, <2>5, <2>6
<1>7. [i \in DOMAIN m.delta_objects |->
         [x \in DOMAIN m.delta_objects[i] |-> Parse(m.delta_objects[i][x])]] = d.values
  <2>1. DOMAIN m.delta_objects = C
    BY <1>5
  <2>2. d.values = [i \in C |-> d.values[i]]
    BY <1>2
  <2> HIDE DEF C
  <2> QED
    BY <1>6, <2>1, <2>2
<1>8. DeserializeAll(m.added_objects) = d.added
  BY <1>4, <1>5, ObjectsTravel
<1>9. DeserializeDelta(m) = d
  BY <1>3, <1>5, <1>7, <1>8 DEF DeserializeDelta
<1> QED
  BY <1>9 DEF d, m

(***************************************************************************)
(* Who can read the message of a delta.                                    *)
(***************************************************************************)
LEMMA DeltaReadable ==
  ASSUME NEW p \in Snapshot, NEW n \in Snapshot, NEW registry
  PROVE  LET m     == SerializeDelta(Evaluate(p, n))
             added == {n.objects[i].class : i \in DOMAIN n.objects \ DOMAIN p.objects}
         IN  /\ HasReference(m, p)
             /\ DeltaThrows(m, p, registry) <=> ~ (added \subseteq registry)
<1> DEFINE d == Evaluate(p, n)
           m == SerializeDelta(d)
           C == Changed(p.objects, n.objects)
           A == DOMAIN n.objects \ DOMAIN p.objects
           added == {n.objects[i].class : i \in A}
<1>1. /\ d.values = [i \in C |-> Compare(p.objects[i], n.objects[i])]
      /\ d.added = [i \in A |-> n.objects[i]]
  BY DEF Evaluate
<1> HIDE DEF d
<1>2. /\ m.delta_objects = [i \in C |->
                              [x \in DOMAIN d.values[i] |-> Bytes(d.values[i][x])]]
      /\ m.added_objects = [i \in A |-> SerializeObject(n.objects[i])]
  BY <1>1 DEF SerializeDelta, SerializeAll
<1> HIDE DEF m
<1>3. HasReference(m, p)
  BY <1>2 DEF HasReference, Changed
<1>4. ASSUME NEW i \in DOMAIN m.delta_objects
      PROVE  DOMAIN m.delta_objects[i] \subseteq DOMAIN p.objects[i].values
  BY <1>1, <1>2 DEF Compare
<1>5. AnyThrows(m.added_objects, registry) <=> \E i \in A : n.objects[i].class \notin registry
  BY <1>2 DEF AnyThrows, ObjectThrows, SerializeObject
<1>6. DeltaThrows(m, p, registry) <=> ~ (added \subseteq registry)
  BY <1>4, <1>5 DEF DeltaThrows
<1> QED
  BY <1>3, <1>6 DEF d, m
=============================================================================
