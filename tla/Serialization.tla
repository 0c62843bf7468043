--------------------------- MODULE Serialization ---------------------------
(***************************************************************************)
(* What objects, snapshots and deltas are on the wire: serialize() and     *)
(* deserialize() of core::GameObject, core::Snapshot, core::DeltaSnapshot, *)
(* and the packet the server puts a message into.                          *)
(*                                                                         *)
(* A message is a protobuf message of include/core/serialization and       *)
(* include/server/serialization.  Ids are unique in a message, because it  *)
(* is made from maps, so a repeated field of objects is a function here.   *)
(***************************************************************************)
EXTENDS Snapshots

CONSTANTS
  Bytes(_),    \* GameValue::serialize
  Parse(_),    \* GameValue::deserialize
  Created(_),  \* the values of an object that a class has just created
  Utf8(_)      \* whether bytes are valid UTF-8

SerializeObject(o) ==
  [type_name |-> o.class,
   values    |-> [n \in DOMAIN o.values |-> Bytes(o.values[n])]]

\* instantiate() throws UnknownClassTypeException, unless a Registrar has put
\* the class into the registry of the program that reads the message.
ObjectThrows(m, registry) == m.type_name \notin registry

\* The values of a new object of the class are changed, name by name.  (A name
\* the class does not have would be null: the programs that write and read a
\* message have the same classes under the same names.)
DeserializeObject(m) ==
  [class  |-> m.type_name,
   values |-> [n \in NamesOf[m.type_name] |->
                 IF n \in DOMAIN m.values THEN Parse(m.values[n])
                 ELSE Created(m.type_name)[n]]]
-----------------------------------------------------------------------------
SerializeAll(objects) == [i \in DOMAIN objects |-> SerializeObject(objects[i])]

DeserializeAll(messages) == [i \in DOMAIN messages |-> DeserializeObject(messages[i])]

AnyThrows(messages, registry) ==
  \E i \in DOMAIN messages : ObjectThrows(messages[i], registry)

\* Snapshot::serialize.
SerializeSnapshot(s) == [tick |-> s.tick, objects |-> SerializeAll(s.objects)]

\* Mutant of DeserializeSnapshot: a copy is returned.
DeserializeSnapshotCopied(m) ==
  CopyOf([tick |-> m.tick, objects |-> DeserializeAll(m.objects)])

\* The copy that "return snapshot" might make is elided.
DeserializeSnapshot(m) == [tick |-> m.tick, objects |-> DeserializeAll(m.objects)]

\* DeltaSnapshot::serialize.
SerializeDelta(d) ==
  [prev_tick       |-> d.prev_tick,
   next_tick       |-> d.next_tick,
   delta_objects   |-> [i \in DOMAIN d.values |->
                          [n \in DOMAIN d.values[i] |-> Bytes(d.values[i][n])]],
   added_objects   |-> SerializeAll(d.added),
   deleted_objects |-> d.deleted]

(***************************************************************************)
(* DeltaSnapshot::deserialize.  A value is read by the value of the same   *)
(* name of the object with the same id in the reference snapshot.  Without *)
(* such an object the code dereferences null: HasReference is its          *)
(* precondition.  Without such a name, or with an added object of a class  *)
(* that is not registered, it throws.                                      *)
(***************************************************************************)
HasReference(m, reference) == DOMAIN m.delta_objects \subseteq DOMAIN reference.objects

DeltaThrows(m, reference, registry) ==
  \/ \E i \in DOMAIN m.delta_objects :
       ~ (DOMAIN m.delta_objects[i] \subseteq DOMAIN reference.objects[i].values)
  \/ AnyThrows(m.added_objects, registry)

DeserializeDelta(m) ==
  [prev_tick |-> m.prev_tick,
   next_tick |-> m.next_tick,
   values    |-> [i \in DOMAIN m.delta_objects |->
                    [n \in DOMAIN m.delta_objects[i] |-> Parse(m.delta_objects[i][n])]],
   deleted   |-> m.deleted_objects,
   added     |-> DeserializeAll(m.added_objects)]
-----------------------------------------------------------------------------
(***************************************************************************)
(* Packets.  A value is a string field of the message, of which proto3     *)
(* demands UTF-8: ParseFromArray stops at the first string that is not,    *)
(* and _decode_packet does not look at what it returns.  What was read     *)
(* before stays in the message; deleted_objects come last on the wire.     *)
(***************************************************************************)
EncodePacket(m, type) == [id |-> type, body |-> m]

AllUtf8(strings) == \A n \in DOMAIN strings : Utf8(strings[n])

\* Parts of the fields of a message that can be read.
ReadableValues(values) ==
  {[i \in ids |-> values[i]] :
     ids \in SUBSET {i \in DOMAIN values : AllUtf8(values[i])}}

ReadableObjects(objects) ==
  {[i \in ids |-> objects[i]] :
     ids \in SUBSET {i \in DOMAIN objects : AllUtf8(objects[i].values)}}

Parses(m) ==
  /\ m.delta_objects \in ReadableValues(m.delta_objects)
  /\ m.added_objects \in ReadableObjects(m.added_objects)

\* The messages that may result from decoding a packet with a delta.
DecodePacket(p) ==
  LET m == p.body
  IN  IF Parses(m) THEN {m}
      ELSE {[m EXCEPT !.delta_objects = v, !.added_objects = o, !.deleted_objects = {}] :
              v \in ReadableValues(m.delta_objects), o \in ReadableObjects(m.added_objects)}
-----------------------------------------------------------------------------
(***************************************************************************)
(* What the values owe the wire: their bytes, and those of their deltas,   *)
(* give them back.  GameValues defines the bytes of ints.                  *)
(***************************************************************************)
ExactBytes ==
  \A v, w \in Value :
    /\ Parse(Bytes(v)) = v
    /\ Parse(Bytes(GetDelta(v, w))) = GetDelta(v, w)
=============================================================================
