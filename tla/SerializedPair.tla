--------------------------- MODULE SerializedPair ---------------------------
(***************************************************************************)
(* The snapshots of SnapshotPair, and the delta between them, on their way *)
(* from one program to another.                                            *)
(***************************************************************************)
EXTENDS SnapshotPair, Serialization

(***************************************************************************)
(* A replica that holds prev needs nothing but the message of a delta to   *)
(* make next of it: the message can be read by the objects of prev, unless *)
(* it adds an object of a class the replica's program has not registered,  *)
(* and applied to prev it gives next (snapshot.cpp:196-272,                *)
(* game_object.cpp:74-122).                                                *)
(***************************************************************************)
DeltaOverWire ==
  LET m     == SerializeDelta(Delta)
      added == {next.objects[i].class : i \in DOMAIN next.objects \ DOMAIN prev.objects}
  IN  ~ EvaluateThrows(prev, next) =>
        /\ HasReference(m, prev)
        /\ \A registry \in SUBSET Class :
             DeltaThrows(m, prev, registry) <=> ~ (added \subseteq registry)
        /\ SameClasses(prev, next) => Apply(prev, DeserializeDelta(m), Full) = next

(***************************************************************************)
(* A replica may start from the message of a snapshot instead of the       *)
(* snapshot: the message gives it back, tick included (deserialize returns *)
(* a snapshot by value, but no copy of it, which would count the tick up), *)
(* and the same deltas can be read by it (snapshot.cpp:97-121).            *)
(***************************************************************************)
SnapshotOverWire == DeserializeSnapshot(SerializeSnapshot(next)) = next

(***************************************************************************)
(* server_controller.hpp:83, of _decode_packet: "Decodes a packet and      *)
(* returns the protocol buffer".  It fails: bytes of values are seldom     *)
(* UTF-8, be it only those of the difference -1 or of the int 128.         *)
(***************************************************************************)
PacketDecodes ==
  LET m == SerializeDelta(Delta)
  IN  DecodePacket(EncodePacket(m, "DELTA_SNAPSHOT_RESULT")) = {m}
=============================================================================
