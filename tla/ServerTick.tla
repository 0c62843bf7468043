----------------------------- MODULE ServerTick -----------------------------
(***************************************************************************)
(* A tick of the server: ServerController::update_tick and                 *)
(* _send_delta_update (sources/server/server_controller.cpp:81-140) around *)
(* GameInstance.  The game thread copies the waiting actions, runs the     *)
(* tick, and puts its delta into a packet, while other threads add         *)
(* actions.  To whom the packet goes is in Server.  The messages of        *)
(* actions and of their statuses are those of sources/core/action.cpp; the *)
(* text of a status is left out.                                           *)
(***************************************************************************)
EXTENDS GameInstance, Serialization

LOCAL INSTANCE SequencesExt

\* The class and the values of an action.
CONSTANT ActionObject(_)

VARIABLES step,     \* the game thread: "ready" between two ticks, "tick" in
                    \* GameInstance::update_tick, "send" after it
          actions,  \* the copy of the waiting actions
          update,   \* the DeltaSnapshotUpdate that was put together last
          packets,  \* the packets sent
          steady    \* no finished tick has changed the class of an object, a
                    \* history variable

serverVars == <<vars, step, actions, update, packets, steady>>

\* GameAction::serialize and deserialize, which throws like that of an object.
SerializeAction(a) == [id |-> a, object |-> SerializeObject(ActionObject(a))]

DeserializeAction(m) == [id |-> m.id, object |-> DeserializeObject(m.object)]

SerializeStatus(status) == [id |-> status.action_id, success |-> status.success]

DeserializeStatus(m) == [action_id |-> m.id, success |-> m.success]

\* serialize_action_status_list and deserialize_action_status_list.
SerializeStatuses(list) == [k \in DOMAIN list |-> SerializeStatus(list[k])]

DeserializeStatuses(list) == [k \in DOMAIN list |-> DeserializeStatus(list[k])]

NoUpdate == [status_list |-> <<>>, actions |-> <<>>]

ServerInit ==
  /\ Init
  /\ step = "ready"
  /\ actions = <<>>
  /\ update = NoUpdate
  /\ packets = <<>>
  /\ steady = TRUE

\* Mutant of CopyActions: to_vector starts at the back.
CopyActionsReversed ==
  /\ step = "ready"
  /\ step' = "tick"
  /\ actions' = Reverse(queue)
  /\ UNCHANGED <<vars, update, packets, steady>>

\* _instance.action_list().
CopyActions ==
  /\ step = "ready"
  /\ step' = "tick"
  /\ actions' = queue
  /\ UNCHANGED <<vars, update, packets, steady>>

\* _instance.update_tick(); its exceptions leave ServerController too.
Tick ==
  /\ step = "tick"
  /\ BeginTick \/ PlayAction \/ FinishTick
  /\ step' = IF pc' = "playing" THEN step ELSE IF deltas' # deltas THEN "send" ELSE "ready"
  /\ steady' = (steady /\ SameClasses(Show(heap, current), Show(heap, current)'))
  /\ UNCHANGED <<actions, update, packets>>

UpdateOf(list, done) ==
  [status_list |-> SerializeStatuses(list),
   actions     |-> [k \in DOMAIN done |-> SerializeAction(done[k])]]

DeltaPacket ==
  EncodePacket(SerializeDelta(ShowDelta(heap, deltas[Len(deltas)])),
               "DELTA_SNAPSHOT_RESULT")

\* Mutant of SendDelta: a tick without actions is not sent.
SendDeltaIfPlayed ==
  /\ step = "send"
  /\ step' = "ready"
  /\ update' = UpdateOf(statuses, actions)
  /\ packets' = IF statuses = <<>> THEN packets ELSE Append(packets, DeltaPacket)
  /\ UNCHANGED <<vars, actions, steady>>

\* _send_delta_update encodes the delta, not the update.
SendDelta ==
  /\ step = "send"
  /\ step' = "ready"
  /\ update' = UpdateOf(statuses, actions)
  /\ packets' = Append(packets, DeltaPacket)
  /\ UNCHANGED <<vars, actions, steady>>

ServerNext ==
  \/ \E a \in Action : AddAction(a) /\ UNCHANGED <<step, actions, update, packets, steady>>
  \/ CopyActions
  \/ Tick
  \/ SendDelta

ServerSpec == ServerInit /\ [][ServerNext]_serverVars
-----------------------------------------------------------------------------
ServerTypeOK ==
  /\ TypeOK
  /\ step \in {"ready", "tick", "send"}
  /\ actions \in Seq(Action)
  /\ update.status_list \in Seq([id : Action, success : BOOLEAN])
  /\ \A k \in DOMAIN update.actions : update.actions[k].id \in Action
  /\ \A k \in DOMAIN packets : packets[k].id = "DELTA_SNAPSHOT_RESULT"
  /\ steady \in BOOLEAN

\* What replicas become that receive a packet and apply its delta in full.
Received(replicas, p) ==
  UNION {{Apply(s, DeserializeDelta(m), Full) :
            m \in {d \in DecodePacket(p) :
                     HasReference(d, s) /\ ~ DeltaThrows(d, s, Class)}} : s \in replicas}

\* The replicas after all the packets of a list.
Replay(replicas, list) ==
  LET after[k \in 0 .. Len(list)] ==
        IF k = 0 THEN replicas ELSE Received(after[k - 1], list[k])
  IN  after[Len(list)]

(***************************************************************************)
(* Who starts from the message of the base snapshot and applies the delta  *)
(* of each packet in full has the current snapshot of the server after     *)
(* every tick, whichever ticks were abandoned in between, although every   *)
(* delta is read by the objects that the one before left behind, as long   *)
(* as no tick gave an id to an object of another class: a delta may not    *)
(* tell (snapshot.cpp:55-121, 196-272, gameinstance.cpp:25-53,             *)
(* server_controller.cpp:81-140, game_object.cpp:64-72).                   *)
(***************************************************************************)
PacketsReplay ==
  step # "send" /\ steady =>
    Replay({DeserializeSnapshot(SerializeSnapshot(Show(heap, base)))}, packets)
      = {Show(heap, current)}

\* What PacketsReplay asks of a game: its packets hold valid UTF-8 (see
\* DecodePacket).
PacketsParse == \A k \in DOMAIN packets : Parses(packets[k].body)

(***************************************************************************)
(* What the values of actions owe the wire: their bytes give them back.    *)
(***************************************************************************)
ExactActions ==
  \A a \in Action : DeserializeObject(SerializeObject(ActionObject(a))) = ActionObject(a)

(***************************************************************************)
(* The actions of an update are the first of those its status list is      *)
(* about, in the same order: what other threads add in the meantime only   *)
(* makes the status list longer.  Whoever reads the messages has the whole *)
(* actions, found by the id in the status (server_controller.cpp:84-90,    *)
(* action.cpp:17-105).                                                     *)
(***************************************************************************)
ActionsMatchStatuses ==
  LET read == DeserializeStatuses(update.status_list)
      sent == [k \in DOMAIN update.actions |-> DeserializeAction(update.actions[k])]
  IN  /\ Len(sent) <= Len(read)
      /\ \A k \in DOMAIN sent :
           sent[k] = [id |-> read[k].action_id, object |-> ActionObject(read[k].action_id)]
=============================================================================
