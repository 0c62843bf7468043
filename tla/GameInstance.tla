---------------------------- MODULE GameInstance ----------------------------
(***************************************************************************)
(* core::GameInstance (sources/core/gameinstance.cpp): the queue of        *)
(* actions, the tick that plays them on a copy of the current snapshot,    *)
(* and the deltas the ticks leave behind.                                  *)
(*                                                                         *)
(* Snapshots and deltas share objects through shared_ptr, so objects are   *)
(* kept in a heap and a snapshot maps ids to addresses: what one snapshot  *)
(* or delta shows must not change when another is worked on.  Threads that *)
(* add actions interleave with the tick at every access to the queue.      *)
(***************************************************************************)
EXTENDS Snapshots, Sequences

CONSTANTS
  Action,         \* GameAction objects; an action is its own id
  Check(_, _),    \* check_action of an action, in a world
  Perform(_, _),  \* the set of ways its perform_act can end, in a world
  Update(_),      \* GameObject::update for one tick
  BaseTick,       \* the tick of the base snapshot
  BaseObjects,    \* its objects
  None,           \* a cell of the heap without an object
  MaxTick,        \* bound: the last tick
  MaxAdd          \* bound: number of add_action calls

\* How act() ends: it returns, throws an exception that _play_action catches
\* (ImpossibleAction, UnknownID), or one that it does not catch.
Ends == {"return", "caught", "other"}

Outcome == [objects : Objects, ends : Ends]

ASSUME InstanceAssumption ==
  /\ BaseTick \in Nat
  /\ MaxTick \in Nat /\ BaseTick <= MaxTick
  /\ MaxAdd \in Nat
  /\ BaseObjects \in Objects
  /\ None \notin Object
  /\ \A a \in Action, w \in Objects : Check(a, w) \in BOOLEAN
  /\ \A a \in Action, w \in Objects : Perform(a, w) \subseteq Outcome
  /\ \A o \in Object : Update(o) \in Object

\* The address of the object that the snapshot of a tick allocates for an id.
Address == (BaseTick .. MaxTick) \X Id

VARIABLES heap,      \* the objects by address
          base,      \* _base_snapshot
          current,   \* _current_snapshot
          next,      \* next_snapshot of the tick in progress
          pc,        \* "idle", or "playing" in the loop of update_tick
          queue,     \* _action_queue
          statuses,  \* _action_status_list
          deltas,    \* _delta_snapshots
          added,     \* history: actions added
          played     \* history: actions taken from the queue

vars == <<heap, base, current, next, pc, queue, statuses, deltas, added, played>>

\* A snapshot and a delta as they look through their pointers.
Show(h, s) ==
  [tick |-> s.tick, objects |-> [i \in DOMAIN s.objects |-> h[s.objects[i]]]]

ShowDelta(h, d) ==
  [d EXCEPT !.added = [i \in DOMAIN d.added |-> h[d.added[i]]]]

\* Where s has the object of an id, or would allocate it.
At(s, i) == IF i \in DOMAIN s.objects THEN s.objects[i] ELSE <<s.tick, i>>

\* The heap after s is given these objects, in place where s has them already.
Store(h, s, objects) ==
  [a \in DOMAIN h |->
     IF a[2] \in DOMAIN objects /\ a = At(s, a[2]) THEN objects[a[2]] ELSE h[a]]

Addresses(tick, ids) == [i \in ids |-> <<tick, i>>]

(***************************************************************************)
(* The constructor: _initialize() assigns the base snapshot to the current *)
(* one, which from then on has the same tick and the same objects.         *)
(***************************************************************************)
Init ==
  /\ base = [tick |-> BaseTick, objects |-> Addresses(BaseTick, DOMAIN BaseObjects)]
  /\ current = base
  /\ next = base
  /\ heap = [a \in Address |->
               IF a[1] = BaseTick /\ a[2] \in DOMAIN BaseObjects
               THEN BaseObjects[a[2]] ELSE None]
  /\ pc = "idle"
  /\ queue = <<>>
  /\ statuses = <<>>
  /\ deltas = <<>>
  /\ added = <<>>
  /\ played = <<>>
-----------------------------------------------------------------------------
AddAction(a) ==
  /\ Len(added) < MaxAdd
  /\ queue' = Append(queue, a)
  /\ added' = Append(added, a)
  /\ UNCHANGED <<heap, base, current, next, pc, statuses, deltas, played>>

\* Mutants of BeginTick: the objects are shared instead of cloned; the clones
\* are never made.
BeginTickShared ==
  /\ pc = "idle"
  /\ current.tick < MaxTick
  /\ next' = CopyOf(current)
  /\ pc' = "playing"
  /\ statuses' = <<>>
  /\ UNCHANGED <<heap, base, current, queue, deltas, added, played>>

BeginTickNoClone ==
  /\ pc = "idle"
  /\ current.tick < MaxTick
  /\ next' = [tick    |-> current.tick + 1,
              objects |-> Addresses(current.tick + 1, DOMAIN current.objects)]
  /\ pc' = "playing"
  /\ statuses' = <<>>
  /\ UNCHANGED <<heap, base, current, queue, deltas, added, played>>

\* The copy constructor makes clones; the report of the last tick is cleared.
BeginTick ==
  /\ pc = "idle"
  /\ current.tick < MaxTick
  /\ next' = [tick    |-> CopyOf(current).tick,
              objects |-> Addresses(CopyOf(current).tick, DOMAIN current.objects)]
  /\ heap' = Store(heap, next', Show(heap, current).objects)
  /\ pc' = "playing"
  /\ statuses' = <<>>
  /\ UNCHANGED <<base, current, queue, deltas, added, played>>

\* An exception leaves update_tick: next_snapshot is destroyed.
Abort ==
  /\ next' = current
  /\ heap' = [a \in DOMAIN heap |-> IF a[1] > current.tick THEN None ELSE heap[a]]
  /\ pc' = "idle"

\* GameAction::act.
Act(a, world) ==
  IF Check(a, world) THEN Perform(a, world)
  ELSE {[objects |-> world, ends |-> "caught"]}

Status(a, success) == [action_id |-> a, success |-> success]

\* Mutant of PlayAction: pop_back.
PlayLastAction ==
  /\ pc = "playing"
  /\ queue # <<>>
  /\ LET a == queue[Len(queue)]
     IN  /\ queue' = SubSeq(queue, 1, Len(queue) - 1)
         /\ played' = Append(played, a)
         /\ statuses' = Append(statuses, Status(a, TRUE))
  /\ UNCHANGED <<heap, base, current, next, pc, deltas, added>>

\* Take the first action from the queue and play it.  What act() did to the
\* world before it threw stays done.
PlayAction ==
  /\ pc = "playing"
  /\ queue # <<>>
  /\ queue' = Tail(queue)
  /\ played' = Append(played, Head(queue))
  /\ \E out \in Act(Head(queue), Show(heap, next).objects) :
       \/ /\ out.ends # "other"
          /\ heap' = Store(heap, next, out.objects)
          /\ next' = [next EXCEPT !.objects = [i \in DOMAIN out.objects |-> At(next, i)]]
          /\ statuses' = Append(statuses, Status(Head(queue), out.ends = "return"))
          /\ UNCHANGED pc
       \/ out.ends = "other" /\ Abort /\ UNCHANGED statuses
  /\ UNCHANGED <<base, current, deltas, added>>

\* Mutant of FinishTick: the delta is evaluated before the physics.
FinishTickDeltaFirst ==
  LET made    == Show(heap, next)
      before  == Show(heap, current)
      delta   == [Evaluate(before, made) EXCEPT
                    !.added = [i \in DOMAIN @ |-> next.objects[i]]]
  IN  /\ pc = "playing"
      /\ queue = <<>>
      /\ ~ EvaluateThrows(before, made)
      /\ heap' = Store(heap, next, [i \in DOMAIN made.objects |-> Update(made.objects[i])])
      /\ deltas' = Append(deltas, delta)
      /\ current' = next
      /\ pc' = "idle"
      /\ UNCHANGED <<next, base, queue, statuses, added, played>>

\* Physics, then the delta of the tick, whose added objects are those of next.
\* The tick aborts if evaluate() throws.
FinishTick ==
  LET updated == [Show(heap, next) EXCEPT
                    !.objects = [i \in DOMAIN @ |-> Update(@[i])]]
      before  == Show(heap, current)
      delta   == [Evaluate(before, updated) EXCEPT
                    !.added = [i \in DOMAIN @ |-> next.objects[i]]]
  IN  /\ pc = "playing"
      /\ queue = <<>>
      /\ \/ /\ ~ EvaluateThrows(before, updated)
            /\ heap' = Store(heap, next, updated.objects)
            /\ deltas' = Append(deltas, delta)
            /\ current' = next
            /\ pc' = "idle"
            /\ UNCHANGED next
         \/ /\ EvaluateThrows(before, updated)
            /\ Abort
            /\ UNCHANGED <<current, deltas>>
      /\ UNCHANGED <<base, queue, statuses, added, played>>

Next ==
  \/ \E a \in Action : AddAction(a)
  \/ BeginTick
  \/ PlayAction
  \/ FinishTick

Spec == Init /\ [][Next]_vars
-----------------------------------------------------------------------------
Pointers == [tick : Nat, objects : UNION {[ids -> Address] : ids \in SUBSET Id}]

TypeOK ==
  /\ heap \in [Address -> Object \cup {None}]
  /\ base \in Pointers
  /\ current \in Pointers
  /\ next \in Pointers
  /\ pc \in {"idle", "playing"}
  /\ queue \in Seq(Action)
  /\ added \in Seq(Action)
  /\ played \in Seq(Action)
  /\ statuses \in Seq([action_id : Action, success : BOOLEAN])
  /\ \A s \in {base, current, next} : Show(heap, s) \in Snapshot

(***************************************************************************)
(* The deltas lead from the base snapshot to the current one, one tick     *)
(* each, without a gap: a tick that is abandoned leaves none behind.       *)
(***************************************************************************)
DeltaChain ==
  /\ current.tick = base.tick + Len(deltas)
  /\ \A k \in DOMAIN deltas :
       deltas[k].prev_tick = base.tick + k - 1 /\ deltas[k].next_tick = base.tick + k

(***************************************************************************)
(* What a finished snapshot or a delta shows never changes, although it    *)
(* shares objects with others: a tick works on clones.                     *)
(***************************************************************************)
HistoryImmutable ==
  [][/\ Show(heap, base)' = Show(heap, base)
     /\ current' = current => Show(heap, current)' = Show(heap, current)
     /\ \A k \in DOMAIN deltas : ShowDelta(heap, deltas[k])' = ShowDelta(heap, deltas[k])
    ]_vars

(***************************************************************************)
(* A new delta applied to the snapshot it starts from gives the new        *)
(* current snapshot, so that the chain of deltas replays the game (if no   *)
(* id changes its class in a tick).                                        *)
(***************************************************************************)
TickFollowsDelta ==
  [][deltas' # deltas /\ SameClasses(Show(heap, current), Show(heap, current)') =>
       Apply(Show(heap, current), ShowDelta(heap', deltas'[Len(deltas')]), Full)
         = Show(heap, current)']_vars

(***************************************************************************)
(* Actions are played in the order in which they were added, each once,    *)
(* whatever is added while a tick runs and however ticks end.              *)
(***************************************************************************)
Channel == INSTANCE FifoChannel
             WITH Messages <- Action, sent <- added, received <- played

ImplementsFifoChannel == Channel!Spec
=============================================================================
