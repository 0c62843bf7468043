------------------------- MODULE GameInstanceProofs -------------------------
(***************************************************************************)
(* Proofs about GameInstance, and about ServerTick, which lets it tick.    *)
(***************************************************************************)
EXTENDS ServerTick, SnapshotsProofs, ListProofs

Cells == Object \cup {None}

\* All objects of s are the ones its tick allocated.
Own(s) == \A i \in DOMAIN s.objects : s.objects[i] = <<s.tick, i>>

\* All objects are those of a tick up to t.
UpTo(objects, t) ==
  \A i \in DOMAIN objects : objects[i] \in Address /\ objects[i][1] <= t

(***************************************************************************)
(* A pointer leads to a snapshot if each of its addresses holds an object. *)
(***************************************************************************)
LEMMA PointerParts ==
  ASSUME NEW s \in Pointers
  PROVE  /\ s.tick \in Nat
         /\ DOMAIN s.objects \subseteq Id
         /\ s.objects \in [DOMAIN s.objects -> Address]
         /\ s = [tick |-> s.tick, objects |-> s.objects]
<1>1. PICK ids \in SUBSET Id : s.objects \in [ids -> Address]
  BY DEF Pointers
<1>2. s.tick \in Nat /\ s = [tick |-> s.tick, objects |-> s.objects]
  BY DEF Pointers
<1> QED
  BY <1>1, <1>2

LEMMA PointerMade ==
  ASSUME NEW t \in Nat, NEW ids \in SUBSET Id, NEW f \in [ids -> Address]
  PROVE  [tick |-> t, objects |-> f] \in Pointers
<1>1. f \in UNION {[js -> Address] : js \in SUBSET Id}
  OBVIOUS
<1> QED
  BY <1>1 DEF Pointers

LEMMA ObjectsMade ==
  ASSUME NEW ids \in SUBSET Id, NEW f \in [ids -> Object]
  PROVE  f \in Objects
BY DEF Objects

LEMMA ObjectsParts ==
  ASSUME NEW w \in Objects
  PROVE  DOMAIN w \subseteq Id /\ w \in [DOMAIN w -> Object]
BY DEF Objects

LEMMA Shown ==
  ASSUME NEW h, NEW s \in Pointers, \A i \in DOMAIN s.objects : h[s.objects[i]] \in Object
  PROVE  Show(h, s) \in Snapshot
<1> DEFINE f == [i \in DOMAIN s.objects |-> h[s.objects[i]]]
<1>1. s.tick \in Nat /\ DOMAIN s.objects \subseteq Id
  BY PointerParts
<1>2. f \in [DOMAIN s.objects -> Object]
  OBVIOUS
<1>3. f \in Objects
  BY <1>1, <1>2, ObjectsMade
<1> HIDE DEF f
<1>4. [tick |-> s.tick, objects |-> f] \in Snapshot
  BY <1>1, <1>3 DEF Snapshot
<1> QED
  BY <1>4 DEF Show, f

(***************************************************************************)
(* The snapshots of the program point only to objects.                     *)
(***************************************************************************)
LEMMA ShownObjects ==
  ASSUME NEW h, NEW s, Show(h, s) \in Snapshot
  PROVE  /\ \A i \in DOMAIN s.objects : h[s.objects[i]] \in Object
         /\ Show(h, s).objects \in Objects
         /\ DOMAIN Show(h, s).objects = DOMAIN s.objects
         /\ DOMAIN s.objects \subseteq Id
<1> DEFINE f == [i \in DOMAIN s.objects |-> h[s.objects[i]]]
<1>1. Show(h, s).objects = f
  BY DEF Show
<1>2. f \in Objects
  BY <1>1 DEF Snapshot
<1>3. f \in [DOMAIN f -> Object] /\ DOMAIN f \subseteq Id
  BY <1>2, ObjectsParts
<1> QED
  BY <1>1, <1>2, <1>3

LEMMA TickAddress ==
  ASSUME NEW t \in BaseTick .. MaxTick, NEW i \in Id
  PROVE  <<t, i>> \in Address
BY DEF Address

LEMMA AddressParts ==
  ASSUME NEW a \in Address
  PROVE  /\ a[1] \in BaseTick .. MaxTick
         /\ a[2] \in Id
         /\ a = <<a[1], a[2]>>
BY DEF Address

(***************************************************************************)
(* Storing the objects of a snapshot that owns all of its objects writes   *)
(* the addresses of its tick, and nothing else.                            *)
(***************************************************************************)
LEMMA OwnAddress ==
  ASSUME NEW s, Own(s), NEW i
  PROVE  At(s, i) = <<s.tick, i>>
BY DEF At, Own

LEMMA StoreOwn ==
  ASSUME NEW h \in [Address -> Cells], NEW s, Own(s), s.tick \in BaseTick .. MaxTick,
         NEW objects \in Objects
  PROVE  /\ Store(h, s, objects) \in [Address -> Cells]
         /\ \A i \in DOMAIN objects : Store(h, s, objects)[<<s.tick, i>>] = objects[i]
         /\ \A a \in Address : a[1] < s.tick => Store(h, s, objects)[a] = h[a]
<1> DEFINE new == Store(h, s, objects)
<1>1. DOMAIN objects \subseteq Id /\ \A i \in DOMAIN objects : objects[i] \in Object
  BY ObjectsParts
<1>2. new = [a \in Address |-> IF a[2] \in DOMAIN objects /\ a = At(s, a[2])
                               THEN objects[a[2]] ELSE h[a]]
  BY DEF Store
<1>3. new \in [Address -> Cells]
  BY <1>1, <1>2 DEF Cells
<1>4. ASSUME NEW i \in DOMAIN objects
      PROVE  new[<<s.tick, i>>] = objects[i]
  <2>1. <<s.tick, i>> \in Address
    BY <1>1, TickAddress
  <2>2. At(s, i) = <<s.tick, i>>
    BY OwnAddress
  <2> QED
    BY <1>2, <2>1, <2>2
<1>5. ASSUME NEW a \in Address, a[1] < s.tick
      PROVE  new[a] = h[a]
  <2>1. At(s, a[2]) = <<s.tick, a[2]>>
    BY OwnAddress
  <2>2. a[1] # s.tick
    BY <1>5, AddressParts, InstanceAssumption DEF InstanceAssumption
  <2>3. a # At(s, a[2])
    BY <2>1, <2>2
  <2> QED
    BY <1>2, <2>3
<1> QED
  BY <1>3, <1>4, <1>5
-----------------------------------------------------------------------------
(***************************************************************************)
(* The inductive invariant: where the ticks and the addresses of the       *)
(* snapshots are, and that the deltas are a list.                          *)
(***************************************************************************)
TickInv ==
  /\ current.tick \in BaseTick .. MaxTick
  /\ pc = "idle" => next = current
  /\ pc = "playing" => next.tick = current.tick + 1 /\ next.tick <= MaxTick /\ Own(next)

PastInv ==
  /\ UpTo(base.objects, current.tick)
  /\ UpTo(current.objects, current.tick)
  /\ \A k \in DOMAIN deltas : UpTo(deltas[k].added, current.tick)

ListInv == deltas \in Seq({deltas[k] : k \in DOMAIN deltas})

InstanceInv == TypeOK /\ TickInv /\ PastInv /\ ListInv

\* Nothing is written to the ticks up to the current one.
Kept == \A a \in Address : a[1] <= current.tick => heap'[a] = heap[a]

LEMMA ShowKept ==
  ASSUME Kept, NEW s, UpTo(s.objects, current.tick)
  PROVE  Show(heap', s) = Show(heap, s)
<1>1. \A i \in DOMAIN s.objects : heap'[s.objects[i]] = heap[s.objects[i]]
  BY DEF Kept, UpTo
<1> QED
  BY <1>1 DEF Show

LEMMA ShowDeltaKept ==
  ASSUME Kept, NEW d, UpTo(d.added, current.tick)
  PROVE  ShowDelta(heap', d) = ShowDelta(heap, d)
<1>1. \A i \in DOMAIN d.added : heap'[d.added[i]] = heap[d.added[i]]
  BY DEF Kept, UpTo
<1> QED
  BY <1>1 DEF ShowDelta

LEMMA ActOutcome ==
  ASSUME NEW a \in Action, NEW w \in Objects
  PROVE  Act(a, w) \subseteq Outcome
<1>1. Perform(a, w) \subseteq Outcome
  BY InstanceAssumption DEF InstanceAssumption
<1>2. [objects |-> w, ends |-> "caught"] \in Outcome
  BY DEF Outcome, Ends
<1> QED
  BY <1>1, <1>2 DEF Act

(***************************************************************************)
(* The queue and the histories.                                            *)
(***************************************************************************)
Queues ==
  /\ queue \in Seq(Action)
  /\ added \in Seq(Action)
  /\ played \in Seq(Action)
  /\ statuses \in Seq([action_id : Action, success : BOOLEAN])

LEMMA AppendTyped ==
  ASSUME NEW S, NEW seq \in Seq(S), NEW elt \in S
  PROVE  Append(seq, elt) \in Seq(S)
BY AppendProperties

LEMMA QueuesTyped ==
  ASSUME TypeOK, [Next]_vars
  PROVE  Queues'
<1> USE DEF TypeOK, Queues
<1>1. ASSUME NEW a \in Action, AddAction(a)
      PROVE  Queues'
  BY <1>1 DEF AddAction
<1>2. CASE BeginTick
  BY <1>2 DEF BeginTick
<1>3. CASE PlayAction
  <2>1. Head(queue) \in Action /\ Tail(queue) \in Seq(Action)
    BY <1>3, HeadTailProperties DEF PlayAction
  <2>2. queue' \in Seq(Action) /\ played' \in Seq(Action) /\ added' \in Seq(Action)
    BY <1>3, <2>1 DEF PlayAction
  <2> DEFINE Entry == [action_id : Action, success : BOOLEAN]
  <2>3. \/ UNCHANGED statuses
        \/ statuses' = Append(statuses, Status(Head(queue), TRUE))
        \/ statuses' = Append(statuses, Status(Head(queue), FALSE))
    BY <1>3 DEF PlayAction
  <2>4. Status(Head(queue), TRUE) \in Entry /\ Status(Head(queue), FALSE) \in Entry
    BY <2>1 DEF Status
  <2>5. statuses \in Seq(Entry)
    OBVIOUS
  <2> HIDE DEF Entry, TypeOK, Queues
  <2>6. statuses' \in Seq(Entry)
    BY <2>3, <2>4, <2>5, AppendTyped, Zenon
  <2>7. statuses' \in Seq([action_id : Action, success : BOOLEAN])
    BY <2>6 DEF Entry
  <2> QED
    BY <2>2, <2>7 DEF Queues
<1>4. CASE FinishTick
  BY <1>4 DEF FinishTick
<1>5. CASE UNCHANGED vars
  BY <1>5 DEF vars
<1> QED
  BY <1>1, <1>2, <1>3, <1>4, <1>5 DEF Next

(***************************************************************************)
(* A tick that is left by an exception.                                    *)
(***************************************************************************)
LEMMA AbortKeeps ==
  ASSUME InstanceInv, Abort
  PROVE  Kept /\ heap' \in [Address -> Cells]
<1>1. heap \in [Address -> Cells]
  BY DEF InstanceInv, TypeOK, Cells
<1>2. current.tick \in Int
  BY InstanceAssumption DEF InstanceInv, TickInv, InstanceAssumption
<1>3. heap' = [a \in Address |-> IF a[1] > current.tick THEN None ELSE heap[a]]
  BY <1>1 DEF Abort
<1>4. heap' \in [Address -> Cells]
  BY <1>1, <1>3 DEF Cells
<1>5. ASSUME NEW a \in Address, a[1] <= current.tick
      PROVE  heap'[a] = heap[a]
  <2>1. a[1] \in Int
    BY AddressParts, InstanceAssumption DEF InstanceAssumption
  <2> QED
    BY <1>2, <1>3, <1>5, <2>1
<1> QED
  BY <1>4, <1>5 DEF Kept

LEMMA InvPast ==
  ASSUME InstanceInv
  PROVE  /\ heap \in [Address -> Cells]
         /\ current.tick \in Nat /\ current.tick \in BaseTick .. MaxTick
         /\ current \in Pointers /\ next \in Pointers /\ base \in Pointers
         /\ Show(heap, base) \in Snapshot
         /\ Show(heap, current) \in Snapshot
         /\ Show(heap, next) \in Snapshot
BY InstanceAssumption DEF InstanceInv, TypeOK, TickInv, Cells, InstanceAssumption

(***************************************************************************)
(* A step that makes no delta and keeps what was written keeps all of the  *)
(* invariant that is not about next.                                       *)
(***************************************************************************)
LEMMA HistoryKept ==
  ASSUME InstanceInv, Kept, UNCHANGED <<base, current, deltas>>
  PROVE  /\ PastInv' /\ ListInv'
         /\ Show(heap', base) = Show(heap, base)
         /\ Show(heap', current) = Show(heap, current)
         /\ \A k \in DOMAIN deltas : ShowDelta(heap', deltas[k]) = ShowDelta(heap, deltas[k])
<1>1. PastInv /\ ListInv
  BY DEF InstanceInv
<1>2. PastInv'
  BY <1>1 DEF PastInv, UpTo
<1>3. ListInv'
  BY <1>1 DEF ListInv
<1>4. Show(heap', base) = Show(heap, base)
  BY <1>1, ShowKept DEF PastInv
<1>5. Show(heap', current) = Show(heap, current)
  BY <1>1, ShowKept DEF PastInv
<1>6. ASSUME NEW k \in DOMAIN deltas
      PROVE  ShowDelta(heap', deltas[k]) = ShowDelta(heap, deltas[k])
  BY <1>1, <1>6, ShowDeltaKept DEF PastInv
<1> QED
  BY <1>2, <1>3, <1>4, <1>5, <1>6

(***************************************************************************)
(* A new next_snapshot, and one that was worked on: it owns its objects,   *)
(* and they are stored at the addresses of its tick.                       *)
(***************************************************************************)
LEMMA NextStored ==
  ASSUME NEW h \in [Address -> Cells], NEW t \in BaseTick .. MaxTick, t \in Nat,
         NEW s, Own(s), s.tick = t,
         NEW objects \in Objects,
         NEW n, n = [tick |-> t, objects |-> Addresses(t, DOMAIN objects)]
  PROVE  /\ n \in Pointers
         /\ Own(n)
         /\ Store(h, s, objects) \in [Address -> Cells]
         /\ Show(Store(h, s, objects), n) = [tick |-> t, objects |-> objects]
         /\ Show(Store(h, s, objects), n) \in Snapshot
         /\ \A a \in Address : a[1] < t => Store(h, s, objects)[a] = h[a]
<1> DEFINE ids == DOMAIN objects
           new == Store(h, s, objects)
<1>1. ids \in SUBSET Id /\ objects \in [ids -> Object]
  BY ObjectsParts
<1>2. Addresses(t, ids) \in [ids -> Address]
  BY <1>1, TickAddress DEF Addresses
<1>3. n \in Pointers
  BY <1>1, <1>2, PointerMade
<1>4. Own(n)
  BY DEF Own, Addresses
<1>5. /\ new \in [Address -> Cells]
      /\ \A i \in ids : new[<<t, i>>] = objects[i]
      /\ \A a \in Address : a[1] < t => new[a] = h[a]
  BY StoreOwn
<1> HIDE DEF new
<1>6. n.tick = t /\ n.objects = [i \in ids |-> <<t, i>>]
  BY DEF Addresses
<1>7. [i \in DOMAIN n.objects |-> new[n.objects[i]]] = objects
  BY <1>1, <1>5, <1>6
<1>8. Show(new, n) = [tick |-> t, objects |-> objects]
  BY <1>6, <1>7 DEF Show
<1>9. Show(new, n) \in Snapshot
  BY <1>8 DEF Snapshot
<1> QED
  BY <1>3, <1>4, <1>5, <1>8, <1>9 DEF new

LEMMA ListAppend ==
  ASSUME NEW s, s \in Seq({s[k] : k \in DOMAIN s}), NEW e,
         NEW a, a = Append(s, e)
  PROVE  /\ a \in Seq({a[k] : k \in DOMAIN a})
         /\ Len(s) \in Nat
         /\ Len(a) = Len(s) + 1
         /\ DOMAIN s = 1 .. Len(s)
         /\ DOMAIN a = 1 .. Len(s) + 1
         /\ \A k \in DOMAIN s : a[k] = s[k]
         /\ a[Len(s) + 1] = e
<1> DEFINE S == {s[k] : k \in DOMAIN s} \cup {e}
<1>1. s \in Seq(S) /\ e \in S
  OBVIOUS
<1> HIDE DEF S
<1>2. /\ a \in Seq(S)
      /\ Len(a) = Len(s) + 1
      /\ \A k \in 1 .. Len(s) : a[k] = s[k]
      /\ a[Len(s) + 1] = e
  BY <1>1, AppendProperties
<1>3. Len(s) \in Nat /\ DOMAIN s = 1 .. Len(s) /\ DOMAIN a = 1 .. Len(s) + 1
  BY <1>1, <1>2
<1>4. a \in Seq({a[k] : k \in DOMAIN a})
  BY <1>2
<1> QED
  BY <1>2, <1>3, <1>4

(***************************************************************************)
(* The actions, one after the other.                                       *)
(***************************************************************************)
LEMMA TypesMade ==
  ASSUME Queues', heap' \in [Address -> Cells], pc' \in {"idle", "playing"},
         base' \in Pointers, current' \in Pointers, next' \in Pointers,
         Show(heap', base') \in Snapshot,
         Show(heap', current') \in Snapshot,
         Show(heap', next') \in Snapshot
  PROVE  TypeOK'
BY DEF TypeOK, Queues, Cells

LEMMA BeginStep ==
  ASSUME InstanceInv, BeginTick
  PROVE  InstanceInv' /\ Kept
<1> DEFINE t == current.tick + 1
           objects == Show(heap, current).objects
<1>1. /\ t \in BaseTick .. MaxTick
      /\ t \in Nat
  BY InvPast, InstanceAssumption DEF BeginTick, InstanceAssumption
<1>2. CopyOf(current).tick = t
  BY InvPast, PointerParts DEF CopyOf
<1>3. objects \in Objects /\ DOMAIN objects = DOMAIN current.objects
  BY InvPast, ShownObjects
<1>4. next' = [tick |-> t, objects |-> Addresses(t, DOMAIN objects)]
  BY <1>2, <1>3 DEF BeginTick
<1>5. Own(next') /\ next'.tick = t
  BY <1>4 DEF Own, Addresses
<1>6. heap' = Store(heap, next', objects)
  BY DEF BeginTick
<1> HIDE DEF objects
<1>7. /\ next' \in Pointers
      /\ heap' \in [Address -> Cells]
      /\ Show(heap', next') \in Snapshot
      /\ \A a \in Address : a[1] < t => heap'[a] = heap[a]
  BY <1>1, <1>3, <1>4, <1>5, <1>6, InvPast, NextStored
<1>8. Kept
  <2>1. \A a \in Address : a[1] \in Int
    BY AddressParts, InstanceAssumption DEF InstanceAssumption
  <2> QED
    BY <1>7, <2>1, InvPast DEF Kept
<1>9. UNCHANGED <<base, current, deltas>> /\ pc' = "playing"
  BY DEF BeginTick
<1>10. /\ PastInv' /\ ListInv'
       /\ Show(heap', base') \in Snapshot
       /\ Show(heap', current') \in Snapshot
  BY <1>8, <1>9, HistoryKept, InvPast
<1>11. Queues'
  BY QueuesTyped DEF InstanceInv, Next
<1>12. TypeOK'
  BY <1>7, <1>9, <1>10, <1>11, InvPast, TypesMade
<1>13. TickInv'
  BY <1>1, <1>5, <1>9, InvPast DEF TickInv, Own
<1> QED
  BY <1>8, <1>10, <1>12, <1>13 DEF InstanceInv

\* The part of a tick in which next_snapshot is worked on or dropped.
LEMMA AbortStep ==
  ASSUME InstanceInv, Abort, Queues', UNCHANGED <<base, current, deltas>>
  PROVE  InstanceInv' /\ Kept
<1>1. Kept /\ heap' \in [Address -> Cells]
  BY AbortKeeps
<1>2. /\ PastInv' /\ ListInv'
      /\ Show(heap', base') \in Snapshot
      /\ Show(heap', current') \in Snapshot
  BY <1>1, HistoryKept, InvPast
<1>3. next' = current' /\ pc' = "idle"
  BY DEF Abort
<1>4. TypeOK'
  BY <1>1, <1>2, <1>3, InvPast, TypesMade
<1>5. TickInv'
  BY <1>3, InvPast DEF TickInv
<1> QED
  BY <1>1, <1>2, <1>4, <1>5 DEF InstanceInv

\* What is stored at the addresses of next while it is worked on.
LEMMA WorkStored ==
  ASSUME InstanceInv, pc = "playing", NEW objects \in Objects,
         NEW n, n = [tick |-> next.tick, objects |-> Addresses(next.tick, DOMAIN objects)],
         heap' = Store(heap, next, objects)
  PROVE  /\ n \in Pointers
         /\ Own(n)
         /\ heap' \in [Address -> Cells]
         /\ Show(heap', n) = [tick |-> next.tick, objects |-> objects]
         /\ Show(heap', n) \in Snapshot
         /\ Kept
<1>1. /\ next.tick = current.tick + 1
      /\ next.tick \in BaseTick .. MaxTick
      /\ next.tick \in Nat
      /\ Own(next)
  BY InvPast, InstanceAssumption DEF InstanceInv, TickInv, InstanceAssumption
<1>2. /\ n \in Pointers
      /\ Own(n)
      /\ heap' \in [Address -> Cells]
      /\ Show(heap', n) = [tick |-> next.tick, objects |-> objects]
      /\ Show(heap', n) \in Snapshot
      /\ \A a \in Address : a[1] < next.tick => heap'[a] = heap[a]
  BY <1>1, InvPast, NextStored
<1>3. \A a \in Address : a[1] \in Int
  BY AddressParts, InstanceAssumption DEF InstanceAssumption
<1>4. Kept
  BY <1>1, <1>2, <1>3, InvPast DEF Kept
<1> QED
  BY <1>2, <1>4

LEMMA PlayStep ==
  ASSUME InstanceInv, PlayAction
  PROVE  InstanceInv' /\ Kept
<1>1. Queues'
  BY QueuesTyped DEF InstanceInv, Next
<1>2. UNCHANGED <<base, current, deltas>> /\ pc = "playing"
  BY DEF PlayAction
<1> DEFINE world == Show(heap, next).objects
<1>3. world \in Objects /\ Head(queue) \in Action
  BY InvPast, ShownObjects, HeadTailProperties DEF InstanceInv, TypeOK, PlayAction
<1>4. PICK out \in Act(Head(queue), world) :
        \/ /\ heap' = Store(heap, next, out.objects)
           /\ next' = [next EXCEPT !.objects = [i \in DOMAIN out.objects |-> At(next, i)]]
           /\ UNCHANGED pc
        \/ Abort
  BY DEF PlayAction
<1>5. out.objects \in Objects
  BY <1>3, ActOutcome DEF Outcome
<1>6. CASE Abort
  BY <1>1, <1>2, <1>6, AbortStep
<1>7. CASE /\ heap' = Store(heap, next, out.objects)
           /\ next' = [next EXCEPT !.objects = [i \in DOMAIN out.objects |-> At(next, i)]]
           /\ UNCHANGED pc
  <2>1. Own(next)
    BY <1>2 DEF InstanceInv, TickInv
  <2>2. [i \in DOMAIN out.objects |-> At(next, i)] = Addresses(next.tick, DOMAIN out.objects)
    BY <2>1, OwnAddress DEF Addresses
  <2>3. next' = [tick |-> next.tick, objects |-> Addresses(next.tick, DOMAIN out.objects)]
    <3>1. next = [tick |-> next.tick, objects |-> next.objects]
      BY InvPast, PointerParts
    <3> QED
      BY <1>7, <2>2, <3>1
  <2>4. /\ next' \in Pointers
        /\ Own(next')
        /\ heap' \in [Address -> Cells]
        /\ Show(heap', next') \in Snapshot
        /\ Kept
    BY <1>2, <1>5, <1>7, <2>3, WorkStored
  <2>5. /\ PastInv' /\ ListInv'
        /\ Show(heap', base') \in Snapshot
        /\ Show(heap', current') \in Snapshot
    BY <1>2, <2>4, HistoryKept, InvPast
  <2>6. TypeOK'
    BY <1>1, <1>2, <1>7, <2>4, <2>5, InvPast, TypesMade
  <2>7. next'.tick = next.tick
    BY <2>3
  <2>8. TickInv'
    BY <1>2, <1>7, <2>4, <2>7 DEF InstanceInv, TickInv, Own
  <2> QED
    BY <2>4, <2>5, <2>6, <2>8 DEF InstanceInv
<1> QED
  BY <1>4, <1>6, <1>7

(***************************************************************************)
(* The end of a tick: the new current snapshot shows what physics made of  *)
(* next, and the new delta is evaluate() of the two.                       *)
(***************************************************************************)
Updated ==
  [Show(heap, next) EXCEPT !.objects = [i \in DOMAIN @ |-> Update(@[i])]]

NewDelta ==
  [Evaluate(Show(heap, current), Updated) EXCEPT
     !.added = [i \in DOMAIN @ |-> next.objects[i]]]

LEMMA UpdatedObjects ==
  ASSUME InstanceInv
  PROVE  /\ Updated.objects \in Objects
         /\ DOMAIN Updated.objects = DOMAIN next.objects
         /\ Updated = [tick |-> next.tick, objects |-> Updated.objects]
<1> DEFINE world == Show(heap, next).objects
           f == [i \in DOMAIN world |-> Update(world[i])]
<1>1. /\ world \in Objects
      /\ DOMAIN world = DOMAIN next.objects
  BY InvPast, ShownObjects
<1>2. Show(heap, next) = [tick |-> next.tick, objects |-> world]
  BY DEF Show
<1>3. DOMAIN world \in SUBSET Id /\ world \in [DOMAIN world -> Object]
  BY <1>1, ObjectsParts
<1> HIDE DEF world
<1>4. f \in [DOMAIN world -> Object]
  BY <1>3, InstanceAssumption DEF InstanceAssumption
<1>5. f \in Objects
  BY <1>3, <1>4, ObjectsMade
<1>6. Updated = [tick |-> next.tick, objects |-> f]
  BY <1>2 DEF Updated
<1> QED
  BY <1>1, <1>5, <1>6

LEMMA FinishMakes ==
  ASSUME InstanceInv, FinishTick, ~ EvaluateThrows(Show(heap, current), Updated)
  PROVE  /\ heap' = Store(heap, next, Updated.objects)
         /\ deltas' = Append(deltas, NewDelta)
         /\ current' = next
         /\ pc' = "idle"
         /\ UNCHANGED <<next, base>>
BY DEF FinishTick, Updated, NewDelta

LEMMA NewDeltaAdded ==
  ASSUME InstanceInv
  PROVE  /\ DOMAIN NewDelta.added \subseteq DOMAIN next.objects
         /\ \A i \in DOMAIN NewDelta.added : NewDelta.added[i] = next.objects[i]
         /\ NewDelta.prev_tick = current.tick
         /\ NewDelta.next_tick = next.tick
<1> DEFINE E == Evaluate(Show(heap, current), Updated)
<1>1. DOMAIN E.added \subseteq DOMAIN next.objects
  BY UpdatedObjects DEF Evaluate
<1>2. E.prev_tick = current.tick /\ E.next_tick = next.tick
  BY UpdatedObjects DEF Evaluate, Show
<1>3. E = [prev_tick |-> E.prev_tick, next_tick |-> E.next_tick, values |-> E.values,
           deleted |-> E.deleted, added |-> E.added]
  BY DEF Evaluate
<1> HIDE DEF E
<1>4. NewDelta = [E EXCEPT !.added = [i \in DOMAIN E.added |-> next.objects[i]]]
  BY DEF NewDelta, E
<1> QED
  BY <1>1, <1>2, <1>3, <1>4

LEMMA FinishNew ==
  ASSUME InstanceInv, FinishTick, ~ EvaluateThrows(Show(heap, current), Updated)
  PROVE  /\ InstanceInv' /\ Kept
         /\ Show(heap', next) = Updated
<1>1. /\ heap' = Store(heap, next, Updated.objects)
      /\ deltas' = Append(deltas, NewDelta)
      /\ current' = next
      /\ pc' = "idle"
      /\ UNCHANGED <<next, base>>
  BY FinishMakes
<1>2. /\ pc = "playing"
      /\ Own(next)
      /\ next.tick = current.tick + 1
      /\ next.tick \in BaseTick .. MaxTick
      /\ next \in Pointers
  BY InvPast, InstanceAssumption DEF FinishTick, InstanceInv, TickInv, InstanceAssumption
<1>3. next = [tick |-> next.tick, objects |-> Addresses(next.tick, DOMAIN Updated.objects)]
  <2>1. next.objects = [i \in DOMAIN next.objects |-> <<next.tick, i>>]
    BY <1>2, PointerParts DEF Own
  <2> QED
    BY <1>2, <2>1, PointerParts, UpdatedObjects DEF Addresses
<1>4. /\ heap' \in [Address -> Cells]
      /\ Show(heap', next) = [tick |-> next.tick, objects |-> Updated.objects]
      /\ Show(heap', next) \in Snapshot
      /\ Kept
  BY <1>1, <1>2, <1>3, UpdatedObjects, WorkStored
<1>5. Show(heap', next) = Updated
  BY <1>4, UpdatedObjects
<1>6. PastInv /\ ListInv
  BY DEF InstanceInv
<1>7. Show(heap', base') \in Snapshot
  BY <1>1, <1>4, <1>6, ShowKept, InvPast DEF PastInv
<1>8. Queues'
  BY QueuesTyped DEF InstanceInv, Next
<1>9. TypeOK'
  BY <1>1, <1>2, <1>4, <1>7, <1>8, InvPast, TypesMade
<1>10. TickInv'
  BY <1>1, <1>2 DEF TickInv
<1>11. /\ deltas' \in Seq({deltas'[k] : k \in DOMAIN deltas'})
       /\ Len(deltas) \in Nat
       /\ DOMAIN deltas = 1 .. Len(deltas)
       /\ DOMAIN deltas' = 1 .. Len(deltas) + 1
       /\ \A k \in DOMAIN deltas : deltas'[k] = deltas[k]
       /\ deltas'[Len(deltas) + 1] = NewDelta
  BY <1>1, <1>6, ListAppend DEF ListInv
<1>12. ListInv'
  BY <1>11 DEF ListInv
<1>13. ASSUME NEW objects, UpTo(objects, current.tick)
       PROVE  UpTo(objects, next.tick)
  <2>1. \A a \in Address : a[1] \in Int
    BY AddressParts, InstanceAssumption DEF InstanceAssumption
  <2> QED
    BY <1>2, <1>13, <2>1, InvPast DEF UpTo
<1>14. UpTo(next.objects, next.tick)
  <2>1. \A i \in DOMAIN next.objects : next.objects[i] \in Address
    BY <1>2, PointerParts
  <2> QED
    BY <1>2, <2>1, InstanceAssumption DEF UpTo, Own, InstanceAssumption
<1>15. UpTo(NewDelta.added, next.tick)
  BY <1>14, NewDeltaAdded DEF UpTo
<1>16. PastInv'
  <2>1. ASSUME NEW k \in DOMAIN deltas'
        PROVE  UpTo(deltas'[k].added, next.tick)
    <3>1. k \in DOMAIN deltas \/ k = Len(deltas) + 1
      BY <1>11
    <3>2. CASE k \in DOMAIN deltas
      BY <1>6, <1>11, <1>13, <3>2 DEF PastInv
    <3>3. CASE k = Len(deltas) + 1
      BY <1>11, <1>15, <3>3
    <3> QED
      BY <3>1, <3>2, <3>3
  <2>2. UpTo(base.objects, next.tick)
    BY <1>6, <1>13 DEF PastInv
  <2> QED
    BY <1>1, <1>14, <2>1, <2>2 DEF PastInv, UpTo
<1> QED
  BY <1>4, <1>5, <1>9, <1>10, <1>12, <1>16 DEF InstanceInv

\* The delta shows what evaluate() made of the snapshots before and after.
LEMMA NewDeltaShown ==
  ASSUME InstanceInv, Show(heap', next) = Updated
  PROVE  ShowDelta(heap', NewDelta) = Evaluate(Show(heap, current), Updated)
<1> DEFINE E == Evaluate(Show(heap, current), Updated)
<1>1. /\ E.added = [i \in DOMAIN E.added |-> Updated.objects[i]]
      /\ DOMAIN E.added \subseteq DOMAIN next.objects
      /\ E = [prev_tick |-> E.prev_tick, next_tick |-> E.next_tick, values |-> E.values,
              deleted |-> E.deleted, added |-> E.added]
  BY UpdatedObjects DEF Evaluate
<1>2. \A i \in DOMAIN next.objects : heap'[next.objects[i]] = Updated.objects[i]
  BY UpdatedObjects DEF Show
<1> HIDE DEF E
<1>3. NewDelta = [E EXCEPT !.added = [i \in DOMAIN E.added |-> next.objects[i]]]
  BY DEF NewDelta, E
<1>4. /\ DOMAIN NewDelta.added = DOMAIN E.added
      /\ \A i \in DOMAIN E.added : NewDelta.added[i] = next.objects[i]
  BY <1>1, <1>3
<1>5. [i \in DOMAIN NewDelta.added |-> heap'[NewDelta.added[i]]] = E.added
  BY <1>1, <1>2, <1>4
<1>6. ShowDelta(heap', NewDelta) = [NewDelta EXCEPT !.added = E.added]
  BY <1>5 DEF ShowDelta
<1>7. [NewDelta EXCEPT !.added = E.added] = E
  BY <1>1, <1>3
<1> QED
  BY <1>6, <1>7 DEF E

LEMMA FinishThrows ==
  ASSUME InstanceInv, FinishTick, EvaluateThrows(Show(heap, current), Updated)
  PROVE  InstanceInv' /\ Kept /\ UNCHANGED <<base, current, deltas>>
<1>1. Abort /\ UNCHANGED <<base, current, deltas>>
  BY DEF FinishTick, Updated
<1>2. Queues'
  BY QueuesTyped DEF InstanceInv, Next
<1> QED
  BY <1>1, <1>2, AbortStep

LEMMA InstanceStep ==
  ASSUME InstanceInv, [Next]_vars
  PROVE  InstanceInv' /\ Kept
<1>1. ASSUME UNCHANGED <<heap, base, current, next, pc, deltas>>
      PROVE  InstanceInv' /\ Kept
  <2>1. Queues'
    BY QueuesTyped DEF InstanceInv
  <2>2. TypeOK'
    BY <1>1, <2>1 DEF InstanceInv, TypeOK, Queues
  <2>3. TickInv' /\ PastInv' /\ ListInv'
    BY <1>1 DEF InstanceInv, TickInv, PastInv, ListInv, Own, UpTo
  <2> QED
    BY <1>1, <2>2, <2>3 DEF InstanceInv, Kept
<1>2. ASSUME NEW a \in Action, AddAction(a)
      PROVE  InstanceInv' /\ Kept
  BY <1>1, <1>2 DEF AddAction
<1>3. CASE BeginTick
  BY <1>3, BeginStep
<1>4. CASE PlayAction
  BY <1>4, PlayStep
<1>5. CASE FinishTick
  BY <1>5, FinishNew, FinishThrows
<1>6. CASE UNCHANGED vars
  BY <1>1, <1>6 DEF vars
<1> QED
  BY <1>2, <1>3, <1>4, <1>5, <1>6 DEF Next

LEMMA InstanceInit ==
  ASSUME Init
  PROVE  InstanceInv
<1> DEFINE ids == DOMAIN BaseObjects
<1>1. /\ BaseTick \in Nat
      /\ BaseTick \in BaseTick .. MaxTick
      /\ BaseObjects \in Objects
      /\ ids \in SUBSET Id
      /\ BaseObjects \in [ids -> Object]
  BY InstanceAssumption, ObjectsParts DEF InstanceAssumption
<1>2. \A i \in ids : <<BaseTick, i>> \in Address
  BY <1>1, TickAddress
<1>3. Addresses(BaseTick, ids) \in [ids -> Address]
  BY <1>2 DEF Addresses
<1>4. base \in Pointers
  BY <1>1, <1>3, PointerMade DEF Init
<1>5. heap \in [Address -> Cells]
  BY <1>1 DEF Init, Cells
<1>6. \A i \in DOMAIN base.objects : heap[base.objects[i]] \in Object
  BY <1>1, <1>2 DEF Init, Addresses
<1>7. Show(heap, base) \in Snapshot
  BY <1>4, <1>6, Shown
<1>8. TypeOK
  BY <1>4, <1>5, <1>7 DEF Init, TypeOK, Cells
<1>9. TickInv
  BY <1>1 DEF Init, TickInv
<1>10. UpTo(base.objects, BaseTick)
  BY <1>1, <1>2 DEF Init, UpTo, Addresses
<1>11. PastInv /\ ListInv
  BY <1>10 DEF Init, PastInv, ListInv
<1> QED
  BY <1>8, <1>9, <1>11 DEF InstanceInv

THEOREM InstanceCorrect == Spec => []InstanceInv
<1>1. InstanceInv /\ [Next]_vars => InstanceInv'
  BY InstanceStep
<1> QED
  BY <1>1, InstanceInit, PTL DEF Spec

(***************************************************************************)
(* Every pointer of a snapshot leads to an object of its class, in every   *)
(* tick, finished or abandoned (gameinstance.cpp:25-53).                   *)
(***************************************************************************)
THEOREM TypeCorrect == Spec => []TypeOK
<1>1. InstanceInv => TypeOK
  BY DEF InstanceInv
<1> QED
  BY <1>1, InstanceCorrect, PTL

(***************************************************************************)
(* No step changes what a published snapshot or delta shows, for any       *)
(* actions and physics: a tick writes only to objects that its own         *)
(* snapshot allocated (gameinstance.cpp:28, snapshot.cpp, copy             *)
(* constructor).                                                           *)
(***************************************************************************)
THEOREM HistoryNeverChanges == Spec => HistoryImmutable
<1>1. InstanceInv /\ [Next]_vars =>
        [/\ Show(heap, base)' = Show(heap, base)
         /\ current' = current => Show(heap, current)' = Show(heap, current)
         /\ \A k \in DOMAIN deltas : ShowDelta(heap, deltas[k])' = ShowDelta(heap, deltas[k])
        ]_vars
  <2> SUFFICES ASSUME InstanceInv, [Next]_vars
               PROVE  /\ Show(heap', base') = Show(heap, base)
                      /\ current' = current => Show(heap', current') = Show(heap, current)
                      /\ \A k \in DOMAIN deltas :
                           ShowDelta(heap', deltas'[k]) = ShowDelta(heap, deltas[k])
    OBVIOUS
  <2>1. Kept /\ PastInv /\ ListInv
    BY InstanceStep DEF InstanceInv
  <2>2. base' = base
    BY DEF Next, AddAction, BeginTick, PlayAction, FinishTick, vars
  <2>3. Show(heap', base') = Show(heap, base)
    BY <2>1, <2>2, ShowKept DEF PastInv
  <2>4. current' = current => Show(heap', current') = Show(heap, current)
    BY <2>1, ShowKept DEF PastInv
  <2>5. deltas' = deltas \/ deltas' = Append(deltas, NewDelta)
    BY DEF Next, AddAction, BeginTick, PlayAction, FinishTick, vars, Updated, NewDelta
  <2>6. \A k \in DOMAIN deltas : deltas'[k] = deltas[k]
    BY <2>1, <2>5, ListAppend DEF ListInv
  <2>7. ASSUME NEW k \in DOMAIN deltas
        PROVE  ShowDelta(heap', deltas'[k]) = ShowDelta(heap, deltas[k])
    BY <2>1, <2>6, ShowDeltaKept DEF PastInv
  <2> QED
    BY <2>3, <2>4, <2>7
<1> QED
  BY <1>1, InstanceCorrect, PTL DEF Spec, HistoryImmutable

(***************************************************************************)
(* The deltas lead from the base snapshot to the current one without a     *)
(* gap, whichever ticks are abandoned (gameinstance.cpp:42-50).            *)
(***************************************************************************)
THEOREM DeltasAreChained == Spec => []DeltaChain
<1>1. Init => DeltaChain
  BY InstanceAssumption DEF Init, DeltaChain, InstanceAssumption
<1>2. InstanceInv /\ DeltaChain /\ [Next]_vars => DeltaChain'
  <2> SUFFICES ASSUME InstanceInv, DeltaChain, [Next]_vars
               PROVE  DeltaChain'
    OBVIOUS
  <2>1. base' = base
    BY DEF Next, AddAction, BeginTick, PlayAction, FinishTick, vars
  <2>2. CASE UNCHANGED <<current, deltas>>
    BY <2>1, <2>2 DEF DeltaChain
  <2>3. CASE FinishTick /\ ~ EvaluateThrows(Show(heap, current), Updated)
    <3>1. deltas' = Append(deltas, NewDelta) /\ current' = next
      BY <2>3, FinishMakes
    <3>2. next.tick = current.tick + 1 /\ base.tick \in Nat
      BY <2>3, InvPast, PointerParts DEF FinishTick, InstanceInv, TickInv
    <3>3. /\ Len(deltas) \in Nat
          /\ Len(deltas') = Len(deltas) + 1
          /\ DOMAIN deltas = 1 .. Len(deltas)
          /\ DOMAIN deltas' = 1 .. Len(deltas) + 1
          /\ \A k \in DOMAIN deltas : deltas'[k] = deltas[k]
          /\ deltas'[Len(deltas) + 1] = NewDelta
      BY <3>1, ListAppend DEF InstanceInv, ListInv
    <3>4. current.tick = base.tick + Len(deltas)
      BY DEF DeltaChain
    <3>5. current'.tick = base'.tick + Len(deltas')
      <4>1. current'.tick = next.tick /\ base'.tick = base.tick
        BY <2>1, <3>1
      <4> QED
        BY <3>2, <3>3, <3>4, <4>1
    <3>6. base.tick + (Len(deltas) + 1) - 1 = current.tick
      BY <3>2, <3>3, <3>4
    <3>7. base.tick + (Len(deltas) + 1) = next.tick
      BY <3>2, <3>3, <3>4
    <3>8. ASSUME NEW k \in DOMAIN deltas'
          PROVE  /\ deltas'[k].prev_tick = base'.tick + k - 1
                 /\ deltas'[k].next_tick = base'.tick + k
      <4>1. CASE k \in DOMAIN deltas
        BY <2>1, <3>3, <4>1 DEF DeltaChain
      <4>2. CASE k = Len(deltas) + 1
        <5>1. deltas'[k] = NewDelta
          BY <3>3, <4>2
        <5>2. NewDelta.prev_tick = current.tick /\ NewDelta.next_tick = next.tick
          BY NewDeltaAdded
        <5> QED
          BY <2>1, <3>6, <3>7, <4>2, <5>1, <5>2
      <4> QED
        BY <3>3, <4>1, <4>2
    <3> QED
      BY <3>5, <3>8 DEF DeltaChain
  <2>4. \/ UNCHANGED <<current, deltas>>
        \/ FinishTick /\ ~ EvaluateThrows(Show(heap, current), Updated)
    BY DEF Next, AddAction, BeginTick, PlayAction, FinishTick, vars, Updated
  <2> QED
    BY <2>2, <2>3, <2>4
<1> QED
  BY <1>1, <1>2, InstanceCorrect, PTL DEF Spec

(***************************************************************************)
(* A new delta, read through its pointers after the tick, turns the        *)
(* snapshot it starts from into the new current one, for every game whose  *)
(* values apply exactly and are told apart by their checksums              *)
(* (gameinstance.cpp:38-50).                                               *)
(***************************************************************************)
THEOREM TicksFollowDeltas ==
  ASSUME ExactValues, FaithfulCrc
  PROVE  Spec => TickFollowsDelta
<1>1. InstanceInv /\ [Next]_vars =>
        [deltas' # deltas /\ SameClasses(Show(heap, current), Show(heap, current)') =>
           Apply(Show(heap, current), ShowDelta(heap', deltas'[Len(deltas')]), Full)
             = Show(heap, current)']_vars
  <2> SUFFICES ASSUME InstanceInv, [Next]_vars, deltas' # deltas,
                      SameClasses(Show(heap, current), Show(heap', current'))
               PROVE  Apply(Show(heap, current), ShowDelta(heap', deltas'[Len(deltas')]), Full)
                        = Show(heap', current')
    OBVIOUS
  <2> DEFINE before == Show(heap, current)
  <2>1. FinishTick /\ ~ EvaluateThrows(before, Updated)
    BY DEF Next, AddAction, BeginTick, PlayAction, FinishTick, vars, Updated
  <2>2. /\ deltas' = Append(deltas, NewDelta)
        /\ current' = next
        /\ Show(heap', next) = Updated
    BY <2>1, FinishMakes, FinishNew
  <2>3. deltas'[Len(deltas')] = NewDelta
    BY <2>2, ListAppend DEF InstanceInv, ListInv
  <2>4. next.tick = current.tick + 1 /\ current.tick \in Nat
    BY <2>1, InvPast DEF FinishTick, InstanceInv, TickInv
  <2>5. Updated \in Snapshot /\ before \in Snapshot
    BY <2>4, InvPast, UpdatedObjects DEF Snapshot
  <2>6. Updated.tick = before.tick + 1
    BY <2>4, UpdatedObjects DEF Show
  <2>7. ShowDelta(heap', NewDelta) = Evaluate(before, Updated)
    BY <2>2, NewDeltaShown
  <2>8. Apply(before, Evaluate(before, Updated), Full) = Updated
    BY <2>2, <2>5, <2>6, ApplyUndoesEvaluate
  <2> QED
    BY <2>2, <2>3, <2>7, <2>8
<1> QED
  BY <1>1, InstanceCorrect, PTL DEF Spec, TickFollowsDelta

(***************************************************************************)
(* What was added is what was played followed by what waits, also after    *)
(* a tick that an exception ended (gameinstance.cpp:29-36, add_action).    *)
(***************************************************************************)
FifoInv == added = played \o queue

LEMMA NoActionLost == Spec => []FifoInv
<1>1. Init => FifoInv
  BY ConcatEmptySeq DEF Init, FifoInv
<1>2. InstanceInv /\ FifoInv /\ [Next]_vars => FifoInv'
  <2> SUFFICES ASSUME InstanceInv, FifoInv, [Next]_vars PROVE FifoInv'
    OBVIOUS
  <2>1. queue \in Seq(Action) /\ played \in Seq(Action) /\ added \in Seq(Action)
    BY DEF InstanceInv, TypeOK
  <2>2. ASSUME NEW a \in Action, AddAction(a)
        PROVE  FifoInv'
    <3>1. Append(added, a) = played \o Append(queue, a)
      <4>1. <<a>> \in Seq(Action)
        OBVIOUS
      <4>2. Append(added, a) = added \o <<a>> /\ Append(queue, a) = queue \o <<a>>
        BY <2>1, AppendIsConcat
      <4>3. (played \o queue) \o <<a>> = played \o (queue \o <<a>>)
        BY <2>1, <4>1, ConcatAssociative
      <4> QED BY <4>2, <4>3 DEF FifoInv
    <3> QED
      BY <2>2, <3>1 DEF AddAction, FifoInv
  <2>3. CASE PlayAction
    <3>1. queue # <<>>
      BY <2>3 DEF PlayAction
    <3>2. Append(played, Head(queue)) \o Tail(queue) = played \o queue
      BY <2>1, <3>1, MoveHead
    <3> QED
      BY <2>3, <3>2 DEF PlayAction, FifoInv
  <2>4. CASE UNCHANGED <<added, played, queue>>
    BY <2>4 DEF FifoInv
  <2> QED
    BY <2>2, <2>3, <2>4 DEF Next, BeginTick, FinishTick, vars
<1> QED
  BY <1>1, <1>2, InstanceCorrect, PTL DEF Spec

(***************************************************************************)
(* Actions are played in the order in which they were added, each once,    *)
(* for any number of ticks and any interleaving with add_action            *)
(* (gameinstance.cpp:29-36).                                               *)
(***************************************************************************)
THEOREM ActionsInOrder == Spec => ImplementsFifoChannel
<1>1. Init => Channel!Init
  BY DEF Init, Channel!Init
<1>2. InstanceInv /\ FifoInv /\ [Next]_vars => [Channel!Next]_(Channel!chanVars)
  <2> SUFFICES ASSUME InstanceInv, FifoInv, [Next]_vars
               PROVE  [Channel!Next]_(Channel!chanVars)
    OBVIOUS
  <2>1. queue \in Seq(Action) /\ played \in Seq(Action) /\ added \in Seq(Action)
    BY DEF InstanceInv, TypeOK
  <2>2. ASSUME NEW a \in Action, AddAction(a)
        PROVE  Channel!Next
    BY <2>2 DEF AddAction, Channel!Next, Channel!Send
  <2>3. CASE PlayAction
    <3>1. /\ queue # <<>>
          /\ played' = Append(played, Head(queue))
          /\ added' = added
      BY <2>3 DEF PlayAction
    <3>2. Len(played) < Len(added) /\ added[Len(played) + 1] = Head(queue)
      BY <2>1, <3>1, HeadIsNext DEF FifoInv
    <3> QED
      BY <3>1, <3>2 DEF Channel!Next, Channel!Receive
  <2>4. CASE UNCHANGED <<added, played>>
    BY <2>4 DEF Channel!chanVars
  <2> QED
    BY <2>2, <2>3, <2>4 DEF Next, BeginTick, FinishTick, vars
<1> QED
  BY <1>1, <1>2, InstanceCorrect, NoActionLost, PTL
     DEF Spec, ImplementsFifoChannel, Channel!Spec
-----------------------------------------------------------------------------
(***************************************************************************)
(* The server does nothing to its instance but what an instance does:      *)
(* every theorem above holds of the server too.                            *)
(***************************************************************************)
THEOREM ServerTicksInstance == ServerSpec => Spec
<1>1. ServerInit => Init
  BY DEF ServerInit
<1>2. [ServerNext]_serverVars => [Next]_vars
  BY DEF ServerNext, CopyActions, Tick, SendDelta, Next, serverVars
<1> QED
  BY <1>1, <1>2, PTL DEF ServerSpec, Spec

ServerTypes ==
  /\ statuses \in Seq([action_id : Action, success : BOOLEAN])
  /\ queue \in Seq(Action)
  /\ actions \in Seq(Action)

\* The k-th action that a tick has played or is to play next.
Upcoming(k) ==
  IF k <= Len(statuses) THEN statuses[k].action_id ELSE queue[k - Len(statuses)]

(***************************************************************************)
(* What was copied before the tick comes first in the tick, and is played  *)
(* when it ends.                                                           *)
(***************************************************************************)
CopyInv ==
  /\ step \in {"ready", "tick", "send"}
  /\ step # "tick" => pc = "idle"
  /\ step = "tick" /\ pc = "idle" =>
       /\ Len(actions) <= Len(queue)
       /\ \A k \in DOMAIN actions : actions[k] = queue[k]
  /\ step = "tick" /\ pc = "playing" =>
       /\ Len(actions) <= Len(statuses) + Len(queue)
       /\ \A k \in DOMAIN actions : actions[k] = Upcoming(k)
  /\ step = "send" =>
       /\ Len(actions) <= Len(statuses)
       /\ \A k \in DOMAIN actions : actions[k] = statuses[k].action_id

LEMMA CopyAdd ==
  ASSUME ServerTypes, CopyInv, NEW a \in Action, AddAction(a),
         UNCHANGED <<step, actions>>
  PROVE  CopyInv'
<1>1. /\ queue' = Append(queue, a)
      /\ pc' = pc /\ statuses' = statuses
  BY DEF AddAction
<1>2. /\ Len(queue') = Len(queue) + 1
      /\ \A k \in 1 .. Len(queue) : queue'[k] = queue[k]
      /\ Len(queue) \in Nat /\ Len(statuses) \in Nat /\ Len(actions) \in Nat
      /\ DOMAIN actions = 1 .. Len(actions)
  BY <1>1, AppendProperties DEF ServerTypes
<1>3. ASSUME NEW k \in DOMAIN actions, Len(actions) <= Len(statuses) + Len(queue)
      PROVE  Upcoming(k)' = Upcoming(k)
  BY <1>1, <1>2, <1>3 DEF Upcoming
<1> QED
  BY <1>1, <1>2, <1>3 DEF CopyInv

LEMMA CopyPlay ==
  ASSUME ServerTypes, CopyInv, step = "tick", PlayAction,
         step' = IF pc' = "playing" THEN step ELSE IF deltas' # deltas THEN "send" ELSE "ready",
         UNCHANGED actions
  PROVE  CopyInv'
<1>1. /\ pc = "playing" /\ queue # <<>> /\ queue' = Tail(queue) /\ deltas' = deltas
      /\ \/ /\ pc' = pc
            /\ \E success \in BOOLEAN :
                 statuses' = Append(statuses, Status(Head(queue), success))
         \/ pc' = "idle" /\ statuses' = statuses
  BY DEF PlayAction, Abort
<1>2. CASE pc' = "idle" /\ statuses' = statuses
  BY <1>1, <1>2 DEF CopyInv
<1>3. CASE /\ pc' = pc
           /\ \E success \in BOOLEAN :
                statuses' = Append(statuses, Status(Head(queue), success))
  <2>1. PICK success \in BOOLEAN : statuses' = Append(statuses, Status(Head(queue), success))
    BY <1>3
  <2> DEFINE status == Status(Head(queue), success)
  <2>2. status \in [action_id : Action, success : BOOLEAN] /\ status.action_id = queue[1]
    <3>1. Head(queue) \in Action /\ Head(queue) = queue[1]
      BY <1>1 DEF ServerTypes
    <3> QED
      BY <3>1 DEF Status
  <2> HIDE DEF status
  <2>3. /\ Len(statuses') = Len(statuses) + 1
        /\ \A k \in 1 .. Len(statuses) : statuses'[k] = statuses[k]
        /\ statuses'[Len(statuses) + 1] = status
    BY <2>1, <2>2, AppendProperties DEF ServerTypes, status
  <2>4. /\ Len(queue) \in Nat \ {0} /\ Len(statuses) \in Nat /\ Len(actions) \in Nat
        /\ DOMAIN actions = 1 .. Len(actions)
        /\ Len(queue') = Len(queue) - 1
        /\ \A k \in 1 .. Len(queue) - 1 : queue'[k] = queue[k + 1]
    BY <1>1, HeadTailProperties DEF ServerTypes
  <2>5. ASSUME NEW k \in DOMAIN actions, Len(actions) <= Len(statuses) + Len(queue)
        PROVE  Upcoming(k)' = Upcoming(k)
    <3>1. CASE k <= Len(statuses)
      BY <2>3, <2>4, <3>1 DEF Upcoming
    <3>2. CASE k = Len(statuses) + 1
      <4>1. Upcoming(k) = queue[1]
        BY <2>4, <3>2 DEF Upcoming
      <4>2. Upcoming(k)' = status.action_id
        BY <2>3, <2>4, <3>2 DEF Upcoming
      <4> QED
        BY <2>2, <4>1, <4>2
    <3>3. CASE k > Len(statuses) + 1
      <4>1. k - Len(statuses) - 1 \in 1 .. Len(queue) - 1
        BY <2>4, <2>5, <3>3
      <4>2. Upcoming(k)' = queue'[k - Len(statuses) - 1]
        BY <2>3, <2>4, <3>3 DEF Upcoming
      <4>3. Upcoming(k) = queue[(k - Len(statuses) - 1) + 1]
        BY <2>4, <3>3 DEF Upcoming
      <4> QED
        BY <2>4, <4>1, <4>2, <4>3
    <3> QED
      BY <2>4, <3>1, <3>2, <3>3
  <2> QED
    BY <1>1, <1>3, <2>3, <2>4, <2>5 DEF CopyInv
<1> QED
  BY <1>1, <1>2, <1>3

LEMMA CopyStep ==
  ASSUME ServerTypes, CopyInv, [ServerNext]_serverVars
  PROVE  CopyInv'
<1>1. ASSUME NEW a \in Action, AddAction(a), UNCHANGED <<step, actions, update, packets, steady>>
      PROVE  CopyInv'
  BY <1>1, CopyAdd
<1>2. CASE CopyActions
  <2>1. /\ step = "ready" /\ step' = "tick" /\ pc = "idle" /\ pc' = pc
        /\ actions' = queue /\ queue' = queue
    BY <1>2 DEF CopyActions, CopyInv, vars
  <2>2. Len(queue) \in Nat
    BY DEF ServerTypes
  <2> QED
    BY <2>1, <2>2 DEF CopyInv
<1>3. CASE Tick /\ BeginTick
  <2>1. /\ step = "tick" /\ pc = "idle" /\ pc' = "playing" /\ step' = step
        /\ statuses' = <<>> /\ queue' = queue /\ actions' = actions
    BY <1>3 DEF Tick, BeginTick
  <2>2. /\ Len(queue) \in Nat
        /\ DOMAIN actions = 1 .. Len(actions)
    BY DEF ServerTypes
  <2>3. ASSUME NEW k \in DOMAIN actions
        PROVE  Upcoming(k)' = queue[k]
    <3>1. Len(statuses') = 0
      BY <2>1
    <3> QED
      BY <2>1, <2>2, <3>1 DEF Upcoming
  <2> QED
    BY <2>1, <2>2, <2>3 DEF CopyInv
<1>4. CASE Tick /\ PlayAction
  BY <1>4, CopyPlay DEF Tick
<1>5. CASE Tick /\ FinishTick
  <2>1. /\ step = "tick" /\ pc = "playing" /\ pc' = "idle" /\ step' \in {"ready", "send"}
        /\ queue = <<>> /\ statuses' = statuses /\ actions' = actions
    BY <1>5 DEF Tick, FinishTick, Abort
  <2>2. /\ Len(queue) = 0 /\ Len(statuses) \in Nat /\ Len(actions) \in Nat
        /\ DOMAIN actions = 1 .. Len(actions)
    BY <2>1 DEF ServerTypes
  <2> QED
    BY <2>1, <2>2 DEF CopyInv, Upcoming
<1>6. CASE SendDelta
  BY <1>6 DEF SendDelta, CopyInv, vars
<1>7. CASE UNCHANGED serverVars
  BY <1>7 DEF serverVars, vars, CopyInv, Upcoming
<1> QED
  BY <1>1, <1>2, <1>3, <1>4, <1>5, <1>6, <1>7 DEF ServerNext, Tick

LEMMA ServerTypesCorrect == ServerSpec => []ServerTypes
<1>1. ServerInit => actions \in Seq(Action)
  BY DEF ServerInit
<1>2. TypeOK /\ actions \in Seq(Action) /\ [ServerNext]_serverVars
        => (actions \in Seq(Action))'
  BY DEF TypeOK, ServerNext, CopyActions, Tick, SendDelta, serverVars
<1>3. TypeOK /\ actions \in Seq(Action) => ServerTypes
  BY DEF TypeOK, ServerTypes
<1> QED
  BY <1>1, <1>2, <1>3, ServerTicksInstance, TypeCorrect, PTL DEF ServerSpec

LEMMA FunctionIsSeq ==
  ASSUME NEW S, NEW n \in Nat, NEW f \in [1 .. n -> S]
  PROVE  f \in Seq(S)
  OBVIOUS

\* Packets are a list, of deltas.
PacketsInv ==
  /\ packets \in Seq({packets[k] : k \in DOMAIN packets})
  /\ \A k \in DOMAIN packets : packets[k].id = "DELTA_SNAPSHOT_RESULT"

LEMMA PacketsStep ==
  ASSUME PacketsInv, [ServerNext]_serverVars
  PROVE  PacketsInv'
<1>1. CASE UNCHANGED packets
  BY <1>1 DEF PacketsInv
<1>2. CASE SendDelta
  <2> DEFINE Old == {packets[k] : k \in DOMAIN packets}
             New == {packets'[k] : k \in DOMAIN packets'}
  <2>1. DeltaPacket.id = "DELTA_SNAPSHOT_RESULT"
    BY DEF DeltaPacket, EncodePacket
  <2>2. packets' = Append(packets, DeltaPacket)
    BY <1>2 DEF SendDelta
  <2>3. packets \in Seq(Old \cup {DeltaPacket})
    BY DEF PacketsInv
  <2>4. /\ packets' \in Seq(Old \cup {DeltaPacket})
        /\ DOMAIN packets' = 1 .. Len(packets) + 1
        /\ DOMAIN packets = 1 .. Len(packets)
        /\ Len(packets) \in Nat
        /\ \A k \in 1 .. Len(packets) : packets'[k] = packets[k]
        /\ packets'[Len(packets) + 1] = DeltaPacket
    BY <2>2, <2>3, AppendProperties
  <2>5. packets' \in Seq(New)
    <3>1. packets' \in [1 .. Len(packets) + 1 -> New]
      BY <2>4
    <3> QED
      BY <2>4, <3>1, FunctionIsSeq
  <2>6. \A k \in DOMAIN packets' : packets'[k].id = "DELTA_SNAPSHOT_RESULT"
    <3>1. ASSUME NEW k \in DOMAIN packets'
          PROVE  packets'[k] = DeltaPacket \/ (k \in DOMAIN packets /\ packets'[k] = packets[k])
      BY <2>4
    <3> QED
      BY <2>1, <3>1 DEF PacketsInv
  <2> QED
    BY <2>5, <2>6 DEF PacketsInv
<1> QED
  BY <1>1, <1>2 DEF ServerNext, CopyActions, Tick, serverVars

LEMMA UpdateStep ==
  ASSUME ServerTypes, [ServerNext]_serverVars,
         update.status_list \in Seq([id : Action, success : BOOLEAN]),
         \A k \in DOMAIN update.actions : update.actions[k].id \in Action
  PROVE  /\ update'.status_list \in Seq([id : Action, success : BOOLEAN])
         /\ \A k \in DOMAIN update'.actions : update'.actions[k].id \in Action
<1>1. CASE UNCHANGED update
  BY <1>1
<1>2. CASE SendDelta
  <2>1. /\ update'.status_list = SerializeStatuses(statuses)
        /\ update'.actions = [k \in DOMAIN actions |-> SerializeAction(actions[k])]
    BY <1>2 DEF SendDelta, UpdateOf
  <2>2. /\ Len(statuses) \in Nat /\ DOMAIN statuses = 1 .. Len(statuses)
        /\ \A k \in DOMAIN statuses :
             SerializeStatus(statuses[k]) \in [id : Action, success : BOOLEAN]
    <3>1. ASSUME NEW k \in DOMAIN statuses
          PROVE  statuses[k].action_id \in Action /\ statuses[k].success \in BOOLEAN
      <4>1. statuses[k] \in [action_id : Action, success : BOOLEAN]
        <5>1. k \in 1 .. Len(statuses)
          BY DEF ServerTypes
        <5> QED
          BY <5>1, ElementOfSeq, Zenon DEF ServerTypes
      <4> QED
        BY <4>1, Zenon
    <3> QED
      BY <3>1 DEF ServerTypes, SerializeStatus
  <2>3. SerializeStatuses(statuses)
          \in [1 .. Len(statuses) -> [id : Action, success : BOOLEAN]]
    BY <2>2 DEF SerializeStatuses
  <2>4. SerializeStatuses(statuses) \in Seq([id : Action, success : BOOLEAN])
    BY <2>2, <2>3, FunctionIsSeq
  <2>5. \A k \in DOMAIN actions : SerializeAction(actions[k]).id \in Action
    BY DEF ServerTypes, SerializeAction
  <2> QED
    BY <2>1, <2>4, <2>5
<1> QED
  BY <1>1, <1>2 DEF ServerNext, CopyActions, Tick, serverVars

(***************************************************************************)
(* Around the ticks of the server, the copy of the waiting actions, the    *)
(* update and the packets have their types, whatever is added and however  *)
(* ticks end (server_controller.cpp:81-140).                               *)
(***************************************************************************)
THEOREM ServerTypeCorrect == ServerSpec => []ServerTypeOK
<1> DEFINE UpdateInv ==
             /\ update.status_list \in Seq([id : Action, success : BOOLEAN])
             /\ \A k \in DOMAIN update.actions : update.actions[k].id \in Action
           SteadyInv == steady \in BOOLEAN
<1>0. (ServerInit => SteadyInv) /\ (SteadyInv /\ [ServerNext]_serverVars => SteadyInv')
  BY Zenon DEF ServerInit, ServerNext, CopyActions, Tick, SendDelta, serverVars
<1>1. ServerInit => CopyInv /\ PacketsInv /\ UpdateInv /\ actions \in Seq(Action)
  BY DEF ServerInit, Init, NoUpdate, CopyInv, PacketsInv
<1>2. CopyInv /\ PacketsInv /\ UpdateInv /\ ServerTypes /\ [ServerNext]_serverVars
        => CopyInv' /\ PacketsInv' /\ UpdateInv'
  BY CopyStep, PacketsStep, UpdateStep
<1>3. CopyInv /\ PacketsInv /\ UpdateInv /\ SteadyInv /\ ServerTypes /\ TypeOK => ServerTypeOK
  BY DEF CopyInv, PacketsInv, ServerTypes, ServerTypeOK
<1> QED
  BY <1>0, <1>1, <1>2, <1>3, ServerTicksInstance, TypeCorrect, ServerTypesCorrect, PTL
     DEF ServerSpec

(***************************************************************************)
(* Whoever reads an update finds each of its actions by the id in the      *)
(* status of the same place, whatever is added around and during the tick  *)
(* and however its actions end (server_controller.cpp:84-90,               *)
(* action.cpp:17-105).                                                     *)
(***************************************************************************)
THEOREM UpdatesMatch ==
  ASSUME ExactActions
  PROVE  ServerSpec => []ActionsMatchStatuses
<1>1. ServerInit => CopyInv
  BY DEF ServerInit, Init, CopyInv
<1>2. ServerInit => ActionsMatchStatuses
  <2> SUFFICES ASSUME ServerInit
               PROVE  ActionsMatchStatuses
    OBVIOUS
  <2>1. update = [status_list |-> <<>>, actions |-> <<>>]
    BY DEF ServerInit, NoUpdate
  <2> QED
    BY <2>1 DEF ActionsMatchStatuses, DeserializeStatuses
<1>3. ServerTypes /\ CopyInv /\ ActionsMatchStatuses /\ [ServerNext]_serverVars
        => ActionsMatchStatuses'
  <2> SUFFICES ASSUME ServerTypes, CopyInv, ActionsMatchStatuses, [ServerNext]_serverVars
               PROVE  ActionsMatchStatuses'
    OBVIOUS
  <2>1. CASE UNCHANGED update
    BY <2>1 DEF ActionsMatchStatuses
  <2>2. CASE SendDelta
    <3> DEFINE n == Len(statuses)
               m == Len(actions)
               read == DeserializeStatuses(update.status_list)'
               sent == [k \in DOMAIN update'.actions |-> DeserializeAction(update'.actions[k])]
    <3>1. /\ n \in Nat /\ m \in Nat /\ m <= n
          /\ DOMAIN statuses = 1 .. n /\ DOMAIN actions = 1 .. m
          /\ \A k \in 1 .. m : actions[k] = statuses[k].action_id /\ actions[k] \in Action
      BY <2>2 DEF SendDelta, CopyInv, ServerTypes
    <3>2. /\ update'.status_list = SerializeStatuses(statuses)
          /\ update'.actions = [k \in 1 .. m |-> SerializeAction(actions[k])]
      BY <2>2, <3>1 DEF SendDelta, UpdateOf
    <3>3. read = [k \in 1 .. n |->
                    [action_id |-> statuses[k].action_id, success |-> statuses[k].success]]
      BY <3>1, <3>2 DEF DeserializeStatuses, DeserializeStatus, SerializeStatuses,
                        SerializeStatus
    <3>4. sent = [k \in 1 .. m |-> DeserializeAction(SerializeAction(actions[k]))]
      BY <3>2
    <3>5. ASSUME NEW k \in 1 .. m
          PROVE  DeserializeAction(SerializeAction(actions[k]))
                   = [id |-> actions[k], object |-> ActionObject(actions[k])]
      BY <3>1 DEF DeserializeAction, SerializeAction, ExactActions
    <3> HIDE DEF n, m
    <3>6. DOMAIN sent = 1 .. m /\ Len(sent) = m
      BY <3>1, <3>4
    <3>7. DOMAIN read = 1 .. n /\ Len(read) = n
      BY <3>1, <3>3
    <3>8. ASSUME NEW k \in 1 .. m
          PROVE  sent[k] = [id |-> read[k].action_id, object |-> ActionObject(read[k].action_id)]
      <4>1. sent[k] = [id |-> actions[k], object |-> ActionObject(actions[k])]
        BY <3>4, <3>5
      <4>2. read[k].action_id = actions[k]
        BY <3>1, <3>3
      <4> QED
        BY <4>1, <4>2
    <3> HIDE DEF sent, read
    <3>9. /\ Len(sent) <= Len(read)
          /\ \A k \in DOMAIN sent :
               sent[k] = [id |-> read[k].action_id, object |-> ActionObject(read[k].action_id)]
      BY <3>1, <3>6, <3>7, <3>8
    <3> QED
      BY <3>9 DEF ActionsMatchStatuses, sent, read
  <2> QED
    BY <2>1, <2>2 DEF ServerNext, CopyActions, Tick, serverVars
<1> QED
  BY <1>1, <1>2, <1>3, CopyStep, ServerTypesCorrect, PTL DEF ServerSpec
-----------------------------------------------------------------------------
(***************************************************************************)
(* Replay is what its recursion says.                                      *)
(***************************************************************************)
After(replicas, list, f, n) ==
  IF n = 0 THEN replicas ELSE Received(f[n - 1], list[n])

LEMMA AfterExists ==
  ASSUME NEW replicas, NEW list, NEW m \in Nat
  PROVE  \E f : f = [n \in 0 .. m |-> After(replicas, list, f, n)]
<1> DEFINE Good == {k \in Nat : \E f : f = [n \in 0 .. k |-> After(replicas, list, f, n)]}
<1>1. 0 \in Good
  <2> DEFINE f == [n \in 0 .. 0 |-> replicas]
  <2>1. f = [n \in 0 .. 0 |-> After(replicas, list, f, n)]
    BY DEF After
  <2> QED
    BY <2>1
<1>2. ASSUME NEW k \in 0 .. m, k \in Good
      PROVE  k + 1 \in Good
  <2>1. PICK f : f = [n \in 0 .. k |-> After(replicas, list, f, n)]
    BY <1>2
  <2> DEFINE g == [n \in 0 .. k + 1 |->
                     IF n = k + 1 THEN After(replicas, list, f, n) ELSE f[n]]
  <2>2. ASSUME NEW n \in 0 .. k + 1
        PROVE  g[n] = After(replicas, list, g, n)
    <3>1. n # 0 => g[n - 1] = f[n - 1]
      OBVIOUS
    <3>2. After(replicas, list, g, n) = After(replicas, list, f, n)
      BY <3>1 DEF After
    <3>3. n # k + 1 => f[n] = After(replicas, list, f, n)
      BY <2>1
    <3> QED
      BY <3>2, <3>3
  <2>3. g = [n \in 0 .. k + 1 |-> After(replicas, list, g, n)]
    BY <2>2
  <2> HIDE DEF g
  <2> QED
    BY <2>3
<1> HIDE DEF Good
<1>3. m \in Good
  BY <1>1, <1>2, Induction
<1> QED
  BY <1>3 DEF Good

IsReplay(replicas, list, f) ==
  /\ f[0] = replicas
  /\ \A n \in 1 .. Len(list) : f[n] = Received(f[n - 1], list[n])

LEMMA ReplayIsReplay ==
  ASSUME NEW replicas, NEW list, Len(list) \in Nat
  PROVE  \E f : IsReplay(replicas, list, f) /\ Replay(replicas, list) = f[Len(list)]
<1> DEFINE f == CHOOSE f : f = [n \in 0 .. Len(list) |-> After(replicas, list, f, n)]
<1>1. f = [n \in 0 .. Len(list) |-> After(replicas, list, f, n)]
  BY AfterExists, Zenon
<1>2. Replay(replicas, list) = f[Len(list)]
  BY Zenon DEF Replay, After
<1> HIDE DEF f
<1>3. f[0] = replicas
  BY <1>1 DEF After
<1>4. \A n \in 1 .. Len(list) : f[n] = Received(f[n - 1], list[n])
  BY <1>1 DEF After
<1> QED
  BY <1>2, <1>3, <1>4 DEF IsReplay

LEMMA ReplayNone ==
  ASSUME NEW replicas
  PROVE  Replay(replicas, <<>>) = replicas
<1>1. Len(<<>>) = 0
  OBVIOUS
<1>2. PICK f : IsReplay(replicas, <<>>, f) /\ Replay(replicas, <<>>) = f[0]
  BY <1>1, ReplayIsReplay
<1> QED
  BY <1>2 DEF IsReplay

LEMMA ReplayAppend ==
  ASSUME NEW replicas, NEW list, list \in Seq({list[k] : k \in DOMAIN list}), NEW p
  PROVE  Replay(replicas, Append(list, p)) = Received(Replay(replicas, list), p)
<1> DEFINE l == Len(list)
           more == Append(list, p)
<1>1. /\ l \in Nat
      /\ Len(more) = l + 1
      /\ \A k \in 1 .. l : more[k] = list[k]
      /\ more[l + 1] = p
  BY ListAppend
<1>2. PICK f : IsReplay(replicas, list, f) /\ Replay(replicas, list) = f[l]
  BY <1>1, ReplayIsReplay
<1> HIDE DEF more
<1>3. PICK g : IsReplay(replicas, more, g) /\ Replay(replicas, more) = g[l + 1]
  BY <1>1, ReplayIsReplay
<1> HIDE DEF l
<1> DEFINE Good == {n \in 0 .. l : g[n] = f[n]}
<1>4. 0 \in Good
  BY <1>1, <1>2, <1>3 DEF IsReplay
<1>5. ASSUME NEW n \in 0 .. l, n < l, n \in Good
      PROVE  n + 1 \in Good
  <2>1. n + 1 \in 1 .. l /\ n + 1 \in 1 .. l + 1 /\ (n + 1) - 1 = n
    BY <1>1, <1>5
  <2>2. f[n + 1] = Received(f[n], list[n + 1])
    BY <1>2, <2>1 DEF IsReplay, l
  <2>3. g[n + 1] = Received(g[n], more[n + 1])
    BY <1>1, <1>3, <2>1 DEF IsReplay
  <2> QED
    BY <1>1, <1>5, <2>1, <2>2, <2>3
<1> HIDE DEF Good
<1>6. \A n \in 0 .. l : n \in Good
  BY <1>1, <1>4, <1>5, Induction
<1>7. g[l] = f[l]
  BY <1>1, <1>6 DEF Good
<1>8. g[l + 1] = Received(g[l], p)
  <2>1. l + 1 \in 1 .. l + 1 /\ (l + 1) - 1 = l
    BY <1>1
  <2> QED
    BY <1>1, <1>3, <2>1 DEF IsReplay
<1> QED
  BY <1>2, <1>3, <1>7, <1>8 DEF more

(***************************************************************************)
(* Who holds the snapshot that a delta starts from, and receives its       *)
(* packet, has the one it leads to.                                        *)
(***************************************************************************)
\* n follows from b in one tick.
Follows(b, n) ==
  /\ b \in Snapshot
  /\ n \in Snapshot
  /\ n.tick = b.tick + 1
  /\ SameClasses(b, n)
  /\ ~ EvaluateThrows(b, n)

LEMMA ReceivedFollows ==
  ASSUME ExactValues, FaithfulCrc, ExactBytes,
         NEW b, NEW n, Follows(b, n),
         NEW p, p.body = SerializeDelta(Evaluate(b, n)), Parses(p.body)
  PROVE  Received({b}, p) = {n}
<1> DEFINE m == SerializeDelta(Evaluate(b, n))
<1>1. b \in Snapshot /\ n \in Snapshot
  BY DEF Follows
<1>2. DecodePacket(p) = {m}
  BY DEF DecodePacket
<1>3. HasReference(m, b) /\ ~ DeltaThrows(m, b, Class)
  <2>1. {n.objects[i].class : i \in DOMAIN n.objects \ DOMAIN b.objects} \subseteq Class
    BY <1>1, SnapshotParts, ObjectParts
  <2> QED
    BY <1>1, <2>1, DeltaReadable
<1>4. DeserializeDelta(m) = Evaluate(b, n)
  BY <1>1, DeltaTravels DEF Follows
<1>5. Apply(b, Evaluate(b, n), Full) = n
  BY <1>1, ApplyUndoesEvaluate DEF Follows
<1> HIDE DEF m
<1>6. {d \in DecodePacket(p) : HasReference(d, b) /\ ~ DeltaThrows(d, b, Class)} = {m}
  BY <1>2, <1>3
<1>7. Received({b}, p) = UNION {{Apply(s, DeserializeDelta(d), Full) :
            d \in {x \in DecodePacket(p) : HasReference(x, s) /\ ~ DeltaThrows(x, s, Class)}} :
              s \in {b}}
  BY DEF Received
<1>8. Received({b}, p) = {Apply(b, DeserializeDelta(m), Full)}
  BY <1>6, <1>7
<1> QED
  BY <1>4, <1>5, <1>8

(***************************************************************************)
(* The inductive invariant of PacketsReplay: while the packet of a tick is *)
(* not sent, replicas have the snapshot that the tick began with, and the  *)
(* last delta shows what evaluate() made of it and the current one, unless *)
(* a tick has changed the class of an object.                              *)
(***************************************************************************)
Start == {DeserializeSnapshot(SerializeSnapshot(Show(heap, base)))}

LastDelta == ShowDelta(heap, deltas[Len(deltas)])

Unsent(b) ==
  /\ Follows(b, Show(heap, current))
  /\ Len(deltas) \in DOMAIN deltas
  /\ LastDelta = Evaluate(b, Show(heap, current))

ReplayInv ==
  /\ step # "send" /\ steady => Replay(Start, packets) = {Show(heap, current)}
  /\ step = "send" /\ steady =>
       \E b \in Replay(Start, packets) : Replay(Start, packets) = {b} /\ Unsent(b)

LEMMA ReplayInit ==
  ASSUME ExactBytes, ServerInit
  PROVE  ReplayInv
<1>1. InstanceInv
  BY InstanceInit DEF ServerInit
<1>2. current = base /\ packets = <<>> /\ step = "ready"
  BY DEF ServerInit, Init
<1>3. Start = {Show(heap, current)}
  BY <1>1, <1>2, InvPast, SnapshotTravels DEF Start
<1> QED
  BY <1>2, <1>3, ReplayNone DEF ReplayInv

\* What replays the game before a step does so after it, if nothing is sent.
LEMMA StartStays ==
  ASSUME InstanceInv, [Next]_vars
  PROVE  Start' = Start
<1>1. Kept /\ UpTo(base.objects, current.tick)
  BY InstanceStep DEF InstanceInv, PastInv
<1>2. base' = base
  BY DEF Next, AddAction, BeginTick, PlayAction, FinishTick, vars
<1> QED
  BY <1>1, <1>2, ShowKept DEF Start

LEMMA ReplayQuiet ==
  ASSUME InstanceInv, ReplayInv, [Next]_vars,
         UNCHANGED <<current, deltas, packets>>,
         step' = "send" <=> step = "send",
         steady' => steady
  PROVE  ReplayInv'
<1>1. Kept /\ UpTo(current.objects, current.tick)
  BY InstanceStep DEF InstanceInv, PastInv
<1>2. Show(heap', current') = Show(heap, current)
  BY <1>1, ShowKept
<1>3. Start' = Start
  BY StartStays
<1>4. Replay(Start, packets)' = Replay(Start, packets)
  BY <1>3
<1>5. ASSUME NEW b, Unsent(b)
      PROVE  Unsent(b)'
  <2>1. Len(deltas) \in DOMAIN deltas
    BY <1>5 DEF Unsent
  <2>2. LastDelta' = LastDelta
    BY <1>1, <2>1, ShowDeltaKept DEF InstanceInv, PastInv, LastDelta
  <2> QED
    BY <1>2, <1>5, <2>2 DEF Unsent
<1> HIDE DEF Start
<1> QED
  BY <1>2, <1>4, <1>5 DEF ReplayInv

LEMMA ReplayFinish ==
  ASSUME InstanceInv, ReplayInv, FinishTick, ~ EvaluateThrows(Show(heap, current), Updated),
         steady' => steady /\ SameClasses(Show(heap, current), Show(heap', current')),
         step = "tick", step' = "send", UNCHANGED packets
  PROVE  ReplayInv'
<1> SUFFICES ASSUME steady, SameClasses(Show(heap, current), Show(heap', current'))
             PROVE  ReplayInv'
  BY DEF ReplayInv
<1>0. PICK b : b = Show(heap, current)
  OBVIOUS
<1>1. /\ deltas' = Append(deltas, NewDelta)
      /\ current' = next
      /\ Show(heap', next) = Updated
  BY FinishMakes, FinishNew
<1>2. /\ b \in Snapshot
      /\ Show(heap', current') \in Snapshot
      /\ next.tick = current.tick + 1
  <2>1. InstanceInv'
    BY FinishNew
  <2>2. Show(heap', current') \in Snapshot
    BY <2>1 DEF InstanceInv, TypeOK
  <2> QED
    BY <1>0, <2>2, InvPast DEF FinishTick, InstanceInv, TickInv
<1>3. Follows(b, Updated)
  <2>1. Updated.tick = b.tick + 1
    BY <1>0, <1>2, UpdatedObjects DEF Show
  <2> QED
    BY <1>0, <1>1, <1>2, <2>1 DEF Follows
<1>4. Len(deltas') \in DOMAIN deltas' /\ deltas'[Len(deltas')] = NewDelta
  BY <1>1, ListAppend DEF InstanceInv, ListInv
<1>5. LastDelta' = Evaluate(b, Updated)
  BY <1>0, <1>1, <1>4, NewDeltaShown DEF LastDelta
<1>6. Unsent(b)'
  BY <1>1, <1>3, <1>4, <1>5 DEF Unsent
<1>7. Start' = Start
  BY StartStays DEF Next
<1>8. Replay(Start, packets)' = {b}
  BY <1>0, <1>7 DEF ReplayInv
<1> HIDE DEF Start
<1> QED
  BY <1>6, <1>8 DEF ReplayInv

LEMMA ReplaySend ==
  ASSUME ExactValues, FaithfulCrc, ExactBytes,
         ReplayInv, PacketsInv, SendDelta, PacketsParse'
  PROVE  ReplayInv'
<1> SUFFICES ASSUME steady'
             PROVE  ReplayInv'
  BY DEF ReplayInv
<1>1. /\ step = "send" /\ step' = "ready" /\ packets' = Append(packets, DeltaPacket)
      /\ UNCHANGED <<heap, base, current, deltas, steady>>
  BY DEF SendDelta, vars
<1>2. PICK b : Replay(Start, packets) = {b} /\ Unsent(b)
  BY <1>1 DEF ReplayInv
<1>3. DeltaPacket.body = SerializeDelta(Evaluate(b, Show(heap, current)))
  BY <1>2 DEF DeltaPacket, EncodePacket, Unsent, LastDelta
<1>4. Parses(DeltaPacket.body)
  <2>1. /\ Len(packets) + 1 \in DOMAIN packets'
        /\ packets'[Len(packets) + 1] = DeltaPacket
    BY <1>1, ListAppend DEF PacketsInv
  <2> QED
    BY <2>1 DEF PacketsParse
<1>5. Received({b}, DeltaPacket) = {Show(heap, current)}
  BY <1>2, <1>3, <1>4, ReceivedFollows DEF Unsent
<1>6. Start' = Start
  BY <1>1 DEF Start
<1>7. Replay(Start, packets)' = Received(Replay(Start, packets), DeltaPacket)
  BY <1>1, <1>6, ReplayAppend DEF PacketsInv
<1> HIDE DEF Start
<1> QED
  BY <1>1, <1>2, <1>5, <1>7 DEF ReplayInv

LEMMA ReplayStep ==
  ASSUME ExactValues, FaithfulCrc, ExactBytes,
         InstanceInv, CopyInv, PacketsInv, ReplayInv, [ServerNext]_serverVars,
         PacketsParse'
  PROVE  ReplayInv'
<1>1. [Next]_vars
  BY DEF ServerNext, CopyActions, Tick, SendDelta, Next, serverVars
<1>2. ASSUME NEW a \in Action, AddAction(a), UNCHANGED <<step, actions, update, packets, steady>>
      PROVE  ReplayInv'
  BY <1>1, <1>2, ReplayQuiet DEF AddAction
<1>3. CASE CopyActions
  BY <1>1, <1>3, ReplayQuiet DEF CopyActions, vars
<1>4. CASE Tick /\ UNCHANGED <<current, deltas>>
  <2>1. step # "send" /\ step' # "send" /\ UNCHANGED packets /\ (steady' => steady)
    BY <1>4 DEF Tick
  <2> QED
    BY <1>1, <1>4, <2>1, ReplayQuiet
<1>5. CASE Tick /\ FinishTick /\ ~ EvaluateThrows(Show(heap, current), Updated)
  <2>1. deltas' # deltas /\ pc' = "idle"
    <3>1. deltas' = Append(deltas, NewDelta) /\ pc' = "idle"
      BY <1>5, FinishMakes
    <3>2. Len(deltas') = Len(deltas) + 1 /\ Len(deltas) \in Nat
      BY <3>1, ListAppend DEF InstanceInv, ListInv
    <3> QED
      BY <3>1, <3>2
  <2>2. /\ step = "tick" /\ step' = "send" /\ UNCHANGED packets
        /\ steady' => steady /\ SameClasses(Show(heap, current), Show(heap', current'))
    BY <1>5, <2>1 DEF Tick
  <2> QED
    BY <1>5, <2>2, ReplayFinish
<1>6. Tick => \/ UNCHANGED <<current, deltas>>
              \/ FinishTick /\ ~ EvaluateThrows(Show(heap, current), Updated)
  BY DEF Tick, BeginTick, PlayAction, FinishTick, Updated
<1>7. CASE SendDelta
  BY <1>7, ReplaySend
<1>8. CASE UNCHANGED serverVars
  BY <1>1, <1>8, ReplayQuiet DEF serverVars, vars
<1> QED
  BY <1>2, <1>3, <1>4, <1>5, <1>6, <1>7, <1>8 DEF ServerNext

(***************************************************************************)
(* Who starts from the message of the base snapshot and applies the delta  *)
(* of every packet has the current snapshot after every tick, for all      *)
(* games whose packets are valid UTF-8 and any number of ticks, finished   *)
(* or abandoned, as long as none of them has changed the class of an       *)
(* object under its id (server_controller.cpp:81-140,                      *)
(* gameinstance.cpp:25-53, snapshot.cpp:55-121, 196-272).                  *)
(***************************************************************************)
THEOREM GamesReplay ==
  ASSUME ExactValues, FaithfulCrc, ExactBytes
  PROVE  ServerSpec /\ []PacketsParse => []PacketsReplay
<1>1. ServerInit => CopyInv /\ PacketsInv /\ ReplayInv
  BY ReplayInit DEF ServerInit, Init, CopyInv, PacketsInv
<1>2. InstanceInv /\ CopyInv /\ PacketsInv /\ ReplayInv /\ ServerTypes
        /\ [ServerNext]_serverVars
        /\ PacketsParse'
        => CopyInv' /\ PacketsInv' /\ ReplayInv'
  <2> SUFFICES ASSUME InstanceInv, CopyInv, PacketsInv, ReplayInv, ServerTypes,
                      [ServerNext]_serverVars, PacketsParse'
               PROVE  CopyInv' /\ PacketsInv' /\ ReplayInv'
    OBVIOUS
  <2>1. CopyInv' /\ PacketsInv'
    BY CopyStep, PacketsStep
  <2>2. ReplayInv'
    BY ReplayStep
  <2> QED
    BY <2>1, <2>2
<1>3. ReplayInv => PacketsReplay
  BY DEF ReplayInv, PacketsReplay, Start
<1> QED
  BY <1>1, <1>2, <1>3, ServerTicksInstance, InstanceCorrect, ServerTypesCorrect, PTL
     DEF ServerSpec

=============================================================================
