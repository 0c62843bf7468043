-------------------------- MODULE ThreadSafeDeque --------------------------
(***************************************************************************)
(* util::ThreadSafeDeque (include/util/tsdeque.hpp) and the loop that      *)
(* drains one (ServerInterface::update, include/net/server.hpp:157-170;    *)
(* GameInstance::update_tick runs the same empty/pop_front loop).          *)
(*                                                                         *)
(* The class guards a std::deque with _mutex, and a condition variable     *)
(* _blocking with a second mutex, _mutex_blocking.  A step of the model is *)
(* what a thread does between two points where another thread can get in:  *)
(* acquiring a mutex and the accesses it protects are one step, and a      *)
(* thread that keeps one mutex while it asks for the other stops between   *)
(* the two.                                                                *)
(***************************************************************************)
EXTENDS Naturals, Sequences, FiniteSets

CONSTANTS Producers,    \* threads that push (the asio context thread, callers
                        \* of add_action, ...)
          Consumers,    \* threads that run the draining loop
          Items,        \* what is pushed
          Free,         \* "no owner" of a mutex
          OtherCalls,   \* calls of the class besides push_back that producers
                        \* make; the program makes none of them
          MaxPush       \* bound: number of pushes in a behaviour

Threads == Producers \cup Consumers

ASSUME ThreadsAssumption ==
  /\ Producers \cap Consumers = {}
  /\ Free \notin Threads
  /\ OtherCalls \subseteq {"push_front", "pop_back", "clear"}
  /\ MaxPush \in Nat

VARIABLES queue,          \* _queue
          mutex,          \* owner of _mutex
          mutexBlocking,  \* owner of _mutex_blocking
          pc,             \* where each thread is
          pushed,         \* history: items pushed, in the order they got in
          popped          \* history: items pop_front returned to consumers

vars == <<queue, mutex, mutexBlocking, pc, pushed, popped>>

(***************************************************************************)
(* A producer is outside the class ("idle"), has emplaced its item and     *)
(* wants _mutex_blocking while it keeps _mutex ("pushed"), or has notified *)
(* and keeps both ("notified").                                            *)
(***************************************************************************)
ProducerStates == {"idle", "pushed", "notified"}

(***************************************************************************)
(* A consumer in wait() is about to test empty() ("check"), has seen an    *)
(* empty queue and wants _mutex_blocking ("block"), sleeps in              *)
(* _blocking.wait ("asleep"), was woken and wants _mutex_blocking back     *)
(* ("woken"), or has it ("awake").  In the draining loop it is about to    *)
(* test empty() ("loop") or about to call pop_front ("pop").  "threw": the *)
(* runtime_error of an empty pop_front left the loop.                      *)
(***************************************************************************)
ConsumerStates ==
  {"idle", "check", "block", "asleep", "woken", "awake", "loop", "pop", "threw"}

Sleepers == {c \in Consumers : pc[c] = "asleep"}

Init ==
  /\ queue = <<>>
  /\ mutex = Free
  /\ mutexBlocking = Free
  /\ pc = [t \in Threads |-> "idle"]
  /\ pushed = <<>>
  /\ popped = <<>>
-----------------------------------------------------------------------------
(***************************************************************************)
(* Producers.                                                              *)
(***************************************************************************)

\* The head of push_back and push_front: take _mutex, store the item.
Emplace(p, x, newQueue) ==
  /\ Len(pushed) < MaxPush
  /\ pc[p] = "idle"
  /\ mutex = Free
  /\ mutex' = p
  /\ queue' = newQueue
  /\ pushed' = Append(pushed, x)
  /\ pc' = [pc EXCEPT ![p] = "pushed"]
  /\ UNCHANGED <<mutexBlocking, popped>>

\* Mutant of PushBack: emplace_front where emplace_back is meant.
PushBackInFront(p, x) == Emplace(p, x, <<x>> \o queue)

PushBack(p, x) == Emplace(p, x, Append(queue, x))

PushFront(p, x) ==
  "push_front" \in OtherCalls /\ Emplace(p, x, <<x>> \o queue)

\* Mutants of PushNotify: the notification is forgotten; the wrong thread is
\* marked as woken.
PushForgetNotify(p) ==
  /\ pc[p] = "pushed"
  /\ mutexBlocking = Free
  /\ mutexBlocking' = p
  /\ pc' = [pc EXCEPT ![p] = "notified"]
  /\ UNCHANGED <<queue, mutex, pushed, popped>>

PushNotifySelf(p) ==
  /\ pc[p] = "pushed"
  /\ mutexBlocking = Free
  /\ mutexBlocking' = p
  /\ pc' = [pc EXCEPT ![p] = IF Sleepers = {} THEN "notified" ELSE "woken"]
  /\ UNCHANGED <<queue, mutex, pushed, popped>>

\* The tail of a push: take _mutex_blocking with _mutex still held, and
\* notify_one, which wakes some sleeper if there is one.
PushNotify(p) ==
  /\ pc[p] = "pushed"
  /\ mutexBlocking = Free
  /\ mutexBlocking' = p
  /\ \/ Sleepers = {} /\ pc' = [pc EXCEPT ![p] = "notified"]
     \/ \E c \in Sleepers : pc' = [pc EXCEPT ![p] = "notified", ![c] = "woken"]
  /\ UNCHANGED <<queue, mutex, pushed, popped>>

\* Both locks are released when push_back returns.
PushReturn(p) ==
  /\ pc[p] = "notified"
  /\ mutex' = Free
  /\ mutexBlocking' = Free
  /\ pc' = [pc EXCEPT ![p] = "idle"]
  /\ UNCHANGED <<queue, pushed, popped>>

\* pop_back throws on an empty queue and then changes nothing.
PopBack(p) ==
  /\ "pop_back" \in OtherCalls
  /\ pc[p] = "idle"
  /\ mutex = Free
  /\ queue # <<>>
  /\ queue' = SubSeq(queue, 1, Len(queue) - 1)
  /\ UNCHANGED <<mutex, mutexBlocking, pc, pushed, popped>>

Clear(p) ==
  /\ "clear" \in OtherCalls
  /\ pc[p] = "idle"
  /\ mutex = Free
  /\ queue' = <<>>
  /\ UNCHANGED <<mutex, mutexBlocking, pc, pushed, popped>>

Produce(p) ==
  \/ \E x \in Items : PushBack(p, x) \/ PushFront(p, x)
  \/ PushNotify(p)
  \/ PushReturn(p)
  \/ PopBack(p)
  \/ Clear(p)
-----------------------------------------------------------------------------
(***************************************************************************)
(* Consumers.  update(max_messages, wait) calls wait() if asked to, then   *)
(* pops until it sees an empty queue (max_messages is SIZE_MAX).           *)
(***************************************************************************)

\* c moves from one place of its program to another; nothing else changes.
Goto(c, from, to) ==
  /\ pc[c] = from
  /\ pc' = [pc EXCEPT ![c] = to]
  /\ UNCHANGED <<queue, mutex, mutexBlocking, pushed, popped>>

CallUpdate(c) == Goto(c, "idle", "check") \/ Goto(c, "idle", "loop")

\* while (empty()) of wait(): empty() takes _mutex and gives it back.
WaitEmpty(c) ==
  /\ mutex = Free
  /\ Goto(c, "check", IF queue = <<>> THEN "block" ELSE "loop")

\* Take _mutex_blocking; _blocking.wait releases it and sleeps in one step.
Block(c) == mutexBlocking = Free /\ Goto(c, "block", "asleep")

\* The C++ standard lets a wait return without a notification.
SpuriousWake(c) == Goto(c, "asleep", "woken")

\* _blocking.wait takes _mutex_blocking again before it returns.
Reacquire(c) ==
  /\ pc[c] = "woken"
  /\ mutexBlocking = Free
  /\ mutexBlocking' = c
  /\ pc' = [pc EXCEPT ![c] = "awake"]
  /\ UNCHANGED <<queue, mutex, pushed, popped>>

\* Mutant of WaitRelease: the unique_lock is declared outside the while loop,
\* so that empty() runs with _mutex_blocking held.
WaitKeepLock(c) == Goto(c, "awake", "check")

\* The unique_lock goes out of scope at the end of the loop body.
WaitRelease(c) ==
  /\ pc[c] = "awake"
  /\ mutexBlocking' = Free
  /\ pc' = [pc EXCEPT ![c] = "check"]
  /\ UNCHANGED <<queue, mutex, pushed, popped>>

\* Mutant of DrainEmpty: do { pop } while instead of while { pop }.
DrainUnchecked(c) == mutex = Free /\ Goto(c, "loop", "pop")

\* !_input_queue.empty() of the draining loop.
DrainEmpty(c) ==
  /\ mutex = Free
  /\ Goto(c, "loop", IF queue = <<>> THEN "idle" ELSE "pop")

PopFront(c) ==
  /\ pc[c] = "pop"
  /\ mutex = Free
  /\ \/ /\ queue = <<>>
        /\ pc' = [pc EXCEPT ![c] = "threw"]
        /\ UNCHANGED <<queue, popped>>
     \/ /\ queue # <<>>
        /\ queue' = Tail(queue)
        /\ popped' = Append(popped, Head(queue))
        /\ pc' = [pc EXCEPT ![c] = "loop"]
  /\ UNCHANGED <<mutex, mutexBlocking, pushed>>

\* The steps the scheduler owes a consumer, all but the spurious wake-up.
Consume(c) ==
  \/ CallUpdate(c)
  \/ WaitEmpty(c)
  \/ Block(c)
  \/ Reacquire(c)
  \/ WaitRelease(c)
  \/ DrainEmpty(c)
  \/ PopFront(c)
-----------------------------------------------------------------------------
Next ==
  \/ \E p \in Producers : Produce(p)
  \/ \E c \in Consumers : Consume(c) \/ SpuriousWake(c)

Spec == Init /\ [][Next]_vars

(***************************************************************************)
(* Threads are scheduled and the game loop keeps calling update.  Nothing  *)
(* obliges a producer to start another push, nor the implementation to     *)
(* wake a sleeper that was not notified.                                   *)
(***************************************************************************)
FairSpec ==
  /\ Spec
  /\ \A p \in Producers : WF_vars(PushNotify(p) \/ PushReturn(p))
  /\ \A c \in Consumers : WF_vars(Consume(c))
-----------------------------------------------------------------------------
TypeOK ==
  /\ queue \in Seq(Items)
  /\ pushed \in Seq(Items)
  /\ popped \in Seq(Items)
  /\ mutex \in Threads \cup {Free}
  /\ mutexBlocking \in Threads \cup {Free}
  /\ pc \in [Threads -> ProducerStates \cup ConsumerStates]
  /\ \A p \in Producers : pc[p] \in ProducerStates
  /\ \A c \in Consumers : pc[c] \in ConsumerStates

(***************************************************************************)
(* The locks are never taken in a circle: push_back asks for               *)
(* _mutex_blocking with _mutex held, so no thread may ask for _mutex, as   *)
(* empty() and pop_front() do, with _mutex_blocking held.                  *)
(***************************************************************************)
NoLockCycle ==
  \A t, u \in Threads :
    ~ /\ mutex = t /\ pc[t] = "pushed"
      /\ mutexBlocking = u /\ pc[u] \in {"idle", "check", "loop", "pop"}

(***************************************************************************)
(* empty() and the pop_front() it guards are two critical sections; the    *)
(* exception of pop_front never leaves the draining loop.  It needs a      *)
(* single consumer and producers that only push.                           *)
(***************************************************************************)
PopNeverThrows == \A c \in Consumers : pc[c] # "threw"

SingleConsumer == \A c, d \in Consumers : c = d

(***************************************************************************)
(* A queue filled with push_back and drained with pop_front is a FIFO      *)
(* channel, however its threads interleave.                                *)
(***************************************************************************)
Channel == INSTANCE FifoChannel
             WITH Messages <- Items, sent <- pushed, received <- popped

ImplementsFifoChannel == Channel!Spec

(***************************************************************************)
(* An item whose push finds the consumer asleep gets drained: notify_one   *)
(* cannot miss a thread that already sleeps, and nothing between the two   *)
(* locks stops it.                                                         *)
(***************************************************************************)
PushWakesSleeper ==
  (Sleepers # {} /\ \E p \in Producers : pc[p] = "pushed") ~> (queue = <<>>)

(***************************************************************************)
(* server.hpp:150, of update: "Reads all the received packets".  It fails: *)
(* a push between the test of empty() and the sleep notifies nobody.       *)
(***************************************************************************)
ReceivedIsRead == (queue # <<>>) ~> (queue = <<>>)
=============================================================================
