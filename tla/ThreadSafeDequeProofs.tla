------------------------ MODULE ThreadSafeDequeProofs ------------------------
(***************************************************************************)
(* Theorems about ThreadSafeDeque, for every set of threads and items.     *)
(***************************************************************************)
EXTENDS ThreadSafeDeque, ListProofs

(***************************************************************************)
(* Which thread holds which mutex can be read off where the threads are.   *)
(***************************************************************************)
LockInv ==
  \A t \in Threads :
    /\ mutex = t <=> pc[t] \in {"pushed", "notified"}
    /\ mutexBlocking = t <=> pc[t] \in {"notified", "awake"}

\* Every variable has its type, whatever producers call (the state of
\* ThreadSafeDeque, tsdeque.hpp:131-136).
THEOREM TypeCorrect == Spec => []TypeOK
<1>1. Init => TypeOK
  BY DEF Init, TypeOK, ProducerStates, ConsumerStates, Threads
<1>2. TypeOK /\ [Next]_vars => TypeOK'
  <2> SUFFICES ASSUME TypeOK, [Next]_vars PROVE TypeOK'
    OBVIOUS
  <2> USE ThreadsAssumption DEF ThreadsAssumption, TypeOK, Threads
  <2>1. ASSUME NEW p \in Producers, NEW x \in Items, NEW newQueue \in Seq(Items),
               Emplace(p, x, newQueue)
        PROVE  TypeOK'
    <3>1. Append(pushed, x) \in Seq(Items)
      OBVIOUS
    <3> QED BY <2>1, <3>1 DEF Emplace, ProducerStates, ConsumerStates
  <2>2. ASSUME NEW p \in Producers, NEW x \in Items, PushBack(p, x)
        PROVE  TypeOK'
    <3>1. Append(queue, x) \in Seq(Items)
      OBVIOUS
    <3> QED BY <2>1, <2>2, <3>1 DEF PushBack
  <2>3. ASSUME NEW p \in Producers, NEW x \in Items, PushFront(p, x)
        PROVE  TypeOK'
    <3>1. <<x>> \o queue \in Seq(Items)
      OBVIOUS
    <3> QED BY <2>1, <2>3, <3>1 DEF PushFront
  <2>4. ASSUME NEW p \in Producers, PushNotify(p)
        PROVE  TypeOK'
    BY <2>4 DEF PushNotify, Sleepers, ProducerStates, ConsumerStates
  <2>5. ASSUME NEW p \in Producers, PushReturn(p)
        PROVE  TypeOK'
    BY <2>5 DEF PushReturn, ProducerStates, ConsumerStates
  <2>6. ASSUME NEW p \in Producers, PopBack(p) \/ Clear(p)
        PROVE  TypeOK'
    <3>1. SubSeq(queue, 1, Len(queue) - 1) \in Seq(Items)
      BY SubSeqProperties, LenProperties
    <3>2. <<>> \in Seq(Items)
      OBVIOUS
    <3> QED BY <2>6, <3>1, <3>2 DEF PopBack, Clear
  <2>7. ASSUME NEW c \in Consumers, NEW from, NEW to \in ConsumerStates, Goto(c, from, to)
        PROVE  TypeOK'
    BY <2>7 DEF Goto, ProducerStates, ConsumerStates
  <2>8. ASSUME NEW c \in Consumers,
               \/ CallUpdate(c) \/ WaitEmpty(c) \/ Block(c)
               \/ SpuriousWake(c) \/ DrainEmpty(c)
        PROVE  TypeOK'
    BY <2>7, <2>8
       DEF CallUpdate, WaitEmpty, Block, SpuriousWake, DrainEmpty, ConsumerStates
  <2>9. ASSUME NEW c \in Consumers, Reacquire(c) \/ WaitRelease(c)
        PROVE  TypeOK'
    BY <2>9 DEF Reacquire, WaitRelease, ProducerStates, ConsumerStates
  <2>10. ASSUME NEW c \in Consumers, PopFront(c)
         PROVE  TypeOK'
    <3>1. CASE queue = <<>>
      BY <2>10, <3>1 DEF PopFront, ProducerStates, ConsumerStates
    <3>2. CASE queue # <<>>
      <4>1. Tail(queue) \in Seq(Items) /\ Head(queue) \in Items
        BY <3>2
      <4>2. Append(popped, Head(queue)) \in Seq(Items)
        BY <4>1
      <4> QED BY <2>10, <3>2, <4>1, <4>2 DEF PopFront, ProducerStates, ConsumerStates
    <3> QED BY <3>1, <3>2
  <2>11. CASE UNCHANGED vars
    BY <2>11 DEF vars
  <2> QED
    BY <2>2, <2>3, <2>4, <2>5, <2>6, <2>8, <2>9, <2>10, <2>11
       DEF Next, Produce, Consume
<1> QED BY <1>1, <1>2, PTL DEF Spec

\* The mutexes have the owners that the places of the threads say.
LEMMA LocksFollowThreads == Spec => []LockInv
<1>1. Init => LockInv
  BY ThreadsAssumption DEF ThreadsAssumption, Init, LockInv, Threads
<1>2. TypeOK /\ LockInv /\ [Next]_vars => LockInv'
  <2> SUFFICES ASSUME TypeOK, LockInv, [Next]_vars PROVE LockInv'
    OBVIOUS
  <2> USE ThreadsAssumption DEF ThreadsAssumption, TypeOK, LockInv, Threads
  <2>1. ASSUME NEW p \in Producers, NEW x, NEW newQueue, Emplace(p, x, newQueue)
        PROVE  LockInv'
    BY <2>1 DEF Emplace
  <2>2. ASSUME NEW p \in Producers, PushNotify(p)
        PROVE  LockInv'
    BY <2>2 DEF PushNotify, Sleepers
  <2>3. ASSUME NEW p \in Producers, PushReturn(p)
        PROVE  LockInv'
    BY <2>3 DEF PushReturn
  <2>4. ASSUME NEW p \in Producers, PopBack(p) \/ Clear(p)
        PROVE  LockInv'
    BY <2>4 DEF PopBack, Clear
  <2>5. ASSUME NEW c \in Consumers, NEW from, NEW to, Goto(c, from, to),
               {from, to} \cap {"pushed", "notified", "awake"} = {}
        PROVE  LockInv'
    BY <2>5 DEF Goto
  <2>6. ASSUME NEW c \in Consumers,
               \/ CallUpdate(c) \/ WaitEmpty(c) \/ Block(c)
               \/ SpuriousWake(c) \/ DrainEmpty(c)
        PROVE  LockInv'
    BY <2>5, <2>6 DEF CallUpdate, WaitEmpty, Block, SpuriousWake, DrainEmpty
  <2>7. ASSUME NEW c \in Consumers, Reacquire(c) \/ WaitRelease(c)
        PROVE  LockInv'
    BY <2>7 DEF Reacquire, WaitRelease
  <2>8. ASSUME NEW c \in Consumers, PopFront(c)
        PROVE  LockInv'
    BY <2>8 DEF PopFront
  <2>9. CASE UNCHANGED vars
    BY <2>9 DEF vars
  <2> QED
    BY <2>1, <2>2, <2>3, <2>4, <2>6, <2>7, <2>8, <2>9
       DEF Next, Produce, Consume, PushBack, PushFront
<1> QED BY <1>1, <1>2, TypeCorrect, PTL DEF Spec

\* push_back asks for _mutex_blocking with _mutex held (tsdeque.hpp:75-79); no
\* thread asks for them in the other order, so the class cannot deadlock.
THEOREM LocksInOneOrder == Spec => []NoLockCycle
<1>1. LockInv => NoLockCycle
  BY DEF LockInv, NoLockCycle, Threads
<1> QED BY <1>1, LocksFollowThreads, PTL
-----------------------------------------------------------------------------
(***************************************************************************)
(* The program calls only push_back: what was pushed is what was popped    *)
(* followed by what is queued.                                             *)
(***************************************************************************)
FifoInv == pushed = popped \o queue

LEMMA NothingLost == ASSUME OtherCalls = {} PROVE Spec => []FifoInv
<1>1. Init => FifoInv
  BY ConcatEmptySeq DEF Init, FifoInv
<1>2. TypeOK /\ FifoInv /\ [Next]_vars => FifoInv'
  <2> SUFFICES ASSUME TypeOK, FifoInv, [Next]_vars PROVE FifoInv'
    OBVIOUS
  <2> USE DEF TypeOK, FifoInv
  <2>1. ASSUME NEW p \in Producers, NEW x \in Items, PushBack(p, x) \/ PushFront(p, x)
        PROVE  FifoInv'
    <3>1. Append(pushed, x) = popped \o Append(queue, x)
      <4>1. <<x>> \in Seq(Items)
        OBVIOUS
      <4>2. Append(pushed, x) = pushed \o <<x>> /\ Append(queue, x) = queue \o <<x>>
        BY AppendIsConcat
      <4>3. (popped \o queue) \o <<x>> = popped \o (queue \o <<x>>)
        BY <4>1, ConcatAssociative
      <4> QED BY <4>2, <4>3
    <3> QED BY <2>1, <3>1 DEF PushBack, PushFront, Emplace
  <2>2. ASSUME NEW c \in Consumers, PopFront(c)
        PROVE  FifoInv'
    <3>1. CASE queue = <<>>
      BY <2>2, <3>1 DEF PopFront
    <3>2. CASE queue # <<>>
      <4>1. Append(popped, Head(queue)) \o Tail(queue) = popped \o queue
        BY <3>2, MoveHead
      <4> QED BY <2>2, <3>2, <4>1 DEF PopFront
    <3> QED BY <3>1, <3>2
  <2>3. CASE UNCHANGED <<queue, pushed, popped>>
    BY <2>3
  <2> QED
    BY <2>1, <2>2, <2>3
       DEF Next, Produce, Consume, PushNotify, PushReturn, PopBack, Clear, CallUpdate,
           WaitEmpty, Block, SpuriousWake, DrainEmpty, Goto, Reacquire, WaitRelease, vars
<1> QED BY <1>1, <1>2, TypeCorrect, PTL DEF Spec

\* A deque that is filled with push_back and drained with pop_front, as every
\* deque of the program is, implements a FIFO channel (tsdeque.hpp:49-80).
THEOREM DequeIsFifo ==
  ASSUME OtherCalls = {} PROVE Spec => ImplementsFifoChannel
<1>1. Init => Channel!Init
  BY DEF Init, Channel!Init
<1>2. TypeOK /\ FifoInv /\ [Next]_vars => [Channel!Next]_(Channel!chanVars)
  <2> SUFFICES ASSUME TypeOK, FifoInv, [Next]_vars
               PROVE  [Channel!Next]_(Channel!chanVars)
    OBVIOUS
  <2> USE DEF TypeOK, FifoInv
  <2>1. ASSUME NEW p \in Producers, NEW x \in Items, PushBack(p, x) \/ PushFront(p, x)
        PROVE  Channel!Next
    BY <2>1 DEF PushBack, PushFront, Emplace, Channel!Next, Channel!Send
  <2>2. ASSUME NEW c \in Consumers, PopFront(c)
        PROVE  Channel!Next \/ UNCHANGED Channel!chanVars
    <3>1. CASE queue = <<>>
      BY <2>2, <3>1 DEF PopFront, Channel!chanVars
    <3>2. CASE queue # <<>>
      <4>1. /\ Len(popped) < Len(pushed)
            /\ pushed[Len(popped) + 1] = Head(queue)
        BY <3>2, HeadIsNext
      <4>2. Channel!Receive
        BY <2>2, <3>2, <4>1 DEF PopFront, Channel!Receive
      <4> QED BY <4>2 DEF Channel!Next
    <3> QED BY <3>1, <3>2
  <2>3. CASE UNCHANGED <<pushed, popped>>
    BY <2>3 DEF Channel!chanVars
  <2> QED
    BY <2>1, <2>2, <2>3
       DEF Next, Produce, Consume, PushNotify, PushReturn, PopBack, Clear, CallUpdate,
           WaitEmpty, Block, SpuriousWake, DrainEmpty, Goto, Reacquire, WaitRelease, vars
<1> QED
  BY <1>1, <1>2, TypeCorrect, NothingLost, PTL DEF Spec, ImplementsFifoChannel, Channel!Spec
-----------------------------------------------------------------------------
(***************************************************************************)
(* A consumer that is about to call pop_front saw an item, and nobody else *)
(* takes it away.                                                          *)
(***************************************************************************)
DrainInv == \A c \in Consumers : pc[c] # "threw" /\ (pc[c] = "pop" => queue # <<>>)

\* The draining loop never meets the exception of pop_front, as long as one
\* thread drains and the others only push (server.hpp:165-166).
THEOREM DrainIsSafe ==
  ASSUME SingleConsumer, OtherCalls \subseteq {"push_front"}
  PROVE  Spec => []PopNeverThrows
<1>1. Init => DrainInv
  BY DEF Init, DrainInv, Threads
<1>2. TypeOK /\ DrainInv /\ [Next]_vars => DrainInv'
  <2> SUFFICES ASSUME TypeOK, DrainInv, [Next]_vars PROVE DrainInv'
    OBVIOUS
  <2> USE ThreadsAssumption DEF ThreadsAssumption, TypeOK, DrainInv, Threads, SingleConsumer
  <2>1. ASSUME NEW p \in Producers, NEW x \in Items, PushBack(p, x) \/ PushFront(p, x)
        PROVE  DrainInv'
    <3>1. Append(queue, x) # <<>> /\ <<x>> \o queue # <<>>
      BY AppendProperties, ConcatProperties
    <3> QED BY <2>1, <3>1 DEF PushBack, PushFront, Emplace
  <2>2. ASSUME NEW p \in Producers, PushNotify(p)
        PROVE  DrainInv'
    BY <2>2 DEF PushNotify, Sleepers
  <2>3. ASSUME NEW p \in Producers, PushReturn(p) \/ PopBack(p) \/ Clear(p)
        PROVE  DrainInv'
    BY <2>3 DEF PushReturn, PopBack, Clear
  <2>4. ASSUME NEW c \in Consumers,
               \/ CallUpdate(c) \/ WaitEmpty(c) \/ Block(c)
               \/ SpuriousWake(c) \/ DrainEmpty(c)
        PROVE  DrainInv'
    BY <2>4 DEF CallUpdate, WaitEmpty, Block, SpuriousWake, DrainEmpty, Goto
  <2>5. ASSUME NEW c \in Consumers, Reacquire(c) \/ WaitRelease(c)
        PROVE  DrainInv'
    BY <2>5 DEF Reacquire, WaitRelease
  <2>6. ASSUME NEW c \in Consumers, PopFront(c)
        PROVE  DrainInv'
    BY <2>6 DEF PopFront
  <2>7. CASE UNCHANGED vars
    BY <2>7 DEF vars
  <2> QED
    BY <2>1, <2>2, <2>3, <2>4, <2>5, <2>6, <2>7 DEF Next, Produce, Consume
<1>3. DrainInv => PopNeverThrows
  BY DEF DrainInv, PopNeverThrows
<1> QED BY <1>1, <1>2, <1>3, TypeCorrect, PTL DEF Spec
=============================================================================
