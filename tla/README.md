# haraka-engine in TLA+

haraka-engine is a small engine for networked games: a server owns the world,
advances it in ticks, and sends every client the difference between two ticks;
clients apply and interpolate these differences. This directory holds TLA+
models of it, the TLC runs that check them, and TLAPS proofs of what holds for
any number of threads, packets, objects and values.

`tlc -config X.cfg M` runs one of the runs of section 4, `tlapm M.tla` checks
the proofs of section 7. `PROJECT.json` maps every definition that models code
to its lines.

## 1. The system

| part | state | operations | who calls it |
|---|---|---|---|
| `util::ThreadSafeDeque` (`include/util/tsdeque.hpp`) | a deque, two mutexes, a condition variable | push, pop, clear, `wait` | the context thread pushes packets, the game thread drains them; any thread adds actions |
| `net::TCPSession` (`include/net/session.hpp`) | socket, output queue, a temporary packet | send, disconnect, connect, the completion handlers of asio | posted to the context from any thread; handlers run on the context thread |
| `net::Client` (`include/net/client.hpp`) | io_context and its thread, one session | `connect`, `disconnect`, `send` | the application |
| `net::ServerInterface` (`include/net/server.hpp`) | io_context and its thread, `_sessions`, the input queue | accept, `message_client`, `message_all_clients`, `update`, `start`, `stop` | accepting runs on the context thread, the rest on the game thread |
| `server::ServerController`, `SessionInfo` (`sources/server/`) | `_session_info`, a `GameInstance` | connection callbacks, login, `update_tick` | the two threads of the server |
| `core::GameInstance` (`sources/core/gameinstance.cpp`) | base and current snapshot, action queue, status list, deltas | `add_action`, `update_tick` | any thread adds, the game thread ticks |
| `core::Snapshot`, `DeltaSnapshot`, `GameObject` (`sources/core/`) | objects by id, values by name; changed, deleted and added ids | copy, `evaluate`, `apply`, `compare`, `interpolate`, checksum, serialization | `GameInstance`, clients |
| game values (`include/core/types.hpp`) | an int, a float, a vector | `get_delta`, `interp`, `serialize` | objects |
| `GameAction`, `ActionStatus` (`include/core/action.hpp`) | an id, values by name | `act` = `check_action` then `perform_act`; serialization | `GameInstance`, the controller |
| packets (`include/net/packet.hpp`, `include/server/packet_types.hpp`) | header and body | resize, append | sessions, the controller |
| messages (`*.proto`) | fields of objects, snapshots, deltas, actions, statuses | generated by protobuf | whatever is serialized |
| `Observable`, `Observer` (`include/core/events.hpp`), `DrawInstance` (`include/graphics/draw_instance.hpp`) | observers of an object; the object of a draw instance | add, remove, `notify` | the constructor and the destructor of a draw instance |
| window, camera, engine, player, team | graphics; plain data | draw | not reachable from the server |

The server and client libraries are commented out in `CMakeLists.txt`; their
code is modelled as it stands.

What is hard here, and what makes each part correct:

* **Two threads and a queue.** `empty()` and `pop_front()` are two critical
  sections, `wait()` tests under one mutex and sleeps under another, a push
  takes both. Correct: first in first out, `pop_front` never throws in the
  draining loop, no circle of locks, a push wakes the consumer.
* **Chains of handlers.** A session keeps itself alive: every handler starts
  the next operation, and `send_packet` infers from the output queue whether a
  write is outstanding. Correct: never two writes, never a packet nobody
  writes, always a read, whole packets in order, an end that is noticed.
* **Raw pointers in handlers, and a thread that is stopped.** Correct: a session
  lives as long as its operations, `disconnect()` returns, the context thread is
  joined before it is replaced. The code does not keep all of this (section 5).
* **A list that is changed while it is used.** Sessions that end are nulled
  inside a broadcast and erased after it; other sessions are accepted meanwhile.
  Correct: nobody is skipped, no live session is dropped, no dead one is kept, and
  none is deleted that a handler still points to.
* **Ticks that fail.** An action may throw after it changed the world, and an
  exception that is not one of the two expected ones leaves `update_tick`
  half-way. Correct: the chain of deltas has no gap and replays the game.
* **Shared objects.** Snapshots and deltas share objects by pointer. Correct:
  nothing that was published changes.
* **Arithmetic.** Ints are interpolated in float. Correct: exact where a float
  can hold the numbers, and close elsewhere.
* **Bytes on the wire.** The values of a delta are read by the objects of the
  snapshot it applies to, those of an added object by a registry of classes, and
  both are put into strings of proto3. Correct: a replica that holds the previous
  snapshot and gets the message has the next one; only an unknown class of an
  added object stops it.
* **Observers that come and go.** An object points to its draw instances without
  owning them. Correct: its list names those that exist, and all of them.

The hazards, each at its line, are in `PROJECT.json`.

## 2. Modules

| module | models | notes |
|---|---|---|
| `Lists` | `std::remove` | of `Server` and of `Events` |
| `FifoChannel` | the abstract one-way queue | implemented by the deque, by a direction of a connection, and by the action queue |
| `ThreadSafeDeque` | the class and the loop of `ServerInterface::update` | one action per critical section; `pc` says where each thread is |
| `TCPSession` | the two sessions of one connection, sockets and network | a handler is one action; asynchronous operations have a state of their own, which the network changes |
| `Client` | `connect`, `disconnect`, the context and its thread | a session is a chain of operations here |
| `GameValues` | deltas and interpolation of ints and floats, bytes of ints | widths are parameters |
| `ValuePair` | a value over the ticks | the state machine that reaches every pair of values |
| `Snapshots` | copy, evaluate, apply, compare, checksum | operators; the values are parameters |
| `SnapshotPair` | two snapshots under construction | the state machine that reaches every pair |
| `Serialization` | messages of objects, snapshots and deltas; the registry of classes; packets | extends `Snapshots`; bytes and UTF-8 are parameters |
| `SerializedPair` | the snapshots of `SnapshotPair` as messages | extends both |
| `Events` | observables and the draw instances that observe them | `notify()` one observer at a time |
| `GameInstance` | `add_action` and `update_tick` | extends `Snapshots`; objects live in a heap, snapshots hold addresses |
| `ServerTick` | `ServerController::update_tick` around `GameInstance`; messages of actions and statuses | extends it and `Serialization`; each of its steps is a step of `GameInstance` or of the server |
| `Server` | start and stop, accept, sessions, broadcast, login | a session is what it shows to the server |
| `Core` | the classes that no thread shares | composes `SerializedPair`, `ValuePair` and `Events`, each of which moves while the others rest |
| `MC*` | instances for TLC | the constants that a configuration cannot write |
| `*Proofs` | TLAPS proofs, each of the module it is named for | see section 7; `CoreProofs` is about the modules that `Core` composes, `GameInstanceProofs` about `ServerTick` too; `ListProofs` (numbers and lists) and `SnapshotsProofs` hold lemmas that several of the others use |

`Server` and `ServerTick` share the game thread: `Server.StartBroadcast` is what
follows `ServerTick.SendDelta`. They are separate because the content of a delta
and its recipients do not depend on each other. `Server` and `Client` treat a
session as `TCPSession` shows itself to be: after a close nothing that it starts
succeeds, what is outstanding is still to be handled, and what is sent is in order.

### State and code

* `ThreadSafeDeque`: `mutex`, `mutexBlocking` are the owners of `_mutex`,
  `_mutex_blocking`. A method that takes `_mutex` for its whole body is one
  action guarded by `mutex = Free`; pushes are three actions because they take
  the second mutex in the middle; `wait` is five. `pushed` and `popped` are
  history variables.
* `TCPSession`: `tasks[s]` are the lambdas posted to the context of side `s`,
  `outq` is `_output_queue`, `writes` and `read` the outstanding operations,
  `temp` is `_temp_packet`, `wire` what is on its way. A packet stands for its
  header, and its body is itself or empty; a frame is a header or a body, which
  is how `write_header` and `write_body` cut the stream. A read may be given
  the wrong frame: nothing in the model keeps the two in step but the code.
* `Client`: `tasks` is the outstanding work of the context, `busy` the task whose
  handler runs, `thread = "ended"` a thread that returned and was not joined.
  `connect()` may be called at any time. With a session held it destroys that one
  (`socket` is then "destroyed"), whose tasks stay, and goes on to assign to the
  thread: `Terminate`, unless the thread was never made. `found` is the session that
  the last `connect()` found.
* `Server`: `sessions` is `_sessions` with its null pointers, `at` and `end` the
  iterators of `message_all_clients`, `invalid` its flag; `info` is
  `_session_info`, whose entries stay when a session ends. `context` is the place
  of the context thread inside the accept handler, between whose accesses to
  `_sessions` the game thread may run, or "none" without a thread and "ended" when
  `run()` has returned; `stopped` is what `stop()` makes of the io_context. The
  game thread is in "join" until the context thread has ended, and "terminated"
  after a second `start()`. `reading` are the sessions whose read is outstanding,
  `aborted` those whose read has ended, on a closed socket, while other handlers or
  posted packets of theirs are still in the context; an open session may have a write
  outstanding at any time. Both outlive a close, and `Alive(s)` is whether a shared_ptr
  still does. What a handler does to a session that is gone is undefined; the model
  lets it end as one that fails. `seen[s]` is the tick of the last delta given to `s`,
  until a broadcast finds `s` closed.
* `GameInstance`: `heap` maps the address (tick, id) to an object. The copy
  constructor allocates at the addresses of the new tick; `base` and `current`
  hold addresses and, after the constructor, the same ones. `_initialize` copies
  by assignment and the constructors by copies, each of which counts the tick up;
  `BaseTick` is the tick that results. `Store` takes the objects that an action adds
  as fresh ones: an action that hands in the same pointer twice is not modelled.
* `Snapshots`: `Checksum` is a checksum of the list of values in the order of their
  names (`NameOrder`), as the code computes it; it sees neither the names nor the
  class.
* `ServerTick`: `actions` is the copy made before the tick, `update` the message
  put together after it, `packets` what `_send_delta_update` encoded. It encodes
  the delta and not the update. Packets hold the message with the bytes of its
  values, and `Received` is what whoever holds a snapshot makes of one:
  `DecodePacket`, `DeserializeDelta`, `Apply`. An action is its id, and
  `ActionObject` its class and values. `steady` is a history variable: no finished
  tick has put an object of another class under the id of one.
* `Serialization`: a message is a record with the fields the code fills. A
  repeated field of objects is a function from their ids. `ObjectThrows` and
  `DeltaThrows` are the exceptions; `HasReference` is what the code needs of the
  snapshot lest it dereference null. `DecodePacket` is a set, because what a
  parser keeps of a message it gives up on depends on the order of a map.
* `Events`: `observers[o]` is `_observers` of an object, `at` the iterator of its
  `notify()`, `object[d]` the object that a draw instance shows.

## 3. Plan

Done: the modules of section 2. Next, in this order:

1. `apply()` on the heap of `GameInstance`, for replicas whose snapshots share the
   objects of a delta, as soon as code of the client does it.
2. A replica: `TCPSession`'s channel between `ServerTick` and a client that
   applies what it receives. Today `ClientController` applies nothing, and
   `PacketsReplay` reads the packets in the order in which they were encoded.
3. With such a replica, a proof that composes `ClientIsHeard`, `DeltasAreConsecutive`
   and `GamesReplay`: what a client shows is a snapshot the server had.

## 4. Runs

| run | checks | shows |
|---|---|---|
| `deque_fifo` | `TypeOK`, `PopNeverThrows`, `ImplementsFifoChannel`, `PushWakesSleeper` | two producers, one draining consumer, 4 pushes |
| `deque_calls` | `NoLockCycle` | all calls of the class, two consumers, 3 pushes |
| `deque_lost_wakeup` | `ReceivedIsRead` violated | see section 5 |
| `session` | `TypeOK`, `SingleWriter`, `WriteChainAlive`, `ReadChainAlive`, `ClientToServer`, `Delivered`, `CloseDetected` | two packets, with and without a body; either side disconnects, the server refuses, the link is cut, at any moment |
| `client` | `TypeOK`, `HandlersOwned`, `TerminatedIfHeld`, `DisconnectReturns` | up to three calls of `connect()`, with `disconnect()` in between or without |
| `client_again` | `ConnectionServed` violated | see section 5 |
| `core` | `TypeOK`, `RoundTrip`, `InterpolatedView`, `DeltaOverWire`, `SnapshotOverWire`; `SmallIntsInterpolate`, `IntsApplyClosely`, `FloatsApplyClosely`; `ObserversExist` | every pair of snapshots with two ids, three classes, three values, and their messages; every pair of 7-bit ints, floats of 3 significant bits, five times; three draw instances of two objects |
| `packets` | `PacketDecodes` violated | see section 5 |
| `server_tick` | `ServerTypeOK`, `DeltaChain`, `PacketsReplay`, `ActionsMatchStatuses`, `HistoryImmutable`, `TickFollowsDelta`, `ImplementsFifoChannel` | three ticks and three actions, which end in every way |
| `server` | `TypeOK`, `OpenSessionsKept`, `LoginOnce`, `DeltaStream`, `ClosedSessionsLeave`, `StopReturns` | two clients, a packet waiting, ticks modulo 3; the server is started and stopped at any time |
| `server_dangling` | `ReadersAlive` violated | see section 5 |
| `server_overlap` | `NoModificationInIteration` violated | see section 5 |

Every property of a passing run has a mutant in the modules: a definition with
a plausible mistake, under which the run finds the property violated.

### Bounds

* Deque: the order of two producers and a consumer needs two items; four pushes
  let the consumer fall asleep, be woken and fall asleep again. The proofs have
  no bound.
* Session: a chain of writes has a first, a next and a last packet, so two
  packets, one header-only and one with a body in either order. Only the client
  sends in this run: the code of both directions is the same, and the client's
  has the additional states before the connection is made. The proofs cover both
  directions and any number of packets.
* Client: what goes wrong needs two sessions; with the third, one call of `connect()`
  follows the one that goes wrong.
* Values: ints of 7 bits and floats of 3 stand for 32 and 24: wider by enough for
  every case of rounding (exact, tie, up, down) and for overflow. Six bits are too
  few: there a full apply is never off by more than one gap, which is false of
  7 bits and of 32. The proofs hold for all widths.
* Snapshots: an id may be absent, unchanged, changed, added or deleted
  independently of another; two values distinguish an object from its reverse.
  Two of the three classes have the same names, which an id may change between
  without an exception; one has a single name. The proof has no bound.
* Bytes: 7-bit ints in bytes of one bit are numbers of several bytes with a sign,
  like 32 in 8, and the proof has no bound. Whether bytes are UTF-8 is only asked of whole bytes: `packets` has
  ints of 16 bits in bytes of 8. In `server_tick` no byte is greater than 127.
* Draw instances: of three with one object the first, the middle or the last may
  go; the second object is there to be changed while the first notifies.
* Tick: three ticks are one that is abandoned between two that finish; three
  actions one before, one during, and one that fails.
* Server: two sessions are one that ends and one that must not notice; ticks
  modulo 3 tell a skipped delta from a repeated one. A waiting packet may be a
  second CONNECTION packet of a client that is logged in, or that of a client
  that left. Two waiting packets add states, but `update` handles one at a time.

`CHECK_DEADLOCK FALSE` is said where the model stops for good: a game at its
last tick, a connection that is closed, producers that have pushed everything.

### Fairness

* Deque: threads are scheduled (weak fairness of the steps of a call that has
  started) and the game loop calls `update` again. Producers need not start a
  push; the condition variable need not wake anybody without a notification.
* Session: each io_context runs what is ready, the connection attempt ends, and
  the systems transmit and deliver as long as the link is up. Nothing is assumed
  of a link that was cut, which neither side may ever notice.
* Client: calls return, the context thread is scheduled. The application need
  not connect or disconnect.
* Server: the game loop alternates `update` and `update_tick`, hence strong
  fairness of the two, which disable each other while they run; the context
  thread finishes the accept handler, `run()` of a stopped context returns, and
  `join()` returns when it has. Nobody need start or stop the server.

## 5. Where the code does not do what it says

Runs that TLC must find violated:

* **Lost wake-up** (`deque_lost_wakeup`). `wait()` tests `empty()` under `_mutex`
  and sleeps under `_mutex_blocking`; a push in between notifies nobody
  (`tsdeque.hpp:109-115`), although `server.hpp:150` says that `update` reads all
  received packets. `PushWakesSleeper` is the part that does hold.
* **Second connection** (`client_again`). `disconnect()` stops the context, and
  nothing restarts it: the next `connect()` returns true and no handler ever runs
  (`client.hpp:32, 47`).
* **List of sessions without a lock** (`server_overlap`). The accept handler
  pushes to `_sessions` while the game thread iterates over it
  (`server.hpp:81, 132`). The other runs of `Server` set `Overlap` to FALSE: they
  are about executions without this data race, whose outcome no model can give.
* **Sessions that are deleted too early** (`server_dangling`). Handlers hold a raw
  `this`. A write that fails closes the socket, and the read that it aborts stays
  in the context; before its handler runs, a broadcast finds the socket closed and
  resets the last shared_ptr (`server.hpp:136-138`). The handler then runs on memory
  that is freed; had the read just succeeded, it asks that memory for a shared_ptr
  (`session.hpp:331-335`). `OpenSessionsKept` is the part that does hold: as long as
  its socket is open, a session is listed.
* **Packets that cannot be read** (`packets`). A value is serialized as the bytes
  of a number and put into a `map<string, string>` (`types.hpp:166`,
  `object_serialization.proto:17`). proto3 demands UTF-8 of a string: `ParseFromArray`
  fails at -1, at 128, and at most floats, and `_decode_packet` does not look at its
  result (`server_controller.hpp:96`), although it says that it decodes the packet
  (line 83). `bytes` would be the right type. `DeltaOverWire` and the theorem
  `DeltasTravel` are about the message, which holds as long as nobody parses it;
  `PacketsReplay` has values whose bytes are UTF-8.

Others, met while modelling and not checked by a run of their own:

* `disconnect()` posts the close of the socket and stops the context right after;
  then `_session.release()` forgets the session without deleting it
  (`client.hpp:43-52`), although the line before says that it is destroyed. Whether
  the close runs is a race; nothing else closes the socket.
* `message_client` resets its pointer before it searches for what equals it, and so
  removes null pointers instead of the session (`server.hpp:111`; the comment on
  line 100 says otherwise). The next broadcast removes it, which
  `ClosedSessionsLeave` shows.
* The branch "if there is a session and it is logged" is also taken without one, for
  a packet before the login, and dereferences `end()` (`server_controller.cpp:69`).
  In `Server` this packet changes nothing, which is one outcome of the undefined read.
* `checksum()` hashes the values, not their names and not the class
  (`game_object.cpp:64-72`): when an object of another class with the same values
  takes over an id, `evaluate()` finds no change, although `game_object.hpp:72-73`
  says that this is what the checksum is for. With other values, `compare()` gives
  value deltas for the names of the old class, or throws when one is missing, and the
  tick is abandoned (`snapshot.cpp:157`). `RoundTrip` is about pairs without such a
  change, `PacketsReplay` about games up to the first.
* What an action changed before it threw stays changed, and goes into the delta, while
  its status says that it failed (`gameinstance.cpp:68-79`; `gameinstance.hpp:63-64`
  says one or the other).
* A `connect()` while a session is held destroys that session with its handlers
  outstanding and then assigns to a thread that is not joined, which terminates the
  program, although `connect()` catches exceptions and returns false
  (`client.hpp:24, 32`). `Client` takes these steps; `HandlersOwned` and
  `TerminatedIfHeld` say that this is the only way to either end. A second `start()`
  of the server terminates likewise (`server.hpp:39`).
* `start()` after `stop()` never serves anybody: the context is not restarted, as in
  `client_again` (`server.hpp:34-62`).
* A client that logs in during the game gets the deltas from then on and no
  snapshot to apply them to (`server_controller.cpp:158`): no code sends a
  FULL_SNAPSHOT.
* `_send_delta_update` puts the update together and encodes only its delta
  (`server_controller.cpp:115-140`), although `server_controller.hpp:59-62` says
  that the actions and their statuses go with it.
* A draw instance observes the object it was made with (`draw_instance.cpp:4`), but
  every tick works on clones, which nobody observes.
* `remove_observer` of an observer that is not there erases `end()`
  (`events.cpp:17-22`). Draw instances never do that, which `ObserversExist` shows.
* The handler of a header tests the number of bytes it read, which is never 0, so
  the branch for a packet without a body is dead (`session.hpp:276-288`). The
  empty body is "read" and the packet arrives all the same.
* The comment in `send_packet` (`session.hpp:128-134`) says that a queue that is not
  empty is being written. After a write error it is not; the socket is closed
  then, which is what `WriteChainAlive` says.
* `PrimitiveValueNoInterp::interp` returns the old value at every time, 1.0
  included (`types.hpp:318`).
* After an abandoned tick the status list describes a snapshot that does not exist
  (`gameinstance.hpp:83`).
* Actions added between `action_list()` and the tick have a result in the update
  but are not in it (`server_controller.cpp:84-90`); `ActionsMatchStatuses` is
  what remains true.
* `_send_delta_update` gives the message ownership of a local variable
  (`server_controller.cpp:121`).

## 6. Properties worth a comment

* `WriteChainAlive` and `ReadChainAlive` are the invariants the handlers rely on
  and no line states: a missing `else` in any handler breaks one of them.
* `Delivered` has three ways out, a closed socket, a cut link and a refusal; in
  behaviours without these the packets must arrive, and the mutant that forgets
  the next write violates it.
* `HistoryImmutable` is about pointers: `GameInstance` keeps objects in a heap so
  that an object shared by mistake would be seen to change.
* `PacketsReplay` folds the packets over the base snapshot, through abandoned
  ticks. It assumes values that apply exactly; `RoundTrip` and `core` say when. It
  is about the messages: every delta is read by the objects that the one before
  left behind, so a class or an id that got lost three ticks ago stops it. It is a
  set of replicas that is folded, and must end as one.
* `DeltaOverWire` says both that a replica can read a delta and when it cannot: for
  exactly the registries that lack a class of an added object.
* `SnapshotOverWire` is about the tick. The copy constructor of `Snapshot` counts it
  up, and `deserialize` returns one by value.
* `ObserversExist` relates raw pointers to the lives of what they point to;
  `remove_if` followed by the erasure of one element keeps it only because an
  observer is in a list once.
* `IntsApplyClosely` has the bound 5/4, and not 3/2, which is what three roundings of
  half a gap add up to, nor 1, which is what one expects. Two of the three roundings
  are of numbers of the uppermost binade only if the third is exact.
* `IntsApplyClosely` bounds the error where `SmallIntsInterpolate` does not apply:
  ints with more bits than a float has are changed even by a delta of zero. Near
  the greatest int the sum in float may be out of range, which both exclude; the
  conversion is undefined and gives the least int on x86-64.
* `DeltaStream` says nothing of a session whose broadcast is still to come, nor of one
  that left; with
  `OpenSessionsKept` it means that a client misses no tick.

## 7. Proofs

| theorem | statement | assumptions |
|---|---|---|
| `ThreadSafeDequeProofs!TypeCorrect` | types | none |
| `LocksInOneOrder` | `NoLockCycle`, for all calls and any threads | none |
| `DequeIsFifo` | the class implements `FifoChannel` | no `push_front`, `pop_back`, `clear` |
| `DrainIsSafe` | `PopNeverThrows` | the same, and a single consumer |
| `TCPSessionProofs!TypeCorrect` | types | none |
| `OneWriteAtATime` | `SingleWriter` | none |
| `NoPacketLeftBehind` | `WriteChainAlive` | none |
| `AlwaysReading` | `ReadChainAlive` | none |
| `ClientIsHeard` | `ClientToServer`: the connection implements `FifoChannel` | none |
| `ServerIsHeard` | so does its other direction | none |
| `CoreProofs!PairTypeCorrect` | types | none |
| `DeltasRoundTrip` | `RoundTrip`, for any ids, classes and values | values apply exactly; checksums tell values apart |
| `DeltasTravel` | `DeltaOverWire`, for any ids, classes, values and registries | the same, and bytes give values and their deltas back |
| `SnapshotsTravel` | `SnapshotOverWire` | bytes give values back |
| `ViewsInterpolate` | `InterpolatedView` | single values interpolate |
| `SmallInts` | `SmallIntsInterpolate`, for all widths | a float has at least two bits less than an int |
| `IntsAreClose` | `IntsApplyClosely` | the same |
| `FloatsAreClose` | `FloatsApplyClosely` | the same |
| `SmallIntSnapshots` | the four properties of snapshots, of objects whose values are small ints | checksums tell values apart |
| `ObserversAreKept` | `ObserversExist`, for any draw instances and objects | no object is the null pointer |
| `GameInstanceProofs!TypeCorrect` | types | none |
| `HistoryNeverChanges` | `HistoryImmutable`, for any actions and physics | none |
| `DeltasAreChained` | `DeltaChain` | none |
| `TicksFollowDeltas` | `TickFollowsDelta` | values apply exactly; checksums tell values apart |
| `ActionsInOrder` | the queue of actions implements `FifoChannel` | none |
| `ServerTicksInstance` | `ServerTick` implements `GameInstance`: the theorems above hold of the server | none |
| `ServerTypeCorrect` | `ServerTypeOK` | none |
| `UpdatesMatch` | `ActionsMatchStatuses`, for any actions and any interleaving with `add_action` | bytes give the values of actions back |
| `GamesReplay` | `PacketsReplay`, for any game and number of ticks | values apply exactly, checksums tell them apart, bytes give them back; packets are UTF-8 |
| `ClientProofs!TypeCorrect` | types | none |
| `HandlersAreOwned` | `HandlersOwned`, for any calls of `connect` and `disconnect` | none |
| `ThreadIsJoined` | `TerminatedIfHeld` | none |
| `ServerProofs!TypeCorrect` | types | none |
| `OpenSessionsAreKept` | `OpenSessionsKept`, for any clients | none |
| `DeltasAreConsecutive` | `DeltaStream`, for any clients and numbers of ticks | none |
| `LoginsAreUnique` | `LoginOnce`, for any clients and packets, `Overlap` included | none |

The arguments:

* Deque: `LockInv` says which thread holds which mutex at which place; a thread
  that asks for `_mutex` is never at a place where it holds `_mutex_blocking`. For
  the refinement, `FifoInv` (`pushed = popped \o queue`) says that nothing is lost
  in between, and `MoveHead` that a pop keeps it. `DrainInv` says that the queue
  stays filled between `empty()` and `pop_front()`, since only the consumer pops.
* Session: `TypeOK`, `SingleWriter` and `WriteChainAlive` are inductive only
  together (`WriterInv`): a completed write pops the front of the queue, which is
  the packet it wrote only by `SingleWriter`, and the next one is started only if
  no other is outstanding. `ReaderInv` adds to `ReadChainAlive` that a client whose
  attempt has not been handled as a success has no open socket.
* Session as a channel: `FifoInv` says where in the list of what was sent every part
  of a connection is. `Path(steps, list, x, y)` (`ListProofs`) is that a list leads
  from place x to place y by certain steps. What was posted and what is queued leads
  from place to place by packets (`PacketSteps`), and what is on the wire by frames
  (`FrameSteps`), where the header of a packet leads to its body and the body to the
  next packet. `DirectionInv` joins them: the received packets are the first of the
  sent ones, the temporary packet is as far as the read that is outstanding
  (`ReadInv`), the wire leads from the place of the reader to that of the writer,
  and up to it unless something broke (`WireInv`), and the queue from there to the
  end (`QueueInv`). A handler moves one of the places by one step. A side that
  closed, or whose read failed, asks nothing of the wire, since it reads no more; a
  loss elsewhere leaves a beginning of what was written. `ChannelStep` reads
  `Send` and `Receive` of `FifoChannel` off it for both directions at once.
* Snapshots: `ApplyUndoesEvaluate` splits the ids into added, changed, unchanged
  and deleted; changed ones use that values apply exactly (`ObjectRoundTrip`),
  unchanged ones that equal checksums mean equal values of objects with the same
  names (`ObjectUnchanged`; of others they mean nothing). Both
  assumptions are idealisations: CRC-32 separates values with high probability,
  and `SmallIntsServe` shows ints whose interpolation is exact.
* Game: `InstanceInv` is `TypeOK` (pointers lead to objects), `TickInv` (the tick in
  progress is one ahead of the current one), `PastInv` (what `base`, `current` and
  the deltas point to was allocated by a finished tick) and `ListInv`. `InstanceStep`
  proves with it `Kept`, that a step leaves the objects of finished ticks alone:
  `PlayAction` and `FinishTick` write through `Store`, which reaches only the
  addresses of `next` (`StoreOwn`), and `BeginTick` makes those of the new tick.
  `HistoryImmutable` is `Kept` read through pointers. For `TickFollowsDelta`,
  `FinishNew` says that `next` shows the world after the physics, and
  `ApplyUndoesEvaluate` (`SnapshotsProofs`) does the rest. The actions are
  `FifoInv` again. The assumptions on a game are those of `InstanceAssumption`:
  an action ends in a world of objects, and physics keeps objects objects.
* Messages: `ObjectTravels` is that an object and its message determine each other
  for the classes of the program; `DeltaTravels` lifts it to added objects, and
  shows for changed values that the reference object has their names. With it
  `DeserializeDelta` gives the delta back, and `ApplyUndoesEvaluate` does the rest.
  `ExactBytes` is the only thing asked of a value on the wire: UTF-8 is asked by the
  packet (section 5).
* Values: `Grid` says that the floats around n are multiples of its gap, from which
  `RoundNearest` follows: no float is nearer to n than `Round(n)`, and none lies
  between them. Small ints then are rounded only in the product with the time, and
  nothing crosses the ends of the interval, which are floats. Of floats, the new
  value is itself near the sum, so that the second rounding adds no more than the
  first (`FloatsApplied`), and the difference of close floats is a float
  (`CloseFloats`). `SumRounded` is the 5/4 of section 6. `IntsTravel` is that the
  bytes give an int back: what `deserialize` has added up after k bytes is the rest
  of a division by 2^(8k) (`Digits`). `SmallIntsServe` takes from these what
  snapshots ask of their values. Powers of two are numbers of subsets to the prover
  (`Subsets`, `PowerSum`).
* Observers: `ObserversExist` is inductive with the types (`DrawsInv`). It gives
  `remove_if` one element to move away, so that one place is left at the end, which
  the erasure takes (`ObserverRemoved`).
* Updates: `ActionsMatchStatuses` is about the end of a tick and must be carried
  through it. `CopyInv` says that the copied actions are the first of those that
  the tick has played or will play (`Upcoming`): before it the beginning of the queue,
  during it the statuses followed by the queue, after it the statuses. An action
  moves from the queue to the statuses without changing its place (`CopyPlay`), and
  what is added comes last (`CopyAdd`).
* Replay: `ReplayInv` says that the packets lead from the message of the base snapshot
  to exactly one replica, which is the current snapshot unless a delta is still to be
  sent; then it is the snapshot that delta was evaluated from (`Unsent`). A tick that
  was abandoned leaves both alone, since the current snapshot is replaced last. The
  two conditions on a game, that packets are UTF-8 and that no tick has changed a
  class (`steady`), are real ones (section 5).
* Client: `WorkOwned` adds to `HandlersOwned` that a context that is not stopped has
  work only of the session the client holds and of those that `connect` destroyed
  (`Owned`), since `disconnect` gives a session up behind a stop that nothing takes
  back, and that a handler runs in the thread, which therefore cannot be joined
  meanwhile. `ThreadOwned` is that between two calls there is no thread without a
  session, so that a thread that `connect` finds comes with a session it found.
* Logins: `LoginOnce` is not inductive. `ConfirmedHaveInfo` adds why a second
  confirmation cannot happen: a confirmed client has an info, which only the end
  of its session takes away, and a session that ended is sent nothing. The list
  `_sessions` does not occur in the argument, so the race on it does not matter.
* Sessions: `SessionInv` is that the list has no session twice and no null pointer but
  those of a broadcast in progress, which lie behind its iterator and which it knows
  of (`ListSound`), that every session whose socket is open is listed, or about to be
  (`OpenListed`), and how far a broadcast is (`StreamSound`): sessions before the
  iterator have the delta of the tick, those it still comes to have the one before,
  those accepted too late have none. What erasing the null pointers keeps, in number, order and place, are
  the lemmas on `Without`. The invariant holds with `Overlap` as well, where each
  access to the list is taken as atomic, which no compiler promises.

The bounds of the models (`MaxPush`, `MaxSend`, `MaxTick`, `MaxAdd`, `MaxInbox`) are
constants of these theorems, which hold for every value of them.

Induction over data is a lemma here (`Induction` of `ListProofs`): a set of naturals
that holds 0, and n + 1 with every n, holds all of them, since its complement would
have a least element. That is how what recursive functions compute (`Without`,
`ParseInt`, `Replay`) is proved.

Only model-checked: liveness (`PushWakesSleeper`, `Delivered`, `CloseDetected`,
`DisconnectReturns`, `ClosedSessionsLeave`, `StopReturns`), which needs fairness and
so ENABLED, which the prover has not. Every invariant and every action property of
the passing runs is a theorem. The properties that runs find violated are false and
stay with TLC.

## 8. Not modelled

* Graphics, window, camera, engine: calls of a library, no state to speak of.
  Players and teams: plain data.
* Errors of accepting, and a server that refuses a connection: no code refuses.
* Memory: deltas and session infos are never freed, and a malformed length is not
  an input of the model.
* The bytes of floats, the text of a status, `ConnectionResponse` (every credential
  is accepted), and a name that a message has and its class has not: both programs
  are built from the same classes.
* `PrimitiveValueNoInterp`, whose `interp` is one assignment (section 5).
* An observer that changes the list it is notified from: undefined, and no class
  does it.
