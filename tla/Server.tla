------------------------------- MODULE Server -------------------------------
(***************************************************************************)
(* net::ServerInterface (include/net/server.hpp) as                        *)
(* server::ServerController and SessionInfo use it                         *)
(* (sources/server/server_controller.cpp, session_info.cpp).               *)
(*                                                                         *)
(* Two threads work on the server.  The context thread accepts connections *)
(* and runs the handlers of the sessions; the game thread starts and stops *)
(* it, and calls update(), which handles the received packets, and         *)
(* update_tick(), which broadcasts the delta of a tick.  Both use          *)
(* _sessions, without a lock.  A session is what TCPSession shows of       *)
(* itself: whether its socket is open, whether it has handlers outstanding *)
(* that point to it, what it was given to send, and what it puts into the  *)
(* input queue.                                                            *)
(***************************************************************************)
EXTENDS Naturals, Sequences, Lists

CONSTANTS
  Session,     \* the connections that clients may make
  Null,        \* a null shared_ptr
  Overlap,     \* whether the context thread may change _sessions while the
               \* game thread iterates over it, which is undefined in C++
  Ticks,       \* number of different ticks (2^32 in the code)
  MaxInbox     \* bound: length of the input queue

ASSUME ServerAssumption ==
  /\ Null \notin Session
  /\ Overlap \in BOOLEAN
  /\ Ticks \in Nat \ {0, 1}
  /\ MaxInbox \in Nat

\* Packet ids clients send (on_message treats all but CONNECTION like ACTION), and
\* the ones the server sends besides deltas.
FromClient == {"CONNECTION", "ACTION"}

FromServer == {"CONNECTION", "CONNECTION_CONFIRMED"}

VARIABLES socket,    \* socket of a session: "none", "open" or "closed"
          accepting, \* the session in the accept handler, or Null
          context,   \* the context thread: "none", between two handlers
                     \* ("idle"), where it is in the accept handler, or
                     \* "ended" but still to be joined
          stopped,   \* whether _context is stopped
          reading,   \* sessions with a read outstanding
          aborted,   \* sessions with a closed socket whose read has ended, with
                     \* other handlers outstanding, which can only close again
          sessions,  \* _sessions
          info,      \* _session_info
          inbox,     \* _input_queue
          mail,      \* packets given to a session, deltas excepted
          seen,      \* history: tick of the last delta given to a session;
                     \* Ticks before the first and after it has left
          tick,      \* tick of the instance
          game,      \* where the game thread is; or "terminated", as is the
                     \* whole program
          at, end,   \* the iteration of message_all_clients
          invalid    \* invalid_session_exits

vars == <<socket, accepting, context, stopped, reading, aborted, sessions, info, inbox,
          mail, seen, tick, game, at, end, invalid>>

contextVars == <<accepting, context, stopped, reading, aborted>>

iteration == <<at, end, invalid>>

Init ==
  /\ socket = [s \in Session |-> "none"]
  /\ accepting = Null
  /\ context = "none"
  /\ stopped = FALSE
  /\ reading = {}
  /\ aborted = {}
  /\ sessions = <<>>
  /\ info = <<>>
  /\ inbox = <<>>
  /\ mail = [s \in Session |-> <<>>]
  /\ seen = [s \in Session |-> Ticks]
  /\ tick = 0
  /\ game = "update"
  /\ at = 1
  /\ end = 0
  /\ invalid = FALSE

IsConnected(s) == socket[s] = "open"

\* The info that is attached to a session, if there is one.
HasInfo(s) == \E k \in DOMAIN info : info[k].session = s

\* on_client_disconnect: SessionInfo::disconnect for the first info of s.
Disconnected(s) ==
  LET first(k) == info[k].session = s /\ \A j \in 1 .. k - 1 : info[j].session # s
  IN  [k \in DOMAIN info |->
         IF first(k) THEN [session |-> Null, logged |-> FALSE] ELSE info[k]]

Listed(s) == \E k \in DOMAIN sessions : sessions[k] = s

\* A shared_ptr to the session is left: in the accept handler, in _sessions,
\* in an info, or with a packet in the input queue.
Alive(s) ==
  \/ accepting = s /\ context = "push"
  \/ Listed(s)
  \/ HasInfo(s)
  \/ \E k \in DOMAIN inbox : inbox[k].remote = s

\* message_client: post the packet; or, for a session that is not connected,
\* reset the pointer and remove what equals it: the null pointers.
MessageClient(s, id) ==
  IF IsConnected(s)
  THEN /\ mail' = [mail EXCEPT ![s] = Append(@, id)]
       /\ UNCHANGED sessions
  ELSE sessions' = Without(sessions, Null) /\ UNCHANGED mail
-----------------------------------------------------------------------------
(***************************************************************************)
(* The context thread.                                                     *)
(***************************************************************************)

\* The game thread is not between two accesses to _sessions.
NotIterating == game # "visit"

Running == game # "terminated"

\* run() takes the next handler, unless the context is stopped.
RunsHandler == context = "idle" /\ ~ stopped /\ Running

\* The head of the accept handler: on_client_connect asks for credentials.
Accept(s) ==
  /\ RunsHandler
  /\ socket[s] = "none"
  /\ socket' = [socket EXCEPT ![s] = "open"]
  /\ mail' = [mail EXCEPT ![s] = Append(@, "CONNECTION")]
  /\ accepting' = s
  /\ context' = "push"
  /\ UNCHANGED <<stopped, reading, aborted, sessions, info, inbox, seen, tick, game,
                 iteration>>

PushSession ==
  /\ Running
  /\ context = "push"
  /\ Overlap \/ NotIterating
  /\ sessions' = Append(sessions, accepting)
  /\ context' = "connect"
  /\ UNCHANGED <<socket, accepting, stopped, reading, aborted, info, inbox, mail, seen, tick,
                 game, iteration>>

\* _sessions.back()->connect_to_client(_client_id_counter++).
ConnectToClient ==
  /\ Running
  /\ context = "connect"
  /\ sessions # <<>>
  /\ reading' = reading \cup
       {s \in {sessions[Len(sessions)]} : s # Null /\ IsConnected(s)}
  /\ accepting' = Null
  /\ context' = "idle"
  /\ UNCHANGED <<socket, stopped, aborted, sessions, info, inbox, mail, seen, tick, game,
                 iteration>>

\* A read ends and the next one is started, which is to fail when the socket
\* was closed meanwhile; add_packet_to_input_queue makes a shared_ptr of this.
\* What a handler does to a session that is gone is undefined: here it ends as
\* one that fails.
ReceivePacket(s, id) ==
  /\ RunsHandler
  /\ s \in reading
  /\ Alive(s)
  /\ Len(inbox) < MaxInbox
  /\ inbox' = Append(inbox, [remote |-> s, id |-> id])
  /\ IF IsConnected(s)
     THEN UNCHANGED <<reading, aborted>>
     ELSE reading' = reading \ {s} /\ aborted' = aborted \cup {s}
  /\ UNCHANGED <<socket, accepting, context, stopped, sessions, info, mail, seen, tick, game,
                 iteration>>

\* A read fails, or a write, which a session with an open socket may have
\* outstanding: close_socket.  The other handlers of the session stay in the
\* context, with a pointer to it: its read when a write failed, the write, and
\* packets that were posted behind it.
CloseSocket(s) ==
  /\ RunsHandler
  /\ socket' = [socket EXCEPT ![s] = "closed"]
  /\ \/ s \in reading /\ reading' = reading \ {s}
     \/ IsConnected(s) /\ UNCHANGED reading
  /\ aborted' \in {aborted, aborted \cup ({s} \ reading')}
  /\ UNCHANGED <<accepting, context, stopped, sessions, info, inbox, mail, seen, tick, game,
                 iteration>>

\* The last of them has run.
HandlersEnd(s) ==
  /\ RunsHandler
  /\ s \in aborted
  /\ aborted' = aborted \ {s}
  /\ UNCHANGED <<socket, accepting, context, stopped, reading, sessions, info, inbox, mail,
                 seen, tick, game, iteration>>

\* _context.run() returns.  It never runs out of work, because the accept
\* handler waits for the next connection whatever happened to the last one.
RunReturns ==
  /\ Running
  /\ context = "idle"
  /\ stopped
  /\ context' = "ended"
  /\ UNCHANGED <<socket, accepting, stopped, reading, aborted, sessions, info, inbox, mail,
                 seen, tick, game, iteration>>
-----------------------------------------------------------------------------
(***************************************************************************)
(* The game thread.                                                        *)
(***************************************************************************)

\* start().  Nothing restarts a context that was stopped.  Assigning to a
\* thread that is to be joined calls std::terminate.
Start ==
  /\ game = "update"
  /\ IF context = "none"
     THEN context' = "idle" /\ UNCHANGED game
     ELSE game' = "terminated" /\ UNCHANGED context
  /\ UNCHANGED <<socket, accepting, stopped, reading, aborted, sessions, info, inbox, mail,
                 seen, tick, iteration>>

\* Mutant of Stop: the context is left to run out of work.
StopNot ==
  /\ game = "update"
  /\ game' = "join"
  /\ UNCHANGED <<socket, contextVars, sessions, info, inbox, mail, seen, tick, iteration>>

\* stop(), up to the join.
Stop ==
  /\ game = "update"
  /\ game' = "join"
  /\ stopped' = TRUE
  /\ UNCHANGED <<socket, accepting, context, reading, aborted, sessions, info, inbox, mail,
                 seen, tick, iteration>>

Join ==
  /\ game = "join"
  /\ context \in {"none", "ended"}
  /\ context' = "none"
  /\ game' = "update"
  /\ UNCHANGED <<socket, accepting, stopped, reading, aborted, sessions, info, inbox, mail,
                 seen, tick, iteration>>

\* Mutant of Login: the TODO of _parse_connection_result, every CONNECTION
\* packet logs the client in.
LoginAgain(s, id) ==
  /\ id = "CONNECTION"
  /\ MessageClient(s, "CONNECTION_CONFIRMED")
  /\ info' = Append(Disconnected(s), [session |-> s, logged |-> TRUE])

\* _parse_connection_result: log() accepts everybody.  message_client may find
\* the session closed, in which case no info is attached to it yet.
Login(s, id) ==
  /\ ~ HasInfo(s)
  /\ id = "CONNECTION"
  /\ MessageClient(s, "CONNECTION_CONFIRMED")
  /\ info' = Append(info, [session |-> s, logged |-> TRUE])

\* One round of update(): take a packet and give it to on_message.  Any other
\* packet than the first CONNECTION leaves the server as it is (when there is
\* no info, on_message evaluates it->logged() for it == end()).
HandleMessage ==
  /\ game = "update"
  /\ inbox # <<>>
  /\ inbox' = Tail(inbox)
  /\ LET msg == Head(inbox)
     IN  \/ Login(msg.remote, msg.id)
         \/ /\ HasInfo(msg.remote) \/ msg.id # "CONNECTION"
            /\ UNCHANGED <<sessions, info, mail>>
  /\ UNCHANGED <<socket, contextVars, seen, tick, game, iteration>>

\* Mutant of StartBroadcast: the tick does not wrap.
StartBroadcastNoWrap ==
  /\ game = "update"
  /\ tick' = tick + 1
  /\ game' = "visit"
  /\ at' = 1
  /\ end' = Len(sessions)
  /\ invalid' = FALSE
  /\ UNCHANGED <<socket, contextVars, sessions, info, inbox, mail, seen>>

\* update_tick(): the tick of the instance, and the head of message_all_clients.
StartBroadcast ==
  /\ game = "update"
  /\ tick' = (tick + 1) % Ticks
  /\ game' = "visit"
  /\ at' = 1
  /\ end' = Len(sessions)
  /\ invalid' = FALSE
  /\ UNCHANGED <<socket, contextVars, sessions, info, inbox, mail, seen>>

\* Mutant of Visit: the session is erased inside the loop, which goes on with
\* the one after the next.
VisitEraseInLoop ==
  /\ game = "visit"
  /\ at <= end
  /\ at' = at + 1
  /\ LET s == sessions[at]
     IN  IF IsConnected(s)
         THEN /\ seen' = [seen EXCEPT ![s] = tick]
              /\ UNCHANGED <<sessions, info, end, invalid>>
         ELSE /\ info' = Disconnected(s)
              /\ sessions' = Without(sessions, s)
              /\ end' = end - 1
              /\ UNCHANGED <<seen, invalid>>
  /\ UNCHANGED <<socket, contextVars, inbox, mail, tick, game>>

\* Mutant of Visit: a session that is not connected is only skipped.
VisitSkip ==
  /\ game = "visit"
  /\ at <= end
  /\ at' = at + 1
  /\ LET s == sessions[at]
     IN  IF IsConnected(s)
         THEN seen' = [seen EXCEPT ![s] = tick]
         ELSE UNCHANGED seen
  /\ UNCHANGED <<socket, contextVars, sessions, info, inbox, mail, tick, game, end, invalid>>

\* One round of the loop of message_all_clients.
Visit ==
  /\ game = "visit"
  /\ at <= end
  /\ at' = at + 1
  /\ LET s == sessions[at]
     IN  IF IsConnected(s)
         THEN /\ seen' = [seen EXCEPT ![s] = tick]
              /\ UNCHANGED <<sessions, info, invalid>>
         ELSE /\ info' = Disconnected(s)
              /\ sessions' = [sessions EXCEPT ![at] = Null]
              /\ invalid' = TRUE
              /\ seen' = [seen EXCEPT ![s] = Ticks]
  /\ UNCHANGED <<socket, contextVars, inbox, mail, tick, game, end>>

\* Mutant of EndBroadcast: what follows the first null pointer goes too.
EndBroadcastTruncate ==
  /\ game = "visit"
  /\ at > end
  /\ sessions' = IF invalid
                 THEN SubSeq(sessions, 1,
                             (CHOOSE k \in DOMAIN sessions : sessions[k] = Null) - 1)
                 ELSE sessions
  /\ at' = 1
  /\ end' = 0
  /\ invalid' = FALSE
  /\ game' = "update"
  /\ UNCHANGED <<socket, contextVars, info, inbox, mail, seen, tick>>

\* After the loop: erase the null pointers if there are any.
EndBroadcast ==
  /\ game = "visit"
  /\ at > end
  /\ sessions' = IF invalid THEN Without(sessions, Null) ELSE sessions
  /\ at' = 1
  /\ end' = 0
  /\ invalid' = FALSE
  /\ game' = "update"
  /\ UNCHANGED <<socket, contextVars, info, inbox, mail, seen, tick>>
-----------------------------------------------------------------------------
GameThread ==
  \/ Start \/ Stop \/ Join
  \/ HandleMessage \/ StartBroadcast \/ Visit \/ EndBroadcast

Next ==
  \/ \E s \in Session :
       \/ Accept(s)
       \/ HandlersEnd(s)
       \/ CloseSocket(s)
       \/ \E id \in FromClient : ReceivePacket(s, id)
  \/ PushSession
  \/ ConnectToClient
  \/ RunReturns
  \/ GameThread

Spec == Init /\ [][Next]_vars

(***************************************************************************)
(* The threads run, and the game loop alternates update() and              *)
(* update_tick(), so that each of them happens again and again; it need    *)
(* neither start nor stop the server.                                      *)
(***************************************************************************)
FairSpec ==
  /\ Spec
  /\ WF_vars(PushSession) /\ WF_vars(ConnectToClient) /\ WF_vars(RunReturns)
  /\ WF_vars(Join)
  /\ SF_vars(HandleMessage) /\ SF_vars(StartBroadcast)
  /\ WF_vars(Visit) /\ WF_vars(EndBroadcast)
-----------------------------------------------------------------------------
TypeOK ==
  /\ socket \in [Session -> {"none", "open", "closed"}]
  /\ accepting \in Session \cup {Null}
  /\ context \in {"none", "idle", "push", "connect", "ended"}
  /\ stopped \in BOOLEAN
  /\ reading \subseteq Session
  /\ aborted \subseteq Session
  /\ sessions \in Seq(Session \cup {Null})
  /\ info \in Seq([session : Session \cup {Null}, logged : BOOLEAN])
  /\ inbox \in Seq([remote : Session, id : FromClient])
  /\ mail \in [Session -> Seq(FromServer)]
  /\ seen \in [Session -> 0 .. Ticks]
  /\ tick \in 0 .. Ticks - 1
  /\ game \in {"update", "visit", "join", "terminated"}
  /\ at \in Nat /\ end \in Nat
  /\ invalid \in BOOLEAN

(***************************************************************************)
(* Until its socket is closed a session is in the accept handler or in     *)
(* _sessions, once: the context holds only raw pointers to it, so this     *)
(* keeps it alive while its handlers may succeed.                          *)
(***************************************************************************)
OpenSessionsKept ==
  \A s \in Session : IsConnected(s) =>
    \/ accepting = s /\ context = "push"
    \/ \E k \in DOMAIN sessions : sessions[k] = s
                                  /\ \A j \in DOMAIN sessions \ {k} : sessions[j] # s

(***************************************************************************)
(* Every client gets the delta of every tick from its first one until its  *)
(* socket closes, whichever other sessions end in between: message_all_    *)
(* clients neither skips a session nor serves one twice.                   *)
(***************************************************************************)
DeltaStream ==
  [][\A s \in Session :
       seen[s] # Ticks => seen[s]' \in {seen[s], (seen[s] + 1) % Ticks, Ticks}]_vars

(***************************************************************************)
(* A client is confirmed at most once, and at most one info is attached to *)
(* its session (server_controller.cpp:53-67, and the TODO on line 146).    *)
(***************************************************************************)
LoginOnce ==
  \A s \in Session :
    /\ \A j, k \in DOMAIN mail[s] : mail[s][j] = mail[s][k] => j = k
    /\ \A j, k \in DOMAIN info : info[j].session = s /\ info[k].session = s => j = k

(***************************************************************************)
(* A session whose socket is closed leaves _sessions: a broadcast finds it *)
(* sooner or later, wherever it is in the list, unless a second start()    *)
(* terminates the program.                                                 *)
(***************************************************************************)
ClosedSessionsLeave ==
  \A s \in Session :
    (socket[s] = "closed" /\ Listed(s)) ~> (~ Listed(s) \/ game = "terminated")

(***************************************************************************)
(* stop() returns, wherever the context thread is: a handler that runs     *)
(* ends, and no other one is taken although clients go on sending and an   *)
(* accept is always outstanding (server.hpp:54-62).                        *)
(***************************************************************************)
StopReturns == (game = "join") ~> (game = "update")

(***************************************************************************)
(* session.hpp:192-195, of shared_from_this, which a read handler calls on *)
(* its session: "@return a shared_ptr down-casted to TCPSession".  It      *)
(* fails: after a close the game thread may drop the last shared_ptr while *)
(* the read handler is still to run.                                       *)
(***************************************************************************)
ReadersAlive == RunsHandler => \A s \in reading : Alive(s)

(***************************************************************************)
(* server.hpp:127-129, in message_all_clients: "we don't want to modify    *)
(* AND iterate the queue at the same time".  It fails: the accept handler  *)
(* runs on another thread.                                                 *)
(***************************************************************************)
NoModificationInIteration ==
  [][game = "visit" /\ at <= end => Len(sessions') = Len(sessions)]_vars
=============================================================================
