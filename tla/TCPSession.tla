----------------------------- MODULE TCPSession -----------------------------
(***************************************************************************)
(* The two net::TCPSession objects of one connection                       *)
(* (include/net/session.hpp): the client's, opened by connect_to_server,   *)
(* and the server's, created by an accept and started by                   *)
(* connect_to_client.                                                      *)
(*                                                                         *)
(* Each side has an io_context run by one thread, so the handlers of a     *)
(* side never overlap: a handler is one action.  An asynchronous operation *)
(* is started by a handler, finished by the operating system (Transmit,    *)
(* Deliver, ReadFails, ...) and handed back to the handler that was given  *)
(* with it; anything can happen in between.                                *)
(***************************************************************************)
EXTENDS Naturals, Sequences, FiniteSets

CONSTANTS Client, Server, \* the two sides
          Packets,        \* what is sent; a packet stands for its header
          HeaderOnly,     \* the packets with an empty body
          NoBody,         \* an empty body; also the content of a new packet
          Close,          \* the task disconnect() posts
          MayBreak,       \* whether the application may disconnect, the
                          \* server refuse and the network fail
          MaxSend         \* bound: send_packet calls of each side

Sides == {Client, Server}

ASSUME SessionAssumption ==
  /\ Client # Server
  /\ HeaderOnly \subseteq Packets
  /\ NoBody \notin Packets
  /\ Close \notin Packets
  /\ MayBreak \in BOOLEAN
  /\ MaxSend \in [Sides -> Nat]

VARIABLES link,     \* the TCP connection: "none", "up" or "down" (cut)
          sock,     \* _socket of each side
          connect,  \* the client's async_connect
          tasks,    \* lambdas posted to the context of each side
          outq,     \* _output_queue
          writes,   \* async_write operations not yet handed to a handler
          wire,     \* headers and bodies on their way from a side
          read,     \* the async_read operation of a side
          temp,     \* _temp_packet
          inq,      \* _input_queue, never drained here
          sent      \* history: send_packet calls of a side

vars == <<link, sock, connect, tasks, outq, writes, wire, read, temp, inq, sent>>

Peer(s) == IF s = Client THEN Server ELSE Client

\* "none": no session yet; "refused": opened, but the connection attempt failed.
SockStates == {"none", "connecting", "open", "refused", "closed"}

OpStates == {"pending", "ok", "err"}

Frames == [kind : {"header", "body"}, packet : Packets]

Writes == [kind : {"header", "body"}, packet : Packets, status : OpStates]

NoRead == [kind |-> "none", status |-> "pending"]

Reads == [kind : {"header", "body"}, status : OpStates] \cup {NoRead}

\* A packet as the receiving side assembles it.
Received == [header : Packets \cup {NoBody}, body : Packets \cup {NoBody}]

Whole(p) == [header |-> p, body |-> IF p \in HeaderOnly THEN NoBody ELSE p]

Init ==
  /\ link = "none"
  /\ sock = [s \in Sides |-> IF s = Client THEN "connecting" ELSE "none"]
  /\ connect = "pending"
  /\ tasks = [s \in Sides |-> <<>>]
  /\ outq = [s \in Sides |-> <<>>]
  /\ writes = [s \in Sides |-> <<>>]
  /\ wire = [s \in Sides |-> <<>>]
  /\ read = [s \in Sides |-> NoRead]
  /\ temp = [s \in Sides |-> [header |-> NoBody, body |-> NoBody]]
  /\ inq = [s \in Sides |-> <<>>]
  /\ sent = [s \in Sides |-> <<>>]
-----------------------------------------------------------------------------
(***************************************************************************)
(* Calls of the other threads.                                             *)
(***************************************************************************)

\* is_connected(): the socket is open, whatever became of the connection.
IsConnected(s) == sock[s] \in {"connecting", "open", "refused"}

\* send_packet, which Client::send and the server call if is_connected().
SendPacket(s, p) ==
  /\ Len(sent[s]) < MaxSend[s]
  /\ IsConnected(s)
  /\ tasks' = [tasks EXCEPT ![s] = Append(@, p)]
  /\ sent' = [sent EXCEPT ![s] = Append(@, p)]
  /\ UNCHANGED <<link, sock, connect, outq, writes, wire, read, temp, inq>>

\* The bound on the tasks is a bound of the model: disconnect can be repeated.
Disconnect(s) ==
  /\ MayBreak
  /\ IsConnected(s)
  /\ Close \notin {tasks[s][i] : i \in DOMAIN tasks[s]}
  /\ tasks' = [tasks EXCEPT ![s] = Append(@, Close)]
  /\ UNCHANGED <<link, sock, connect, outq, writes, wire, read, temp, inq, sent>>
-----------------------------------------------------------------------------
(***************************************************************************)
(* Handlers: posted lambdas.                                               *)
(***************************************************************************)

Op(kind) == [kind |-> kind, status |-> "pending"]

WriteOp(kind, p) == [kind |-> kind, packet |-> p, status |-> "pending"]

\* close_socket() on side s.
CloseSocket(s) == sock' = [sock EXCEPT ![s] = "closed"]

\* Mutants of RunSend: the queue is tested after the push; a packet that
\* arrives while another is written starts a write of its own; every posted
\* task is taken for a packet.
RunSendTestLate(s) ==
  /\ tasks[s] # <<>>
  /\ Head(tasks[s]) # Close
  /\ tasks' = [tasks EXCEPT ![s] = Tail(@)]
  /\ outq' = [outq EXCEPT ![s] = Append(@, Head(tasks[s]))]
  /\ UNCHANGED <<link, sock, connect, writes, wire, read, temp, inq, sent>>

RunSendAlwaysWrite(s) ==
  /\ tasks[s] # <<>>
  /\ Head(tasks[s]) # Close
  /\ LET newq == Append(outq[s], Head(tasks[s]))
     IN  /\ outq' = [outq EXCEPT ![s] = newq]
         /\ writes' = [writes EXCEPT ![s] = Append(@, WriteOp("header", Head(newq)))]
  /\ tasks' = [tasks EXCEPT ![s] = Tail(@)]
  /\ UNCHANGED <<link, sock, connect, wire, read, temp, inq, sent>>

RunSendAnyTask(s) ==
  /\ tasks[s] # <<>>
  /\ outq' = [outq EXCEPT ![s] = Append(@, Head(tasks[s]))]
  /\ writes' = IF outq[s] # <<>> THEN writes
               ELSE [writes EXCEPT ![s] = Append(@, WriteOp("header", Head(tasks[s])))]
  /\ tasks' = [tasks EXCEPT ![s] = Tail(@)]
  /\ UNCHANGED <<link, sock, connect, wire, read, temp, inq, sent>>

\* The lambda of send_packet: queue the packet, and write if no other packet
\* is being written.
RunSend(s) ==
  /\ tasks[s] # <<>>
  /\ Head(tasks[s]) # Close
  /\ LET p == Head(tasks[s])
         writing_message == outq[s] # <<>>
     IN  /\ outq' = [outq EXCEPT ![s] = Append(@, p)]
         /\ writes' = IF writing_message THEN writes
                      ELSE [writes EXCEPT ![s] = Append(@, WriteOp("header", p))]
  /\ tasks' = [tasks EXCEPT ![s] = Tail(@)]
  /\ UNCHANGED <<link, sock, connect, wire, read, temp, inq, sent>>

\* The lambda of disconnect.
RunClose(s) ==
  /\ tasks[s] # <<>>
  /\ Head(tasks[s]) = Close
  /\ tasks' = [tasks EXCEPT ![s] = Tail(@)]
  /\ CloseSocket(s)
  /\ UNCHANGED <<link, connect, outq, writes, wire, read, temp, inq, sent>>
-----------------------------------------------------------------------------
(***************************************************************************)
(* Handlers: completed writes.  With one write at a time, Head(writes[s])  *)
(* is the operation that completed.                                        *)
(***************************************************************************)

\* The header of a packet with a body is written: write_body.
WroteHeader(s) ==
  /\ writes[s] # <<>>
  /\ Head(writes[s]).kind = "header"
  /\ Head(writes[s]).status = "ok"
  /\ Head(outq[s]) \notin HeaderOnly
  /\ writes' = [writes EXCEPT ![s] = Append(Tail(@), WriteOp("body", Head(outq[s])))]
  /\ UNCHANGED <<link, sock, connect, tasks, outq, wire, read, temp, inq, sent>>

\* Mutant of WroteLast: the next packet is not started.
WroteLastStop(s) ==
  /\ writes[s] # <<>>
  /\ Head(writes[s]).status = "ok"
  /\ Head(writes[s]).kind = "body" \/ Head(outq[s]) \in HeaderOnly
  /\ outq' = [outq EXCEPT ![s] = Tail(@)]
  /\ writes' = [writes EXCEPT ![s] = Tail(@)]
  /\ UNCHANGED <<link, sock, connect, tasks, wire, read, temp, inq, sent>>

\* All of the front packet is written: pop it and go on with the next.
WroteLast(s) ==
  /\ writes[s] # <<>>
  /\ Head(writes[s]).status = "ok"
  /\ Head(writes[s]).kind = "body" \/ Head(outq[s]) \in HeaderOnly
  /\ LET newq == Tail(outq[s])
         next == IF newq = <<>> THEN <<>> ELSE <<WriteOp("header", Head(newq))>>
     IN  /\ outq' = [outq EXCEPT ![s] = newq]
         /\ writes' = [writes EXCEPT ![s] = Tail(@) \o next]
  /\ UNCHANGED <<link, sock, connect, tasks, wire, read, temp, inq, sent>>

\* A write failed: the socket is closed, the packet stays in the queue.
WriteError(s) ==
  /\ writes[s] # <<>>
  /\ Head(writes[s]).status = "err"
  /\ writes' = [writes EXCEPT ![s] = Tail(@)]
  /\ CloseSocket(s)
  /\ UNCHANGED <<link, connect, tasks, outq, wire, read, temp, inq, sent>>
-----------------------------------------------------------------------------
(***************************************************************************)
(* Handlers: connection and completed reads.                               *)
(***************************************************************************)

\* The handler of async_connect; an error is ignored and leaves the socket.
Connected ==
  /\ connect \in {"ok", "err"}
  /\ connect' = "none"
  /\ read' = IF connect = "ok" THEN [read EXCEPT ![Client] = Op("header")] ELSE read
  /\ UNCHANGED <<link, sock, tasks, outq, writes, wire, temp, inq, sent>>

\* The accept handler: the server's session is made and connect_to_client
\* starts to read (include/net/server.hpp:69-97).
Accept ==
  /\ sock[Server] = "none"
  /\ link # "none"
  /\ sock' = [sock EXCEPT ![Server] = "open"]
  /\ read' = [read EXCEPT ![Server] = Op("header")]
  /\ UNCHANGED <<link, connect, tasks, outq, writes, wire, temp, inq, sent>>

ReadDone(s, kind) == read[s] = [kind |-> kind, status |-> "ok"]

\* Mutant of GotHeader: the body of the last packet is kept.
GotHeaderNoResize(s) ==
  /\ ReadDone(s, "header")
  /\ read' = [read EXCEPT ![s] =
                [kind |-> "body",
                 status |-> IF temp[s].header \in HeaderOnly THEN "ok" ELSE "pending"]]
  /\ UNCHANGED <<link, sock, connect, tasks, outq, writes, wire, temp, inq, sent>>

\* Resize the body and read it.  length is the size of the header just read,
\* never 0, so the branch for a packet without a body is not taken: its empty
\* body is "read", which asio completes at once, even on a closed socket.
GotHeader(s) ==
  /\ ReadDone(s, "header")
  /\ temp' = [temp EXCEPT ![s].body = NoBody]
  /\ read' = [read EXCEPT ![s] =
                [kind |-> "body",
                 status |-> IF temp[s].header \in HeaderOnly THEN "ok" ELSE "pending"]]
  /\ UNCHANGED <<link, sock, connect, tasks, outq, writes, wire, inq, sent>>

\* Mutant of GotBody: the next read is not started.
GotBodyStop(s) ==
  /\ ReadDone(s, "body")
  /\ inq' = [inq EXCEPT ![s] = Append(@, temp[s])]
  /\ read' = [read EXCEPT ![s] = NoRead]
  /\ UNCHANGED <<link, sock, connect, tasks, outq, writes, wire, temp, sent>>

\* add_packet_to_input_queue, then read_header.
GotBody(s) ==
  /\ ReadDone(s, "body")
  /\ inq' = [inq EXCEPT ![s] = Append(@, temp[s])]
  /\ read' = [read EXCEPT ![s] = Op("header")]
  /\ UNCHANGED <<link, sock, connect, tasks, outq, writes, wire, temp, sent>>

\* Mutant of ReadError: the error is only logged.
ReadErrorIgnored(s) ==
  /\ read[s].status = "err"
  /\ read' = [read EXCEPT ![s] = NoRead]
  /\ UNCHANGED <<link, sock, connect, tasks, outq, writes, wire, temp, inq, sent>>

ReadError(s) ==
  /\ read[s].status = "err"
  /\ read' = [read EXCEPT ![s] = NoRead]
  /\ CloseSocket(s)
  /\ UNCHANGED <<link, connect, tasks, outq, writes, wire, temp, inq, sent>>
-----------------------------------------------------------------------------
(***************************************************************************)
(* The operating systems and the network.                                  *)
(***************************************************************************)

\* The connection attempt ends.  One that was aborted by a close fails.
Establish ==
  /\ connect = "pending"
  /\ sock[Client] = "connecting"
  /\ connect' = "ok"
  /\ link' = "up"
  /\ sock' = [sock EXCEPT ![Client] = "open"]
  /\ UNCHANGED <<tasks, outq, writes, wire, read, temp, inq, sent>>

Refuse ==
  /\ connect = "pending"
  /\ MayBreak
  /\ connect' = "err"
  /\ sock' = [sock EXCEPT ![Client] = IF @ = "connecting" THEN "refused" ELSE @]
  /\ UNCHANGED <<link, tasks, outq, writes, wire, read, temp, inq, sent>>

\* The connection breaks and takes with it some of what is on the way.
Cut ==
  /\ MayBreak
  /\ link = "up"
  /\ link' = "down"
  /\ UNCHANGED <<sock, connect, tasks, outq, writes, wire, read, temp, inq, sent>>

Broken == link = "down" \/ \E s \in Sides : sock[s] = "closed"

\* A reset, or the loss of the link, discards the end of what s has sent; what
\* s sends later never arrives.
Lose(s) ==
  /\ Broken
  /\ \E n \in 0 .. Len(wire[s]) - 1 :
       wire' = [wire EXCEPT ![s] = SubSeq(@, 1, n)]
  /\ UNCHANGED <<link, sock, connect, tasks, outq, writes, read, temp, inq, sent>>

\* The first write that is not finished is handed to the kernel, which does not
\* know that the link is cut.
Transmit(s) ==
  /\ sock[s] = "open"
  /\ writes[s] # <<>>
  /\ Head(writes[s]).status = "pending"
  /\ wire' = IF link = "down" THEN wire
             ELSE [wire EXCEPT ![s] = Append(@, [kind   |-> Head(writes[s]).kind,
                                                 packet |-> Head(writes[s]).packet])]
  /\ writes' = [writes EXCEPT ![s][1].status = "ok"]
  /\ UNCHANGED <<link, sock, connect, tasks, outq, read, temp, inq, sent>>

WriteFails(s) ==
  /\ writes[s] # <<>>
  /\ Head(writes[s]).status = "pending"
  /\ Broken \/ sock[s] = "refused"
  /\ writes' = [writes EXCEPT ![s][1].status = "err"]
  /\ UNCHANGED <<link, sock, connect, tasks, outq, wire, read, temp, inq, sent>>

\* Bytes arrive in the buffer of the pending read.
Deliver(s) ==
  LET from == wire[Peer(s)]
  IN  /\ sock[s] = "open"
      /\ read[s].kind # "none"
      /\ read[s].status = "pending"
      /\ from # <<>>
      /\ wire' = [wire EXCEPT ![Peer(s)] = Tail(@)]
      /\ temp' = IF read[s].kind = "header"
                 THEN [temp EXCEPT ![s].header = Head(from).packet]
                 ELSE [temp EXCEPT ![s].body =
                         IF Head(from).kind = "body" THEN Head(from).packet ELSE NoBody]
      /\ read' = [read EXCEPT ![s].status = "ok"]
      /\ UNCHANGED <<link, sock, connect, tasks, outq, writes, inq, sent>>

\* The socket is closed here, or all that arrived before the peer closed has
\* been read, or the link is cut.
ReadFails(s) ==
  /\ read[s].kind # "none"
  /\ read[s].status = "pending"
  /\ \/ sock[s] = "closed"
     \/ sock[Peer(s)] = "closed" /\ wire[Peer(s)] = <<>>
     \/ link = "down"
  /\ read' = [read EXCEPT ![s].status = "err"]
  /\ UNCHANGED <<link, sock, connect, tasks, outq, writes, wire, temp, inq, sent>>
-----------------------------------------------------------------------------
Handler(s) ==
  \/ RunSend(s)   \/ RunClose(s)
  \/ WroteHeader(s) \/ WroteLast(s) \/ WriteError(s)
  \/ GotHeader(s) \/ GotBody(s)   \/ ReadError(s)

Network(s) == Transmit(s) \/ WriteFails(s) \/ Deliver(s) \/ ReadFails(s)

Next ==
  \/ Connected \/ Accept \/ Establish \/ Refuse \/ Cut
  \/ \E s \in Sides :
       \/ \E p \in Packets : SendPacket(s, p)
       \/ Disconnect(s)
       \/ Handler(s)
       \/ Network(s)
       \/ Lose(s)

Spec == Init /\ [][Next]_vars

(***************************************************************************)
(* io_context::run runs every handler that is ready, and the systems       *)
(* finish what they were asked as long as the link is up.  Applications    *)
(* need not send or disconnect, and nothing tells a side that the link was *)
(* cut.                                                                    *)
(***************************************************************************)
FairSpec ==
  /\ Spec
  /\ WF_vars(Establish \/ Refuse) /\ WF_vars(Connected) /\ WF_vars(Accept)
  /\ \A s \in Sides :
       /\ WF_vars(RunSend(s) \/ RunClose(s))
       /\ WF_vars(WroteHeader(s) \/ WroteLast(s) \/ WriteError(s))
       /\ WF_vars(GotHeader(s) \/ GotBody(s) \/ ReadError(s))
       /\ WF_vars(Transmit(s) \/ WriteFails(s))
       /\ WF_vars(Deliver(s))
       /\ WF_vars(link = "up" /\ ReadFails(s))
-----------------------------------------------------------------------------
TypeOK ==
  /\ link \in {"none", "up", "down"}
  /\ sock \in [Sides -> SockStates]
  /\ connect \in OpStates \cup {"none"}
  /\ tasks \in [Sides -> Seq(Packets \cup {Close})]
  /\ outq \in [Sides -> Seq(Packets)]
  /\ writes \in [Sides -> Seq(Writes)]
  /\ wire \in [Sides -> Seq(Frames)]
  /\ read \in [Sides -> Reads]
  /\ temp \in [Sides -> Received]
  /\ inq \in [Sides -> Seq(Received)]
  /\ sent \in [Sides -> Seq(Packets)]

(***************************************************************************)
(* The comment in send_packet (session.hpp:128-134) takes the state of the *)
(* output queue for the state of the writing process.  What makes it work: *)
(* at most one async_write is outstanding on a socket, it writes the front *)
(* of the queue, and a queue nobody writes belongs to a closed socket.     *)
(***************************************************************************)
SingleWriter ==
  \A s \in Sides :
    /\ Len(writes[s]) <= 1
    /\ writes[s] # <<>> => outq[s] # <<>> /\ writes[s][1].packet = Head(outq[s])

WriteChainAlive ==
  \A s \in Sides : outq[s] # <<>> /\ writes[s] = <<>> => sock[s] = "closed"

(***************************************************************************)
(* A session whose connection is made always has a read outstanding until  *)
(* its socket is closed: without one it would notice neither a packet nor  *)
(* the end of the connection.                                              *)
(***************************************************************************)
ReadChainAlive ==
  \A s \in Sides :
    sock[s] = "open" /\ (s = Client => connect = "none") => read[s].kind # "none"

(***************************************************************************)
(* A direction is a FIFO channel from send_packet to the input queue of    *)
(* the peer: packets arrive whole, in order and once, whatever is cut,     *)
(* closed or refused.  Both directions run the same code.                  *)
(***************************************************************************)
SentBy(s) == [i \in DOMAIN sent[s] |-> Whole(sent[s][i])]

ToServer == INSTANCE FifoChannel
              WITH Messages <- {Whole(p) : p \in Packets},
                   sent <- SentBy(Client), received <- inq[Server]

ClientToServer == ToServer!Spec

(***************************************************************************)
(* What a side sends the other side receives, whatever is sent the other   *)
(* way meanwhile, unless the connection is refused, closed or cut: neither *)
(* the chain of writes nor the chain of reads ever stops by itself.        *)
(***************************************************************************)
Delivered ==
  \A s \in Sides :
    Len(inq[Peer(s)]) < Len(sent[s]) ~>
      (Len(inq[Peer(s)]) = Len(sent[s]) \/ Broken \/ sock[Client] = "refused")

(***************************************************************************)
(* When one side closes its socket the other side closes its own, unless   *)
(* the link is cut.                                                        *)
(***************************************************************************)
CloseDetected ==
  \A s \in Sides :
    (sock[s] = "closed" /\ link = "up") ~> (sock[Peer(s)] = "closed" \/ link = "down")

=============================================================================
