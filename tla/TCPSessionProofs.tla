-------------------------- MODULE TCPSessionProofs --------------------------
(***************************************************************************)
(* Proofs about TCPSession: types, the two chains of asynchronous          *)
(* operations of a session, and that each direction of a connection is a   *)
(* FIFO channel, for any packets and any number of sends.                  *)
(***************************************************************************)
EXTENDS TCPSession, ListProofs

(***************************************************************************)
(* Facts about the sequences of a state.                                   *)
(***************************************************************************)
LEMMA HeadTail ==
  ASSUME NEW S, NEW q \in Seq(S), q # <<>>
  PROVE  Head(q) \in S /\ Tail(q) \in Seq(S) /\ Len(q) >= 1 /\ q[1] = Head(q)
OBVIOUS

LEMMA AppendTyped ==
  ASSUME NEW S, NEW q \in Seq(S), NEW x \in S
  PROVE  /\ Append(q, x) \in Seq(S)
         /\ Append(q, x) # <<>>
         /\ q = <<>> => Head(Append(q, x)) = x
         /\ q # <<>> => Head(Append(q, x)) = Head(q)
<1>1. Append(q, x) \in Seq(S) /\ Len(Append(q, x)) = Len(q) + 1 /\ Len(q) \in Nat
  OBVIOUS
<1>2. Append(q, x) # <<>>
  BY <1>1
<1>3. q = <<>> => Head(Append(q, x)) = x
  OBVIOUS
<1>4. q # <<>> => Head(Append(q, x)) = Head(q)
  OBVIOUS
<1> QED
  BY <1>1, <1>2, <1>3, <1>4

LEMMA ToEmpty ==
  ASSUME NEW S, NEW x \in S
  PROVE  Append(<<>>, x) = <<x>> /\ <<>> \o <<x>> = <<x>>
<1>1. Append(<<>>, x) = <<x>>
  OBVIOUS
<1>2. <<>> \o <<x>> = <<x>>
  OBVIOUS
<1> QED
  BY <1>1, <1>2

LEMMA OpsTyped ==
  ASSUME NEW kind \in {"header", "body"}, NEW p \in Packets
  PROVE  WriteOp(kind, p) \in Writes /\ Op(kind) \in Reads /\ Op(kind).kind = kind
BY DEF WriteOp, Op, Writes, Reads, OpStates

LEMMA InitTyped == Init => TypeOK
BY DEF Init, TypeOK, Sides, SockStates, OpStates, Reads, NoRead, Received

LEMMA CallsTyped ==
  ASSUME TypeOK, NEW s \in Sides,
         Disconnect(s) \/ \E p \in Packets : SendPacket(s, p)
  PROVE  TypeOK'
<1>1. ASSUME NEW p \in Packets, SendPacket(s, p)
      PROVE  TypeOK'
  <2>1. Append(tasks[s], p) \in Seq(Packets \cup {Close}) /\ Append(sent[s], p) \in Seq(Packets)
    BY DEF TypeOK
  <2> QED
    BY <1>1, <2>1 DEF TypeOK, SendPacket
<1>2. CASE Disconnect(s)
  <2>1. Append(tasks[s], Close) \in Seq(Packets \cup {Close})
    BY DEF TypeOK
  <2> QED
    BY <1>2, <2>1 DEF TypeOK, Disconnect
<1> QED
  BY <1>1, <1>2

LEMMA PostedTyped ==
  ASSUME TypeOK, NEW s \in Sides, RunSend(s) \/ RunClose(s)
  PROVE  TypeOK'
<1>1. Tail(tasks[s]) \in Seq(Packets \cup {Close})
  BY HeadTail DEF TypeOK, RunSend, RunClose
<1>2. CASE RunSend(s)
  <2>1. Head(tasks[s]) \in Packets
    BY <1>2, HeadTail DEF TypeOK, RunSend
  <2>2. Append(outq[s], Head(tasks[s])) \in Seq(Packets)
    BY <2>1, AppendTyped DEF TypeOK
  <2>3. Append(writes[s], WriteOp("header", Head(tasks[s]))) \in Seq(Writes)
    BY <2>1, OpsTyped, AppendTyped DEF TypeOK
  <2> QED
    BY <1>1, <1>2, <2>2, <2>3 DEF TypeOK, RunSend
<1>3. CASE RunClose(s)
  BY <1>1, <1>3 DEF TypeOK, RunClose, CloseSocket, SockStates
<1> QED
  BY <1>2, <1>3

LEMMA WritesTyped ==
  ASSUME TypeOK, SingleWriter, NEW s \in Sides,
         WroteHeader(s) \/ WroteLast(s) \/ WriteError(s)
  PROVE  TypeOK'
<1>1. /\ Tail(writes[s]) \in Seq(Writes)
      /\ Head(outq[s]) \in Packets
      /\ Tail(outq[s]) \in Seq(Packets)
  BY HeadTail DEF TypeOK, SingleWriter, WroteHeader, WroteLast, WriteError
<1>2. CASE WroteHeader(s)
  <2>1. Append(Tail(writes[s]), WriteOp("body", Head(outq[s]))) \in Seq(Writes)
    BY <1>1, OpsTyped, AppendTyped
  <2> QED
    BY <1>2, <2>1 DEF TypeOK, WroteHeader
<1>3. CASE WroteLast(s)
  <2> DEFINE newq == Tail(outq[s])
             more == IF newq = <<>> THEN <<>> ELSE <<WriteOp("header", Head(newq))>>
  <2>1. more \in Seq(Writes)
    <3>1. CASE newq = <<>>
      BY <3>1
    <3>2. CASE newq # <<>>
      <4>1. WriteOp("header", Head(newq)) \in Writes
        BY <1>1, <3>2, HeadTail, OpsTyped
      <4> QED
        BY <3>2, <4>1
    <3> QED
      BY <3>1, <3>2
  <2>2. Tail(writes[s]) \o more \in Seq(Writes)
    BY <1>1, <2>1
  <2>3. writes' = [writes EXCEPT ![s] = Tail(writes[s]) \o more]
    BY <1>3 DEF WroteLast
  <2> HIDE DEF more
  <2> QED
    BY <1>1, <1>3, <2>2, <2>3 DEF TypeOK, WroteLast
<1>4. CASE WriteError(s)
  BY <1>1, <1>4 DEF TypeOK, WriteError, CloseSocket, SockStates
<1> QED
  BY <1>2, <1>3, <1>4

LEMMA ReadsTyped ==
  ASSUME TypeOK, NEW s \in Sides, GotHeader(s) \/ GotBody(s) \/ ReadError(s)
  PROVE  TypeOK'
<1>1. CASE GotHeader(s)
  <2>1. [temp[s] EXCEPT !.body = NoBody] \in Received
    BY DEF TypeOK, Received
  <2>2. temp' = [temp EXCEPT ![s] = [temp[s] EXCEPT !.body = NoBody]]
    BY <1>1 DEF GotHeader
  <2>3. temp' \in [Sides -> Received]
    BY <2>1, <2>2 DEF TypeOK
  <2>4. read' \in [Sides -> Reads]
    BY <1>1 DEF TypeOK, GotHeader, Reads, OpStates
  <2> QED
    BY <1>1, <2>3, <2>4 DEF TypeOK, GotHeader
<1>2. CASE GotBody(s)
  <2>1. Append(inq[s], temp[s]) \in Seq(Received)
    BY AppendTyped DEF TypeOK
  <2>2. read' \in [Sides -> Reads]
    BY <1>2 DEF TypeOK, GotBody, Op, Reads, OpStates
  <2> QED
    BY <1>2, <2>1, <2>2 DEF TypeOK, GotBody
<1>3. CASE ReadError(s)
  BY <1>3 DEF TypeOK, ReadError, CloseSocket, SockStates, Reads, NoRead
<1> QED
  BY <1>1, <1>2, <1>3

LEMMA ConnectionTyped ==
  ASSUME TypeOK, Connected \/ Accept \/ Establish \/ Refuse \/ Cut
  PROVE  TypeOK'
<1>1. Client \in Sides /\ Server \in Sides /\ Op("header") \in Reads
  BY DEF Sides, Op, Reads, OpStates
<1>2. CASE Connected
  BY <1>1, <1>2 DEF TypeOK, Connected
<1>3. CASE Accept
  BY <1>1, <1>3 DEF TypeOK, Accept, SockStates
<1>4. CASE Establish
  BY <1>1, <1>4 DEF TypeOK, Establish, SockStates, OpStates
<1>5. CASE Refuse
  BY <1>1, <1>5 DEF TypeOK, Refuse, SockStates, OpStates
<1>6. CASE Cut
  BY <1>6 DEF TypeOK, Cut
<1> QED
  BY <1>2, <1>3, <1>4, <1>5, <1>6

\* The first write of a session with another status.
LEMMA FirstWrite ==
  ASSUME TypeOK, NEW s \in Sides, writes[s] # <<>>, NEW st \in OpStates,
         writes' = [writes EXCEPT ![s][1].status = st]
  PROVE  /\ writes' \in [Sides -> Seq(Writes)]
         /\ Len(writes'[s]) = Len(writes[s])
         /\ writes'[s][1].packet = writes[s][1].packet
         /\ writes'[s][1].kind = writes[s][1].kind
         /\ writes'[s][1].status = st
         /\ \A r \in Sides \ {s} : writes'[r] = writes[r]
<1>1. writes[s] \in Seq(Writes) /\ 1 \in DOMAIN writes[s] /\ writes[s][1] \in Writes
  BY HeadTail DEF TypeOK
<1>2. [writes[s][1] EXCEPT !.status = st] \in Writes
  BY <1>1 DEF Writes
<1>3. /\ [writes[s] EXCEPT ![1] = [writes[s][1] EXCEPT !.status = st]] \in Seq(Writes)
      /\ Len([writes[s] EXCEPT ![1] = [writes[s][1] EXCEPT !.status = st]]) = Len(writes[s])
  BY <1>1, <1>2
<1>4. writes' = [writes EXCEPT ![s] =
                   [writes[s] EXCEPT ![1] = [writes[s][1] EXCEPT !.status = st]]]
  OBVIOUS
<1>5. writes'[s] = [writes[s] EXCEPT ![1] = [writes[s][1] EXCEPT !.status = st]]
  BY <1>4 DEF TypeOK
<1>6. /\ writes'[s][1].packet = writes[s][1].packet
      /\ writes'[s][1].kind = writes[s][1].kind
      /\ writes'[s][1].status = st
  BY <1>1, <1>5 DEF Writes
<1> QED
  BY <1>3, <1>4, <1>5, <1>6 DEF TypeOK

LEMMA NetworkTyped ==
  ASSUME TypeOK, NEW s \in Sides, Network(s) \/ Lose(s)
  PROVE  TypeOK'
<1>0. Peer(s) \in Sides
  BY DEF Peer, Sides
<1>1. CASE Transmit(s)
  <2>1. writes[s] # <<>> /\ Head(writes[s]) \in Writes
    BY <1>1, HeadTail DEF TypeOK, Transmit
  <2>2. writes' \in [Sides -> Seq(Writes)]
    BY <1>1, <2>1, FirstWrite DEF Transmit, OpStates
  <2>3. [kind |-> Head(writes[s]).kind, packet |-> Head(writes[s]).packet] \in Frames
    BY <2>1 DEF Writes, Frames
  <2>4. Append(wire[s], [kind   |-> Head(writes[s]).kind,
                         packet |-> Head(writes[s]).packet]) \in Seq(Frames)
    BY <2>3, AppendTyped DEF TypeOK
  <2> QED
    BY <1>1, <2>2, <2>4 DEF TypeOK, Transmit
<1>2. CASE WriteFails(s)
  <2>1. writes' \in [Sides -> Seq(Writes)]
    BY <1>2, FirstWrite DEF WriteFails, OpStates
  <2> QED
    BY <1>2, <2>1 DEF TypeOK, WriteFails
<1>3. CASE Deliver(s)
  <2> DEFINE from == wire[Peer(s)]
  <2>1. Head(from) \in Frames /\ Tail(from) \in Seq(Frames)
    BY <1>0, <1>3, HeadTail DEF TypeOK, Deliver
  <2>2. wire' \in [Sides -> Seq(Frames)]
    BY <1>0, <1>3, <2>1 DEF TypeOK, Deliver
  <2>3. temp' \in [Sides -> Received]
    <3>1. /\ [temp[s] EXCEPT !.header = Head(from).packet] \in Received
          /\ [temp[s] EXCEPT !.body = Head(from).packet] \in Received
          /\ [temp[s] EXCEPT !.body = NoBody] \in Received
      BY <2>1 DEF TypeOK, Received, Frames
    <3>2. \E t \in Received : temp' = [temp EXCEPT ![s] = t]
      <4>1. CASE read[s].kind = "header"
        BY <1>3, <3>1, <4>1 DEF Deliver
      <4>2. CASE read[s].kind # "header" /\ Head(from).kind = "body"
        BY <1>3, <3>1, <4>2 DEF Deliver
      <4>3. CASE read[s].kind # "header" /\ Head(from).kind # "body"
        BY <1>3, <3>1, <4>3 DEF Deliver
      <4> QED
        BY <4>1, <4>2, <4>3
    <3> QED
      BY <3>2 DEF TypeOK
  <2>4. read' \in [Sides -> Reads]
    BY <1>3 DEF TypeOK, Deliver, Reads, NoRead, OpStates
  <2> QED
    BY <1>3, <2>2, <2>3, <2>4 DEF TypeOK, Deliver
<1>4. CASE ReadFails(s)
  <2>1. read[s] \in [kind : {"header", "body"}, status : OpStates]
    BY <1>4 DEF TypeOK, ReadFails, Reads, NoRead
  <2>2. [read[s] EXCEPT !.status = "err"] \in [kind : {"header", "body"}, status : OpStates]
    BY <2>1 DEF OpStates
  <2>3. read' = [read EXCEPT ![s] = [read[s] EXCEPT !.status = "err"]]
    BY <1>4 DEF ReadFails
  <2>4. read' \in [Sides -> Reads]
    BY <2>2, <2>3 DEF TypeOK, Reads
  <2> QED
    BY <1>4, <2>4 DEF TypeOK, ReadFails
<1>5. CASE Lose(s)
  <2>1. PICK n \in 0 .. Len(wire[s]) - 1 : wire' = [wire EXCEPT ![s] = SubSeq(wire[s], 1, n)]
    BY <1>5 DEF Lose
  <2>2. SubSeq(wire[s], 1, n) \in Seq(Frames)
    BY DEF TypeOK
  <2> QED
    BY <1>5, <2>1, <2>2 DEF TypeOK, Lose
<1> QED
  BY <1>1, <1>2, <1>3, <1>4, <1>5 DEF Network
-----------------------------------------------------------------------------
(***************************************************************************)
(* The inductive invariant.  What may be written is decided by the queue   *)
(* (WriteChainAlive), so it must be known that nobody else writes          *)
(* (SingleWriter).                                                         *)
(***************************************************************************)
WriterInv == TypeOK /\ SingleWriter /\ WriteChainAlive

\* Both invariants of the chain of writes, for one side.
WriterOK(s) ==
  /\ Len(writes[s]) <= 1
  /\ writes[s] # <<>> => outq[s] # <<>> /\ writes[s][1].packet = Head(outq[s])
  /\ outq[s] # <<>> /\ writes[s] = <<>> => sock[s] = "closed"

\* A step that neither touches the writes of a side nor reopens its socket.
LEMMA WriterUntouched ==
  ASSUME NEW r \in Sides, WriterOK(r), outq'[r] = outq[r], writes'[r] = writes[r],
         sock[r] = "closed" => sock'[r] = "closed"
  PROVE  WriterOK(r)'
BY DEF WriterOK

LEMMA RunSendWriter ==
  ASSUME TypeOK, NEW s \in Sides, WriterOK(s), RunSend(s)
  PROVE  WriterOK(s)'
<1> DEFINE p == Head(tasks[s])
<1>1. p \in Packets /\ outq[s] \in Seq(Packets) /\ writes[s] \in Seq(Writes)
  BY HeadTail DEF TypeOK, RunSend
<1>2. outq'[s] = Append(outq[s], p) /\ sock' = sock
  BY DEF TypeOK, RunSend
<1>3. CASE outq[s] = <<>>
  <2>1. writes[s] = <<>>
    BY <1>3 DEF WriterOK
  <2>2. writes'[s] = Append(writes[s], WriteOp("header", p))
    BY <1>3 DEF TypeOK, RunSend
  <2>3. writes'[s] = <<WriteOp("header", p)>>
    BY <2>1, <2>2
  <2>4. Len(writes'[s]) = 1 /\ writes'[s][1].packet = p /\ writes'[s] # <<>>
    BY <2>3 DEF WriteOp
  <2> QED
    BY <1>1, <1>2, <1>3, <2>4, AppendTyped DEF WriterOK
<1>4. CASE outq[s] # <<>>
  <2>1. writes'[s] = writes[s]
    BY <1>4 DEF TypeOK, RunSend
  <2> QED
    BY <1>1, <1>2, <1>4, <2>1, AppendTyped DEF WriterOK
<1> QED
  BY <1>3, <1>4

\* The write that follows a completed one, if any, is the only one.
LEMMA WroteMakes ==
  ASSUME TypeOK, NEW s \in Sides, WriterOK(s),
         WroteHeader(s) \/ WroteLast(s) \/ WriteError(s)
  PROVE  /\ writes[s] # <<>> /\ outq[s] \in Seq(Packets) /\ outq[s] # <<>>
         /\ WroteHeader(s) => /\ writes'[s] = <<WriteOp("body", Head(outq[s]))>>
                              /\ outq' = outq
         /\ WroteLast(s) =>
              /\ outq'[s] = Tail(outq[s])
              /\ Tail(outq[s]) = <<>> => writes'[s] = <<>>
              /\ Tail(outq[s]) # <<>> =>
                   writes'[s] = <<WriteOp("header", Head(Tail(outq[s])))>>
         /\ WriteError(s) => writes'[s] = <<>> /\ outq' = outq /\ sock'[s] = "closed"
<1>1. /\ writes[s] \in Seq(Writes) /\ writes[s] # <<>> /\ Len(writes[s]) <= 1
      /\ outq[s] \in Seq(Packets) /\ outq[s] # <<>>
  BY DEF TypeOK, WriterOK, WroteHeader, WroteLast, WriteError
<1>2. Tail(writes[s]) = <<>>
  BY <1>1
<1>3. CASE WroteHeader(s)
  <2>1. WriteOp("body", Head(outq[s])) \in Writes
    BY <1>1, HeadTail, OpsTyped
  <2>2. writes'[s] = Append(Tail(writes[s]), WriteOp("body", Head(outq[s])))
    BY <1>3 DEF TypeOK, WroteHeader
  <2>3. outq' = outq
    BY <1>3 DEF WroteHeader
  <2>4. writes'[s] = <<WriteOp("body", Head(outq[s]))>>
    BY <1>2, <2>1, <2>2, ToEmpty
  <2> QED
    BY <1>1, <1>3, <2>3, <2>4 DEF WroteHeader, WroteLast, WriteError
<1>4. WroteLast(s) =>
        /\ outq'[s] = Tail(outq[s])
        /\ Tail(outq[s]) = <<>> => writes'[s] = <<>>
        /\ Tail(outq[s]) # <<>> => writes'[s] = <<WriteOp("header", Head(Tail(outq[s])))>>
  <2> SUFFICES ASSUME WroteLast(s)
               PROVE  /\ outq'[s] = Tail(outq[s])
                      /\ Tail(outq[s]) = <<>> => writes'[s] = <<>>
                      /\ Tail(outq[s]) # <<>> =>
                           writes'[s] = <<WriteOp("header", Head(Tail(outq[s])))>>
    OBVIOUS
  <2> DEFINE newq == Tail(outq[s])
  <2>1. outq'[s] = newq
    BY DEF TypeOK, WroteLast
  <2>2. ASSUME newq = <<>>
        PROVE  writes'[s] = <<>>
    BY <1>2, <2>2 DEF TypeOK, WroteLast
  <2>3. ASSUME newq # <<>>
        PROVE  writes'[s] = <<WriteOp("header", Head(newq))>>
    <3>1. WriteOp("header", Head(newq)) \in Writes
      BY <1>1, <2>3, HeadTail, OpsTyped
    <3>2. writes'[s] = Tail(writes[s]) \o <<WriteOp("header", Head(newq))>>
      BY <2>3 DEF TypeOK, WroteLast
    <3> QED
      BY <1>2, <3>1, <3>2, ToEmpty
  <2> QED
    BY <2>1, <2>2, <2>3
<1>5. WriteError(s) => writes'[s] = <<>> /\ outq' = outq /\ sock'[s] = "closed"
  BY <1>2 DEF TypeOK, WriteError, CloseSocket
<1>6. CASE WroteLast(s) \/ WriteError(s)
  BY <1>1, <1>4, <1>5, <1>6 DEF WroteHeader, WroteLast, WriteError
<1> QED
  BY <1>3, <1>6

LEMMA WroteWriter ==
  ASSUME TypeOK, NEW s \in Sides, WriterOK(s),
         WroteHeader(s) \/ WroteLast(s) \/ WriteError(s)
  PROVE  WriterOK(s)'
<1>1. CASE WroteHeader(s)
  <2>1. writes'[s] = <<WriteOp("body", Head(outq[s]))>> /\ outq' = outq /\ outq[s] # <<>>
    BY <1>1, WroteMakes
  <2> QED
    BY <2>1 DEF WriterOK, WriteOp
<1>2. CASE WroteLast(s)
  <2> DEFINE newq == Tail(outq[s])
  <2>1. /\ outq'[s] = newq
        /\ newq = <<>> => writes'[s] = <<>>
        /\ newq # <<>> => writes'[s] = <<WriteOp("header", Head(newq))>>
    BY <1>2, WroteMakes
  <2>2. CASE newq = <<>>
    BY <2>1, <2>2 DEF WriterOK
  <2>3. CASE newq # <<>>
    <3>1. writes'[s] = <<WriteOp("header", Head(newq))>> /\ outq'[s] = newq
      BY <2>1, <2>3
    <3> QED
      BY <2>3, <3>1 DEF WriterOK, WriteOp
  <2> QED
    BY <2>2, <2>3
<1>3. CASE WriteError(s)
  <2>1. writes'[s] = <<>> /\ outq' = outq /\ sock'[s] = "closed"
    BY <1>3, WroteMakes
  <2> QED
    BY <2>1 DEF WriterOK
<1> QED
  BY <1>1, <1>2, <1>3

LEMMA NetworkWriter ==
  ASSUME TypeOK, NEW s \in Sides, WriterOK(s), Transmit(s) \/ WriteFails(s)
  PROVE  WriterOK(s)'
<1>1. writes[s] # <<>> /\ writes[s] \in Seq(Writes) /\ outq' = outq /\ sock' = sock
  BY DEF TypeOK, Transmit, WriteFails
<1>2. \E st \in OpStates : writes' = [writes EXCEPT ![s][1].status = st]
  BY DEF Transmit, WriteFails, OpStates
<1>3. /\ Len(writes'[s]) = Len(writes[s])
      /\ writes'[s][1].packet = writes[s][1].packet
      /\ writes'[s] \in Seq(Writes)
  BY <1>1, <1>2, FirstWrite
<1>4. writes'[s] # <<>>
  BY <1>1, <1>3
<1> QED
  BY <1>1, <1>3, <1>4 DEF WriterOK

\* A step of one side leaves the writes of the other side alone.
LEMMA OtherWriter ==
  ASSUME TypeOK, NEW s \in Sides, NEW r \in Sides \ {s}, WriterOK(r),
         Handler(s) \/ Transmit(s) \/ WriteFails(s)
  PROVE  WriterOK(r)'
<1>1. outq'[r] = outq[r]
  BY DEF TypeOK, Handler, RunSend, RunClose, WroteHeader, WroteLast, WriteError,
         GotHeader, GotBody, ReadError, Transmit, WriteFails
<1>2. writes'[r] = writes[r]
  BY DEF TypeOK, Handler, RunSend, RunClose, WroteHeader, WroteLast, WriteError,
         GotHeader, GotBody, ReadError, Transmit, WriteFails
<1>3. sock'[r] = sock[r]
  BY DEF TypeOK, Handler, RunSend, RunClose, WroteHeader, WroteLast, WriteError,
         GotHeader, GotBody, ReadError, Transmit, WriteFails, CloseSocket
<1> QED
  BY <1>1, <1>2, <1>3, WriterUntouched

LEMMA WriterInvParts ==
  WriterInv <=> TypeOK /\ \A s \in Sides : WriterOK(s)
BY DEF WriterInv, SingleWriter, WriteChainAlive, WriterOK

LEMMA WriterStep == WriterInv /\ [Next]_vars => WriterInv'
<1> SUFFICES ASSUME WriterInv, [Next]_vars
             PROVE  TypeOK' /\ \A r \in Sides : WriterOK(r)'
  BY WriterInvParts DEF WriterInv, SingleWriter, WriteChainAlive, WriterOK
<1> USE WriterInvParts
<1>0. TypeOK /\ SingleWriter
  BY DEF WriterInv
<1>1. CASE Connected \/ Accept \/ Establish \/ Refuse \/ Cut
  <2>1. TypeOK'
    BY <1>0, <1>1, ConnectionTyped
  <2>2. ASSUME NEW r \in Sides
        PROVE  WriterOK(r)'
    <3>1. outq' = outq /\ writes' = writes
      BY <1>1 DEF Connected, Accept, Establish, Refuse, Cut
    <3>2. sock[r] = "closed" => sock'[r] = "closed"
      BY <1>0, <1>1 DEF Connected, Accept, Establish, Refuse, Cut, TypeOK
    <3> QED
      BY <3>1, <3>2, WriterUntouched
  <2> QED
    BY <2>1, <2>2
<1>2. ASSUME NEW s \in Sides, (\E p \in Packets : SendPacket(s, p)) \/ Disconnect(s)
      PROVE  TypeOK' /\ \A r \in Sides : WriterOK(r)'
  <2>1. TypeOK'
    BY <1>0, <1>2, CallsTyped
  <2>2. outq' = outq /\ writes' = writes /\ sock' = sock
    BY <1>2 DEF SendPacket, Disconnect
  <2> QED
    BY <2>1, <2>2, WriterUntouched
<1>3. ASSUME NEW s \in Sides, Handler(s)
      PROVE  TypeOK' /\ \A r \in Sides : WriterOK(r)'
  <2>1. TypeOK'
    BY <1>0, <1>3, PostedTyped, WritesTyped, ReadsTyped DEF Handler
  <2>2. WriterOK(s)'
    <3>1. CASE RunSend(s) \/ WroteHeader(s) \/ WroteLast(s) \/ WriteError(s)
      BY <1>0, <3>1, RunSendWriter, WroteWriter
    <3>2. CASE RunClose(s) \/ GotHeader(s) \/ GotBody(s) \/ ReadError(s)
      <4>1. outq' = outq /\ writes' = writes
        BY <3>2 DEF RunClose, GotHeader, GotBody, ReadError
      <4>2. sock[s] = "closed" => sock'[s] = "closed"
        BY <1>0, <3>2 DEF RunClose, GotHeader, GotBody, ReadError, CloseSocket, TypeOK
      <4> QED
        BY <4>1, <4>2, WriterUntouched
    <3> QED
      BY <1>3, <3>1, <3>2 DEF Handler
  <2>3. \A r \in Sides \ {s} : WriterOK(r)'
    BY <1>0, <1>3, OtherWriter
  <2> QED
    BY <2>1, <2>2, <2>3
<1>4. ASSUME NEW s \in Sides, Network(s) \/ Lose(s)
      PROVE  TypeOK' /\ \A r \in Sides : WriterOK(r)'
  <2>1. TypeOK'
    BY <1>0, <1>4, NetworkTyped
  <2>2. CASE Transmit(s) \/ WriteFails(s)
    BY <1>0, <2>1, <2>2, NetworkWriter, OtherWriter
  <2>3. CASE Deliver(s) \/ ReadFails(s) \/ Lose(s)
    <3>1. outq' = outq /\ writes' = writes /\ sock' = sock
      BY <2>3 DEF Deliver, ReadFails, Lose
    <3> QED
      BY <2>1, <3>1, WriterUntouched
  <2> QED
    BY <1>4, <2>2, <2>3 DEF Network
<1>5. CASE UNCHANGED vars
  <2>1. TypeOK'
    BY <1>0, <1>5 DEF TypeOK, vars
  <2>2. outq' = outq /\ writes' = writes /\ sock' = sock
    BY <1>5 DEF vars
  <2> QED
    BY <2>1, <2>2, WriterUntouched
<1> QED
  BY <1>1, <1>2, <1>3, <1>4, <1>5 DEF Next

THEOREM WriterCorrect == Spec => []WriterInv
<1>1. Init => WriterInv
  BY InitTyped DEF WriterInv, SingleWriter, WriteChainAlive, Init
<1> QED
  BY <1>1, WriterStep, PTL DEF Spec

(***************************************************************************)
(* The variables of a connection have their types, however many packets    *)
(* are sent and whatever breaks.                                           *)
(***************************************************************************)
THEOREM TypeCorrect == Spec => []TypeOK
<1>1. WriterInv => TypeOK
  BY DEF WriterInv
<1> QED
  BY <1>1, WriterCorrect, PTL

(***************************************************************************)
(* send_packet never starts a write while another is outstanding, and what *)
(* is written is the front of the queue (session.hpp:125-141, 209-261).    *)
(***************************************************************************)
THEOREM OneWriteAtATime == Spec => []SingleWriter
<1>1. WriterInv => SingleWriter
  BY DEF WriterInv
<1> QED
  BY <1>1, WriterCorrect, PTL

(***************************************************************************)
(* As long as the socket is not closed, a packet in the output queue is on *)
(* its way out: no order of posted sends and completed writes leaves it    *)
(* behind (session.hpp:128-139).                                           *)
(***************************************************************************)
THEOREM NoPacketLeftBehind == Spec => []WriteChainAlive
<1>1. WriterInv => WriteChainAlive
  BY DEF WriterInv
<1> QED
  BY <1>1, WriterCorrect, PTL
-----------------------------------------------------------------------------
(***************************************************************************)
(* The chain of reads: while the attempt to connect is not over, or has    *)
(* failed, the socket of the client is not open in the model's sense.      *)
(***************************************************************************)
ReaderInv ==
  /\ TypeOK
  /\ ReadChainAlive
  /\ connect \in {"pending", "err"} => sock[Client] # "open"

LEMMA ReaderStep == ReaderInv /\ TypeOK' /\ [Next]_vars => ReaderInv'
<1> SUFFICES ASSUME ReaderInv, TypeOK', [Next]_vars
             PROVE  /\ ReadChainAlive'
                    /\ connect' \in {"pending", "err"} => sock'[Client] # "open"
  BY DEF ReaderInv
<1> USE SessionAssumption DEF ReaderInv, ReadChainAlive, TypeOK
<1>0. Client \in Sides /\ Server \in Sides /\ \A s \in Sides : s = Client \/ s = Server
  BY DEF Sides
<1>1. CASE Connected
  BY <1>0, <1>1 DEF Connected, Op
<1>2. CASE Accept
  BY <1>0, <1>2 DEF Accept, Op
<1>3. CASE Establish
  BY <1>0, <1>3 DEF Establish
<1>4. CASE Refuse
  BY <1>0, <1>4 DEF Refuse
<1>5. CASE Cut
  BY <1>5 DEF Cut
<1>6. ASSUME NEW s \in Sides, (\E p \in Packets : SendPacket(s, p)) \/ Disconnect(s)
      PROVE  UNCHANGED <<sock, connect, read>>
  BY <1>6 DEF SendPacket, Disconnect
<1>7. ASSUME NEW s \in Sides, RunSend(s) \/ WroteHeader(s) \/ WroteLast(s)
      PROVE  UNCHANGED <<sock, connect, read>>
  BY <1>7 DEF RunSend, WroteHeader, WroteLast
<1>8. ASSUME NEW s \in Sides, RunClose(s) \/ WriteError(s) \/ ReadError(s)
      PROVE  /\ ReadChainAlive'
             /\ connect' \in {"pending", "err"} => sock'[Client] # "open"
  <2>1. sock' = [sock EXCEPT ![s] = "closed"] /\ connect' = connect
    BY <1>8 DEF RunClose, WriteError, ReadError, CloseSocket
  <2>2. \A r \in Sides \ {s} : read'[r] = read[r]
    BY <1>8 DEF RunClose, WriteError, ReadError
  <2> QED
    BY <1>0, <2>1, <2>2
<1>9. ASSUME NEW s \in Sides, GotHeader(s) \/ GotBody(s) \/ Deliver(s) \/ ReadFails(s)
      PROVE  /\ ReadChainAlive'
             /\ connect' \in {"pending", "err"} => sock'[Client] # "open"
  <2>1. sock' = sock /\ connect' = connect
    BY <1>9 DEF GotHeader, GotBody, Deliver, ReadFails
  <2>2. \A r \in Sides \ {s} : read'[r] = read[r]
    BY <1>9 DEF GotHeader, GotBody, Deliver, ReadFails
  <2>3. read'[s].kind # "none"
    <3>1. CASE GotHeader(s) \/ GotBody(s)
      BY <3>1 DEF GotHeader, GotBody, Op
    <3>2. CASE Deliver(s) \/ ReadFails(s)
      <4>1. read[s].kind # "none" /\ \E st \in OpStates : read' = [read EXCEPT ![s].status = st]
        BY <3>2 DEF Deliver, ReadFails, OpStates
      <4>2. read[s] \in [kind : {"header", "body"}, status : OpStates]
        BY <4>1 DEF Reads, NoRead
      <4> QED
        BY <4>1, <4>2
    <3> QED
      BY <1>9, <3>1, <3>2
  <2> QED
    BY <1>0, <2>1, <2>2, <2>3
<1>10. ASSUME NEW s \in Sides, Transmit(s) \/ WriteFails(s) \/ Lose(s)
       PROVE  UNCHANGED <<sock, connect, read>>
  BY <1>10 DEF Transmit, WriteFails, Lose
<1>11. CASE UNCHANGED <<sock, connect, read>>
  BY <1>11
<1>12. CASE UNCHANGED vars
  BY <1>11, <1>12 DEF vars
<1> QED
  BY <1>1, <1>2, <1>3, <1>4, <1>5, <1>6, <1>7, <1>8, <1>9, <1>10, <1>11, <1>12
  DEF Next, Handler, Network

(***************************************************************************)
(* A connected session always has a read outstanding, so that it notices   *)
(* the next packet and the end of the connection (session.hpp:143-167,     *)
(* 267-341).                                                               *)
(***************************************************************************)
THEOREM AlwaysReading == Spec => []ReadChainAlive
<1>1. Init => ReaderInv
  BY InitTyped, SessionAssumption DEF ReaderInv, ReadChainAlive, Init, Sides
<1>2. ReaderInv => ReadChainAlive
  BY DEF ReaderInv
<1> QED
  BY <1>1, <1>2, ReaderStep, TypeCorrect, PTL DEF Spec
-----------------------------------------------------------------------------
(***************************************************************************)
(* One direction, from send_packet to the input queue of the peer.  What   *)
(* was sent is a list of packets q.  The packets of the output queue, then *)
(* those of the posted tasks, are consecutive packets of q, up to its end. *)
(***************************************************************************)
PacketSteps(q) ==
  {<<m, q[m + 1], m + 1>> : m \in 0 .. Len(q) - 1} \cup {<<m, Close, m>> : m \in 0 .. Len(q)}

QueueInv(q, out, posted, d) ==
  \E m : Path(PacketSteps(q), out, d, m) /\ Path(PacketSteps(q), posted, m, Len(q))

LEMMA PacketStep ==
  ASSUME NEW q \in Seq(Packets), NEW a, NEW t, NEW b, <<a, t, b>> \in PacketSteps(q)
  PROVE  /\ a \in Nat /\ b \in Nat
         /\ t # Close => a + 1 \in 1 .. Len(q) /\ t = q[a + 1] /\ b = a + 1
         /\ t = Close => b = a
<1>1. Len(q) \in Nat /\ \A m \in 0 .. Len(q) - 1 : q[m + 1] \in Packets
  OBVIOUS
<1>2. CASE <<a, t, b>> \in {<<m, q[m + 1], m + 1>> : m \in 0 .. Len(q) - 1}
  <2>1. PICK m \in 0 .. Len(q) - 1 : a = m /\ t = q[m + 1] /\ b = m + 1
    BY <1>2
  <2> QED
    BY <1>1, <2>1, SessionAssumption DEF SessionAssumption
<1>3. CASE <<a, t, b>> \in {<<m, Close, m>> : m \in 0 .. Len(q)}
  BY <1>1, <1>3
<1> QED
  BY <1>2, <1>3 DEF PacketSteps

LEMMA PacketStepsGrow ==
  ASSUME NEW q \in Seq(Packets), NEW p \in Packets
  PROVE  /\ PacketSteps(q) \subseteq PacketSteps(Append(q, p))
         /\ <<Len(q), p, Len(Append(q, p))>> \in PacketSteps(Append(q, p))
         /\ <<Len(q), Close, Len(q)>> \in PacketSteps(q)
<1> DEFINE l == Len(q)
           v == Append(q, p)
<1>1. l \in Nat /\ Len(v) = l + 1 /\ v[l + 1] = p /\ \A k \in 1 .. l : v[k] = q[k]
  BY AppendProperties
<1> HIDE DEF l, v
<1>2. ASSUME NEW m \in 0 .. l - 1
      PROVE  <<m, q[m + 1], m + 1>> \in PacketSteps(v)
  <2>1. m \in 0 .. Len(v) - 1 /\ q[m + 1] = v[m + 1]
    BY <1>1
  <2> QED
    BY <2>1 DEF PacketSteps
<1>3. ASSUME NEW m \in 0 .. l
      PROVE  <<m, Close, m>> \in PacketSteps(v)
  <2>1. m \in 0 .. Len(v)
    BY <1>1
  <2> QED
    BY <2>1 DEF PacketSteps
<1>4. PacketSteps(q) \subseteq PacketSteps(v)
  BY <1>2, <1>3 DEF PacketSteps, l
<1>5. <<l, p, l + 1>> \in PacketSteps(v)
  <2>1. l \in 0 .. Len(v) - 1
    BY <1>1
  <2>2. <<l, v[l + 1], l + 1>> \in PacketSteps(v)
    BY <2>1 DEF PacketSteps
  <2> QED
    BY <1>1, <2>2
<1>6. <<l, Close, l>> \in PacketSteps(q)
  <2>1. l \in 0 .. l
    BY <1>1
  <2> QED
    BY <2>1 DEF PacketSteps, l
<1> QED
  BY <1>1, <1>4, <1>5, <1>6 DEF l, v

\* A call of send_packet and one of disconnect.
LEMMA QueueSend ==
  ASSUME NEW q \in Seq(Packets), NEW p \in Packets, NEW posted \in Seq(Packets \cup {Close}),
         NEW out, NEW d, QueueInv(q, out, posted, d)
  PROVE  QueueInv(Append(q, p), out, Append(posted, p), d)
<1>1. PICK m : Path(PacketSteps(q), out, d, m) /\ Path(PacketSteps(q), posted, m, Len(q))
  BY DEF QueueInv
<1> DEFINE v == Append(q, p)
<1>2. Path(PacketSteps(v), out, d, m) /\ Path(PacketSteps(v), posted, m, Len(q))
  BY <1>1, PacketStepsGrow, PathGrows
<1>3. <<Len(q), p, Len(v)>> \in PacketSteps(v)
  BY PacketStepsGrow
<1> HIDE DEF v
<1>4. Path(PacketSteps(v), Append(posted, p), m, Len(v))
  BY <1>2, <1>3, PathAppend
<1> QED
  BY <1>2, <1>4 DEF QueueInv, v

LEMMA QueueClose ==
  ASSUME NEW q \in Seq(Packets), NEW posted \in Seq(Packets \cup {Close}),
         NEW out, NEW d, QueueInv(q, out, posted, d)
  PROVE  QueueInv(q, out, Append(posted, Close), d)
<1>1. PICK m : Path(PacketSteps(q), out, d, m) /\ Path(PacketSteps(q), posted, m, Len(q))
  BY DEF QueueInv
<1>2. <<Len(q), Close, Len(q)>> \in PacketSteps(q)
  <2>1. Len(q) \in 0 .. Len(q)
    OBVIOUS
  <2> QED
    BY <2>1 DEF PacketSteps
<1>3. Path(PacketSteps(q), Append(posted, Close), m, Len(q))
  BY <1>1, <1>2, PathAppend
<1> QED
  BY <1>1, <1>3 DEF QueueInv

\* The posted lambdas.
LEMMA QueueRun ==
  ASSUME NEW q \in Seq(Packets), NEW posted \in Seq(Packets \cup {Close}), posted # <<>>,
         NEW out \in Seq(Packets), NEW d, QueueInv(q, out, posted, d)
  PROVE  /\ Head(posted) = Close => QueueInv(q, out, Tail(posted), d)
         /\ Head(posted) # Close => QueueInv(q, Append(out, Head(posted)), Tail(posted), d)
<1> DEFINE R == PacketSteps(q)
           t == Head(posted)
<1>1. PICK m : Path(R, out, d, m) /\ Path(R, posted, m, Len(q))
  BY DEF QueueInv
<1>2. PICK z : <<m, t, z>> \in R /\ Path(R, Tail(posted), z, Len(q))
  BY <1>1, PathTail
<1>3. t = Close => z = m
  BY <1>2, PacketStep
<1>4. CASE t = Close
  BY <1>1, <1>2, <1>3, <1>4 DEF QueueInv
<1>5. CASE t # Close
  <2>1. t \in Packets
    BY <1>5, HeadTail
  <2> HIDE DEF R, t
  <2>2. Path(R, Append(out, t), d, z)
    BY <1>1, <1>2, <2>1, PathAppend
  <2> QED
    BY <1>2, <1>5, <2>2 DEF QueueInv, R, t
<1> QED
  BY <1>4, <1>5

\* The front of the output queue is the next packet of q.
LEMMA QueueFront ==
  ASSUME NEW q \in Seq(Packets), NEW out \in Seq(Packets), out # <<>>,
         NEW posted, NEW d, QueueInv(q, out, posted, d)
  PROVE  /\ d \in Nat /\ d + 1 \in 1 .. Len(q)
         /\ Head(out) = q[d + 1]
         /\ QueueInv(q, Tail(out), posted, d + 1)
<1> DEFINE R == PacketSteps(q)
<1>1. PICK m : Path(R, out, d, m) /\ Path(R, posted, m, Len(q))
  BY DEF QueueInv
<1>2. PICK z : <<d, Head(out), z>> \in R /\ Path(R, Tail(out), z, m)
  BY <1>1, PathTail
<1>3. Head(out) # Close
  BY HeadTail, SessionAssumption DEF SessionAssumption
<1>4. d \in Nat /\ d + 1 \in 1 .. Len(q) /\ Head(out) = q[d + 1] /\ z = d + 1
  BY <1>2, <1>3, PacketStep
<1> QED
  BY <1>1, <1>2, <1>4 DEF QueueInv

(***************************************************************************)
(* The frames of q follow each other: a place is the header or the body of *)
(* a packet, and a packet of HeaderOnly has no body on the wire.           *)
(***************************************************************************)
Place == [index : Nat, kind : {"header", "body"}]

PlaceOf(index, kind) ==
  [index |-> index, kind |-> IF kind = "body" THEN "body" ELSE "header"]

FrameAt(q, x) == [kind |-> x.kind, packet |-> q[x.index]]

Behind(q, x) ==
  IF x.kind = "header" /\ q[x.index] \notin HeaderOnly
  THEN [index |-> x.index, kind |-> "body"]
  ELSE [index |-> x.index + 1, kind |-> "header"]

FrameSteps(q) ==
  {<<x, FrameAt(q, x), Behind(q, x)>> : x \in {y \in Place : y.index \in 1 .. Len(q)}}

\* What a side reads next from the wire that n packets were read from, and what
\* it writes next if d packets are written.
ReadPlace(q, n, op) ==
  LET x == PlaceOf(n + 1, op.kind)
  IN  IF op.status = "ok" THEN Behind(q, x) ELSE x

WritePlace(q, d, ops) ==
  IF ops = <<>> THEN PlaceOf(d + 1, "header")
  ELSE LET x == PlaceOf(d + 1, Head(ops).kind)
       IN  IF Head(ops).status = "ok" THEN Behind(q, x) ELSE x

LEMMA FrameStep ==
  ASSUME NEW q, NEW a, NEW f, NEW b
  PROVE  <<a, f, b>> \in FrameSteps(q)
           <=> a \in Place /\ a.index \in 1 .. Len(q) /\ f = FrameAt(q, a) /\ b = Behind(q, a)
<1>1. ASSUME <<a, f, b>> \in FrameSteps(q)
      PROVE  a \in Place /\ a.index \in 1 .. Len(q) /\ f = FrameAt(q, a) /\ b = Behind(q, a)
  <2>1. PICK x \in {y \in Place : y.index \in 1 .. Len(q)} :
          a = x /\ f = FrameAt(q, x) /\ b = Behind(q, x)
    BY <1>1 DEF FrameSteps
  <2> QED
    BY <2>1
<1>2. ASSUME a \in Place, a.index \in 1 .. Len(q), f = FrameAt(q, a), b = Behind(q, a)
      PROVE  <<a, f, b>> \in FrameSteps(q)
  BY <1>2 DEF FrameSteps
<1> QED
  BY <1>1, <1>2

LEMMA PlaceParts ==
  ASSUME NEW index \in Nat, NEW kind
  PROVE  /\ PlaceOf(index, kind) \in Place
         /\ PlaceOf(index, kind).index = index
         /\ PlaceOf(index, kind).kind = IF kind = "body" THEN "body" ELSE "header"
BY DEF PlaceOf, Place

LEMMA Behinds ==
  ASSUME NEW q, NEW index \in Nat
  PROVE  /\ q[index] \notin HeaderOnly =>
              Behind(q, PlaceOf(index, "header")) = PlaceOf(index, "body")
         /\ q[index] \in HeaderOnly =>
              Behind(q, PlaceOf(index, "header")) = PlaceOf(index + 1, "header")
         /\ Behind(q, PlaceOf(index, "body")) = PlaceOf(index + 1, "header")
BY DEF Behind, PlaceOf

LEMMA FramesGrow ==
  ASSUME NEW q \in Seq(Packets), NEW p \in Packets
  PROVE  /\ FrameSteps(q) \subseteq FrameSteps(Append(q, p))
         /\ \A x \in Place : x.index \in 1 .. Len(q) => Behind(Append(q, p), x) = Behind(q, x)
<1> DEFINE v == Append(q, p)
<1>1. Len(q) \in Nat /\ Len(v) = Len(q) + 1 /\ \A k \in 1 .. Len(q) : v[k] = q[k]
  BY AppendProperties
<1> HIDE DEF v
<1>2. ASSUME NEW x \in Place, x.index \in 1 .. Len(q)
      PROVE  /\ x.index \in 1 .. Len(v)
             /\ FrameAt(v, x) = FrameAt(q, x) /\ Behind(v, x) = Behind(q, x)
  BY <1>1, <1>2 DEF FrameAt, Behind
<1>3. FrameSteps(q) \subseteq FrameSteps(v)
  BY <1>2 DEF FrameSteps
<1> QED
  BY <1>2, <1>3 DEF v

(***************************************************************************)
(* The read side: in is a prefix of q, as it was read, and the packet being *)
(* read is the next one.                                                   *)
(***************************************************************************)
ReadInv(q, op, packet, in) ==
  /\ Len(in) <= Len(q)
  /\ \A k \in 1 .. Len(in) : in[k] = Whole(q[k])
  /\ op.kind = "header" /\ op.status = "ok" =>
       Len(in) < Len(q) /\ packet.header = q[Len(in) + 1]
  /\ op.kind = "body" =>
       Len(in) < Len(q) /\ packet.header = q[Len(in) + 1]
  /\ op.kind = "body" /\ op.status = "pending" => packet.header \notin HeaderOnly
  /\ op.kind = "body" /\ op.status = "ok" => packet = Whole(q[Len(in) + 1])

\* w holds frames of q from place x on; if it is complete, up to y.
WireInv(q, w, x, y, complete) ==
  \E z : Path(FrameSteps(q), w, x, z) /\ (complete => z = y)

Listening(r) == sock[r] # "closed" /\ read[r].status # "err"

\* Nothing that s wrote or is about to write is lost.
Complete(s) ==
  /\ sock[s] # "closed" /\ sock[Peer(s)] # "closed" /\ link # "down"
  /\ writes[s] # <<>> => Head(writes[s]).status # "err"

DirectionInv(s) ==
  LET r == Peer(s)
      q == sent[s]
  IN  /\ ReadInv(q, read[r], temp[r], inq[r])
      /\ \E d \in Nat :
           /\ QueueInv(q, outq[s], tasks[s], d)
           /\ Listening(r) =>
                WireInv(q, wire[s], ReadPlace(q, Len(inq[r]), read[r]),
                        WritePlace(q, d, writes[s]), Complete(s))

\* When nothing was read, and that the link comes up once.
OpeningInv ==
  /\ connect # "none" => read[Client] = NoRead
  /\ connect = "pending" => link = "none"
  /\ sock[Server] = "none" => read[Server] = NoRead

FifoInv ==
  /\ WriterInv
  /\ OpeningInv
  /\ \A s \in Sides : DirectionInv(s)

LEMMA Peers ==
  /\ Client \in Sides /\ Server \in Sides /\ Client # Server
  /\ Peer(Client) = Server /\ Peer(Server) = Client
  /\ \A s \in Sides : Peer(s) \in Sides /\ Peer(s) # s /\ Peer(Peer(s)) = s
  /\ \A s \in Sides : s = Client \/ s = Server
BY SessionAssumption DEF SessionAssumption, Sides, Peer

\* A step that leaves a direction alone.
LEMMA DirectionSame ==
  ASSUME NEW s \in Sides, DirectionInv(s),
         sent'[s] = sent[s], tasks'[s] = tasks[s], outq'[s] = outq[s],
         writes'[s] = writes[s], wire'[s] = wire[s],
         read'[Peer(s)] = read[Peer(s)], temp'[Peer(s)] = temp[Peer(s)],
         inq'[Peer(s)] = inq[Peer(s)],
         Listening(Peer(s))' => Listening(Peer(s)),
         Complete(s)' => Complete(s)
  PROVE  DirectionInv(s)'
<1> DEFINE r == Peer(s)
           q == sent[s]
           x == ReadPlace(q, Len(inq[r]), read[r])
<1>1. PICK d \in Nat :
        /\ QueueInv(q, outq[s], tasks[s], d)
        /\ Listening(r) => WireInv(q, wire[s], x, WritePlace(q, d, writes[s]), Complete(s))
  BY DEF DirectionInv
<1>2. ReadInv(q, read[r], temp[r], inq[r])'
  BY DEF DirectionInv
<1>3. QueueInv(q, outq[s], tasks[s], d)'
  BY <1>1
<1>4. ASSUME Listening(r)'
      PROVE  WireInv(q, wire[s], x, WritePlace(q, d, writes[s]), Complete(s))'
  <2>1. PICK z : /\ Path(FrameSteps(q), wire[s], x, z)
                 /\ Complete(s) => z = WritePlace(q, d, writes[s])
    BY <1>1, <1>4 DEF WireInv
  <2>2. Path(FrameSteps(q), wire[s], x, z)'
    BY <2>1
  <2>3. Complete(s)' => z = WritePlace(q, d, writes[s])'
    BY <2>1
  <2> QED
    BY <2>2, <2>3 DEF WireInv
<1> QED
  BY <1>2, <1>3, <1>4 DEF DirectionInv

LEMMA DirectionParts ==
  ASSUME NEW s \in Sides, DirectionInv(s), NEW r, r = Peer(s)
  PROVE  /\ ReadInv(sent[s], read[r], temp[r], inq[r])
         /\ \E d \in Nat :
              /\ QueueInv(sent[s], outq[s], tasks[s], d)
              /\ Listening(r) =>
                   WireInv(sent[s], wire[s], ReadPlace(sent[s], Len(inq[r]), read[r]),
                           WritePlace(sent[s], d, writes[s]), Complete(s))
BY DEF DirectionInv

LEMMA DirectionMade ==
  ASSUME NEW s \in Sides, NEW r, r = Peer(s), NEW d \in Nat,
         ReadInv(sent'[s], read'[r], temp'[r], inq'[r]),
         QueueInv(sent'[s], outq'[s], tasks'[s], d),
         Listening(r)' =>
           WireInv(sent'[s], wire'[s], ReadPlace(sent'[s], Len(inq'[r]), read'[r]),
                   WritePlace(sent'[s], d, writes'[s]), Complete(s)')
  PROVE  DirectionInv(s)'
BY DEF DirectionInv

\* What is known of the wire stays known when less of it has to be complete.
LEMMA WireWeakens ==
  ASSUME NEW q, NEW w, NEW x, NEW y, NEW v, NEW c, NEW e,
         WireInv(q, w, x, y, c), e => c /\ v = y
  PROVE  WireInv(q, w, x, v, e)
BY DEF WireInv

LEMMA ReadGrows ==
  ASSUME NEW q \in Seq(Packets), NEW p \in Packets, NEW op \in Reads, NEW packet,
         NEW in \in Seq(Received), ReadInv(q, op, packet, in)
  PROVE  /\ ReadInv(Append(q, p), op, packet, in)
         /\ ReadPlace(Append(q, p), Len(in), op) = ReadPlace(q, Len(in), op)
<1> DEFINE v == Append(q, p)
<1>1. /\ Len(q) \in Nat /\ Len(in) \in Nat /\ Len(v) = Len(q) + 1
      /\ \A k \in 1 .. Len(q) : v[k] = q[k]
  BY AppendProperties
<1>2. \A x \in Place : x.index \in 1 .. Len(q) => Behind(v, x) = Behind(q, x)
  BY FramesGrow
<1> HIDE DEF v
<1>3. Len(in) < Len(q) => v[Len(in) + 1] = q[Len(in) + 1]
  BY <1>1
<1>4. ReadInv(v, op, packet, in)
  <2>1. \A k \in 1 .. Len(in) : in[k] = Whole(v[k])
    BY <1>1 DEF ReadInv
  <2>2. Len(in) <= Len(v) /\ (Len(in) < Len(q) => Len(in) < Len(v))
    BY <1>1 DEF ReadInv
  <2> QED
    BY <1>3, <2>1, <2>2 DEF ReadInv
<1>5. CASE op.status = "ok"
  <2>1. op.kind \in {"header", "body"}
    BY <1>5 DEF Reads, NoRead
  <2>2. Len(in) + 1 \in 1 .. Len(q)
    BY <1>1, <1>5, <2>1 DEF ReadInv
  <2>3. /\ PlaceOf(Len(in) + 1, op.kind) \in Place
        /\ PlaceOf(Len(in) + 1, op.kind).index = Len(in) + 1
    BY <1>1, PlaceParts
  <2>4. Behind(v, PlaceOf(Len(in) + 1, op.kind)) = Behind(q, PlaceOf(Len(in) + 1, op.kind))
    BY <1>2, <2>2, <2>3
  <2> QED
    BY <1>4, <2>4 DEF ReadPlace, v
<1>6. CASE op.status # "ok"
  BY <1>4, <1>6 DEF ReadPlace, v
<1> QED
  BY <1>5, <1>6

LEMMA WriteGrows ==
  ASSUME NEW q \in Seq(Packets), NEW p \in Packets, NEW d, NEW ops,
         ops # <<>> => d \in Nat /\ d + 1 \in 1 .. Len(q)
  PROVE  WritePlace(Append(q, p), d, ops) = WritePlace(q, d, ops)
<1>1. CASE ops = <<>>
  BY <1>1 DEF WritePlace
<1>2. CASE ops # <<>>
  <2>1. /\ PlaceOf(d + 1, Head(ops).kind) \in Place
        /\ PlaceOf(d + 1, Head(ops).kind).index \in 1 .. Len(q)
    BY <1>2, PlaceParts
  <2>2. Behind(Append(q, p), PlaceOf(d + 1, Head(ops).kind))
          = Behind(q, PlaceOf(d + 1, Head(ops).kind))
    BY <2>1, FramesGrow
  <2> QED
    BY <2>2 DEF WritePlace
<1> QED
  BY <1>1, <1>2

LEMMA WireGrows ==
  ASSUME NEW q \in Seq(Packets), NEW p \in Packets, NEW w, NEW x, NEW y, NEW c,
         WireInv(q, w, x, y, c)
  PROVE  WireInv(Append(q, p), w, x, y, c)
<1>1. PICK z : Path(FrameSteps(q), w, x, z) /\ (c => z = y)
  BY DEF WireInv
<1>2. Path(FrameSteps(Append(q, p)), w, x, z)
  BY <1>1, FramesGrow, PathGrows
<1> QED
  BY <1>1, <1>2 DEF WireInv

(***************************************************************************)
(* The calls and the posted lambdas of the side that sends.                *)
(***************************************************************************)
LEMMA SendDirection ==
  ASSUME WriterInv, NEW s \in Sides, DirectionInv(s),
         (\E p \in Packets : SendPacket(s, p)) \/ Disconnect(s)
  PROVE  DirectionInv(s)'
<1> DEFINE r == Peer(s)
           q == sent[s]
           x == ReadPlace(q, Len(inq[r]), read[r])
<1>0. /\ r \in Sides /\ q \in Seq(Packets) /\ tasks[s] \in Seq(Packets \cup {Close})
      /\ outq[s] \in Seq(Packets) /\ read[r] \in Reads /\ inq[r] \in Seq(Received)
      /\ WriterOK(s)
  BY Peers, WriterInvParts DEF TypeOK
<1>1. PICK d \in Nat :
        /\ QueueInv(q, outq[s], tasks[s], d)
        /\ Listening(r) => WireInv(q, wire[s], x, WritePlace(q, d, writes[s]), Complete(s))
  BY DirectionParts
<1>2. ReadInv(q, read[r], temp[r], inq[r])
  BY DirectionParts
<1>3. /\ Listening(r)' = Listening(r) /\ Complete(s)' = Complete(s)
      /\ outq' = outq /\ writes' = writes /\ wire' = wire /\ read' = read
      /\ temp' = temp /\ inq' = inq
  BY DEF SendPacket, Disconnect, Listening, Complete
<1>4. ASSUME NEW p \in Packets, SendPacket(s, p)
      PROVE  DirectionInv(s)'
  <2>1. sent'[s] = Append(q, p) /\ tasks'[s] = Append(tasks[s], p)
    BY <1>4 DEF SendPacket, WriterInv, TypeOK
  <2>2. /\ ReadInv(sent'[s], read'[r], temp'[r], inq'[r])
        /\ ReadPlace(sent'[s], Len(inq'[r]), read'[r]) = x
    BY <1>0, <1>2, <1>3, <2>1, ReadGrows
  <2>3. QueueInv(sent'[s], outq'[s], tasks'[s], d)
    BY <1>0, <1>1, <1>3, <2>1, QueueSend
  <2>4. WritePlace(sent'[s], d, writes'[s]) = WritePlace(q, d, writes[s])
    <3>1. writes[s] # <<>> => d \in Nat /\ d + 1 \in 1 .. Len(q)
      BY <1>0, <1>1, QueueFront DEF WriterOK
    <3> QED
      BY <1>0, <1>3, <2>1, <3>1, WriteGrows
  <2>5. ASSUME Listening(r)'
        PROVE  WireInv(sent'[s], wire'[s], x, WritePlace(q, d, writes[s]), Complete(s)')
    <3> HIDE DEF x
    <3> QED
      BY <1>0, <1>1, <1>3, <2>1, <2>5, WireGrows
  <2> HIDE DEF q, x
  <2> QED
    BY <2>2, <2>3, <2>4, <2>5, DirectionMade
<1>5. CASE Disconnect(s)
  <2>1. sent' = sent /\ tasks'[s] = Append(tasks[s], Close)
    BY <1>5 DEF Disconnect, WriterInv, TypeOK
  <2>2. QueueInv(sent'[s], outq'[s], tasks'[s], d)
    BY <1>0, <1>1, <1>3, <2>1, QueueClose
  <2> QED
    BY <1>1, <1>2, <1>3, <2>1, <2>2, DirectionMade
<1> QED
  BY <1>4, <1>5

LEMMA PostedDirection ==
  ASSUME WriterInv, NEW s \in Sides, DirectionInv(s), RunSend(s) \/ RunClose(s)
  PROVE  DirectionInv(s)'
<1> DEFINE r == Peer(s)
           q == sent[s]
           x == ReadPlace(q, Len(inq[r]), read[r])
           t == Head(tasks[s])
<1>0. /\ r \in Sides /\ r # s /\ q \in Seq(Packets) /\ tasks[s] \in Seq(Packets \cup {Close})
      /\ outq[s] \in Seq(Packets) /\ writes[s] \in Seq(Writes) /\ WriterOK(s) /\ TypeOK
  BY Peers, WriterInvParts DEF TypeOK
<1>1. PICK d \in Nat :
        /\ QueueInv(q, outq[s], tasks[s], d)
        /\ Listening(r) => WireInv(q, wire[s], x, WritePlace(q, d, writes[s]), Complete(s))
  BY DirectionParts
<1>2. ReadInv(q, read[r], temp[r], inq[r])
  BY DirectionParts
<1>3. /\ tasks[s] # <<>> /\ tasks'[s] = Tail(tasks[s])
      /\ sent' = sent /\ wire' = wire /\ read' = read /\ temp' = temp /\ inq' = inq
      /\ link' = link
  BY <1>0 DEF RunSend, RunClose, TypeOK
<1>4. CASE RunSend(s)
  <2>1. t # Close /\ outq'[s] = Append(outq[s], t) /\ sock' = sock
    BY <1>0, <1>4 DEF RunSend, TypeOK
  <2>2. QueueInv(q, outq'[s], tasks'[s], d)
    BY <1>0, <1>1, <1>3, <2>1, QueueRun
  <2>3. WritePlace(q, d, writes'[s]) = WritePlace(q, d, writes[s]) /\ (Complete(s)' => Complete(s))
    <3>1. CASE outq[s] # <<>>
      <4>1. writes'[s] = writes[s]
        BY <1>0, <1>4, <3>1 DEF RunSend, TypeOK
      <4> QED
        BY <1>3, <2>1, <4>1 DEF Complete
    <3>2. CASE outq[s] = <<>>
      <4>1. writes[s] = <<>>
        BY <1>0, <3>2 DEF WriterOK
      <4>2. t \in Packets
        BY <1>0, <1>3, <2>1, HeadTail
      <4>3. writes'[s] = <<WriteOp("header", t)>>
        <5>1. writes'[s] = Append(writes[s], WriteOp("header", t))
          BY <1>0, <1>4, <3>2 DEF RunSend, TypeOK
        <5> QED
          BY <4>1, <4>2, <5>1, OpsTyped, ToEmpty
      <4> HIDE DEF t
      <4>4. /\ writes'[s] # <<>> /\ Head(writes'[s]).kind = "header"
            /\ Head(writes'[s]).status = "pending"
        BY <4>3 DEF WriteOp
      <4> QED
        BY <1>3, <2>1, <4>1, <4>4 DEF Complete, WritePlace
    <3> QED
      BY <3>1, <3>2
  <2>4. Listening(r)' = Listening(r)
    BY <1>3, <2>1 DEF Listening
  <2> HIDE DEF x
  <2>5. Listening(r)' => WireInv(q, wire'[s], x, WritePlace(q, d, writes'[s]), Complete(s)')
    BY <1>1, <1>3, <2>3, <2>4, WireWeakens
  <2> QED
    BY <1>2, <1>3, <2>2, <2>5, DirectionMade DEF x
<1>5. CASE RunClose(s)
  <2>1. t = Close /\ outq' = outq /\ writes' = writes /\ sock'[s] = "closed" /\ sock'[r] = sock[r]
    BY <1>0, <1>5 DEF RunClose, CloseSocket, TypeOK
  <2>2. QueueInv(q, outq'[s], tasks'[s], d)
    BY <1>0, <1>1, <1>3, <2>1, QueueRun
  <2>3. Listening(r)' = Listening(r) /\ ~ Complete(s)'
    BY <1>3, <2>1 DEF Listening, Complete
  <2> HIDE DEF x
  <2>4. Listening(r)' => WireInv(q, wire'[s], x, WritePlace(q, d, writes'[s]), Complete(s)')
    BY <1>1, <1>3, <2>1, <2>3, WireWeakens
  <2> QED
    BY <1>2, <1>3, <2>2, <2>4, DirectionMade DEF x
<1> QED
  BY <1>4, <1>5

(***************************************************************************)
(* The completed writes, and what the kernel makes of a write.             *)
(***************************************************************************)
LEMMA WroteDirection ==
  ASSUME WriterInv, NEW s \in Sides, DirectionInv(s),
         WroteHeader(s) \/ WroteLast(s) \/ WriteError(s)
  PROVE  DirectionInv(s)'
<1> DEFINE r == Peer(s)
           q == sent[s]
           x == ReadPlace(q, Len(inq[r]), read[r])
<1>0. /\ r \in Sides /\ r # s /\ q \in Seq(Packets)
      /\ writes[s] \in Seq(Writes) /\ WriterOK(s) /\ TypeOK
  BY Peers, WriterInvParts DEF TypeOK
<1>1. PICK d \in Nat :
        /\ QueueInv(q, outq[s], tasks[s], d)
        /\ Listening(r) => WireInv(q, wire[s], x, WritePlace(q, d, writes[s]), Complete(s))
  BY DirectionParts
<1>2. ReadInv(q, read[r], temp[r], inq[r])
  BY DirectionParts
<1>3. /\ writes[s] # <<>> /\ outq[s] \in Seq(Packets) /\ outq[s] # <<>>
      /\ tasks' = tasks /\ sent' = sent /\ wire' = wire /\ read' = read /\ temp' = temp
      /\ inq' = inq /\ link' = link
  BY <1>0, WroteMakes DEF WroteHeader, WroteLast, WriteError
<1>4. /\ d + 1 \in 1 .. Len(q) /\ Head(outq[s]) = q[d + 1]
      /\ QueueInv(q, Tail(outq[s]), tasks[s], d + 1)
  BY <1>0, <1>1, <1>3, QueueFront
<1>5. CASE WroteHeader(s)
  <2>1. /\ writes'[s] = <<WriteOp("body", Head(outq[s]))>> /\ outq' = outq /\ sock' = sock
        /\ Head(writes[s]).kind = "header" /\ Head(writes[s]).status = "ok"
        /\ q[d + 1] \notin HeaderOnly
    BY <1>0, <1>4, <1>5, WroteMakes DEF WroteHeader
  <2>2. WritePlace(q, d, writes[s]) = PlaceOf(d + 1, "body")
    BY <1>3, <2>1, Behinds DEF WritePlace
  <2>3. WritePlace(q, d, writes'[s]) = PlaceOf(d + 1, "body")
    BY <2>1 DEF WritePlace, WriteOp
  <2>4. Listening(r)' = Listening(r) /\ (Complete(s)' => Complete(s))
    BY <1>3, <2>1 DEF Listening, Complete
  <2> HIDE DEF x
  <2>5. Listening(r)' => WireInv(q, wire'[s], x, WritePlace(q, d, writes'[s]), Complete(s)')
    BY <1>1, <1>3, <2>2, <2>3, <2>4, WireWeakens
  <2> QED
    BY <1>1, <1>2, <1>3, <2>1, <2>5, DirectionMade DEF x
<1>6. CASE WroteLast(s)
  <2> DEFINE newq == Tail(outq[s])
  <2>1. /\ outq'[s] = newq /\ sock' = sock /\ Head(writes[s]).status = "ok"
        /\ newq = <<>> => writes'[s] = <<>>
        /\ newq # <<>> => writes'[s] = <<WriteOp("header", Head(newq))>>
        /\ Head(writes[s]).kind = "body" \/ q[d + 1] \in HeaderOnly
    BY <1>0, <1>4, <1>6, WroteMakes DEF WroteLast
  <2>2. WritePlace(q, d, writes[s]) = PlaceOf((d + 1) + 1, "header")
    <3>1. Head(writes[s]).kind \in {"header", "body"}
      <4>1. Head(writes[s]) \in Writes
        BY <1>0, <1>3, HeadTail
      <4> QED
        BY <4>1 DEF Writes
    <3> QED
      BY <1>3, <2>1, <3>1, Behinds DEF WritePlace
  <2> HIDE DEF newq
  <2>3. WritePlace(q, d + 1, writes'[s]) = PlaceOf((d + 1) + 1, "header")
    BY <2>1 DEF WritePlace, WriteOp
  <2>4. Listening(r)' = Listening(r) /\ (Complete(s)' => Complete(s))
    BY <1>3, <2>1 DEF Listening, Complete
  <2> HIDE DEF x
  <2>5. Listening(r)' => WireInv(q, wire'[s], x, WritePlace(q, d + 1, writes'[s]), Complete(s)')
    BY <1>1, <1>3, <2>2, <2>3, <2>4, WireWeakens
  <2>6. QueueInv(q, outq'[s], tasks'[s], d + 1) /\ d + 1 \in Nat
    BY <1>3, <1>4, <2>1 DEF newq
  <2> QED
    BY <1>2, <1>3, <2>5, <2>6, DirectionMade DEF x
<1>7. CASE WriteError(s)
  <2>1. outq' = outq /\ sock'[s] = "closed" /\ sock'[r] = sock[r]
    BY <1>0, <1>7 DEF WriteError, CloseSocket, TypeOK
  <2>2. Listening(r)' = Listening(r) /\ ~ Complete(s)'
    BY <1>3, <2>1 DEF Listening, Complete
  <2> HIDE DEF x
  <2>3. Listening(r)' => WireInv(q, wire'[s], x, WritePlace(q, d, writes'[s]), Complete(s)')
    BY <1>1, <1>3, <2>2 DEF WireInv
  <2> QED
    BY <1>1, <1>2, <1>3, <2>1, <2>3, DirectionMade DEF x
<1> QED
  BY <1>5, <1>6, <1>7

LEMMA TransmitDirection ==
  ASSUME WriterInv, NEW s \in Sides, DirectionInv(s), Transmit(s)
  PROVE  DirectionInv(s)'
<1> DEFINE r == Peer(s)
           q == sent[s]
           x == ReadPlace(q, Len(inq[r]), read[r])
           op == Head(writes[s])
           f == [kind |-> op.kind, packet |-> op.packet]
<1>0. /\ r \in Sides /\ r # s /\ q \in Seq(Packets) /\ outq[s] \in Seq(Packets)
      /\ writes[s] \in Seq(Writes) /\ wire[s] \in Seq(Frames) /\ WriterOK(s) /\ TypeOK
  BY Peers, WriterInvParts DEF TypeOK
<1>1. PICK d \in Nat :
        /\ QueueInv(q, outq[s], tasks[s], d)
        /\ Listening(r) => WireInv(q, wire[s], x, WritePlace(q, d, writes[s]), Complete(s))
  BY DirectionParts
<1>2. ReadInv(q, read[r], temp[r], inq[r])
  BY DirectionParts
<1>3. /\ writes[s] # <<>> /\ op.status = "pending" /\ sock[s] = "open"
      /\ UNCHANGED <<link, sock, tasks, outq, read, temp, inq, sent>>
      /\ wire'[s] = IF link = "down" THEN wire[s] ELSE Append(wire[s], f)
  BY <1>0 DEF Transmit, TypeOK
<1>4. op \in Writes /\ op = writes[s][1]
  BY <1>0, <1>3, HeadTail
<1>5. op.kind \in {"header", "body"} /\ op.packet \in Packets
  BY <1>4 DEF Writes
<1>6. d + 1 \in 1 .. Len(q) /\ op.packet = q[d + 1]
  BY <1>0, <1>1, <1>3, <1>4, QueueFront DEF WriterOK
<1>7. /\ writes'[s] # <<>>
      /\ Head(writes'[s]).kind = op.kind
      /\ Head(writes'[s]).status = "ok"
  <2>1. /\ writes' \in [Sides -> Seq(Writes)]
        /\ Len(writes'[s]) = Len(writes[s])
        /\ writes'[s][1].kind = writes[s][1].kind
        /\ writes'[s][1].status = "ok"
    BY <1>0, <1>3, FirstWrite DEF Transmit, OpStates
  <2>2. writes'[s] # <<>>
    BY <1>0, <1>3, <2>1
  <2>3. Head(writes'[s]) = writes'[s][1]
    BY <2>1, <2>2, HeadTail
  <2> QED
    BY <1>4, <2>1, <2>2, <2>3
<1> DEFINE y == PlaceOf(d + 1, op.kind)
<1>8. WritePlace(q, d, writes[s]) = y /\ WritePlace(q, d, writes'[s]) = Behind(q, y)
  BY <1>3, <1>7 DEF WritePlace
<1>9. <<y, f, Behind(q, y)>> \in FrameSteps(q) /\ f \in Frames
  <2>1. y \in Place /\ y.index = d + 1 /\ y.kind = op.kind
    BY <1>5, PlaceParts
  <2>2. f = FrameAt(q, y)
    BY <1>6, <2>1 DEF FrameAt
  <2>3. f \in Frames
    BY <1>5 DEF Frames
  <2> HIDE DEF y, f
  <2> QED
    BY <1>6, <2>1, <2>2, <2>3, FrameStep
<1>10. Listening(r)' = Listening(r)
  BY <1>3 DEF Listening
<1> HIDE DEF x, y, f, op
<1>11. ASSUME Listening(r)'
       PROVE  WireInv(q, wire'[s], x, WritePlace(q, d, writes'[s]), Complete(s)')
  <2>1. PICK z : Path(FrameSteps(q), wire[s], x, z) /\ (Complete(s) => z = y)
    BY <1>1, <1>8, <1>10, <1>11 DEF WireInv
  <2>2. CASE link = "down"
    <3>1. wire'[s] = wire[s] /\ ~ Complete(s)'
      BY <1>3, <2>2 DEF Complete
    <3> QED
      BY <2>1, <3>1 DEF WireInv
  <2>3. CASE link # "down"
    <3>1. Complete(s)
      BY <1>3, <1>10, <1>11, <2>3 DEF Complete, Listening, op
    <3>2. Path(FrameSteps(q), Append(wire[s], f), x, Behind(q, y))
      BY <1>0, <1>9, <2>1, <3>1, PathAppend
    <3> QED
      BY <1>3, <1>8, <2>3, <3>2 DEF WireInv
  <2> QED
    BY <2>2, <2>3
<1> QED
  BY <1>1, <1>2, <1>3, <1>11, DirectionMade DEF x

LEMMA LossDirection ==
  ASSUME WriterInv, NEW s \in Sides, DirectionInv(s), WriteFails(s) \/ Lose(s)
  PROVE  DirectionInv(s)'
<1> DEFINE r == Peer(s)
           q == sent[s]
           x == ReadPlace(q, Len(inq[r]), read[r])
<1>0. /\ r \in Sides /\ r # s /\ wire[s] \in Seq(Frames) /\ writes[s] \in Seq(Writes)
      /\ TypeOK
  BY Peers, WriterInvParts DEF TypeOK
<1>1. PICK d \in Nat :
        /\ QueueInv(q, outq[s], tasks[s], d)
        /\ Listening(r) => WireInv(q, wire[s], x, WritePlace(q, d, writes[s]), Complete(s))
  BY DirectionParts
<1>2. ReadInv(q, read[r], temp[r], inq[r])
  BY DirectionParts
<1>3. UNCHANGED <<link, sock, tasks, outq, read, temp, inq, sent>>
  BY DEF WriteFails, Lose
<1>4. Listening(r)' = Listening(r)
  BY <1>3 DEF Listening
<1>5. ~ Complete(s)'
  <2>1. CASE WriteFails(s)
    <3>1. writes[s] # <<>>
      BY <2>1 DEF WriteFails
    <3>2. /\ writes' \in [Sides -> Seq(Writes)]
          /\ Len(writes'[s]) = Len(writes[s])
          /\ writes'[s][1].status = "err"
      BY <1>0, <2>1, <3>1, FirstWrite DEF WriteFails, OpStates
    <3>3. writes'[s] # <<>>
      BY <1>0, <3>1, <3>2
    <3>4. Head(writes'[s]) = writes'[s][1]
      BY <3>2, <3>3, HeadTail
    <3> QED
      BY <3>2, <3>3, <3>4 DEF Complete
  <2>2. CASE Lose(s)
    <3>1. link = "down" \/ sock[s] = "closed" \/ sock[r] = "closed"
      BY <2>2, Peers DEF Lose, Broken
    <3> QED
      BY <1>3, <3>1 DEF Complete
  <2> QED
    BY <2>1, <2>2
<1> HIDE DEF x
<1>6. ASSUME Listening(r)'
      PROVE  WireInv(q, wire'[s], x, WritePlace(q, d, writes'[s]), Complete(s)')
  <2>1. PICK z : Path(FrameSteps(q), wire[s], x, z)
    BY <1>1, <1>4, <1>6 DEF WireInv
  <2>2. \E y : Path(FrameSteps(q), wire'[s], x, y)
    <3>1. CASE WriteFails(s)
      <4>1. wire' = wire
        BY <3>1 DEF WriteFails
      <4> QED
        BY <2>1, <4>1
    <3>2. CASE Lose(s)
      <4>1. PICK n \in 0 .. Len(wire[s]) - 1 : wire'[s] = SubSeq(wire[s], 1, n)
        BY <1>0, <3>2 DEF Lose, TypeOK
      <4>2. n \in 0 .. Len(wire[s])
        BY <1>0
      <4> QED
        BY <1>0, <2>1, <4>1, <4>2, PathPrefix
    <3> QED
      BY <3>1, <3>2
  <2> QED
    BY <1>5, <2>2 DEF WireInv
<1> QED
  BY <1>1, <1>2, <1>3, <1>6, DirectionMade DEF x
(***************************************************************************)
(* The side that reads: r is the peer of the sender s.                     *)
(***************************************************************************)
LEMMA HeaderDirection ==
  ASSUME WriterInv, NEW s \in Sides, NEW r, r = Peer(s), DirectionInv(s), GotHeader(r)
  PROVE  DirectionInv(s)'
<1> DEFINE q == sent[s]
           n == Len(inq[r])
           packet == temp[r]
           x == ReadPlace(q, n, read[r])
<1>0. /\ r \in Sides /\ q \in Seq(Packets) /\ inq[r] \in Seq(Received)
      /\ packet \in Received /\ n \in Nat /\ TypeOK
  <2>1. r \in Sides /\ TypeOK
    BY Peers, WriterInvParts
  <2> QED
    BY <2>1 DEF TypeOK
<1>1. PICK d \in Nat :
        /\ QueueInv(q, outq[s], tasks[s], d)
        /\ Listening(r) => WireInv(q, wire[s], x, WritePlace(q, d, writes[s]), Complete(s))
  BY DirectionParts
<1>2. ReadInv(q, read[r], packet, inq[r])
  BY DirectionParts
<1>3. /\ UNCHANGED <<link, sock, tasks, outq, writes, wire, inq, sent>>
      /\ read[r].kind = "header" /\ read[r].status = "ok"
      /\ read'[r].kind = "body"
      /\ read'[r].status = IF packet.header \in HeaderOnly THEN "ok" ELSE "pending"
      /\ temp'[r] = [packet EXCEPT !.body = NoBody]
  BY <1>0 DEF GotHeader, ReadDone, TypeOK
<1>4. n < Len(q) /\ packet.header = q[n + 1]
  BY <1>2, <1>3 DEF ReadInv
<1>5. temp'[r] = [header |-> q[n + 1], body |-> NoBody]
  BY <1>0, <1>3, <1>4 DEF Received
<1>6. ReadInv(q, read'[r], temp'[r], inq'[r])
  BY <1>2, <1>3, <1>4, <1>5 DEF ReadInv, Whole
<1>7. ReadPlace(q, n, read'[r]) = x
  <2>1. x = Behind(q, PlaceOf(n + 1, "header"))
    BY <1>3 DEF ReadPlace
  <2>2. ReadPlace(q, n, read'[r]) =
          IF q[n + 1] \in HeaderOnly THEN Behind(q, PlaceOf(n + 1, "body"))
          ELSE PlaceOf(n + 1, "body")
    BY <1>3, <1>4 DEF ReadPlace
  <2>3. n + 1 \in Nat
    BY <1>0
  <2> HIDE DEF x, n, q
  <2> QED
    BY <2>1, <2>2, <2>3, Behinds
<1>8. Listening(r)' = Listening(r) /\ Complete(s)' = Complete(s)
  BY <1>3 DEF Listening, Complete
<1> HIDE DEF x
<1> QED
  BY <1>1, <1>3, <1>6, <1>7, <1>8, DirectionMade

LEMMA BodyDirection ==
  ASSUME WriterInv, NEW s \in Sides, NEW r, r = Peer(s), DirectionInv(s), GotBody(r)
  PROVE  DirectionInv(s)'
<1> DEFINE q == sent[s]
           n == Len(inq[r])
           x == ReadPlace(q, n, read[r])
<1>0. /\ r \in Sides /\ q \in Seq(Packets) /\ inq[r] \in Seq(Received)
      /\ temp[r] \in Received /\ n \in Nat /\ Len(q) \in Nat /\ TypeOK
  <2>1. r \in Sides /\ TypeOK
    BY Peers, WriterInvParts
  <2> QED
    BY <2>1 DEF TypeOK
<1>1. PICK d \in Nat :
        /\ QueueInv(q, outq[s], tasks[s], d)
        /\ Listening(r) => WireInv(q, wire[s], x, WritePlace(q, d, writes[s]), Complete(s))
  BY DirectionParts
<1>2. ReadInv(q, read[r], temp[r], inq[r])
  BY DirectionParts
<1>3. /\ UNCHANGED <<link, sock, tasks, outq, writes, wire, temp, sent>>
      /\ read[r].kind = "body" /\ read[r].status = "ok"
      /\ read'[r].kind = "header" /\ read'[r].status = "pending"
      /\ inq'[r] = Append(inq[r], temp[r])
  BY <1>0 DEF GotBody, ReadDone, Op, TypeOK
<1>4. n < Len(q) /\ temp[r] = Whole(q[n + 1])
  BY <1>2, <1>3 DEF ReadInv
<1>5. /\ Len(inq'[r]) = n + 1 /\ inq'[r][n + 1] = temp[r]
      /\ \A k \in 1 .. n : inq'[r][k] = inq[r][k]
  BY <1>0, <1>3, AppendProperties
<1>6. ReadInv(q, read'[r], temp'[r], inq'[r])
  <2>1. \A k \in 1 .. n + 1 : k \in 1 .. n \/ k = n + 1
    BY <1>0
  <2>2. \A k \in 1 .. Len(inq'[r]) : inq'[r][k] = Whole(q[k])
    <3> HIDE DEF n
    <3> QED
      BY <1>2, <1>4, <1>5, <2>1 DEF ReadInv, n
  <2>3. Len(inq'[r]) <= Len(q)
    BY <1>0, <1>4, <1>5
  <2> QED
    BY <1>3, <2>2, <2>3 DEF ReadInv
<1>7. ReadPlace(q, Len(inq'[r]), read'[r]) = x
  <2>1. x = Behind(q, PlaceOf(n + 1, "body"))
    BY <1>3 DEF ReadPlace
  <2>2. ReadPlace(q, n + 1, read'[r]) = PlaceOf((n + 1) + 1, "header")
    BY <1>3 DEF ReadPlace
  <2>3. n + 1 \in Nat
    BY <1>0
  <2> HIDE DEF x, n, q
  <2> QED
    BY <1>5, <2>1, <2>2, <2>3, Behinds
<1>8. Listening(r)' = Listening(r) /\ Complete(s)' = Complete(s)
  BY <1>3 DEF Listening, Complete
<1> HIDE DEF x
<1> QED
  BY <1>1, <1>3, <1>6, <1>7, <1>8, DirectionMade

\* A read that failed, and its handler: nobody listens any more.
LEMMA DeafDirection ==
  ASSUME WriterInv, NEW s \in Sides, NEW r, r = Peer(s), DirectionInv(s),
         ReadError(r) \/ ReadFails(r)
  PROVE  DirectionInv(s)'
<1> DEFINE q == sent[s]
<1>0. r \in Sides /\ TypeOK
  BY Peers, WriterInvParts
<1>1. PICK d \in Nat : QueueInv(q, outq[s], tasks[s], d)
  BY DirectionParts
<1>2. ReadInv(q, read[r], temp[r], inq[r])
  BY DirectionParts
<1>3. UNCHANGED <<link, tasks, outq, writes, wire, temp, inq, sent>>
  BY DEF ReadError, ReadFails
<1>4. CASE ReadError(r)
  <2>1. read'[r].kind = "none" /\ ~ Listening(r)'
    BY <1>0, <1>4 DEF ReadError, CloseSocket, NoRead, TypeOK, Listening
  <2>2. ReadInv(q, read'[r], temp'[r], inq'[r])
    BY <1>2, <1>3, <2>1 DEF ReadInv
  <2> QED
    BY <1>1, <1>3, <2>1, <2>2, DirectionMade
<1>5. CASE ReadFails(r)
  <2>1. read[r] \in [kind : {"header", "body"}, status : OpStates]
    BY <1>0, <1>5 DEF ReadFails, TypeOK, Reads, NoRead
  <2>2. read'[r] = [read[r] EXCEPT !.status = "err"]
    BY <1>0, <1>5 DEF ReadFails, TypeOK
  <2>3. read'[r].kind = read[r].kind /\ read'[r].status = "err"
    BY <2>1, <2>2
  <2>4. ReadInv(q, read'[r], temp'[r], inq'[r])
    BY <1>2, <1>3, <2>3 DEF ReadInv
  <2>5. ~ Listening(r)'
    BY <2>3 DEF Listening
  <2> QED
    BY <1>1, <1>3, <2>4, <2>5, DirectionMade
<1> QED
  BY <1>4, <1>5
\* What arrives is the frame the read asked for.
LEMMA DeliverDirection ==
  ASSUME WriterInv, NEW s \in Sides, NEW r, r = Peer(s), DirectionInv(s), Deliver(r)
  PROVE  DirectionInv(s)'
<1> DEFINE q == sent[s]
           n == Len(inq[r])
           w == wire[s]
           x == ReadPlace(q, n, read[r])
<1>a. r \in Sides /\ Peer(r) = s /\ TypeOK
  BY Peers, WriterInvParts
<1>0. /\ q \in Seq(Packets) /\ w \in Seq(Frames) /\ temp[r] \in Received
      /\ n \in Nat /\ Len(q) \in Nat
  BY <1>a DEF TypeOK
<1>1. PICK d \in Nat :
        /\ QueueInv(q, outq[s], tasks[s], d)
        /\ Listening(r) => WireInv(q, w, x, WritePlace(q, d, writes[s]), Complete(s))
  BY DirectionParts
<1>2. ReadInv(q, read[r], temp[r], inq[r])
  BY DirectionParts
<1>3. /\ UNCHANGED <<link, sock, tasks, outq, writes, inq, sent>>
      /\ sock[r] = "open" /\ read[r].kind # "none" /\ read[r].status = "pending"
      /\ w # <<>> /\ wire'[s] = Tail(w)
  BY <1>a DEF Deliver, TypeOK
<1>4. /\ read[r] \in [kind : {"header", "body"}, status : OpStates]
      /\ read'[r].kind = read[r].kind /\ read'[r].status = "ok"
  <2>1. read[r] \in [kind : {"header", "body"}, status : OpStates]
    BY <1>a, <1>3 DEF TypeOK, Reads, NoRead
  <2>2. read'[r] = [read[r] EXCEPT !.status = "ok"]
    BY <1>a DEF Deliver, TypeOK
  <2> QED
    BY <2>1, <2>2
<1>5. Listening(r)
  BY <1>3 DEF Listening
<1>6. x = PlaceOf(n + 1, read[r].kind)
  BY <1>3 DEF ReadPlace
<1>7. x \in Place /\ x.index = n + 1 /\ x.kind = read[r].kind
  <2>1. n + 1 \in Nat
    BY <1>0
  <2> HIDE DEF x, n
  <2> QED
    BY <1>4, <1>6, <2>1, PlaceParts
<1>8. /\ n + 1 \in 1 .. Len(q)
      /\ Head(w) = FrameAt(q, x)
      /\ WireInv(q, Tail(w), Behind(q, x), WritePlace(q, d, writes[s]), Complete(s))
  <2> HIDE DEF x, q, w
  <2>1. PICK z : Path(FrameSteps(q), w, x, z) /\ (Complete(s) => z = WritePlace(q, d, writes[s]))
    BY <1>1, <1>5 DEF WireInv
  <2>2. PICK y : <<x, Head(w), y>> \in FrameSteps(q) /\ Path(FrameSteps(q), Tail(w), y, z)
    BY <1>0, <1>3, <2>1, PathTail
  <2>3. x.index \in 1 .. Len(q) /\ Head(w) = FrameAt(q, x) /\ y = Behind(q, x)
    BY <2>2, FrameStep
  <2> QED
    BY <1>7, <2>1, <2>2, <2>3 DEF WireInv
<1>9. Head(w).kind = read[r].kind /\ Head(w).packet = q[n + 1]
  BY <1>7, <1>8 DEF FrameAt
<1> HIDE DEF x
<1>10. ReadInv(q, read'[r], temp'[r], inq'[r])
  <2>1. CASE read[r].kind = "header"
    <3>1. temp'[r] = [temp[r] EXCEPT !.header = q[n + 1]]
      BY <1>a, <1>9, <2>1 DEF Deliver, TypeOK
    <3>2. temp'[r].header = q[n + 1]
      BY <1>0, <3>1 DEF Received
    <3> QED
      BY <1>0, <1>2, <1>3, <1>4, <1>8, <2>1, <3>2 DEF ReadInv
  <2>2. CASE read[r].kind = "body"
    <3>1. temp'[r] = [temp[r] EXCEPT !.body = q[n + 1]]
      BY <1>a, <1>9, <2>2 DEF Deliver, TypeOK
    <3>2. n < Len(q) /\ temp[r].header = q[n + 1] /\ q[n + 1] \notin HeaderOnly
      BY <1>2, <1>3, <2>2 DEF ReadInv
    <3>3. temp'[r] = Whole(q[n + 1]) /\ temp'[r].header = q[n + 1]
      BY <1>0, <3>1, <3>2 DEF Received, Whole
    <3> QED
      BY <1>2, <1>3, <1>4, <2>2, <3>2, <3>3 DEF ReadInv
  <2> QED
    BY <1>4, <2>1, <2>2
<1>11. ReadPlace(q, Len(inq'[r]), read'[r]) = Behind(q, x)
  BY <1>3, <1>4, <1>6 DEF ReadPlace
<1>12. Listening(r)' /\ Complete(s)' = Complete(s)
  BY <1>3, <1>4 DEF Listening, Complete
<1> QED
  BY <1>1, <1>3, <1>8, <1>10, <1>11, <1>12, DirectionMade
(***************************************************************************)
(* Steps of the other direction, and of the connection.                    *)
(***************************************************************************)
LEMMA OtherDirection ==
  ASSUME TypeOK, NEW s \in Sides, NEW r, r = Peer(s), DirectionInv(s),
         \/ (\E p \in Packets : SendPacket(r, p)) \/ Disconnect(r)
         \/ RunSend(r) \/ RunClose(r)
         \/ WroteHeader(r) \/ WroteLast(r) \/ WriteError(r)
         \/ Transmit(r) \/ WriteFails(r) \/ Lose(r)
         \/ GotHeader(s) \/ GotBody(s) \/ ReadError(s) \/ Deliver(s) \/ ReadFails(s)
  PROVE  DirectionInv(s)'
<1>0. r \in Sides /\ r # s
  BY Peers
<1> USE DEF TypeOK
<1>1. CASE \/ (\E p \in Packets : SendPacket(r, p)) \/ Disconnect(r)
           \/ RunSend(r) \/ RunClose(r) \/ WroteHeader(r) \/ WroteLast(r)
           \/ WriteError(r) \/ Transmit(r) \/ WriteFails(r) \/ Lose(r)
  <2>1. /\ sent'[s] = sent[s] /\ tasks'[s] = tasks[s] /\ outq'[s] = outq[s]
        /\ writes'[s] = writes[s] /\ wire'[s] = wire[s]
    <3>1. sent'[s] = sent[s] /\ tasks'[s] = tasks[s]
      BY <1>0, <1>1 DEF SendPacket, Disconnect, RunSend, RunClose, WroteHeader,
         WroteLast, WriteError, Transmit, WriteFails, Lose
    <3>2. outq'[s] = outq[s]
      BY <1>0, <1>1 DEF SendPacket, Disconnect, RunSend, RunClose, WroteHeader,
         WroteLast, WriteError, Transmit, WriteFails, Lose
    <3>3. writes'[s] = writes[s]
      <4>1. CASE Transmit(r) \/ WriteFails(r)
        BY <1>0, <4>1, FirstWrite DEF Transmit, WriteFails, OpStates
      <4>2. CASE RunSend(r)
        BY <1>0, <4>2 DEF RunSend
      <4>3. CASE WroteHeader(r) \/ WroteLast(r) \/ WriteError(r)
        BY <1>0, <4>3 DEF WroteHeader, WroteLast, WriteError
      <4>4. CASE \/ (\E p \in Packets : SendPacket(r, p)) \/ Disconnect(r)
                 \/ RunClose(r) \/ Lose(r)
        BY <4>4 DEF SendPacket, Disconnect, RunClose, Lose
      <4> QED
        BY <1>1, <4>1, <4>2, <4>3, <4>4
    <3>4. wire'[s] = wire[s]
      BY <1>0, <1>1 DEF SendPacket, Disconnect, RunSend, RunClose, WroteHeader,
         WroteLast, WriteError, Transmit, WriteFails, Lose
    <3> QED
      BY <3>1, <3>2, <3>3, <3>4
  <2>2. UNCHANGED <<read, temp, inq, link>>
    BY <1>1 DEF SendPacket, Disconnect, RunSend, RunClose, WroteHeader, WroteLast,
       WriteError, Transmit, WriteFails, Lose
  <2>3. sock'[s] = sock[s] /\ (sock'[r] = sock[r] \/ sock'[r] = "closed")
    BY <1>0, <1>1 DEF SendPacket, Disconnect, RunSend, RunClose, WroteHeader, WroteLast,
       WriteError, Transmit, WriteFails, Lose, CloseSocket
  <2>4. (Listening(r)' => Listening(r)) /\ (Complete(s)' => Complete(s))
    BY <2>1, <2>2, <2>3 DEF Listening, Complete
  <2> QED
    BY <2>1, <2>2, <2>4, DirectionSame
<1>2. CASE GotHeader(s) \/ GotBody(s) \/ ReadError(s) \/ Deliver(s) \/ ReadFails(s)
  <2>1. UNCHANGED <<sent, tasks, outq, writes, link>> /\ wire'[s] = wire[s]
    BY <1>0, <1>2 DEF GotHeader, GotBody, ReadError, Deliver, ReadFails
  <2>2. read'[r] = read[r] /\ temp'[r] = temp[r] /\ inq'[r] = inq[r]
    BY <1>0, <1>2 DEF GotHeader, GotBody, ReadError, Deliver, ReadFails
  <2>3. sock'[r] = sock[r] /\ (sock'[s] = sock[s] \/ sock'[s] = "closed")
    BY <1>0, <1>2 DEF GotHeader, GotBody, ReadError, Deliver, ReadFails, CloseSocket
  <2>4. (Listening(r)' => Listening(r)) /\ (Complete(s)' => Complete(s))
    BY <2>1, <2>2, <2>3 DEF Listening, Complete
  <2> QED
    BY <2>1, <2>2, <2>4, DirectionSame
<1> QED
  BY <1>1, <1>2

\* The first read of a session.
LEMMA FirstRead ==
  ASSUME NEW s \in Sides, NEW r, r = Peer(s), DirectionInv(s),
         UNCHANGED <<link, tasks, outq, writes, wire, temp, inq, sent>>,
         read[r] = NoRead, read'[r] = Op("header"), sock'[s] = sock[s],
         sock[r] # "closed" \/ sock'[r] = "closed"
  PROVE  DirectionInv(s)'
<1> DEFINE q == sent[s]
           x == ReadPlace(q, Len(inq[r]), read[r])
<1>1. PICK d \in Nat :
        /\ QueueInv(q, outq[s], tasks[s], d)
        /\ Listening(r) => WireInv(q, wire[s], x, WritePlace(q, d, writes[s]), Complete(s))
  BY DirectionParts
<1>2. ReadInv(q, read[r], temp[r], inq[r])
  BY DirectionParts
<1>3. ReadInv(q, read'[r], temp'[r], inq'[r])
  BY <1>2 DEF ReadInv, Op
<1>4. ReadPlace(q, Len(inq'[r]), read'[r]) = x
  BY DEF ReadPlace, PlaceOf, Op, NoRead
<1>5. (Listening(r)' => Listening(r)) /\ (Complete(s)' => Complete(s))
  BY DEF Listening, Complete, NoRead
<1> HIDE DEF x, q
<1>6. ASSUME Listening(r)'
      PROVE  WireInv(q, wire'[s], x, WritePlace(q, d, writes'[s]), Complete(s)')
  BY <1>1, <1>5, <1>6, WireWeakens
<1> QED
  BY <1>1, <1>3, <1>4, <1>6, DirectionMade DEF q

LEMMA ConnectionDirection ==
  ASSUME TypeOK, OpeningInv, NEW s \in Sides, DirectionInv(s),
         Connected \/ Accept \/ Establish \/ Refuse \/ Cut
  PROVE  DirectionInv(s)'
<1>0. Peer(s) \in Sides /\ Peer(s) # s
  BY Peers
<1>1. CASE Connected
  <2>1. CASE connect = "ok" /\ s = Server
    <3>1. read[Client] = NoRead /\ read'[Client] = Op("header")
      BY <1>1, <2>1, Peers DEF Connected, OpeningInv, TypeOK
    <3> QED
      BY <1>1, <2>1, <3>1, FirstRead, Peers DEF Connected
  <2>2. CASE ~ (connect = "ok" /\ s = Server)
    <3>1. read'[Peer(s)] = read[Peer(s)]
      BY <1>1, <2>2, Peers DEF Connected, TypeOK
    <3>2. UNCHANGED <<link, sock, tasks, outq, writes, wire, temp, inq, sent>>
      BY <1>1 DEF Connected
    <3>3. (Listening(Peer(s))' => Listening(Peer(s))) /\ (Complete(s)' => Complete(s))
      BY <3>1, <3>2 DEF Listening, Complete
    <3> QED
      BY <3>1, <3>2, <3>3, DirectionSame
  <2> QED
    BY <2>1, <2>2
<1>2. CASE Accept
  <2>1. /\ UNCHANGED <<link, tasks, outq, writes, wire, temp, inq, sent>>
        /\ sock[Server] = "none" /\ sock' = [sock EXCEPT ![Server] = "open"]
        /\ read' = [read EXCEPT ![Server] = Op("header")]
    BY <1>2 DEF Accept
  <2>2. CASE s = Client
    <3>1. read[Server] = NoRead /\ read'[Server] = Op("header")
      BY <2>1, Peers DEF OpeningInv, TypeOK
    <3>2. sock'[s] = sock[s]
      BY <2>1, <2>2, Peers DEF TypeOK
    <3> QED
      BY <2>1, <2>2, <3>1, <3>2, FirstRead, Peers
  <2>3. CASE s = Server
    <3>1. read'[Peer(s)] = read[Peer(s)] /\ sock'[Peer(s)] = sock[Peer(s)]
      BY <2>1, <2>3, Peers DEF TypeOK
    <3>2. (Listening(Peer(s))' => Listening(Peer(s))) /\ (Complete(s)' => Complete(s))
      BY <2>1, <2>3, <3>1 DEF Listening, Complete
    <3> QED
      BY <2>1, <3>1, <3>2, DirectionSame
  <2> QED
    BY <2>2, <2>3, Peers
<1>3. CASE Establish \/ Refuse \/ Cut
  <2>1. UNCHANGED <<tasks, outq, writes, wire, read, temp, inq, sent>>
    BY <1>3 DEF Establish, Refuse, Cut
  <2>2. \A r \in Sides : sock[r] = "closed" => sock'[r] = "closed"
    BY <1>3, Peers DEF Establish, Refuse, Cut, TypeOK
  <2>3. link = "down" => link' = "down"
    BY <1>3 DEF Establish, Refuse, Cut, OpeningInv
  <2>4. (Listening(Peer(s))' => Listening(Peer(s))) /\ (Complete(s)' => Complete(s))
    BY <1>0, <2>1, <2>2, <2>3 DEF Listening, Complete
  <2> QED
    BY <2>1, <2>4, DirectionSame
<1> QED
  BY <1>1, <1>2, <1>3

LEMMA OpeningStep ==
  ASSUME TypeOK, OpeningInv, Next
  PROVE  OpeningInv'
<1> USE DEF TypeOK, OpeningInv
<1>1. CASE Connected \/ Accept \/ Establish \/ Refuse \/ Cut
  BY <1>1, Peers DEF Connected, Accept, Establish, Refuse, Cut
<1>2. ASSUME NEW s \in Sides,
             \/ (\E p \in Packets : SendPacket(s, p)) \/ Disconnect(s)
             \/ RunSend(s) \/ WroteHeader(s) \/ WroteLast(s)
             \/ Transmit(s) \/ WriteFails(s) \/ Lose(s)
      PROVE  OpeningInv'
  <2>1. UNCHANGED <<link, sock, connect, read>>
    BY <1>2 DEF SendPacket, Disconnect, RunSend, WroteHeader, WroteLast, Transmit,
       WriteFails, Lose
  <2> QED
    BY <2>1
<1>3. ASSUME NEW s \in Sides, RunClose(s) \/ WriteError(s)
      PROVE  OpeningInv'
  <2>1. UNCHANGED <<link, connect, read>> /\ sock' = [sock EXCEPT ![s] = "closed"]
    BY <1>3 DEF RunClose, WriteError, CloseSocket
  <2> QED
    BY <2>1, Peers
<1>4. ASSUME NEW s \in Sides,
             GotHeader(s) \/ GotBody(s) \/ ReadError(s) \/ Deliver(s) \/ ReadFails(s)
      PROVE  OpeningInv'
  <2>1. read[s] # NoRead
    BY <1>4 DEF GotHeader, GotBody, ReadError, Deliver, ReadFails, ReadDone, NoRead
  <2>2. UNCHANGED <<link, connect>> /\ \A r \in Sides \ {s} : read'[r] = read[r]
    BY <1>4 DEF GotHeader, GotBody, ReadError, Deliver, ReadFails
  <2>3. \A r \in Sides : sock'[r] = sock[r] \/ sock'[r] = "closed"
    BY <1>4 DEF GotHeader, GotBody, ReadError, Deliver, ReadFails, CloseSocket
  <2> QED
    BY <2>1, <2>2, <2>3, Peers
<1> QED
  BY <1>1, <1>2, <1>3, <1>4 DEF Next, Handler, Network
LEMMA FifoInit == Init => FifoInv
<1> SUFFICES ASSUME Init PROVE FifoInv
  OBVIOUS
<1>1. WriterInv
  BY InitTyped DEF WriterInv, SingleWriter, WriteChainAlive, Init
<1>2. OpeningInv
  BY Peers DEF OpeningInv, Init, NoRead
<1>3. ASSUME NEW s \in Sides
      PROVE  DirectionInv(s)
  <2> DEFINE r == Peer(s)
             x == PlaceOf(1, "header")
  <2>1. /\ sent[s] = <<>> /\ outq[s] = <<>> /\ tasks[s] = <<>> /\ writes[s] = <<>>
        /\ wire[s] = <<>> /\ read[r] = NoRead /\ inq[r] = <<>>
    BY Peers DEF Init
  <2>2. QueueInv(<<>>, <<>>, <<>>, 0)
    <3>1. Path(PacketSteps(<<>>), <<>>, 0, 0) /\ Len(<<>>) = 0
      BY PathEmpty
    <3> QED
      BY <3>1 DEF QueueInv
  <2>3. ReadInv(<<>>, NoRead, temp[r], <<>>)
    BY DEF ReadInv, NoRead
  <2>4. WireInv(<<>>, <<>>, x, x, Complete(s))
    <3>1. Path(FrameSteps(<<>>), <<>>, x, x)
      BY PathEmpty
    <3> QED
      BY <3>1 DEF WireInv
  <2>5. ReadPlace(<<>>, Len(<<>>), NoRead) = x /\ WritePlace(<<>>, 0, <<>>) = x
    BY DEF ReadPlace, WritePlace, PlaceOf, NoRead
  <2> HIDE DEF x
  <2> QED
    BY <2>1, <2>2, <2>3, <2>4, <2>5 DEF DirectionInv
<1> QED
  BY <1>1, <1>2, <1>3 DEF FifoInv

LEMMA FifoStep == FifoInv /\ [Next]_vars => FifoInv'
<1> SUFFICES ASSUME FifoInv, [Next]_vars
             PROVE  FifoInv'
  OBVIOUS
<1>0. WriterInv /\ TypeOK /\ OpeningInv /\ \A s \in Sides : DirectionInv(s)
  BY DEF FifoInv, WriterInv
<1>1. WriterInv'
  BY <1>0, WriterStep
<1>2. CASE UNCHANGED vars
  <2>1. OpeningInv'
    BY <1>0, <1>2 DEF OpeningInv, vars
  <2>2. ASSUME NEW s \in Sides
        PROVE  DirectionInv(s)'
    <3>1. /\ UNCHANGED <<sent, tasks, outq, writes, wire, read, temp, inq>>
          /\ Listening(Peer(s))' = Listening(Peer(s)) /\ Complete(s)' = Complete(s)
      BY <1>2 DEF vars, Listening, Complete
    <3> QED
      BY <1>0, <3>1, DirectionSame
  <2> QED
    BY <1>1, <2>1, <2>2 DEF FifoInv
<1>3. CASE Next
  <2>1. OpeningInv'
    BY <1>0, <1>3, OpeningStep
  <2>2. ASSUME NEW s \in Sides
        PROVE  DirectionInv(s)'
    <3> DEFINE Sends(a)  == (\E p \in Packets : SendPacket(a, p)) \/ Disconnect(a)
               Posted(a) == RunSend(a) \/ RunClose(a)
               Wrote(a)  == WroteHeader(a) \/ WroteLast(a) \/ WriteError(a)
               Moves(a)  == Transmit(a) \/ WriteFails(a) \/ Lose(a)
               ReadSteps(a) == GotHeader(a) \/ GotBody(a) \/ ReadError(a)
                                 \/ Deliver(a) \/ ReadFails(a)
    <3>0. Peer(s) \in Sides /\ \A a \in Sides : a = s \/ a = Peer(s)
      BY Peers
    <3>1. CASE Connected \/ Accept \/ Establish \/ Refuse \/ Cut
      BY <1>0, <3>1, ConnectionDirection
    <3>2. CASE Sends(s) \/ Posted(s) \/ Wrote(s) \/ Moves(s)
      BY <1>0, <3>2, SendDirection, PostedDirection, WroteDirection, TransmitDirection,
         LossDirection
    <3>3. CASE ReadSteps(s)
      BY <1>0, <3>3, OtherDirection
    <3>4. CASE Sends(Peer(s)) \/ Posted(Peer(s)) \/ Wrote(Peer(s)) \/ Moves(Peer(s))
      BY <1>0, <3>4, OtherDirection
    <3>5. CASE ReadSteps(Peer(s))
      BY <1>0, <3>5, HeaderDirection, BodyDirection, DeafDirection, DeliverDirection
    <3>6. \/ Connected \/ Accept \/ Establish \/ Refuse \/ Cut
          \/ \E a \in Sides : Sends(a) \/ Posted(a) \/ Wrote(a) \/ Moves(a) \/ ReadSteps(a)
      BY <1>3 DEF Next, Handler, Network
    <3> HIDE DEF Sends, Posted, Wrote, Moves, ReadSteps
    <3> QED
      BY <3>0, <3>1, <3>2, <3>3, <3>4, <3>5, <3>6
  <2> QED
    BY <1>1, <2>1, <2>2 DEF FifoInv
<1> QED
  BY <1>2, <1>3

THEOREM FifoCorrect == Spec => []FifoInv
BY FifoInit, FifoStep, PTL DEF Spec
-----------------------------------------------------------------------------
(***************************************************************************)
(* A step of a session, as users of the two directions see it.             *)
(***************************************************************************)
LEMMA SentTyped ==
  ASSUME NEW q \in Seq(Packets), NEW w, w = [i \in DOMAIN q |-> Whole(q[i])]
  PROVE  w \in Seq(Received) /\ Len(w) = Len(q) /\ \A i \in 1 .. Len(q) : w[i] = Whole(q[i])
<1>1. \A i \in 1 .. Len(q) : q[i] \in Packets /\ Whole(q[i]) \in Received
  BY DEF Whole, Received
<1>2. DOMAIN q = 1 .. Len(q) /\ Len(q) \in Nat
  OBVIOUS
<1>3. w \in [1 .. Len(q) -> Received]
  BY <1>1, <1>2
<1>4. w \in Seq(Received) /\ Len(w) = Len(q)
  BY <1>2, <1>3
<1> QED
  BY <1>2, <1>4

LEMMA SentGrows ==
  ASSUME NEW q \in Seq(Packets), NEW p \in Packets,
         NEW w, w = [i \in DOMAIN q |-> Whole(q[i])],
         NEW v, v = [i \in DOMAIN Append(q, p) |-> Whole(Append(q, p)[i])]
  PROVE  v = Append(w, Whole(p))
<1>1. /\ w \in Seq(Received) /\ Len(w) = Len(q) /\ \A i \in 1 .. Len(q) : w[i] = Whole(q[i])
  BY SentTyped
<1>2. /\ Append(q, p) \in Seq(Packets) /\ Len(Append(q, p)) = Len(q) + 1
      /\ Append(q, p)[Len(q) + 1] = p
      /\ \A i \in 1 .. Len(q) : Append(q, p)[i] = q[i]
      /\ Len(q) \in Nat
  BY AppendProperties
<1>3. /\ v \in Seq(Received) /\ Len(v) = Len(q) + 1
      /\ \A i \in 1 .. Len(q) + 1 : v[i] = Whole(Append(q, p)[i])
  <2> DEFINE a == Append(q, p)
  <2>1. a \in Seq(Packets) /\ v = [i \in DOMAIN a |-> Whole(a[i])] /\ Len(a) = Len(q) + 1
    BY <1>2
  <2> HIDE DEF a
  <2>2. v \in Seq(Received) /\ Len(v) = Len(a) /\ \A i \in 1 .. Len(a) : v[i] = Whole(a[i])
    BY <2>1, SentTyped
  <2> QED
    BY <2>1, <2>2 DEF a
<1>4. Whole(p) \in Received
  BY DEF Whole, Received
<1>5. /\ Append(w, Whole(p)) \in Seq(Received) /\ Len(Append(w, Whole(p))) = Len(q) + 1
      /\ Append(w, Whole(p))[Len(q) + 1] = Whole(p)
      /\ \A i \in 1 .. Len(q) : Append(w, Whole(p))[i] = w[i]
  BY <1>1, <1>4, AppendProperties
<1>6. \A i \in 1 .. Len(q) + 1 : v[i] = Append(w, Whole(p))[i]
  <2>1. \A i \in 1 .. Len(q) + 1 : i \in 1 .. Len(q) \/ i = Len(q) + 1
    BY <1>2
  <2> QED
    BY <1>1, <1>2, <1>3, <1>5, <2>1
<1> QED
  BY <1>3, <1>5, <1>6, SeqEqual
\* A packet is sent, the next one is received, or nothing happens.
LEMMA ChannelStep ==
  ASSUME FifoInv, [Next]_vars, NEW s \in Sides, NEW r, r = Peer(s)
  PROVE  \/ UNCHANGED <<SentBy(s), inq[r]>>
         \/ /\ \E p \in Packets : SentBy(s)' = Append(SentBy(s), Whole(p))
            /\ UNCHANGED inq[r]
         \/ /\ Len(inq[r]) < Len(SentBy(s))
            /\ inq'[r] = Append(inq[r], SentBy(s)[Len(inq[r]) + 1])
            /\ UNCHANGED SentBy(s)
<1> DEFINE q == sent[s]
           w == SentBy(s)
<1>0. TypeOK /\ DirectionInv(s) /\ r \in Sides
  BY Peers DEF FifoInv, WriterInv
<1>1. /\ q \in Seq(Packets) /\ inq[r] \in Seq(Received)
      /\ w = [i \in DOMAIN q |-> Whole(q[i])]
  BY <1>0 DEF TypeOK, SentBy
<1>2. Len(w) = Len(q) /\ \A i \in 1 .. Len(q) : w[i] = Whole(q[i])
  <2> HIDE DEF w, q
  <2> QED
    BY <1>1, SentTyped
<1>3. sent'[s] = sent[s] => SentBy(s)' = w
  BY DEF SentBy
<1>4. ASSUME NEW p \in Packets, NEW a \in Sides, SendPacket(a, p)
      PROVE  \/ UNCHANGED <<SentBy(s), inq[r]>>
             \/ SentBy(s)' = Append(SentBy(s), Whole(p)) /\ UNCHANGED inq[r]
  <2>1. inq' = inq
    BY <1>4 DEF SendPacket
  <2>2. CASE a # s
    <3>1. sent'[s] = sent[s]
      BY <1>0, <1>4, <2>2 DEF SendPacket, TypeOK
    <3> QED
      BY <1>3, <2>1, <3>1
  <2>3. CASE a = s
    <3>1. sent'[s] = Append(q, p)
      BY <1>0, <1>4, <2>3 DEF SendPacket, TypeOK
    <3>2. SentBy(s)' = [i \in DOMAIN Append(q, p) |-> Whole(Append(q, p)[i])]
      BY <3>1 DEF SentBy
    <3> HIDE DEF w, q
    <3>3. SentBy(s)' = Append(w, Whole(p))
      BY <1>1, <3>2, SentGrows
    <3> QED
      BY <2>1, <3>3 DEF w
  <2> QED
    BY <2>2, <2>3
<1>5. ASSUME GotBody(r)
      PROVE  /\ Len(inq[r]) < Len(SentBy(s))
             /\ inq'[r] = Append(inq[r], SentBy(s)[Len(inq[r]) + 1])
             /\ UNCHANGED SentBy(s)
  <2>1. read[r].kind = "body" /\ read[r].status = "ok"
    BY <1>5 DEF GotBody, ReadDone
  <2>2. inq'[r] = Append(inq[r], temp[r]) /\ sent' = sent
    BY <1>0, <1>5 DEF GotBody, TypeOK
  <2>3. ReadInv(q, read[r], temp[r], inq[r])
    BY <1>0, DirectionParts
  <2>4. Len(inq[r]) < Len(q) /\ temp[r] = Whole(q[Len(inq[r]) + 1])
    BY <2>1, <2>3 DEF ReadInv
  <2>5. Len(inq[r]) + 1 \in 1 .. Len(q)
    BY <1>1, <2>4
  <2>6. temp[r] = w[Len(inq[r]) + 1]
    BY <1>2, <2>4, <2>5
  <2> HIDE DEF w
  <2> QED
    BY <1>2, <1>3, <2>2, <2>4, <2>6 DEF w
<1>6. ASSUME NEW a \in Sides, a # r, GotBody(a)
      PROVE  UNCHANGED <<sent, inq[r]>>
  BY <1>0, <1>6 DEF GotBody, TypeOK
<1>7. \/ \E a \in Sides : (\E p \in Packets : SendPacket(a, p)) \/ GotBody(a)
      \/ UNCHANGED <<sent, inq>>
  BY DEF vars, Next, Handler, Network, Connected, Accept, Establish, Refuse, Cut, Disconnect,
     RunSend, RunClose, WroteHeader, WroteLast, WriteError, GotHeader, ReadError,
     Transmit, WriteFails, Deliver, ReadFails, Lose
<1> HIDE DEF w, q
<1>8. CASE UNCHANGED <<sent, inq>>
  BY <1>3, <1>8 DEF w
<1>9. ASSUME NEW a \in Sides, a # r, GotBody(a)
      PROVE  UNCHANGED <<SentBy(s), inq[r]>>
  BY <1>3, <1>6, <1>9 DEF w
<1> QED
  BY <1>4, <1>5, <1>7, <1>8, <1>9

(***************************************************************************)
(* What a client sends arrives at the server whole, in order and once:     *)
(* send_packet, the write handlers, the wire and the read handlers are     *)
(* together a FIFO channel, whatever is lost, refused or closed on the way *)
(* and whatever is sent the other way (session.hpp:119-341).               *)
(***************************************************************************)
THEOREM ClientIsHeard == Spec => ClientToServer
<1>1. Init => ToServer!Init
  BY Peers DEF Init, ToServer!Init, SentBy
<1>2. FifoInv /\ [Next]_vars => [ToServer!Next]_(ToServer!chanVars)
  <2> SUFFICES ASSUME FifoInv, [Next]_vars
               PROVE  [ToServer!Next]_(ToServer!chanVars)
    OBVIOUS
  <2>1. Client \in Sides /\ Peer(Client) = Server
    BY Peers
  <2>2. \/ UNCHANGED <<SentBy(Client), inq[Server]>>
        \/ /\ \E p \in Packets : SentBy(Client)' = Append(SentBy(Client), Whole(p))
           /\ UNCHANGED inq[Server]
        \/ /\ Len(inq[Server]) < Len(SentBy(Client))
           /\ inq'[Server] = Append(inq[Server], SentBy(Client)[Len(inq[Server]) + 1])
           /\ UNCHANGED SentBy(Client)
    BY <2>1, ChannelStep
  <2> QED
    BY <2>2 DEF ToServer!Next, ToServer!Send, ToServer!Receive, ToServer!chanVars
<1> QED
  BY <1>1, <1>2, FifoCorrect, PTL DEF Spec, ClientToServer, ToServer!Spec

ToClient == INSTANCE FifoChannel
              WITH Messages <- {Whole(p) : p \in Packets},
                   sent <- SentBy(Server), received <- inq[Client]

\* The same of what the server sends.
THEOREM ServerIsHeard == Spec => ToClient!Spec
<1>1. Init => ToClient!Init
  BY Peers DEF Init, ToClient!Init, SentBy
<1>2. FifoInv /\ [Next]_vars => [ToClient!Next]_(ToClient!chanVars)
  <2> SUFFICES ASSUME FifoInv, [Next]_vars
               PROVE  [ToClient!Next]_(ToClient!chanVars)
    OBVIOUS
  <2>1. Server \in Sides /\ Peer(Server) = Client
    BY Peers
  <2>2. \/ UNCHANGED <<SentBy(Server), inq[Client]>>
        \/ /\ \E p \in Packets : SentBy(Server)' = Append(SentBy(Server), Whole(p))
           /\ UNCHANGED inq[Client]
        \/ /\ Len(inq[Client]) < Len(SentBy(Server))
           /\ inq'[Client] = Append(inq[Client], SentBy(Server)[Len(inq[Client]) + 1])
           /\ UNCHANGED SentBy(Server)
    BY <2>1, ChannelStep
  <2> QED
    BY <2>2 DEF ToClient!Next, ToClient!Send, ToClient!Receive, ToClient!chanVars
<1> QED
  BY <1>1, <1>2, FifoCorrect, PTL DEF Spec, ToClient!Spec
=============================================================================
