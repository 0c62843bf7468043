---------------------------- MODULE ServerProofs ----------------------------
(***************************************************************************)
(* Proofs about Server: logins, the list of the sessions and the stream of *)
(* the deltas, for any number of clients, packets and ticks.               *)
(***************************************************************************)
EXTENDS Server, ListProofs

Info == [session : Session \cup {Null}, logged : BOOLEAN]

Received == [remote : Session, id : FromClient]

(***************************************************************************)
(* The types of what a login reads and writes.                             *)
(***************************************************************************)
LoginTypes ==
  /\ socket \in [Session -> {"none", "open", "closed"}]
  /\ info \in Seq(Info)
  /\ inbox \in Seq(Received)
  /\ mail \in [Session -> Seq(FromServer)]

InfoOnce ==
  \A s \in Session :
    \A j, k \in DOMAIN info : info[j].session = s /\ info[k].session = s => j = k

MailOnce ==
  \A s \in Session : \A j, k \in DOMAIN mail[s] : mail[s][j] = mail[s][k] => j = k

(***************************************************************************)
(* Nothing is sent before the connection is accepted.  A client that was   *)
(* confirmed has its info until its session ends; later packets of a       *)
(* session that ended get an info, but no confirmation.                    *)
(***************************************************************************)
ConfirmedHaveInfo ==
  \A s \in Session :
    /\ socket[s] = "none" => mail[s] = <<>>
    /\ \A k \in DOMAIN mail[s] :
         mail[s][k] = "CONNECTION_CONFIRMED" => HasInfo(s) \/ socket[s] = "closed"

LoginInv == LoginTypes /\ InfoOnce /\ MailOnce /\ ConfirmedHaveInfo

LEMMA Appended ==
  ASSUME NEW S, NEW s \in Seq(S), NEW e \in S
  PROVE  /\ Append(s, e) \in Seq(S)
         /\ Len(s) \in Nat
         /\ DOMAIN s = 1 .. Len(s)
         /\ DOMAIN Append(s, e) = 1 .. Len(s) + 1
         /\ \A k \in DOMAIN s : Append(s, e)[k] = s[k]
         /\ Append(s, e)[Len(s) + 1] = e
<1>1. Append(s, e) \in Seq(S) /\ Len(Append(s, e)) = Len(s) + 1
  BY AppendProperties
<1>2. Len(s) \in Nat /\ DOMAIN s = 1 .. Len(s) /\ DOMAIN Append(s, e) = 1 .. Len(s) + 1
  BY <1>1
<1>3. /\ \A k \in 1 .. Len(s) : Append(s, e)[k] = s[k]
      /\ Append(s, e)[Len(s) + 1] = e
  BY AppendProperties
<1> QED
  BY <1>1, <1>2, <1>3

\* Detaching the info of a session touches no info of another one.
LEMMA DisconnectedInfo ==
  ASSUME LoginTypes, NEW s
  PROVE  /\ Disconnected(s) \in Seq(Info)
         /\ DOMAIN Disconnected(s) = DOMAIN info
         /\ \A t \in Session, k \in DOMAIN info :
              /\ Disconnected(s)[k].session = t => info[k].session = t
              /\ t # s /\ info[k].session = t => Disconnected(s)[k].session = t
<1> DEFINE d == Disconnected(s)
<1> DEFINE gone == [session |-> Null, logged |-> FALSE]
<1> DEFINE first(k) == /\ info[k].session = s
                      /\ \A j \in 1 .. k - 1 : info[j].session # s
<1>1. /\ gone \in Info /\ gone.session = Null /\ Null \notin Session
      /\ Len(info) \in Nat
      /\ DOMAIN info = 1 .. Len(info)
      /\ \A k \in DOMAIN info : info[k] \in Info
  <2>1. info \in Seq(Info)
    BY DEF LoginTypes
  <2>2. gone \in Info /\ gone.session = Null /\ Null \notin Session
    BY ServerAssumption DEF ServerAssumption, Info
  <2> HIDE DEF gone
  <2> QED
    BY <2>1, <2>2
<1>2. /\ DOMAIN d = DOMAIN info
      /\ \A k \in DOMAIN info : d[k] = info[k] \/ (d[k] = gone /\ info[k].session = s)
  <2>1. d = [k \in DOMAIN info |-> IF first(k) THEN gone ELSE info[k]]
    BY Zenon DEF Disconnected
  <2> HIDE DEF d, gone
  <2> QED
    BY <2>1
<1> HIDE DEF d, gone
<1>3. d \in Seq(Info)
  <2>1. d = [k \in 1 .. Len(info) |-> d[k]]
    BY <1>1, Zenon DEF d, Disconnected
  <2>2. \A k \in 1 .. Len(info) : d[k] \in Info
    BY <1>1, <1>2
  <2> QED
    BY <1>1, <2>1, <2>2
<1> QED
  BY <1>1, <1>2, <1>3 DEF d

LEMMA LoginInit ==
  ASSUME Init
  PROVE  LoginInv
BY DEF Init, LoginInv, LoginTypes, InfoOnce, MailOnce, ConfirmedHaveInfo

LEMMA AcceptStep ==
  ASSUME LoginInv, NEW s \in Session, Accept(s)
  PROVE  LoginInv'
<1>1. /\ socket[s] = "none"
      /\ socket' = [socket EXCEPT ![s] = "open"]
      /\ mail' = [mail EXCEPT ![s] = Append(@, "CONNECTION")]
      /\ info' = info /\ inbox' = inbox
  BY DEF Accept
<1>2. Append(mail[s], "CONNECTION") = <<"CONNECTION">>
  <2>1. mail[s] = <<>>
    BY <1>1 DEF LoginInv, ConfirmedHaveInfo
  <2>2. Append(<<>>, "CONNECTION") = <<"CONNECTION">>
    OBVIOUS
  <2> QED
    BY <2>1, <2>2
<1>3. mail' = [mail EXCEPT ![s] = <<"CONNECTION">>]
  BY <1>1, <1>2
<1>4. LoginTypes'
  BY <1>1, <1>3 DEF LoginInv, LoginTypes, FromServer
<1>5. InfoOnce'
  BY <1>1 DEF LoginInv, InfoOnce
<1>6. ASSUME NEW t \in Session
      PROVE  mail'[t] = IF t = s THEN <<"CONNECTION">> ELSE mail[t]
  BY <1>3 DEF LoginInv, LoginTypes
<1>7. MailOnce'
  BY <1>6 DEF LoginInv, MailOnce
<1>8. ConfirmedHaveInfo'
  <2> SUFFICES ASSUME NEW t \in Session
               PROVE  /\ socket'[t] = "none" => mail'[t] = <<>>
                      /\ \A k \in DOMAIN mail'[t] :
                           mail'[t][k] = "CONNECTION_CONFIRMED" =>
                             HasInfo(t)' \/ socket'[t] = "closed"
    BY DEF ConfirmedHaveInfo
  <2>1. HasInfo(t)' <=> HasInfo(t)
    BY <1>1 DEF HasInfo
  <2>2. socket'[t] = IF t = s THEN "open" ELSE socket[t]
    BY <1>1 DEF LoginInv, LoginTypes
  <2> QED
    BY <1>6, <2>1, <2>2 DEF LoginInv, ConfirmedHaveInfo
<1> QED
  BY <1>4, <1>5, <1>7, <1>8 DEF LoginInv

LEMMA CloseStep ==
  ASSUME LoginInv, NEW s \in Session, CloseSocket(s)
  PROVE  LoginInv'
<1>1. /\ socket' = [socket EXCEPT ![s] = "closed"]
      /\ mail' = mail /\ info' = info /\ inbox' = inbox
  BY DEF CloseSocket
<1>2. \A t \in Session : socket'[t] = IF t = s THEN "closed" ELSE socket[t]
  BY <1>1 DEF LoginInv, LoginTypes
<1>3. LoginTypes'
  BY <1>1 DEF LoginInv, LoginTypes
<1> QED
  BY <1>1, <1>2, <1>3
     DEF LoginInv, InfoOnce, MailOnce, ConfirmedHaveInfo, HasInfo

LEMMA ReceiveStep ==
  ASSUME LoginInv, NEW s \in Session, NEW id \in FromClient, ReceivePacket(s, id)
  PROVE  LoginInv'
<1>1. /\ inbox' = Append(inbox, [remote |-> s, id |-> id])
      /\ socket' = socket /\ mail' = mail /\ info' = info
  BY DEF ReceivePacket
<1>2. [remote |-> s, id |-> id] \in Received
  BY DEF Received
<1>3. inbox' \in Seq(Received)
  BY <1>1, <1>2, Appended DEF LoginInv, LoginTypes
<1> QED
  BY <1>1, <1>3 DEF LoginInv, LoginTypes, InfoOnce, MailOnce, ConfirmedHaveInfo, HasInfo

(***************************************************************************)
(* A login: the client has no info yet, hence no confirmation either       *)
(* unless its session ended, and then it gets none.                        *)
(***************************************************************************)
LEMMA LoginStep ==
  ASSUME LoginInv, NEW s \in Session, NEW id, Login(s, id),
         socket' = socket, inbox' \in Seq(Received)
  PROVE  LoginInv'
<1> DEFINE new == [session |-> s, logged |-> TRUE]
<1>1. /\ ~ HasInfo(s)
      /\ info' = Append(info, new)
      /\ \/ socket[s] = "open" /\ mail' = [mail EXCEPT ![s] = Append(@, "CONNECTION_CONFIRMED")]
         \/ socket[s] # "open" /\ mail' = mail
  BY DEF Login, MessageClient, IsConnected
<1>2. new \in Info /\ new.session = s
  BY DEF Info
<1> HIDE DEF new
<1>3. /\ info' \in Seq(Info)
      /\ Len(info) \in Nat
      /\ DOMAIN info = 1 .. Len(info)
      /\ DOMAIN info' = 1 .. Len(info) + 1
      /\ \A k \in DOMAIN info : info'[k] = info[k]
      /\ info'[Len(info) + 1].session = s
  BY <1>1, <1>2, Appended DEF LoginInv, LoginTypes
<1>4. InfoOnce'
  <2> SUFFICES ASSUME NEW t \in Session, NEW j \in DOMAIN info', NEW k \in DOMAIN info',
                      info'[j].session = t, info'[k].session = t
               PROVE  j = k
    BY DEF InfoOnce
  <2>1. CASE j \in DOMAIN info /\ k \in DOMAIN info
    BY <1>3, <2>1 DEF LoginInv, InfoOnce
  <2>2. CASE j \notin DOMAIN info \/ k \notin DOMAIN info
    <3>1. t = s
      BY <1>3, <2>2
    <3>2. \A i \in DOMAIN info : info[i].session # s
      BY <1>1 DEF HasInfo
    <3> QED
      BY <1>3, <3>1, <3>2
  <2> QED
    BY <2>1, <2>2
<1>5. \A t \in Session : HasInfo(t) => HasInfo(t)'
  BY <1>3 DEF HasInfo
<1>6. HasInfo(s)'
  BY <1>3 DEF HasInfo
<1>7. CASE mail' = mail
  BY <1>3, <1>4, <1>5, <1>7 DEF LoginInv, LoginTypes, MailOnce, ConfirmedHaveInfo
<1>8. CASE /\ socket[s] = "open"
           /\ mail' = [mail EXCEPT ![s] = Append(@, "CONNECTION_CONFIRMED")]
  <2> DEFINE m == mail[s]
  <2>1. \A k \in DOMAIN m : m[k] # "CONNECTION_CONFIRMED"
    BY <1>1, <1>8 DEF LoginInv, ConfirmedHaveInfo
  <2>2. m \in Seq(FromServer) /\ "CONNECTION_CONFIRMED" \in FromServer
    BY DEF LoginInv, LoginTypes, FromServer
  <2>3. \A t \in Session : mail'[t] = IF t = s THEN Append(m, "CONNECTION_CONFIRMED")
                                      ELSE mail[t]
    BY <1>8 DEF LoginInv, LoginTypes
  <2>4. \A j, k \in DOMAIN m : m[j] = m[k] => j = k
    BY DEF LoginInv, MailOnce
  <2> HIDE DEF m
  <2>5. /\ mail'[s] \in Seq(FromServer)
        /\ Len(m) \in Nat
        /\ DOMAIN m = 1 .. Len(m)
        /\ DOMAIN mail'[s] = 1 .. Len(m) + 1
        /\ \A k \in DOMAIN m : mail'[s][k] = m[k]
        /\ mail'[s][Len(m) + 1] = "CONNECTION_CONFIRMED"
    <3>1. mail'[s] = Append(m, "CONNECTION_CONFIRMED")
      BY <2>3
    <3>2. /\ Append(m, "CONNECTION_CONFIRMED") \in Seq(FromServer)
          /\ Len(m) \in Nat
          /\ DOMAIN m = 1 .. Len(m)
          /\ DOMAIN Append(m, "CONNECTION_CONFIRMED") = 1 .. Len(m) + 1
          /\ \A k \in DOMAIN m : Append(m, "CONNECTION_CONFIRMED")[k] = m[k]
          /\ Append(m, "CONNECTION_CONFIRMED")[Len(m) + 1] = "CONNECTION_CONFIRMED"
      BY <2>2, Appended, Zenon
    <3> QED
      BY <3>1, <3>2
  <2>6. LoginTypes'
    BY <1>3, <1>8, <2>3, <2>5 DEF LoginInv, LoginTypes
  <2>7. \A j, k \in DOMAIN mail'[s] : mail'[s][j] = mail'[s][k] => j = k
    BY <2>1, <2>4, <2>5
  <2>8. MailOnce'
    BY <2>3, <2>7 DEF LoginInv, MailOnce
  <2>9. ConfirmedHaveInfo'
    BY <1>5, <1>6, <1>8, <2>3 DEF LoginInv, ConfirmedHaveInfo
  <2> QED
    BY <1>4, <2>6, <2>8, <2>9 DEF LoginInv
<1> QED
  BY <1>1, <1>7, <1>8

LEMMA HandleStep ==
  ASSUME LoginInv, HandleMessage
  PROVE  LoginInv'
<1> DEFINE msg == Head(inbox)
<1>1. inbox # <<>> /\ inbox' = Tail(inbox) /\ socket' = socket
  BY DEF HandleMessage
<1>2. inbox' \in Seq(Received) /\ msg \in Received
  BY <1>1, HeadTailProperties DEF LoginInv, LoginTypes
<1>3. msg.remote \in Session
  BY <1>2 DEF Received
<1>4. CASE Login(msg.remote, msg.id)
  BY <1>1, <1>2, <1>3, <1>4, LoginStep
<1>5. CASE UNCHANGED <<info, mail>>
  BY <1>1, <1>2, <1>5
     DEF LoginInv, LoginTypes, InfoOnce, MailOnce, ConfirmedHaveInfo, HasInfo
<1> QED
  BY <1>4, <1>5 DEF HandleMessage

\* A session that the broadcast finds closed loses its info.
LEMMA VisitStep ==
  ASSUME LoginInv, Visit
  PROVE  LoginInv'
<1> DEFINE s == sessions[at]
<1>1. /\ socket' = socket /\ mail' = mail /\ inbox' = inbox
      /\ \/ IsConnected(s) /\ info' = info
         \/ ~ IsConnected(s) /\ info' = Disconnected(s)
  BY DEF Visit
<1>2. CASE info' = info
  BY <1>1, <1>2 DEF LoginInv, LoginTypes, InfoOnce, MailOnce, ConfirmedHaveInfo, HasInfo
<1>3. CASE ~ IsConnected(s) /\ info' = Disconnected(s)
  <2>1. /\ info' \in Seq(Info)
        /\ DOMAIN info' = DOMAIN info
        /\ \A t \in Session, k \in DOMAIN info :
             /\ info'[k].session = t => info[k].session = t
             /\ t # s /\ info[k].session = t => info'[k].session = t
    BY <1>3, DisconnectedInfo DEF LoginInv
  <2>2. LoginTypes' /\ InfoOnce' /\ MailOnce'
    BY <1>1, <2>1 DEF LoginInv, LoginTypes, InfoOnce, MailOnce
  <2>3. ASSUME NEW t \in Session, t # s, HasInfo(t)
        PROVE  HasInfo(t)'
    BY <2>1, <2>3 DEF HasInfo
  <2>4. ASSUME NEW t \in Session, t = s, mail[t] # <<>>
        PROVE  socket[t] = "closed"
    BY <1>3, <2>4 DEF LoginInv, LoginTypes, ConfirmedHaveInfo, IsConnected
  <2>5. ConfirmedHaveInfo'
    <3> SUFFICES ASSUME NEW t \in Session
                 PROVE  /\ socket[t] = "none" => mail[t] = <<>>
                        /\ \A k \in DOMAIN mail[t] :
                             mail[t][k] = "CONNECTION_CONFIRMED" =>
                               HasInfo(t)' \/ socket[t] = "closed"
      BY <1>1 DEF ConfirmedHaveInfo
    <3>1. CASE mail[t] = <<>>
      BY <3>1
    <3>2. CASE mail[t] # <<>> /\ t = s
      BY <2>4, <3>2
    <3>3. CASE t # s
      BY <2>3, <3>3 DEF LoginInv, ConfirmedHaveInfo
    <3> QED
      BY <3>1, <3>2, <3>3
  <2> QED
    BY <2>2, <2>5 DEF LoginInv
<1> QED
  BY <1>1, <1>2, <1>3

LEMMA LoginUntouched ==
  ASSUME LoginInv, UNCHANGED <<socket, info, inbox, mail>>
  PROVE  LoginInv'
BY DEF LoginInv, LoginTypes, InfoOnce, MailOnce, ConfirmedHaveInfo, HasInfo

THEOREM LoginCorrect == Spec => []LoginInv
<1>1. LoginInv /\ [Next]_vars => LoginInv'
  <2> SUFFICES ASSUME LoginInv, [Next]_vars
               PROVE  LoginInv'
    OBVIOUS
  <2>1. ASSUME NEW s \in Session, Accept(s)
        PROVE  LoginInv'
    BY <2>1, AcceptStep
  <2>2. ASSUME NEW s \in Session, CloseSocket(s)
        PROVE  LoginInv'
    BY <2>2, CloseStep
  <2>3. ASSUME NEW s \in Session, NEW id \in FromClient, ReceivePacket(s, id)
        PROVE  LoginInv'
    BY <2>3, ReceiveStep
  <2>4. CASE HandleMessage
    BY <2>4, HandleStep
  <2>5. CASE Visit
    BY <2>5, VisitStep
  <2>6. CASE \/ PushSession \/ ConnectToClient \/ RunReturns
             \/ \E s \in Session : HandlersEnd(s)
             \/ Start \/ Stop \/ Join \/ StartBroadcast \/ EndBroadcast
             \/ UNCHANGED vars
    BY <2>6, LoginUntouched
       DEF PushSession, ConnectToClient, RunReturns, HandlersEnd, Start, Stop, Join,
           StartBroadcast, EndBroadcast, vars
  <2> QED
    BY <2>1, <2>2, <2>3, <2>4, <2>5, <2>6 DEF Next, GameThread
<1> QED
  BY <1>1, LoginInit, PTL DEF Spec

(***************************************************************************)
(* A client is confirmed at most once, for any number of clients, packets  *)
(* and interleavings with the accept handler, the race on _sessions        *)
(* included (server_controller.cpp:53-67).                                 *)
(***************************************************************************)
THEOREM LoginsAreUnique == Spec => []LoginOnce
<1>1. LoginInv => LoginOnce
  BY DEF LoginInv, InfoOnce, MailOnce, LoginOnce
<1> QED
  BY <1>1, LoginCorrect, PTL
-----------------------------------------------------------------------------
(***************************************************************************)
(* The rest of TypeOK: what LoginTypes says nothing of.                    *)
(***************************************************************************)
SessionTypes ==
  /\ socket \in [Session -> {"none", "open", "closed"}]
  /\ accepting \in Session \cup {Null}
  /\ context \in {"none", "idle", "push", "connect", "ended"}
  /\ stopped \in BOOLEAN
  /\ reading \subseteq Session
  /\ aborted \subseteq Session
  /\ sessions \in Seq(Session \cup {Null})
  /\ seen \in [Session -> 0 .. Ticks]
  /\ tick \in 0 .. Ticks - 1
  /\ game \in {"update", "visit", "join", "terminated"}
  /\ at \in Nat /\ end \in Nat
  /\ invalid \in BOOLEAN

(***************************************************************************)
(* The session in the accept handler is open: its handlers, which may      *)
(* close it, have to wait for this one.  Until it is pushed nobody else    *)
(* knows it; then it stays the last of _sessions, whatever the game thread *)
(* removes, so that _sessions.back() in the handler is the session that    *)
(* was accepted.                                                           *)
(***************************************************************************)
AcceptedIsLast ==
  /\ accepting # Null <=> context \in {"push", "connect"}
  /\ accepting # Null => socket[accepting] = "open"
  /\ context = "push" =>
       seen[accepting] = Ticks /\ \A k \in DOMAIN sessions : sessions[k] # accepting
  /\ context = "connect" => sessions # <<>> /\ sessions[Len(sessions)] = accepting

(***************************************************************************)
(* _sessions has no session twice, none that was never accepted, and null  *)
(* pointers only behind the iterator of a broadcast, which knows of them.  *)
(***************************************************************************)
ListSound ==
  /\ \A j, k \in DOMAIN sessions : sessions[j] # Null /\ sessions[j] = sessions[k] => j = k
  /\ \A k \in DOMAIN sessions : sessions[k] # Null => socket[sessions[k]] # "none"
  /\ \A k \in DOMAIN sessions : sessions[k] = Null => game = "visit" /\ k < at /\ invalid

OpenListed ==
  \A s \in Session : IsConnected(s) => (accepting = s /\ context = "push") \/ Listed(s)

(***************************************************************************)
(* Where a broadcast is: the listed sessions before the iterator have the  *)
(* delta of the tick, those it still comes to have the one before, and     *)
(* those it does not come to have none.  Between two broadcasts all are    *)
(* before the iterator.                                                    *)
(***************************************************************************)
UpToDate(t) == t \in {Ticks, tick}

StreamAt(k) ==
  LET t == seen[sessions[k]]
  IN  /\ game # "visit" \/ k < at => UpToDate(t)
      /\ game = "visit" /\ at <= k /\ k <= end => t = Ticks \/ (t + 1) % Ticks = tick
      /\ game = "visit" /\ end < k => t = Ticks

StreamSound ==
  /\ game = "visit" => 1 <= at /\ at <= end + 1 /\ end <= Len(sessions)
  /\ \A s \in Session : socket[s] = "none" => seen[s] = Ticks
  /\ \A k \in DOMAIN sessions : sessions[k] # Null => StreamAt(k)

SessionInv == SessionTypes /\ AcceptedIsLast /\ ListSound /\ OpenListed /\ StreamSound

LEMMA SessionsInit ==
  ASSUME Init
  PROVE  SessionInv
<1>1. sessions = <<>> /\ sessions \in Seq(Session \cup {Null})
  BY DEF Init
<1>2. SessionTypes
  <2>1. Ticks \in 0 .. Ticks /\ 0 \in 0 .. Ticks - 1
    BY ServerAssumption
  <2>2. seen \in [Session -> 0 .. Ticks] /\ tick \in 0 .. Ticks - 1
    BY <2>1 DEF Init
  <2>3. socket \in [Session -> {"none", "open", "closed"}]
    BY DEF Init
  <2>4. at \in Nat /\ end \in Nat
    BY DEF Init
  <2> QED
    BY <1>1, <2>2, <2>3, <2>4 DEF Init, SessionTypes
<1>3. AcceptedIsLast /\ OpenListed
  BY DEF Init, AcceptedIsLast, OpenListed, IsConnected
<1>4. ListSound
  BY <1>1 DEF ListSound
<1>5. StreamSound
  BY <1>1 DEF Init, StreamSound
<1> QED
  BY <1>2, <1>3, <1>4, <1>5 DEF SessionInv

\* The other clauses of the two threads: nothing of what is listed or
\* broadcast changes.
LEMMA ThreadsStep ==
  ASSUME SessionInv,
         UNCHANGED <<socket, accepting, sessions, seen, tick, at, end, invalid>>,
         reading' \subseteq Session, aborted' \subseteq Session,
         game' = game \/ (game # "visit" /\ game' \in {"update", "join", "terminated"}),
         context' = context
           \/ (context \notin {"push", "connect"} /\ context' \in {"none", "idle", "ended"}),
         stopped' \in BOOLEAN
  PROVE  SessionInv'
<1> USE DEF SessionInv
<1>1. SessionTypes'
  BY DEF SessionTypes
<1>2. AcceptedIsLast'
  BY DEF AcceptedIsLast
<1>3. ListSound'
  BY DEF ListSound
<1>4. OpenListed'
  BY DEF OpenListed, IsConnected, Listed
<1>5. StreamSound'
  BY DEF StreamSound, StreamAt, UpToDate
<1> QED
  BY <1>1, <1>2, <1>3, <1>4, <1>5

\* A session that was never accepted is not listed.
LEMMA AcceptedStep ==
  ASSUME SessionInv, NEW s \in Session, Accept(s)
  PROVE  SessionInv'
<1> USE DEF SessionInv
<1>1. /\ socket[s] = "none"
      /\ socket' = [socket EXCEPT ![s] = "open"]
      /\ accepting' = s /\ context' = "push"
      /\ context = "idle"
      /\ UNCHANGED <<stopped, reading, aborted, sessions, seen, tick, game, at, end, invalid>>
  BY DEF Accept, RunsHandler, iteration
<1>2. \A t \in Session : socket'[t] = IF t = s THEN "open" ELSE socket[t]
  BY <1>1 DEF SessionTypes
<1>3. s # Null
  BY ServerAssumption
<1>4. \A k \in DOMAIN sessions : sessions[k] # s
  BY <1>1, <1>3 DEF ListSound
<1>5. SessionTypes'
  BY <1>1 DEF SessionTypes
<1>6. AcceptedIsLast'
  BY <1>1, <1>2, <1>3, <1>4 DEF AcceptedIsLast, StreamSound
<1>7. ListSound'
  BY <1>1, <1>2, <1>4, ElementOfSeq DEF ListSound, SessionTypes
<1>8. OpenListed'
  BY <1>1, <1>2 DEF OpenListed, IsConnected, Listed, SessionTypes
<1>9. StreamSound'
  BY <1>1, <1>2 DEF StreamSound, StreamAt, UpToDate
<1> QED
  BY <1>5, <1>6, <1>7, <1>8, <1>9

LEMMA PushedStep ==
  ASSUME SessionInv, PushSession
  PROVE  SessionInv'
<1> USE DEF SessionInv
<1> DEFINE l == Len(sessions)
<1>1. /\ context = "push" /\ context' = "connect"
      /\ sessions' = Append(sessions, accepting)
      /\ UNCHANGED <<socket, accepting, stopped, reading, aborted, seen, tick, game, at, end,
                     invalid>>
  BY DEF PushSession, iteration
<1>2. /\ accepting \in Session /\ accepting # Null
      /\ socket[accepting] = "open" /\ seen[accepting] = Ticks
      /\ \A k \in DOMAIN sessions : sessions[k] # accepting
  BY <1>1 DEF AcceptedIsLast, SessionTypes
<1>3. /\ sessions' \in Seq(Session \cup {Null})
      /\ l \in Nat
      /\ Len(sessions') = l + 1
      /\ DOMAIN sessions = 1 .. l
      /\ DOMAIN sessions' = 1 .. l + 1
      /\ \A k \in DOMAIN sessions : sessions'[k] = sessions[k]
      /\ sessions'[l + 1] = accepting
  BY <1>1, <1>2, Appended DEF SessionTypes
<1> HIDE DEF l
<1>4. \A k \in DOMAIN sessions' : k \in DOMAIN sessions \/ k = l + 1
  BY <1>3
<1>5. SessionTypes'
  BY <1>1, <1>3 DEF SessionTypes
<1>6. AcceptedIsLast'
  BY <1>1, <1>2, <1>3 DEF AcceptedIsLast
<1>7. ListSound'
  BY <1>1, <1>2, <1>3, <1>4 DEF ListSound
<1>8. OpenListed'
  BY <1>1, <1>3 DEF OpenListed, IsConnected, Listed
<1>9. StreamSound'
  <2>1. game = "visit" => end < l + 1
    BY <1>3 DEF StreamSound, l, SessionTypes
  <2>2. ASSUME NEW k \in DOMAIN sessions', sessions'[k] # Null
        PROVE  StreamAt(k)'
    <3>1. CASE k \in DOMAIN sessions
      <4>1. StreamAt(k) /\ sessions'[k] = sessions[k]
        BY <1>3, <2>2, <3>1 DEF StreamSound
      <4> QED
        BY <1>1, <4>1 DEF StreamAt, UpToDate
    <3>2. CASE k = l + 1
      <4>1. seen'[sessions'[k]] = Ticks
        BY <1>1, <1>2, <1>3, <3>2
      <4>2. game = "visit" => ~ (k <= end)
        BY <1>3, <2>1, <3>2 DEF SessionTypes
      <4> QED
        BY <1>1, <4>1, <4>2 DEF StreamAt, UpToDate
    <3> QED
      BY <1>4, <3>1, <3>2
  <2>3. game = "visit" => end <= l + 1
    BY <1>3, <2>1 DEF SessionTypes
  <2> QED
    BY <1>1, <1>3, <2>2, <2>3 DEF StreamSound
<1> QED
  BY <1>5, <1>6, <1>7, <1>8, <1>9

\* _sessions.back() is the session that was accepted.
LEMMA ConnectedStep ==
  ASSUME SessionInv, ConnectToClient
  PROVE  SessionInv'
<1> USE DEF SessionInv
<1>1. /\ context = "connect" /\ context' = "idle" /\ accepting' = Null
      /\ sessions # <<>>
      /\ reading' = reading \cup {s \in {sessions[Len(sessions)]} : s # Null /\ IsConnected(s)}
      /\ UNCHANGED <<socket, stopped, aborted, sessions, seen, tick, game, at, end, invalid>>
  BY DEF ConnectToClient, iteration
<1>2. /\ accepting # Null /\ accepting \in Session
      /\ sessions[Len(sessions)] = accepting /\ IsConnected(accepting)
  BY <1>1 DEF AcceptedIsLast, SessionTypes, IsConnected
<1>3. reading' = reading \cup {accepting}
  BY <1>1, <1>2
<1>4. Len(sessions) \in DOMAIN sessions
  BY <1>1 DEF SessionTypes
<1>5. SessionTypes'
  BY <1>1, <1>2, <1>3 DEF SessionTypes
<1>6. AcceptedIsLast'
  BY <1>1 DEF AcceptedIsLast
<1>7. ListSound'
  BY <1>1 DEF ListSound
<1>8. OpenListed'
  BY <1>1, <1>2, <1>3, <1>4 DEF OpenListed, IsConnected, Listed
<1>9. StreamSound'
  BY <1>1 DEF StreamSound, StreamAt, UpToDate
<1> QED
  BY <1>5, <1>6, <1>7, <1>8, <1>9

LEMMA ClosedStep ==
  ASSUME SessionInv, NEW s \in Session, CloseSocket(s)
  PROVE  SessionInv'
<1> USE DEF SessionInv
<1>1. /\ context = "idle"
      /\ reading' \subseteq reading /\ aborted' \subseteq aborted \cup {s}
      /\ socket' = [socket EXCEPT ![s] = "closed"]
      /\ UNCHANGED <<accepting, context, stopped, sessions, seen, tick, game, at, end, invalid>>
  BY DEF CloseSocket, RunsHandler, iteration
<1>2. \A t \in Session : socket'[t] = IF t = s THEN "closed" ELSE socket[t]
  BY <1>1 DEF SessionTypes
<1>3. SessionTypes'
  BY <1>1 DEF SessionTypes
<1>4. AcceptedIsLast'
  BY <1>1, <1>2 DEF AcceptedIsLast, SessionTypes
<1>5. ListSound'
  BY <1>1, <1>2, ElementOfSeq DEF ListSound, SessionTypes
<1>6. OpenListed'
  BY <1>1, <1>2 DEF OpenListed, IsConnected, Listed, SessionTypes
<1>7. StreamSound'
  BY <1>1, <1>2 DEF StreamSound, StreamAt, UpToDate
<1> QED
  BY <1>3, <1>4, <1>5, <1>6, <1>7

\* Between two broadcasts the null pointers may be removed, if there are any.
LEMMA NullsRemoved ==
  ASSUME SessionInv, game' = "update",
         UNCHANGED <<socket, accepting, context, stopped, reading, aborted, seen, tick>>,
         at' \in Nat, end' \in Nat, invalid' \in BOOLEAN,
         \A k \in DOMAIN sessions : sessions[k] # Null => UpToDate(seen[sessions[k]]),
         sessions' = Without(sessions, Null)
  PROVE  SessionInv'
<1> USE DEF SessionInv
<1>1. /\ sessions' \in Seq(Session \cup {Null})
      /\ \A i \in DOMAIN sessions' :
           sessions'[i] # Null /\ \E k \in DOMAIN sessions : sessions[k] = sessions'[i]
      /\ \A k \in DOMAIN sessions :
           sessions[k] # Null => \E i \in DOMAIN sessions' : sessions'[i] = sessions[k]
  BY WithoutKeeps DEF SessionTypes
<1>2. \A i, j \in DOMAIN sessions' : sessions'[i] = sessions'[j] => i = j
  BY WithoutDistinct DEF SessionTypes, ListSound
<1>3. ASSUME context = "connect"
      PROVE  sessions' # <<>> /\ sessions'[Len(sessions')] = accepting
  <2>1. sessions # <<>> /\ sessions[Len(sessions)] = accepting /\ accepting # Null
    BY <1>3 DEF AcceptedIsLast
  <2> QED
    BY <2>1, WithoutLast DEF SessionTypes
<1>4. SessionTypes'
  BY <1>1 DEF SessionTypes
<1>5. AcceptedIsLast'
  BY <1>1, <1>3 DEF AcceptedIsLast
<1>6. ListSound'
  BY <1>1, <1>2 DEF ListSound
<1>7. OpenListed'
  <2> SUFFICES ASSUME NEW s \in Session, IsConnected(s), ~ (accepting = s /\ context = "push")
               PROVE  \E i \in DOMAIN sessions' : sessions'[i] = s
    BY DEF OpenListed, IsConnected, Listed
  <2>1. PICK k \in DOMAIN sessions : sessions[k] = s
    BY DEF OpenListed, Listed
  <2>2. s # Null
    BY ServerAssumption
  <2> QED
    BY <1>1, <2>1, <2>2
<1>8. StreamSound'
  BY <1>1 DEF StreamSound, StreamAt, UpToDate
<1> QED
  BY <1>4, <1>5, <1>6, <1>7, <1>8

LEMMA HandledStep ==
  ASSUME SessionInv, LoginInv, HandleMessage
  PROVE  SessionInv'
<1>1. /\ game = "update" /\ game' = game
      /\ UNCHANGED <<socket, accepting, context, stopped, reading, aborted, seen, tick, at, end,
                     invalid>>
      /\ sessions' = sessions \/ sessions' = Without(sessions, Null)
  BY DEF HandleMessage, Login, MessageClient, contextVars, iteration
<1>2. \A k \in DOMAIN sessions : sessions[k] # Null => UpToDate(seen[sessions[k]])
  BY <1>1 DEF SessionInv, StreamSound, StreamAt
<1>3. CASE sessions' = sessions
  BY <1>1, <1>3, ThreadsStep DEF SessionInv, SessionTypes
<1>4. CASE sessions' = Without(sessions, Null)
  BY <1>1, <1>2, <1>4, NullsRemoved DEF SessionInv, SessionTypes
<1> QED
  BY <1>1, <1>3, <1>4

\* Every session has the delta of the tick that ends.
LEMMA BroadcastStarts ==
  ASSUME SessionInv, StartBroadcast
  PROVE  SessionInv'
<1> USE DEF SessionInv
<1>1. /\ game = "update" /\ game' = "visit"
      /\ tick' = (tick + 1) % Ticks
      /\ at' = 1 /\ end' = Len(sessions) /\ invalid' = FALSE
      /\ UNCHANGED <<socket, accepting, context, stopped, reading, aborted, sessions, seen>>
  BY DEF StartBroadcast, contextVars
<1>2. /\ \A k \in DOMAIN sessions : sessions[k] # Null /\ seen[sessions[k]] \in {Ticks, tick}
      /\ DOMAIN sessions = 1 .. Len(sessions) /\ Len(sessions) \in Nat
  BY <1>1 DEF ListSound, StreamSound, StreamAt, UpToDate, SessionTypes
<1>3. tick' \in 0 .. Ticks - 1
  BY <1>1, ServerAssumption DEF SessionTypes
<1>4. SessionTypes'
  BY <1>1, <1>2, <1>3 DEF SessionTypes
<1>5. AcceptedIsLast'
  BY <1>1 DEF AcceptedIsLast
<1>6. ListSound'
  BY <1>1, <1>2 DEF ListSound
<1>7. OpenListed'
  BY <1>1 DEF OpenListed, IsConnected, Listed
<1>8. StreamSound'
  <2>1. ASSUME NEW k \in DOMAIN sessions
        PROVE  StreamAt(k)'
    <3>1. /\ seen'[sessions'[k]] = Ticks \/ (seen'[sessions'[k]] + 1) % Ticks = tick'
          /\ ~ (k < at') /\ k <= end'
      BY <1>1, <1>2
    <3> QED
      BY <1>1, <1>2, <3>1 DEF StreamAt
  <2> QED
    BY <1>1, <1>2, <2>1 DEF StreamSound
<1> QED
  BY <1>4, <1>5, <1>6, <1>7, <1>8

\* The session at the iterator gets the delta, or its pointer is reset.
LEMMA VisitedStep ==
  ASSUME SessionInv, Visit
  PROVE  SessionInv'
<1> USE DEF SessionInv
<1> DEFINE s == sessions[at]
<1>1. /\ game = "visit" /\ at <= end /\ at' = at + 1
      /\ UNCHANGED <<socket, accepting, context, stopped, reading, aborted, tick, game, end>>
  BY DEF Visit, contextVars
<1>2. /\ at \in DOMAIN sessions /\ at \in Nat /\ end \in Nat /\ at >= 1
      /\ DOMAIN sessions = 1 .. Len(sessions) /\ Len(sessions) \in Nat
      /\ \A k \in DOMAIN sessions : k \in Nat
  BY <1>1 DEF StreamSound, SessionTypes
<1>3. s # Null /\ s \in Session
  BY <1>2, ElementOfSeq DEF ListSound, SessionTypes
<1>4. CASE IsConnected(s)
  <2>1. /\ seen' = [seen EXCEPT ![s] = tick]
        /\ UNCHANGED <<sessions, invalid>>
    BY <1>4 DEF Visit
  <2>2. \A t \in Session : seen'[t] = IF t = s THEN tick ELSE seen[t]
    BY <2>1 DEF SessionTypes
  <2>3. SessionTypes'
    <3>1. tick \in 0 .. Ticks
      BY ServerAssumption DEF SessionTypes
    <3>2. seen' \in [Session -> 0 .. Ticks]
      BY <2>1, <3>1 DEF SessionTypes
    <3> QED
      BY <1>1, <1>2, <1>3, <2>1, <3>2 DEF SessionTypes
  <2>4. AcceptedIsLast'
    BY <1>1, <1>2, <2>1, <2>2 DEF AcceptedIsLast, SessionTypes
  <2>5. ListSound'
    BY <1>1, <1>2, <2>1 DEF ListSound
  <2>6. OpenListed'
    BY <1>1, <2>1 DEF OpenListed, IsConnected, Listed
  <2>7. ASSUME NEW k \in DOMAIN sessions, sessions[k] # Null
        PROVE  StreamAt(k)'
    <3>1. sessions[k] \in Session /\ StreamAt(k)
      BY <2>7, ElementOfSeq DEF StreamSound, SessionTypes
    <3>2. CASE k = at
      <4>1. seen'[sessions'[k]] = tick' /\ k < at' /\ ~ (end < k)
        BY <1>1, <1>2, <1>3, <2>1, <2>2, <3>2
      <4> QED
        BY <1>1, <1>2, <3>2, <4>1 DEF StreamAt, UpToDate
    <3>3. CASE k # at
      <4>1. sessions[k] # s
        BY <1>2, <1>3, <2>7, <3>3 DEF ListSound
      <4>2. seen'[sessions'[k]] = seen[sessions[k]]
        BY <2>1, <2>2, <3>1, <4>1
      <4>3. (k < at' => k < at) /\ (at' <= k => at <= k)
        BY <1>1, <1>2, <3>3
      <4> QED
        BY <1>1, <2>1, <3>1, <4>2, <4>3 DEF StreamAt, UpToDate
    <3> QED
      BY <3>2, <3>3
  <2>8. StreamSound'
    <3>1. \A t \in Session : socket'[t] = "none" => seen'[t] = Ticks
      BY <1>1, <1>4, <2>2 DEF StreamSound, IsConnected
    <3> QED
      BY <1>1, <1>2, <2>1, <2>7, <3>1 DEF StreamSound
  <2> QED
    BY <2>3, <2>4, <2>5, <2>6, <2>8
<1>5. CASE ~ IsConnected(s)
  <2>1. /\ sessions' = [sessions EXCEPT ![at] = Null]
        /\ invalid' = TRUE /\ seen' = [seen EXCEPT ![s] = Ticks]
    BY <1>5 DEF Visit
  <2>2. /\ sessions' \in Seq(Session \cup {Null})
        /\ Len(sessions') = Len(sessions)
        /\ DOMAIN sessions' = DOMAIN sessions
        /\ \A k \in DOMAIN sessions : sessions'[k] = IF k = at THEN Null ELSE sessions[k]
    BY <1>2, <2>1 DEF SessionTypes
  <2>3. SessionTypes' /\ \A t \in Session : seen'[t] = IF t = s THEN Ticks ELSE seen[t]
    <3>1. Ticks \in 0 .. Ticks
      BY ServerAssumption
    <3>2. /\ seen' \in [Session -> 0 .. Ticks]
          /\ \A t \in Session : seen'[t] = IF t = s THEN Ticks ELSE seen[t]
      BY <2>1, <3>1 DEF SessionTypes
    <3> QED
      BY <1>1, <1>2, <2>1, <2>2, <3>2 DEF SessionTypes
  <2>4. AcceptedIsLast'
    <3>1. ASSUME context = "connect"
          PROVE  sessions' # <<>> /\ sessions'[Len(sessions')] = accepting
      <4>1. sessions[Len(sessions)] = accepting /\ IsConnected(accepting)
        BY <3>1 DEF AcceptedIsLast, IsConnected
      <4>2. Len(sessions) # at
        BY <1>5, <4>1
      <4> QED
        BY <1>2, <2>2, <4>1, <4>2
    <3>2. context = "push" =>
            seen'[accepting] = Ticks /\ \A k \in DOMAIN sessions' : sessions'[k] # accepting
      BY <2>2, <2>3 DEF AcceptedIsLast, SessionTypes
    <3> QED
      BY <1>1, <3>1, <3>2 DEF AcceptedIsLast
  <2>5. ListSound'
    BY <1>1, <1>2, <2>1, <2>2 DEF ListSound
  <2>6. OpenListed'
    BY <1>1, <1>5, <2>2 DEF OpenListed, IsConnected, Listed
  <2>7. ASSUME NEW k \in DOMAIN sessions, sessions'[k] # Null
        PROVE  StreamAt(k)'
    <3>1. k # at /\ sessions'[k] = sessions[k]
      BY <2>2, <2>7
    <3>2. StreamAt(k) /\ k \in DOMAIN sessions /\ sessions[k] \in Session
      BY <2>7, <3>1, ElementOfSeq DEF StreamSound, SessionTypes
    <3>3. (k < at' => k < at) /\ (at' <= k => at <= k)
      BY <1>1, <1>2, <3>1, <3>2
    <3>4. sessions[k] # s
      BY <1>2, <1>3, <3>1, <3>2 DEF ListSound
    <3>5. seen'[sessions'[k]] = seen[sessions[k]]
      BY <2>3, <3>1, <3>2, <3>4
    <3> QED
      BY <1>1, <3>2, <3>3, <3>5 DEF StreamAt, UpToDate
  <2>8. StreamSound'
    <3>1. \A t \in Session : socket'[t] = "none" => seen'[t] = Ticks
      BY <1>1, <2>3 DEF StreamSound
    <3> QED
      BY <1>1, <1>2, <2>1, <2>2, <2>7, <3>1 DEF StreamSound
  <2> QED
    BY <2>3, <2>4, <2>5, <2>6, <2>8
<1> QED
  BY <1>4, <1>5

LEMMA BroadcastEnds ==
  ASSUME SessionInv, EndBroadcast
  PROVE  SessionInv'
<1>1. /\ game = "visit" /\ at > end /\ game' = "update"
      /\ UNCHANGED <<socket, accepting, context, stopped, reading, aborted, seen, tick>>
      /\ at' = 1 /\ end' = 0 /\ invalid' = FALSE
      /\ sessions' = IF invalid THEN Without(sessions, Null) ELSE sessions
  BY DEF EndBroadcast, contextVars
<1>2. ASSUME NEW k \in DOMAIN sessions, sessions[k] # Null
      PROVE  UpToDate(seen[sessions[k]])
  <2>1. StreamAt(k) /\ at \in Nat /\ end \in Nat /\ k \in Nat
    BY <1>2 DEF SessionInv, StreamSound, SessionTypes
  <2>2. k < at \/ end < k
    BY <1>1, <2>1 DEF SessionInv, StreamSound
  <2> QED
    BY <1>1, <2>1, <2>2 DEF StreamAt, UpToDate
<1>3. CASE invalid
  BY <1>1, <1>2, <1>3, NullsRemoved DEF SessionInv, SessionTypes
<1>4. CASE ~ invalid
  <2> USE DEF SessionInv
  <2>1. sessions' = sessions
    BY <1>1, <1>4
  <2>2. SessionTypes' /\ AcceptedIsLast'
    BY <1>1, <2>1 DEF SessionTypes, AcceptedIsLast
  <2>3. ListSound'
    BY <1>1, <1>4, <2>1 DEF ListSound
  <2>4. OpenListed'
    BY <1>1, <2>1 DEF OpenListed, IsConnected, Listed
  <2>5. StreamSound'
    BY <1>1, <1>2, <2>1 DEF StreamSound, StreamAt, UpToDate
  <2> QED
    BY <2>2, <2>3, <2>4, <2>5
<1> QED
  BY <1>3, <1>4 DEF SessionInv, SessionTypes

LEMMA SessionsStep == LoginInv /\ SessionInv /\ [Next]_vars => SessionInv'
<1> SUFFICES ASSUME LoginInv, SessionInv, [Next]_vars
             PROVE  SessionInv'
  OBVIOUS
<1>1. ASSUME NEW s \in Session, Accept(s) \/ CloseSocket(s)
      PROVE  SessionInv'
  BY <1>1, AcceptedStep, ClosedStep
<1>2. ASSUME NEW s \in Session, NEW id \in FromClient, ReceivePacket(s, id)
      PROVE  SessionInv'
  <2>1. reading' \subseteq Session /\ aborted' \subseteq Session
    BY <1>2 DEF ReceivePacket, SessionInv, SessionTypes
  <2> QED
    BY <1>2, <2>1, ThreadsStep DEF ReceivePacket, iteration, SessionInv, SessionTypes
<1>3. ASSUME NEW s \in Session, HandlersEnd(s)
      PROVE  SessionInv'
  BY <1>3, ThreadsStep DEF HandlersEnd, iteration, SessionInv, SessionTypes
<1>4. CASE PushSession \/ ConnectToClient
  BY <1>4, PushedStep, ConnectedStep
<1>5. CASE RunReturns \/ Start
  BY <1>5, ThreadsStep DEF RunReturns, Start, iteration, SessionInv, SessionTypes
<1>6. CASE Stop \/ Join
  BY <1>6, ThreadsStep DEF Stop, Join, iteration, SessionInv, SessionTypes
<1>7. CASE HandleMessage \/ StartBroadcast \/ Visit \/ EndBroadcast
  BY <1>7, HandledStep, BroadcastStarts, VisitedStep, BroadcastEnds
<1>8. CASE UNCHANGED vars
  BY <1>8, ThreadsStep DEF vars, iteration, SessionInv, SessionTypes
<1> QED
  BY <1>1, <1>2, <1>3, <1>4, <1>5, <1>6, <1>7, <1>8 DEF Next, GameThread

(***************************************************************************)
(* The sessions, the accept handler and the broadcast stay in step, the    *)
(* race on _sessions included.                                             *)
(***************************************************************************)
THEOREM SessionsCorrect == Spec => []SessionInv
<1>1. Init => SessionInv
  BY SessionsInit
<1> QED
  BY <1>1, SessionsStep, LoginCorrect, PTL DEF Spec

(***************************************************************************)
(* The variables of a server have their types, however many clients        *)
(* connect and however the threads interleave.                             *)
(***************************************************************************)
THEOREM TypeCorrect == Spec => []TypeOK
<1>1. LoginInv /\ SessionInv => TypeOK
  BY DEF LoginInv, LoginTypes, SessionInv, SessionTypes, TypeOK, Info, Received
<1> QED
  BY <1>1, LoginCorrect, SessionsCorrect, PTL

(***************************************************************************)
(* Whatever is erased from _sessions and whenever, and whichever handlers  *)
(* are outstanding, a session keeps its one place in it, which keeps it    *)
(* alive, until its socket is closed (server.hpp:69-97, 103-149).          *)
(***************************************************************************)
THEOREM OpenSessionsAreKept == Spec => []OpenSessionsKept
<1>1. SessionInv => OpenSessionsKept
  <2> SUFFICES ASSUME SessionInv, NEW s \in Session, IsConnected(s),
                      ~ (accepting = s /\ context = "push")
               PROVE  \E k \in DOMAIN sessions :
                        sessions[k] = s /\ \A j \in DOMAIN sessions \ {k} : sessions[j] # s
    BY DEF OpenSessionsKept
  <2>1. PICK k \in DOMAIN sessions : sessions[k] = s
    BY DEF SessionInv, OpenListed, Listed
  <2>2. s # Null
    BY ServerAssumption
  <2>3. \A j \in DOMAIN sessions \ {k} : sessions[j] # s
    BY <2>1, <2>2 DEF SessionInv, ListSound
  <2> QED
    BY <2>1, <2>3
<1> QED
  BY <1>1, SessionsCorrect, PTL

(***************************************************************************)
(* No client misses a tick or gets one twice, however many sessions end    *)
(* or are accepted before, after and during a broadcast (server.hpp:       *)
(* 119-149).                                                               *)
(***************************************************************************)
THEOREM DeltasAreConsecutive == Spec => DeltaStream
<1> DEFINE Consecutive == \A s \in Session :
             seen[s] # Ticks => seen[s]' \in {seen[s], (seen[s] + 1) % Ticks, Ticks}
<1>1. SessionInv /\ [Next]_vars => [Consecutive]_vars
  <2> SUFFICES ASSUME SessionInv, Next, NEW s \in Session,
                      seen'[s] # seen[s], seen[s] # Ticks
               PROVE  seen'[s] \in {(seen[s] + 1) % Ticks, Ticks}
    OBVIOUS
  <2>1. CASE Visit
    <3>1. /\ game = "visit" /\ at <= end
          /\ at \in DOMAIN sessions
          /\ sessions[at] # Null
      BY <2>1 DEF Visit, SessionInv, StreamSound, SessionTypes, ListSound
    <3>2. \/ seen' = [seen EXCEPT ![sessions[at]] = tick]
          \/ seen' = [seen EXCEPT ![sessions[at]] = Ticks]
      BY <2>1 DEF Visit
    <3>3. s = sessions[at] /\ seen'[s] \in {tick, Ticks}
      BY <3>2 DEF SessionInv, SessionTypes
    <3>4. StreamAt(at) /\ at <= at
      BY <3>1 DEF SessionInv, StreamSound, SessionTypes
    <3> QED
      BY <3>1, <3>3, <3>4 DEF StreamAt
  <2>2. CASE ~ Visit
    <3>1. seen' = seen
      BY <2>2 DEF Next, GameThread, Accept, CloseSocket, ReceivePacket, PushSession,
         ConnectToClient, HandlersEnd, RunReturns, Start, Stop, Join, HandleMessage,
         StartBroadcast, EndBroadcast
    <3> QED
      BY <3>1
  <2> QED
    BY <2>1, <2>2
<1> QED
  BY <1>1, SessionsCorrect, PTL DEF Spec, DeltaStream
=============================================================================
