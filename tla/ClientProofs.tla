---------------------------- MODULE ClientProofs ----------------------------
(***************************************************************************)
(* Proofs about Client: whom the handlers of the context thread work for,  *)
(* and the thread itself, for any number of connections.                   *)
(***************************************************************************)
EXTENDS Client, TLAPS

(***************************************************************************)
(* The variables have their types, however connections come and go         *)
(* (client.hpp:17-53).                                                     *)
(***************************************************************************)
THEOREM TypeCorrect == Spec => []TypeOK
<1>1. Init => TypeOK
  BY DEF Init, TypeOK
<1>2. TypeOK /\ [Next]_vars => TypeOK'
  <2> SUFFICES ASSUME TypeOK, [Next]_vars
               PROVE  TypeOK'
    OBVIOUS
  <2> USE DEF TypeOK
  <2>1. ASSUME NEW s \in Session, Connect(s)
        PROVE  TypeOK'
    BY <2>1 DEF Connect, Task, Tasks
  <2>2. CASE StartThread
    BY <2>2 DEF StartThread
  <2>3. CASE Disconnect
    BY <2>3 DEF Disconnect, IsConnected, Task, Tasks
  <2>4. CASE StopContext
    BY <2>4 DEF StopContext
  <2>5. CASE Join
    BY <2>5 DEF Join
  <2>6. CASE RunTask
    BY <2>6 DEF RunTask, Runs
  <2>7. CASE FinishTask
    <3>1. busy \in Tasks
      BY <2>7 DEF FinishTask
    <3> QED
      BY <2>7, <3>1 DEF FinishTask, Runs, Tasks
  <2>8. CASE RunReturns
    BY <2>8 DEF RunReturns, Runs
  <2>9. CASE Terminate \/ ThreadFails
    BY <2>9 DEF Terminate, ThreadFails
  <2>10. CASE UNCHANGED vars
    BY <2>10 DEF vars
  <2> QED
    BY <2>1, <2>2, <2>3, <2>4, <2>5, <2>6, <2>7, <2>8, <2>9, <2>10 DEF Next
<1> QED
  BY <1>1, <1>2, PTL DEF Spec

(***************************************************************************)
(* A context that is not stopped has work only of the session that the     *)
(* client holds and of sessions that connect() destroyed: disconnect()     *)
(* gives a session up behind a stop, and nothing restarts the context.  A  *)
(* handler runs in the thread, so that the thread cannot be joined         *)
(* meanwhile.                                                              *)
(***************************************************************************)
Owned(s) == s = session \/ socket[s] = "destroyed"

WorkOwned ==
  /\ HandlersOwned
  /\ ~ stopped => \A t \in tasks : Owned(t.session)
  /\ pc = "join" => stopped
  /\ busy # Null => thread = "running"

(***************************************************************************)
(* Without a session there is no thread, between two calls; so one that    *)
(* connect() finds comes with a session.                                   *)
(***************************************************************************)
ThreadOwned ==
  /\ TerminatedIfHeld
  /\ pc = "connect" => session # Null /\ (thread # "none" => found # Null)
  /\ pc = "out" /\ session = Null => thread = "none"

(***************************************************************************)
(* connect() destroys the session it replaces (client.hpp:24), so the work *)
(* of that one stays owned.                                                *)
(***************************************************************************)
LEMMA ConnectKeepsOwned ==
  ASSUME TypeOK, NEW s \in Session, Connect(s), NEW r \in Session, Owned(r)
  PROVE  Owned(r)'
<1>1. socket'[r] = CASE r = s       -> "open"
                     [] r = session -> "destroyed"
                     [] OTHER       -> socket[r]
  BY DEF Connect
<1>2. session' = s /\ socket[s] = "none"
  BY DEF Connect
<1> QED
  BY <1>1, <1>2 DEF Owned

LEMMA WorkStep ==
  ASSUME TypeOK, WorkOwned, [Next]_vars
  PROVE  WorkOwned'
<1> USE DEF WorkOwned, HandlersOwned, Owned
<1>1. ASSUME NEW s \in Session, Connect(s)
      PROVE  WorkOwned'
  <2>1. (busy # Null => Owned(busy.session))'
    <3> SUFFICES ASSUME busy # Null
                 PROVE  Owned(busy.session)'
      BY <1>1 DEF Connect
    <3>1. busy.session \in Session /\ Owned(busy.session)
      BY DEF TypeOK, Tasks
    <3>2. socket'[busy.session] = "destroyed" \/ busy.session = session'
      BY <1>1, <3>1, ConnectKeepsOwned
    <3> QED
      BY <1>1, <3>2 DEF Connect
  <2>2. (~ stopped => \A t \in tasks : Owned(t.session))'
    <3> SUFFICES ASSUME ~ stopped, NEW t \in tasks \cup {Task("io", s)}
                 PROVE  t.session = session' \/ socket'[t.session] = "destroyed"
      BY <1>1 DEF Connect
    <3>1. CASE t = Task("io", s)
      BY <1>1, <3>1 DEF Connect, Task
    <3>2. CASE t \in tasks
      <4>1. t.session \in Session /\ Owned(t.session)
        BY <3>2 DEF TypeOK, Tasks
      <4> QED
        BY <1>1, <4>1, ConnectKeepsOwned
    <3> QED
      BY <3>1, <3>2
  <2> QED
    BY <1>1, <2>1, <2>2 DEF Connect
<1>2. CASE StartThread \/ Terminate \/ ThreadFails
  BY <1>2 DEF StartThread, Terminate, ThreadFails
<1>3. CASE Disconnect
  BY <1>3 DEF Disconnect, Task
<1>4. CASE StopContext
  BY <1>4 DEF StopContext
<1>5. CASE Join
  BY <1>5 DEF Join
<1>6. CASE RunTask
  <2>1. PICK t \in tasks : busy' = t /\ tasks' = tasks \ {t}
    BY <1>6 DEF RunTask
  <2> QED
    BY <1>6, <2>1 DEF RunTask, Runs
<1>7. CASE FinishTask
  <2>1. tasks' \subseteq tasks \cup {busy}
    BY <1>7 DEF FinishTask
  <2>2. busy # Null /\ busy' = Null /\ busy.session \in Session
    BY <1>7 DEF FinishTask, TypeOK, Tasks
  <2>3. \A r \in Session : socket[r] = "destroyed" => socket'[r] = "destroyed"
    BY <1>7, <2>2 DEF FinishTask, TypeOK
  <2>4. \A t \in tasks : t.session \in Session
    BY DEF TypeOK, Tasks
  <2> QED
    BY <1>7, <2>1, <2>2, <2>3, <2>4 DEF FinishTask, Runs
<1>8. CASE RunReturns
  BY <1>8 DEF RunReturns, Runs
<1>9. CASE UNCHANGED vars
  BY <1>9 DEF vars
<1> QED
  BY <1>1, <1>2, <1>3, <1>4, <1>5, <1>6, <1>7, <1>8, <1>9 DEF Next

LEMMA ThreadStep ==
  ASSUME TypeOK, ThreadOwned, [Next]_vars
  PROVE  ThreadOwned'
<1> USE DEF ThreadOwned, TerminatedIfHeld
<1>1. ASSUME NEW s \in Session, Connect(s)
      PROVE  ThreadOwned'
  BY <1>1, ClientAssumption DEF Connect, ClientAssumption
<1>2. CASE StartThread \/ Terminate \/ ThreadFails
  BY <1>2 DEF StartThread, Terminate, ThreadFails
<1>3. CASE Disconnect \/ StopContext
  BY <1>3 DEF Disconnect, StopContext
<1>4. CASE Join
  BY <1>4 DEF Join
<1>5. CASE RunTask \/ FinishTask
  BY <1>5 DEF RunTask, FinishTask
<1>6. CASE RunReturns
  BY <1>6 DEF RunReturns, Runs
<1>7. CASE UNCHANGED vars
  BY <1>7 DEF vars
<1> QED
  BY <1>1, <1>2, <1>3, <1>4, <1>5, <1>6, <1>7 DEF Next

(***************************************************************************)
(* No handler runs for a session that disconnect() gave up, although       *)
(* stop() neither interrupts the handler that runs nor removes the work    *)
(* that is left, and although connect() may be called with a session held  *)
(* (client.hpp:17-53).                                                     *)
(***************************************************************************)
THEOREM HandlersAreOwned == Spec => []HandlersOwned
<1>1. Init => WorkOwned
  BY DEF Init, WorkOwned, HandlersOwned
<1>2. WorkOwned => HandlersOwned
  BY DEF WorkOwned
<1> QED
  BY <1>1, <1>2, WorkStep, TypeCorrect, PTL DEF Spec

(***************************************************************************)
(* The one way to assign to a thread that is to be joined is to call       *)
(* connect() with a session held (client.hpp:32), whether the context was  *)
(* stopped or ran out of work, and whether or not threads could be made    *)
(* (client.hpp:34-37, 48-50).                                              *)
(***************************************************************************)
THEOREM ThreadIsJoined == Spec => []TerminatedIfHeld
<1>1. Init => ThreadOwned
  BY DEF Init, ThreadOwned, TerminatedIfHeld
<1>2. ThreadOwned => TerminatedIfHeld
  BY DEF ThreadOwned
<1> QED
  BY <1>1, <1>2, ThreadStep, TypeCorrect, PTL DEF Spec
=============================================================================
