------------------------------- MODULE Client -------------------------------
(***************************************************************************)
(* net::Client (include/net/client.hpp): the thread that runs the          *)
(* io_context, and the session whose handlers it runs, between connect()   *)
(* and disconnect().  ServerInterface::start and stop                      *)
(* (include/net/server.hpp:34-62) handle their thread the same way.        *)
(*                                                                         *)
(* The application calls connect() and disconnect() from one thread, in    *)
(* any order: nothing keeps it from connect() while it holds a session.    *)
(* What a session does on the network is in TCPSession; here it is one     *)
(* asynchronous operation after another, and the close task that           *)
(* disconnect() posts.                                                     *)
(***************************************************************************)

CONSTANTS
  Session,   \* the objects that successive calls of connect() make
  Null       \* no session, no task

ASSUME ClientAssumption == Null \notin Session

Tasks == [kind : {"io", "close"}, session : Session]

VARIABLES pc,       \* the application: "out" of the class, in the middle of
                    \* connect ("connect") or of disconnect ("stop", "join"),
                    \* or "terminated", as is the whole program
          session,  \* _session
          found,    \* history: what the last connect() found in _session
          socket,   \* of each session: "none", "open" or "closed"; or
                    \* "destroyed", when the session is too
          tasks,    \* outstanding work of _context
          busy,     \* the task whose handler runs, or Null
          stopped,  \* whether _context is stopped
          thread    \* _context_thread: "none", "running", or "ended" but
                    \* still to be joined

vars == <<pc, session, found, socket, tasks, busy, stopped, thread>>

Init ==
  /\ pc = "out"
  /\ session = Null
  /\ found = Null
  /\ socket = [s \in Session |-> "none"]
  /\ tasks = {}
  /\ busy = Null
  /\ stopped = FALSE
  /\ thread = "none"

IsConnected == session # Null /\ socket[session] = "open"

Task(kind, s) == [kind |-> kind, session |-> s]
-----------------------------------------------------------------------------
(***************************************************************************)
(* The application.                                                        *)
(***************************************************************************)

\* connect(), up to the thread.  The session that was held is destroyed: what
\* it has outstanding is aborted, and its handlers are still to run, with a
\* pointer to it.  async_connect opens the new socket.  When the host is not
\* resolved, connect() returns false and nothing has changed.
Connect(s) ==
  /\ pc = "out"
  /\ socket[s] = "none"
  /\ found' = session
  /\ session' = s
  /\ socket' = [r \in Session |-> CASE r = s       -> "open"
                                  [] r = session -> "destroyed"
                                  [] OTHER       -> socket[r]]
  /\ tasks' = tasks \cup {Task("io", s)}
  /\ pc' = "connect"
  /\ UNCHANGED <<busy, stopped, thread>>

\* The tail of connect().
StartThread ==
  /\ pc = "connect"
  /\ thread = "none"
  /\ thread' = "running"
  /\ pc' = "out"
  /\ UNCHANGED <<session, found, socket, tasks, busy, stopped>>

\* Assigning to a thread that is to be joined calls std::terminate.
Terminate ==
  /\ pc = "connect"
  /\ thread # "none"
  /\ pc' = "terminated"
  /\ UNCHANGED <<session, found, socket, tasks, busy, stopped, thread>>

\* No thread can be made: connect() returns false, and keeps the session.
ThreadFails ==
  /\ pc = "connect"
  /\ pc' = "out"
  /\ UNCHANGED <<session, found, socket, tasks, busy, stopped, thread>>

\* The head of disconnect(), which the destructor calls too.
Disconnect ==
  /\ pc = "out"
  /\ tasks' = IF IsConnected THEN tasks \cup {Task("close", session)} ELSE tasks
  /\ pc' = "stop"
  /\ UNCHANGED <<session, found, socket, busy, stopped, thread>>

\* Mutant of StopContext: the context is left to run out of work.
StopContextNot ==
  /\ pc = "stop"
  /\ pc' = "join"
  /\ UNCHANGED <<session, found, socket, tasks, busy, stopped, thread>>

StopContext ==
  /\ pc = "stop"
  /\ stopped' = TRUE
  /\ pc' = "join"
  /\ UNCHANGED <<session, found, socket, tasks, busy, thread>>

\* Mutants of Join: the thread is not joined; only one that still runs is.
JoinNot ==
  /\ pc = "join"
  /\ session' = Null
  /\ pc' = "out"
  /\ thread' = "none"
  /\ UNCHANGED <<found, socket, tasks, busy, stopped>>

JoinRunning ==
  /\ pc = "join"
  /\ session' = Null
  /\ pc' = "out"
  /\ UNCHANGED <<found, socket, tasks, busy, stopped, thread>>

\* Wait for run() to return, and let go of the session, which is not deleted.
Join ==
  /\ pc = "join"
  /\ thread # "running"
  /\ thread' = "none"
  /\ session' = Null
  /\ pc' = "out"
  /\ UNCHANGED <<found, socket, tasks, busy, stopped>>
-----------------------------------------------------------------------------
(***************************************************************************)
(* _context.run(), in the context thread.                                  *)
(***************************************************************************)

\* run() has not returned, and the program goes on.
Runs == thread = "running" /\ pc # "terminated"

RunTask ==
  /\ Runs
  /\ busy = Null
  /\ ~ stopped
  /\ \E t \in tasks : busy' = t /\ tasks' = tasks \ {t}
  /\ UNCHANGED <<pc, session, found, socket, stopped, thread>>

\* Mutant of FinishTask: an operation is started again from the task that has
\* just been taken out of the context.
FinishTaskResume ==
  /\ Runs
  /\ busy # Null
  /\ busy' = Null
  /\ \/ tasks' = tasks \cup {busy'} /\ UNCHANGED socket
     \/ socket' = [socket EXCEPT ![busy.session] = "closed"] /\ UNCHANGED tasks
  /\ UNCHANGED <<pc, session, found, stopped, thread>>

\* An operation that succeeds starts the next one.  One that fails closes the
\* socket, except for async_connect, whose error is ignored.  What a handler
\* does to a session that is destroyed is undefined; here it does nothing.
FinishTask ==
  /\ Runs
  /\ busy # Null
  /\ busy' = Null
  /\ \/ /\ busy.kind = "io"
        /\ socket[busy.session] = "open"
        /\ tasks' = tasks \cup {busy}
        /\ UNCHANGED socket
     \/ /\ socket[busy.session] # "destroyed"
        /\ socket' = [socket EXCEPT ![busy.session] = "closed"]
        /\ UNCHANGED tasks
     \/ /\ busy.kind = "io" \/ socket[busy.session] = "destroyed"
        /\ UNCHANGED <<socket, tasks>>
  /\ UNCHANGED <<pc, session, found, stopped, thread>>

\* Out of work, the context stops too.
RunReturns ==
  /\ Runs
  /\ busy = Null
  /\ stopped \/ tasks = {}
  /\ thread' = "ended"
  /\ stopped' = TRUE
  /\ UNCHANGED <<pc, session, found, socket, tasks, busy>>
-----------------------------------------------------------------------------
Next ==
  \/ \E s \in Session : Connect(s)
  \/ StartThread
  \/ Terminate
  \/ ThreadFails
  \/ Disconnect
  \/ StopContext
  \/ Join
  \/ RunTask
  \/ FinishTask
  \/ RunReturns

Spec == Init /\ [][Next]_vars

(***************************************************************************)
(* Calls return and the context thread is scheduled; the application need  *)
(* neither connect nor disconnect.  ThreadFails needs no fairness: it      *)
(* competes with StartThread and Terminate, one of which can happen.       *)
(***************************************************************************)
FairSpec ==
  /\ Spec
  /\ WF_vars(StartThread \/ Terminate) /\ WF_vars(StopContext) /\ WF_vars(Join)
  /\ WF_vars(RunTask) /\ WF_vars(FinishTask) /\ WF_vars(RunReturns)
-----------------------------------------------------------------------------
TypeOK ==
  /\ pc \in {"out", "connect", "stop", "join", "terminated"}
  /\ session \in Session \cup {Null}
  /\ found \in Session \cup {Null}
  /\ socket \in [Session -> {"none", "open", "closed", "destroyed"}]
  /\ tasks \subseteq Tasks
  /\ busy \in Tasks \cup {Null}
  /\ stopped \in BOOLEAN
  /\ thread \in {"none", "running", "ended"}

(***************************************************************************)
(* No handler runs for a session that disconnect() gave up: stop() does    *)
(* not interrupt the handler that runs, so the thread must be joined       *)
(* before the session is given up (client.hpp:47-52).  A handler that does *)
(* not run for the session the client holds runs for one that connect()    *)
(* destroyed, which happens when connect() is called with a session held   *)
(* (client.hpp:24).                                                        *)
(***************************************************************************)
HandlersOwned ==
  busy # Null => busy.session = session \/ socket[busy.session] = "destroyed"

(***************************************************************************)
(* connect() terminates the program only if the application called it with *)
(* a session held (client.hpp:32): disconnect() leaves no thread behind    *)
(* that is to be joined, also when the thread ran out of work by itself or *)
(* an earlier connect() failed (client.hpp:34-37, 48-50).                  *)
(***************************************************************************)
TerminatedIfHeld == pc = "terminated" => found # Null

(***************************************************************************)
(* disconnect() returns, although the session may have a read outstanding  *)
(* that nobody answers: it does not wait for the work to run out.          *)
(***************************************************************************)
DisconnectReturns == (pc = "stop") ~> (pc = "out")

(***************************************************************************)
(* session.hpp:51, of connect_to_server: "Connects to tge server           *)
(* asynchronously and starts to read the packets".  It fails for the       *)
(* second connection: the context is stopped and never restarted.          *)
(***************************************************************************)
ConnectionServed ==
  (pc = "out" /\ thread = "running" /\ tasks # {})
    ~> (busy # Null \/ pc \in {"stop", "terminated"})
=============================================================================
