---------------------------- MODULE FifoChannel ----------------------------
(***************************************************************************)
(* What a one-way queue promises its users: messages come out in the order *)
(* in which they went in, each at most once, none invented.  It says       *)
(* nothing of the time a message takes, so a channel that stops (a closed  *)
(* socket, a sleeping consumer) still satisfies Spec.                      *)
(*                                                                         *)
(* ThreadSafeDeque, TCPSession and the actions of GameInstance are shown to *)
(* implement this module.                                                  *)
(***************************************************************************)
EXTENDS Naturals, Sequences

CONSTANT Messages       \* what can be sent

VARIABLES sent,         \* everything sent so far, oldest first
          received      \* everything received so far, oldest first

chanVars == <<sent, received>>

Init == sent = <<>> /\ received = <<>>

Send == \E m \in Messages : sent' = Append(sent, m) /\ UNCHANGED received

Receive ==
  /\ Len(received) < Len(sent)
  /\ received' = Append(received, sent[Len(received) + 1])
  /\ UNCHANGED sent

Next == Send \/ Receive

Spec == Init /\ [][Next]_chanVars
=============================================================================
