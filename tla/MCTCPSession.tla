---------------------------- MODULE MCTCPSession ----------------------------
(***************************************************************************)
(* Instances of TCPSession for TLC.  A function cannot be written in a     *)
(* configuration, so the bounds on send_packet are defined here.           *)
(***************************************************************************)
EXTENDS TCPSession

OneWay == [s \in Sides |-> IF s = Client THEN 2 ELSE 0]
=============================================================================
