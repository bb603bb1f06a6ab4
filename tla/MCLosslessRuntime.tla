-------------------------- MODULE MCLosslessRuntime --------------------------
(* LosslessRuntime on small instances. *)
EXTENDS LosslessRuntime

CONSTANTS r1, r2, s1, A, B

\* The receivers are incarnations of one session, senders belong to another.
TwoSessions == [t \in Tasks |-> IF t \in Senders THEN B ELSE A]
=============================================================================
