-------------------------- MODULE MCFecSessionLive --------------------------
(* FecSessionLive on small instances. *)
EXTENDS FecSessionLive, TLC

CONSTANTS n1, n2
=============================================================================
