-------------------------- MODULE MCPlainSessionLive --------------------------
(* PlainSessionLive on a small instance. *)
EXTENDS PlainSessionLive, TLC

CONSTANT n1
=============================================================================
