---------------------------- MODULE MCFecSession ----------------------------
(* FecSession on a small instance. *)
EXTENDS FecSession, TLC

CONSTANTS n1, n2

MCReceivers == {n1, n2}
MCSymmetry == Permutations(MCReceivers)
=============================================================================
