---------------------------- MODULE MCPlainSession ----------------------------
(* PlainSession on a small instance. *)
EXTENDS PlainSession, TLC

CONSTANTS n1, n2

MCReceivers == {n1, n2}
MCSymmetry == Permutations(MCReceivers)
=============================================================================
