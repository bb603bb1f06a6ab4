---------------------------- MODULE MCScheduler ----------------------------
(* Scheduler on a small instance. *)
EXTENDS Scheduler

CONSTANTS f1, f2

\* Large TCP data and a small control packet in one flow, data in another.
MCKinds == {[flow |-> f1, data |-> TRUE, size |-> 2], [flow |-> f1, data |-> FALSE, size |-> 1],
            [flow |-> f2, data |-> TRUE, size |-> 2]}
=============================================================================
