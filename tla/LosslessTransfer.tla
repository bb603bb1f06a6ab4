--------------------------- MODULE LosslessTransfer ---------------------------
(***************************************************************************)
(* What a lossless session promises, without rounds, frames or timers:     *)
(* receivers join until membership closes, blocks only accumulate after    *)
(* that, and the transfer is declared complete only when every member      *)
(* holds the whole object.                                                 *)
(***************************************************************************)
CONSTANTS Members, Object

VARIABLES outcome, closed, quorum, have

transferVars == <<outcome, closed, quorum, have>>

TransferInit ==
    /\ outcome = "Running"
    /\ closed = FALSE
    /\ quorum = {}
    /\ have = [p \in Members |-> {}]

Join(p) ==
    /\ ~closed
    /\ quorum' = quorum \cup {p}
    /\ UNCHANGED <<outcome, closed, have>>

CloseMembership ==
    /\ ~closed
    /\ closed' = TRUE
    /\ UNCHANGED <<outcome, quorum, have>>

\* A block may still reach a receiver after the sender has given up or
\* finished; membership is closed before the first one does.
Store(p, b) ==
    /\ closed
    /\ have' = [have EXCEPT ![p] = @ \cup {b}]
    /\ UNCHANGED <<outcome, closed, quorum>>

Finish ==
    /\ outcome = "Running"
    /\ closed
    /\ \A p \in quorum : have[p] = Object
    /\ outcome' = "Completed"
    /\ UNCHANGED <<closed, quorum, have>>

GiveUp ==
    /\ outcome = "Running"
    /\ outcome' = "Aborted"
    /\ closed' = TRUE
    /\ UNCHANGED <<quorum, have>>

TransferNext ==
    \/ CloseMembership
    \/ Finish
    \/ GiveUp
    \/ \E p \in Members : Join(p) \/ \E b \in Object : Store(p, b)

TransferSpec == TransferInit /\ [][TransferNext]_transferVars
=============================================================================
