---------------------------- MODULE MCDelegation ----------------------------
(* Instances of Delegation for TLC. *)
EXTENDS Delegation

\* CompleteRun and FailRun differ from CancelRun in the outcome and in the Runs
\* they accept, which are some of those CancelRun does.
Disturbing == {"cancel", "cancelTask", "request"}
OnlyCancelTask == {"cancelTask"}

\* Delegations keep their lifecycle, and all of them settle (DelegationRequest,
\* _validate_state_shape, reconcile_child_terminal_in_uow).
DelegationsHold == RequestsFollow /\ DelegationsSettle
=============================================================================
