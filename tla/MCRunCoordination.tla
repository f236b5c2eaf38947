------------------------- MODULE MCRunCoordination -------------------------
(* Instances of RunCoordination for TLC. *)
EXTENDS RunCoordination, TLC

\* Two worker processes configured with the same FRIDAY_WORKER_ID: only the
\* token and the generation tell their claims apart.
SharedId == [w \in Workers |-> CHOOSE i \in WorkerIds : TRUE]
=============================================================================
