------------------------ MODULE MCWorkflowExecution ------------------------
(* Instances of WorkflowExecution for TLC. *)
EXTENDS WorkflowExecution, TLC

\* A diamond: 1 fans out to 2 and 3, which join in 4.
Diamond == <<{}, {1}, {1}, {2, 3}>>

\* A join of the first and the last of three roots.
Wide == <<{}, {}, {}, {1, 3}>>

Symmetry == Permutations(Workers)
=============================================================================
