-------------------------- MODULE MCToolExecution --------------------------
(***************************************************************************)
(* Two scenarios for the tool calls of one Run: two workers, one of which  *)
(* crashes or stalls at any point, beside one operator with every command, *)
(* and one worker beside two operators whose resolutions overlap.          *)
(***************************************************************************)
EXTENDS ToolExecution, TLC

SharedId == [w \in Workers |-> CHOOSE i \in WorkerIds : TRUE]
\* Every call is protected, so the calls are interchangeable too.
Symmetric == Permutations(Workers) \cup Permutations(Sessions) \cup Permutations(Calls)
EveryOp == ResolveOps \cup InvocationOps \cup {"cancelRun", "requestInvocation"}

Busy == {s \in Sessions : sess[s].op # "none"}

OneOperator ==
  /\ ~overwritten
  /\ Cardinality(Busy) <= 1
  /\ crashes > 0 => stalls = 0 /\ \A s \in Busy : sess[s].op \in ResolveOps

TwoOperators ==
  /\ \A s \in Busy : sess[s].op \in ResolveOps
  /\ Cardinality({w \in Workers : pc[w] # "idle"}) <= 1
  /\ crashes = 0 /\ stalls = 0

\* The constraint of the run: every state belongs to one of the two scenarios.
Scenario == OneOperator \/ TwoOperators
=============================================================================
