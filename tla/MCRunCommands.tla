--------------------------- MODULE MCRunCommands ---------------------------
(***************************************************************************)
(* Two scenarios over the same Runs: two workers that crash, stall and     *)
(* take over from each other beside one command at a time, and one worker  *)
(* beside two commands that overlap.                                       *)
(***************************************************************************)
EXTENDS RunCoordination, TLC

\* Two worker processes configured with the same FRIDAY_WORKER_ID.
SharedId == [w \in Workers |-> CHOOSE i \in WorkerIds : TRUE]
Symmetry == Permutations(Workers) \cup Permutations(Sessions)

\* Commands that race workers, and commands that race each other.
RacingOps == {"startRun", "approve", "cancel", "cancelTask", "completeTask", "failTask"}
OverlappingOps ==
  {"startRun", "startQueued", "complete", "fail", "cancel", "request",
   "approve", "cancelApproval", "expire"}
CommandsInUse == RacingOps \cup OverlappingOps

Open == {s \in Sessions : sess[s] # IdleSession}

\* A behaviour starts in one of the two and stays there: faults are spent one by
\* one and never given back, and neither scenario allows MaxFaults - 1 of them.
TwoWorkers ==
  /\ faults + 1 < MaxFaults
  /\ Cardinality(Open) <= 1
  /\ \A s \in Open : sess[s].op \in RacingOps
  /\ Cardinality({a \in Approvals : appr[a].status # "none"}) <= 1

TwoCommands ==
  /\ \A s \in Open : sess[s].op \in OverlappingOps
  /\ Cardinality({w \in Workers : pc[w] # "idle"}) <= 1
  /\ Cardinality(Created) <= 1
  /\ faults = MaxFaults

\* The constraint of the run: every state belongs to one of the two scenarios,
\* and no session holds a StartRun that MaxStarts would not let commit.
Scenario ==
  /\ TwoWorkers \/ TwoCommands
  /\ \A s \in Open : sess[s].op = "startRun" => Created = {}
=============================================================================
