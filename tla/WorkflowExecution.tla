------------------------- MODULE WorkflowExecution -------------------------
(***************************************************************************)
(* One Workflow execution: its bootstrap under the claim of the root Run,  *)
(* and the reconcilers (worker callbacks and the maintenance scan) that    *)
(* carry the outcomes of child Runs into the node rows until the root Run  *)
(* can end.                                                                *)
(*                                                                         *)
(* Every transaction reads first and takes the write lock at its first     *)
(* statement that writes; what it read may be stale by then.  The root's   *)
(* work item is fenced by the holder alone: RunCoordinationProofs shows    *)
(* that the claim triple identifies it.  A child Run is what its own       *)
(* worker (RunCoordination) makes of it.                                   *)
(***************************************************************************)
EXTENDS Naturals, FiniteSets

CONSTANTS
  NodeCount,  \* nodes of the frozen revision
  Preds,      \* predecessors of each node
  Workers,    \* worker processes
  Sessions,   \* API requests that can be open at once
  Commands,   \* the commands they may carry
  Nobody      \* SQL NULL in claimed_by

\* In the order of node_key, in which the reconciler visits them.
Nodes == 1 .. NodeCount

\* validate_workflow_dag: every set of nodes has one with no predecessor in it.
ASSUME GraphAssumption ==
  /\ NodeCount \in Nat \ {0}
  /\ Preds \in [Nodes -> SUBSET Nodes]
  /\ \A S \in SUBSET Nodes : S # {} => \E n \in S : Preds[n] \cap S = {}

ASSUME NobodyAssumption == Nobody \notin Workers

VARIABLES
  root,   \* status of the root Run
  row,    \* its work item
  exec,   \* workflow_executions
  node,   \* workflow_node_executions
  child,  \* latest Run of each node's child lineage
  made,   \* history: children created for each node
  pc,     \* where each worker stands
  snap,   \* the node rows it has read
  found,  \* the first terminal child it has found
  sess    \* the command each session has loaded

tables == <<root, row, exec, node, child, made>>
local == <<pc, snap, found>>
vars == <<tables, local, sess>>

Ended == {"succeeded", "failed", "cancelled"}
RootStatus == {"queued", "running", "waiting"} \cup Ended
NodeStatus == {"pending", "dispatched", "blocked"} \cup Ended
Done == {"blocked"} \cup Ended
Bad == {"failed", "cancelled", "blocked"}
CommandNames == {"start_run", "complete_run", "fail_run", "cancel_run", "cancel_task", "cancel_child"}

Gone == [present |-> FALSE, holder |-> Nobody, live |-> FALSE]
NoNodes == [n \in Nodes |-> "none"]
NoFind == [node |-> 0, status |-> "none"]
NoCommand == [name |-> "none", node |-> 0]

TypeOK ==
  /\ root \in RootStatus
  /\ row \in [present : BOOLEAN, holder : Workers \cup {Nobody}, live : BOOLEAN]
  /\ exec \in {"none", "running"} \cup Ended
  /\ node \in [Nodes -> NodeStatus \cup {"none"}]
  /\ child \in [Nodes -> {"none", "live"} \cup Ended]
  /\ made \in [Nodes -> Nat]
  /\ pc \in [Workers -> {"idle", "claimed", "bootstrapping", "failing", "failed",
                         "callback", "loaded", "checked"}]
  /\ snap \in [Workers -> [Nodes -> NodeStatus \cup {"none"}]]
  /\ found \in [Workers -> [node : 0 .. NodeCount + 1, status : Ended \cup {"none"}]]
  /\ sess \in [Sessions -> [name : CommandNames, node : Nodes] \cup {NoCommand}]

\* A Task bound to the Workflow has been started.
Init ==
  /\ root = "queued"
  /\ row = [present |-> TRUE, holder |-> Nobody, live |-> FALSE]
  /\ exec = "none"
  /\ node = NoNodes
  /\ child = [n \in Nodes |-> "none"]
  /\ made = [n \in Nodes |-> 0]
  /\ pc = [w \in Workers |-> "idle"]
  /\ snap = [w \in Workers |-> NoNodes]
  /\ found = [w \in Workers |-> NoFind]
  /\ sess = [s \in Sessions |-> NoCommand]

Goes(w, to) == pc' = [pc EXCEPT ![w] = to]

\* Back to the loop; what was read is forgotten.
Rests(w) ==
  /\ Goes(w, "idle")
  /\ snap' = [snap EXCEPT ![w] = NoNodes]
  /\ found' = [found EXCEPT ![w] = NoFind]

-----------------------------------------------------------------------------
(* The scheduler *)

Ready(nd, n) == nd[n] = "pending" /\ \A p \in Preds[n] : nd[p] = "succeeded"

\* What one more round blocks when S is blocked already; big are the nodes
\* whose context is too large.
Blocks(nd, big, S) ==
  {n \in Nodes : /\ nd[n] = "pending"
                 /\ (Ready(nd, n) /\ n \in big) \/ \E p \in Preds[n] : nd[p] \in Bad \/ p \in S}

\* The rounds stop at the least set of pending nodes that blocks no more.
Blocked(nd, big) ==
  LET pending == {n \in Nodes : nd[n] = "pending"}
      closed == {S \in SUBSET pending : Blocks(nd, big, S) \subseteq S}
  IN  {n \in pending : \A S \in closed : n \in S}

\* Mutant: no fixed point, one round only.
Scheduled_OneRound(nd, big) ==
  [n \in Nodes |->
     IF n \in Blocks(nd, big, {}) THEN "blocked" ELSE IF Ready(nd, n) THEN "dispatched" ELSE nd[n]]

\* _schedule_to_fixed_point.
Scheduled(nd, big) ==
  LET blocked == Blocked(nd, big) IN
  [n \in Nodes |->
     IF n \in blocked THEN "blocked" ELSE IF Ready(nd, n) THEN "dispatched" ELSE nd[n]]

\* Any ready node may turn out to have too large a context.
Schedules(nd) == {Scheduled(nd, big) : big \in SUBSET {n \in Nodes : Ready(nd, n)}}

\* Mutant: the first failure decides.
Outcome_AnyFailure(nd) ==
  IF \E n \in Nodes : nd[n] \in Bad THEN "failed"
  ELSE IF \A n \in Nodes : nd[n] = "succeeded" THEN "succeeded" ELSE "running"

\* _finish_if_terminal.
Outcome(nd) ==
  LET statuses == {nd[n] : n \in Nodes} IN
  CASE ~(statuses \subseteq Done) -> "running"
    [] statuses = {"succeeded"} -> "succeeded"
    [] "cancelled" \in statuses /\ statuses \subseteq Done \ {"failed"} -> "cancelled"
    [] OTHER -> "failed"

-----------------------------------------------------------------------------
(* StartWorkflowExecution, under the root's claim and without heartbeat *)

Holds(w) == row.present /\ row.holder = w /\ row.live

\* ClaimNextRun; the row of a Run with nothing left to run is dropped.
ClaimRoot(w) ==
  /\ pc[w] = "idle"
  /\ row.present /\ (row.holder = Nobody \/ ~row.live)
  /\ \/ /\ root \in {"queued", "running"}
        /\ row' = [row EXCEPT !.holder = w, !.live = TRUE]
        /\ root' = "running"
        /\ Goes(w, "claimed")
     \/ /\ root \notin {"queued", "running"}
        /\ row' = Gone
        /\ UNCHANGED <<root, pc>>
  /\ UNCHANGED <<exec, node, child, made, snap, found, sess>>

LeaseExpires ==
  /\ row.live
  /\ row' = [row EXCEPT !.live = FALSE]
  /\ UNCHANGED <<root, exec, node, child, made, local, sess>>

\* The reads: an execution that exists is returned as it is, or refused if
\* the root does not match it; inactive Agents, a broken revision or a changed
\* binding fail the bootstrap.
LoadRoot(w) ==
  /\ pc[w] = "claimed"
  /\ \/ exec # "none" /\ (Goes(w, "idle") \/ Goes(w, "failing"))
     \/ exec = "none" /\ ~Holds(w) /\ Goes(w, "idle")
     \/ exec = "none" /\ Holds(w) /\ Goes(w, "failing")
     \/ exec = "none" /\ Holds(w) /\ root = "running" /\ Goes(w, "bootstrapping")
  /\ UNCHANGED <<tables, snap, found, sess>>

Dispatched(old, new) == {n \in Nodes : new[n] = "dispatched" /\ old[n] # "dispatched"}

\* Children of newly dispatched nodes are created with them.
Children(new) ==
  /\ child' = [n \in Nodes |-> IF n \in new THEN "live" ELSE child[n]]
  /\ made' = [n \in Nodes |-> IF n \in new THEN made[n] + 1 ELSE made[n]]

\* The writes: execution, nodes, first children and the fixed point; the
\* root waits, or ends at once, and its row goes.
Bootstrap(w) ==
  /\ pc[w] = "bootstrapping" /\ exec = "none" /\ Holds(w)
  /\ \E nd \in Schedules([n \in Nodes |-> "pending"]) :
       LET end == Outcome(nd) IN
       /\ node' = nd
       /\ Children(Dispatched(node, nd))
       /\ exec' = end
       /\ root' = IF end = "running" THEN "waiting" ELSE end
  /\ row' = Gone
  /\ Goes(w, "idle")
  /\ UNCHANGED <<snap, found, sess>>

\* Another worker has inserted the execution (its unique root_run_id), or the
\* claim was lost.
BootstrapRefused(w) ==
  /\ pc[w] = "bootstrapping"
  /\ \/ exec # "none" /\ Goes(w, "failing")
     \/ exec = "none" /\ ~Holds(w) /\ Goes(w, "idle")
  /\ UNCHANGED <<tables, snap, found, sess>>

\* apply_failed reads the Run; one that cannot fail ends the process.
LoadFailing(w) ==
  /\ pc[w] = "failing"
  /\ Goes(w, IF root \in {"running", "waiting"} THEN "failed" ELSE "idle")
  /\ UNCHANGED <<tables, snap, found, sess>>

\* Its writes are fenced by the removal of the row.
FailBootstrap(w) ==
  /\ pc[w] = "failed"
  /\ IF Holds(w) THEN root' = "failed" /\ row' = Gone ELSE UNCHANGED <<root, row>>
  /\ Goes(w, "idle")
  /\ UNCHANGED <<exec, node, child, made, snap, found, sess>>

-----------------------------------------------------------------------------
(* ReconcileWorkflowExecution *)

Ends(n) ==
  /\ child[n] = "live"
  /\ \E status \in Ended : child' = [child EXCEPT ![n] = status]
  /\ UNCHANGED <<root, row, exec, node, made, sess>>

\* A worker settles the child Run and will reconcile it; retries and waits
\* are inside "live".
WorkerEndsChild(w, n) ==
  /\ pc[w] = "idle"
  /\ Ends(n)
  /\ Goes(w, "callback")
  /\ UNCHANGED <<snap, found>>

\* An API command settles it: no callback.
ApiEndsChild(n) == Ends(n) /\ UNCHANGED local

ChildEnds(n) == ApiEndsChild(n) \/ \E w \in Workers : WorkerEndsChild(w, n)

\* Mutant: the scan looks for successful children only.
Ripe_Succeeded(nd, n) == nd[n] = "dispatched" /\ child[n] = "succeeded"

\* A dispatched node whose latest child Run has ended.
Ripe(nd, n) == nd[n] = "dispatched" /\ child[n] \in Ended

\* _reconcile_workflow_child, or the maintenance scan for ripe nodes.
LoadExecution(w) ==
  /\ exec = "running"
  /\ pc[w] = "callback" \/ (pc[w] = "idle" /\ \E n \in Nodes : Ripe(node, n))
  /\ snap' = [snap EXCEPT ![w] = node]
  /\ Goes(w, "loaded")
  /\ UNCHANGED <<tables, found, sess>>

\* The callback finds the execution ended.
CallbackDone(w) ==
  /\ pc[w] = "callback" /\ exec # "running"
  /\ Goes(w, "idle")
  /\ UNCHANGED <<tables, snap, found, sess>>

\* Child Runs are read in key order up to the first that has ended: its node
\* is the first write.  If none has, scheduling comes first.
CheckChildren(w) ==
  LET ripe == {n \in Nodes : snap[w][n] = "dispatched" /\ child[n] \in Ended}
      Finds(n, status) == found' = [found EXCEPT ![w] = [node |-> n, status |-> status]]
  IN
  /\ pc[w] = "loaded"
  /\ \/ ripe = {} /\ Finds(NodeCount + 1, "none")
     \/ \E n \in ripe : (\A m \in ripe : n <= m) /\ Finds(n, child[n])
  /\ Goes(w, "checked")
  /\ UNCHANGED <<tables, snap, sess>>

\* Later children are read under the write lock.
Observed(w, n) ==
  IF n < found[w].node THEN "live" ELSE IF n = found[w].node THEN found[w].status ELSE child[n]

\* _reconcile_dispatched_children.
Marked(w) ==
  [n \in Nodes |->
     IF snap[w][n] = "dispatched" /\ Observed(w, n) \in Ended THEN Observed(w, n) ELSE snap[w][n]]

\* Mutant: an update that expects no status.
Lands_Any(old, new) == TRUE

\* update_status: the statuses each transition expects; a terminal status may
\* be applied again, dispatched may not.
Lands(old, new) ==
  \/ old = new /\ new # "dispatched"
  \/ new \in {"dispatched", "blocked"} /\ old = "pending"
  \/ new \in {"succeeded", "failed"} /\ old = "dispatched"
  \/ new = "cancelled" /\ old \in {"pending", "dispatched"}

Changed(w, nd) == {n \in Nodes : nd[n] # snap[w][n]}

\* The whole transaction: marks, fixed point, end of the execution and of a
\* root that still waits.
Advance(w) ==
  /\ pc[w] = "checked"
  /\ \E nd \in Schedules(Marked(w)) :
       LET end == Outcome(nd) IN
       /\ \A n \in Changed(w, nd) : Lands(node[n], nd[n])
       /\ end = "running" \/ exec \in {"running", end}
       /\ node' = [n \in Nodes |-> IF n \in Changed(w, nd) THEN nd[n] ELSE node[n]]
       /\ Children(Dispatched(snap[w], nd))
       /\ exec' = IF end = "running" THEN exec ELSE end
       /\ IF end # "running" /\ root = "waiting"
          THEN root' = end /\ row' = Gone ELSE UNCHANGED <<root, row>>
  /\ Rests(w)
  /\ UNCHANGED sess

\* ConcurrencyConflict: the transaction is rolled back and the error swallowed.
AdvanceConflict(w) ==
  /\ pc[w] = "checked"
  /\ \E nd \in Schedules(Marked(w)) :
       LET end == Outcome(nd) IN
       \/ \E n \in Changed(w, nd) : ~Lands(node[n], nd[n])
       \/ end # "running" /\ exec \notin {"running", end}
  /\ Rests(w)
  /\ UNCHANGED <<tables, sess>>

\* The process ends anywhere and is started again.
Crash(w) ==
  /\ pc[w] # "idle"
  /\ Rests(w)
  /\ UNCHANGED <<tables, sess>>

-----------------------------------------------------------------------------
(* Commands: what they checked when they read, and what they save later *)

Admits(name, n) ==
  \/ name = "start_run" /\ root = "queued"
  \/ name \in {"complete_run", "fail_run"} /\ root = "running"
  \/ name = "cancel_run" /\ root \notin Ended /\ ~(exec = "running" /\ root = "waiting")
  \/ name = "cancel_task" /\ ~(exec = "running" /\ root \notin Ended)
  \/ name = "cancel_child" /\ child[n] = "live"

LoadCommand(s) ==
  /\ sess[s] = NoCommand
  /\ \E name \in Commands, n \in Nodes :
       /\ name # "cancel_child" => n = 1
       /\ Admits(name, n)
       /\ sess' = [sess EXCEPT ![s] = [name |-> name, node |-> n]]
  /\ UNCHANGED <<tables, local>>

SaveCommand(s) ==
  LET name == sess[s].name IN
  /\ sess[s] # NoCommand
  /\ root' = CASE name = "start_run" -> "running"
               [] name = "complete_run" -> "succeeded"
               [] name = "fail_run" -> "failed"
               [] name = "cancel_run" -> "cancelled"
               [] name = "cancel_task" -> IF root \in Ended THEN root ELSE "cancelled"
               [] name = "cancel_child" -> root
  /\ row' = IF name \in {"complete_run", "fail_run", "cancel_run"} THEN Gone ELSE row
  /\ child' = IF name = "cancel_child" THEN [child EXCEPT ![sess[s].node] = "cancelled"] ELSE child
  /\ sess' = [sess EXCEPT ![s] = NoCommand]
  /\ UNCHANGED <<exec, node, made, local>>

-----------------------------------------------------------------------------
BootstrapStep(w) ==
  LoadRoot(w) \/ Bootstrap(w) \/ BootstrapRefused(w) \/ LoadFailing(w) \/ FailBootstrap(w)

ReconcileStep(w) == CallbackDone(w) \/ CheckChildren(w) \/ Advance(w) \/ AdvanceConflict(w)

Next ==
  \/ LeaseExpires
  \/ \E n \in Nodes : ChildEnds(n)
  \/ \E w \in Workers :
       ClaimRoot(w) \/ BootstrapStep(w) \/ LoadExecution(w) \/ ReconcileStep(w) \/ Crash(w)
  \/ \E s \in Sessions : LoadCommand(s) \/ SaveCommand(s)

Spec == Init /\ [][Next]_vars

\* Child Runs end (RunCoordination), and a worker keeps being run: however
\* often it is restarted, its maintenance gets through now and then.
FairSpec ==
  /\ Spec
  /\ \A n \in Nodes : WF_vars(ChildEnds(n))
  /\ \A w \in Workers : WF_vars(LoadExecution(w)) /\ SF_vars(CheckChildren(w)) /\ SF_vars(Advance(w))

-----------------------------------------------------------------------------
(* Properties *)

\* One child per node: racing reconcilers never create a second one (the
\* strict dispatched transition of update_status).
OneChildPerNode == \A n \in Nodes : made[n] <= 1

\* A node has a child only when all its predecessors succeeded, also when the
\* scheduler decided from rows that were stale.
DependenciesRespected ==
  \A n \in Nodes : node[n] \in {"dispatched"} \cup Ended =>
    \A p \in Preds[n] : node[p] = "succeeded"

\* A running execution has a dispatched node, whose child's end will bring a
\* reconciler (the comment in StartWorkflowExecution on stranding;
\* list_recoverable looks for nothing else).  With three nodes dispatched at
\* once it fails: see MCLostJoin.cfg.
NeverStranded == exec = "running" => \E n \in Nodes : node[n] = "dispatched"

\* An execution that ended has no node left open, is successful if and only
\* if all its nodes are, and cancelled only if none failed
\* (_finish_if_terminal decides from rows that may be stale).
OutcomeMatchesNodes ==
  LET statuses == {node[n] : n \in Nodes} IN
  exec \in Ended =>
    /\ statuses \subseteq Done
    /\ exec = "succeeded" <=> statuses = {"succeeded"}
    /\ exec = "cancelled" => "failed" \notin statuses

\* The outcome of a node, once recorded, stays, whatever stale reconcilers and
\* late cancellations of its child do (the statuses update_status expects).
NodesKeepOutcome == [][\A n \in Nodes : node[n] \in Done => node'[n] = node[n]]_vars

\* A workflow ends although the worker that should have reconciled may be gone,
\* and the root Run ends with it, the same way (wait_for_workflow,
\* succeed_workflow, fail_workflow, cancel_workflow).
WorkflowSettles == exec = "running" ~> exec \in Ended /\ root = exec

-----------------------------------------------------------------------------
(* The tables, as Lifecycle has them *)

NodeRows == INSTANCE Lifecycle WITH Rows <- Nodes, Kind <- "node", status <- node
ExecutionRows == INSTANCE Lifecycle WITH Rows <- {1}, Kind <- "execution", status <- <<exec>>

\* The rows of nodes and executions only take the transitions of their classes
\* although each is decided from rows read before, and a node has a child
\* exactly if it was dispatched (_require_status, _validate_status_shape, and the
\* statuses update_status expects).
NodesFollow ==
  /\ NodeRows!Spec /\ ExecutionRows!Spec
  /\ [](\A n \in Nodes : NodeRows!NodeShape(node[n], child[n] # "none"))

RootRow ==
  INSTANCE Lifecycle WITH Rows <- {1}, Kind <- "run",
    status <- <<IF root = "waiting" THEN "waiting_for_workflow" ELSE root>>

\* So does the root Run, whose claim, bootstrap and end are transactions of
\* different workers (Run.wait_for_workflow, succeed_workflow, fail_workflow,
\* cancel_workflow).
RootFollows == RootRow!Spec

\* With commands, the only steps that may break it are those of a command that
\* saves what it would no longer be allowed to decide.  cancel_task is left out:
\* it leaves the work item in place, and the worker that holds it goes on.
RootUnlessStale ==
  "cancel_task" \notin Commands =>
    [][RootRow!Next \/ \E s \in Sessions : SaveCommand(s) /\ ~Admits(sess[s].name, sess[s].node)]_vars
=============================================================================
