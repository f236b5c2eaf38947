----------------------------- MODULE Delegation -----------------------------
(***************************************************************************)
(* A Run that delegates: the request, the child execution it owns, the     *)
(* parent that waits for it, and the settlement that wakes the parent up.  *)
(* Children delegate further, within the budgets.                          *)
(*                                                                         *)
(* Transactions are split as in RunCoordination: what is read before the   *)
(* first DML statement is a step of its own.  A row's holder stands for    *)
(* its exact claim (RunCoordinationProofs); a lapsed lease frees the row.  *)
(***************************************************************************)
EXTENDS Naturals, FiniteSets

CONSTANTS
  Workers,
  Ops,          \* the operator commands in use
  MaxRuns,      \* bound on Runs, numbered by created_at; Run 1 is the first
  MaxRequests,  \* bound on DelegationRequests
  PerRun,       \* MAX_DELEGATIONS_PER_RUN
  PerTree,      \* MAX_DELEGATIONS_PER_TREE
  MaxDepth,     \* MAX_DELEGATION_DEPTH
  MaxAttempts,  \* RetryPolicy.max_attempts
  MaxEvents     \* bound on crashes, lost leases and operator commands

Runs == 1 .. MaxRuns
Requests == 1 .. MaxRequests
AllOps == {"cancel", "complete", "fail", "cancelTask", "request"}

ASSUME DelegationAssumption ==
  /\ {MaxRuns, PerRun, PerTree, MaxDepth, MaxAttempts} \subseteq Nat \ {0}
  /\ {MaxRequests, MaxEvents} \subseteq Nat
  /\ Ops \subseteq AllOps
  /\ {"absent", "free"} \cap Workers = {}

VARIABLES
  status,     \* RunStatus by Run; "none" before it is created
  exec,       \* execution_id: the first attempt of the lineage; one Task each
  waits,      \* delegation_request_id of the Run, 0 for NULL
  row,        \* work item: absent, free, or the worker that holds it
  req,        \* DelegationRequests; child is the execution they own
  cancelled,  \* executions whose Task was cancelled
  pc,         \* where each worker stands
  job,        \* the Run it has claimed
  asked,      \* the request it has dispatched and must acknowledge
  sess,       \* the operator command that has been loaded
  events      \* how many crashes, lost leases and commands there were

data == <<status, exec, waits, row, req, cancelled>>
local == <<pc, job, asked>>
vars == <<data, local, sess, events>>

Terminal == {"succeeded", "failed", "cancelled"}
Live == {"queued", "running", "waiting"}
Idle == [op |-> "none", run |-> 1]
NoRequest == [status |-> "none", parent |-> 0, child |-> 0, root |-> 0, depth |-> 0]

\* A Run carries a delegation marker exactly while it waits.
TypeOK ==
  /\ status \in [Runs -> {"none"} \cup Live \cup Terminal]
  /\ exec \in [Runs -> 0 .. MaxRuns]
  /\ waits \in [Runs -> 0 .. MaxRequests]
  /\ row \in [Runs -> {"absent", "free"} \cup Workers]
  /\ req \in [Requests -> [status : {"none", "requested", "dispatched"} \cup Terminal, parent : 0 .. MaxRuns,
                           child : 0 .. MaxRuns, root : 0 .. MaxRequests, depth : 0 .. MaxDepth]]
  /\ cancelled \subseteq Runs
  /\ pc \in [Workers -> {"idle", "processing", "dispatching", "succeeding", "failing",
                         "retrying", "acking", "down"}]
  /\ job \in [Workers -> Runs]
  /\ asked \in [Workers -> 0 .. MaxRequests]
  /\ sess \in [op : {"none"} \cup Ops, run : Runs]
  /\ events \in 0 .. MaxEvents

\* StartRun has created the first Run.
Init ==
  /\ status = [r \in Runs |-> IF r = 1 THEN "queued" ELSE "none"]
  /\ exec = [r \in Runs |-> IF r = 1 THEN 1 ELSE 0]
  /\ waits = [r \in Runs |-> 0]
  /\ row = [r \in Runs |-> IF r = 1 THEN "free" ELSE "absent"]
  /\ req = [q \in Requests |-> NoRequest]
  /\ cancelled = {}
  /\ pc = [w \in Workers |-> "idle"]
  /\ job = [w \in Workers |-> 1]
  /\ asked = [w \in Workers |-> 0]
  /\ sess = Idle
  /\ events = 0

-----------------------------------------------------------------------------
(* Lineage *)

Attempts(e) == {r \in Runs : exec[r] = e}

\* get_latest_for_execution
Latest(e) == {r \in Attempts(e) : \A a \in Attempts(e) : a <= r}

Fresh == {r \in Runs : status[r] = "none" /\ \A p \in Runs : p < r => status[p] # "none"}
FreshRequest ==
  {q \in Requests : req[q].status = "none" /\ \A p \in Requests : p < q => req[p].status # "none"}

\* get_for_child_execution: the delegation r works for, if any.
Incoming(r) == {q \in Requests : req[q].child = exec[r]}

\* Mutant: depth is looked up by Run, so a retried child starts again at 1.
DepthAfter_PerRun(r) ==
  LET above == {q \in Requests : req[q].child = r} IN
  IF above = {} THEN 1 ELSE 1 + req[CHOOSE q \in above : TRUE].depth

\* The depth of a request made by r.
DepthAfter(r) == IF Incoming(r) = {} THEN 1 ELSE 1 + req[CHOOSE q \in Incoming(r) : TRUE].depth

\* Mutant: settled requests give their slot back.
Materialized_OnlyDispatched(r) ==
  {q \in Requests : req[q].parent = r /\ req[q].status = "dispatched"}

\* count_materialized_for_run / _for_tree count history, settled or not.
Materialized(r) == {q \in Requests : req[q].parent = r /\ req[q].child # 0}
InTree(t) == {q \in Requests : req[q].root = t}

\* Under the tree's and the parent's write locks.
WithinBudget(r) ==
  /\ Cardinality(Materialized(r)) < PerRun
  /\ \A q \in Incoming(r) : Cardinality(InTree(req[q].root)) < PerTree

DispatchedBy(r) == {q \in Requests : req[q].parent = r /\ req[q].status = "dispatched"}

-----------------------------------------------------------------------------
(* Settlement *)

\* Mutant: the end of an attempt settles what was settled before.
Settles_Again(r, ended) ==
  {q \in Incoming(r) : \A a \in Latest(exec[r]) : ended[a] \in Terminal}

\* reconcile_child_terminal_in_uow: the requests that r's end settles.
Settles(r, ended) ==
  {q \in Incoming(r) :
     req[q].status = "dispatched" /\ \A a \in Latest(exec[r]) : ended[a] \in Terminal}

\* Mutant: the parent resumes without being queued.
Resume_NotQueued(r, ended, settled) ==
  LET woken == {p \in Runs : ended[p] = "waiting" /\ waits[p] \in settled} IN
  /\ status' = [p \in Runs |-> IF p \in woken THEN "running" ELSE ended[p]]
  /\ waits' = [p \in Runs |-> IF p \in woken \cup {r} THEN 0 ELSE waits[p]]
  /\ row' = [row EXCEPT ![r] = "absent"]

\* Mutant: resuming leaves the marker set.
Resume_KeepsMarker(r, ended, settled) ==
  LET woken == {p \in Runs : ended[p] = "waiting" /\ waits[p] \in settled} IN
  /\ status' = [p \in Runs |-> IF p \in woken THEN "running" ELSE ended[p]]
  /\ waits' = [waits EXCEPT ![r] = 0]
  /\ row' = [p \in Runs |->
       IF p = r THEN "absent" ELSE IF p \in woken /\ row[p] = "absent" THEN "free" ELSE row[p]]

\* The parent that still waits for a settled request runs again and is queued;
\* the ended Run's row is gone.
Resume(r, ended, settled) ==
  LET woken == {p \in Runs : ended[p] = "waiting" /\ waits[p] \in settled} IN
  /\ status' = [p \in Runs |-> IF p \in woken THEN "running" ELSE ended[p]]
  /\ waits' = [p \in Runs |-> IF p \in woken \cup {r} THEN 0 ELSE waits[p]]
  /\ row' = [p \in Runs |->
       IF p = r THEN "absent" ELSE IF p \in woken /\ row[p] = "absent" THEN "free" ELSE row[p]]

\* Mutant: any attempt's end settles the delegation.
EndRun_AnyAttempt(r, outcome) ==
  LET settled == {q \in Incoming(r) : req[q].status = "dispatched"} IN
  /\ Resume(r, [status EXCEPT ![r] = outcome], settled)
  /\ req' = [q \in Requests |->
       IF q \in settled THEN [req[q] EXCEPT !.status = outcome] ELSE req[q]]
  /\ UNCHANGED <<exec, cancelled>>

\* r ends, and its delegation with it, in one transaction.
EndRun(r, outcome) ==
  LET ended == [status EXCEPT ![r] = outcome]
      settled == Settles(r, ended)
  IN
  /\ Resume(r, ended, settled)
  /\ req' = [q \in Requests |->
       IF q \in settled
       THEN [req[q] EXCEPT !.status = ended[CHOOSE a \in Latest(exec[r]) : TRUE]] ELSE req[q]]
  /\ UNCHANGED <<exec, cancelled>>

-----------------------------------------------------------------------------
(* Workers *)

Goes(w, to) == pc' = [pc EXCEPT ![w] = to]

\* run_once returns.
Returns(w) ==
  /\ Goes(w, "idle")
  /\ job' = [job EXCEPT ![w] = 1]
  /\ asked' = [asked EXCEPT ![w] = 0]

Owns(w) == row[job[w]] = w

Busy == {"processing", "dispatching", "succeeding", "failing", "retrying"}

\* Mutant: only queued Runs are claimed; a resumed one is running already.
ClaimNextRun_OnlyQueued(w, r) ==
  /\ pc[w] = "idle" /\ row[r] = "free"
  /\ status[r] = "queued"
  /\ status' = [status EXCEPT ![r] = "running"]
  /\ row' = [row EXCEPT ![r] = w]
  /\ job' = [job EXCEPT ![w] = r]
  /\ Goes(w, "processing")
  /\ UNCHANGED <<exec, waits, req, cancelled, asked, sess, events>>

\* A stale item is dropped; what can run is started or resumed.
ClaimNextRun(w, r) ==
  /\ pc[w] = "idle" /\ row[r] = "free"
  /\ IF status[r] \in {"queued", "running"}
     THEN /\ status' = [status EXCEPT ![r] = "running"]
          /\ row' = [row EXCEPT ![r] = w]
          /\ job' = [job EXCEPT ![w] = r]
          /\ Goes(w, "processing")
     ELSE /\ row' = [row EXCEPT ![r] = "absent"]
          /\ UNCHANGED <<status, job, pc>>
  /\ UNCHANGED <<exec, waits, req, cancelled, asked, sess, events>>

\* The processor delegates or returns; the transaction that follows reads.
Open(w, to) ==
  /\ status[job[w]] = "running"
  /\ \/ pc[w] = "processing" /\ to \in {"failing", "retrying"}
     \/ pc[w] = "processing" /\ to = "succeeding" /\ DispatchedBy(job[w]) = {}
     \/ pc[w] = "processing" /\ to = "dispatching" /\ Owns(w) /\ DepthAfter(job[w]) <= MaxDepth
  /\ Goes(w, to)
  /\ UNCHANGED <<data, job, asked, sess, events>>

\* DispatchDelegation: child Run, request, waiting parent and its row at once.
Dispatch(w, r, q) ==
  LET p == job[w] IN
  /\ pc[w] = "dispatching" /\ Owns(w)
  /\ r \in Fresh /\ q \in FreshRequest
  /\ WithinBudget(p)
  /\ status' = [status EXCEPT ![p] = "waiting", ![r] = "queued"]
  /\ exec' = [exec EXCEPT ![r] = r]
  /\ waits' = [waits EXCEPT ![p] = q]
  /\ row' = [row EXCEPT ![p] = "absent", ![r] = "free"]
  /\ req' = [req EXCEPT ![q] =
       [status |-> "dispatched", parent |-> p, child |-> r, depth |-> DepthAfter(p),
        root |-> IF Incoming(p) = {} THEN q ELSE req[CHOOSE i \in Incoming(p) : TRUE].root]]
  /\ asked' = [asked EXCEPT ![w] = q]
  /\ Goes(w, "acking")
  /\ UNCHANGED <<cancelled, job, sess, events>>

\* A budget is exhausted, or the target agent cannot take it: the Run fails
\* for good.
Refuse(w) ==
  /\ pc[w] = "dispatching" /\ status[job[w]] = "running"
  /\ Goes(w, "failing")
  /\ UNCHANGED <<data, job, asked, sess, events>>

ApplySucceeded(w) ==
  /\ pc[w] = "succeeding" /\ Owns(w)
  /\ EndRun(job[w], "succeeded")
  /\ Returns(w)
  /\ UNCHANGED <<sess, events>>

\* Mutant: a failure without retry is not reconciled.
ApplyFailed_Unreconciled(w) ==
  /\ pc[w] = "failing" /\ Owns(w)
  /\ status' = [status EXCEPT ![job[w]] = "failed"]
  /\ row' = [row EXCEPT ![job[w]] = "absent"]
  /\ Returns(w)
  /\ UNCHANGED <<exec, waits, req, cancelled, sess, events>>

\* ApplyFailedOutcome without a retry.
ApplyFailed(w) ==
  /\ pc[w] = "failing" /\ Owns(w)
  /\ EndRun(job[w], "failed")
  /\ Returns(w)
  /\ UNCHANGED <<sess, events>>

\* ApplyFailedOutcome with one, or without when the attempts are used up.
ApplyRetry(w) ==
  LET r == job[w]
      allowed == Cardinality({a \in Attempts(exec[r]) : a <= r}) < MaxAttempts
  IN
  /\ pc[w] = "retrying" /\ Owns(w)
  /\ \/ /\ allowed
        /\ \E n \in Fresh :
             /\ status' = [status EXCEPT ![r] = "failed", ![n] = "queued"]
             /\ exec' = [exec EXCEPT ![n] = exec[r]]
             /\ row' = [row EXCEPT ![r] = "absent", ![n] = "free"]
             /\ waits' = [waits EXCEPT ![r] = 0]
             /\ UNCHANGED <<req, cancelled>>
     \/ ~(allowed /\ Fresh # {}) /\ EndRun(r, "failed")
  /\ Returns(w)
  /\ UNCHANGED <<sess, events>>

\* ClaimLost, or a heartbeat that noticed.
Abandon(w) ==
  /\ \/ pc[w] \in Busy /\ ~Owns(w)
     \/ pc[w] = "acking"
  /\ Returns(w)
  /\ UNCHANGED <<data, sess, events>>

\* ApplyWaitingForDelegationOutcome accepts the Run as Dispatch left it, or as
\* the settlement did.
Acknowledged(w) ==
  \/ status[job[w]] = "waiting" /\ waits[job[w]] = asked[w] /\ req[asked[w]].status = "dispatched"
  \/ status[job[w]] = "running" /\ req[asked[w]].status \in Terminal

\* EntityConflict and InvalidStateTransition leave run_once: the Run has moved
\* on, or its Task was cancelled.  serve_forever ends.
Conflict(w) ==
  /\ \/ pc[w] = "acking" /\ ~Acknowledged(w)
     \/ pc[w] \in {"processing", "dispatching"} /\ Owns(w) /\ status[job[w]] # "running"
  /\ Goes(w, "down")
  /\ UNCHANGED <<data, job, asked, sess, events>>

Crash(w) ==
  /\ pc[w] \in Busy \cup {"acking"} /\ events < MaxEvents
  /\ events' = events + 1
  /\ Goes(w, "down")
  /\ UNCHANGED <<data, job, asked, sess>>

\* A living worker loses its lease, or yields the Run.
Stall(w) ==
  /\ pc[w] \in Busy /\ Owns(w) /\ events < MaxEvents
  /\ events' = events + 1
  /\ row' = [row EXCEPT ![job[w]] = "free"]
  /\ UNCHANGED <<status, exec, waits, req, cancelled, local, sess>>

\* A dead worker's lease lapses.
LeaseLapses(w) ==
  /\ pc[w] = "down" /\ Owns(w)
  /\ row' = [row EXCEPT ![job[w]] = "free"]
  /\ UNCHANGED <<status, exec, waits, req, cancelled, local, sess, events>>

-----------------------------------------------------------------------------
(* Operators *)

Outcome(op) == CASE op = "cancel" -> "cancelled" [] op = "complete" -> "succeeded"
                 [] op = "fail" -> "failed"

\* CancelRun, CompleteRun and FailRun read the Run and check it.
Load(op, r) ==
  /\ sess.op = "none" /\ op \in Ops \ {"cancelTask", "request"}
  /\ events < MaxEvents /\ events' = events + 1
  /\ status[r] \in IF op = "cancel" THEN Live ELSE {"running"}
  /\ op = "complete" => DispatchedBy(r) = {}
  /\ sess' = [op |-> op, run |-> r]
  /\ UNCHANGED <<data, local>>

\* They save what they made of it, drop its row and reconcile.
Commit ==
  /\ sess.op # "none"
  /\ EndRun(sess.run, Outcome(sess.op))
  /\ sess' = Idle
  /\ UNCHANGED <<local, events>>

\* CancelTask cancels the Task's live Runs, keeps their rows and does not
\* reconcile.
CancelTask(e) ==
  /\ "cancelTask" \in Ops
  /\ events < MaxEvents /\ events' = events + 1
  /\ exec[e] = e /\ e \notin cancelled
  /\ status' = [r \in Runs |-> IF exec[r] = e /\ status[r] \in Live THEN "cancelled" ELSE status[r]]
  /\ waits' = [r \in Runs |-> IF exec[r] = e THEN 0 ELSE waits[r]]
  /\ cancelled' = cancelled \cup {e}
  /\ UNCHANGED <<exec, row, req, local, sess>>

\* CreateDelegationRequest records a request for any Run, whatever its status.
\* It has no child, and nothing dispatches it.
CreateDelegationRequest(r) ==
  /\ "request" \in Ops
  /\ events < MaxEvents /\ events' = events + 1
  /\ status[r] # "none"
  /\ \E q \in FreshRequest :
       req' = [req EXCEPT ![q] = [NoRequest EXCEPT !.status = "requested", !.parent = r]]
  /\ UNCHANGED <<status, exec, waits, row, cancelled, local, sess>>

-----------------------------------------------------------------------------
WorkerStep(w) ==
  \/ \E r \in Runs : ClaimNextRun(w, r)
  \/ \E to \in {"dispatching", "succeeding", "failing", "retrying"} : Open(w, to)
  \/ \E r \in Runs, q \in Requests : Dispatch(w, r, q)
  \/ Refuse(w) \/ ApplySucceeded(w) \/ ApplyFailed(w) \/ ApplyRetry(w)
  \/ Abandon(w) \/ Conflict(w)

Next ==
  \/ \E w \in Workers : WorkerStep(w) \/ Crash(w) \/ Stall(w) \/ LeaseLapses(w)
  \/ \E op \in AllOps, r \in Runs : Load(op, r)
  \/ \E e \in Runs : CancelTask(e) \/ CreateDelegationRequest(e)
  \/ Commit

Spec == Init /\ [][Next]_vars

\* Workers keep going until they die, and leases lapse.
FairSpec ==
  /\ Spec
  /\ \A w \in Workers : WF_vars(WorkerStep(w)) /\ WF_vars(LeaseLapses(w))

-----------------------------------------------------------------------------
(* Properties *)

\* Budgets count history, and every request continues the tree of the execution
\* that made it, one level down, whichever attempt of that execution dispatched
\* it: neither a settled child nor a retried parent buys another slot, and a
\* request that was only recorded takes none
\* (DispatchDelegation).
BudgetsHold ==
  /\ \A r \in Runs : Cardinality({q \in Requests : req[q].parent = r /\ req[q].child # 0}) <= PerRun
  /\ \A t \in Requests : Cardinality({q \in Requests : req[q].root = t}) <= PerTree
  /\ \A q \in Requests : req[q].child # 0 =>
       LET above == {p \in Requests : req[p].child = exec[req[q].parent]} IN
       /\ above = {} => req[q].depth = 1 /\ req[q].root = q
       /\ \A p \in above : req[q].depth = req[p].depth + 1 /\ req[q].root = req[p].root

\* A delegation ends in the transaction in which its child ends.
TerminalizedTogether ==
  \A q \in Requests : req[q].status = "dispatched" =>
    \E a \in Runs : exec[a] = req[q].child /\ status[a] \in Live

\* A delegation is open exactly while an attempt of its child is alive (the
\* latest-attempt rule of reconcile_child_terminal_in_uow), unless the child's
\* Task was cancelled.  A waiting parent waits for its own open request and has
\* no row; a Run that may run has a row and no open request, so nobody waits for
\* nothing and ApplySucceeded never meets an active delegation.  The marker is
\* set exactly while the Run waits (Run.wait_for_delegation, Run.resume).
WaitsAreBacked ==
  /\ TypeOK
  /\ \A q \in Requests : req[q].child # 0 /\ req[q].child \notin cancelled =>
       (req[q].status = "dispatched" <=>
          \E a \in Runs : exec[a] = req[q].child /\ status[a] \in Live)
  /\ \A r \in Runs :
       /\ status[r] = "waiting" <=> waits[r] # 0
       /\ status[r] = "waiting" =>
            row[r] = "absent" /\ waits[r] \in DispatchedBy(r)
       /\ status[r] \in {"queued", "running"} =>
            row[r] # "absent" /\ DispatchedBy(r) = {}

RequestRows == INSTANCE Lifecycle WITH
  Rows <- Requests, Kind <- "delegation", status <- [q \in Requests |-> req[q].status]

\* A delegation only takes the transitions of DelegationRequest, each in a
\* transaction that has read it before, and has a child exactly if it was
\* dispatched (DelegationRequest, _validate_state_shape,
\* reconcile_child_terminal_in_uow).
RequestsFollow ==
  /\ RequestRows!Spec
  /\ [](\A q \in Requests : RequestRows!DelegationShape(req[q].status, req[q].child # 0))

\* All delegations are eventually settled while a worker lives and no Task is
\* cancelled, although children delegate, are retried and wait in turn.
DelegationsSettle ==
  (\E q \in Requests : req[q].status = "dispatched") ~>
    \/ \A q \in Requests : req[q].status # "dispatched"
    \/ cancelled # {} \/ \A w \in Workers : pc[w] = "down"
=============================================================================
