-------------------------- MODULE RunCoordination --------------------------
(***************************************************************************)
(* Runs of one Task, their durable work queue, the workers that claim and  *)
(* settle them, the approvals that park and resume them, and the operator  *)
(* commands of the API.                                                    *)
(*                                                                         *)
(* Transactions.  A unit of work over SQLite opens its write transaction   *)
(* at the first DML statement: everything read before is an autocommit     *)
(* read, everything from the first DML to the commit is atomic, and save() *)
(* is a merge that overwrites the row whatever it holds by then.  A        *)
(* command that reads, checks and saves is therefore two steps, a load and *)
(* a commit, between which any other actor may commit.  A command whose    *)
(* first DML is a conditional UPDATE or DELETE is decided by that          *)
(* statement.                                                              *)
(***************************************************************************)
EXTENDS WorkQueue, FiniteSets

CONSTANTS
  Workers,       \* worker processes
  IdOf,          \* their worker_id; two processes may be configured alike
  Sessions,      \* operator commands that can be open at the same time
  Ops,           \* the commands in use
  MaxStarts,     \* bound on StartRun: Runs that open a lineage
  MaxRuns,       \* bound on the Runs created; Runs are numbered by created_at
  MaxApprovals,  \* bound on the ApprovalRequests created
  MaxAttempts,   \* RetryPolicy.max_attempts
  MaxFaults      \* bound on crashes, missed heartbeats, lapsed leases, yields

Runs == 1 .. MaxRuns
Approvals == 1 .. MaxApprovals

\* The API's commands on a Run, on an approval and on the Task.
RunOps == {"startQueued", "complete", "fail", "cancel", "retry", "request"}
ResolveOps == {"approve", "reject", "cancelApproval", "expire"}
TaskOps == {"startRun", "cancelTask", "completeTask", "failTask"}
AllOps == RunOps \cup ResolveOps \cup TaskOps

\* Starting, retrying and resolving: the commands that never overwrite a Run
\* a worker may be settling.
FencedOps == {"startRun", "retry", "approve", "reject", "expire"}

ASSUME CoordinationAssumption ==
  /\ IdOf \in [Workers -> WorkerIds]
  /\ Ops \subseteq AllOps
  /\ MaxStarts \in Nat
  /\ MaxRuns \in Nat
  /\ MaxApprovals \in Nat
  /\ MaxAttempts \in Nat \ {0}
  /\ MaxFaults \in Nat

VARIABLES
  task,      \* TaskStatus of the Task
  status,    \* RunStatus by Run; "none" before the Run is created
  exec,      \* execution_id: the first attempt of the Run's lineage
  waits,     \* approval_request_id of the Run, 0 for NULL
  item,      \* the Run's row of run_work_items
  appr,      \* ApprovalRequests: owning Run, status, whether it has expires_at
  pc,        \* where each worker's run_once stands
  claim,     \* the RunClaimResult it works under
  out,       \* the outcome its processor returned
  seen,      \* the Run status read when the outcome is being applied
  asked,     \* the approval its processor asked for
  sess,      \* the command each operator session has loaded
  latest,    \* history: the worker that claimed the Run last
  overtaken, \* history: a command was committed after what it had read changed
  faults     \* how many of the MaxFaults faults are spent

runVars == <<task, status, exec, waits, item, appr>>
workerVars == <<pc, claim, out, seen, asked>>
vars == <<runVars, workerVars, sess, latest, overtaken, faults>>

TerminalRun == {"succeeded", "failed", "cancelled"}
LiveRun == {"queued", "running", "waiting_for_approval"}
TerminalApproval == {"approved", "rejected", "cancelled", "expired"}
TerminalTask == {"completed", "failed", "cancelled"}
TaskStatus == {"pending", "active"} \cup TerminalTask
RunStatus == {"none"} \cup LiveRun \cup TerminalRun
Outcomes == {"none", "succeeded", "failed_retryable", "failed", "yielded", "waiting_for_approval"}

NoClaim == [run |-> 0, token |-> Nobody, gen |-> 0]
IdleSession == [op |-> "none", run |-> 0, appr |-> 0, seen |-> "none", wait |-> 0,
                task |-> "none"]

RunsTypeOK ==
  /\ task \in TaskStatus
  /\ status \in [Runs -> RunStatus]
  /\ exec \in [Runs -> 0 .. MaxRuns]
  /\ waits \in [Runs -> 0 .. MaxApprovals]
  /\ item \in [Runs -> Item]
  /\ appr \in [Approvals ->
       [run : 0 .. MaxRuns, status : {"none", "pending"} \cup TerminalApproval,
        deadline : BOOLEAN]]
  /\ \A a \in Approvals : appr[a].status = "pending" => appr[a].run \in Runs

WorkersTypeOK ==
  /\ pc \in [Workers -> {"idle", "processing", "applying", "parked", "down"}]
  /\ claim \in [Workers -> [run : 0 .. MaxRuns, token : Tokens \cup {Nobody}, gen : Nat]]
  /\ out \in [Workers -> Outcomes]
  /\ seen \in [Workers -> RunStatus]
  /\ asked \in [Workers -> 0 .. MaxApprovals]
  /\ \A w \in Workers :
       /\ pc[w] \in {"processing", "applying", "parked"} => claim[w].run \in Runs
       /\ pc[w] = "parked" => asked[w] \in Approvals

SessionsTypeOK ==
  /\ sess \in [Sessions ->
       [op : {"none"} \cup Ops, run : 0 .. MaxRuns, appr : 0 .. MaxApprovals,
        seen : RunStatus, wait : 0 .. MaxApprovals, task : {"none"} \cup TaskStatus]]
  /\ \A s \in Sessions :
       /\ sess[s].op \in RunOps \cup ResolveOps => sess[s].run \in Runs
       /\ sess[s].op \in ResolveOps => sess[s].appr \in Approvals

\* Every row, claim and loaded command refers to entities that exist: workers
\* hold claims on Runs, parked ones know their approval, and what a session has
\* loaded can be saved again.
TypeOK ==
  /\ RunsTypeOK
  /\ WorkersTypeOK
  /\ SessionsTypeOK
  /\ latest \in [Runs -> Workers \cup {Nobody}]
  /\ overtaken \in BOOLEAN
  /\ faults \in 0 .. MaxFaults

-----------------------------------------------------------------------------
(* Helpers *)

Created == {r \in Runs : status[r] # "none"}
\* Mutant: a retry reopens the failed Run instead of creating a new one.
Fresh_ReopensFailed == {r \in Runs : status[r] \in {"none", "failed"}}

\* The Run the next Run.new creates.
Fresh == {r \in Runs : status[r] = "none" /\ \A q \in Runs : q < r => status[q] # "none"}
FreshApproval ==
  {a \in Approvals : appr[a].status = "none" /\ \A b \in Approvals : b < a => appr[b].status # "none"}

\* list_pending_for_run / has_pending_for_run
PendingFor(r) == {a \in Approvals : appr[a].run = r /\ appr[a].status = "pending"}

\* ordinal_for_execution: position among the attempts by (created_at, id)
Attempt(r) == Cardinality({q \in Created : exec[q] = exec[r] /\ q <= r})

\* Mutant: max_attempts does not count the first attempt.
RetryAllowed_OffByOne(r, outcome) == outcome = "failed_retryable" /\ Attempt(r) <= MaxAttempts

\* RetryPolicy.is_retry_allowed
RetryAllowed(r, outcome) == outcome = "failed_retryable" /\ Attempt(r) < MaxAttempts

Holds(w) ==
  LET c == claim[w] IN ClaimActive(item[c.run], IdOf[w], c.token, c.gen)

TokensInUse == {item[r].token : r \in Runs} \cup {claim[w].token : w \in Workers}

\* uuid4: a token no row and no worker still knows.  Which one is immaterial.
FreshToken ==
  LET free == Tokens \ TokensInUse
  IN  IF free = {} THEN {} ELSE {CHOOSE t \in free : TRUE}

\* A worker that returns from run_once, or whose process has ended.
Leaves(w, to) ==
  /\ pc' = [pc EXCEPT ![w] = to]
  /\ claim' = [claim EXCEPT ![w] = NoClaim]
  /\ out' = [out EXCEPT ![w] = "none"]
  /\ seen' = [seen EXCEPT ![w] = "none"]
  /\ asked' = [asked EXCEPT ![w] = 0]

Fault == faults < MaxFaults /\ faults' = faults + 1

-----------------------------------------------------------------------------
\* CreateTask has committed; nothing has been started.
Init ==
  /\ task = "pending"
  /\ status = [r \in Runs |-> "none"]
  /\ exec = [r \in Runs |-> 0]
  /\ waits = [r \in Runs |-> 0]
  /\ item = [r \in Runs |-> NoItem]
  /\ appr = [a \in Approvals |-> [run |-> 0, status |-> "none", deadline |-> FALSE]]
  /\ pc = [w \in Workers |-> "idle"]
  /\ claim = [w \in Workers |-> NoClaim]
  /\ out = [w \in Workers |-> "none"]
  /\ seen = [w \in Workers |-> "none"]
  /\ asked = [w \in Workers |-> 0]
  /\ sess = [s \in Sessions |-> IdleSession]
  /\ latest = [r \in Runs |-> Nobody]
  /\ overtaken = FALSE
  /\ faults \in 0 .. MaxFaults

-----------------------------------------------------------------------------
(* The worker loop *)

Runnable(r) == status[r] \in {"queued", "running"}

\* Due rows of Runs that have nothing left to run.
StaleRows == {q \in Runs : Claimable(item[q]) /\ ~Runnable(q)}

\* try_claim wins the row of r after removing the stale candidates before it.
ClaimRun(w, r, stale, tok) ==
  /\ pc[w] = "idle"
  /\ Claimable(item[r]) /\ Runnable(r)
  /\ item' = [q \in Runs |->
       IF q = r THEN TryClaim(item[r], IdOf[w], tok)
       ELSE IF q \in stale THEN NoItem ELSE item[q]]
  /\ status' = [status EXCEPT ![r] = "running"]
  /\ pc' = [pc EXCEPT ![w] = "processing"]
  /\ claim' = [claim EXCEPT ![w] = [run |-> r, token |-> tok, gen |-> item[r].gen + 1]]
  /\ latest' = [latest EXCEPT ![r] = w]
  /\ UNCHANGED <<task, exec, waits, appr, out, seen, asked, sess, overtaken, faults>>

\* ClaimNextRun: try_claim is the first DML, so what follows it is read in the
\* same transaction.
ClaimNextRun(w) ==
  \E r \in Runs, stale \in SUBSET StaleRows, tok \in FreshToken : ClaimRun(w, r, stale, tok)

\* ClaimNextRun when only stale rows are due: they are removed, nothing is claimed.
DropStaleItems(w) ==
  /\ pc[w] = "idle"
  /\ \E stale \in (SUBSET StaleRows) \ {{}} :
       item' = [q \in Runs |-> IF q \in stale THEN NoItem ELSE item[q]]
  /\ UNCHANGED <<task, status, exec, waits, appr, workerVars, sess, latest, overtaken, faults>>

\* The processor has decided, and the use case that applies the decision has
\* made its reads and checks; its write transaction is still to come.
Decide(w, outcome) ==
  LET r == claim[w].run IN
  /\ pc[w] = "processing"
  /\ CASE outcome = "succeeded" -> PendingFor(r) = {} /\ UNCHANGED faults
       [] outcome = "waiting_for_approval" ->
            /\ Holds(w) /\ status[r] = "running" /\ PendingFor(r) = {}
            /\ FreshApproval # {}  \* MaxApprovals
            /\ UNCHANGED faults
       [] outcome = "yielded" -> Fault
       [] OTHER -> UNCHANGED faults
  /\ pc' = [pc EXCEPT ![w] = "applying"]
  /\ out' = [out EXCEPT ![w] = outcome]
  /\ seen' = [seen EXCEPT ![w] = status[r]]
  /\ UNCHANGED <<runVars, claim, asked, sess, latest, overtaken>>

\* ApplySucceededOutcome finds a pending approval: EntityConflict is not caught
\* by run_once, and the worker process ends.
SucceedConflict(w) ==
  /\ pc[w] = "processing"
  /\ PendingFor(claim[w].run) # {}
  /\ Fault
  /\ Leaves(w, "down")
  /\ UNCHANGED <<runVars, sess, latest, overtaken>>

\* Any fenced outcome whose claim is gone: ClaimLost, rolled back, logged.
OutcomeFenced(w) ==
  /\ pc[w] = "applying"
  /\ ~Holds(w)
  /\ Leaves(w, "idle")
  /\ UNCHANGED <<runVars, sess, latest, overtaken, faults>>

\* Run.succeed and Run.fail reject a Run that was not read as running:
\* InvalidStateTransition rolls back and ends the worker process.
OutcomeRejected(w) ==
  /\ pc[w] = "applying" /\ out[w] \in {"succeeded", "failed", "failed_retryable"}
  /\ Holds(w)
  /\ seen[w] # "running"
  /\ Fault
  /\ Leaves(w, "down")
  /\ UNCHANGED <<runVars, sess, latest, overtaken>>

\* Mutant: the success is saved and the row is only released.
ApplySucceeded_KeepsRow(w) ==
  /\ pc[w] = "applying" /\ out[w] = "succeeded"
  /\ Holds(w)
  /\ seen[w] = "running"
  /\ item' = [item EXCEPT ![claim[w].run] = Unclaimed(@)]
  /\ status' = [status EXCEPT ![claim[w].run] = "succeeded"]
  /\ Leaves(w, "idle")
  /\ UNCHANGED <<task, exec, waits, appr, sess, latest, overtaken, faults>>

\* ApplySucceededOutcome: fenced removal of the row, then the Run as it was
\* read is saved succeeded.
ApplySucceeded(w) ==
  LET r == claim[w].run IN
  /\ pc[w] = "applying" /\ out[w] = "succeeded"
  /\ Holds(w)
  /\ seen[w] = "running"
  /\ item' = [item EXCEPT ![r] = NoItem]
  /\ status' = [status EXCEPT ![r] = "succeeded"]
  /\ waits' = [waits EXCEPT ![r] = 0]
  /\ Leaves(w, "idle")
  /\ UNCHANGED <<task, exec, appr, sess, latest, overtaken, faults>>

\* ApplyFailedOutcome: as above, and the retry attempt with its delayed row is
\* created in the same transaction.
ApplyFailed(w) ==
  LET r == claim[w].run IN
  /\ pc[w] = "applying" /\ out[w] \in {"failed", "failed_retryable"}
  /\ Holds(w)
  /\ seen[w] = "running"
  /\ waits' = [waits EXCEPT ![r] = 0]
  /\ IF RetryAllowed(r, out[w])
       THEN \E n \in Fresh :
              /\ status' = [status EXCEPT ![r] = "failed", ![n] = "queued"]
              /\ exec' = [exec EXCEPT ![n] = exec[r]]
              /\ item' = [item EXCEPT ![r] = NoItem, ![n] = Enqueue(@, FALSE)]
       ELSE /\ status' = [status EXCEPT ![r] = "failed"]
            /\ item' = [item EXCEPT ![r] = NoItem]
            /\ UNCHANGED exec
  /\ Leaves(w, "idle")
  /\ UNCHANGED <<task, appr, sess, latest, overtaken, faults>>

\* RequeueClaimedRun for a yield: available at once, claim given up.
RequeueClaimedRun(w) ==
  LET r == claim[w].run IN
  /\ pc[w] = "applying" /\ out[w] = "yielded"
  /\ Holds(w)
  /\ item' = [item EXCEPT ![r] = Requeue(@, TRUE)]
  /\ Leaves(w, "idle")
  /\ UNCHANGED <<task, status, exec, waits, appr, sess, latest, overtaken, faults>>

\* RequestToolApproval: the approval, the parked Run and the fenced removal of
\* the row commit together.  Worker-made approvals carry no expires_at.
RequestToolApproval(w) ==
  LET r == claim[w].run IN
  /\ pc[w] = "applying" /\ out[w] = "waiting_for_approval"
  /\ Holds(w)
  /\ \E a \in FreshApproval :
       /\ appr' = [appr EXCEPT ![a] = [run |-> r, status |-> "pending", deadline |-> FALSE]]
       /\ waits' = [waits EXCEPT ![r] = a]
       /\ asked' = [asked EXCEPT ![w] = a]
  /\ status' = [status EXCEPT ![r] = "waiting_for_approval"]
  /\ item' = [item EXCEPT ![r] = NoItem]
  /\ pc' = [pc EXCEPT ![w] = "parked"]
  /\ UNCHANGED <<task, exec, claim, out, seen, sess, latest, overtaken, faults>>

\* ApplyWaitingOutcome, for the worker that parked its Run: the Run still waits
\* for this approval, or was resumed because the approval has been resolved.
ParkingStands(w) ==
  LET r == claim[w].run  a == asked[w] IN
  \/ status[r] = "running" /\ appr[a].status \in TerminalApproval
  \/ status[r] = "waiting_for_approval" /\ waits[r] = a

\* A row found while the Run waits is removed if it is still this worker's; a
\* resumed Run's row is never touched.
ApplyWaiting(w) ==
  LET r == claim[w].run IN
  /\ pc[w] = "parked"
  /\ ParkingStands(w)
  /\ item' = IF status[r] = "waiting_for_approval" /\ Holds(w)
               THEN [item EXCEPT ![r] = NoItem] ELSE item
  /\ Leaves(w, "idle")
  /\ UNCHANGED <<task, status, exec, waits, appr, sess, latest, overtaken, faults>>

\* Anything else is an EntityConflict that ends the worker process.
WaitingRejected(w) ==
  /\ pc[w] = "parked"
  /\ ~ParkingStands(w)
  /\ Fault
  /\ Leaves(w, "down")
  /\ UNCHANGED <<runVars, sess, latest, overtaken>>

\* The heartbeat's renew_lease matched no row: run_once drops the outcome.
HeartbeatLost(w) ==
  /\ pc[w] \in {"processing", "parked"}
  /\ ~Holds(w)
  /\ Leaves(w, "idle")
  /\ UNCHANGED <<runVars, sess, latest, overtaken, faults>>

\* The heartbeat failed otherwise: the outcome is dropped, the claim stays.
HeartbeatFailed(w) ==
  /\ pc[w] \in {"processing", "parked"}
  /\ Fault
  /\ Leaves(w, "idle")
  /\ UNCHANGED <<runVars, sess, latest, overtaken>>

\* The process ends in the middle of run_once (an idle one has nothing to lose).
Crash(w) ==
  /\ pc[w] \in {"processing", "applying", "parked"}
  /\ Fault
  /\ Leaves(w, "down")
  /\ UNCHANGED <<runVars, sess, latest, overtaken>>

Restart(w) ==
  /\ pc[w] = "down"
  /\ pc' = [pc EXCEPT ![w] = "idle"]
  /\ UNCHANGED <<runVars, claim, out, seen, asked, sess, latest, overtaken, faults>>

-----------------------------------------------------------------------------
(* Time and the maintenance tick *)

HeldByWorker(r) == \E w \in Workers : claim[w].run = r /\ Holds(w)

LeaseEnds(r) ==
  /\ item[r].present /\ item[r].owner # Nobody /\ item[r].live
  /\ item' = [item EXCEPT ![r].live = FALSE]
  /\ UNCHANGED <<task, status, exec, waits, appr, workerVars, sess, latest, overtaken>>

\* Nobody renews the lease any more (crash, dropped outcome): it runs out.
LeaseLapses(r) == ~HeldByWorker(r) /\ LeaseEnds(r) /\ UNCHANGED faults

\* A worker still works under the lease, but renew_lease came too late.
LeaseStalls(r) == HeldByWorker(r) /\ LeaseEnds(r) /\ Fault

BackoffElapses(r) ==
  /\ item[r].present /\ ~item[r].due
  /\ item' = [item EXCEPT ![r].due = TRUE]
  /\ UNCHANGED <<task, status, exec, waits, appr, workerVars, sess, latest, overtaken, faults>>

\* RecoverExpiredLeases over a batch of expired claims.
RecoverExpiredLeases ==
  /\ \E batch \in (SUBSET {r \in Runs : ClaimExpired(item[r])}) \ {{}} :
       item' = [r \in Runs |->
         CASE r \in batch /\ Runnable(r) -> Unclaimed(item[r])
           [] r \in batch /\ ~Runnable(r) -> NoItem
           [] OTHER -> item[r]]
  /\ UNCHANGED <<task, status, exec, waits, appr, workerVars, sess, latest, overtaken, faults>>
-----------------------------------------------------------------------------
(* Operator commands: load and check, then commit what was loaded *)

\* Mutant: any failed attempt may be retried at any time.
Retryable_AnyAttempt(r) == status[r] = "failed" /\ task = "active"

\* RetryFailedRun: the latest Run of the Task, failed, with no live Run beside it.
Retryable(r) ==
  /\ status[r] = "failed"
  /\ task = "active"
  /\ \A q \in Created : q <= r /\ status[q] \in TerminalRun

\* The Run a command is about: the path's Run, or the approval's.
RunLoads(op, r) ==
  CASE op = "startQueued" -> status[r] = "queued" /\ task = "active"
    [] op \in {"complete", "fail"} -> status[r] = "running"
    [] op = "cancel" -> status[r] \in LiveRun
    [] op = "request" -> status[r] = "running" /\ PendingFor(r) = {}
    [] op = "retry" -> Retryable(r)
    [] OTHER -> FALSE

\* Commands on one Run.  Loads that answer at once (already running, already
\* cancelled, not allowed) change nothing and are left out.
LoadRun(s, op, r) ==
  /\ sess[s].op = "none" /\ op \in Ops \cap RunOps
  /\ RunLoads(op, r)
  /\ sess' = [sess EXCEPT ![s] = [IdleSession EXCEPT !.op = op, !.run = r]]
  /\ UNCHANGED <<runVars, workerVars, latest, overtaken, faults>>

\* _load of an approval resolution: ExpireApproval needs a deadline (that has
\* passed), the others a pending approval.
LoadApproval(s, op, a) ==
  LET r == appr[a].run IN
  /\ sess[s].op = "none" /\ op \in Ops \cap ResolveOps
  /\ appr[a].status = "pending"
  /\ op = "expire" => appr[a].deadline
  /\ sess' = [sess EXCEPT ![s] = [IdleSession EXCEPT !.op = op, !.run = r, !.appr = a,
                                                      !.seen = status[r], !.wait = waits[r]]]
  /\ UNCHANGED <<runVars, workerVars, latest, overtaken, faults>>

\* _resolve reads the Run after the approval: it may see a later Run.
ReloadRun(s) ==
  /\ sess[s].op \in ResolveOps
  /\ sess' = [sess EXCEPT ![s].seen = status[sess[s].run], ![s].wait = waits[sess[s].run]]
  /\ UNCHANGED <<runVars, workerVars, latest, overtaken, faults>>

TaskLoads(op) ==
  CASE op = "startRun" -> task \in {"pending", "active"}
    [] op = "cancelTask" -> task \notin TerminalTask
    [] op = "failTask" -> task = "active"
    [] op = "completeTask" -> task = "active" /\ \A r \in Created : status[r] \in TerminalRun
    [] OTHER -> FALSE

LoadTask(s, op) ==
  /\ sess[s].op = "none" /\ op \in Ops \cap TaskOps
  /\ TaskLoads(op)
  /\ sess' = [sess EXCEPT ![s] = [IdleSession EXCEPT !.op = op,
                                  !.task = IF op = "startRun" THEN task ELSE "none"]]
  /\ UNCHANGED <<runVars, workerVars, latest, overtaken, faults>>

\* What the command read no longer holds: a save that overwrites goes through all the same.
Stale(s) ==
  LET c == sess[s] IN
  CASE c.op \in RunOps -> ~RunLoads(c.op, c.run)
    [] c.op \in ResolveOps -> \/ appr[c.appr].status # "pending"
                              \/ status[c.run] # c.seen \/ waits[c.run] # c.wait
    [] OTHER -> ~TaskLoads(c.op)

Closes(s) == sess' = [sess EXCEPT ![s] = IdleSession]
Done(s) ==
  /\ Closes(s)
  /\ overtaken' = (overtaken \/ Stale(s))

\* StartRun.execute_in_uow: a Task read as pending is saved active, whatever it is now.
StartRun(s) ==
  /\ sess[s].op = "startRun"
  /\ Cardinality({r \in Created : exec[r] = r}) < MaxStarts
  /\ \E n \in Fresh :
       /\ status' = [status EXCEPT ![n] = "queued"]
       /\ exec' = [exec EXCEPT ![n] = n]
       /\ item' = [item EXCEPT ![n] = Enqueue(@, TRUE)]
  /\ task' = IF sess[s].task = "pending" THEN "active" ELSE task
  /\ Done(s)
  /\ UNCHANGED <<waits, appr, workerVars, latest, faults>>

\* StartQueuedRun: the existing row stays as it is.
StartQueuedRun(s) ==
  /\ sess[s].op = "startQueued"
  /\ status' = [status EXCEPT ![sess[s].run] = "running"]
  /\ waits' = [waits EXCEPT ![sess[s].run] = 0]
  /\ Done(s)
  /\ UNCHANGED <<task, exec, item, appr, workerVars, latest, faults>>

\* CompleteRun and FailRun save the Run terminal and drop its row.
EndRun(s, op, target) ==
  /\ sess[s].op = op
  /\ status' = [status EXCEPT ![sess[s].run] = target]
  /\ waits' = [waits EXCEPT ![sess[s].run] = 0]
  /\ item' = [item EXCEPT ![sess[s].run] = NoItem]
  /\ Done(s)
  /\ UNCHANGED <<task, exec, appr, workerVars, latest, faults>>

\* CancelRun also cancels the approvals pending at that moment.
CancelRun(s) ==
  LET r == sess[s].run IN
  /\ sess[s].op = "cancel"
  /\ status' = [status EXCEPT ![r] = "cancelled"]
  /\ waits' = [waits EXCEPT ![r] = 0]
  /\ appr' = [a \in Approvals |->
       IF a \in PendingFor(r) THEN [appr[a] EXCEPT !.status = "cancelled"] ELSE appr[a]]
  /\ item' = [item EXCEPT ![r] = NoItem]
  /\ Done(s)
  /\ UNCHANGED <<task, exec, workerVars, latest, faults>>

RetryFailedRun(s) ==
  /\ sess[s].op = "retry"
  /\ \E n \in Fresh :
       /\ status' = [status EXCEPT ![n] = "queued"]
       /\ exec' = [exec EXCEPT ![n] = exec[sess[s].run]]
       /\ item' = [item EXCEPT ![n] = Enqueue(@, TRUE)]
  /\ Done(s)
  /\ UNCHANGED <<task, waits, appr, workerVars, latest, faults>>

RequestApproval(s) ==
  LET r == sess[s].run IN
  /\ sess[s].op = "request"
  /\ \E a \in FreshApproval, deadline \in BOOLEAN :
       /\ appr' = [appr EXCEPT ![a] = [run |-> r, status |-> "pending", deadline |-> deadline]]
       /\ waits' = [waits EXCEPT ![r] = a]
  /\ status' = [status EXCEPT ![r] = "waiting_for_approval"]
  /\ item' = [item EXCEPT ![r] = NoItem]
  /\ Done(s)
  /\ UNCHANGED <<task, exec, workerVars, latest, faults>>

\* Mutant: only a Run that is already running is resumed.
Resumes_Running(s) == sess[s].seen = "running"

\* The Run was read waiting for this very approval.
Resumes(s) == sess[s].seen = "waiting_for_approval" /\ sess[s].wait = sess[s].appr

\* _resolve: the approval is saved resolved; the Run, if it was read waiting for
\* it, is saved running and enqueued.
ResolveApproval(s, op, target) ==
  LET r == sess[s].run  a == sess[s].appr IN
  /\ sess[s].op = op
  /\ appr' = [appr EXCEPT ![a].status = target]
  /\ IF Resumes(s)
       THEN /\ status' = [status EXCEPT ![r] = "running"]
            /\ waits' = [waits EXCEPT ![r] = 0]
            /\ item' = [item EXCEPT ![r] = Enqueue(@, TRUE)]
       ELSE UNCHANGED <<status, waits, item>>
  /\ Done(s)
  /\ UNCHANGED <<task, exec, workerVars, latest, faults>>

\* CancelTask cancels the Runs it finds non-terminal after its first write; their
\* rows and their pending approvals are left as they are.
CancelTask(s) ==
  LET live == {r \in Created : status[r] \in LiveRun} IN
  /\ sess[s].op = "cancelTask"
  /\ task' = "cancelled"
  /\ status' = [r \in Runs |-> IF r \in live THEN "cancelled" ELSE status[r]]
  /\ waits' = [r \in Runs |-> IF r \in live THEN 0 ELSE waits[r]]
  /\ Done(s)
  /\ UNCHANGED <<exec, item, appr, workerVars, latest, faults>>

EndTask(s, op, target) ==
  /\ sess[s].op = op
  /\ task' = target
  /\ Done(s)
  /\ UNCHANGED <<status, exec, waits, item, appr, workerVars, latest, faults>>

\* Rolled back: a lost connection, a busy database, a constraint the stale row
\* would break.
Abort(s) ==
  /\ sess[s].op # "none"
  /\ Closes(s)
  /\ UNCHANGED <<runVars, workerVars, latest, overtaken, faults>>

-----------------------------------------------------------------------------
\* What the worker loop does by itself, as opposed to what befalls it.
WorkerProgress(w) ==
  \/ ClaimNextRun(w)
  \/ DropStaleItems(w)
  \/ \E outcome \in Outcomes \ {"none"} : Decide(w, outcome)
  \/ SucceedConflict(w)
  \/ OutcomeFenced(w)
  \/ OutcomeRejected(w)
  \/ ApplySucceeded(w)
  \/ ApplyFailed(w)
  \/ RequeueClaimedRun(w)
  \/ RequestToolApproval(w)
  \/ ApplyWaiting(w)
  \/ WaitingRejected(w)
  \/ HeartbeatLost(w)

WorkerStep(w) == WorkerProgress(w) \/ HeartbeatFailed(w) \/ Crash(w) \/ Restart(w)

TimeStep ==
  \/ \E r \in Runs : LeaseLapses(r) \/ LeaseStalls(r) \/ BackoffElapses(r)
  \/ RecoverExpiredLeases

Load(s) ==
  \/ \E op \in Ops, r \in Runs : LoadRun(s, op, r)
  \/ \E op \in Ops, a \in Approvals : LoadApproval(s, op, a)
  \/ \E op \in Ops : LoadTask(s, op)
  \/ ReloadRun(s)

Commit(s) ==
  \/ StartRun(s)
  \/ StartQueuedRun(s)
  \/ EndRun(s, "complete", "succeeded")
  \/ EndRun(s, "fail", "failed")
  \/ CancelRun(s)
  \/ RetryFailedRun(s)
  \/ RequestApproval(s)
  \/ ResolveApproval(s, "approve", "approved")
  \/ ResolveApproval(s, "reject", "rejected")
  \/ ResolveApproval(s, "cancelApproval", "cancelled")
  \/ ResolveApproval(s, "expire", "expired")
  \/ CancelTask(s)
  \/ EndTask(s, "completeTask", "completed")
  \/ EndTask(s, "failTask", "failed")

Next ==
  \/ \E w \in Workers : WorkerStep(w)
  \/ TimeStep
  \/ \E s \in Sessions : Load(s) \/ Commit(s) \/ Abort(s)

Spec == Init /\ [][Next]_vars

\* serve_forever keeps taking steps as long as the process lives, and time
\* passes.  Nothing is assumed of operators, of restarts or of the maintenance
\* tick.
FairSpec ==
  /\ Spec
  /\ \A w \in Workers : WF_vars(WorkerProgress(w))
  /\ \A r \in Runs : WF_vars(LeaseLapses(r)) /\ WF_vars(BackoffElapses(r))

-----------------------------------------------------------------------------
(* Safety *)

\* A row in the work queue belongs to a Run that can still run: no interleaving
\* of outcomes, parkings, recoveries and commands leaves a row behind for a Run
\* that is parked or settled.  CancelTask is the one command that does.
QueueCoherence ==
  \A r \in Runs : item[r].present =>
    Runnable(r) \/ (status[r] = "cancelled" /\ "cancelTask" \in Ops)

\* No work is lost: a queued or running Run always has its row, so a worker or a
\* lease recovery will find it again.  StartQueuedRun is the one command that
\* can make a Run running without giving it a row.
NoLostWork ==
  "startQueued" \notin Ops =>
    \A r \in Runs : Runnable(r) => item[r].present

\* A parked Run can always be resumed: it waits for an approval of its own that
\* nobody has resolved yet, however resolutions and requests interleave.
WaitingIsBacked ==
  \A r \in Runs : status[r] = "waiting_for_approval" =>
    /\ waits[r] \in Approvals
    /\ appr[waits[r]].status = "pending"
    /\ appr[waits[r]].run = r

Settles(w) ==
  /\ pc[w] \in {"applying", "parked"}
  /\ item'[claim[w].run] # item[claim[w].run]
  /\ pc'[w] # pc[w]

\* "A stale worker cannot apply a late outcome": whoever removes or requeues the
\* row of a Run is the worker that claimed the Run last, even when worker ids
\* are shared and the row was deleted and enqueued again in between.
NoStaleOutcome ==
  [][\A w \in Workers : Settles(w) => latest[claim[w].run] = w]_vars

\* A settled Run keeps its status: no outcome, recovery or resolution reopens or
\* rewrites it.
TerminalImmutable ==
  [][\A r \in Runs : status[r] \in TerminalRun => status'[r] = status[r]]_vars

\* A lineage never has two attempts alive at once, as long as no command is
\* committed after what it read has changed.
OneLiveAttempt ==
  ~overtaken =>
    \A q, r \in Created :
      exec[q] = exec[r] /\ status[q] \in LiveRun /\ status[r] \in LiveRun => q = r

\* Automatic retries stay within RetryPolicy.max_attempts, whatever crashes and
\* takeovers happen between the attempts.  A stale command that reopens a failed
\* Run lets it fail and be retried once more.
AttemptsBounded ==
  "retry" \notin Ops /\ ~overtaken => \A r \in Created : Attempt(r) <= MaxAttempts

RunRows == INSTANCE Lifecycle WITH Rows <- Runs, Kind <- "run"
ApprovalRows == INSTANCE Lifecycle WITH
  Rows <- Approvals, Kind <- "approval", status <- [a \in Approvals |-> appr[a].status]

\* Runs and approvals only take the transitions of their classes, each checked
\* on a row that was read before (Run._require_status,
\* ApprovalRequest._resolve): in particular no outcome, recovery or resolution
\* reopens a settled Run, and an approval is resolved once.
RunsFollow == RunRows!Spec /\ ApprovalRows!Spec

\* Whatever commands overlap, only a command that is committed after what it
\* read has changed takes a Run or an approval through another transition:
\* outcomes and recoveries are fenced by the claim.  CancelTask leaves the claim
\* in force, so an outcome decided before it is still saved over it.
LifecycleUnlessStale ==
  "cancelTask" \notin Ops =>
    [][\/ RunRows!Next /\ ApprovalRows!Next
       \/ \E s \in Sessions : Commit(s) /\ Stale(s)]_vars

-----------------------------------------------------------------------------
(* Liveness *)

\* As long as one worker survives, a Run that is queued or running gets settled
\* or parked: a crashed or stalled worker's claim is taken over without the
\* maintenance tick, and every retry comes due.
RunsSettle ==
  \A r \in Runs : Runnable(r) ~> (status[r] \in TerminalRun \cup {"waiting_for_approval"})

=============================================================================
