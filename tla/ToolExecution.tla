--------------------------- MODULE ToolExecution ---------------------------
(***************************************************************************)
(* ExecuteToolAction: the path from an action the model proposes to a side *)
(* effect, for the tool calls of one running Run.  Workers come and go     *)
(* under leases; operators resolve approvals, cancel the Run and cancel or *)
(* mark invocations.  As in RunCoordination, what a transaction reads      *)
(* before its first DML is a step of its own, and save() overwrites.       *)
(***************************************************************************)
EXTENDS WorkQueue, FiniteSets

CONSTANTS
  Workers, IdOf,     \* worker processes and their worker_id
  Sessions,          \* operator commands that can be open at the same time
  Ops,               \* the operator commands in use
  Calls,             \* the exact actions (tool and input) the model proposes
  Protected,         \* those whose risk assessment requires approval
  MaxApprovals,      \* bound on the approvals created
  MaxInvocations,    \* bound on the ToolInvocations created
  MaxGen,            \* bound on claim_generation
  MaxCrashes,        \* bound on the crashes of workers
  MaxStalls          \* bound on the leases lost by a worker that is alive

Approvals == 1 .. MaxApprovals
Invocations == 1 .. MaxInvocations
ResolveOps == {"approve", "reject"}
InvocationOps == {"markRunning", "markSucceeded", "markFailed", "cancelInvocation"}

ASSUME ToolAssumption ==
  /\ IdOf \in [Workers -> WorkerIds]
  /\ Ops \subseteq ResolveOps \cup InvocationOps \cup {"cancelRun", "requestInvocation"}
  /\ Protected \subseteq Calls
  /\ Nobody \notin Calls
  /\ {MaxApprovals, MaxInvocations, MaxGen, MaxCrashes, MaxStalls} \subseteq Nat

VARIABLES
  run,      \* RunStatus
  waits,    \* approval_request_id of the Run, 0 for NULL
  item,     \* the Run's row of run_work_items
  appr,     \* approvals: the call of their fingerprint, status, consumed_at set
  inv,      \* invocations: call, approval_request_id, status
  pc,       \* where each worker stands
  claim,    \* the claim it works under
  plan,     \* what it is executing: call, approval, invocation, result
  sess,     \* the command each operator session has loaded
  ran,      \* history: the invocations whose tool was executed
  granted,  \* history: the approvals that have been approved
  overwritten,  \* history: a resolution was saved over a row no longer pending
  crashes, stalls

runVars == <<run, waits, item, appr, inv>>
workerVars == <<pc, claim, plan>>
history == <<ran, granted, overwritten>>
faults == <<crashes, stalls>>
vars == <<runVars, workerVars, sess, history, faults>>

OpenInvocation == {"requested", "running"}
InvocationStatus == {"none", "succeeded", "failed", "cancelled"} \cup OpenInvocation
NoClaim == [token |-> Nobody, gen |-> 0]
NoPlan == [call |-> Nobody, appr |-> 0, inv |-> 0, result |-> "none"]
IdleSession == [op |-> "none", id |-> 0, resumes |-> FALSE]

\* Plans, sessions and rows refer to approvals and invocations that exist.
TypeOK ==
  /\ run \in {"running", "waiting_for_approval", "succeeded", "failed", "cancelled"}
  /\ waits \in 0 .. MaxApprovals
  /\ item \in Item
  /\ appr \in [Approvals ->
       [call : Calls \cup {Nobody}, status : {"none", "pending", "approved", "rejected", "cancelled"},
        consumed : BOOLEAN]]
  /\ inv \in [Invocations ->
       [call : Calls \cup {Nobody}, appr : 0 .. MaxApprovals, status : InvocationStatus]]
  /\ pc \in [Workers -> {"idle", "thinking", "asking", "authorizing", "authorized", "cleared",
                         "executed", "persisting", "failing", "finishing"}]
  /\ claim \in [Workers -> [token : Tokens \cup {Nobody}, gen : Nat]]
  /\ plan \in [Workers ->
       [call : Calls \cup {Nobody}, appr : 0 .. MaxApprovals, inv : 0 .. MaxInvocations,
        result : {"none", "succeeded", "failed"}]]
  /\ \A w \in Workers : pc[w] \in {"authorized", "cleared", "executed", "persisting"} =>
       plan[w].inv \in Invocations
  /\ sess \in [Sessions -> [op : {"none"} \cup Ops, id : Nat, resumes : BOOLEAN]]
  /\ ran \subseteq Invocations
  /\ granted \subseteq Approvals
  /\ overwritten \in BOOLEAN
  /\ crashes \in 0 .. MaxCrashes /\ stalls \in 0 .. MaxStalls

-----------------------------------------------------------------------------
(* Helpers *)

Holds(w) == ClaimActive(item, IdOf[w], claim[w].token, claim[w].gen)

FreshToken ==
  LET free == Tokens \ ({item.token} \cup {claim[w].token : w \in Workers})
  IN  IF free = {} THEN {} ELSE {CHOOSE t \in free : TRUE}

Fresh(S, table) == {x \in S : table[x].status = "none" /\ \A y \in S : y < x => table[y].status # "none"}
Pending == {a \in Approvals : appr[a].status = "pending"}
Open == {i \in Invocations : inv[i].status \in OpenInvocation}

\* The worker's loop returns: its claim and its plan are forgotten.
Leaves(w) ==
  /\ pc' = [pc EXCEPT ![w] = "idle"]
  /\ claim' = [claim EXCEPT ![w] = NoClaim]
  /\ plan' = [plan EXCEPT ![w] = NoPlan]

\* Mutant: a fingerprint matches any approval of the Run.
Authorizing_AnyCall(c) == {a \in Approvals : appr[a].status = "approved" /\ ~appr[a].consumed}

\* find_authorizing_approval: approved, same fingerprint, never consumed.
Authorizing(c) == {a \in Approvals : appr[a].call = c /\ appr[a].status = "approved" /\ ~appr[a].consumed}

\* The invocations made under consumed approvals of the same action.
Prior(c) ==
  {i \in Invocations : inv[i].status # "none" /\ inv[i].appr # 0 /\
     LET a == appr[inv[i].appr] IN a.call = c /\ a.status = "approved" /\ a.consumed}

\* _find_replay: the first such invocation, by approval and then by age.
FindReplay(c) ==
  {i \in Prior(c) : \A j \in Prior(c) :
     inv[i].appr < inv[j].appr \/ (inv[i].appr = inv[j].appr /\ i <= j)}

-----------------------------------------------------------------------------
\* The Run is running and its row is due.
Init ==
  /\ run = "running" /\ waits = 0
  /\ item = Enqueue(NoItem, TRUE)
  /\ appr = [a \in Approvals |-> [call |-> Nobody, status |-> "none", consumed |-> FALSE]]
  /\ inv = [i \in Invocations |-> [call |-> Nobody, appr |-> 0, status |-> "none"]]
  /\ pc = [w \in Workers |-> "idle"]
  /\ claim = [w \in Workers |-> NoClaim]
  /\ plan = [w \in Workers |-> NoPlan]
  /\ sess = [s \in Sessions |-> IdleSession]
  /\ ran = {} /\ granted = {} /\ overwritten = FALSE
  /\ crashes = 0 /\ stalls = 0

-----------------------------------------------------------------------------
(* The worker: claims, turns, the tool action, the outcome *)

Claim(w) ==
  /\ pc[w] = "idle" /\ run = "running"
  /\ Claimable(item) /\ item.gen < MaxGen
  /\ \E tok \in FreshToken :
       /\ item' = TryClaim(item, IdOf[w], tok)
       /\ claim' = [claim EXCEPT ![w] = [token |-> tok, gen |-> item.gen + 1]]
  /\ pc' = [pc EXCEPT ![w] = "thinking"]
  /\ UNCHANGED <<run, waits, appr, inv, plan, sess, history, faults>>

\* The turn budget, a yield or a shutdown: the Run goes back to the queue.
Yield(w) ==
  /\ pc[w] = "thinking" /\ Holds(w)
  /\ item' = Requeue(item, TRUE)
  /\ Leaves(w)
  /\ UNCHANGED <<run, waits, appr, inv, sess, history, faults>>

\* ClaimLost at any of the checks, and every fenced outcome: nothing is written.
ClaimLost(w) ==
  /\ pc[w] \in {"thinking", "asking", "authorized", "executed", "failing", "finishing"}
  /\ ~Holds(w)
  /\ Leaves(w)
  /\ UNCHANGED <<runVars, sess, history, faults>>

\* Txn A up to its first DML.  A replayed result is only reported to the model,
\* which goes on thinking, and is left out.
Propose(w, c) ==
  LET grants == Authorizing(c)
      Goto(to, a) ==
        /\ pc' = [pc EXCEPT ![w] = to]
        /\ plan' = [plan EXCEPT ![w] = [NoPlan EXCEPT !.call = c, !.appr = a]]
  IN
  /\ pc[w] = "thinking" /\ Holds(w) /\ run = "running"
  /\ \/ c \notin Protected /\ Goto("authorizing", 0)
     \/ /\ c \in Protected
        /\ \E i \in FindReplay(c) : inv[i].status \notin {"succeeded", "failed"}
        /\ Goto("failing", 0)  \* ToolExecutionAmbiguous
     \/ c \in Protected /\ Prior(c) = {}
          /\ \E a \in grants : (\A b \in grants : a <= b) /\ Goto("authorizing", a)
     \/ c \in Protected /\ Prior(c) = {} /\ grants = {} /\ Goto("asking", 0)
  /\ UNCHANGED <<runVars, claim, sess, history, faults>>

\* RequestToolApproval parks the Run, and the worker's claim goes with the row.
RequestToolApproval(w) ==
  /\ pc[w] = "asking" /\ Holds(w) /\ Pending = {}
  /\ \E a \in Fresh(Approvals, appr) :
       /\ appr' = [appr EXCEPT ![a] = [call |-> plan[w].call, status |-> "pending", consumed |-> FALSE]]
       /\ waits' = a
  /\ run' = "waiting_for_approval"
  /\ item' = NoItem
  /\ Leaves(w)
  /\ UNCHANGED <<inv, sess, history, faults>>

\* It refuses a second pending approval: an EntityConflict, a failed outcome.
SecondApprovalRefused(w) ==
  /\ pc[w] = "asking" /\ Holds(w) /\ Pending # {}
  /\ pc' = [pc EXCEPT ![w] = "failing"]
  /\ UNCHANGED <<runVars, claim, plan, sess, history, faults>>

\* The write of Txn A: the approval as it was read is saved consumed, the
\* invocation is created and started.  The claim is not part of the statement.
AuthorizeAndStart(w) ==
  /\ pc[w] = "authorizing"
  /\ appr' = IF plan[w].appr = 0 THEN appr
             ELSE [appr EXCEPT ![plan[w].appr].status = "approved", ![plan[w].appr].consumed = TRUE]
  /\ \E i \in Fresh(Invocations, inv) :
       /\ inv' = [inv EXCEPT ![i] = [call |-> plan[w].call, appr |-> plan[w].appr, status |-> "running"]]
       /\ plan' = [plan EXCEPT ![w].inv = i]
  /\ pc' = [pc EXCEPT ![w] = "authorized"]
  /\ UNCHANGED <<run, waits, item, claim, sess, history, faults>>

\* Mutant: the claim is not verified again before the side effect.
VerifyClaim_Skipped(w) ==
  /\ pc[w] = "authorized"
  /\ pc' = [pc EXCEPT ![w] = "cleared"]
  /\ UNCHANGED <<runVars, claim, plan, sess, history, faults>>

\* The durable check between Txn A and the side effect.
VerifyClaim(w) ==
  /\ pc[w] = "authorized" /\ Holds(w)
  /\ pc' = [pc EXCEPT ![w] = "cleared"]
  /\ UNCHANGED <<runVars, claim, plan, sess, history, faults>>

\* gateway.execute, outside any transaction: the lease may be gone by now.
ExecuteTool(w, result) ==
  /\ pc[w] = "cleared"
  /\ ran' = ran \cup {plan[w].inv}
  /\ plan' = [plan EXCEPT ![w].result = result]
  /\ pc' = [pc EXCEPT ![w] = "executed"]
  /\ UNCHANGED <<runVars, claim, sess, granted, overwritten, faults>>

\* Txn B up to its first DML: an invocation somebody else has ended is an
\* EntityConflict, which the loop turns into a failed outcome.
CheckResult(w) ==
  /\ pc[w] = "executed" /\ Holds(w)
  /\ pc' = [pc EXCEPT ![w] = IF inv[plan[w].inv].status = "running" THEN "persisting" ELSE "failing"]
  /\ UNCHANGED <<runVars, claim, plan, sess, history, faults>>

\* Mutant: the outcome is not saved.
PersistResult_Unsaved(w) ==
  /\ pc[w] = "persisting"
  /\ pc' = [pc EXCEPT ![w] = "thinking"]
  /\ plan' = [plan EXCEPT ![w] = NoPlan]
  /\ UNCHANGED <<runVars, claim, sess, history, faults>>

PersistResult(w) ==
  /\ pc[w] = "persisting"
  /\ inv' = [inv EXCEPT ![plan[w].inv].status = plan[w].result]
  /\ pc' = [pc EXCEPT ![w] = "thinking"]
  /\ plan' = [plan EXCEPT ![w] = NoPlan]
  /\ UNCHANGED <<run, waits, item, appr, claim, sess, history, faults>>

\* ApplyFailedOutcome; a retry is another Run, with other fingerprints.
Fail(w) ==
  /\ pc[w] = "failing" /\ Holds(w)
  /\ run' = "failed" /\ item' = NoItem
  /\ Leaves(w)
  /\ UNCHANGED <<waits, appr, inv, sess, history, faults>>

\* Mutant: the finish blocker looks at approvals only.
Finish_IgnoresTools(w) ==
  /\ pc[w] = "thinking" /\ Holds(w)
  /\ Pending = {}
  /\ pc' = [pc EXCEPT ![w] = "finishing"]
  /\ UNCHANGED <<runVars, claim, plan, sess, history, faults>>

\* The model finishes: _finish_blocker, and the same reads in ApplySucceeded.
Finish(w) ==
  /\ pc[w] = "thinking" /\ Holds(w)
  /\ Open = {} /\ Pending = {}
  /\ pc' = [pc EXCEPT ![w] = "finishing"]
  /\ UNCHANGED <<runVars, claim, plan, sess, history, faults>>

\* ApplySucceededOutcome from its fenced removal on.
Succeed(w) ==
  /\ pc[w] = "finishing" /\ Holds(w)
  /\ run' = "succeeded" /\ item' = NoItem
  /\ Leaves(w)
  /\ UNCHANGED <<waits, appr, inv, sess, history, faults>>

\* The process ends anywhere, and is started again.
Crash(w) ==
  /\ pc[w] # "idle"
  /\ crashes < MaxCrashes /\ crashes' = crashes + 1
  /\ Leaves(w)
  /\ UNCHANGED <<runVars, sess, history, stalls>>

\* A lease runs out: nobody works under it, or its holder stalls.
LeaseExpires ==
  /\ item.present /\ item.owner # Nobody /\ item.live
  /\ item' = [item EXCEPT !.live = FALSE]
  /\ IF \E w \in Workers : pc[w] # "idle" /\ Holds(w)
     THEN stalls < MaxStalls /\ stalls' = stalls + 1
     ELSE UNCHANGED stalls
  /\ UNCHANGED <<run, waits, appr, inv, workerVars, sess, history, crashes>>

-----------------------------------------------------------------------------
(* The operators' commands: loaded and checked, then written blindly *)

\* The statuses an invocation command accepts, and the one it leaves.
AcceptedBy(op) ==
  CASE op = "markRunning" -> {"requested"}
    [] op \in {"markSucceeded", "markFailed"} -> {"running"}
    [] op = "cancelInvocation" -> OpenInvocation

Target(op) ==
  CASE op = "approve" -> "approved" [] op = "reject" -> "rejected"
    [] op = "markRunning" -> "running" [] op = "markSucceeded" -> "succeeded"
    [] op = "markFailed" -> "failed" [] op = "cancelInvocation" -> "cancelled"

\* A resolution remembers whether it read a Run waiting for this approval.
Load(s, op) ==
  /\ sess[s].op = "none"
  /\ \E id \in 0 .. MaxApprovals + MaxInvocations :
       /\ CASE op \in ResolveOps -> id \in Pending
            [] op \in InvocationOps -> id \in Invocations /\ inv[id].status \in AcceptedBy(op)
            [] op = "cancelRun" -> id = 0 /\ run \in {"running", "waiting_for_approval"}
            [] op = "requestInvocation" -> run = "running" /\
                 (id = 0 \/ (id \in Approvals /\ appr[id].status = "approved"))
       /\ sess' = [sess EXCEPT ![s] =
            [op |-> op, id |-> id, resumes |-> run = "waiting_for_approval" /\ waits = id]]
  /\ UNCHANGED <<runVars, workerVars, history, faults>>

Close(s) == sess' = [sess EXCEPT ![s] = IdleSession]

\* The approval goes back as it was read, pending and unconsumed, plus the
\* resolution.
Resolve(s) ==
  /\ sess[s].op \in ResolveOps
  /\ LET a == sess[s].id IN
       /\ appr' = [appr EXCEPT ![a].status = Target(sess[s].op), ![a].consumed = FALSE]
       /\ granted' = IF sess[s].op = "approve" THEN granted \cup {a} ELSE granted
       /\ overwritten' = (overwritten \/ a \notin Pending)
  /\ IF sess[s].resumes
     THEN run' = "running" /\ waits' = 0 /\ item' = Enqueue(item, TRUE)
     ELSE UNCHANGED <<run, waits, item>>
  /\ Close(s)
  /\ UNCHANGED <<inv, workerVars, ran, faults>>

SaveInvocation(s) ==
  /\ sess[s].op \in InvocationOps
  /\ inv' = [inv EXCEPT ![sess[s].id].status = Target(sess[s].op)]
  /\ Close(s)
  /\ UNCHANGED <<run, waits, item, appr, workerVars, history, faults>>

\* An invocation recorded by hand: nothing looks at its tool again.
RequestInvocation(s) ==
  /\ sess[s].op = "requestInvocation"
  /\ \E i \in Fresh(Invocations, inv) :
       inv' = [inv EXCEPT ![i] = [call |-> Nobody, appr |-> sess[s].id, status |-> "requested"]]
  /\ Close(s)
  /\ UNCHANGED <<run, waits, item, appr, workerVars, history, faults>>

\* The cascade is read and written inside the transaction.
CancelRun(s) ==
  /\ sess[s].op = "cancelRun"
  /\ run' = "cancelled" /\ waits' = 0
  /\ item' = NoItem
  /\ appr' = [a \in Approvals |-> IF a \in Pending THEN [appr[a] EXCEPT !.status = "cancelled"] ELSE appr[a]]
  /\ inv' = [i \in Invocations |-> IF i \in Open THEN [inv[i] EXCEPT !.status = "cancelled"] ELSE inv[i]]
  /\ Close(s)
  /\ UNCHANGED <<workerVars, history, faults>>

-----------------------------------------------------------------------------
ToolStep(w) ==
  \/ RequestToolApproval(w) \/ SecondApprovalRefused(w)
  \/ AuthorizeAndStart(w) \/ VerifyClaim(w)
  \/ \E result \in {"succeeded", "failed"} : ExecuteTool(w, result)
  \/ CheckResult(w) \/ PersistResult(w)
  \/ Fail(w) \/ Succeed(w) \/ ClaimLost(w)

Next ==
  \/ \E w \in Workers :
       \/ Claim(w) \/ Yield(w) \/ Finish(w) \/ Crash(w) \/ ToolStep(w)
       \/ \E c \in Calls : Propose(w, c)
  \/ \E s \in Sessions :
       \/ \E op \in Ops : Load(s, op)
       \/ Resolve(s) \/ SaveInvocation(s) \/ RequestInvocation(s) \/ CancelRun(s)
  \/ LeaseExpires

Spec == Init /\ [][Next]_vars

\* A worker that has a tool action or an outcome in hand goes on with it.
FairSpec == Spec /\ \A w \in Workers : WF_vars(ToolStep(w))

-----------------------------------------------------------------------------
(* Properties *)

\* The effect of a protected action happens at most once in a Run, over any
\* number of workers, crashes and lost leases (ExecuteToolAction: consumed
\* approvals, _find_replay and the claim check before gateway.execute), as long
\* as no resolution is saved over a row that somebody else has resolved: that
\* would write a consumed approval back as unconsumed.
ProtectedOnce ==
  ~overwritten => \A c \in Protected : Cardinality({i \in ran : inv[i].call = c}) <= 1

\* A protected action is executed only under an approval given for exactly
\* that action (find_authorizing_approval).
EffectsWereGranted ==
  \A i \in ran : inv[i].call \in Protected =>
    inv[i].appr \in granted /\ appr[inv[i].appr].call = inv[i].call

\* A Run succeeds only when its invocations are terminal, and stays that way
\* (_finish_blocker and the reads of ApplySucceededOutcome).
SucceededIsQuiet == run = "succeeded" => Open = {}

\* The status of an approval, with consumed_at.
Phase(row) == IF row.consumed THEN "consumed" ELSE row.status

ApprovalRows == INSTANCE Lifecycle WITH
  Rows <- Approvals, Kind <- "approval", status <- [a \in Approvals |-> Phase(appr[a])]
InvocationRows == INSTANCE Lifecycle WITH
  Rows <- Invocations, Kind <- "invocation", status <- [i \in Invocations |-> inv[i].status]

\* Approvals and invocations only take the transitions of their classes although
\* Txn A, Txn B and the operators write back rows they read before
\* (ApprovalRequest._resolve and consume, ToolInvocation._require_status).
ToolsFollow == ApprovalRows!Spec /\ InvocationRows!Spec

\* Whatever commands overlap, an approval takes another transition only if a
\* resolution is saved over a row that somebody else has resolved.
ApprovalsUnlessOverwritten == [][overwritten' \/ ApprovalRows!Next]_vars

\* An invocation a worker starts reaches a terminal status, unless a worker
\* dies in it (Txn A is followed by Txn B).
InvocationsSettle ==
  \A i \in Invocations :
    inv[i].status = "running" ~> inv[i].status \notin OpenInvocation \/ crashes > 0
=============================================================================
