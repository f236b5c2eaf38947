------------------------- MODULE ToolExecutionProofs -------------------------
(***************************************************************************)
(* What ToolExecution guarantees for any number of workers, operators,     *)
(* actions, approvals, crashes and lost leases.  Operators write back what *)
(* they read, and Txn A consumes an approval it read earlier, so a row may *)
(* be approved again, reopened or rejected after it was used.  The         *)
(* argument is that the action an approval names never changes once the    *)
(* row exists, and that every row ever read as approved was granted.       *)
(***************************************************************************)
EXTENDS ToolExecution, FiniteSetTheorems, TLAPS

\* Most leaves are first-order: Zenon takes those that name no prover.
USE Zenon

ApprovalRow ==
  [call : Calls \cup {Nobody}, status : {"none", "pending", "approved", "rejected", "cancelled"},
   consumed : BOOLEAN]
InvocationRow == [call : Calls \cup {Nobody}, appr : 0 .. MaxApprovals, status : InvocationStatus]
Plan ==
  [call : Calls \cup {Nobody}, appr : 0 .. MaxApprovals, inv : 0 .. MaxInvocations,
   result : {"none", "succeeded", "failed"}]
Places ==
  {"idle", "thinking", "asking", "authorizing", "authorized", "cleared", "executed", "persisting",
   "failing", "finishing"}
HasInvocation == {"authorized", "cleared", "executed", "persisting"}

\* The part of TypeOK the argument needs: the rows, the plans, the sessions.
TablesOK ==
  /\ appr \in [Approvals -> ApprovalRow]
  /\ inv \in [Invocations -> InvocationRow]
  /\ pc \in [Workers -> Places]
  /\ plan \in [Workers -> Plan]
  /\ \A w \in Workers : pc[w] \in HasInvocation => plan[w].inv \in Invocations
  /\ sess \in [Sessions -> [op : {"none"} \cup Ops, id : Nat, resumes : BOOLEAN]]
  /\ \A s \in Sessions : sess[s].op = "requestInvocation" => sess[s].id \in 0 .. MaxApprovals
  /\ ran \subseteq Invocations /\ granted \subseteq Approvals

\* Approved rows were granted, and the rows granted and loaded exist.
ApprovalInv ==
  /\ \A a \in Approvals : appr[a].status = "approved" => a \in granted
  /\ \A a \in granted : appr[a].status # "none"
  /\ \A s \in Sessions : sess[s].op \in ResolveOps =>
       sess[s].id \in Approvals /\ appr[sess[s].id].status # "none"

\* What a worker is about to start, it starts under a grant of that action.
PlanInv ==
  \A w \in Workers : pc[w] = "authorizing" =>
    /\ plan[w].appr # 0 => plan[w].appr \in granted
    /\ plan[w].call \in Protected => plan[w].appr # 0 /\ appr[plan[w].appr].call = plan[w].call

\* The invocations of protected actions, executed or not.
InvocationInv ==
  \A i \in Invocations : inv[i].call \in Protected =>
    inv[i].appr \in granted /\ appr[inv[i].appr].call = inv[i].call

GrantInv == TablesOK /\ ApprovalInv /\ PlanInv /\ InvocationInv

-----------------------------------------------------------------------------
\* A worker that leaves its loop is idle and has no plan.
LEMMA LeavesPlan ==
  ASSUME TablesOK, NEW w \in Workers, Leaves(w)
  PROVE  /\ pc' \in [Workers -> Places] /\ plan' \in [Workers -> Plan]
         /\ \A v \in Workers : pc'[v] = "idle" \/ (pc'[v] = pc[v] /\ plan'[v] = plan[v])
<1>1. NoPlan \in Plan
  BY ToolAssumption, SMT DEF NoPlan, Plan
<1>2. pc' = [pc EXCEPT ![w] = "idle"] /\ plan' = [plan EXCEPT ![w] = NoPlan]
  BY DEF Leaves
<1>3. pc \in [Workers -> Places] /\ plan \in [Workers -> Plan]
  BY DEF TablesOK
<1>4. QED BY <1>1, <1>2, <1>3 DEF Places

\* Steps that leave rows, sessions and history alone, and give no worker
\* anything to start.
LEMMA QuietSteps ==
  ASSUME GrantInv, UNCHANGED <<appr, inv, sess, granted>>, ran' \subseteq Invocations,
         pc' \in [Workers -> Places], plan' \in [Workers -> Plan],
         \A w \in Workers : pc'[w] \in HasInvocation => plan'[w].inv \in Invocations,
         \A w \in Workers : pc'[w] = "authorizing" => pc[w] = "authorizing" /\ plan'[w] = plan[w]
  PROVE  GrantInv'
<1>1. TablesOK'
  BY DEF GrantInv, TablesOK
<1>2. ApprovalInv' /\ InvocationInv'
  BY DEF GrantInv, ApprovalInv, InvocationInv
<1>3. PlanInv'
  BY DEF GrantInv, PlanInv
<1>4. QED BY <1>1, <1>2, <1>3 DEF GrantInv

\* No step a worker takes between its transactions grants anything or forgets
\* what was granted.
LEMMA WorkerQuiet ==
  ASSUME GrantInv, NEW w \in Workers,
         \/ Claim(w) \/ Yield(w) \/ Finish(w) \/ Crash(w) \/ SecondApprovalRefused(w)
         \/ VerifyClaim(w) \/ CheckResult(w) \/ Fail(w) \/ Succeed(w) \/ ClaimLost(w)
         \/ \E result \in {"succeeded", "failed"} : ExecuteTool(w, result)
  PROVE  GrantInv'
<1> USE DEF runVars, workerVars, history, faults
<1>t. /\ pc \in [Workers -> Places] /\ plan \in [Workers -> Plan] /\ ran \subseteq Invocations
      /\ \A v \in Workers : pc[v] \in HasInvocation => plan[v].inv \in Invocations
  BY DEF GrantInv, TablesOK
<1>1. CASE Yield(w) \/ Crash(w) \/ Fail(w) \/ Succeed(w) \/ ClaimLost(w)
  <2>1. Leaves(w) /\ UNCHANGED <<appr, inv, sess, granted, ran>>
    BY <1>1 DEF Yield, Crash, Fail, Succeed, ClaimLost
  <2>2. /\ pc' \in [Workers -> Places] /\ plan' \in [Workers -> Plan]
        /\ \A v \in Workers : pc'[v] = "idle" \/ (pc'[v] = pc[v] /\ plan'[v] = plan[v])
    BY <2>1, LeavesPlan DEF GrantInv
  <2>3. \A v \in Workers : pc'[v] \in HasInvocation => plan'[v].inv \in Invocations
    BY <2>2, <1>t DEF HasInvocation
  <2>4. \A v \in Workers : pc'[v] = "authorizing" => pc[v] = "authorizing" /\ plan'[v] = plan[v]
    BY <2>2
  <2>5. QED BY <2>1, <2>2, <2>3, <2>4, <1>t, QuietSteps
<1>2. CASE \/ Claim(w) \/ Finish(w) \/ SecondApprovalRefused(w) \/ VerifyClaim(w) \/ CheckResult(w)
  <2>1. UNCHANGED <<appr, inv, sess, granted, ran, plan>>
    BY <1>2 DEF Claim, Finish, SecondApprovalRefused, VerifyClaim, CheckResult
  <2>2. PICK to \in {"thinking", "finishing", "failing", "cleared", "persisting"} :
          pc' = [pc EXCEPT ![w] = to] /\ (to \in HasInvocation => pc[w] \in HasInvocation)
    BY <1>2 DEF Claim, Finish, SecondApprovalRefused, VerifyClaim, CheckResult, HasInvocation
  <2>3. /\ pc' \in [Workers -> Places]
        /\ \A v \in Workers : pc'[v] \in HasInvocation => plan'[v].inv \in Invocations
    BY <2>1, <2>2, <1>t DEF Places
  <2>4. \A v \in Workers : pc'[v] = "authorizing" => pc[v] = "authorizing" /\ plan'[v] = plan[v]
    BY <2>1, <2>2, <1>t DEF Places
  <2>5. QED BY <2>1, <2>3, <2>4, <1>t, QuietSteps
<1>3. ASSUME NEW result \in {"succeeded", "failed"}, ExecuteTool(w, result) PROVE GrantInv'
  <2>1. /\ UNCHANGED <<appr, inv, sess, granted>>
        /\ ran' = ran \cup {plan[w].inv} /\ pc' = [pc EXCEPT ![w] = "executed"]
        /\ plan' = [plan EXCEPT ![w].result = result] /\ pc[w] = "cleared"
    BY <1>3 DEF ExecuteTool
  <2>2. plan[w].inv \in Invocations
    BY <2>1, <1>t DEF HasInvocation
  <2>3. /\ plan' \in [Workers -> Plan] /\ \A v \in Workers : plan'[v].inv = plan[v].inv
        /\ \A v \in Workers : v # w => plan'[v] = plan[v]
    BY <2>1, <1>t DEF Plan
  <2>4. /\ pc' \in [Workers -> Places] /\ ran' \subseteq Invocations
        /\ \A v \in Workers : pc'[v] \in HasInvocation => plan'[v].inv \in Invocations
    BY <2>1, <2>2, <2>3, <1>t DEF Places
  <2>5. \A v \in Workers : pc'[v] = "authorizing" => pc[v] = "authorizing" /\ plan'[v] = plan[v]
    BY <2>1, <2>3, <1>t
  <2>6. QED BY <2>1, <2>3, <2>4, <2>5, QuietSteps
<1>4. QED BY <1>1, <1>2, <1>3

\* PersistResult (Txn B) changes the status of an invocation and nothing else.
LEMMA PersistKeeps ==
  ASSUME GrantInv, NEW w \in Workers, PersistResult(w) PROVE GrantInv'
<1>1. /\ UNCHANGED <<appr, sess, ran, granted>>
      /\ inv' = [inv EXCEPT ![plan[w].inv].status = plan[w].result]
      /\ pc' = [pc EXCEPT ![w] = "thinking"] /\ plan' = [plan EXCEPT ![w] = NoPlan]
  BY DEF PersistResult, history
<1>2. NoPlan \in Plan
  BY ToolAssumption, SMT DEF NoPlan, Plan
<1>3. TablesOK
  BY DEF GrantInv
<1>4. /\ pc' \in [Workers -> Places] /\ plan' \in [Workers -> Plan]
      /\ \A v \in Workers : pc'[v] = "thinking" \/ (pc'[v] = pc[v] /\ plan'[v] = plan[v])
  BY <1>1, <1>2, <1>3 DEF TablesOK, Places
<1>5. /\ inv' \in [Invocations -> InvocationRow]
      /\ \A i \in Invocations : inv'[i].call = inv[i].call /\ inv'[i].appr = inv[i].appr
  <2>1. plan[w].result \in InvocationStatus
    BY <1>3 DEF TablesOK, Plan, InvocationStatus
  <2>2. inv \in [Invocations -> InvocationRow]
    BY <1>3 DEF TablesOK
  <2>3. QED BY <2>1, <2>2, <1>1 DEF InvocationRow
<1>6. TablesOK'
  <2>1. \A v \in Workers : pc'[v] \in HasInvocation => plan'[v].inv \in Invocations
    BY <1>3, <1>4 DEF TablesOK, HasInvocation
  <2>2. QED BY <2>1, <1>1, <1>3, <1>4, <1>5 DEF TablesOK
<1>7. ApprovalInv'
  BY <1>1 DEF GrantInv, ApprovalInv
<1>8. PlanInv'
  BY <1>1, <1>4 DEF GrantInv, PlanInv
<1>9. InvocationInv'
  BY <1>1, <1>5, SMT DEF GrantInv, InvocationInv
<1>10. QED BY <1>6, <1>7, <1>8, <1>9 DEF GrantInv

\* Txn A up to its first DML: the approval it goes on with is one it read as
\* approved for this very action.
LEMMA ProposeKeeps ==
  ASSUME GrantInv, NEW w \in Workers, NEW c \in Calls, Propose(w, c) PROVE GrantInv'
<1>1. UNCHANGED <<appr, inv, sess, ran, granted>>
  BY DEF Propose, runVars, history
<1>2. TablesOK
  BY DEF GrantInv
<1>3. PICK to \in {"authorizing", "failing", "asking"}, a \in 0 .. MaxApprovals :
        /\ pc' = [pc EXCEPT ![w] = to]
        /\ plan' = [plan EXCEPT ![w] = [NoPlan EXCEPT !.call = c, !.appr = a]]
        /\ a = 0 \/ a \in Authorizing(c)
        /\ to = "authorizing" /\ c \in Protected => a # 0
  <2>1. 0 \in 0 .. MaxApprovals /\ \A a \in Authorizing(c) : a \in 0 .. MaxApprovals /\ a # 0
    BY ToolAssumption, SMT DEF Authorizing, Approvals
  <2>2. QED BY <2>1 DEF Propose
<1> DEFINE new == [NoPlan EXCEPT !.call = c, !.appr = a]
<1>4. new \in Plan /\ new.call = c /\ new.appr = a
  <2>1. NoPlan \in Plan
    BY ToolAssumption, SMT DEF NoPlan, Plan
  <2>2. QED BY <2>1, <1>3 DEF Plan
<1> HIDE DEF new
<1>5. /\ pc' \in [Workers -> Places] /\ plan' \in [Workers -> Plan]
      /\ pc'[w] = to /\ plan'[w] = new
      /\ \A v \in Workers : v # w => pc'[v] = pc[v] /\ plan'[v] = plan[v]
  BY <1>2, <1>3, <1>4 DEF TablesOK, Places, new
<1>6. TablesOK'
  <2>1. \A v \in Workers : pc'[v] \in HasInvocation => plan'[v].inv \in Invocations
    BY <1>2, <1>5 DEF TablesOK, HasInvocation
  <2>2. QED BY <2>1, <1>1, <1>2, <1>5 DEF TablesOK
<1>7. ApprovalInv' /\ InvocationInv'
  BY <1>1 DEF GrantInv, ApprovalInv, InvocationInv
<1>8. PlanInv'
  <2>1. a # 0 => a \in granted /\ appr[a].call = c
    BY <1>3 DEF Authorizing, GrantInv, ApprovalInv
  <2>2. \A v \in Workers : v # w /\ pc'[v] = "authorizing" =>
          pc[v] = "authorizing" /\ plan'[v] = plan[v]
    BY <1>5
  <2>3. QED BY <2>1, <2>2, <1>1, <1>3, <1>4, <1>5, SMT DEF GrantInv, PlanInv
<1>9. QED BY <1>6, <1>7, <1>8 DEF GrantInv

\* RequestToolApproval writes a row that did not exist: nothing granted, loaded
\* or executed refers to it.
LEMMA RequestKeeps ==
  ASSUME GrantInv, NEW w \in Workers, RequestToolApproval(w) PROVE GrantInv'
<1>1. UNCHANGED <<inv, sess, ran, granted>> /\ Leaves(w)
  BY DEF RequestToolApproval, history
<1>2. TablesOK
  BY DEF GrantInv
<1>3. PICK a \in Approvals :
        /\ appr[a].status = "none"
        /\ appr' = [appr EXCEPT ![a] = [call |-> plan[w].call, status |-> "pending", consumed |-> FALSE]]
  BY DEF RequestToolApproval, Fresh
<1>4. /\ pc' \in [Workers -> Places] /\ plan' \in [Workers -> Plan]
      /\ \A v \in Workers : pc'[v] = "idle" \/ (pc'[v] = pc[v] /\ plan'[v] = plan[v])
  BY <1>1, <1>2, LeavesPlan
<1>5. /\ appr' \in [Approvals -> ApprovalRow] /\ appr'[a].status = "pending"
      /\ \A b \in Approvals : b # a => appr'[b] = appr[b]
  <2>1. plan[w].call \in Calls \cup {Nobody}
    BY <1>2 DEF TablesOK, Plan
  <2>2. [call |-> plan[w].call, status |-> "pending", consumed |-> FALSE] \in ApprovalRow
    BY <2>1 DEF ApprovalRow
  <2>3. QED BY <2>2, <1>2, <1>3 DEF TablesOK
<1>6. a \notin granted
  BY <1>3 DEF GrantInv, ApprovalInv
<1>7. TablesOK'
  <2>1. \A v \in Workers : pc'[v] \in HasInvocation => plan'[v].inv \in Invocations
    BY <1>2, <1>4 DEF TablesOK, HasInvocation
  <2>2. QED BY <2>1, <1>1, <1>2, <1>4, <1>5 DEF TablesOK
<1>8. ApprovalInv'
  BY <1>1, <1>2, <1>3, <1>5, <1>6 DEF GrantInv, ApprovalInv, TablesOK
<1>9. PlanInv'
  BY <1>1, <1>2, <1>4, <1>5, <1>6, SMT DEF GrantInv, PlanInv, TablesOK
<1>10. InvocationInv'
  BY <1>1, <1>2, <1>5, <1>6 DEF GrantInv, InvocationInv, TablesOK
<1>11. QED BY <1>7, <1>8, <1>9, <1>10 DEF GrantInv

\* The write of Txn A: the row it saves as approved may have been rejected
\* since, but it had been granted.
LEMMA AuthorizeKeeps ==
  ASSUME GrantInv, NEW w \in Workers, AuthorizeAndStart(w) PROVE GrantInv'
<1>1. UNCHANGED <<sess, ran, granted>> /\ pc[w] = "authorizing" /\ pc' = [pc EXCEPT ![w] = "authorized"]
  BY DEF AuthorizeAndStart, history
<1>2. TablesOK
  BY DEF GrantInv
<1> DEFINE p == plan[w]
<1>3. PICK i \in Invocations :
        /\ inv' = [inv EXCEPT ![i] = [call |-> p.call, appr |-> p.appr, status |-> "running"]]
        /\ plan' = [plan EXCEPT ![w].inv = i]
  BY DEF AuthorizeAndStart, Fresh
<1>4. /\ p.call \in Calls \cup {Nobody} /\ p.appr \in 0 .. MaxApprovals
      /\ p.appr # 0 => p.appr \in granted
      /\ p.call \in Protected => p.appr # 0 /\ appr[p.appr].call = p.call
  BY <1>1, <1>2 DEF TablesOK, Plan, GrantInv, PlanInv
<1>5. /\ appr' \in [Approvals -> ApprovalRow]
      /\ \A a \in Approvals :
           /\ appr'[a].call = appr[a].call
           /\ appr'[a].status = appr[a].status \/ (a \in granted /\ appr'[a].status = "approved")
  <2>1. CASE p.appr = 0
    BY <2>1, <1>2 DEF AuthorizeAndStart, TablesOK
  <2>2. CASE p.appr # 0
    <3>1. appr' = [appr EXCEPT ![p.appr].status = "approved", ![p.appr].consumed = TRUE]
      BY <2>2 DEF AuthorizeAndStart
    <3>2. QED BY <3>1, <2>2, <1>2, <1>4, SMT DEF TablesOK, ApprovalRow
  <2>3. QED BY <2>1, <2>2
<1>6. /\ pc' \in [Workers -> Places] /\ plan' \in [Workers -> Plan]
      /\ pc'[w] = "authorized" /\ plan'[w].inv = i
      /\ \A v \in Workers : v # w => pc'[v] = pc[v] /\ plan'[v] = plan[v]
  <2>1. Invocations \subseteq 0 .. MaxInvocations
    BY ToolAssumption, SMT DEF Invocations
  <2>2. QED BY <2>1, <1>1, <1>2, <1>3, SMT DEF TablesOK, Places, Plan
<1>7. /\ inv' \in [Invocations -> InvocationRow]
      /\ inv'[i].call = p.call /\ inv'[i].appr = p.appr
      /\ \A j \in Invocations : j # i => inv'[j] = inv[j]
  BY <1>2, <1>3, <1>4 DEF TablesOK, InvocationRow, InvocationStatus, OpenInvocation
<1>8. TablesOK'
  <2>1. \A v \in Workers : pc'[v] \in HasInvocation => plan'[v].inv \in Invocations
    BY <1>2, <1>6 DEF TablesOK
  <2>2. QED BY <2>1, <1>1, <1>2, <1>5, <1>6, <1>7 DEF TablesOK
<1>9. ApprovalInv'
  BY <1>1, <1>2, <1>5 DEF GrantInv, ApprovalInv, TablesOK
<1>10. PlanInv'
  BY <1>1, <1>2, <1>5, <1>6, SMT DEF GrantInv, PlanInv, TablesOK
<1>11. InvocationInv'
  BY <1>1, <1>2, <1>4, <1>5, <1>7, SMT DEF GrantInv, InvocationInv, TablesOK
<1>12. QED BY <1>8, <1>9, <1>10, <1>11 DEF GrantInv

\* What a command reads when it is loaded: a resolution reads a pending row.
LEMMA LoadReads ==
  ASSUME NEW s \in Sessions, NEW op \in Ops, Load(s, op)
  PROVE  \E id \in 0 .. MaxApprovals + MaxInvocations, r \in BOOLEAN :
           /\ sess' = [sess EXCEPT ![s] = [op |-> op, id |-> id, resumes |-> r]]
           /\ op \in ResolveOps => id \in Pending
           /\ op = "requestInvocation" => id \in 0 .. MaxApprovals
<1>1. PICK id \in 0 .. MaxApprovals + MaxInvocations :
        /\ CASE op \in ResolveOps -> id \in Pending
             [] op \in InvocationOps -> id \in Invocations /\ inv[id].status \in AcceptedBy(op)
             [] op = "cancelRun" -> id = 0 /\ run \in {"running", "waiting_for_approval"}
             [] op = "requestInvocation" -> run = "running" /\
                  (id = 0 \/ (id \in Approvals /\ appr[id].status = "approved"))
        /\ sess' = [sess EXCEPT ![s] =
             [op |-> op, id |-> id, resumes |-> run = "waiting_for_approval" /\ waits = id]]
  BY DEF Load
<1>2. op \in ResolveOps => id \in Pending
  BY <1>1 DEF ResolveOps, InvocationOps
<1>3. op = "requestInvocation" => id \in 0 .. MaxApprovals
  BY <1>1, ToolAssumption, SMT DEF ResolveOps, InvocationOps, Approvals
<1>4. (run = "waiting_for_approval" /\ waits = id) \in BOOLEAN
  OBVIOUS
<1>5. QED BY <1>1, <1>2, <1>3, <1>4

\* Loading a command writes nothing; a resolution loads a row that is pending.
LEMMA LoadKeeps ==
  ASSUME GrantInv, NEW s \in Sessions, NEW op \in Ops, Load(s, op) PROVE GrantInv'
<1>1. UNCHANGED <<appr, inv, pc, plan, ran, granted>>
  BY DEF Load, runVars, workerVars, history
<1>2. TablesOK
  BY DEF GrantInv
<1>3. PICK id \in 0 .. MaxApprovals + MaxInvocations, r \in BOOLEAN :
        /\ sess' = [sess EXCEPT ![s] = [op |-> op, id |-> id, resumes |-> r]]
        /\ op \in ResolveOps => id \in Pending
        /\ op = "requestInvocation" => id \in 0 .. MaxApprovals
  BY LoadReads
<1>4. /\ sess' \in [Sessions -> [op : {"none"} \cup Ops, id : Nat, resumes : BOOLEAN]]
      /\ sess'[s].op = op /\ sess'[s].id = id
      /\ \A t \in Sessions : t # s => sess'[t] = sess[t]
  <2>1. id \in Nat
    BY ToolAssumption, SMT
  <2>2. QED BY <2>1, <1>2, <1>3 DEF TablesOK
<1>5. TablesOK'
  BY <1>1, <1>2, <1>3, <1>4 DEF TablesOK
<1>6. ApprovalInv'
  BY <1>1, <1>2, <1>3, <1>4 DEF GrantInv, ApprovalInv, TablesOK, Pending
<1>7. PlanInv' /\ InvocationInv'
  BY <1>1 DEF GrantInv, PlanInv, InvocationInv
<1>8. QED BY <1>5, <1>6, <1>7 DEF GrantInv

\* A session that is over has no command.
LEMMA CloseTyped ==
  ASSUME TablesOK, NEW s \in Sessions, Close(s)
  PROVE  /\ sess' \in [Sessions -> [op : {"none"} \cup Ops, id : Nat, resumes : BOOLEAN]]
         /\ sess'[s].op = "none"
         /\ \A t \in Sessions : t # s => sess'[t] = sess[t]
BY DEF Close, IdleSession, TablesOK

\* ResolveApproval overwrites the row it loaded: whatever has become of it
\* since, it keeps its action and exists.
LEMMA ResolveKeeps ==
  ASSUME GrantInv, NEW s \in Sessions, Resolve(s) PROVE GrantInv'
<1> DEFINE a == sess[s].id
           op == sess[s].op
<1>1. /\ UNCHANGED <<inv, pc, plan, ran>> /\ Close(s) /\ op \in ResolveOps
      /\ appr' = [appr EXCEPT ![a].status = Target(op), ![a].consumed = FALSE]
      /\ granted' = IF op = "approve" THEN granted \cup {a} ELSE granted
  BY DEF Resolve, workerVars
<1>2. TablesOK /\ a \in Approvals
  BY <1>1 DEF GrantInv, ApprovalInv
<1>3. Target(op) \in {"approved", "rejected"} /\ (Target(op) = "approved" <=> op = "approve")
  BY <1>1 DEF Target, ResolveOps
<1>4. /\ appr' \in [Approvals -> ApprovalRow]
      /\ appr'[a].status = Target(op)
      /\ \A b \in Approvals : appr'[b].call = appr[b].call /\ (b # a => appr'[b] = appr[b])
  BY <1>1, <1>2, <1>3, SMT DEF TablesOK, ApprovalRow
<1>5. granted \subseteq granted' /\ granted' \subseteq granted \cup {a} /\ granted \subseteq Approvals
  BY <1>1, <1>2 DEF TablesOK
<1>6. /\ sess' \in [Sessions -> [op : {"none"} \cup Ops, id : Nat, resumes : BOOLEAN]]
      /\ sess'[s].op = "none"
      /\ \A t \in Sessions : t # s => sess'[t] = sess[t]
  BY <1>1, <1>2, CloseTyped
<1>7. TablesOK'
  BY <1>1, <1>2, <1>4, <1>5, <1>6 DEF TablesOK
<1>8. ApprovalInv'
  <2>1. \A b \in Approvals : appr'[b].status = "approved" => b \in granted'
    BY <1>1, <1>3, <1>4, <1>5 DEF GrantInv, ApprovalInv
  <2>2. \A b \in granted' : appr'[b].status # "none"
    BY <1>2, <1>3, <1>4, <1>5 DEF GrantInv, ApprovalInv
  <2>3. \A t \in Sessions : sess'[t].op \in ResolveOps =>
          sess'[t].id \in Approvals /\ appr'[sess'[t].id].status # "none"
    BY <1>3, <1>4, <1>6, SMT DEF GrantInv, ApprovalInv, ResolveOps
  <2>4. QED BY <2>1, <2>2, <2>3 DEF ApprovalInv
<1>9. PlanInv'
  BY <1>1, <1>4, <1>5 DEF GrantInv, PlanInv
<1>10. InvocationInv'
  BY <1>1, <1>4, <1>5, SMT DEF GrantInv, InvocationInv
<1>11. QED BY <1>7, <1>8, <1>9, <1>10 DEF GrantInv

\* The other commands leave the grants alone.  They change statuses, close
\* pending rows, or record an invocation by hand, which no tool executes.
LEMMA CommandsKeep ==
  ASSUME GrantInv, NEW s \in Sessions, SaveInvocation(s) \/ RequestInvocation(s) \/ CancelRun(s)
  PROVE  GrantInv'
<1>1. UNCHANGED <<pc, plan, ran, granted>> /\ Close(s)
  BY DEF SaveInvocation, RequestInvocation, CancelRun, workerVars, history
<1>2. TablesOK
  BY DEF GrantInv
<1>3. /\ sess' \in [Sessions -> [op : {"none"} \cup Ops, id : Nat, resumes : BOOLEAN]]
      /\ sess'[s].op = "none"
      /\ \A t \in Sessions : t # s => sess'[t] = sess[t]
  BY <1>1, <1>2, CloseTyped
<1>4. /\ appr' \in [Approvals -> ApprovalRow]
      /\ \A a \in Approvals :
           /\ appr'[a].call = appr[a].call
           /\ appr'[a].status = appr[a].status \/ (appr[a].status = "pending" /\ appr'[a].status = "cancelled")
  <2>1. CASE CancelRun(s)
    <3>1. appr' = [a \in Approvals |-> IF a \in Pending THEN [appr[a] EXCEPT !.status = "cancelled"] ELSE appr[a]]
      BY <2>1 DEF CancelRun
    <3>2. QED BY <3>1, <1>2 DEF TablesOK, ApprovalRow, Pending
  <2>2. CASE UNCHANGED appr
    BY <2>2, <1>2 DEF TablesOK
  <2>3. QED BY <2>1, <2>2 DEF SaveInvocation, RequestInvocation
<1>5. /\ inv' \in [Invocations -> InvocationRow]
      /\ \A i \in Invocations :
           inv'[i].call \in Protected => inv'[i].call = inv[i].call /\ inv'[i].appr = inv[i].appr
  <2>1. CASE CancelRun(s)
    <3>1. inv' = [i \in Invocations |-> IF i \in Open THEN [inv[i] EXCEPT !.status = "cancelled"] ELSE inv[i]]
      BY <2>1 DEF CancelRun
    <3>2. QED BY <3>1, <1>2 DEF TablesOK, InvocationRow, InvocationStatus
  <2>2. CASE SaveInvocation(s)
    <3>1. /\ inv' = [inv EXCEPT ![sess[s].id].status = Target(sess[s].op)]
          /\ sess[s].op \in InvocationOps
      BY <2>2 DEF SaveInvocation
    <3>2. Target(sess[s].op) \in InvocationStatus
      BY <3>1 DEF Target, InvocationOps, InvocationStatus, OpenInvocation
    <3>3. QED BY <3>1, <3>2, <1>2, ZenonT(30) DEF TablesOK, InvocationRow
  <2>3. CASE RequestInvocation(s)
    <3>1. PICK i \in Invocations :
            inv' = [inv EXCEPT ![i] = [call |-> Nobody, appr |-> sess[s].id, status |-> "requested"]]
      BY <2>3 DEF RequestInvocation, Fresh
    <3>2. sess[s].id \in 0 .. MaxApprovals
      BY <2>3, <1>2 DEF RequestInvocation, TablesOK
    <3>3. Nobody \notin Protected
      BY ToolAssumption
    <3>4. QED BY <3>1, <3>2, <3>3, <1>2 DEF TablesOK, InvocationRow, InvocationStatus, OpenInvocation
  <2>4. QED BY <2>1, <2>2, <2>3
<1>6. TablesOK'
  BY <1>1, <1>2, <1>3, <1>4, <1>5 DEF TablesOK
<1>7. ApprovalInv'
  BY <1>1, <1>2, <1>3, <1>4, ZenonT(30) DEF GrantInv, ApprovalInv, TablesOK, ResolveOps
<1>8. PlanInv'
  BY <1>1, <1>2, <1>4 DEF GrantInv, PlanInv, TablesOK
<1>9. InvocationInv'
  BY <1>1, <1>2, <1>4, <1>5, SMT DEF GrantInv, InvocationInv, TablesOK
<1>10. QED BY <1>6, <1>7, <1>8, <1>9 DEF GrantInv

-----------------------------------------------------------------------------
\* At first there is nothing to grant.
LEMMA GrantInit == Init => GrantInv
<1> SUFFICES ASSUME Init PROVE GrantInv
  OBVIOUS
<1>1. /\ [call |-> Nobody, status |-> "none", consumed |-> FALSE] \in ApprovalRow
      /\ [call |-> Nobody, appr |-> 0, status |-> "none"] \in InvocationRow
      /\ NoPlan \in Plan
  BY ToolAssumption, SMT DEF ApprovalRow, InvocationRow, InvocationStatus, NoPlan, Plan
<1>2. TablesOK
  BY <1>1 DEF Init, TablesOK, Places, HasInvocation, IdleSession
<1>3. ApprovalInv /\ PlanInv
  BY DEF Init, ApprovalInv, PlanInv, IdleSession, ResolveOps
<1>4. InvocationInv
  BY ToolAssumption DEF Init, InvocationInv
<1>5. QED BY <1>2, <1>3, <1>4 DEF GrantInv

\* Every step keeps GrantInv.
LEMMA GrantNext == GrantInv /\ [Next]_vars => GrantInv'
<1> SUFFICES ASSUME GrantInv, [Next]_vars PROVE GrantInv'
  OBVIOUS
<1>1. ASSUME NEW w \in Workers, ToolStep(w) PROVE GrantInv'
  BY <1>1, WorkerQuiet, RequestKeeps, AuthorizeKeeps, PersistKeeps DEF ToolStep
<1>2. ASSUME NEW w \in Workers, Claim(w) \/ Yield(w) \/ Finish(w) \/ Crash(w) PROVE GrantInv'
  BY <1>2, WorkerQuiet
<1>3. ASSUME NEW w \in Workers, NEW c \in Calls, Propose(w, c) PROVE GrantInv'
  BY <1>3, ProposeKeeps
<1>4. ASSUME NEW s \in Sessions, NEW op \in Ops, Load(s, op) PROVE GrantInv'
  BY <1>4, LoadKeeps
<1>5. ASSUME NEW s \in Sessions,
             Resolve(s) \/ SaveInvocation(s) \/ RequestInvocation(s) \/ CancelRun(s)
      PROVE  GrantInv'
  BY <1>5, ResolveKeeps, CommandsKeep
<1>6. CASE LeaseExpires \/ UNCHANGED vars
  <2>1. UNCHANGED <<appr, inv, pc, plan, sess, ran, granted>>
    BY <1>6 DEF LeaseExpires, vars, runVars, workerVars, history
  <2>2. TablesOK'
    BY <2>1 DEF GrantInv, TablesOK
  <2>3. ApprovalInv' /\ PlanInv' /\ InvocationInv'
    BY <2>1 DEF GrantInv, ApprovalInv, PlanInv, InvocationInv
  <2>4. QED BY <2>2, <2>3 DEF GrantInv
<1>7. QED BY <1>1, <1>2, <1>3, <1>4, <1>5, <1>6 DEF Next

\* ExecuteToolAction with RequestToolApproval and the operators' commands:
\* whatever goes stale, is overwritten or is taken over, a protected action is
\* executed only under an approval that a person granted for exactly it.
THEOREM EffectsAreGranted == Spec => []EffectsWereGranted
<1>1. GrantInv => EffectsWereGranted
  BY DEF GrantInv, TablesOK, InvocationInv, EffectsWereGranted
<1>2. QED BY <1>1, GrantInit, GrantNext, PTL DEF Spec

-----------------------------------------------------------------------------
(* The effect of a protected action happens once *)

\* Workers that are in their loops hold different tokens, so at most one of
\* them passes the fence.
ClaimsInv ==
  /\ item \in Item
  /\ claim \in [Workers -> [token : Tokens \cup {Nobody}, gen : Nat]]
  /\ ~item.present => item.owner = Nobody
  /\ \A w \in Workers : pc[w] # "idle" => claim[w].token \in Tokens
  /\ \A v, w \in Workers :
       pc[v] # "idle" /\ pc[w] # "idle" /\ claim[v].token = claim[w].token => v = w

\* A worker's invocation is of the action it executes, and is never unwritten.
RowsInv ==
  /\ \A i \in Invocations : inv[i].status = "none" => inv[i].call = Nobody
  /\ \A i \in ran : inv[i].status # "none"
  /\ \A w \in Workers : pc[w] \in HasInvocation =>
       inv[plan[w].inv].status # "none" /\ inv[plan[w].inv].call = plan[w].call
  /\ \A w \in Workers : pc[w] \in {"executed", "persisting"} => plan[w].result # "none"

\* The approval of an invocation stays consumed, so _find_replay sees it.
ConsumedInv ==
  ~overwritten => \A i \in Invocations : inv[i].call \in Protected =>
    appr[inv[i].appr].status = "approved" /\ appr[inv[i].appr].consumed

\* The invocations of an action whose tool was executed, or is about to be.
Started(c) ==
  {i \in Invocations : inv[i].call = c /\
     (i \in ran \/ \E w \in Workers : pc[w] = "cleared" /\ plan[w].inv = i)}

\* The worker that passes the fence on its way to the tool is the first to get
\* there, and nobody else has been there before it.
OnceInv ==
  ~overwritten => \A c \in Protected :
    /\ \A w \in Workers : pc[w] \in {"authorizing", "authorized"} /\ Holds(w) /\ plan[w].call = c =>
         Started(c) = {}
    /\ \A i, j \in Started(c) : i = j

\* No statement but try_claim lets a claim through the fence.
LEMMA RowAges ==
  ASSUME item \in Item, ~item.present => item.owner = Nobody,
         NEW new \in {item, NoItem, Requeue(item, TRUE), [item EXCEPT !.live = FALSE], Enqueue(item, TRUE)}
  PROVE  /\ new \in Item
         /\ ~new.present => new.owner = Nobody
         /\ \A id \in WorkerIds : \A tok, gen :
              ClaimActive(new, id, tok, gen) => ClaimActive(item, id, tok, gen)
<1> USE NobodyAssumption DEF ClaimActive, Item
<1>1. CASE new = item
  BY <1>1
<1>2. CASE new = NoItem
  BY <1>2 DEF NoItem
<1>3. CASE new = Requeue(item, TRUE)
  <2>1. /\ new.present = item.present /\ new.owner = Nobody
        /\ new \in Item
    BY <1>3 DEF Requeue, Unclaimed
  <2>2. QED BY <2>1
<1>4. CASE new = [item EXCEPT !.live = FALSE]
  BY <1>4
<1>5. CASE new = Enqueue(item, TRUE)
  BY <1>5 DEF Enqueue
<1>6. QED BY <1>1, <1>2, <1>3, <1>4, <1>5

\* What a worker in its loop keeps: its claim, and no claim it has lost.
Fenced ==
  \A w \in Workers : pc[w] # "idle" /\ pc'[w] # "idle" =>
    claim'[w] = claim[w] /\ (Holds(w)' => Holds(w))

\* Claims are handed out one at a time and are never handed back.
LEMMA ClaimsNext ==
  ASSUME TablesOK, ClaimsInv, Next PROVE ClaimsInv' /\ Fenced
<1>t. /\ pc \in [Workers -> Places] /\ item \in Item /\ IdOf \in [Workers -> WorkerIds]
      /\ claim \in [Workers -> [token : Tokens \cup {Nobody}, gen : Nat]]
      /\ NoClaim \in [token : Tokens \cup {Nobody}, gen : Nat]
  BY ToolAssumption DEF TablesOK, ClaimsInv, NoClaim
<1>1. ASSUME NEW w \in Workers, Claim(w) PROVE ClaimsInv' /\ Fenced
  <2>1. PICK tok \in FreshToken :
          /\ item' = TryClaim(item, IdOf[w], tok)
          /\ claim' = [claim EXCEPT ![w] = [token |-> tok, gen |-> item.gen + 1]]
    BY <1>1 DEF Claim
  <2>2. tok \in Tokens /\ \A v \in Workers : claim[v].token # tok
    <3> DEFINE free == Tokens \ ({item.token} \cup {claim[v].token : v \in Workers})
    <3>1. free # {} /\ tok = CHOOSE t \in free : TRUE
      BY <2>1 DEF FreshToken
    <3>2. QED BY <3>1
  <2>3. /\ item' \in Item /\ item'.token = tok /\ item'.present = item.present
        /\ item.present /\ item.gen + 1 \in Nat
    <3>1. IdOf[w] \in WorkerIds
      BY <1>t
    <3>2. item.present /\ item.gen + 1 \in Nat
      BY <1>1, <1>t, SMT DEF Item, Claim, Claimable
    <3>3. item' = [item EXCEPT !.owner = IdOf[w], !.token = tok, !.gen = @ + 1, !.live = TRUE]
      BY <2>1 DEF TryClaim
    <3>4. QED BY <1>t, <2>2, <3>1, <3>2, <3>3 DEF Item
  <2>4. /\ pc' = [pc EXCEPT ![w] = "thinking"] /\ pc[w] = "idle"
        /\ \A v \in Workers : v # w => pc'[v] = pc[v] /\ claim'[v] = claim[v]
        /\ claim'[w].token = tok
        /\ claim' \in [Workers -> [token : Tokens \cup {Nobody}, gen : Nat]]
    BY <1>1, <1>t, <2>1, <2>2, <2>3 DEF Claim
  <2>5. ClaimsInv'
    BY <2>2, <2>3, <2>4, SMT DEF ClaimsInv
  <2>6. ASSUME NEW v \in Workers, v # w PROVE ~Holds(v)'
    BY <2>2, <2>3, <2>4, <2>6 DEF Holds, ClaimActive
  <2>7. QED BY <2>4, <2>5, <2>6 DEF Fenced
<1>2. ASSUME item' \in {item, NoItem, Requeue(item, TRUE), [item EXCEPT !.live = FALSE], Enqueue(item, TRUE)},
             claim' \in [Workers -> [token : Tokens \cup {Nobody}, gen : Nat]],
             \A v \in Workers : pc'[v] # "idle" => pc[v] # "idle" /\ claim'[v] = claim[v]
      PROVE  ClaimsInv' /\ Fenced
  <2>1. /\ item' \in Item
        /\ ~item'.present => item'.owner = Nobody
        /\ \A id \in WorkerIds : \A tok, gen :
             ClaimActive(item', id, tok, gen) => ClaimActive(item, id, tok, gen)
    BY <1>2, RowAges DEF ClaimsInv
  <2>2. ClaimsInv'
    BY <1>2, <2>1 DEF ClaimsInv
  <2>3. Fenced
    BY <1>2, <1>t, <2>1 DEF Fenced, Holds
  <2>4. QED BY <2>2, <2>3
<1>3. ASSUME NEW w \in Workers, Leaves(w), item' \in {item, NoItem, Requeue(item, TRUE)}
      PROVE  ClaimsInv' /\ Fenced
  <2>1. /\ claim' \in [Workers -> [token : Tokens \cup {Nobody}, gen : Nat]]
        /\ \A v \in Workers : pc'[v] # "idle" => pc[v] # "idle" /\ claim'[v] = claim[v]
    BY <1>3, <1>t DEF Leaves
  <2>2. QED BY <1>2, <1>3, <2>1
<1>4. ASSUME NEW w \in Workers, pc[w] # "idle", NEW to, pc' = [pc EXCEPT ![w] = to], UNCHANGED <<item, claim>>
      PROVE  ClaimsInv' /\ Fenced
  BY <1>2, <1>4, <1>t
<1>5. ASSUME NEW w \in Workers, Yield(w) \/ Crash(w) \/ RequestToolApproval(w) \/ Fail(w) \/ Succeed(w) \/ ClaimLost(w)
      PROVE  ClaimsInv' /\ Fenced
  BY <1>3, <1>5 DEF Yield, Crash, RequestToolApproval, Fail, Succeed, ClaimLost, runVars
<1>6. ASSUME NEW w \in Workers,
             \/ Finish(w) \/ SecondApprovalRefused(w) \/ AuthorizeAndStart(w) \/ VerifyClaim(w)
             \/ CheckResult(w) \/ PersistResult(w)
             \/ \E result \in {"succeeded", "failed"} : ExecuteTool(w, result)
             \/ \E c \in Calls : Propose(w, c)
      PROVE  ClaimsInv' /\ Fenced
  BY <1>4, <1>6 DEF Finish, SecondApprovalRefused, AuthorizeAndStart, VerifyClaim, CheckResult,
                    PersistResult, ExecuteTool, Propose, runVars
<1>7. ASSUME item' \in {item, NoItem, [item EXCEPT !.live = FALSE], Enqueue(item, TRUE)}, UNCHANGED <<pc, claim>>
      PROVE  ClaimsInv' /\ Fenced
  BY <1>2, <1>7, <1>t
<1>8. CASE \/ LeaseExpires
           \/ \E s \in Sessions :
                \/ \E op \in Ops : Load(s, op)
                \/ Resolve(s) \/ SaveInvocation(s) \/ RequestInvocation(s) \/ CancelRun(s)
  BY <1>7, <1>8 DEF LeaseExpires, Load, Resolve, SaveInvocation, RequestInvocation, CancelRun, runVars, workerVars
<1>9. QED BY <1>1, <1>5, <1>6, <1>8 DEF Next, ToolStep

\* What becomes of invocations: they keep their action and their approval.
InvocationsStay ==
  \A i \in Invocations :
    /\ inv[i].status # "none" =>
         inv'[i].status # "none" /\ inv'[i].call = inv[i].call /\ inv'[i].appr = inv[i].appr
    /\ inv'[i].status = "none" => inv'[i].call = inv[i].call

\* What becomes of the approvals that were consumed, while no resolution
\* overwrites a resolved row.
ConsumedStay ==
  ~overwritten' => \A a \in Approvals : appr[a].status = "approved" /\ appr[a].consumed =>
    appr'[a].status = "approved" /\ appr'[a].consumed

\* Txn A creates an invocation in a row nothing refers to.
LEMMA AuthorizeEffect ==
  ASSUME GrantInv, RowsInv, NEW w \in Workers, AuthorizeAndStart(w)
  PROVE  /\ InvocationsStay /\ ConsumedStay /\ UNCHANGED <<ran, overwritten>>
         /\ pc[w] = "authorizing" /\ pc'[w] = "authorized" /\ plan'[w].call = plan[w].call
         /\ \A v \in Workers : v # w => pc'[v] = pc[v] /\ plan'[v] = plan[v]
         /\ \E i \in Invocations :
              /\ inv[i].status = "none" /\ plan'[w].inv = i
              /\ inv'[i] = [call |-> plan[w].call, appr |-> plan[w].appr, status |-> "running"]
              /\ \A j \in Invocations : j # i => inv'[j] = inv[j]
         /\ plan[w].appr # 0 => appr'[plan[w].appr].status = "approved" /\ appr'[plan[w].appr].consumed
<1>1. /\ UNCHANGED <<sess, ran, granted, overwritten>>
      /\ pc[w] = "authorizing" /\ pc' = [pc EXCEPT ![w] = "authorized"]
  BY DEF AuthorizeAndStart, history
<1>2. TablesOK
  BY DEF GrantInv
<1> DEFINE p == plan[w]
<1>3. PICK i \in Invocations :
        /\ inv[i].status = "none"
        /\ inv' = [inv EXCEPT ![i] = [call |-> p.call, appr |-> p.appr, status |-> "running"]]
        /\ plan' = [plan EXCEPT ![w].inv = i]
  BY DEF AuthorizeAndStart, Fresh
<1>4. p.appr # 0 => p.appr \in Approvals
  BY <1>1, <1>2 DEF TablesOK, GrantInv, PlanInv
<1>5. /\ p.appr # 0 => appr'[p.appr].status = "approved" /\ appr'[p.appr].consumed
      /\ \A a \in Approvals : a # p.appr => appr'[a] = appr[a]
  BY <1>2, <1>4, SMT DEF AuthorizeAndStart, TablesOK, ApprovalRow
<1>6. /\ pc'[w] = "authorized" /\ plan'[w].inv = i /\ plan'[w].call = p.call
      /\ \A v \in Workers : v # w => pc'[v] = pc[v] /\ plan'[v] = plan[v]
  BY <1>1, <1>2, <1>3 DEF TablesOK, Plan
<1>7. /\ inv'[i] = [call |-> p.call, appr |-> p.appr, status |-> "running"]
      /\ \A j \in Invocations : j # i => inv'[j] = inv[j]
  BY <1>2, <1>3 DEF TablesOK
<1>8. InvocationsStay
  BY <1>3, <1>7, SMT DEF InvocationsStay
<1>9. ConsumedStay
  <2>1. \A a \in Approvals : a # 0
    BY SMT DEF Approvals
  <2>2. QED BY <1>4, <1>5, <2>1 DEF ConsumedStay
<1>10. QED BY <1>1, <1>3, <1>5, <1>6, <1>7, <1>8, <1>9

\* The other writers of invocations change their status, or record one by hand.
LEMMA RowsStay ==
  ASSUME GrantInv, RowsInv, Next PROVE InvocationsStay /\ ConsumedStay /\ (overwritten => overwritten')
<1>t. TablesOK
  BY DEF GrantInv
<1>1. ASSUME NEW w \in Workers, AuthorizeAndStart(w)
      PROVE  InvocationsStay /\ ConsumedStay /\ (overwritten => overwritten')
  BY <1>1, AuthorizeEffect
<1>2. ASSUME NEW w \in Workers, PersistResult(w)
      PROVE  InvocationsStay /\ ConsumedStay /\ (overwritten => overwritten')
  <2>1. /\ inv' = [inv EXCEPT ![plan[w].inv].status = plan[w].result]
        /\ UNCHANGED <<appr, overwritten>> /\ plan[w].result # "none" /\ pc[w] = "persisting"
    BY <1>2 DEF PersistResult, history, RowsInv
  <2>2. InvocationsStay
    BY <1>t, <2>1 DEF InvocationsStay, TablesOK, InvocationRow
  <2>3. QED BY <2>1, <2>2 DEF ConsumedStay
<1>3. ASSUME NEW w \in Workers, RequestToolApproval(w)
      PROVE  InvocationsStay /\ ConsumedStay /\ (overwritten => overwritten')
  <2>1. UNCHANGED <<inv, overwritten>>
    BY <1>3 DEF RequestToolApproval, history
  <2>2. PICK a \in Approvals : appr[a].status = "none" /\ \A b \in Approvals : b # a => appr'[b] = appr[b]
    BY <1>3, <1>t DEF RequestToolApproval, Fresh, TablesOK
  <2>3. QED BY <2>1, <2>2 DEF InvocationsStay, ConsumedStay
<1>4. ASSUME NEW s \in Sessions, Resolve(s)
      PROVE  InvocationsStay /\ ConsumedStay /\ (overwritten => overwritten')
  <2>1. /\ UNCHANGED inv /\ overwritten' = (overwritten \/ sess[s].id \notin Pending)
        /\ \A b \in Approvals : b # sess[s].id => appr'[b] = appr[b]
    BY <1>4, <1>t DEF Resolve, TablesOK
  <2>2. ConsumedStay
    BY <2>1 DEF ConsumedStay, Pending
  <2>3. QED BY <2>1, <2>2 DEF InvocationsStay
<1>5. ASSUME NEW s \in Sessions, SaveInvocation(s)
      PROVE  InvocationsStay /\ ConsumedStay /\ (overwritten => overwritten')
  <2>1. /\ inv' = [inv EXCEPT ![sess[s].id].status = Target(sess[s].op)]
        /\ UNCHANGED <<appr, overwritten>> /\ sess[s].op \in InvocationOps
    BY <1>5 DEF SaveInvocation, history
  <2>2. Target(sess[s].op) # "none"
    BY <2>1 DEF Target, InvocationOps
  <2>3. InvocationsStay
    BY <1>t, <2>1, <2>2 DEF InvocationsStay, TablesOK, InvocationRow
  <2>4. QED BY <2>1, <2>3 DEF ConsumedStay
<1>6. ASSUME NEW s \in Sessions, RequestInvocation(s)
      PROVE  InvocationsStay /\ ConsumedStay /\ (overwritten => overwritten')
  <2>1. UNCHANGED <<appr, overwritten>>
    BY <1>6 DEF RequestInvocation, history
  <2>2. PICK i \in Invocations :
          /\ inv[i].status = "none" /\ inv'[i].status = "requested"
          /\ \A j \in Invocations : j # i => inv'[j] = inv[j]
    BY <1>6, <1>t, SMT DEF RequestInvocation, Fresh, TablesOK
  <2>3. QED BY <2>1, <2>2 DEF InvocationsStay, ConsumedStay
<1>7. ASSUME NEW s \in Sessions, CancelRun(s)
      PROVE  InvocationsStay /\ ConsumedStay /\ (overwritten => overwritten')
  <2>1. UNCHANGED overwritten
    BY <1>7 DEF CancelRun, history
  <2>2. \A a \in Approvals : appr[a].status # "pending" => appr'[a] = appr[a]
    BY <1>7 DEF CancelRun, Pending
  <2>3. \A i \in Invocations : inv'[i] = inv[i] \/
          (inv'[i].status = "cancelled" /\ inv'[i].call = inv[i].call /\ inv'[i].appr = inv[i].appr)
    <3>1. inv' = [i \in Invocations |-> IF i \in Open THEN [inv[i] EXCEPT !.status = "cancelled"] ELSE inv[i]]
      BY <1>7 DEF CancelRun
    <3>2. QED BY <3>1, <1>t DEF TablesOK, InvocationRow
  <2>4. QED BY <2>1, <2>2, <2>3 DEF InvocationsStay, ConsumedStay
<1>8. CASE UNCHANGED <<appr, inv, overwritten>>
  BY <1>8 DEF InvocationsStay, ConsumedStay
<1>9. ASSUME NEW w \in Workers,
             \/ Claim(w) \/ Yield(w) \/ Finish(w) \/ Crash(w) \/ SecondApprovalRefused(w)
             \/ VerifyClaim(w) \/ CheckResult(w) \/ Fail(w) \/ Succeed(w) \/ ClaimLost(w)
             \/ \E result \in {"succeeded", "failed"} : ExecuteTool(w, result)
             \/ \E c \in Calls : Propose(w, c)
      PROVE  UNCHANGED <<appr, inv, overwritten>>
  BY <1>9 DEF Claim, Yield, Finish, Crash, SecondApprovalRefused, VerifyClaim, CheckResult, Fail, Succeed,
              ClaimLost, ExecuteTool, Propose, runVars, history
<1>10. CASE LeaseExpires \/ \E s \in Sessions, op \in Ops : Load(s, op)
  BY <1>8, <1>10 DEF LeaseExpires, Load, runVars, history
<1>11. QED
  BY <1>1, <1>2, <1>3, <1>4, <1>5, <1>6, <1>7, <1>8, <1>9, <1>10 DEF Next, ToolStep

\* How workers get from one place to the next with what they plan.
PlanMoves(w) ==
  /\ pc'[w] \in HasInvocation =>
       \/ pc[w] \in HasInvocation /\ plan'[w].inv = plan[w].inv /\ plan'[w].call = plan[w].call
       \/ AuthorizeAndStart(w)
  /\ pc'[w] \in {"executed", "persisting"} =>
       \/ pc[w] \in {"executed", "persisting"} /\ plan'[w].result = plan[w].result
       \/ plan'[w].result # "none"
  /\ pc'[w] = "cleared" => pc[w] = "cleared" \/ VerifyClaim(w)
  /\ pc'[w] \in {"authorizing", "authorized"} =>
       \/ pc[w] \in {"authorizing", "authorized"} /\ plan'[w].call = plan[w].call
       \/ \E c \in Calls : Propose(w, c)

\* Every step moves the plans this way, and executes cleared tools only.
LEMMA PlansMove ==
  ASSUME GrantInv, RowsInv, Next
  PROVE  /\ \A v \in Workers : PlanMoves(v)
         /\ \A i \in ran' : i \in ran \/ \E w \in Workers : pc[w] = "cleared" /\ plan[w].inv = i
<1> DEFINE Goal == /\ \A v \in Workers : PlanMoves(v)
                   /\ \A i \in ran' : i \in ran \/ \E w \in Workers : pc[w] = "cleared" /\ plan[w].inv = i
<1>t. TablesOK /\ pc \in [Workers -> Places] /\ plan \in [Workers -> Plan]
  BY DEF GrantInv, TablesOK
<1>1. ASSUME NEW w \in Workers, AuthorizeAndStart(w) PROVE Goal
  BY <1>1, AuthorizeEffect, ZenonT(30) DEF PlanMoves, HasInvocation
<1>2. ASSUME NEW w \in Workers, Leaves(w), UNCHANGED ran PROVE Goal
  BY <1>2, <1>t, LeavesPlan DEF PlanMoves, HasInvocation
<1>3. ASSUME NEW w \in Workers, NEW to \in {"thinking", "finishing", "failing"}, pc' = [pc EXCEPT ![w] = to],
             NEW new, plan' = [plan EXCEPT ![w] = new], UNCHANGED ran
      PROVE  Goal
  <2>1. \A v \in Workers : pc'[v] = to \/ (pc'[v] = pc[v] /\ plan'[v] = plan[v])
    BY <1>3, <1>t
  <2>2. QED BY <1>3, <2>1 DEF PlanMoves, HasInvocation
<1>4. ASSUME NEW w \in Workers, VerifyClaim(w) PROVE Goal
  <2>1. /\ UNCHANGED <<plan, ran>> /\ pc[w] = "authorized"
        /\ \A v \in Workers : (v = w /\ pc'[v] = "cleared") \/ pc'[v] = pc[v]
    BY <1>4, <1>t DEF VerifyClaim, history
  <2>2. QED BY <1>4, <2>1 DEF PlanMoves, HasInvocation
<1>5. ASSUME NEW w \in Workers, CheckResult(w) PROVE Goal
  <2>1. /\ UNCHANGED <<plan, ran>> /\ pc[w] = "executed"
        /\ \A v \in Workers : (v = w /\ pc'[v] \in {"persisting", "failing"}) \/ pc'[v] = pc[v]
    BY <1>5, <1>t DEF CheckResult, history
  <2>2. QED BY <2>1 DEF PlanMoves, HasInvocation
<1>6. ASSUME NEW w \in Workers, NEW result \in {"succeeded", "failed"}, ExecuteTool(w, result) PROVE Goal
  <2>1. /\ ran' = ran \cup {plan[w].inv} /\ pc[w] = "cleared" /\ pc'[w] = "executed"
        /\ plan'[w].inv = plan[w].inv /\ plan'[w].call = plan[w].call /\ plan'[w].result = result
        /\ \A v \in Workers : v # w => pc'[v] = pc[v] /\ plan'[v] = plan[v]
    BY <1>6, <1>t DEF ExecuteTool, Plan
  <2>2. QED BY <2>1 DEF PlanMoves, HasInvocation
<1>7. ASSUME NEW w \in Workers, NEW c \in Calls, Propose(w, c) PROVE Goal
  <2>1. /\ UNCHANGED ran
        /\ pc'[w] \in {"authorizing", "failing", "asking"}
        /\ \A v \in Workers : v # w => pc'[v] = pc[v] /\ plan'[v] = plan[v]
    BY <1>7, <1>t DEF Propose, history
  <2>2. QED BY <1>7, <2>1 DEF PlanMoves, HasInvocation
<1>8. CASE UNCHANGED <<pc, plan, ran>>
  BY <1>8 DEF PlanMoves
<1>9. ASSUME NEW w \in Workers,
             \/ Yield(w) \/ Crash(w) \/ Fail(w) \/ Succeed(w) \/ ClaimLost(w) \/ RequestToolApproval(w)
      PROVE  Goal
  BY <1>2, <1>9 DEF Yield, Crash, Fail, Succeed, ClaimLost, RequestToolApproval, history
<1>10. ASSUME NEW w \in Workers, Claim(w) \/ Finish(w) \/ SecondApprovalRefused(w) \/ PersistResult(w)
       PROVE  Goal
  <2>1. plan = [plan EXCEPT ![w] = plan[w]]
    BY <1>t
  <2>2. QED BY <1>3, <1>10, <2>1 DEF Claim, Finish, SecondApprovalRefused, PersistResult, history
<1>11. CASE \/ LeaseExpires
            \/ \E s \in Sessions :
                 \/ \E op \in Ops : Load(s, op)
                 \/ Resolve(s) \/ SaveInvocation(s) \/ RequestInvocation(s) \/ CancelRun(s)
  BY <1>8, <1>11 DEF LeaseExpires, Load, Resolve, SaveInvocation, RequestInvocation, CancelRun, workerVars, history
<1>12. QED BY <1>1, <1>4, <1>5, <1>6, <1>7, <1>9, <1>10, <1>11 DEF Next, ToolStep

\* The rows and the plans go on agreeing.
LEMMA RowsNext ==
  ASSUME GrantInv, GrantInv', RowsInv, Next PROVE RowsInv'
<1>t. TablesOK /\ TablesOK'
  BY DEF GrantInv
<1>1. InvocationsStay
  BY RowsStay
<1>2. /\ \A v \in Workers : PlanMoves(v)
      /\ \A i \in ran' : i \in ran \/ \E w \in Workers : pc[w] = "cleared" /\ plan[w].inv = i
  BY PlansMove
<1>3. \A i \in Invocations : inv'[i].status = "none" => inv'[i].call = Nobody
  BY <1>1 DEF InvocationsStay, RowsInv
<1>4. ASSUME NEW i \in ran' PROVE inv'[i].status # "none"
  <2>1. i \in Invocations /\ inv[i].status # "none"
    BY <1>t, <1>2, SMT DEF RowsInv, TablesOK, HasInvocation
  <2>2. QED BY <1>1, <2>1 DEF InvocationsStay
<1>5. ASSUME NEW w \in Workers, pc'[w] \in HasInvocation
      PROVE  inv'[plan'[w].inv].status # "none" /\ inv'[plan'[w].inv].call = plan'[w].call
  <2>1. CASE AuthorizeAndStart(w)
    <3>1. plan'[w].call = plan[w].call
      BY <2>1, AuthorizeEffect
    <3>2. inv'[plan'[w].inv] = [call |-> plan[w].call, appr |-> plan[w].appr, status |-> "running"]
      BY <2>1, AuthorizeEffect, SMT
    <3>3. QED BY <3>1, <3>2, SMT
  <2>2. CASE pc[w] \in HasInvocation /\ plan'[w].inv = plan[w].inv /\ plan'[w].call = plan[w].call
    <3>1. /\ plan[w].inv \in Invocations
          /\ inv[plan[w].inv].status # "none" /\ inv[plan[w].inv].call = plan[w].call
      BY <1>t, <2>2 DEF TablesOK, RowsInv
    <3>2. QED BY <1>1, <2>2, <3>1 DEF InvocationsStay
  <2>3. QED BY <1>2, <1>5, <2>1, <2>2 DEF PlanMoves
<1>6. \A w \in Workers : pc'[w] \in {"executed", "persisting"} => plan'[w].result # "none"
  BY <1>2 DEF PlanMoves, RowsInv
<1>7. QED BY <1>3, <1>4, <1>5, <1>6 DEF RowsInv

\* What was consumed stays consumed, and a new invocation consumes its approval.
LEMMA ConsumedNext ==
  ASSUME GrantInv, RowsInv, ConsumedInv, Next PROVE ConsumedInv'
<1> SUFFICES ASSUME ~overwritten', NEW i \in Invocations, inv'[i].call \in Protected
             PROVE  appr'[inv'[i].appr].status = "approved" /\ appr'[inv'[i].appr].consumed
  BY DEF ConsumedInv
<1>1. InvocationsStay /\ ConsumedStay /\ ~overwritten
  BY RowsStay
<1>2. inv'[i].call \in Calls /\ inv'[i].call # Nobody
  BY ToolAssumption
<1>3. CASE inv[i].status # "none"
  <2>1. inv'[i].call = inv[i].call /\ inv'[i].appr = inv[i].appr
    BY <1>1, <1>3 DEF InvocationsStay
  <2>2. inv[i].appr \in Approvals
    BY <2>1 DEF GrantInv, InvocationInv, TablesOK
  <2>3. appr[inv[i].appr].status = "approved" /\ appr[inv[i].appr].consumed
    BY <1>1, <2>1 DEF ConsumedInv
  <2>4. QED BY <1>1, <2>1, <2>2, <2>3 DEF ConsumedStay
<1>4. CASE inv[i].status = "none"
  <2>1. inv'[i] # inv[i]
    BY <1>2, <1>4 DEF RowsInv
  <2>2. ASSUME NEW w \in Workers, AuthorizeAndStart(w)
        PROVE  appr'[inv'[i].appr].status = "approved" /\ appr'[inv'[i].appr].consumed
    <3>1. inv'[i] = [call |-> plan[w].call, appr |-> plan[w].appr, status |-> "running"]
      BY <2>1, <2>2, AuthorizeEffect
    <3>2. plan[w].appr # 0
      BY <2>2, <3>1, SMT DEF AuthorizeAndStart, GrantInv, PlanInv
    <3>3. QED BY <2>2, <3>1, <3>2, AuthorizeEffect, SMT
  <2>3. \E w \in Workers : AuthorizeAndStart(w)
    <3>1. ASSUME NEW s \in Sessions, RequestInvocation(s) PROVE FALSE
      <4>1. inv'[i].call = Nobody
        <5>1. PICK j \in Invocations :
                inv' = [inv EXCEPT ![j] = [call |-> Nobody, appr |-> sess[s].id, status |-> "requested"]]
          BY <3>1 DEF RequestInvocation, Fresh
        <5>2. inv \in [Invocations -> InvocationRow]
          BY DEF GrantInv, TablesOK
        <5>3. i = j
          BY <2>1, <5>1, <5>2
        <5>4. QED BY <5>1, <5>2, <5>3
      <4>2. QED BY <1>2, <4>1
    <3>2. ASSUME NEW w \in Workers, PersistResult(w) PROVE FALSE
      <4>1. inv' = [inv EXCEPT ![plan[w].inv].status = plan[w].result] /\ inv \in [Invocations -> InvocationRow]
        BY <3>2 DEF PersistResult, GrantInv, TablesOK
      <4>2. inv'[i].call = inv[i].call
        BY <4>1 DEF InvocationRow
      <4>3. QED BY <1>2, <1>4, <4>2 DEF RowsInv
    <3>3. ASSUME NEW s \in Sessions, SaveInvocation(s) PROVE FALSE
      <4>1. inv' = [inv EXCEPT ![sess[s].id].status = Target(sess[s].op)] /\ inv \in [Invocations -> InvocationRow]
        BY <3>3 DEF SaveInvocation, GrantInv, TablesOK
      <4>2. inv'[i].call = inv[i].call
        BY <4>1 DEF InvocationRow
      <4>3. QED BY <1>2, <1>4, <4>2 DEF RowsInv
    <3>4. ASSUME NEW s \in Sessions, CancelRun(s) PROVE FALSE
      BY <1>4, <2>1, <3>4 DEF CancelRun, Open, OpenInvocation
    <3>5. ASSUME UNCHANGED inv PROVE FALSE
      BY <2>1, <3>5
    <3>6. QED
      BY <3>1, <3>2, <3>3, <3>4, <3>5, ZenonT(30)
      DEF Next, ToolStep, Claim, Yield, Finish, Crash, SecondApprovalRefused, VerifyClaim, CheckResult,
          Fail, Succeed, ClaimLost, ExecuteTool, Propose, RequestToolApproval, LeaseExpires, Load, Resolve, runVars
  <2>4. QED BY <2>2, <2>3
<1>5. QED BY <1>3, <1>4

\* An action is proposed for execution only when nobody has started it.
LEMMA ProposeIsFirst ==
  ASSUME GrantInv, RowsInv, ConsumedInv, ~overwritten,
         NEW w \in Workers, NEW c \in Protected, Propose(w, c), pc'[w] = "authorizing"
  PROVE  Started(c) = {}
<1>1. Prior(c) = {}
  BY DEF Propose, GrantInv, TablesOK
<1>2. ASSUME NEW i \in Started(c) PROVE FALSE
  <2>1. i \in Invocations /\ inv[i].call = c /\ inv[i].status # "none"
    BY <1>2, ToolAssumption DEF Started, RowsInv
  <2>2. inv[i].appr \in Approvals /\ appr[inv[i].appr].call = c
    BY <2>1 DEF GrantInv, InvocationInv, TablesOK
  <2>3. appr[inv[i].appr].status = "approved" /\ appr[inv[i].appr].consumed
    BY <2>1 DEF ConsumedInv
  <2>4. inv[i].appr # 0
    BY <2>2, ToolAssumption, SMT DEF Approvals
  <2>5. i \in Prior(c)
    BY <2>1, <2>2, <2>3, <2>4 DEF Prior
  <2>6. QED BY <1>1, <2>5
<1>3. QED BY <1>2

\* The steps that start an action are those that verify its worker's claim.
LEMMA StartedGrows ==
  ASSUME GrantInv, RowsInv, Next, NEW c \in Protected, NEW i \in Started(c)'
  PROVE  i \in Started(c) \/ \E w \in Workers : VerifyClaim(w) /\ plan[w].inv = i /\ plan[w].call = c
<1>1. InvocationsStay
  BY RowsStay
<1>2. /\ \A v \in Workers : PlanMoves(v)
      /\ \A j \in ran' : j \in ran \/ \E w \in Workers : pc[w] = "cleared" /\ plan[w].inv = j
  BY PlansMove
<1>3. /\ i \in Invocations /\ inv'[i].call = c
      /\ i \in ran' \/ \E w \in Workers : pc'[w] = "cleared" /\ plan'[w].inv = i
  BY DEF Started
<1>4. CASE i \in ran \/ \E w \in Workers : pc[w] = "cleared" /\ plan[w].inv = i
  <2>1. inv[i].status # "none"
    BY <1>4 DEF RowsInv, HasInvocation
  <2>2. inv[i].call = c
    BY <1>1, <1>3, <2>1 DEF InvocationsStay
  <2>3. QED BY <1>3, <1>4, <2>2 DEF Started
<1>5. CASE \E w \in Workers : VerifyClaim(w) /\ pc'[w] = "cleared" /\ plan'[w].inv = i
  <2>1. PICK w \in Workers : VerifyClaim(w) /\ plan'[w].inv = i
    BY <1>5
  <2>2. UNCHANGED <<inv, plan>> /\ pc[w] = "authorized"
    BY <2>1 DEF VerifyClaim, runVars
  <2>3. inv[i].call = plan[w].call
    BY <2>1, <2>2 DEF RowsInv, HasInvocation
  <2>4. QED BY <1>3, <2>1, <2>2, <2>3
<1>6. ASSUME NEW w \in Workers, pc'[w] = "cleared", plan'[w].inv = i, ~VerifyClaim(w)
      PROVE  pc[w] = "cleared" /\ plan[w].inv = i
  BY <1>2, <1>6 DEF PlanMoves, HasInvocation, AuthorizeAndStart
<1>7. QED BY <1>2, <1>3, <1>4, <1>5, <1>6

\* Nobody follows the first worker through the fence.
LEMMA OnceNext ==
  ASSUME GrantInv, ClaimsInv, RowsInv, ConsumedInv, OnceInv, Next PROVE OnceInv'
<1> SUFFICES ASSUME ~overwritten', NEW c \in Protected
             PROVE  /\ \A w \in Workers :
                         pc'[w] \in {"authorizing", "authorized"} /\ Holds(w)' /\ plan'[w].call = c =>
                           Started(c)' = {}
                    /\ \A i, j \in Started(c)' : i = j
  BY DEF OnceInv
<1>1. ~overwritten
  BY RowsStay
<1>2. Fenced
  BY ClaimsNext DEF GrantInv
<1>3. \A v \in Workers : PlanMoves(v)
  BY PlansMove
<1>4. /\ \A w \in Workers : pc[w] \in {"authorizing", "authorized"} /\ Holds(w) /\ plan[w].call = c =>
           Started(c) = {}
      /\ \A i, j \in Started(c) : i = j
  BY <1>1 DEF OnceInv
<1>5. \A v, w \in Workers : pc[v] # "idle" /\ pc[w] # "idle" /\ Holds(v) /\ Holds(w) => v = w
  BY ZenonT(30) DEF ClaimsInv, Holds, ClaimActive
<1>6. CASE \E w \in Workers : VerifyClaim(w) /\ plan[w].call = c
  <2>1. PICK w \in Workers : VerifyClaim(w) /\ plan[w].call = c
    BY <1>6
  <2>2. pc[w] = "authorized" /\ Holds(w) /\ Started(c) = {}
    BY <1>4, <2>1 DEF VerifyClaim
  <2>3. pc'[w] = "cleared" /\ \A v \in Workers : v # w => pc'[v] = pc[v]
    BY <2>1 DEF VerifyClaim, GrantInv, TablesOK
  <2>4. \A v \in Workers : VerifyClaim(v) => v = w
    BY <1>5, <2>2 DEF VerifyClaim
  <2>5. \A i \in Started(c)' : i = plan[w].inv
    BY <2>2, <2>4, StartedGrows
  <2>6. ASSUME NEW v \in Workers, pc'[v] \in {"authorizing", "authorized"}, Holds(v)' PROVE FALSE
    <3>1. v # w /\ pc'[v] = pc[v]
      BY <2>3, <2>6
    <3>2. Holds(v)
      BY <1>2, <2>6, <3>1 DEF Fenced
    <3>3. QED BY <1>5, <2>2, <2>6, <3>1, <3>2
  <2>7. QED BY <2>5, <2>6
<1>7. CASE ~\E w \in Workers : VerifyClaim(w) /\ plan[w].call = c
  <2>1. Started(c)' \subseteq Started(c)
    BY <1>7, StartedGrows
  <2>2. ASSUME NEW w \in Workers, pc'[w] \in {"authorizing", "authorized"}, Holds(w)', plan'[w].call = c
        PROVE  Started(c) = {}
    <3>1. CASE pc[w] \in {"authorizing", "authorized"} /\ plan'[w].call = plan[w].call
      <4>1. Holds(w)
        BY <1>2, <2>2, <3>1 DEF Fenced
      <4>2. QED BY <1>4, <2>2, <3>1, <4>1
    <3>2. ASSUME NEW d \in Calls, Propose(w, d) PROVE Started(c) = {}
      <4>1. plan'[w].call = d /\ pc'[w] # "authorized"
        BY <3>2 DEF Propose, NoPlan, GrantInv, TablesOK
      <4>2. QED BY <1>1, <2>2, <3>2, <4>1, ProposeIsFirst
    <3>3. QED BY <1>3, <2>2, <3>1, <3>2 DEF PlanMoves
  <2>3. QED BY <1>4, <2>1, <2>2
<1>8. QED BY <1>6, <1>7

\* The effect of a protected action happens at most once in a Run, for any
\* number of workers, crashes and lost leases, as long as no resolution is saved
\* over a row that somebody else has resolved.  ExecuteToolAction gets there by
\* three things together: Txn A consumes the approval, _find_replay finds the
\* invocation it was consumed for, and the claim is verified again before
\* gateway.execute.
THEOREM ProtectedEffectsHappenOnce == Spec => []ProtectedOnce
<1> DEFINE IInv == GrantInv /\ ClaimsInv /\ RowsInv /\ ConsumedInv /\ OnceInv
<1>1. Init => IInv
  <2> SUFFICES ASSUME Init PROVE ClaimsInv /\ RowsInv /\ ConsumedInv /\ OnceInv
    BY GrantInit
  <2>1. ClaimsInv
    BY NobodyAssumption DEF Init, ClaimsInv, NoClaim, Item, NoItem, Enqueue
  <2>2. RowsInv
    BY DEF Init, RowsInv, HasInvocation
  <2>3. \A i \in Invocations : inv[i].call = Nobody
    BY DEF Init
  <2>4. Nobody \notin Protected
    BY ToolAssumption
  <2>5. ConsumedInv
    BY <2>3, <2>4 DEF ConsumedInv
  <2>6. OnceInv
    BY <2>3, <2>4 DEF OnceInv, Started
  <2>7. QED BY <2>1, <2>2, <2>5, <2>6
<1>2. IInv /\ [Next]_vars => IInv'
  <2>1. ASSUME IInv, Next PROVE IInv'
    <3>1. GrantInv'
      BY <2>1, GrantNext
    <3>2. QED BY <2>1, <3>1, ClaimsNext, RowsNext, ConsumedNext, OnceNext DEF GrantInv
  <2>2. ASSUME IInv, UNCHANGED vars PROVE IInv'
    <3>1. GrantInv'
      BY <2>2, GrantNext
    <3>2. UNCHANGED <<run, waits, item, appr, inv, pc, claim, plan, ran, overwritten>>
      BY <2>2 DEF vars, runVars, workerVars, history
    <3>3. ClaimsInv' /\ RowsInv' /\ ConsumedInv'
      BY <2>2, <3>2 DEF ClaimsInv, RowsInv, ConsumedInv
    <3>4. OnceInv'
      BY <2>2, <3>2, SMT DEF OnceInv, Started, Holds
    <3>5. QED BY <3>1, <3>3, <3>4
  <2>3. QED BY <2>1, <2>2
<1>3. IInv => ProtectedOnce
  <2> SUFFICES ASSUME IInv, ~overwritten, NEW c \in Protected
               PROVE  Cardinality({i \in ran : inv[i].call = c}) <= 1
    BY DEF ProtectedOnce
  <2> DEFINE E == {i \in ran : inv[i].call = c}
  <2>1. E \subseteq Started(c)
    BY DEF Started, GrantInv, TablesOK
  <2>2. \A i, j \in E : i = j
    BY <2>1 DEF OnceInv
  <2>3. CASE E = {}
    BY <2>3, FS_EmptySet, SMT
  <2>4. ASSUME NEW i \in E PROVE Cardinality(E) = 1
    <3>1. E = {i}
      BY <2>2
    <3>2. QED BY <3>1, FS_Singleton
  <2>5. QED BY <2>3, <2>4, SMT
<1>4. QED BY <1>1, <1>2, <1>3, PTL DEF Spec

-----------------------------------------------------------------------------
(* Approvals and invocations implement Lifecycle *)

\* While no resolution overwrites a resolved row, only approved rows are
\* consumed, and what Txn A read as approved still is.
ApprovedInv ==
  ~overwritten =>
    /\ \A a \in Approvals : appr[a].consumed => appr[a].status = "approved"
    /\ \A w \in Workers : pc[w] = "authorizing" /\ plan[w].appr # 0 =>
         appr[plan[w].appr].status = "approved"

\* How a step may change an approval.
ApprovalMoves(old, new) ==
  \/ new.status = old.status /\ new.consumed = old.consumed
  \/ old.status = "none" /\ ~old.consumed /\ new.status = "pending" /\ ~new.consumed
  \/ /\ old.status = "pending" /\ ~old.consumed
     /\ new.status \in {"approved", "rejected", "cancelled"} /\ ~new.consumed
  \/ old.status = "approved" /\ new.status = "approved" /\ new.consumed

\* Every step that does not overwrite a resolved row changes approvals that way.
LEMMA ApprovalsMove ==
  ASSUME GrantInv, ApprovedInv, Next, ~overwritten'
  PROVE  \A a \in Approvals : ApprovalMoves(appr[a], appr'[a])
<1> DEFINE Goal == \A a \in Approvals : ApprovalMoves(appr[a], appr'[a])
<1>t. /\ TablesOK /\ appr \in [Approvals -> ApprovalRow]
      /\ \A a \in Approvals : appr[a].consumed \in BOOLEAN
  BY DEF GrantInv, TablesOK, ApprovalRow
<1>c. ASSUME ~overwritten, NEW a \in Approvals, appr[a].status # "approved" PROVE ~appr[a].consumed
  BY <1>c, <1>t DEF ApprovedInv
<1>1. ASSUME NEW w \in Workers, AuthorizeAndStart(w) PROVE Goal
  <2>1. ~overwritten /\ pc[w] = "authorizing"
    BY <1>1 DEF AuthorizeAndStart, history
  <2>2. plan[w].appr # 0 => plan[w].appr \in Approvals /\ appr[plan[w].appr].status = "approved"
    BY <2>1, <1>t DEF ApprovedInv, GrantInv, PlanInv, TablesOK
  <2>3. /\ plan[w].appr # 0 => appr'[plan[w].appr].status = "approved" /\ appr'[plan[w].appr].consumed
        /\ \A a \in Approvals : a # plan[w].appr => appr'[a] = appr[a]
    BY <1>1, <1>t, <2>2, SMT DEF AuthorizeAndStart, ApprovalRow
  <2>4. \A a \in Approvals : a # 0
    BY SMT DEF Approvals
  <2>5. QED BY <2>2, <2>3, <2>4 DEF ApprovalMoves
<1>2. ASSUME NEW w \in Workers, RequestToolApproval(w) PROVE Goal
  <2>1. PICK a \in Approvals :
          /\ appr[a].status = "none"
          /\ appr' = [appr EXCEPT ![a] = [call |-> plan[w].call, status |-> "pending", consumed |-> FALSE]]
    BY <1>2 DEF RequestToolApproval, Fresh
  <2>2. ~overwritten
    BY <1>2 DEF RequestToolApproval, history
  <2>3. ~appr[a].consumed
    BY <1>c, <2>1, <2>2
  <2>4. QED BY <1>t, <2>1, <2>3 DEF ApprovalMoves
<1>3. ASSUME NEW s \in Sessions, Resolve(s) PROVE Goal
  <2>1. ~overwritten /\ sess[s].id \in Pending /\ sess[s].op \in ResolveOps
    BY <1>3 DEF Resolve
  <2>2. ~appr[sess[s].id].consumed /\ sess[s].id \in Approvals /\ appr[sess[s].id].status = "pending"
    BY <1>c, <2>1 DEF Pending
  <2>3. Target(sess[s].op) \in {"approved", "rejected"}
    BY <2>1 DEF Target, ResolveOps
  <2>4. /\ appr'[sess[s].id].status = Target(sess[s].op) /\ ~appr'[sess[s].id].consumed
        /\ \A a \in Approvals : a # sess[s].id => appr'[a] = appr[a]
    BY <1>3, <1>t, <2>2 DEF Resolve, ApprovalRow
  <2>5. QED BY <2>2, <2>3, <2>4 DEF ApprovalMoves
<1>4. ASSUME NEW s \in Sessions, CancelRun(s) PROVE Goal
  <2>1. ~overwritten
    BY <1>4 DEF CancelRun, history
  <2>2. ASSUME NEW a \in Approvals PROVE ApprovalMoves(appr[a], appr'[a])
    <3>1. CASE a \in Pending
      <4>1. appr'[a] = [appr[a] EXCEPT !.status = "cancelled"]
        BY <1>4, <3>1 DEF CancelRun
      <4>2. appr'[a].status = "cancelled" /\ appr'[a].consumed = appr[a].consumed
        BY <4>1, <1>t DEF ApprovalRow
      <4>3. appr[a].status = "pending" /\ ~appr[a].consumed
        BY <3>1, <2>1, <1>c DEF Pending
      <4>4. QED BY <4>2, <4>3 DEF ApprovalMoves
    <3>2. CASE a \notin Pending
      BY <1>4, <3>2 DEF CancelRun, ApprovalMoves
    <3>3. QED BY <3>1, <3>2
  <2>3. QED BY <2>2
<1>5. CASE UNCHANGED appr
  BY <1>5 DEF ApprovalMoves
<1>6. QED
  BY <1>1, <1>2, <1>3, <1>4, <1>5, ZenonT(30)
  DEF Next, ToolStep, Claim, Yield, Finish, Crash, SecondApprovalRefused, VerifyClaim, CheckResult,
      PersistResult, Fail, Succeed, ClaimLost, ExecuteTool, Propose, LeaseExpires, Load, SaveInvocation,
      RequestInvocation, runVars

\* Txn A starts from what Propose read.
LEMMA AuthorizingMoves ==
  ASSUME GrantInv, RowsInv, Next, NEW v \in Workers, pc'[v] = "authorizing", plan'[v].appr # 0
  PROVE  \/ pc[v] = "authorizing" /\ plan'[v].appr = plan[v].appr
         \/ /\ plan'[v].appr \in Approvals /\ appr[plan'[v].appr].status = "approved"
            /\ UNCHANGED appr
<1> DEFINE Goal == \/ pc[v] = "authorizing" /\ plan'[v].appr = plan[v].appr
                   \/ /\ plan'[v].appr \in Approvals /\ appr[plan'[v].appr].status = "approved"
                      /\ UNCHANGED appr
<1>t. pc \in [Workers -> Places] /\ plan \in [Workers -> Plan] /\ TablesOK
  BY DEF GrantInv, TablesOK
<1>1. ASSUME NEW w \in Workers, NEW c \in Calls, Propose(w, c) PROVE Goal
  <2>1. v # w => pc'[v] = pc[v] /\ plan'[v] = plan[v]
    BY <1>1, <1>t DEF Propose
  <2>2. ASSUME v = w PROVE plan'[v].appr \in Authorizing(c)
    <3>1. PICK a \in {0} \cup Authorizing(c) : plan'[v] = [NoPlan EXCEPT !.call = c, !.appr = a]
      BY <1>1, <1>t, <2>2 DEF Propose
    <3>2. plan'[v].appr = a
      BY <3>1 DEF NoPlan
    <3>3. QED BY <3>1, <3>2
  <2>3. UNCHANGED appr
    BY <1>1 DEF Propose, runVars
  <2>4. QED BY <2>1, <2>2, <2>3 DEF Authorizing
<1>2. ASSUME NEW w \in Workers, pc'[w] # "authorizing",
             \A u \in Workers : u # w => pc'[u] = pc[u] /\ plan'[u] = plan[u]
      PROVE  Goal
  BY <1>2
<1>3. CASE UNCHANGED <<pc, plan>>
  BY <1>3
<1>4. ASSUME NEW w \in Workers, Leaves(w) PROVE Goal
  BY <1>2, <1>4, <1>t DEF Leaves
<1>5. ASSUME NEW w \in Workers,
             \/ Claim(w) \/ Finish(w) \/ SecondApprovalRefused(w) \/ VerifyClaim(w) \/ CheckResult(w)
             \/ PersistResult(w) \/ AuthorizeAndStart(w)
             \/ \E result \in {"succeeded", "failed"} : ExecuteTool(w, result)
      PROVE  Goal
  <2>1. pc'[w] # "authorizing"
    BY <1>5, <1>t DEF Claim, Finish, SecondApprovalRefused, VerifyClaim, CheckResult, PersistResult,
                      AuthorizeAndStart, ExecuteTool
  <2>2. \A u \in Workers : u # w => pc'[u] = pc[u] /\ plan'[u] = plan[u]
    BY <1>5, <1>t DEF Claim, Finish, SecondApprovalRefused, VerifyClaim, CheckResult, PersistResult,
                      AuthorizeAndStart, ExecuteTool
  <2>3. QED BY <1>2, <2>1, <2>2
<1>6. QED
  BY <1>1, <1>3, <1>4, <1>5, ZenonT(30)
  DEF Next, ToolStep, Yield, Crash, RequestToolApproval, Fail, Succeed, ClaimLost, LeaseExpires, Load,
      Resolve, SaveInvocation, RequestInvocation, CancelRun, workerVars

\* ApprovedInv is kept.
LEMMA ApprovedNext ==
  ASSUME GrantInv, GrantInv', RowsInv, ApprovedInv, Next PROVE ApprovedInv'
<1> SUFFICES ASSUME ~overwritten'
             PROVE  /\ \A a \in Approvals : appr'[a].consumed => appr'[a].status = "approved"
                    /\ \A w \in Workers : pc'[w] = "authorizing" /\ plan'[w].appr # 0 =>
                         appr'[plan'[w].appr].status = "approved"
  BY DEF ApprovedInv
<1>1. ~overwritten /\ \A a \in Approvals : ApprovalMoves(appr[a], appr'[a])
  BY RowsStay, ApprovalsMove
<1>2. \A a \in Approvals : appr'[a].consumed => appr'[a].status = "approved"
  BY <1>1 DEF ApprovedInv, ApprovalMoves
<1>3. ASSUME NEW w \in Workers, pc'[w] = "authorizing", plan'[w].appr # 0
      PROVE  appr'[plan'[w].appr].status = "approved"
  <2>1. plan'[w].appr \in Approvals /\ appr[plan'[w].appr].status = "approved"
    BY <1>1, <1>3, AuthorizingMoves DEF ApprovedInv, GrantInv, PlanInv, TablesOK
  <2>2. QED BY <1>1, <2>1 DEF ApprovalMoves
<1>4. QED BY <1>2, <1>3

\* What the promise about approvals rests on.
LEMMA ApprovedInvariant == Spec => [](GrantInv /\ RowsInv /\ ApprovedInv)
<1>1. Init => GrantInv /\ RowsInv /\ ApprovedInv
  <2>1. Init => RowsInv /\ ApprovedInv
    BY SMT DEF Init, RowsInv, HasInvocation, ApprovedInv
  <2>2. QED BY <2>1, GrantInit
<1>2. ASSUME GrantInv, RowsInv, ApprovedInv, [Next]_vars PROVE GrantInv' /\ RowsInv' /\ ApprovedInv'
  <2>1. GrantInv'
    BY <1>2, GrantNext
  <2>2. CASE Next
    BY <1>2, <2>1, <2>2, RowsNext, ApprovedNext
  <2>3. CASE UNCHANGED vars
    BY <1>2, <2>1, <2>3 DEF vars, runVars, workerVars, history, RowsInv, ApprovedInv
  <2>4. QED BY <1>2, <2>2, <2>3
<1>3. QED BY <1>1, <1>2, PTL DEF Spec

\* These are the transitions of an approval.
LEMMA ApprovalMovesAllowed ==
  ASSUME GrantInv, GrantInv', \A a \in Approvals : ApprovalMoves(appr[a], appr'[a]), ApprovedInv, ~overwritten
  PROVE  ApprovalRows!Next
<1> SUFFICES ASSUME NEW a \in Approvals PROVE ApprovalRows!Allowed(Phase(appr[a]), Phase(appr'[a]))
  BY DEF ApprovalRows!Next
<1>1. appr[a].consumed \in BOOLEAN /\ appr'[a].consumed \in BOOLEAN
  BY DEF GrantInv, TablesOK, ApprovalRow
<1>2. /\ appr[a].consumed => Phase(appr[a]) = "consumed"
      /\ ~appr[a].consumed => Phase(appr[a]) = appr[a].status
      /\ appr'[a].consumed => Phase(appr'[a]) = "consumed"
      /\ ~appr'[a].consumed => Phase(appr'[a]) = appr'[a].status
  BY DEF Phase
<1>3. \/ Phase(appr'[a]) = Phase(appr[a])
      \/ Phase(appr[a]) = "none" /\ Phase(appr'[a]) = "pending"
      \/ Phase(appr[a]) = "pending" /\ Phase(appr'[a]) \in {"approved", "rejected", "cancelled"}
      \/ Phase(appr[a]) = "approved" /\ Phase(appr'[a]) = "consumed"
  BY <1>1, <1>2 DEF ApprovalMoves
<1>4. QED
  BY <1>3 DEF ApprovalRows!Allowed, ApprovalRows!Moves, ApprovalRows!First, ApprovalRows!ApprovalMoves

\* For any number of workers, operators, crashes and lost leases, an approval is
\* resolved once and consumed once, and only if it was approved, as long as no
\* resolution is saved over a row that somebody else has resolved.
THEOREM ApprovalsKeepTheirLifecycle == Spec => ApprovalsUnlessOverwritten
<1>1. ASSUME GrantInv, GrantInv', RowsInv, ApprovedInv, [Next]_vars
      PROVE  [overwritten' \/ ApprovalRows!Next]_vars
  <2>1. ASSUME Next, ~overwritten' PROVE ApprovalRows!Next
    BY <1>1, <2>1, RowsStay, ApprovalsMove, ApprovalMovesAllowed
  <2>2. QED BY <1>1, <2>1
<1>2. QED BY <1>1, ApprovedInvariant, PTL DEF Spec, ApprovalsUnlessOverwritten

\* Operators resolve approvals one at a time and record invocations by hand;
\* nobody cancels the Run or settles an invocation for a worker.
ResolvedOneByOne ==
  Ops \subseteq ResolveOps \cup {"requestInvocation"} /\ \A s, t \in Sessions : s = t

\* A worker's invocation is running and nobody else's.
RunningInv ==
  /\ \A w \in Workers : pc[w] \in HasInvocation => inv[plan[w].inv].status = "running"
  /\ \A v, w \in Workers :
       pc[v] \in HasInvocation /\ pc[w] \in HasInvocation /\ plan[v].inv = plan[w].inv => v = w

\* The row a resolution has read is still pending.
ResolutionInv ==
  ~overwritten /\ \A s \in Sessions : sess[s].op \in ResolveOps => sess[s].id \in Pending

\* How a step may change an invocation then.
InvocationMoves(old, new) ==
  \/ new.status = old.status
  \/ old.status = "none" /\ new.status \in OpenInvocation
  \/ old.status = "running" /\ new.status \in {"succeeded", "failed"}

\* Without those commands, only Txn A, Txn B and a record by hand write
\* invocations.
LEMMA InvocationsMove ==
  ASSUME ResolvedOneByOne, GrantInv, RowsInv, RunningInv, Next
  PROVE  /\ \A i \in Invocations : InvocationMoves(inv[i], inv'[i])
         /\ RunningInv'
<1>t. /\ TablesOK /\ inv \in [Invocations -> InvocationRow] /\ plan \in [Workers -> Plan]
      /\ pc \in [Workers -> Places]
  BY DEF GrantInv, TablesOK
<1>m. \A v \in Workers : PlanMoves(v)
  BY PlansMove
<1> DEFINE Goal == (\A i \in Invocations : InvocationMoves(inv[i], inv'[i])) /\ RunningInv'
<1>0. ASSUME \A w \in Workers : ~AuthorizeAndStart(w)
      PROVE  \A w \in Workers : pc'[w] \in HasInvocation =>
               pc[w] \in HasInvocation /\ plan'[w].inv = plan[w].inv /\ plan[w].inv \in Invocations
  BY <1>0, <1>t, <1>m DEF PlanMoves, TablesOK
<1>1. ASSUME NEW w \in Workers, AuthorizeAndStart(w) PROVE Goal
  <2>1. PICK i \in Invocations :
          /\ inv[i].status = "none" /\ plan'[w].inv = i
          /\ inv'[i] = [call |-> plan[w].call, appr |-> plan[w].appr, status |-> "running"]
          /\ \A j \in Invocations : j # i => inv'[j] = inv[j]
    BY <1>1, AuthorizeEffect
  <2>2. \A v \in Workers : v # w => pc'[v] = pc[v] /\ plan'[v] = plan[v]
    BY <1>1, AuthorizeEffect
  <2>3. inv'[i].status = "running"
    BY <2>1, SMT
  <2>4. \A v \in Workers : v # w /\ pc'[v] \in HasInvocation =>
          /\ pc[v] \in HasInvocation /\ plan'[v].inv = plan[v].inv /\ plan[v].inv \in Invocations
          /\ plan[v].inv # i /\ inv[plan[v].inv].status = "running"
    BY <1>t, <2>1, <2>2 DEF RunningInv, TablesOK
  <2>5. RunningInv'
    BY <2>1, <2>3, <2>4, SMT DEF RunningInv
  <2>6. \A j \in Invocations : InvocationMoves(inv[j], inv'[j])
    BY <2>1, <2>3 DEF InvocationMoves, OpenInvocation
  <2>7. QED BY <2>5, <2>6
<1>2. ASSUME NEW w \in Workers, PersistResult(w) PROVE Goal
  <2>1. /\ pc[w] = "persisting" /\ plan[w].inv \in Invocations /\ pc'[w] = "thinking"
        /\ inv' = [inv EXCEPT ![plan[w].inv].status = plan[w].result]
        /\ inv[plan[w].inv].status = "running" /\ plan[w].result \in {"succeeded", "failed"}
    BY <1>2, <1>t DEF PersistResult, TablesOK, HasInvocation, RunningInv, RowsInv, Plan
  <2>2. \A j \in Invocations : InvocationMoves(inv[j], inv'[j])
    BY <1>t, <2>1 DEF InvocationMoves, InvocationRow
  <2>3. \A v \in Workers : ~AuthorizeAndStart(v)
    BY <1>2, <1>t, <2>1 DEF AuthorizeAndStart, PersistResult
  <2>4. \A v \in Workers : pc'[v] \in HasInvocation => v # w /\ plan[v].inv # plan[w].inv
    BY <1>0, <2>1, <2>3 DEF HasInvocation, RunningInv
  <2>5. \A j \in Invocations : j # plan[w].inv => inv'[j] = inv[j]
    BY <1>t, <2>1
  <2>6. RunningInv'
    BY <1>0, <2>3, <2>4, <2>5, SMT DEF RunningInv
  <2>7. QED BY <2>2, <2>6
<1>3. ASSUME NEW s \in Sessions, RequestInvocation(s) PROVE Goal
  <2>1. PICK i \in Invocations :
          /\ inv[i].status = "none" /\ inv'[i].status = "requested"
          /\ \A j \in Invocations : j # i => inv'[j] = inv[j]
    BY <1>3, <1>t, SMT DEF RequestInvocation, Fresh
  <2>2. UNCHANGED <<pc, plan>>
    BY <1>3 DEF RequestInvocation, workerVars
  <2>3. \A v \in Workers : pc[v] \in HasInvocation => inv'[plan[v].inv] = inv[plan[v].inv]
    BY <1>t, <2>1 DEF RunningInv, TablesOK
  <2>4. RunningInv'
    BY <2>2, <2>3 DEF RunningInv
  <2>5. \A j \in Invocations : InvocationMoves(inv[j], inv'[j])
    BY <2>1 DEF InvocationMoves, OpenInvocation
  <2>6. QED BY <2>4, <2>5
<1>4. ASSUME UNCHANGED inv, \A v \in Workers : ~AuthorizeAndStart(v) PROVE Goal
  BY <1>0, <1>4 DEF RunningInv, InvocationMoves
<1>5. ASSUME NEW s \in Sessions PROVE ~SaveInvocation(s) /\ ~CancelRun(s)
  <2>1. sess[s].op \in {"none", "requestInvocation"} \cup ResolveOps
    BY <1>t DEF ResolvedOneByOne, TablesOK
  <2>2. QED BY <2>1 DEF SaveInvocation, CancelRun, InvocationOps, ResolveOps
<1>6. \/ UNCHANGED inv
      \/ \E w \in Workers : AuthorizeAndStart(w) \/ PersistResult(w)
      \/ \E s \in Sessions : RequestInvocation(s)
  BY <1>5
  DEF Next, ToolStep, Claim, Yield, Finish, Crash, SecondApprovalRefused, VerifyClaim, CheckResult,
      Fail, Succeed, ClaimLost, ExecuteTool, Propose, RequestToolApproval, LeaseExpires, Load, Resolve, runVars
<1>7. QED BY <1>1, <1>2, <1>3, <1>4, <1>6

\* Nothing but a resolution ends a pending approval, and there is one at a time.
LEMMA ResolutionNext ==
  ASSUME ResolvedOneByOne, GrantInv, ApprovedInv, ResolutionInv, Next
  PROVE  ResolutionInv'
<1>t. /\ TablesOK /\ appr \in [Approvals -> ApprovalRow]
      /\ sess \in [Sessions -> [op : {"none"} \cup Ops, id : Nat, resumes : BOOLEAN]]
  BY DEF GrantInv, TablesOK
<1>1. ASSUME UNCHANGED <<sess, overwritten>>, \A a \in Pending : appr'[a].status = "pending"
      PROVE  ResolutionInv'
  BY <1>1 DEF ResolutionInv, Pending
<1>2. ASSUME NEW w \in Workers, AuthorizeAndStart(w) PROVE ResolutionInv'
  <2>1. UNCHANGED <<sess, overwritten>> /\ pc[w] = "authorizing"
    BY <1>2 DEF AuthorizeAndStart, history
  <2>2. plan[w].appr # 0 => appr[plan[w].appr].status = "approved"
    BY <2>1 DEF ApprovedInv, ResolutionInv
  <2>3. \A a \in Approvals : a # plan[w].appr => appr'[a] = appr[a]
    BY <1>2, <1>t DEF AuthorizeAndStart
  <2>4. \A a \in Approvals : a # 0
    BY SMT DEF Approvals
  <2>5. QED BY <1>1, <2>1, <2>2, <2>3, <2>4 DEF Pending
<1>3. ASSUME NEW w \in Workers, RequestToolApproval(w) PROVE ResolutionInv'
  <2>1. UNCHANGED <<sess, overwritten>>
    BY <1>3 DEF RequestToolApproval, history
  <2>2. PICK a \in Approvals : appr[a].status = "none" /\ \A b \in Approvals : b # a => appr'[b] = appr[b]
    BY <1>3, <1>t DEF RequestToolApproval, Fresh
  <2>3. QED BY <1>1, <2>1, <2>2 DEF Pending
<1>4. ASSUME NEW s \in Sessions, Close(s) PROVE \A t \in Sessions : sess'[t].op = "none"
  BY <1>4, <1>t DEF Close, IdleSession, ResolvedOneByOne
<1>5. ASSUME NEW s \in Sessions, Resolve(s) \/ RequestInvocation(s) PROVE ResolutionInv'
  <2>1. \A t \in Sessions : sess'[t].op \notin ResolveOps
    BY <1>4, <1>5 DEF Resolve, RequestInvocation, ResolveOps
  <2>2. ~overwritten'
    <3>1. CASE Resolve(s)
      <4>1. overwritten' = (overwritten \/ sess[s].id \notin Pending) /\ sess[s].op \in ResolveOps
        BY <3>1 DEF Resolve
      <4>2. QED BY <4>1 DEF ResolutionInv
    <3>2. CASE RequestInvocation(s)
      BY <3>2 DEF RequestInvocation, history, ResolutionInv
    <3>3. QED BY <1>5, <3>1, <3>2
  <2>3. QED BY <2>1, <2>2 DEF ResolutionInv
<1>6. ASSUME NEW s \in Sessions, NEW op \in Ops, Load(s, op) PROVE ResolutionInv'
  <2>1. UNCHANGED <<appr, overwritten>>
    BY <1>6 DEF Load, runVars, history
  <2>2. PICK id \in 0 .. MaxApprovals + MaxInvocations, r \in BOOLEAN :
          /\ sess' = [sess EXCEPT ![s] = [op |-> op, id |-> id, resumes |-> r]]
          /\ op \in ResolveOps => id \in Pending
    BY <1>6, LoadReads
  <2>3. sess'[s].op = op /\ sess'[s].id = id /\ \A t \in Sessions : t = s
    BY <1>t, <2>2 DEF ResolvedOneByOne
  <2>4. QED BY <2>1, <2>2, <2>3 DEF ResolutionInv, Pending
<1>7. ASSUME NEW s \in Sessions PROVE ~SaveInvocation(s) /\ ~CancelRun(s)
  <2>1. sess[s].op \in {"none", "requestInvocation"} \cup ResolveOps
    BY <1>t DEF ResolvedOneByOne
  <2>2. QED BY <2>1 DEF SaveInvocation, CancelRun, InvocationOps, ResolveOps
<1>8. CASE UNCHANGED <<sess, overwritten, appr>>
  BY <1>1, <1>8 DEF Pending
<1>9. QED
  BY <1>2, <1>3, <1>5, <1>6, <1>7, <1>8, ZenonT(30)
  DEF Next, ToolStep, Claim, Yield, Finish, Crash, SecondApprovalRefused, VerifyClaim, CheckResult,
      PersistResult, Fail, Succeed, ClaimLost, ExecuteTool, Propose, LeaseExpires, runVars, history

\* With resolutions one at a time, any number of workers that crash and lose
\* their leases takes approvals and invocations through the transitions of their
\* classes only: the transactions around a tool implement Lifecycle.
THEOREM ToolsKeepTheirLifecycle ==
  ASSUME ResolvedOneByOne
  PROVE  Spec => ToolsFollow
<1> DEFINE IInv == GrantInv /\ RowsInv /\ ApprovedInv /\ RunningInv /\ ResolutionInv
<1>1. Init => RunningInv /\ ResolutionInv
  BY SMT DEF Init, RunningInv, ResolutionInv, HasInvocation, IdleSession, ResolveOps
<1>2. ASSUME GrantInv, RowsInv, ApprovedInv, RunningInv, ResolutionInv, [Next]_vars
      PROVE  RunningInv' /\ ResolutionInv'
  <2>1. CASE Next
    BY <1>2, <2>1, InvocationsMove, ResolutionNext
  <2>2. CASE UNCHANGED vars
    BY <1>2, <2>2 DEF vars, runVars, workerVars, history, RunningInv, ResolutionInv, Pending
  <2>3. QED BY <1>2, <2>1, <2>2
<1>3. Spec => []IInv
  BY <1>1, <1>2, ApprovedInvariant, PTL DEF Spec
<1>4. Init => ApprovalRows!Init /\ InvocationRows!Init
  BY SMT DEF Init, Phase, ApprovalRows!Init, InvocationRows!Init
<1>5. ASSUME IInv, IInv', [Next]_vars PROVE ApprovalRows!Next /\ InvocationRows!Next
  <2>1. CASE Next
    <3>1. ApprovalRows!Next
      BY <1>5, <2>1, ApprovalsMove, ApprovalMovesAllowed DEF ResolutionInv
    <3>2. \A i \in Invocations : InvocationMoves(inv[i], inv'[i])
      BY <1>5, <2>1, InvocationsMove
    <3>3. \A i \in Invocations : InvocationRows!Allowed(inv[i].status, inv'[i].status)
      BY <3>2 DEF InvocationMoves, OpenInvocation, InvocationRows!Allowed, InvocationRows!Moves,
                  InvocationRows!First, InvocationRows!InvocationMoves, InvocationRows!Ends
    <3>4. QED BY <3>1, <3>3 DEF InvocationRows!Next
  <2>2. CASE UNCHANGED vars
    BY <2>2 DEF vars, runVars, ApprovalRows!Next, InvocationRows!Next, ApprovalRows!Allowed,
                InvocationRows!Allowed
  <2>3. QED BY <1>5, <2>1, <2>2
<1>6. QED
  BY <1>3, <1>4, <1>5, PTL DEF Spec, ToolsFollow, ApprovalRows!Spec, InvocationRows!Spec
=============================================================================
