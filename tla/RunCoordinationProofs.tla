----------------------- MODULE RunCoordinationProofs -----------------------
(***************************************************************************)
(* Proofs about RunCoordination, for any number of workers, worker ids,    *)
(* sessions, Runs, approvals, attempts and faults: types and the queue;    *)
(* the claim fence, the backing of parked Runs and the refinement of       *)
(* Lifecycle; and the lineages, the attempts that retries create one after *)
(* the other under one execution_id.                                       *)
(***************************************************************************)
EXTENDS RunCoordination, Integers, TLAPS

\* Zenon is tried at every leaf; the leaves that need arithmetic, or more of
\* records and functions, cite SMT.
USE Zenon

\* The statements of the work queue turn rows into rows.
LEMMA ItemTyping ==
  ASSUME NEW it \in Item, NEW due \in BOOLEAN, NEW id \in WorkerIds, NEW tok \in Tokens
  PROVE  /\ NoItem \in Item
         /\ Unclaimed(it) \in Item
         /\ Enqueue(it, due) \in Item
         /\ TryClaim(it, id, tok) \in Item
         /\ Requeue(it, due) \in Item
         /\ [it EXCEPT !.live = FALSE] \in Item
         /\ [it EXCEPT !.due = TRUE] \in Item
<1>1. NoItem \in Item
  BY DEF Item, NoItem
<1>2. Unclaimed(it) \in Item /\ [it EXCEPT !.live = FALSE] \in Item /\ [it EXCEPT !.due = TRUE] \in Item
  BY Zenon DEF Item, Unclaimed
<1>3. Enqueue(it, due) \in Item
  BY Zenon DEF Item, Enqueue
<1>4. TryClaim(it, id, tok) \in Item
  <2>1. it.gen + 1 \in Nat
    BY SMT DEF Item
  <2>2. QED
    BY Zenon, <2>1 DEF Item, TryClaim
<1>5. Requeue(it, due) \in Item
  <2> DEFINE u == Unclaimed(it)
  <2>1. u \in Item
    BY <1>2
  <2>2. [u EXCEPT !.due = due] \in Item
    <3> HIDE DEF u
    <3>1. QED
      BY <2>1 DEF Item
  <2>3. QED
    BY <2>2 DEF Requeue
<1>6. QED
  BY <1>1, <1>2, <1>3, <1>4, <1>5

\* A fresh token is a token nobody uses.
LEMMA FreshTokenTyping ==
  ASSUME NEW tok \in FreshToken
  PROVE  tok \in Tokens \ TokensInUse
<1> DEFINE free == Tokens \ TokensInUse
<1>1. free # {} /\ tok = CHOOSE t \in free : TRUE
  BY DEF FreshToken
<1>2. QED
  BY <1>1

\* run_once returns, or its process ends: the worker's record is empty again.
LEMMA LeavesTyping ==
  ASSUME WorkersTypeOK, NEW w \in Workers, NEW to \in {"idle", "down"}, Leaves(w, to)
  PROVE  WorkersTypeOK'
<1>1. /\ pc' \in [Workers -> {"idle", "processing", "applying", "parked", "down"}]
      /\ out' \in [Workers -> Outcomes]
      /\ seen' \in [Workers -> RunStatus]
  BY DEF WorkersTypeOK, Leaves, Outcomes, RunStatus
<1>2. /\ claim' \in [Workers -> [run : 0 .. MaxRuns, token : Tokens \cup {Nobody}, gen : Nat]]
      /\ asked' \in [Workers -> 0 .. MaxApprovals]
  BY CoordinationAssumption, SMT DEF WorkersTypeOK, Leaves, NoClaim
<1>3. \A v \in Workers :
        /\ pc'[v] \in {"processing", "applying", "parked"} => claim'[v].run \in Runs
        /\ pc'[v] = "parked" => asked'[v] \in Approvals
  BY DEF WorkersTypeOK, Leaves
<1>4. QED
  BY <1>1, <1>2, <1>3 DEF WorkersTypeOK

\* A session that has committed or rolled back is idle again.
LEMMA ClosesTyping ==
  ASSUME SessionsTypeOK, NEW s \in Sessions, Closes(s)
  PROVE  SessionsTypeOK'
BY CoordinationAssumption, SMT DEF SessionsTypeOK, Closes, IdleSession, RunStatus, RunOps, ResolveOps, AllOps, TaskOps

\* A commit closes its session and keeps the record of stale commits.
LEMMA DoneTyping ==
  ASSUME SessionsTypeOK, NEW s \in Sessions, Done(s)
  PROVE  SessionsTypeOK' /\ overtaken' \in BOOLEAN
BY ClosesTyping DEF Done

\* The state after CreateTask is well typed.
LEMMA TypeInit == Init => TypeOK
<1> SUFFICES ASSUME Init PROVE TypeOK
  OBVIOUS
<1>1. RunsTypeOK
  BY CoordinationAssumption, SMT DEF Init, RunsTypeOK, TaskStatus, RunStatus, NoItem, Item, Approvals
<1>2. WorkersTypeOK
  BY CoordinationAssumption, SMT DEF Init, WorkersTypeOK, NoClaim, Outcomes, RunStatus
<1>3. SessionsTypeOK
  BY CoordinationAssumption, SMT DEF Init, SessionsTypeOK, IdleSession, RunStatus, RunOps, ResolveOps
<1>4. QED
  BY <1>1, <1>2, <1>3, CoordinationAssumption DEF Init, TypeOK

\* A step that leaves a group of variables alone keeps the group's types.
LEMMA UnchangedTyping ==
  ASSUME TypeOK
  PROVE  /\ UNCHANGED runVars => RunsTypeOK'
         /\ UNCHANGED workerVars => WorkersTypeOK'
         /\ UNCHANGED sess => SessionsTypeOK'
BY DEF TypeOK, RunsTypeOK, WorkersTypeOK, SessionsTypeOK, runVars, workerVars

\* Saving a status, a wait marker and a row of one Run.
LEMMA SaveTyping ==
  ASSUME RunsTypeOK, UNCHANGED <<task, exec, appr>>,
         status' \in [Runs -> RunStatus],
         waits' \in [Runs -> 0 .. MaxApprovals],
         item' \in [Runs -> Item]
  PROVE  RunsTypeOK'
BY DEF RunsTypeOK

\* A wait marker is an approval or NULL.
LEMMA WaitsTyping ==
  ASSUME waits \in [Runs -> 0 .. MaxApprovals], NEW q, NEW a \in {0} \cup Approvals,
         waits' = [waits EXCEPT ![q] = a]
  PROVE  waits' \in [Runs -> 0 .. MaxApprovals]
<1>1. a \in 0 .. MaxApprovals
  BY CoordinationAssumption, SMT DEF Approvals
<1>2. QED
  BY Zenon, <1>1

\* Faults stay within their bound.
LEMMA FaultTyping ==
  ASSUME TypeOK, Fault
  PROVE  faults' \in 0 .. MaxFaults
BY CoordinationAssumption, SMT DEF TypeOK, Fault

\* The worker loop keeps the types.
LEMMA WorkerTyping ==
  ASSUME TypeOK, NEW w \in Workers, WorkerStep(w)
  PROVE  TypeOK'
<1> USE DEF TypeOK
<1> DEFINE r == claim[w].run
<1>a. NoItem \in Item
  BY DEF NoItem, Item
<1>b. CASE ClaimNextRun(w)
  <2>1. PICK q \in Runs, stale \in SUBSET StaleRows, tok \in FreshToken : ClaimRun(w, q, stale, tok)
    BY <1>b DEF ClaimNextRun
  <2>2. tok \in Tokens /\ IdOf[w] \in WorkerIds /\ item[q] \in Item
    BY FreshTokenTyping, CoordinationAssumption DEF RunsTypeOK
  <2>3. TryClaim(item[q], IdOf[w], tok) \in Item
    BY Zenon, <2>2, ItemTyping
  <2>4. item' \in [Runs -> Item]
    BY <2>1, <2>3, <1>a DEF ClaimRun, RunsTypeOK
  <2>5. RunsTypeOK'
    <3>1. status' \in [Runs -> RunStatus]
      BY <2>1 DEF ClaimRun, RunsTypeOK, RunStatus, LiveRun
    <3>2. QED
      BY <3>1, <2>4, <2>1, SaveTyping DEF ClaimRun, RunsTypeOK
  <2>6. WorkersTypeOK'
    <3>1. [run |-> q, token |-> tok, gen |-> item[q].gen + 1]
            \in [run : 0 .. MaxRuns, token : Tokens \cup {Nobody}, gen : Nat]
      BY <2>2, CoordinationAssumption, SMT DEF Item, Runs
    <3>2. QED
      BY <3>1, <2>1 DEF ClaimRun, WorkersTypeOK
  <2>7. SessionsTypeOK'
    BY <2>1, UnchangedTyping DEF ClaimRun
  <2>8. QED
    BY <2>1, <2>5, <2>6, <2>7 DEF ClaimRun
<1>c. CASE DropStaleItems(w)
  <2>1. item' \in [Runs -> Item]
    BY <1>c, <1>a DEF DropStaleItems, RunsTypeOK
  <2>2. RunsTypeOK'
    BY <2>1, <1>c, SaveTyping DEF DropStaleItems, RunsTypeOK
  <2>3. QED
    BY <2>2, <1>c, UnchangedTyping DEF DropStaleItems
<1>d. ASSUME NEW outcome \in Outcomes \ {"none"}, Decide(w, outcome) PROVE TypeOK'
  <2>1. r \in Runs /\ status[r] \in RunStatus
    BY <1>d DEF Decide, WorkersTypeOK, RunsTypeOK
  <2>2. WorkersTypeOK'
    BY <1>d, <2>1 DEF Decide, WorkersTypeOK
  <2>3. faults' \in 0 .. MaxFaults
    BY <1>d, FaultTyping DEF Decide
  <2>4. RunsTypeOK' /\ SessionsTypeOK'
    BY <1>d, UnchangedTyping DEF Decide
  <2>5. QED
    BY <2>2, <2>3, <2>4, <1>d DEF Decide
<1>e. CASE SucceedConflict(w)
  BY <1>e, LeavesTyping, FaultTyping, UnchangedTyping DEF SucceedConflict
<1>f. CASE OutcomeRejected(w)
  BY <1>f, LeavesTyping, FaultTyping, UnchangedTyping DEF OutcomeRejected
<1>g. CASE WaitingRejected(w)
  BY <1>g, LeavesTyping, FaultTyping, UnchangedTyping DEF WaitingRejected
<1>h. CASE HeartbeatFailed(w)
  BY <1>h, LeavesTyping, FaultTyping, UnchangedTyping DEF HeartbeatFailed
<1>i. CASE Crash(w)
  BY <1>i, LeavesTyping, FaultTyping, UnchangedTyping DEF Crash
<1>j. CASE OutcomeFenced(w)
  BY <1>j, LeavesTyping, UnchangedTyping DEF OutcomeFenced
<1>k. CASE HeartbeatLost(w)
  BY <1>k, LeavesTyping, UnchangedTyping DEF HeartbeatLost
<1>l. CASE ApplySucceeded(w)
  <2>1. RunsTypeOK'
    <3>1. item' \in [Runs -> Item]
      BY Zenon, <1>l, <1>a DEF ApplySucceeded, RunsTypeOK
    <3>2. status' \in [Runs -> RunStatus]
      BY Zenon, <1>l DEF ApplySucceeded, RunsTypeOK, RunStatus, TerminalRun
    <3>3. waits' \in [Runs -> 0 .. MaxApprovals]
      BY Zenon, <1>l, WaitsTyping DEF ApplySucceeded, RunsTypeOK
    <3>4. QED
      BY <3>1, <3>2, <3>3, <1>l, SaveTyping DEF ApplySucceeded
  <2>2. QED
    BY <2>1, <1>l, LeavesTyping, UnchangedTyping DEF ApplySucceeded
<1>m. CASE ApplyFailed(w)
  <2>1. r \in Runs /\ "failed" \in RunStatus /\ "queued" \in RunStatus
    BY <1>m DEF ApplyFailed, WorkersTypeOK, RunStatus, TerminalRun, LiveRun
  <2>2. waits' \in [Runs -> 0 .. MaxApprovals]
    BY Zenon, <1>m, WaitsTyping DEF ApplyFailed, RunsTypeOK
  <2>3. item' \in [Runs -> Item] /\ status' \in [Runs -> RunStatus] /\ exec' \in [Runs -> 0 .. MaxRuns]
    <3>1. CASE RetryAllowed(r, out[w])
      <4>1. PICK n \in Runs :
              /\ status' = [status EXCEPT ![r] = "failed", ![n] = "queued"]
              /\ exec' = [exec EXCEPT ![n] = exec[r]]
              /\ item' = [item EXCEPT ![r] = NoItem, ![n] = Enqueue(@, FALSE)]
        BY Zenon, <1>m, <3>1 DEF ApplyFailed, Fresh
      <4>2. Enqueue(item[n], FALSE) \in Item /\ Enqueue(NoItem, FALSE) \in Item
        BY Zenon, <1>a DEF RunsTypeOK, Item, Enqueue
      <4>3. item' \in [Runs -> Item]
        BY Zenon, <4>1, <4>2, <2>1, <1>a DEF RunsTypeOK
      <4>4. status' \in [Runs -> RunStatus] /\ exec' \in [Runs -> 0 .. MaxRuns]
        BY <4>1, <2>1 DEF RunsTypeOK
      <4>5. QED
        BY <4>3, <4>4
    <3>2. CASE ~RetryAllowed(r, out[w])
      BY <1>m, <3>2, <2>1, <1>a DEF ApplyFailed, RunsTypeOK
    <3>3. QED
      BY <3>1, <3>2
  <2>4. RunsTypeOK'
    BY <2>2, <2>3, <1>m DEF ApplyFailed, RunsTypeOK
  <2>5. QED
    BY <2>4, <1>m, LeavesTyping, UnchangedTyping DEF ApplyFailed
<1>n. CASE RequeueClaimedRun(w)
  <2>0. r \in Runs /\ item[r] \in Item
    BY <1>n DEF RequeueClaimedRun, WorkersTypeOK, RunsTypeOK
  <2>1. Requeue(item[r], TRUE) \in Item
    BY Zenon, <2>0 DEF Item, Requeue, Unclaimed
  <2>2. item' \in [Runs -> Item]
    BY Zenon, <1>n, <2>0, <2>1 DEF RequeueClaimedRun, RunsTypeOK
  <2>3. RunsTypeOK'
    BY Zenon, <2>2, <1>n DEF RequeueClaimedRun, RunsTypeOK
  <2>4. QED
    BY <2>3, <1>n, LeavesTyping, UnchangedTyping DEF RequeueClaimedRun
<1>o. CASE RequestToolApproval(w)
  <2>0. r \in Runs
    BY <1>o DEF RequestToolApproval, WorkersTypeOK
  <2>1. PICK a \in Approvals :
          /\ appr' = [appr EXCEPT ![a] = [run |-> r, status |-> "pending", deadline |-> FALSE]]
          /\ waits' = [waits EXCEPT ![r] = a]
          /\ asked' = [asked EXCEPT ![w] = a]
    BY Zenon, <1>o DEF RequestToolApproval, FreshApproval
  <2>2. item' \in [Runs -> Item]
    BY Zenon, <1>o, <1>a DEF RequestToolApproval, RunsTypeOK
  <2>3. status' \in [Runs -> RunStatus]
    BY Zenon, <1>o DEF RequestToolApproval, RunsTypeOK, RunStatus, LiveRun
  <2>7. waits' \in [Runs -> 0 .. MaxApprovals]
    BY Zenon, <2>1, WaitsTyping DEF RunsTypeOK
  <2>4. RunsTypeOK'
    BY <1>o, <2>0, <2>1, <2>2, <2>3, <2>7, SMT DEF RequestToolApproval, RunsTypeOK, Runs
  <2>5. WorkersTypeOK'
    BY <1>o, <2>0, <2>1, SMT DEF RequestToolApproval, WorkersTypeOK, Approvals
  <2>6. QED
    BY <2>4, <2>5, <1>o, UnchangedTyping DEF RequestToolApproval
<1>p. CASE ApplyWaiting(w)
  <2>1. item' \in [Runs -> Item]
    BY Zenon, <1>p, <1>a DEF ApplyWaiting, RunsTypeOK
  <2>2. RunsTypeOK'
    BY <2>1, <1>p DEF ApplyWaiting, RunsTypeOK
  <2>3. QED
    BY <2>2, <1>p, LeavesTyping, UnchangedTyping DEF ApplyWaiting
<1>q. CASE Restart(w)
  <2>1. WorkersTypeOK'
    BY <1>q DEF Restart, WorkersTypeOK
  <2>2. QED
    BY <2>1, <1>q, UnchangedTyping DEF Restart
<1>z. QED
  BY <1>b, <1>c, <1>d, <1>e, <1>f, <1>g, <1>h, <1>i, <1>j, <1>k, <1>l, <1>m, <1>n, <1>o, <1>p, <1>q
     DEF WorkerStep, WorkerProgress
\* Passing time and the maintenance tick keep the types.
LEMMA TimeTyping ==
  ASSUME TypeOK, TimeStep
  PROVE  TypeOK'
<1> USE DEF TypeOK
<1>1. ASSUME NEW r \in Runs, LeaseEnds(r) PROVE RunsTypeOK' /\ WorkersTypeOK' /\ SessionsTypeOK'
  <2>1. item \in [Runs -> Item] /\ [item[r] EXCEPT !.live = FALSE] \in Item
    BY Zenon DEF RunsTypeOK, Item
  <2>2. item' = [item EXCEPT ![r] = [item[r] EXCEPT !.live = FALSE]]
    BY <1>1 DEF LeaseEnds
  <2>4. item' \in [Runs -> Item]
    BY <2>1, <2>2
  <2>3. QED
    BY <1>1, <2>4, UnchangedTyping DEF LeaseEnds, RunsTypeOK
<1>2. ASSUME NEW r \in Runs, LeaseLapses(r) PROVE TypeOK'
  BY Zenon, <1>2, <1>1 DEF LeaseLapses, LeaseEnds
<1>3. ASSUME NEW r \in Runs, LeaseStalls(r) PROVE TypeOK'
  BY Zenon, <1>3, <1>1, FaultTyping DEF LeaseStalls, LeaseEnds
<1>4. ASSUME NEW r \in Runs, BackoffElapses(r) PROVE TypeOK'
  <2>1. item \in [Runs -> Item] /\ [item[r] EXCEPT !.due = TRUE] \in Item
    BY Zenon DEF RunsTypeOK, Item
  <2>2. item' = [item EXCEPT ![r] = [item[r] EXCEPT !.due = TRUE]]
    BY <1>4 DEF BackoffElapses
  <2>4. item' \in [Runs -> Item]
    BY <2>1, <2>2
  <2>3. QED
    BY <1>4, <2>4, UnchangedTyping DEF BackoffElapses, RunsTypeOK
<1>5. CASE RecoverExpiredLeases
  <2>0. \A r \in Runs : item[r] \in Item
    BY DEF RunsTypeOK
  <2>1. \A r \in Runs : Unclaimed(item[r]) \in Item /\ NoItem \in Item
    <3>1. NoItem \in Item
      BY DEF NoItem, Item
    <3>2. \A it \in Item : Unclaimed(it) \in Item
      BY Zenon DEF Unclaimed, Item
    <3>3. QED
      BY <2>0, <3>1, <3>2
  <2>2. item' \in [Runs -> Item]
    BY <1>5, <2>1, SMT DEF RecoverExpiredLeases, RunsTypeOK
  <2>3. QED
    BY <1>5, <2>2, UnchangedTyping DEF RecoverExpiredLeases, RunsTypeOK
<1>6. QED
  BY <1>2, <1>3, <1>4, <1>5 DEF TimeStep

\* Loading a command keeps the types.
LEMMA LoadTyping ==
  ASSUME TypeOK, NEW s \in Sessions, Load(s)
  PROVE  TypeOK'
<1> USE DEF TypeOK
<1> DEFINE Loaded == [op : {"none"} \cup Ops, run : 0 .. MaxRuns, appr : 0 .. MaxApprovals,
                      seen : RunStatus, wait : 0 .. MaxApprovals, task : {"none"} \cup TaskStatus]
<1>1. ASSUME NEW new \in Loaded, sess' = [sess EXCEPT ![s] = new],
             new.op \in RunOps \cup ResolveOps => new.run \in Runs,
             new.op \in ResolveOps => new.appr \in Approvals
      PROVE  SessionsTypeOK'
  BY <1>1 DEF SessionsTypeOK
<1>2. 0 \in 0 .. MaxRuns /\ 0 \in 0 .. MaxApprovals /\ "none" \in RunStatus /\ Runs \subseteq 0 .. MaxRuns
      /\ Approvals \subseteq 0 .. MaxApprovals
  BY CoordinationAssumption, SMT DEF RunStatus, Runs, Approvals
<1>3. ASSUME NEW op \in Ops, NEW r \in Runs, LoadRun(s, op, r) PROVE TypeOK'
  <2> DEFINE new == [IdleSession EXCEPT !.op = op, !.run = r]
  <2>1. new \in Loaded /\ new.run \in Runs /\ new.op \notin ResolveOps
    BY Zenon, <1>2, <1>3 DEF IdleSession, LoadRun, RunOps, ResolveOps
  <2>2. SessionsTypeOK'
    BY Zenon, <2>1, <1>1, <1>3 DEF LoadRun
  <2>3. QED
    BY <2>2, <1>3, UnchangedTyping DEF LoadRun
<1>4. ASSUME NEW op \in Ops, NEW a \in Approvals, LoadApproval(s, op, a) PROVE TypeOK'
  <2> DEFINE r == appr[a].run
             new == [IdleSession EXCEPT !.op = op, !.run = r, !.appr = a, !.seen = status[r], !.wait = waits[r]]
  <2>1. r \in Runs /\ status[r] \in RunStatus /\ waits[r] \in 0 .. MaxApprovals
    BY <1>4 DEF LoadApproval, RunsTypeOK
  <2>2. new \in Loaded /\ new.run \in Runs /\ new.appr \in Approvals
    BY Zenon, <1>2, <2>1 DEF IdleSession
  <2>3. SessionsTypeOK'
    BY Zenon, <2>2, <1>1, <1>4 DEF LoadApproval
  <2>4. QED
    BY <2>3, <1>4, UnchangedTyping DEF LoadApproval
<1>5. ASSUME NEW op \in Ops, LoadTask(s, op) PROVE TypeOK'
  <2> DEFINE new == [IdleSession EXCEPT !.op = op, !.task = IF op = "startRun" THEN task ELSE "none"]
  <2>1. new \in Loaded /\ new.op \notin RunOps \cup ResolveOps
    BY Zenon, <1>2, <1>5 DEF IdleSession, LoadTask, RunOps, ResolveOps, TaskOps, RunsTypeOK
  <2>2. SessionsTypeOK'
    BY Zenon, <2>1, <1>1, <1>5 DEF LoadTask
  <2>3. QED
    BY <2>2, <1>5, UnchangedTyping DEF LoadTask
<1>6. CASE ReloadRun(s)
  <2> DEFINE r == sess[s].run
  <2>1. r \in Runs /\ status[r] \in RunStatus /\ waits[r] \in 0 .. MaxApprovals
    BY <1>6 DEF ReloadRun, SessionsTypeOK, RunsTypeOK
  <2>2. SessionsTypeOK'
    BY Zenon, <2>1, <1>6 DEF ReloadRun, SessionsTypeOK
  <2>3. QED
    BY <2>2, <1>6, UnchangedTyping DEF ReloadRun
<1>7. QED
  BY <1>3, <1>4, <1>5, <1>6 DEF Load
\* Creating a Run with its row.
LEMMA CreateTyping ==
  ASSUME RunsTypeOK, NEW n \in Runs, NEW e \in 0 .. MaxRuns, NEW due \in BOOLEAN,
         status' = [status EXCEPT ![n] = "queued"],
         exec' = [exec EXCEPT ![n] = e],
         item' = [item EXCEPT ![n] = Enqueue(@, due)],
         task' \in TaskStatus, UNCHANGED <<waits, appr>>
  PROVE  RunsTypeOK'
<1>1. item \in [Runs -> Item] /\ Enqueue(item[n], due) \in Item
  BY Zenon DEF RunsTypeOK, Item, Enqueue
<1>2. item' \in [Runs -> Item]
  BY <1>1
<1>3. status' \in [Runs -> RunStatus] /\ exec' \in [Runs -> 0 .. MaxRuns]
  BY DEF RunsTypeOK, RunStatus, LiveRun
<1>4. QED
  BY <1>2, <1>3 DEF RunsTypeOK

\* Committing a command keeps the types.
LEMMA CommitTyping ==
  ASSUME TypeOK, NEW s \in Sessions, Commit(s)
  PROVE  TypeOK'
<1> USE DEF TypeOK
<1> DEFINE r == sess[s].run
           a == sess[s].appr
<1>a. NoItem \in Item
  BY DEF NoItem, Item
<1>b. sess[s].op \in RunOps \cup ResolveOps => r \in Runs
  BY DEF SessionsTypeOK
<1>c. \A t \in RunStatus : [status EXCEPT ![r] = t] \in [Runs -> RunStatus]
  BY Zenon DEF RunsTypeOK
<1>d. {"queued", "running", "waiting_for_approval", "succeeded", "failed", "cancelled"} \subseteq RunStatus
  BY DEF RunStatus, LiveRun, TerminalRun
<1>e. item \in [Runs -> Item] /\ [item EXCEPT ![r] = NoItem] \in [Runs -> Item]
  BY Zenon, <1>a DEF RunsTypeOK
<1>1. CASE StartRun(s)
  <2>1. PICK n \in Runs : /\ status' = [status EXCEPT ![n] = "queued"]
                         /\ exec' = [exec EXCEPT ![n] = n]
                         /\ item' = [item EXCEPT ![n] = Enqueue(@, TRUE)]
    BY Zenon, <1>1 DEF StartRun, Fresh
  <2>2. task' \in TaskStatus
    BY <1>1 DEF StartRun, RunsTypeOK, TaskStatus
  <2>3. RunsTypeOK'
    <3>1. n \in 0 .. MaxRuns
      BY CoordinationAssumption, SMT DEF Runs
    <3>2. QED
      BY Zenon, <2>1, <2>2, <3>1, <1>1, CreateTyping DEF StartRun
  <2>4. QED
    BY <2>3, <1>1, DoneTyping, UnchangedTyping DEF StartRun
<1>2. CASE StartQueuedRun(s)
  <2>1. waits' \in [Runs -> 0 .. MaxApprovals]
    BY Zenon, <1>2, WaitsTyping DEF StartQueuedRun, RunsTypeOK
  <2>2. RunsTypeOK'
    BY Zenon, <2>1, <1>2, <1>c, <1>d, <1>e, SaveTyping DEF StartQueuedRun
  <2>3. QED
    BY <2>2, <1>2, DoneTyping, UnchangedTyping DEF StartQueuedRun
<1>3. ASSUME NEW op, NEW target \in {"succeeded", "failed"}, EndRun(s, op, target) PROVE TypeOK'
  <2>1. waits' \in [Runs -> 0 .. MaxApprovals]
    BY Zenon, <1>3, WaitsTyping DEF EndRun, RunsTypeOK
  <2>2. RunsTypeOK'
    BY <2>1, <1>3, <1>c, <1>d, <1>e, SaveTyping DEF EndRun
  <2>3. QED
    BY <2>2, <1>3, DoneTyping, UnchangedTyping DEF EndRun
<1>4. CASE CancelRun(s)
  <2>1. waits' \in [Runs -> 0 .. MaxApprovals]
    BY Zenon, <1>4, WaitsTyping DEF CancelRun, RunsTypeOK
  <2>2. status' \in [Runs -> RunStatus] /\ item' \in [Runs -> Item]
    BY <1>4, <1>c, <1>d, <1>e DEF CancelRun
  <2>3. appr' \in [Approvals -> [run : 0 .. MaxRuns, status : {"none", "pending"} \cup TerminalApproval,
                                 deadline : BOOLEAN]]
    BY <1>4 DEF CancelRun, RunsTypeOK, TerminalApproval
  <2>4. \A b \in Approvals : appr'[b].status = "pending" => appr'[b].run \in Runs
    BY <1>4 DEF CancelRun, RunsTypeOK, PendingFor
  <2>5. RunsTypeOK'
    BY <2>1, <2>2, <2>3, <2>4, <1>4 DEF CancelRun, RunsTypeOK
  <2>6. QED
    BY <2>5, <1>4, DoneTyping, UnchangedTyping DEF CancelRun
<1>5. CASE RetryFailedRun(s)
  <2>1. PICK n \in Runs : /\ status' = [status EXCEPT ![n] = "queued"]
                         /\ exec' = [exec EXCEPT ![n] = exec[r]]
                         /\ item' = [item EXCEPT ![n] = Enqueue(@, TRUE)]
    BY Zenon, <1>5 DEF RetryFailedRun, Fresh
  <2>2. exec[r] \in 0 .. MaxRuns
    BY <1>5, <1>b DEF RetryFailedRun, RunOps, RunsTypeOK
  <2>3. RunsTypeOK'
    BY Zenon, <2>1, <2>2, <1>5, CreateTyping DEF RetryFailedRun, RunsTypeOK
  <2>4. QED
    BY <2>3, <1>5, DoneTyping, UnchangedTyping DEF RetryFailedRun
<1>6. CASE RequestApproval(s)
  <2>1. PICK b \in Approvals, deadline \in BOOLEAN :
          /\ appr' = [appr EXCEPT ![b] = [run |-> r, status |-> "pending", deadline |-> deadline]]
          /\ waits' = [waits EXCEPT ![r] = b]
    BY Zenon, <1>6 DEF RequestApproval, FreshApproval
  <2>2. r \in Runs /\ r \in 0 .. MaxRuns
    BY <1>6, <1>b, CoordinationAssumption, SMT DEF RequestApproval, RunOps, Runs
  <2>3. waits' \in [Runs -> 0 .. MaxApprovals]
    BY Zenon, <2>1, WaitsTyping DEF RunsTypeOK
  <2>4. status' \in [Runs -> RunStatus] /\ item' \in [Runs -> Item]
    BY <1>6, <1>c, <1>d, <1>e DEF RequestApproval
  <2>5. RunsTypeOK'
    BY <1>6, <2>1, <2>2, <2>3, <2>4 DEF RequestApproval, RunsTypeOK
  <2>6. QED
    BY Zenon, <2>5, <1>6, DoneTyping, UnchangedTyping DEF RequestApproval
<1>7. ASSUME NEW op \in ResolveOps, NEW target \in TerminalApproval, ResolveApproval(s, op, target)
      PROVE TypeOK'
  <2>1. r \in Runs
    BY <1>7, <1>b DEF ResolveApproval
  <2>2. appr' \in [Approvals -> [run : 0 .. MaxRuns, status : {"none", "pending"} \cup TerminalApproval,
                                 deadline : BOOLEAN]]
    BY Zenon, <1>7 DEF ResolveApproval, RunsTypeOK
  <2>3. \A b \in Approvals : appr'[b].status = "pending" => appr'[b].run \in Runs
    BY <1>7, SMT DEF ResolveApproval, RunsTypeOK, TerminalApproval
  <2>4. status' \in [Runs -> RunStatus] /\ waits' \in [Runs -> 0 .. MaxApprovals] /\ item' \in [Runs -> Item]
    <3>1. CASE Resumes(s)
      <4>1. waits' \in [Runs -> 0 .. MaxApprovals]
        <5>1. waits' = [waits EXCEPT ![r] = 0]
          BY <1>7, <3>1 DEF ResolveApproval
        <5>2. QED
          BY Zenon, <5>1, WaitsTyping DEF RunsTypeOK
      <4>2. Enqueue(item[r], TRUE) \in Item
        <5>1. item[r] \in Item
          BY <2>1, <1>e
        <5>2. QED
          BY Zenon, <5>1 DEF Enqueue, Item
      <4>3. item' \in [Runs -> Item]
        <5>1. item' = [item EXCEPT ![r] = Enqueue(item[r], TRUE)]
          BY Zenon, <1>7, <3>1 DEF ResolveApproval
        <5>2. QED
          BY Zenon, <5>1, <4>2, <1>e
      <4>4. QED
        BY <1>7, <3>1, <4>1, <4>3, <1>c, <1>d DEF ResolveApproval
    <3>2. CASE ~Resumes(s)
      BY <1>7, <3>2 DEF ResolveApproval, RunsTypeOK
    <3>3. QED
      BY <3>1, <3>2
  <2>5. RunsTypeOK'
    BY <1>7, <2>2, <2>3, <2>4 DEF ResolveApproval, RunsTypeOK
  <2>6. QED
    BY <2>5, <1>7, DoneTyping, UnchangedTyping DEF ResolveApproval
<1>8. CASE CancelTask(s)
  <2>1. status' \in [Runs -> RunStatus]
    BY <1>8, <1>d DEF CancelTask, RunsTypeOK
  <2>2. waits' \in [Runs -> 0 .. MaxApprovals]
    <3>1. 0 \in 0 .. MaxApprovals
      BY CoordinationAssumption, SMT
    <3>2. QED
      BY <1>8, <3>1 DEF CancelTask, RunsTypeOK
  <2>3. RunsTypeOK'
    BY <1>8, <2>1, <2>2 DEF CancelTask, RunsTypeOK, TaskStatus, TerminalTask
  <2>4. QED
    BY <2>3, <1>8, DoneTyping, UnchangedTyping DEF CancelTask
<1>9. ASSUME NEW op, NEW target \in TerminalTask, EndTask(s, op, target) PROVE TypeOK'
  <2>1. RunsTypeOK'
    BY <1>9 DEF EndTask, RunsTypeOK, TaskStatus
  <2>2. QED
    BY <2>1, <1>9, DoneTyping, UnchangedTyping DEF EndTask
<1>10. QED
  BY <1>1, <1>2, <1>3, <1>4, <1>5, <1>6, <1>7, <1>8, <1>9
     DEF Commit, ResolveOps, TerminalApproval, TerminalTask

\* Every step keeps the types.
LEMMA TypeNext == TypeOK /\ [Next]_vars => TypeOK'
<1> SUFFICES ASSUME TypeOK, [Next]_vars PROVE TypeOK'
  OBVIOUS
<1>1. ASSUME NEW w \in Workers, WorkerStep(w) PROVE TypeOK'
  BY <1>1, WorkerTyping
<1>2. CASE TimeStep
  BY <1>2, TimeTyping
<1>3. ASSUME NEW s \in Sessions, Load(s) \/ Commit(s) PROVE TypeOK'
  BY <1>3, LoadTyping, CommitTyping
<1>4. ASSUME NEW s \in Sessions, Abort(s) PROVE TypeOK'
  BY <1>4, ClosesTyping, UnchangedTyping DEF Abort, TypeOK
<1>5. CASE UNCHANGED vars
  BY <1>5, UnchangedTyping DEF vars, TypeOK
<1>6. QED
  BY <1>1, <1>2, <1>3, <1>4, <1>5 DEF Next

\* Type correctness of the coordination layer: claims, parked workers and loaded
\* commands always refer to Runs and approvals that exist.
THEOREM TypeCorrect == Spec => []TypeOK
<1>1. Init => TypeOK
  BY TypeInit
<1>2. TypeOK /\ [Next]_vars => TypeOK'
  BY TypeNext
<1>3. QED
  BY <1>1, <1>2, PTL DEF Spec
-----------------------------------------------------------------------------
(* The queue and the Runs agree *)

QueueInv == QueueCoherence /\ NoLostWork

\* Which rows the statements of the work queue leave present.
LEMMA Presence ==
  ASSUME NEW it \in Item, NEW due, NEW id, NEW tok
  PROVE  /\ ~NoItem.present
         /\ Enqueue(it, due).present
         /\ Unclaimed(it).present = it.present
         /\ TryClaim(it, id, tok).present = it.present
         /\ Requeue(it, due).present = it.present
         /\ [it EXCEPT !.live = FALSE].present = it.present
         /\ [it EXCEPT !.due = TRUE].present = it.present
<1>1. \A u \in Item : [u EXCEPT !.due = due].present = u.present
  BY DEF Item
<1>2. Unclaimed(it).present = it.present
  BY DEF Item, Unclaimed
<1>3. Requeue(it, due).present = it.present
  BY DEF Item, Unclaimed, Requeue
<1>4. QED
  BY <1>2, <1>3 DEF Item, NoItem, Enqueue, TryClaim

\* What a worker may have done to rows and Runs keeps them in agreement.
LEMMA WorkerKeepsQueue ==
  ASSUME TypeOK, QueueInv, NEW w \in Workers, WorkerStep(w)
  PROVE  QueueInv'
<1> DEFINE r == claim[w].run
<1> USE DEF QueueInv, QueueCoherence, NoLostWork, Runnable
<1>a. \A q \in Runs : item[q] \in Item
  BY DEF TypeOK, RunsTypeOK
<1>b. /\ item \in [Runs -> Item] /\ status \in [Runs -> RunStatus]
      /\ pc[w] \in {"processing", "applying", "parked"} => r \in Runs
  BY DEF TypeOK, RunsTypeOK, WorkersTypeOK
<1>1. CASE ClaimNextRun(w)
  <2>1. PICK q \in Runs, stale \in SUBSET StaleRows, tok \in FreshToken : ClaimRun(w, q, stale, tok)
    BY <1>1 DEF ClaimNextRun
  <2>2. item'[q].present /\ status'[q] = "running"
    BY <2>1, <1>a, <1>b, Presence DEF ClaimRun, Claimable
  <2>3. ASSUME NEW i \in Runs, i # q
        PROVE  status'[i] = status[i] /\ (item'[i] = item[i] \/ (i \in StaleRows /\ item'[i] = NoItem))
    BY <2>1, <2>3, <1>b DEF ClaimRun
  <2>4. QED
    BY <2>2, <2>3, Presence, SMT DEF StaleRows, NoItem
<1>2. CASE DropStaleItems(w)
  <2>1. ASSUME NEW i \in Runs
        PROVE  status'[i] = status[i] /\ (item'[i] = item[i] \/ (i \in StaleRows /\ item'[i] = NoItem))
    BY <1>2, <1>b DEF DropStaleItems
  <2>2. QED
    BY <2>1, SMT DEF StaleRows, NoItem
<1>3. CASE UNCHANGED <<status, item>>
  BY <1>3
<1>4. CASE ApplySucceeded(w)
  BY <1>4, <1>b DEF ApplySucceeded, NoItem
<1>5. CASE ApplyFailed(w)
  <2>1. r \in Runs
    BY <1>5, <1>b DEF ApplyFailed
  <2>2. CASE RetryAllowed(r, out[w])
    <3>1. PICK n \in Runs :
            /\ status' = [status EXCEPT ![r] = "failed", ![n] = "queued"]
            /\ item' = [item EXCEPT ![r] = NoItem, ![n] = Enqueue(@, FALSE)]
      BY Zenon, <1>5, <2>2 DEF ApplyFailed, Fresh
    <3>2. item'[n].present /\ status'[n] = "queued"
      BY <3>1, <1>a, <1>b, <2>1, Presence, SMT DEF NoItem, Enqueue
    <3>3. n # r => ~item'[r].present /\ status'[r] = "failed"
      BY <3>1, <1>b, <2>1 DEF NoItem
    <3>4. \A i \in Runs \ {n, r} : item'[i] = item[i] /\ status'[i] = status[i]
      BY Zenon, <3>1, <1>b
    <3>5. QED
      BY <3>2, <3>3, <3>4
  <2>3. CASE ~RetryAllowed(r, out[w])
    BY <1>5, <2>3, <1>b, SMT DEF ApplyFailed, NoItem
  <2>4. QED
    BY <2>2, <2>3
<1>6. CASE RequeueClaimedRun(w)
  <2>1. r \in Runs /\ Requeue(item[r], TRUE).present = item[r].present
    BY Zenon, <1>6, <1>a, <1>b, Presence DEF RequeueClaimedRun
  <2>2. QED
    BY Zenon, <1>6, <1>b, <2>1 DEF RequeueClaimedRun
<1>7. CASE RequestToolApproval(w)
  BY <1>7, <1>b DEF RequestToolApproval, NoItem
<1>8. CASE ApplyWaiting(w)
  BY <1>8, <1>b DEF ApplyWaiting, NoItem
<1>9. QED
  BY <1>1, <1>2, <1>3, <1>4, <1>5, <1>6, <1>7, <1>8
     DEF WorkerStep, WorkerProgress, runVars, Decide, SucceedConflict, OutcomeFenced, OutcomeRejected,
         WaitingRejected, HeartbeatLost, HeartbeatFailed, Crash, Restart

\* Neither the passing of time nor the maintenance tick disturbs the agreement.
LEMMA TimeKeepsQueue ==
  ASSUME TypeOK, QueueInv, TimeStep
  PROVE  QueueInv'
<1> USE DEF QueueInv, QueueCoherence, NoLostWork, Runnable
<1>a. item \in [Runs -> Item] /\ status' = status
  BY DEF TypeOK, RunsTypeOK, TimeStep, LeaseLapses, LeaseStalls, LeaseEnds, BackoffElapses,
         RecoverExpiredLeases
<1>1. ASSUME NEW r \in Runs, LeaseEnds(r) PROVE QueueInv'
  <2>1. \A q \in Runs : item'[q].present = item[q].present
    BY <1>1, <1>a DEF LeaseEnds, Item
  <2>2. QED
    BY <2>1, <1>a
<1>2. ASSUME NEW r \in Runs, BackoffElapses(r) PROVE QueueInv'
  <2>1. \A q \in Runs : item'[q].present = item[q].present
    BY <1>2, <1>a DEF BackoffElapses, Item
  <2>2. QED
    BY <2>1, <1>a
<1>3. CASE RecoverExpiredLeases
  <2>1. \A q \in Runs : item'[q] = item[q] \/ item'[q] = Unclaimed(item[q])
                          \/ (item'[q] = NoItem /\ ~Runnable(q))
    BY <1>3 DEF RecoverExpiredLeases
  <2>2. \A q \in Runs : Unclaimed(item[q]).present = item[q].present
    BY <1>a, SMT DEF Unclaimed, Item
  <2>3. QED
    BY <2>1, <2>2, <1>a, SMT DEF NoItem
<1>4. QED
  BY <1>1, <1>2, <1>3 DEF TimeStep, LeaseLapses, LeaseStalls

\* A command that creates a Run gives it its row.
LEMMA CreateKeepsQueue ==
  ASSUME TypeOK, QueueInv, NEW n \in Runs, NEW due \in BOOLEAN,
         status' = [status EXCEPT ![n] = "queued"],
         item' = [item EXCEPT ![n] = Enqueue(@, due)]
  PROVE  QueueInv'
<1>1. item \in [Runs -> Item] /\ status \in [Runs -> RunStatus]
  BY DEF TypeOK, RunsTypeOK
<1>2. item'[n].present /\ status'[n] = "queued"
  BY <1>1 DEF Enqueue, Item
<1>3. \A i \in Runs \ {n} : item'[i] = item[i] /\ status'[i] = status[i]
  BY <1>1
<1>4. QED
  BY <1>2, <1>3 DEF QueueInv, QueueCoherence, NoLostWork, Runnable

\* A command that ends or parks a Run takes its row away.
LEMMA EndKeepsQueue ==
  ASSUME TypeOK, QueueInv, NEW r \in Runs, NEW to \in TerminalRun \cup {"waiting_for_approval"},
         status' = [status EXCEPT ![r] = to],
         item' = [item EXCEPT ![r] = NoItem]
  PROVE  QueueInv'
<1>1. item \in [Runs -> Item] /\ status \in [Runs -> RunStatus]
  BY DEF TypeOK, RunsTypeOK
<1>2. QED
  BY <1>1 DEF QueueInv, QueueCoherence, NoLostWork, Runnable, NoItem, TerminalRun

\* The operator commands keep rows and Runs in agreement.
LEMMA CommitKeepsQueue ==
  ASSUME TypeOK, QueueInv, NEW s \in Sessions, Commit(s)
  PROVE  QueueInv'
<1> DEFINE r == sess[s].run
<1>a. /\ item \in [Runs -> Item] /\ status \in [Runs -> RunStatus]
      /\ sess[s].op \in {"none"} \cup Ops
      /\ sess[s].op \in RunOps \cup ResolveOps => r \in Runs
  BY DEF TypeOK, RunsTypeOK, SessionsTypeOK
<1>1. CASE StartRun(s)
  BY Zenon, <1>1, CreateKeepsQueue DEF StartRun, Fresh
<1>2. CASE RetryFailedRun(s)
  BY Zenon, <1>2, CreateKeepsQueue DEF RetryFailedRun, Fresh
<1>3. CASE StartQueuedRun(s)
  <2>1. r \in Runs /\ "startQueued" \in Ops
    BY <1>3, <1>a DEF StartQueuedRun, RunOps
  <2>2. QED
    BY <2>1, <1>3, <1>a DEF StartQueuedRun, QueueInv, QueueCoherence, NoLostWork, Runnable
<1>4. ASSUME NEW op \in {"complete", "fail"}, NEW to \in TerminalRun, EndRun(s, op, to)
      PROVE  QueueInv'
  <2>1. r \in Runs
    BY <1>4, <1>a DEF EndRun, RunOps
  <2>2. QED
    BY Zenon, <2>1, <1>4, EndKeepsQueue DEF EndRun
<1>5. CASE CancelRun(s)
  <2>1. r \in Runs
    BY <1>5, <1>a DEF CancelRun, RunOps
  <2>2. QED
    BY Zenon, <2>1, <1>5, EndKeepsQueue DEF CancelRun, TerminalRun
<1>6. CASE RequestApproval(s)
  <2>1. r \in Runs
    BY <1>6, <1>a DEF RequestApproval, RunOps
  <2>2. QED
    BY Zenon, <2>1, <1>6, EndKeepsQueue DEF RequestApproval
<1>7. ASSUME NEW op \in ResolveOps, NEW to, ResolveApproval(s, op, to) PROVE QueueInv'
  <2>1. r \in Runs
    BY <1>7, <1>a DEF ResolveApproval
  <2>2. CASE Resumes(s)
    <3>1. item' = [item EXCEPT ![r] = Enqueue(@, TRUE)] /\ status' = [status EXCEPT ![r] = "running"]
      BY Zenon, <1>7, <2>2 DEF ResolveApproval
    <3>2. item'[r].present /\ status'[r] = "running"
      BY <3>1, <2>1, <1>a DEF Enqueue, Item
    <3>3. \A i \in Runs \ {r} : item'[i] = item[i] /\ status'[i] = status[i]
      BY Zenon, <3>1, <1>a
    <3>4. QED
      BY <3>2, <3>3 DEF QueueInv, QueueCoherence, NoLostWork, Runnable
  <2>3. CASE ~Resumes(s)
    BY <1>7, <2>3 DEF ResolveApproval, QueueInv, QueueCoherence, NoLostWork, Runnable
  <2>4. QED
    BY <2>2, <2>3
<1>8. CASE CancelTask(s)
  <2>1. "cancelTask" \in Ops
    BY <1>8, <1>a DEF CancelTask
  <2>2. item' = item /\ \A i \in Runs : status'[i] \in {status[i], "cancelled"}
    BY <1>8 DEF CancelTask
  <2>3. QED
    BY <2>1, <2>2 DEF QueueInv, QueueCoherence, NoLostWork, Runnable
<1>9. CASE UNCHANGED <<status, item>>
  BY <1>9 DEF QueueInv, QueueCoherence, NoLostWork, Runnable
<1>10. QED
  BY <1>1, <1>2, <1>3, <1>4, <1>5, <1>6, <1>7, <1>8, <1>9
     DEF Commit, EndTask, ResolveOps, TerminalRun

\* Every step keeps rows and Runs in agreement.
LEMMA QueueNext == TypeOK /\ QueueInv /\ [Next]_vars => QueueInv'
<1> SUFFICES ASSUME TypeOK, QueueInv, [Next]_vars PROVE QueueInv'
  OBVIOUS
<1>1. CASE UNCHANGED <<status, item>>
  BY <1>1 DEF QueueInv, QueueCoherence, NoLostWork, Runnable
<1>2. ASSUME NEW s \in Sessions, Load(s) \/ Abort(s) PROVE UNCHANGED <<status, item>>
  BY Zenon, <1>2 DEF Load, LoadRun, LoadApproval, ReloadRun, LoadTask, Abort, runVars
<1>3. QED
  BY <1>1, <1>2, WorkerKeepsQueue, TimeKeepsQueue, CommitKeepsQueue DEF Next, vars, runVars

\* No interleaving of workers, recoveries and commands leaves a row for a Run
\* that has nothing left to run, apart from CancelTask's, and none loses the row
\* of a Run that has.
THEOREM QueueAndRunsAgree == Spec => [](QueueCoherence /\ NoLostWork)
<1>1. Init => QueueInv
  BY SMT DEF Init, QueueInv, QueueCoherence, NoLostWork, Runnable, NoItem
<1>2. QED
  BY <1>1, QueueNext, TypeCorrect, PTL DEF Spec, QueueInv

\* A queued or running Run keeps the row that will bring a worker to it, whatever
\* workers, lease recoveries and the operators' commands do in between
\* (StartQueuedRun, which gives a Run no row, excepted).
THEOREM NoWorkIsLost == Spec => []NoLostWork
<1>1. QED
  BY QueueAndRunsAgree, PTL

-----------------------------------------------------------------------------
(* Only the last claimer of a Run settles its row *)

Busy == {"processing", "applying", "parked"}

\* A claim that the fence accepts is the claim made last, and an absent row
\* carries no claim.
ClaimInv ==
  /\ \A r \in Runs : ~item[r].present => item[r].owner = Nobody
  /\ \A w \in Workers : pc[w] \in Busy /\ Holds(w) => latest[claim[w].run] = w

\* new grants no claim that old did not grant.
Ages(new, old) ==
  /\ ~new.present => new.owner = Nobody
  /\ \A id \in WorkerIds, tok \in Tokens \cup {Nobody}, gen \in Nat :
       ClaimActive(new, id, tok, gen) => ClaimActive(old, id, tok, gen)

\* No statement but try_claim grants a claim.
LEMMA RowAges ==
  ASSUME NEW it \in Item, ~it.present => it.owner = Nobody, NEW due \in BOOLEAN
  PROVE  /\ Ages(it, it)
         /\ Ages(NoItem, it)
         /\ Ages(Enqueue(it, due), it)
         /\ Ages(Enqueue(NoItem, due), it)
         /\ Ages(Unclaimed(it), it)
         /\ Ages(Requeue(it, due), it)
         /\ Ages([it EXCEPT !.live = FALSE], it)
         /\ Ages([it EXCEPT !.due = TRUE], it)
<1> USE NobodyAssumption DEF Ages, ClaimActive
<1>1. Ages(it, it) /\ Ages(NoItem, it)
  BY DEF NoItem
<1>2. Ages(Enqueue(it, due), it)
  BY DEF Enqueue, Item
<1>3. Ages(Enqueue(NoItem, due), it)
  BY DEF Enqueue, NoItem
<1>4. Ages(Unclaimed(it), it)
  BY DEF Unclaimed, Item
<1>5. Ages(Requeue(it, due), it)
  <2>1. Requeue(it, due).present = it.present /\ Requeue(it, due).owner = Nobody
    BY DEF Requeue, Unclaimed, Item
  <2>2. QED
    BY <2>1
<1>6. Ages([it EXCEPT !.live = FALSE], it) /\ Ages([it EXCEPT !.due = TRUE], it)
  BY DEF Item
<1>7. QED
  BY <1>1, <1>2, <1>3, <1>4, <1>5, <1>6

\* A step that grants no claim and starts no worker.
Aging ==
  /\ UNCHANGED latest
  /\ \A r \in Runs : Ages(item'[r], item[r])
  /\ \A w \in Workers : pc'[w] \in Busy => pc[w] \in Busy /\ claim'[w] = claim[w]

\* After such a step a worker only holds what it held before.
LEMMA AgingGrantsNothing ==
  ASSUME TypeOK, Aging, NEW w \in Workers, pc'[w] \in Busy, Holds(w)'
  PROVE  pc[w] \in Busy /\ claim'[w] = claim[w] /\ claim[w].run \in Runs /\ Holds(w)
<1>1. pc[w] \in Busy /\ claim'[w] = claim[w] /\ claim[w].run \in Runs
  BY DEF TypeOK, WorkersTypeOK, Busy, Aging
<1>2. IdOf[w] \in WorkerIds /\ claim[w].token \in Tokens \cup {Nobody} /\ claim[w].gen \in Nat
  BY CoordinationAssumption DEF TypeOK, WorkersTypeOK
<1>3. ClaimActive(item'[claim[w].run], IdOf[w], claim[w].token, claim[w].gen)
  BY <1>1 DEF Holds, ClaimActive
<1>4. QED
  BY <1>1, <1>2, <1>3 DEF Holds, Ages, Aging

\* It keeps ClaimInv.
LEMMA AgingKeepsClaims ==
  ASSUME TypeOK, ClaimInv, Aging
  PROVE  ClaimInv'
<1>1. \A r \in Runs : ~item'[r].present => item'[r].owner = Nobody
  BY DEF Ages, Aging
<1>2. ASSUME NEW w \in Workers, pc'[w] \in Busy, Holds(w)'
      PROVE  latest'[claim'[w].run] = w
  BY <1>2, AgingGrantsNothing DEF ClaimInv, Aging
<1>3. QED
  BY <1>1, <1>2 DEF ClaimInv

\* try_claim: the new token is nobody's, so every other claim on the Run is lost.
LEMMA ClaimKeepsClaims ==
  ASSUME TypeOK, ClaimInv, NEW w \in Workers, ClaimNextRun(w)
  PROVE  ClaimInv'
<1>1. PICK q \in Runs, stale \in SUBSET StaleRows, tok \in FreshToken : ClaimRun(w, q, stale, tok)
  BY DEF ClaimNextRun
<1>2. item \in [Runs -> Item] /\ claim \in [Workers -> [run : 0 .. MaxRuns, token : Tokens \cup {Nobody}, gen : Nat]]
      /\ pc \in [Workers -> {"idle", "processing", "applying", "parked", "down"}]
      /\ latest \in [Runs -> Workers \cup {Nobody}]
  BY DEF TypeOK, RunsTypeOK, WorkersTypeOK
<1>3. item'[q].token = tok /\ item'[q].present
  BY Zenon, <1>1, <1>2 DEF ClaimRun, TryClaim, Claimable, Item
<1>4. \A r \in Runs \ {q} : item'[r] = item[r] \/ item'[r] = NoItem
  BY <1>1 DEF ClaimRun
<1>5. \A r \in Runs : ~item'[r].present => item'[r].owner = Nobody
  BY <1>3, <1>4, SMT DEF ClaimInv, NoItem
<1>6. ASSUME NEW v \in Workers, pc'[v] \in Busy, Holds(v)', v # w
      PROVE  latest'[claim'[v].run] = v
  <2>1. pc[v] \in Busy /\ claim'[v] = claim[v] /\ claim[v].run \in Runs
    BY Zenon, <1>1, <1>2, <1>6 DEF ClaimRun, TypeOK, WorkersTypeOK, Busy
  <2>2. claim[v].run # q
    <3>1. tok \notin TokensInUse
      BY FreshTokenTyping
    <3>2. claim[v].token # tok
      BY <3>1 DEF TokensInUse
    <3>3. QED
      BY <3>2, <2>1, <1>6, <1>3 DEF Holds, ClaimActive
  <2>3. item'[claim[v].run] = item[claim[v].run]
    BY <2>1, <2>2, <1>4, <1>6, SMT DEF Holds, ClaimActive, NoItem
  <2>4. Holds(v)
    BY Zenon, <2>1, <2>3, <1>6 DEF Holds, ClaimActive
  <2>5. QED
    BY Zenon, <2>1, <2>2, <2>4, <1>1, <1>2 DEF ClaimInv, ClaimRun
<1>7. latest'[claim'[w].run] = w
  BY <1>1, <1>2 DEF ClaimRun
<1>8. QED
  BY <1>5, <1>6, <1>7 DEF ClaimInv

\* A worker that leaves run_once takes no claim along.
LEMMA LeavesDropsClaim ==
  ASSUME TypeOK, NEW w \in Workers, NEW to \in {"idle", "down"}, Leaves(w, to)
  PROVE  \A v \in Workers : pc'[v] \in Busy => pc[v] \in Busy /\ claim'[v] = claim[v]
BY DEF TypeOK, WorkersTypeOK, Leaves, Busy

\* What a worker does once it holds a claim only ever gives claims up.
LEMMA WorkersAge ==
  ASSUME TypeOK, ClaimInv, NEW w \in Workers, WorkerStep(w), ~ClaimNextRun(w)
  PROVE  Aging
<1> DEFINE r == claim[w].run
           Still == \A v \in Workers : pc'[v] \in Busy => pc[v] \in Busy /\ claim'[v] = claim[v]
           Older == \A q \in Runs : Ages(item'[q], item[q])
<1>a. /\ item \in [Runs -> Item] /\ \A q \in Runs : ~item[q].present => item[q].owner = Nobody
      /\ pc \in [Workers -> {"idle", "processing", "applying", "parked", "down"}]
      /\ pc[w] \in Busy => r \in Runs
  BY DEF TypeOK, RunsTypeOK, WorkersTypeOK, ClaimInv, Busy
<1>b. \A q \in Runs : /\ Ages(item[q], item[q]) /\ Ages(NoItem, item[q])
                       /\ Ages(Requeue(item[q], TRUE), item[q])
                       /\ Ages(Enqueue(item[q], FALSE), item[q])
                       /\ Ages(Enqueue(NoItem, FALSE), item[q])
  BY Zenon, <1>a, RowAges
<1>c. item' = item => Older
  BY Zenon, <1>b
<1>d. item' = [item EXCEPT ![r] = NoItem] => Older
  BY Zenon, <1>a, <1>b
<1>e. UNCHANGED claim /\ (\A v \in Workers : pc'[v] \in Busy => pc[v] \in Busy) => Still
  OBVIOUS
<1>2. CASE DropStaleItems(w)
  <2>1. Older
    BY Zenon, <1>2, <1>b DEF DropStaleItems
  <2>2. QED
    BY <2>1, <1>2 DEF Aging, DropStaleItems, workerVars
<1>3. ASSUME NEW outcome \in Outcomes \ {"none"}, Decide(w, outcome) PROVE Aging
  <2>1. Still
    BY <1>3, <1>a DEF Decide, Busy
  <2>2. QED
    BY <2>1, <1>c, <1>3 DEF Aging, Decide, runVars
<1>4. CASE \/ SucceedConflict(w) \/ OutcomeFenced(w) \/ OutcomeRejected(w) \/ WaitingRejected(w)
           \/ HeartbeatLost(w) \/ HeartbeatFailed(w) \/ Crash(w)
  <2>1. Still
    BY <1>4, LeavesDropsClaim
       DEF SucceedConflict, OutcomeFenced, OutcomeRejected, WaitingRejected, HeartbeatLost,
           HeartbeatFailed, Crash
  <2>2. item' = item /\ latest' = latest
    BY <1>4 DEF SucceedConflict, OutcomeFenced, OutcomeRejected, WaitingRejected, HeartbeatLost,
                HeartbeatFailed, Crash, runVars
  <2>3. QED
    BY <2>1, <2>2, <1>c DEF Aging
<1>5. CASE ApplySucceeded(w) \/ ApplyWaiting(w)
  <2>1. Still
    BY Zenon, <1>5, LeavesDropsClaim DEF ApplySucceeded, ApplyWaiting
  <2>2. Older /\ latest' = latest
    BY Zenon, <1>5, <1>c, <1>d DEF ApplySucceeded, ApplyWaiting
  <2>3. QED
    BY <2>1, <2>2 DEF Aging
<1>6. CASE ApplyFailed(w)
  <2>1. Still /\ r \in Runs
    BY <1>6, <1>a, LeavesDropsClaim DEF ApplyFailed, Busy
  <2>2. Older
    <3>1. CASE RetryAllowed(r, out[w])
      <4>1. PICK n \in Runs : item' = [item EXCEPT ![r] = NoItem, ![n] = Enqueue(@, FALSE)]
        BY Zenon, <1>6, <3>1 DEF ApplyFailed, Fresh
      <4>2. \A q \in Runs : item'[q] \in {item[q], NoItem, Enqueue(item[q], FALSE), Enqueue(NoItem, FALSE)}
        BY Zenon, <4>1, <1>a, <2>1
      <4>3. QED
        BY Zenon, <4>2, <1>b
    <3>2. CASE ~RetryAllowed(r, out[w])
      BY <1>6, <3>2, <1>d DEF ApplyFailed
    <3>3. QED
      BY <3>1, <3>2
  <2>3. QED
    BY <2>1, <2>2, <1>6 DEF Aging, ApplyFailed
<1>7. CASE RequeueClaimedRun(w)
  <2>1. Still /\ r \in Runs
    BY <1>7, <1>a, LeavesDropsClaim DEF RequeueClaimedRun, Busy
  <2>2. Older
    BY Zenon, <1>7, <1>a, <1>b, <2>1 DEF RequeueClaimedRun
  <2>3. QED
    BY Zenon, <2>1, <2>2, <1>7 DEF Aging, RequeueClaimedRun
<1>8. CASE RequestToolApproval(w)
  <2>1. Still
    BY <1>8, <1>a DEF RequestToolApproval, Busy
  <2>2. QED
    BY <2>1, <1>d, <1>8 DEF Aging, RequestToolApproval
<1>9. CASE Restart(w)
  <2>1. Still
    BY <1>9, <1>a DEF Restart, Busy
  <2>2. QED
    BY <2>1, <1>c, <1>9 DEF Aging, Restart, runVars
<1>10. QED
  BY <1>2, <1>3, <1>4, <1>5, <1>6, <1>7, <1>8, <1>9 DEF WorkerStep, WorkerProgress

\* Time, recovery and operator commands grant no claim either.
LEMMA OthersAge ==
  ASSUME TypeOK, ClaimInv,
         TimeStep \/ \E s \in Sessions : Load(s) \/ Commit(s) \/ Abort(s)
  PROVE  Aging
<1> DEFINE Older == \A q \in Runs : Ages(item'[q], item[q])
<1>a. /\ item \in [Runs -> Item]
      /\ \A q \in Runs : ~item[q].present => item[q].owner = Nobody
  BY DEF TypeOK, RunsTypeOK, ClaimInv
<1>b. \A q \in Runs : /\ Ages(item[q], item[q]) /\ Ages(NoItem, item[q])
                       /\ Ages(Enqueue(item[q], TRUE), item[q])
                       /\ Ages(Unclaimed(item[q]), item[q])
                       /\ Ages([item[q] EXCEPT !.live = FALSE], item[q])
                       /\ Ages([item[q] EXCEPT !.due = TRUE], item[q])
  BY Zenon, <1>a, RowAges
<1>1. UNCHANGED <<pc, claim, latest>>
  BY Zenon DEF TimeStep, LeaseLapses, LeaseStalls, LeaseEnds, BackoffElapses, RecoverExpiredLeases,
         Load, LoadRun, LoadApproval, ReloadRun, LoadTask, Abort, Commit, StartRun, StartQueuedRun,
         EndRun, CancelRun, RetryFailedRun, RequestApproval, ResolveApproval, CancelTask, EndTask,
         workerVars
<1>2. CASE TimeStep
  <2>1. ASSUME NEW q \in Runs, LeaseEnds(q) PROVE Older
    BY Zenon, <2>1, <1>a, <1>b DEF LeaseEnds
  <2>2. ASSUME NEW q \in Runs, BackoffElapses(q) PROVE Older
    BY Zenon, <2>2, <1>a, <1>b DEF BackoffElapses
  <2>3. ASSUME RecoverExpiredLeases PROVE Older
    <3>1. \A q \in Runs : item'[q] \in {item[q], NoItem, Unclaimed(item[q])}
      BY <2>3 DEF RecoverExpiredLeases
    <3>2. QED
      BY Zenon, <3>1, <1>b
  <2>4. QED
    BY <1>1, <1>2, <2>1, <2>2, <2>3 DEF Aging, TimeStep, LeaseLapses, LeaseStalls
<1>3. CASE \E s \in Sessions : Load(s) \/ Commit(s) \/ Abort(s)
  <2>1. PICK s \in Sessions : Load(s) \/ Commit(s) \/ Abort(s)
    BY <1>3
  <2>2. \/ item' = item
        \/ item' = [item EXCEPT ![sess[s].run] = NoItem]
        \/ item' = [item EXCEPT ![sess[s].run] = Enqueue(@, TRUE)]
        \/ \E n \in Runs : item' = [item EXCEPT ![n] = Enqueue(@, TRUE)]
    BY Zenon, <2>1 DEF Load, LoadRun, LoadApproval, ReloadRun, LoadTask, Abort, Commit, StartRun,
         StartQueuedRun, EndRun, CancelRun, RetryFailedRun, RequestApproval, ResolveApproval,
         CancelTask, EndTask, runVars, Fresh
  <2>3. Older
    BY Zenon, <2>2, <1>a, <1>b
  <2>4. QED
    BY <1>1, <2>3 DEF Aging
<1>4. QED
  BY <1>2, <1>3

\* The strengthening behind NoStaleOutcome is invariant.
LEMMA ClaimInvariant == Spec => []ClaimInv
<1>1. Init => ClaimInv
  BY SMT DEF Init, ClaimInv, NoItem, Busy
<1>2. TypeOK /\ ClaimInv /\ [Next]_vars => ClaimInv'
  <2> SUFFICES ASSUME TypeOK, ClaimInv, [Next]_vars PROVE ClaimInv'
    OBVIOUS
  <2>1. CASE UNCHANGED vars
    BY <2>1 DEF vars, runVars, workerVars, ClaimInv, Holds, ClaimActive
  <2>2. QED
    BY <2>1, WorkersAge, OthersAge, AgingKeepsClaims, ClaimKeepsClaims DEF Next
<1>3. QED
  BY <1>1, <1>2, TypeCorrect, PTL DEF Spec

\* The row of a Run is removed or requeued only by the worker that claimed the
\* Run last: remove_if_claimed and requeue_claimed fence out every other one.
THEOREM LateOutcomesAreFenced == Spec => NoStaleOutcome
<1>1. TypeOK /\ ClaimInv /\ [Next]_vars
        => [\A w \in Workers : Settles(w) => latest[claim[w].run] = w]_vars
  <2> SUFFICES ASSUME TypeOK, ClaimInv, Next, NEW w \in Workers, Settles(w)
               PROVE  latest[claim[w].run] = w
    OBVIOUS
  <2> USE DEF Settles
  <2>1. pc \in [Workers -> {"idle", "processing", "applying", "parked", "down"}] /\ pc[w] \in Busy
    BY DEF TypeOK, WorkersTypeOK, Busy
  <2>2. WorkerStep(w)
    <3>1. ASSUME NEW v \in Workers, v # w, WorkerStep(v) PROVE pc'[w] = pc[w]
      BY Zenon, <2>1, <3>1
         DEF WorkerStep, WorkerProgress, ClaimNextRun, ClaimRun, DropStaleItems, Decide, SucceedConflict,
             OutcomeFenced, OutcomeRejected, ApplySucceeded, ApplyFailed, RequeueClaimedRun,
             RequestToolApproval, ApplyWaiting, WaitingRejected, HeartbeatLost, HeartbeatFailed,
             Crash, Restart, Leaves, workerVars
    <3>2. ASSUME TimeStep \/ \E s \in Sessions : Load(s) \/ Commit(s) \/ Abort(s) PROVE pc' = pc
      BY Zenon, <3>2 DEF TimeStep, LeaseLapses, LeaseStalls, LeaseEnds, BackoffElapses, RecoverExpiredLeases,
         Load, LoadRun, LoadApproval, ReloadRun, LoadTask, Abort, Commit, StartRun, StartQueuedRun,
         EndRun, CancelRun, RetryFailedRun, RequestApproval, ResolveApproval, CancelTask, EndTask,
         workerVars
    <3>3. QED
      BY <3>1, <3>2 DEF Next
  <2>3. Holds(w)
    BY Zenon, <2>2, <2>1
       DEF WorkerStep, WorkerProgress, ClaimNextRun, ClaimRun, DropStaleItems, Decide, SucceedConflict,
           OutcomeFenced, OutcomeRejected, ApplySucceeded, ApplyFailed, RequeueClaimedRun,
           RequestToolApproval, ApplyWaiting, WaitingRejected, HeartbeatLost, HeartbeatFailed,
           Crash, Restart, runVars, workerVars
  <2>4. QED
    BY <2>1, <2>3 DEF ClaimInv
<1>2. QED
  BY <1>1, TypeCorrect, ClaimInvariant, PTL DEF Spec, NoStaleOutcome

-----------------------------------------------------------------------------
(* A parked Run can be resumed *)

\* What a loaded resolution knows of its approval and Run: the Run is the
\* approval's, and if it waits for the approval the session has read that.
ResolutionReady(s) ==
  LET a == sess[s].appr  r == sess[s].run IN
  sess[s].op \in ResolveOps =>
    /\ appr[a].status # "none"
    /\ appr[a].run = r
    /\ status[r] = "waiting_for_approval" /\ waits[r] = a => Resumes(s)

BackedInv == WaitingIsBacked /\ \A s \in Sessions : ResolutionReady(s)

\* Sessions only end: what the remaining ones have loaded is unchanged.
OnlyEnds == \A s \in Sessions : sess'[s] = sess[s] \/ sess'[s].op = "none"

\* A commit and a rollback end one session.
LEMMA DoneEnds ==
  ASSUME TypeOK, NEW s \in Sessions, Done(s) \/ Closes(s)
  PROVE  OnlyEnds
BY SMT DEF TypeOK, SessionsTypeOK, Done, Closes, IdleSession, OnlyEnds

\* A step that parks no Run and touches no approval of a parked Run.
LEMMA SettlingKeepsBacked ==
  ASSUME TypeOK, BackedInv, OnlyEnds,
         \A q \in Runs : status'[q] = "waiting_for_approval" =>
            /\ status[q] = "waiting_for_approval" /\ waits'[q] = waits[q]
            /\ appr'[waits[q]] = appr[waits[q]],
         \A a \in Approvals : appr[a].status # "none" =>
            appr'[a].status # "none" /\ appr'[a].run = appr[a].run
  PROVE  BackedInv'
<1>1. WaitingIsBacked'
  BY SMT DEF BackedInv, WaitingIsBacked
<1>2. ASSUME NEW s \in Sessions, sess'[s].op \in ResolveOps PROVE ResolutionReady(s)'
  <2>1. sess'[s] = sess[s]
    BY <1>2 DEF OnlyEnds, ResolveOps
  <2>2. sess[s].appr \in Approvals /\ sess[s].run \in Runs
    BY <1>2, <2>1 DEF TypeOK, SessionsTypeOK
  <2>3. sess[s].op \in ResolveOps /\ ResolutionReady(s)
    BY <1>2, <2>1 DEF BackedInv
  <2>4. /\ appr'[sess[s].appr].status # "none" /\ appr'[sess[s].appr].run = sess[s].run
        /\ status'[sess[s].run] = "waiting_for_approval" /\ waits'[sess[s].run] = sess[s].appr => Resumes(s)
    BY <2>2, <2>3 DEF ResolutionReady
  <2>5. QED
    BY <2>1, <2>4 DEF ResolutionReady, Resumes
<1>3. QED
  BY <1>1, <1>2 DEF BackedInv, ResolutionReady

\* Parking a Run on a new approval: nobody can have loaded that approval.
LEMMA ParkingKeepsBacked ==
  ASSUME TypeOK, BackedInv, OnlyEnds, NEW r \in Runs, NEW a \in FreshApproval, NEW deadline \in BOOLEAN,
         appr' = [appr EXCEPT ![a] = [run |-> r, status |-> "pending", deadline |-> deadline]],
         waits' = [waits EXCEPT ![r] = a],
         status' = [status EXCEPT ![r] = "waiting_for_approval"]
  PROVE  BackedInv'
<1>1. /\ a \in Approvals /\ appr[a].status = "none"
      /\ DOMAIN appr = Approvals /\ DOMAIN waits = Runs /\ DOMAIN status = Runs
  BY DEF FreshApproval, TypeOK, RunsTypeOK
<1>2. /\ appr'[a].run = r /\ appr'[a].status = "pending" /\ waits'[r] = a
      /\ \A b \in Approvals \ {a} : appr'[b] = appr[b]
      /\ \A q \in Runs \ {r} : waits'[q] = waits[q] /\ status'[q] = status[q]
  BY <1>1
<1>3. WaitingIsBacked'
  BY <1>1, <1>2 DEF BackedInv, WaitingIsBacked
<1>4. ASSUME NEW s \in Sessions, sess'[s].op \in ResolveOps PROVE ResolutionReady(s)'
  <2>1. sess'[s] = sess[s]
    BY Zenon, <1>4 DEF OnlyEnds, ResolveOps
  <2>2. sess[s].appr \in Approvals /\ sess[s].run \in Runs
    BY <1>4, <2>1 DEF TypeOK, SessionsTypeOK
  <2>3. sess[s].appr # a
    BY <1>1, <1>4, <2>1 DEF BackedInv, ResolutionReady
  <2>4. QED
    BY <1>2, <1>4, <2>1, <2>2, <2>3, SMT DEF BackedInv, ResolutionReady, Resumes
<1>5. QED
  BY <1>3, <1>4 DEF BackedInv, ResolutionReady

\* Loading a resolution reads the approval and its Run.
LEMMA LoadKeepsBacked ==
  ASSUME TypeOK, BackedInv, NEW s \in Sessions, Load(s)
  PROVE  BackedInv'
<1>a. UNCHANGED <<status, waits, appr>>
  BY Zenon DEF Load, LoadRun, LoadApproval, ReloadRun, LoadTask, runVars
<1>b. WaitingIsBacked'
  BY <1>a DEF BackedInv, WaitingIsBacked
<1>c. \A t \in Sessions \ {s} : sess'[t] = sess[t]
  BY Zenon DEF Load, LoadRun, LoadApproval, ReloadRun, LoadTask, TypeOK, SessionsTypeOK
<1>d. \A t \in Sessions \ {s} : ResolutionReady(t)'
  BY <1>a, <1>c DEF BackedInv, ResolutionReady, Resumes
<1>1. CASE (\E op \in Ops, r \in Runs : LoadRun(s, op, r)) \/ (\E op \in Ops : LoadTask(s, op))
  <2>1. sess'[s].op \notin ResolveOps
    BY Zenon, <1>1 DEF LoadRun, LoadTask, RunOps, TaskOps, ResolveOps, TypeOK, SessionsTypeOK, IdleSession
  <2>2. QED
    BY <2>1, <1>b, <1>d DEF BackedInv, ResolutionReady
<1>2. ASSUME NEW op \in Ops, NEW a \in Approvals, LoadApproval(s, op, a) PROVE BackedInv'
  <2>1. /\ sess'[s].appr = a /\ sess'[s].run = appr[a].run
        /\ sess'[s].seen = status[appr[a].run] /\ sess'[s].wait = waits[appr[a].run]
    BY <1>2 DEF LoadApproval, TypeOK, SessionsTypeOK, IdleSession
  <2>2. appr[a].status = "pending"
    BY <1>2 DEF LoadApproval
  <2>3. ResolutionReady(s)'
    BY <1>a, <2>1, <2>2 DEF ResolutionReady, Resumes
  <2>4. QED
    BY <2>3, <1>b, <1>d DEF BackedInv
<1>3. CASE ReloadRun(s)
  <2>1. /\ sess[s].op \in ResolveOps /\ sess'[s].appr = sess[s].appr /\ sess'[s].run = sess[s].run
        /\ sess'[s].seen = status[sess[s].run] /\ sess'[s].wait = waits[sess[s].run]
    BY <1>3 DEF ReloadRun, TypeOK, SessionsTypeOK
  <2>2. ResolutionReady(s)'
    BY Zenon, <1>a, <2>1 DEF BackedInv, ResolutionReady, Resumes
  <2>3. QED
    BY <2>2, <1>b, <1>d DEF BackedInv
<1>4. QED
  BY <1>1, <1>2, <1>3 DEF Load

\* The worker loop parks Runs on new approvals and otherwise only settles them.
LEMMA WorkerKeepsBacked ==
  ASSUME TypeOK, BackedInv, NEW w \in Workers, WorkerStep(w)
  PROVE  BackedInv'
<1> DEFINE r == claim[w].run
<1>a. /\ status \in [Runs -> RunStatus] /\ waits \in [Runs -> 0 .. MaxApprovals]
      /\ pc[w] = "applying" => r \in Runs
  BY DEF TypeOK, RunsTypeOK, WorkersTypeOK
<1>b. OnlyEnds
  BY Zenon DEF OnlyEnds, WorkerStep, WorkerProgress, ClaimNextRun, ClaimRun, DropStaleItems, Decide, SucceedConflict,
         OutcomeFenced, OutcomeRejected, ApplySucceeded, ApplyFailed, RequeueClaimedRun,
         RequestToolApproval, ApplyWaiting, WaitingRejected, HeartbeatLost, HeartbeatFailed,
         Crash, Restart
<1>1. CASE ClaimNextRun(w)
  BY <1>1, <1>a, <1>b, SettlingKeepsBacked DEF ClaimNextRun, ClaimRun
<1>2. CASE ApplySucceeded(w)
  BY Zenon, <1>2, <1>a, <1>b, SettlingKeepsBacked DEF ApplySucceeded
<1>3. CASE ApplyFailed(w)
  <2>1. /\ \A q \in Runs : status'[q] \in {status[q], "failed", "queued"}
        /\ status'[r] # "waiting_for_approval"
    BY Zenon, <1>3, <1>a DEF ApplyFailed, Fresh
  <2>2. waits' = [waits EXCEPT ![r] = 0] /\ appr' = appr
    BY <1>3 DEF ApplyFailed
  <2>3. QED
    BY <2>1, <2>2, <1>a, <1>b, SettlingKeepsBacked
<1>4. CASE RequestToolApproval(w)
  BY Zenon, <1>4, <1>a, <1>b, ParkingKeepsBacked DEF RequestToolApproval
<1>5. CASE UNCHANGED <<status, waits, appr>>
  BY <1>5, <1>b, SettlingKeepsBacked
<1>6. QED
  BY Zenon, <1>1, <1>2, <1>3, <1>4, <1>5
     DEF WorkerStep, WorkerProgress, DropStaleItems, Decide, SucceedConflict,
         OutcomeFenced, OutcomeRejected, RequeueClaimedRun, ApplyWaiting, WaitingRejected,
         HeartbeatLost, HeartbeatFailed, Crash, Restart, runVars

\* Resolving an approval: the one Run that may wait for it is resumed with it.
LEMMA ResolveKeepsBacked ==
  ASSUME TypeOK, BackedInv, NEW s \in Sessions, NEW op \in ResolveOps, NEW to \in TerminalApproval,
         ResolveApproval(s, op, to)
  PROVE  BackedInv'
<1> DEFINE r == sess[s].run
           a == sess[s].appr
<1>a. /\ status \in [Runs -> RunStatus] /\ waits \in [Runs -> 0 .. MaxApprovals]
      /\ r \in Runs /\ a \in Approvals /\ sess[s].op \in ResolveOps
  BY DEF TypeOK, RunsTypeOK, SessionsTypeOK, ResolveApproval
<1>b. OnlyEnds
  BY DoneEnds DEF ResolveApproval
<1>c. /\ \A b \in Approvals : appr'[b].run = appr[b].run
      /\ appr'[a].status = to
      /\ \A b \in Approvals \ {a} : appr'[b] = appr[b]
  BY <1>a DEF ResolveApproval, TypeOK, RunsTypeOK
<1>1. \A b \in Approvals : appr[b].status # "none" => appr'[b].status # "none"
  BY <1>c DEF TerminalApproval
<1>2. ASSUME NEW q \in Runs, status'[q] = "waiting_for_approval"
      PROVE  /\ status[q] = "waiting_for_approval" /\ waits'[q] = waits[q]
             /\ appr'[waits[q]] = appr[waits[q]]
  <2>1. status[q] = "waiting_for_approval" /\ waits'[q] = waits[q]
    BY Zenon, <1>2, <1>a DEF ResolveApproval
  <2>2. waits[q] \in Approvals /\ appr[waits[q]].run = q
    BY <2>1 DEF BackedInv, WaitingIsBacked
  <2>3. waits[q] # a
    <3>1. SUFFICES ASSUME waits[q] = a PROVE FALSE
      OBVIOUS
    <3>2. q = r /\ Resumes(s)
      BY <3>1, <2>1, <2>2, <1>a DEF BackedInv, ResolutionReady
    <3>3. status'[q] = "running"
      BY <3>2, <1>a DEF ResolveApproval
    <3>4. QED
      BY <3>3, <1>2
  <2>4. QED
    BY <2>1, <2>2, <2>3, <1>c
<1>3. QED
  BY <1>b, <1>c, <1>1, <1>2, SettlingKeepsBacked

\* The operator commands never leave a Run waiting for nothing.
LEMMA CommitKeepsBacked ==
  ASSUME TypeOK, BackedInv, NEW s \in Sessions, Commit(s)
  PROVE  BackedInv'
<1> DEFINE r == sess[s].run
<1>a. /\ status \in [Runs -> RunStatus] /\ waits \in [Runs -> 0 .. MaxApprovals]
      /\ sess[s].op \in RunOps => r \in Runs
  BY DEF TypeOK, RunsTypeOK, SessionsTypeOK
<1>b. OnlyEnds
  BY Zenon, DoneEnds DEF Commit, StartRun, StartQueuedRun, EndRun, CancelRun, RetryFailedRun, RequestApproval,
         ResolveApproval, CancelTask, EndTask
<1>1. CASE StartRun(s) \/ RetryFailedRun(s)
  <2>1. /\ \A q \in Runs : status'[q] \in {status[q], "queued"}
        /\ waits' = waits /\ appr' = appr
    BY Zenon, <1>1, <1>a DEF StartRun, RetryFailedRun, Fresh
  <2>2. QED
    BY <2>1, <1>b, SettlingKeepsBacked
<1>2. ASSUME NEW to \in {"running"} \cup TerminalRun,
             status' = [status EXCEPT ![r] = to], waits' = [waits EXCEPT ![r] = 0], appr' = appr
      PROVE  BackedInv'
  BY <1>2, <1>a, <1>b, SettlingKeepsBacked DEF TerminalRun
<1>3. CASE CancelRun(s)
  <2>1. /\ \A b \in Approvals : appr'[b].run = appr[b].run
        /\ \A b \in Approvals : appr[b].status # "none" => appr'[b].status # "none"
    BY <1>3 DEF CancelRun, TypeOK, RunsTypeOK
  <2>2. ASSUME NEW q \in Runs, status'[q] = "waiting_for_approval"
        PROVE  /\ status[q] = "waiting_for_approval" /\ waits'[q] = waits[q]
               /\ appr'[waits[q]] = appr[waits[q]]
    <3>1. r \in Runs
      BY <1>3, <1>a DEF CancelRun, RunOps
    <3>2. q # r /\ status[q] = "waiting_for_approval" /\ waits'[q] = waits[q]
      BY <3>1, <2>2, <1>3, <1>a DEF CancelRun
    <3>3. waits[q] \in Approvals /\ appr[waits[q]].run = q
      BY <3>2 DEF BackedInv, WaitingIsBacked
    <3>4. QED
      BY <3>2, <3>3, <1>3 DEF CancelRun, PendingFor
  <2>3. QED
    BY <2>1, <2>2, <1>b, SettlingKeepsBacked
<1>4. CASE RequestApproval(s)
  BY Zenon, <1>4, <1>a, <1>b, ParkingKeepsBacked DEF RequestApproval, RunOps
<1>5. CASE CancelTask(s)
  <2>1. \A q \in Runs : status'[q] = "waiting_for_approval" => FALSE
    BY <1>5, <1>a DEF CancelTask, LiveRun, Created
  <2>2. appr' = appr
    BY <1>5 DEF CancelTask
  <2>3. QED
    BY <2>1, <2>2, <1>b, SettlingKeepsBacked
<1>6. ASSUME NEW op, NEW to, EndTask(s, op, to) PROVE BackedInv'
  BY <1>6, <1>b, SettlingKeepsBacked DEF EndTask
<1>7. QED
  BY Zenon, <1>1, <1>2, <1>3, <1>4, <1>5, <1>6, ResolveKeepsBacked
     DEF Commit, StartQueuedRun, EndRun, ResolveOps, TerminalApproval, TerminalRun

\* A Run that is parked waits for an approval of its own that is still pending,
\* so answering it resumes the Run: no race of requests, resolutions, outcomes
\* and cancellations leaves a Run waiting for an approval already answered.
THEOREM ParkedRunsAreBacked == Spec => []WaitingIsBacked
<1>1. Init => BackedInv
  BY SMT DEF Init, BackedInv, WaitingIsBacked, ResolutionReady, IdleSession, ResolveOps
<1>2. TypeOK /\ BackedInv /\ [Next]_vars => BackedInv'
  <2> SUFFICES ASSUME TypeOK, BackedInv, [Next]_vars PROVE BackedInv'
    OBVIOUS
  <2>1. CASE UNCHANGED <<status, waits, appr, sess>>
    BY <2>1, SettlingKeepsBacked DEF OnlyEnds
  <2>2. CASE TimeStep
    <3>1. UNCHANGED <<status, waits, appr, sess>>
      BY <2>2 DEF TimeStep, LeaseLapses, LeaseStalls, LeaseEnds, BackoffElapses, RecoverExpiredLeases
    <3>2. QED
      BY <2>1, <3>1
  <2>3. ASSUME NEW s \in Sessions, Abort(s) PROVE BackedInv'
    BY <2>3, DoneEnds, SettlingKeepsBacked DEF Abort, runVars
  <2>4. QED
    BY <2>1, <2>2, <2>3, WorkerKeepsBacked, LoadKeepsBacked, CommitKeepsBacked DEF Next, vars, runVars
<1>3. QED
  BY <1>1, <1>2, TypeCorrect, PTL DEF Spec, BackedInv
-----------------------------------------------------------------------------
(* Runs and approvals implement Lifecycle *)

\* A claim that the fence accepts is on a running Run, unless CancelTask is in
\* use.
HeldInv ==
  \A w \in Workers : pc[w] \in Busy /\ Holds(w) => status[claim[w].run] = "running"

\* A Run is queued when it is created and never again.
LEMMA QueuedOnce ==
  ASSUME TypeOK, [Next]_vars, NEW q \in Runs, status'[q] = "queued"
  PROVE  status[q] \in {"queued", "none"}
<1>a. status \in [Runs -> RunStatus]
  BY DEF TypeOK, RunsTypeOK
<1>1. ASSUME NEW w \in Workers, WorkerStep(w) PROVE status[q] \in {"queued", "none"}
  <2>1. CASE ClaimNextRun(w)
    <3>1. PICK r \in Runs : status' = [status EXCEPT ![r] = "running"]
      BY Zenon, <2>1 DEF ClaimNextRun, ClaimRun
    <3>2. QED BY <3>1, <1>a
  <2>2. CASE ApplyFailed(w)
    <3>1. \/ status' = [status EXCEPT ![claim[w].run] = "failed"]
          \/ \E n \in Fresh : status' = [status EXCEPT ![claim[w].run] = "failed", ![n] = "queued"]
      BY Zenon, <2>2 DEF ApplyFailed
    <3>2. QED BY <3>1, <1>a DEF Fresh
  <2>3. CASE ApplySucceeded(w)
    BY <2>3, <1>a DEF ApplySucceeded
  <2>4. CASE RequestToolApproval(w)
    BY <2>4, <1>a DEF RequestToolApproval
  <2>5. CASE UNCHANGED status
    BY <2>5
  <2>6. QED
    BY <1>1, <2>1, <2>2, <2>3, <2>4, <2>5
       DEF WorkerStep, WorkerProgress, runVars, DropStaleItems, Decide, SucceedConflict, OutcomeFenced,
           OutcomeRejected, RequeueClaimedRun, ApplyWaiting, WaitingRejected, HeartbeatLost,
           HeartbeatFailed, Crash, Restart
<1>2. ASSUME NEW s \in Sessions, Commit(s) PROVE status[q] \in {"queued", "none"}
  <2>1. \/ UNCHANGED status
        \/ \E n \in Fresh : status' = [status EXCEPT ![n] = "queued"]
        \/ \E to \in RunStatus \ {"queued"} : status' = [status EXCEPT ![sess[s].run] = to]
        \/ CancelTask(s)
    BY Zenon, <1>2 DEF Commit, StartRun, StartQueuedRun, EndRun, CancelRun, RetryFailedRun,
         RequestApproval, ResolveApproval, EndTask, RunStatus, LiveRun, TerminalRun
  <2>2. QED BY <2>1, <1>a DEF Fresh, CancelTask
<1>3. ASSUME TimeStep \/ \E s \in Sessions : Load(s) \/ Abort(s) PROVE status' = status
  BY Zenon, <1>3 DEF TimeStep, LeaseLapses, LeaseStalls, LeaseEnds, BackoffElapses, RecoverExpiredLeases,
     Load, LoadRun, LoadApproval, ReloadRun, LoadTask, Abort, runVars
<1>4. QED
  BY <1>1, <1>2, <1>3 DEF Next, vars, runVars

\* A row in the queue belongs to a queued or running Run, so whoever holds a
\* claim finds its Run running until it settles it.
LEMMA HeldNext ==
  ASSUME TypeOK, QueueInv, QueueInv', ClaimInv, HeldInv, [Next]_vars, "cancelTask" \notin Ops
  PROVE  HeldInv'
<1>a. status \in [Runs -> RunStatus]
  BY DEF TypeOK, RunsTypeOK
<1>1. ASSUME Aging PROVE HeldInv'
  <2> SUFFICES ASSUME NEW w \in Workers, pc'[w] \in Busy, Holds(w)'
               PROVE  status'[claim'[w].run] = "running"
    BY DEF HeldInv
  <2>1. pc[w] \in Busy /\ claim'[w] = claim[w] /\ claim[w].run \in Runs /\ Holds(w)
    BY <1>1, AgingGrantsNothing
  <2>2. status[claim[w].run] = "running"
    BY <2>1 DEF HeldInv
  <2>3. item'[claim[w].run].present
    BY <2>1 DEF Holds, ClaimActive
  <2>4. status'[claim[w].run] \in {"queued", "running"}
    BY <2>1, <2>3 DEF QueueInv, QueueCoherence, Runnable
  <2>5. QED BY <2>1, <2>2, <2>4, QueuedOnce
<1>2. ASSUME NEW v \in Workers, ClaimNextRun(v) PROVE HeldInv'
  <2>1. PICK q \in Runs, stale \in SUBSET StaleRows, tok \in FreshToken : ClaimRun(v, q, stale, tok)
    BY <1>2 DEF ClaimNextRun
  <2> SUFFICES ASSUME NEW w \in Workers, pc'[w] \in Busy, Holds(w)'
               PROVE  status'[claim'[w].run] = "running"
    BY DEF HeldInv
  <2>2. status'[q] = "running" /\ \A r \in Runs \ {q} : status'[r] = status[r]
    BY <2>1, <1>a DEF ClaimRun
  <2>3. CASE claim'[w].run = q
    BY <2>2, <2>3
  <2>4. CASE claim'[w].run # q
    <3>1. w # v
      BY <2>1, <2>4 DEF ClaimRun, TypeOK, WorkersTypeOK
    <3>2. pc[w] \in Busy /\ claim'[w] = claim[w] /\ claim[w].run \in Runs
      BY Zenon, <2>1, <3>1 DEF ClaimRun, TypeOK, WorkersTypeOK, Busy
    <3>3. item'[claim[w].run] = item[claim[w].run]
      <4>1. item'[claim[w].run] = item[claim[w].run] \/ item'[claim[w].run] = NoItem
        BY <2>1, <2>4, <3>2 DEF ClaimRun
      <4>2. item'[claim[w].run].present
        BY <3>2 DEF Holds, ClaimActive
      <4>3. QED BY <4>1, <4>2, SMT DEF NoItem
    <3>4. Holds(w)
      BY Zenon, <3>2, <3>3 DEF Holds, ClaimActive
    <3>5. QED BY <2>2, <2>4, <3>2, <3>4 DEF HeldInv
  <2>5. QED BY <2>3, <2>4
<1>3. CASE UNCHANGED vars
  BY <1>3 DEF vars, runVars, workerVars, HeldInv, Holds, ClaimActive
<1>4. QED
  BY <1>1, <1>2, <1>3, WorkersAge, OthersAge DEF Next

\* The fence and the claim keep HeldInv through any overlap of commands.
LEMMA HeldInvariant ==
  ASSUME "cancelTask" \notin Ops
  PROVE  Spec => [](TypeOK /\ QueueInv /\ HeldInv)
<1>1. Init => HeldInv
  BY DEF Init, HeldInv, Busy
<1>2. ASSUME TypeOK, QueueInv, ClaimInv, HeldInv, [Next]_vars PROVE HeldInv'
  BY <1>2, QueueNext, HeldNext
<1>3. QED
  BY <1>1, <1>2, TypeCorrect, QueueAndRunsAgree, ClaimInvariant, PTL DEF Spec, QueueInv

\* One Run is saved in a status its class allows, or created.
LEMMA OneRunFollows ==
  ASSUME TypeOK, NEW r \in Runs, NEW to, RunRows!Allowed(status[r], to),
         status' = [status EXCEPT ![r] = to]
  PROVE  RunRows!Next
<1>1. status \in [Runs -> RunStatus]
  BY DEF TypeOK, RunsTypeOK
<1>2. \A q \in Runs : RunRows!Allowed(status[q], status[q])
  BY DEF RunRows!Allowed
<1>3. QED BY <1>1, <1>2 DEF RunRows!Next

\* Which statuses those are.
LEMMA RunTransitions ==
  /\ RunRows!Allowed("none", "queued")
  /\ RunRows!Allowed("queued", "running") /\ RunRows!Allowed("running", "running")
  /\ \A to \in {"succeeded", "failed", "waiting_for_approval"} : RunRows!Allowed("running", to)
  /\ RunRows!Allowed("waiting_for_approval", "running")
  /\ \A from \in LiveRun : RunRows!Allowed(from, "cancelled")
BY DEF RunRows!Allowed, RunRows!Moves, RunRows!First, RunRows!RunMoves, LiveRun

\* Approvals are created pending, and a pending one is resolved.
LEMMA ApprovalsFollow ==
  ASSUME \A a \in Approvals :
           \/ appr'[a].status = appr[a].status
           \/ appr[a].status = "none" /\ appr'[a].status = "pending"
           \/ appr[a].status = "pending" /\ appr'[a].status \in TerminalApproval
  PROVE  ApprovalRows!Next
BY DEF ApprovalRows!Next, ApprovalRows!Allowed, ApprovalRows!Moves, ApprovalRows!First,
       ApprovalRows!ApprovalMoves, TerminalApproval

\* What a worker commits follows the classes although its processor read the Run
\* long before: the claim it holds says that the Run is running.
LEMMA WorkerFollows ==
  ASSUME TypeOK, HeldInv, NEW w \in Workers, WorkerStep(w)
  PROVE  RunRows!Next /\ ApprovalRows!Next
<1> DEFINE r == claim[w].run
<1>a. /\ status \in [Runs -> RunStatus]
      /\ pc[w] \in Busy => r \in Runs
      /\ \A q \in Runs : RunRows!Allowed(status[q], status[q])
  BY DEF TypeOK, RunsTypeOK, WorkersTypeOK, Busy, RunRows!Allowed
<1>b. UNCHANGED appr => ApprovalRows!Next
  BY ApprovalsFollow
<1>c. UNCHANGED status => RunRows!Next
  BY <1>a DEF RunRows!Next
<1>1. CASE ClaimNextRun(w)
  <2>1. PICK q \in Runs : /\ status[q] \in {"queued", "running"} /\ UNCHANGED appr
                          /\ status' = [status EXCEPT ![q] = "running"]
    BY Zenon, <1>1 DEF ClaimNextRun, ClaimRun, Runnable
  <2>2. RunRows!Allowed(status[q], "running")
    BY <2>1, RunTransitions
  <2>3. QED BY <2>1, <2>2, <1>b, OneRunFollows
<1>2. CASE ApplySucceeded(w)
  <2>0. pc[w] \in Busy /\ Holds(w)
    BY <1>2 DEF ApplySucceeded, Busy
  <2>1. r \in Runs /\ status[r] = "running"
    BY <2>0, <1>a DEF HeldInv
  <2>2. QED BY <1>2, <1>b, <2>1, RunTransitions, OneRunFollows DEF ApplySucceeded
<1>3. CASE ApplyFailed(w)
  <2>0. pc[w] \in Busy /\ Holds(w) /\ UNCHANGED appr
    BY <1>3 DEF ApplyFailed, Busy
  <2>1. r \in Runs /\ status[r] = "running"
    BY <2>0, <1>a DEF HeldInv
  <2>2. CASE status' = [status EXCEPT ![r] = "failed"]
    BY <2>0, <2>1, <2>2, <1>b, RunTransitions, OneRunFollows
  <2>3. CASE \E n \in Fresh : status' = [status EXCEPT ![r] = "failed", ![n] = "queued"]
    <3>1. PICK n \in Runs : status[n] = "none" /\ status' = [status EXCEPT ![r] = "failed", ![n] = "queued"]
      BY Zenon, <2>3 DEF Fresh
    <3>2. \A q \in Runs :
            \/ status'[q] = status[q]
            \/ status[q] = "none" /\ status'[q] = "queued"
            \/ status[q] = "running" /\ status'[q] = "failed"
      BY <3>1, <2>1, <1>a
    <3>3. \A q \in Runs : RunRows!Allowed(status[q], status'[q])
      BY <3>2, <1>a, RunTransitions
    <3>4. QED BY <2>0, <3>3, <1>b DEF RunRows!Next
  <2>4. QED
    BY Zenon, <1>3, <2>2, <2>3 DEF ApplyFailed
<1>4. CASE RequestToolApproval(w)
  <2>0. pc[w] \in Busy /\ Holds(w)
    BY <1>4 DEF RequestToolApproval, Busy
  <2>1. r \in Runs /\ status[r] = "running"
    BY <2>0, <1>a DEF HeldInv
  <2>2. PICK a \in FreshApproval :
          appr' = [appr EXCEPT ![a] = [run |-> r, status |-> "pending", deadline |-> FALSE]]
    BY <1>4 DEF RequestToolApproval
  <2>3. ApprovalRows!Next
    BY <2>2, ApprovalsFollow DEF FreshApproval, TypeOK, RunsTypeOK
  <2>4. RunRows!Allowed(status[r], "waiting_for_approval")
    BY <2>1, RunTransitions
  <2>5. QED BY <1>4, <2>1, <2>3, <2>4, OneRunFollows DEF RequestToolApproval
<1>5. CASE UNCHANGED <<status, appr>>
  BY <1>5, <1>b, <1>c
<1>6. QED
  BY <1>1, <1>2, <1>3, <1>4, <1>5
     DEF WorkerStep, WorkerProgress, runVars, DropStaleItems, Decide, SucceedConflict, OutcomeFenced,
         OutcomeRejected, RequeueClaimedRun, ApplyWaiting, WaitingRejected, HeartbeatLost,
         HeartbeatFailed, Crash, Restart

\* A command whose reads still hold when it commits follows the classes.
LEMMA FreshCommandFollows ==
  ASSUME TypeOK, NEW s \in Sessions, Commit(s), ~Stale(s), "cancelTask" \notin Ops
  PROVE  RunRows!Next /\ ApprovalRows!Next
<1> DEFINE r == sess[s].run
<1>a. /\ status \in [Runs -> RunStatus]
      /\ \A q \in Runs : RunRows!Allowed(status[q], status[q])
      /\ sess[s].op \in {"none"} \cup Ops
      /\ sess[s].op \in RunOps \cup ResolveOps => r \in Runs
      /\ sess[s].op \in ResolveOps => sess[s].appr \in Approvals
  BY DEF TypeOK, RunsTypeOK, SessionsTypeOK, RunRows!Allowed
<1>b. UNCHANGED appr => ApprovalRows!Next
  BY ApprovalsFollow
<1>c. UNCHANGED status => RunRows!Next
  BY <1>a DEF RunRows!Next
<1>d. sess[s].op \in RunOps => RunLoads(sess[s].op, r) /\ r \in Runs
  BY <1>a DEF Stale, RunOps, ResolveOps
<1>1. CASE StartRun(s) \/ RetryFailedRun(s)
  <2>1. PICK n \in Runs : status[n] = "none" /\ status' = [status EXCEPT ![n] = "queued"]
    BY Zenon, <1>1 DEF StartRun, RetryFailedRun, Fresh
  <2>2. UNCHANGED appr
    BY <1>1 DEF StartRun, RetryFailedRun
  <2>3. QED BY <2>1, <2>2, <1>b, RunTransitions, OneRunFollows
<1>2. CASE StartQueuedRun(s)
  <2>1. r \in Runs /\ status[r] = "queued"
    BY <1>2, <1>d DEF StartQueuedRun, RunOps, RunLoads
  <2>2. QED BY <1>2, <2>1, <1>b, RunTransitions, OneRunFollows DEF StartQueuedRun
<1>3. ASSUME NEW op \in {"complete", "fail"}, NEW to \in {"succeeded", "failed"}, EndRun(s, op, to)
      PROVE  RunRows!Next /\ ApprovalRows!Next
  <2>1. r \in Runs /\ status[r] = "running"
    BY <1>3, <1>d DEF EndRun, RunOps, RunLoads
  <2>2. RunRows!Allowed(status[r], to)
    BY <2>1, RunTransitions
  <2>3. QED BY <1>3, <2>1, <2>2, <1>b, OneRunFollows DEF EndRun
<1>4. CASE CancelRun(s)
  <2>1. r \in Runs /\ status[r] \in LiveRun
    BY <1>4, <1>d DEF CancelRun, RunOps, RunLoads
  <2>2. \A a \in Approvals : \/ appr'[a] = appr[a]
                             \/ appr[a].status = "pending" /\ appr'[a] = [appr[a] EXCEPT !.status = "cancelled"]
    BY <1>4 DEF CancelRun, PendingFor
  <2>3. \A a \in Approvals : [appr[a] EXCEPT !.status = "cancelled"].status = "cancelled"
    BY DEF TypeOK, RunsTypeOK
  <2>4. ApprovalRows!Next
    BY <2>2, <2>3, ApprovalsFollow DEF TerminalApproval
  <2>5. RunRows!Allowed(status[r], "cancelled")
    BY <2>1, RunTransitions
  <2>6. QED BY <1>4, <2>1, <2>4, <2>5, OneRunFollows DEF CancelRun
<1>5. CASE RequestApproval(s)
  <2>1. r \in Runs /\ status[r] = "running"
    BY <1>5, <1>d DEF RequestApproval, RunOps, RunLoads
  <2>2. PICK a \in FreshApproval, deadline \in BOOLEAN :
          appr' = [appr EXCEPT ![a] = [run |-> r, status |-> "pending", deadline |-> deadline]]
    BY <1>5 DEF RequestApproval
  <2>3. ApprovalRows!Next
    BY <2>2, ApprovalsFollow DEF FreshApproval, TypeOK, RunsTypeOK
  <2>4. RunRows!Allowed(status[r], "waiting_for_approval")
    BY <2>1, RunTransitions
  <2>5. QED BY <1>5, <2>1, <2>3, <2>4, OneRunFollows DEF RequestApproval
<1>6. ASSUME NEW op \in ResolveOps, NEW to \in TerminalApproval, ResolveApproval(s, op, to)
      PROVE  RunRows!Next /\ ApprovalRows!Next
  <2>1. sess[s].op \in ResolveOps /\ sess[s].op \notin RunOps /\ r \in Runs /\ sess[s].appr \in Approvals
    BY <1>6, <1>a DEF ResolveApproval, ResolveOps, RunOps
  <2>2. appr[sess[s].appr].status = "pending" /\ status[r] = sess[s].seen
    BY <2>1 DEF Stale
  <2>3. appr' = [appr EXCEPT ![sess[s].appr].status = to]
    BY <1>6 DEF ResolveApproval
  <2>4. ApprovalRows!Next
    BY <2>1, <2>2, <2>3, ApprovalsFollow DEF TypeOK, RunsTypeOK
  <2>5. CASE Resumes(s)
    <3>1. status' = [status EXCEPT ![r] = "running"] /\ status[r] = "waiting_for_approval"
      BY <1>6, <2>2, <2>5 DEF ResolveApproval, Resumes
    <3>2. QED BY <3>1, <2>1, <2>4, RunTransitions, OneRunFollows
  <2>6. CASE ~Resumes(s)
    BY <1>6, <2>4, <2>6, <1>c DEF ResolveApproval
  <2>7. QED BY <2>5, <2>6
<1>7. CASE EndTask(s, "completeTask", "completed") \/ EndTask(s, "failTask", "failed")
  BY <1>7, <1>b, <1>c DEF EndTask
<1>8. ~CancelTask(s)
  BY <1>a DEF CancelTask
<1>9. QED
  BY <1>1, <1>2, <1>3, <1>4, <1>5, <1>6, <1>7, <1>8 DEF Commit, ResolveOps, TerminalApproval

\* Neither time and recovery nor the loads of commands touch Runs and approvals.
LEMMA OthersFollow ==
  ASSUME TimeStep \/ (\E s \in Sessions : Load(s) \/ Abort(s)) \/ UNCHANGED vars
  PROVE  RunRows!Next /\ ApprovalRows!Next
<1>1. UNCHANGED <<status, appr>>
  BY Zenon DEF TimeStep, LeaseLapses, LeaseStalls, LeaseEnds, BackoffElapses, RecoverExpiredLeases,
     Load, LoadRun, LoadApproval, ReloadRun, LoadTask, Abort, runVars, vars
<1>2. QED BY <1>1, ApprovalsFollow DEF RunRows!Next, RunRows!Allowed

\* Outcomes of workers and lease recoveries never take a Run or an approval
\* through a transition its class forbids, and neither does a command, unless
\* what it had read changed before it committed: for any number of workers,
\* operators, Runs and faults.
THEOREM OnlyStaleCommandsBreakIt == Spec => LifecycleUnlessStale
<1> SUFFICES ASSUME "cancelTask" \notin Ops
             PROVE  Spec => [][\/ RunRows!Next /\ ApprovalRows!Next
                               \/ \E s \in Sessions : Commit(s) /\ Stale(s)]_vars
  BY DEF LifecycleUnlessStale
<1>1. ASSUME TypeOK, HeldInv, [Next]_vars
      PROVE  [\/ RunRows!Next /\ ApprovalRows!Next
              \/ \E s \in Sessions : Commit(s) /\ Stale(s)]_vars
  BY <1>1, WorkerFollows, FreshCommandFollows, OthersFollow DEF Next
<1>2. QED
  BY <1>1, HeldInvariant, PTL DEF Spec

\* Only commands that never overwrite a Run a worker may be settling are in
\* use, one at a time.
FencedCommands == Ops \subseteq FencedOps /\ \A s, t \in Sessions : s = t

\* What a session has read still holds, and an approval is pending exactly while
\* its Run waits for it.
FencedInv ==
  /\ task \in {"pending", "active"}
  /\ \A a \in Approvals : appr[a].status = "pending" =>
       status[appr[a].run] = "waiting_for_approval" /\ waits[appr[a].run] = a
  /\ \A s \in Sessions :
       /\ sess[s].op = "retry" => Retryable(sess[s].run)
       /\ sess[s].op \in ResolveOps =>
            /\ appr[sess[s].appr].status = "pending"
            /\ appr[sess[s].appr].run = sess[s].run
            /\ status[sess[s].run] = sess[s].seen
            /\ waits[sess[s].run] = sess[s].wait

\* Then no command is overtaken.
LEMMA FencedIsFresh ==
  ASSUME TypeOK, FencedCommands, FencedInv, NEW s \in Sessions, Commit(s)
  PROVE  ~Stale(s)
<1>1. sess[s].op \in FencedOps
  <2>1. sess[s].op \in {"none"} \cup Ops
    BY DEF TypeOK, SessionsTypeOK
  <2>2. sess[s].op # "none"
    BY DEF Commit, StartRun, StartQueuedRun, EndRun, CancelRun, RetryFailedRun, RequestApproval,
           ResolveApproval, CancelTask, EndTask
  <2>3. QED BY <2>1, <2>2 DEF FencedCommands
<1>2. CASE sess[s].op = "startRun"
  BY <1>2 DEF FencedInv, Stale, TaskLoads, RunOps, ResolveOps
<1>3. CASE sess[s].op = "retry"
  <2>1. Retryable(sess[s].run)
    BY <1>3 DEF FencedInv
  <2>2. RunLoads(sess[s].op, sess[s].run)
    BY <1>3, <2>1 DEF RunLoads
  <2>3. QED BY <1>3, <2>2 DEF Stale, RunOps, ResolveOps
<1>4. CASE sess[s].op \in {"approve", "reject", "expire"}
  BY <1>4 DEF FencedInv, Stale, RunOps, ResolveOps
<1>5. QED BY <1>1, <1>2, <1>3, <1>4 DEF FencedOps

\* Workers, time and recovery change a Run only while its row is in the queue,
\* and create one only beside such a Run.
Undisturbed ==
  /\ UNCHANGED <<task, sess>>
  /\ \A q \in Runs : ~item[q].present /\ status[q] # "none" =>
       status'[q] = status[q] /\ waits'[q] = waits[q]
  /\ (\A q \in Runs : ~item[q].present) => UNCHANGED status
  /\ \A a \in Approvals : appr[a].status # "none" => appr'[a] = appr[a]
  /\ \A a \in Approvals : appr[a].status = "none" /\ appr'[a].status = "pending" =>
       status'[appr'[a].run] = "waiting_for_approval" /\ waits'[appr'[a].run] = a

\* That is so for every step of a worker.
LEMMA WorkersUndisturbing ==
  ASSUME TypeOK, NEW w \in Workers, WorkerStep(w)
  PROVE  Undisturbed
<1> DEFINE r == claim[w].run
<1>a. /\ status \in [Runs -> RunStatus] /\ waits \in [Runs -> 0 .. MaxApprovals]
      /\ pc[w] \in Busy => r \in Runs
      /\ DOMAIN appr = Approvals
  BY DEF TypeOK, RunsTypeOK, WorkersTypeOK, Busy
<1>1. CASE ClaimNextRun(w)
  <2>1. PICK q \in Runs : /\ item[q].present
                          /\ status' = [status EXCEPT ![q] = "running"]
                          /\ UNCHANGED <<task, sess, waits, appr>>
    BY Zenon, <1>1 DEF ClaimNextRun, ClaimRun, Claimable
  <2>2. QED BY <2>1, <1>a DEF Undisturbed
<1>2. CASE ApplySucceeded(w)
  <2>1. /\ r \in Runs /\ item[r].present /\ UNCHANGED <<task, sess, appr>>
        /\ status' = [status EXCEPT ![r] = "succeeded"] /\ waits' = [waits EXCEPT ![r] = 0]
    BY <1>2, <1>a DEF ApplySucceeded, Holds, ClaimActive, Busy
  <2>2. QED BY <2>1, <1>a DEF Undisturbed
<1>3. CASE ApplyFailed(w)
  <2>1. /\ r \in Runs /\ item[r].present /\ UNCHANGED <<task, sess, appr>>
        /\ waits' = [waits EXCEPT ![r] = 0]
    BY <1>3, <1>a DEF ApplyFailed, Holds, ClaimActive, Busy
  <2>2. \/ status' = [status EXCEPT ![r] = "failed"]
        \/ \E n \in Fresh : status' = [status EXCEPT ![r] = "failed", ![n] = "queued"]
    BY Zenon, <1>3 DEF ApplyFailed
  <2>3. \A q \in Runs : q # r /\ status[q] # "none" => status'[q] = status[q] /\ waits'[q] = waits[q]
    BY <2>1, <2>2, <1>a DEF Fresh
  <2>4. QED BY <2>1, <2>3 DEF Undisturbed
<1>4. CASE RequestToolApproval(w)
  <2>1. /\ r \in Runs /\ item[r].present /\ UNCHANGED <<task, sess>>
        /\ status' = [status EXCEPT ![r] = "waiting_for_approval"]
    BY <1>4, <1>a DEF RequestToolApproval, Holds, ClaimActive, Busy
  <2>2. PICK a \in FreshApproval :
          /\ appr' = [appr EXCEPT ![a] = [run |-> r, status |-> "pending", deadline |-> FALSE]]
          /\ waits' = [waits EXCEPT ![r] = a]
    BY <1>4 DEF RequestToolApproval
  <2>3. /\ \A b \in Approvals : b # a => appr'[b] = appr[b]
        /\ appr'[a].run = r /\ appr[a].status = "none" /\ a \in Approvals
    BY <2>2, <1>a DEF FreshApproval
  <2>4. status'[r] = "waiting_for_approval" /\ waits'[r] = a
    BY <2>1, <2>2, <1>a
  <2>5. \A q \in Runs \ {r} : status'[q] = status[q] /\ waits'[q] = waits[q]
    BY <2>1, <2>2, <1>a
  <2>6. QED BY <2>1, <2>3, <2>4, <2>5, SMT DEF Undisturbed
<1>5. CASE UNCHANGED <<task, sess, status, waits, appr>>
  BY <1>5 DEF Undisturbed
<1>6. QED
  BY <1>1, <1>2, <1>3, <1>4, <1>5
     DEF WorkerStep, WorkerProgress, runVars, DropStaleItems, Decide, SucceedConflict, OutcomeFenced,
         OutcomeRejected, RequeueClaimedRun, ApplyWaiting, WaitingRejected, HeartbeatLost,
         HeartbeatFailed, Crash, Restart

\* A Run that waits or has ended has no row, so nothing a session has read is
\* disturbed.
LEMMA UndisturbedKeepsFenced ==
  ASSUME TypeOK, QueueInv, "cancelTask" \notin Ops, FencedInv, Undisturbed
  PROVE  FencedInv'
<1>a. /\ \A q \in Runs : item[q].present => status[q] \in {"queued", "running"}
      /\ \A a \in Approvals : appr[a].status = "pending" => appr[a].run \in Runs
      /\ \A a \in Approvals : appr[a].status \in {"none", "pending"} \cup TerminalApproval
      /\ status \in [Runs -> RunStatus]
  BY DEF QueueInv, QueueCoherence, Runnable, TypeOK, RunsTypeOK
<1>b. \A s \in Sessions : /\ sess[s].op \in RunOps \cup ResolveOps => sess[s].run \in Runs
                          /\ sess[s].op \in ResolveOps => sess[s].appr \in Approvals
  BY DEF TypeOK, SessionsTypeOK
<1>c. \A q \in Runs : status[q] = "waiting_for_approval" => status'[q] = status[q] /\ waits'[q] = waits[q]
  BY <1>a DEF Undisturbed
<1>1. ASSUME NEW a \in Approvals, appr'[a].status = "pending"
      PROVE  status'[appr'[a].run] = "waiting_for_approval" /\ waits'[appr'[a].run] = a
  <2>1. CASE appr[a].status = "none"
    BY <1>1, <2>1 DEF Undisturbed
  <2>2. CASE appr[a].status # "none"
    <3>1. appr'[a] = appr[a] /\ appr[a].status = "pending"
      BY <1>1, <2>2 DEF Undisturbed
    <3>2. QED BY <3>1, <1>a, <1>c, SMT DEF FencedInv
  <2>3. QED BY <2>1, <2>2
<1>2. ASSUME NEW s \in Sessions, sess'[s].op = "retry" PROVE Retryable(sess[s].run)'
  <2>1. sess'[s] = sess[s] /\ Retryable(sess[s].run)
    BY <1>2 DEF Undisturbed, FencedInv
  <2>2. \A q \in Runs : ~item[q].present
    BY <2>1, <1>a DEF Retryable, Created, TerminalRun
  <2>3. status' = status /\ task' = task
    BY <2>2 DEF Undisturbed
  <2>4. QED BY <2>1, <2>3 DEF Retryable, Created
<1>3. ASSUME NEW s \in Sessions, sess'[s].op \in ResolveOps
      PROVE  /\ appr'[sess'[s].appr].status = "pending"
             /\ appr'[sess'[s].appr].run = sess'[s].run
             /\ status'[sess'[s].run] = sess'[s].seen
             /\ waits'[sess'[s].run] = sess'[s].wait
  <2>1. sess'[s] = sess[s] /\ sess[s].op \in ResolveOps
    BY <1>3 DEF Undisturbed
  <2>2. /\ appr[sess[s].appr].status = "pending" /\ appr[sess[s].appr].run = sess[s].run
        /\ status[sess[s].run] = sess[s].seen /\ waits[sess[s].run] = sess[s].wait
    BY <2>1 DEF FencedInv
  <2>3. appr'[sess[s].appr] = appr[sess[s].appr]
    BY <2>1, <2>2, <1>b DEF Undisturbed
  <2>4. status[sess[s].run] = "waiting_for_approval"
    BY <2>1, <2>2, <1>b DEF FencedInv
  <2>5. QED BY <2>1, <2>2, <2>3, <2>4, <1>b, <1>c
<1>4. task' \in {"pending", "active"}
  BY DEF Undisturbed, FencedInv
<1>5. QED BY <1>1, <1>2, <1>3, <1>4 DEF FencedInv

\* What a load reads holds when it reads it.
LEMMA LoadKeepsFenced ==
  ASSUME TypeOK, FencedCommands, FencedInv, NEW s \in Sessions, Load(s)
  PROVE  FencedInv'
<1>a. UNCHANGED <<task, status, waits, appr>>
  BY Zenon DEF Load, LoadRun, LoadApproval, ReloadRun, LoadTask, runVars
<1>b. \A t \in Sessions : t = s
  BY DEF FencedCommands
<1>c. /\ sess \in [Sessions -> [op : {"none"} \cup Ops, run : 0 .. MaxRuns, appr : 0 .. MaxApprovals,
        seen : RunStatus, wait : 0 .. MaxApprovals, task : {"none"} \cup TaskStatus]]
  BY DEF TypeOK, SessionsTypeOK
<1> DEFINE Known ==
      /\ sess'[s].op = "retry" => Retryable(sess'[s].run)
      /\ sess'[s].op \in ResolveOps =>
           /\ appr[sess'[s].appr].status = "pending"
           /\ appr[sess'[s].appr].run = sess'[s].run
           /\ status[sess'[s].run] = sess'[s].seen
           /\ waits[sess'[s].run] = sess'[s].wait
<1>1. ASSUME NEW op \in Ops, NEW r \in Runs, LoadRun(s, op, r) PROVE Known
  <2>1. sess'[s].op = op /\ sess'[s].run = r /\ op \in RunOps /\ RunLoads(op, r)
    BY <1>1, <1>c DEF LoadRun, IdleSession
  <2>2. op \notin ResolveOps
    BY <2>1 DEF RunOps, ResolveOps
  <2>3. op = "retry" => Retryable(r)
    BY <2>1 DEF RunLoads
  <2>4. QED BY <2>1, <2>2, <2>3
<1>2. ASSUME NEW op \in Ops, NEW a \in Approvals, LoadApproval(s, op, a) PROVE Known
  <2>1. /\ sess'[s].op = op /\ sess'[s].run = appr[a].run /\ sess'[s].appr = a
        /\ sess'[s].seen = status[appr[a].run] /\ sess'[s].wait = waits[appr[a].run]
    BY <1>2, <1>c DEF LoadApproval, IdleSession
  <2>2. op \in ResolveOps /\ op # "retry" /\ appr[a].status = "pending"
    BY <1>2 DEF LoadApproval, ResolveOps
  <2>3. QED BY <2>1, <2>2
<1>3. ASSUME NEW op \in Ops, LoadTask(s, op) PROVE Known
  <2>1. sess'[s].op = op /\ op \in TaskOps
    BY <1>3, <1>c DEF LoadTask, IdleSession
  <2>2. QED BY <2>1 DEF TaskOps, ResolveOps
<1>4. ASSUME ReloadRun(s) PROVE Known
  <2>1. /\ sess'[s].op = sess[s].op /\ sess'[s].run = sess[s].run /\ sess'[s].appr = sess[s].appr
        /\ sess'[s].seen = status[sess[s].run] /\ sess'[s].wait = waits[sess[s].run]
    BY <1>4, <1>c DEF ReloadRun
  <2>2. sess[s].op \in ResolveOps /\ sess[s].op # "retry"
    BY <1>4 DEF ReloadRun, ResolveOps
  <2>3. QED BY <2>1, <2>2 DEF FencedInv
<1>5. Known
  BY <1>1, <1>2, <1>3, <1>4 DEF Load
<1>6. QED BY <1>5, <1>a, <1>b DEF FencedInv, Retryable, Created

\* A commit ends the only session; what it saves was still true.
LEMMA CommitKeepsFenced ==
  ASSUME TypeOK, FencedCommands, FencedInv, NEW s \in Sessions, Commit(s) \/ Abort(s)
  PROVE  FencedInv'
<1>a. /\ sess' = [sess EXCEPT ![s] = IdleSession] /\ sess \in [Sessions -> [op : {"none"} \cup Ops, run : 0 .. MaxRuns,
           appr : 0 .. MaxApprovals, seen : RunStatus, wait : 0 .. MaxApprovals, task : {"none"} \cup TaskStatus]]
      /\ \A t \in Sessions : t = s
  BY DEF TypeOK, SessionsTypeOK, FencedCommands, Commit, StartRun, StartQueuedRun, EndRun, CancelRun,
         RetryFailedRun, RequestApproval, ResolveApproval, CancelTask, EndTask, Abort, Done, Closes
<1>b. \A t \in Sessions : sess'[t].op = "none"
  BY <1>a DEF IdleSession
<1>c. sess[s].op \in {"none"} \cup FencedOps
  BY <1>a DEF FencedCommands
<1>d. /\ status \in [Runs -> RunStatus] /\ waits \in [Runs -> 0 .. MaxApprovals]
      /\ \A a \in Approvals : appr[a].status = "pending" => appr[a].run \in Runs
      /\ sess[s].op \in ResolveOps => sess[s].run \in Runs /\ sess[s].appr \in Approvals
  BY DEF TypeOK, RunsTypeOK, SessionsTypeOK
<1> DEFINE Waiting == \A a \in Approvals : appr'[a].status = "pending" =>
                        status'[appr'[a].run] = "waiting_for_approval" /\ waits'[appr'[a].run] = a
<1>1. ASSUME StartRun(s) \/ RetryFailedRun(s) PROVE Waiting /\ task' \in {"pending", "active"}
  <2>1. PICK n \in Runs : status[n] = "none" /\ status' = [status EXCEPT ![n] = "queued"]
    BY Zenon, <1>1 DEF StartRun, RetryFailedRun, Fresh
  <2>2. UNCHANGED <<appr, waits>> /\ (task' = "active" \/ task' = task)
    BY <1>1 DEF StartRun, RetryFailedRun
  <2>3. QED BY <2>1, <2>2, <1>d DEF FencedInv
<1>2. ASSUME NEW op \in ResolveOps, NEW to \in TerminalApproval, ResolveApproval(s, op, to)
      PROVE  Waiting /\ task' \in {"pending", "active"}
  <2>1. /\ sess[s].op \in ResolveOps /\ UNCHANGED task
        /\ appr' = [appr EXCEPT ![sess[s].appr].status = to]
    BY <1>2 DEF ResolveApproval
  <2>2. appr[sess[s].appr].run = sess[s].run /\ appr[sess[s].appr].status = "pending"
    BY <2>1 DEF FencedInv
  <2>3. \A a \in Approvals : appr'[a].status = "pending" => a # sess[s].appr /\ appr'[a] = appr[a]
    BY <2>1, <1>d DEF TypeOK, RunsTypeOK, TerminalApproval
  <2>4. \A a \in Approvals : appr'[a].status = "pending" => appr[a].run # sess[s].run
    BY <2>1, <2>2, <2>3, <1>d, SMT DEF FencedInv
  <2>5. \A q \in Runs \ {sess[s].run} : status'[q] = status[q] /\ waits'[q] = waits[q]
    BY <1>2, <1>d DEF ResolveApproval
  <2>6. QED BY <2>1, <2>3, <2>4, <2>5, <1>d, SMT DEF FencedInv
<1>3. ASSUME Abort(s) PROVE Waiting /\ task' \in {"pending", "active"}
  BY <1>3 DEF Abort, runVars, FencedInv
<1>4. Waiting /\ task' \in {"pending", "active"}
  <2>1. \/ StartRun(s) \/ RetryFailedRun(s) \/ Abort(s)
        \/ \E op \in ResolveOps, to \in TerminalApproval : ResolveApproval(s, op, to)
    BY <1>c DEF Commit, StartQueuedRun, EndRun, CancelRun, RequestApproval, CancelTask, EndTask,
           ResolveOps, TerminalApproval, FencedOps
  <2>2. QED BY <2>1, <1>1, <1>2, <1>3
<1>5. QED BY <1>4, <1>b DEF FencedInv, ResolveOps

\* Starting, retrying and resolving one at a time beside any number of workers,
\* crashes and recoveries, no Run and no approval ever takes a transition its
\* class forbids: the detailed transactions implement Lifecycle.
THEOREM RunsKeepTheirLifecycle ==
  ASSUME FencedCommands
  PROVE  Spec => RunsFollow
<1>a. "cancelTask" \notin Ops
  BY DEF FencedCommands, FencedOps
<1>1. Init => FencedInv /\ RunRows!Init /\ ApprovalRows!Init
  BY SMT DEF Init, FencedInv, IdleSession, ResolveOps, RunRows!Init, ApprovalRows!Init
<1>2. ASSUME TypeOK, QueueInv, FencedInv, [Next]_vars PROVE FencedInv'
  <2>1. ASSUME TimeStep \/ UNCHANGED vars PROVE Undisturbed
    <3>1. UNCHANGED <<task, sess, status, waits, appr>>
      BY Zenon, <2>1 DEF TimeStep, LeaseLapses, LeaseStalls, LeaseEnds, BackoffElapses,
         RecoverExpiredLeases, runVars, vars
    <3>2. QED BY <3>1 DEF Undisturbed
  <2>2. QED
    BY <1>a, <1>2, <2>1, WorkersUndisturbing, UndisturbedKeepsFenced, LoadKeepsFenced, CommitKeepsFenced
       DEF Next
<1>3. ASSUME TypeOK, HeldInv, FencedInv, [Next]_vars PROVE RunRows!Next /\ ApprovalRows!Next
  BY <1>a, <1>3, FencedIsFresh, WorkerFollows, FreshCommandFollows, OthersFollow DEF Next
<1>4. Spec => [](TypeOK /\ QueueInv /\ HeldInv)
  BY <1>a, HeldInvariant
<1>5. QED
  BY <1>1, <1>2, <1>3, <1>4, PTL DEF Spec, RunsFollow, RunRows!Spec, ApprovalRows!Spec

-----------------------------------------------------------------------------
(* Lineages *)

INSTANCE FiniteSetTheorems

\* A Run something may still happen to: not settled, or with a row in the queue.
InPlay(r) == status[r] \in LiveRun \/ item[r].present

IsLatest(r) == \A q \in Created : exec[q] = exec[r] => q <= r

\* Runs are created in the order of their numbers, and a lineage is named after
\* its first Run.
OrderInv ==
  \A r \in Created : exec[r] \in 1 .. r /\ \A q \in Runs : q < r => q \in Created

\* Pending approvals, claims and loaded commands are about Runs that exist.
KnownInv ==
  /\ \A a \in Approvals : appr[a].status = "pending" => appr[a].run \in Created
  /\ \A w \in Workers : pc[w] \in Busy => claim[w].run \in Created
  /\ \A s \in Sessions : sess[s].op \in RunOps \cup ResolveOps => sess[s].run \in Created

\* Only the latest attempt of a lineage is in play.
LatestInv == ~overtaken => \A r \in Runs : InPlay(r) => IsLatest(r)

\* How a step may create Runs: not at all, or one, which opens a lineage, is
\* the operator's retry, or follows a Run in play that has attempts left.
Grows ==
  \/ Created' = Created /\ UNCHANGED exec
  \/ \E n \in Fresh, e \in Runs :
       /\ Created' = Created \cup {n}
       /\ exec' = [exec EXCEPT ![n] = e]
       /\ \/ e = n
          \/ "retry" \in Ops
          \/ \E r \in Created : InPlay(r) /\ exec[r] = e /\ Attempt(r) < MaxAttempts

\* A Run in play has been created.
LEMMA InPlayCreated ==
  ASSUME QueueInv, NEW r \in Runs, InPlay(r)
  PROVE  r \in Created
BY DEF QueueInv, QueueCoherence, Runnable, InPlay, Created, LiveRun

\* The next Run is numbered above all others.
LEMMA FreshIsAbove ==
  ASSUME OrderInv, NEW n \in Fresh
  PROVE  n \in Runs /\ n \notin Created /\ \A q \in Created : q < n
<1>1. n \in Runs /\ n \notin Created /\ n \in Int
  BY SMT DEF Fresh, Created, Runs
<1>2. ASSUME NEW q \in Created PROVE q < n
  <2>1. q \in Int /\ q # n /\ (n < q => n \in Created)
    BY <1>1, SMT DEF OrderInv, Created, Runs
  <2>2. QED
    BY <1>1, <2>1, SMT
<1>3. QED
  BY <1>1, <1>2

\* A step that creates no Run and brings none into play.
LEMMA SameRuns ==
  ASSUME TypeOK, OrderInv, LatestInv, UNCHANGED exec, Created' = Created,
         overtaken => overtaken',
         ~overtaken' => \A r \in Runs : InPlay(r)' => InPlay(r)
  PROVE  Grows /\ OrderInv' /\ LatestInv'
<1>1. OrderInv'
  BY DEF OrderInv
<1>2. LatestInv'
  BY DEF LatestInv, IsLatest
<1>3. QED
  BY <1>1, <1>2 DEF Grows

\* A step that creates Run n in the lineage e, of which no other Run stays in play.
LEMMA NewRun ==
  ASSUME TypeOK, TypeOK', QueueInv, QueueInv', OrderInv, LatestInv, NEW n \in Fresh, NEW e \in 1 .. n,
         exec' = [exec EXCEPT ![n] = e], Created' = Created \cup {n},
         overtaken => overtaken',
         ~overtaken' => \A q \in Created : InPlay(q)' => InPlay(q) /\ exec[q] # e,
         \/ e = n
         \/ "retry" \in Ops
         \/ \E r \in Created : InPlay(r) /\ exec[r] = e /\ Attempt(r) < MaxAttempts
  PROVE  Grows /\ OrderInv' /\ LatestInv'
<1>1. n \in Runs /\ n \notin Created /\ \A q \in Created : q < n
  BY FreshIsAbove
<1>2. exec'[n] = e /\ \A q \in Created : exec'[q] = exec[q]
  BY <1>1 DEF TypeOK, RunsTypeOK, Created
<1>3. \A q \in Runs : q < n => q \in Created
  BY DEF Fresh, Created
<1>4. OrderInv'
  BY <1>1, <1>2, <1>3 DEF OrderInv
<1>5. ASSUME ~overtaken', NEW r \in Runs, InPlay(r)' PROVE IsLatest(r)'
  <2>1. r \in Created'
    BY <1>5 DEF QueueInv, QueueCoherence, Runnable, InPlay, Created, LiveRun
  <2>2. CASE r = n
    <3>1. n \in Int /\ \A q \in Created : q \in Int
      BY <1>1, SMT DEF Runs, Created
    <3>2. \A q \in Created' : q <= n
      BY <1>1, <3>1, SMT
    <3>3. QED
      BY <2>2, <3>2 DEF IsLatest
  <2>3. CASE r \in Created
    <3>1. InPlay(r) /\ exec[r] # e
      BY <1>5, <2>3
    <3>2. IsLatest(r)
      BY <1>5, <3>1 DEF LatestInv
    <3>3. QED
      BY <1>2, <2>3, <3>1, <3>2 DEF IsLatest
  <2>4. QED
    BY <2>1, <2>2, <2>3
<1>6. Grows
  <2>1. e \in Runs
    BY <1>1, CoordinationAssumption, SMT DEF Runs
  <2>2. QED
    BY <2>1 DEF Grows
<1>7. QED
  BY <1>4, <1>5, <1>6 DEF LatestInv

\* A step that saves one Run and touches no other row: nothing but that Run can
\* come into play.
LEMMA SavedRun ==
  ASSUME TypeOK, OrderInv, LatestInv, UNCHANGED exec,
         NEW r \in Created, NEW to \in RunStatus \ {"none"},
         status' = [status EXCEPT ![r] = to],
         \A i \in Runs \ {r} : item'[i].present => item[i].present,
         overtaken => overtaken',
         ~overtaken' => InPlay(r) \/ ~InPlay(r)'
  PROVE  Grows /\ OrderInv' /\ LatestInv'
<1>1. status \in [Runs -> RunStatus] /\ r \in Runs
  BY DEF TypeOK, RunsTypeOK, Created
<1>2. Created' = Created
  BY <1>1 DEF Created
<1>3. ~overtaken' => \A i \in Runs : InPlay(i)' => InPlay(i)
  BY <1>1 DEF InPlay
<1>4. QED
  BY <1>2, <1>3, SameRuns

\* The worker loop.
LEMMA WorkerKeepsLatest ==
  ASSUME TypeOK, TypeOK', QueueInv, QueueInv', OrderInv, KnownInv, LatestInv,
         NEW w \in Workers, WorkerStep(w)
  PROVE  Grows /\ OrderInv' /\ LatestInv'
<1> DEFINE r == claim[w].run
<1>a. /\ item \in [Runs -> Item] /\ status \in [Runs -> RunStatus]
      /\ \A q \in Runs : item[q] \in Item
      /\ UNCHANGED overtaken
  BY DEF TypeOK, RunsTypeOK, WorkerStep, WorkerProgress, ClaimNextRun, ClaimRun, DropStaleItems, Decide,
         SucceedConflict, OutcomeFenced, OutcomeRejected, ApplySucceeded, ApplyFailed,
         RequeueClaimedRun, RequestToolApproval, ApplyWaiting, WaitingRejected, HeartbeatLost,
         HeartbeatFailed, Crash, Restart
<1>b. pc[w] \in Busy => r \in Created /\ r \in Runs
  BY DEF KnownInv, Created
<1>c. pc[w] = "applying" /\ Holds(w) => InPlay(r)
  BY DEF Holds, ClaimActive, InPlay
<1>1. CASE ClaimNextRun(w)
  <2>1. PICK q \in Runs, stale \in SUBSET StaleRows, tok \in FreshToken : ClaimRun(w, q, stale, tok)
    BY <1>1 DEF ClaimNextRun
  <2>2. q \in Created /\ InPlay(q) /\ status' = [status EXCEPT ![q] = "running"] /\ UNCHANGED exec
    BY <2>1 DEF ClaimRun, Runnable, Created, InPlay, Claimable
  <2>3. \A i \in Runs \ {q} : item'[i].present => item[i].present
    BY <2>1, <1>a DEF ClaimRun, NoItem
  <2>4. QED
    BY <2>2, <2>3, <1>a, SavedRun DEF RunStatus, LiveRun
<1>2. CASE DropStaleItems(w)
  <2>1. \A i \in Runs : item'[i].present => item[i].present
    BY <1>2, <1>a, SMT DEF DropStaleItems, NoItem
  <2>2. UNCHANGED <<status, exec>> /\ Created' = Created
    BY <1>2 DEF DropStaleItems, Created
  <2>3. QED
    BY <2>1, <2>2, <1>a, SameRuns DEF InPlay
<1>3. CASE UNCHANGED <<status, item, exec>>
  <2>1. Created' = Created
    BY <1>3 DEF Created
  <2>2. QED
    BY <1>3, <2>1, <1>a, SameRuns DEF InPlay
<1>4. CASE ApplySucceeded(w)
  <2>1. r \in Created /\ InPlay(r) /\ status' = [status EXCEPT ![r] = "succeeded"] /\ UNCHANGED exec
    BY <1>4, <1>b, <1>c DEF ApplySucceeded, Busy
  <2>2. \A i \in Runs \ {r} : item'[i].present => item[i].present
    BY <1>4, <1>a DEF ApplySucceeded
  <2>3. QED
    BY <2>1, <2>2, <1>a, SavedRun DEF RunStatus, TerminalRun
<1>5. CASE ApplyFailed(w)
  <2>1. r \in Created /\ r \in Runs /\ InPlay(r)
    BY <1>5, <1>b, <1>c DEF ApplyFailed, Busy
  <2>2. CASE RetryAllowed(r, out[w])
    <3>1. PICK n \in Fresh :
            /\ status' = [status EXCEPT ![r] = "failed", ![n] = "queued"]
            /\ exec' = [exec EXCEPT ![n] = exec[r]]
            /\ item' = [item EXCEPT ![r] = NoItem, ![n] = Enqueue(@, FALSE)]
      BY Zenon, <1>5, <2>2 DEF ApplyFailed
    <3>2. n \in Runs /\ n \notin Created /\ r < n
      BY <2>1, FreshIsAbove
    <3>3. Created' = Created \cup {n}
      BY <1>a, <2>1, <3>1, <3>2 DEF Created
    <3>4. exec[r] \in 1 .. n
      BY <2>1, <3>2, SMT DEF OrderInv, Runs
    <3>5. \A q \in Runs : q = r => ~InPlay(q)'
      <4>1. r \in Runs /\ n \in Runs /\ r # n
        BY <2>1, <3>2
      <4>2. status'[r] = "failed" /\ item'[r] = NoItem
        BY Zenon, <1>a, <3>1, <4>1
      <4>3. QED
        BY <4>2, SMT DEF InPlay, LiveRun, NoItem
    <3>6. ASSUME ~overtaken', NEW q \in Created, InPlay(q)' PROVE InPlay(q) /\ exec[q] # exec[r]
      <4>1. q \in Runs /\ q # r /\ q # n
        <5>1. q \in Runs /\ q # n
          BY <3>2, <3>6 DEF Created
        <5>2. QED
          BY <5>1, <3>5, <3>6
      <4>2. item'[q] = item[q] /\ status'[q] = status[q]
        BY Zenon, <1>a, <3>1, <4>1
      <4>3. InPlay(q)
        BY <3>6, <4>2 DEF InPlay
      <4>4. IsLatest(q) /\ IsLatest(r)
        BY <1>a, <2>1, <3>6, <4>1, <4>3 DEF LatestInv
      <4>5. QED
        BY <2>1, <4>1, <4>3, <4>4, SMT DEF IsLatest, Runs
    <3>7. QED
      <4>1. Attempt(r) < MaxAttempts
        BY <2>2 DEF RetryAllowed
      <4>2. QED
        BY <1>a, <2>1, <3>1, <3>3, <3>4, <3>6, <4>1, NewRun
  <2>3. CASE ~RetryAllowed(r, out[w])
    <3>1. status' = [status EXCEPT ![r] = "failed"] /\ UNCHANGED exec
      BY <1>5, <2>3 DEF ApplyFailed
    <3>2. \A i \in Runs \ {r} : item'[i].present => item[i].present
      BY <1>5, <2>3, <1>a DEF ApplyFailed
    <3>3. QED
      BY <2>1, <3>1, <3>2, <1>a, SavedRun DEF RunStatus, TerminalRun
  <2>4. QED
    BY <2>2, <2>3
<1>6. CASE RequeueClaimedRun(w)
  <2>1. r \in Runs /\ Requeue(item[r], TRUE).present = item[r].present
    BY Zenon, <1>6, <1>a, <1>b, Presence DEF RequeueClaimedRun, Busy
  <2>2. \A i \in Runs : item'[i].present => item[i].present
    BY Zenon, <1>6, <1>a, <2>1 DEF RequeueClaimedRun
  <2>3. UNCHANGED <<status, exec>> /\ Created' = Created
    BY <1>6 DEF RequeueClaimedRun, Created
  <2>4. QED
    BY <2>2, <2>3, <1>a, SameRuns DEF InPlay
<1>7. CASE RequestToolApproval(w)
  <2>1. /\ r \in Created /\ InPlay(r) /\ UNCHANGED exec
        /\ status' = [status EXCEPT ![r] = "waiting_for_approval"]
    BY <1>7, <1>b, <1>c DEF RequestToolApproval, Busy
  <2>2. \A i \in Runs \ {r} : item'[i].present => item[i].present
    BY <1>7, <1>a DEF RequestToolApproval
  <2>3. QED
    BY <2>1, <2>2, <1>a, SavedRun DEF RunStatus, LiveRun
<1>8. CASE ApplyWaiting(w)
  <2>1. \A i \in Runs : item'[i].present => item[i].present
    BY <1>8, <1>a, <1>b DEF ApplyWaiting, NoItem, Busy
  <2>2. UNCHANGED <<status, exec>> /\ Created' = Created
    BY <1>8 DEF ApplyWaiting, Created
  <2>3. QED
    BY <2>1, <2>2, <1>a, SameRuns DEF InPlay
<1>9. QED
  BY <1>1, <1>2, <1>3, <1>4, <1>5, <1>6, <1>7, <1>8
     DEF WorkerStep, WorkerProgress, runVars, Decide, SucceedConflict, OutcomeFenced, OutcomeRejected,
         WaitingRejected, HeartbeatLost, HeartbeatFailed, Crash, Restart

\* The passing of time and the maintenance tick.
LEMMA TimeKeepsLatest ==
  ASSUME TypeOK, OrderInv, LatestInv, TimeStep
  PROVE  Grows /\ OrderInv' /\ LatestInv'
<1>a. /\ item \in [Runs -> Item] /\ (\A q \in Runs : item[q] \in Item)
      /\ UNCHANGED <<status, exec, overtaken>>
  BY DEF TypeOK, RunsTypeOK, TimeStep, LeaseLapses, LeaseStalls, LeaseEnds, BackoffElapses,
         RecoverExpiredLeases
<1>b. Created' = Created
  BY <1>a DEF Created
<1>1. ASSUME NEW r \in Runs, LeaseEnds(r) \/ BackoffElapses(r)
      PROVE  \A i \in Runs : item'[i].present = item[i].present
  BY <1>1, <1>a DEF LeaseEnds, BackoffElapses, Item
<1>2. CASE RecoverExpiredLeases
  <2>1. \A i \in Runs : item'[i] \in {item[i], Unclaimed(item[i]), NoItem}
    BY <1>2 DEF RecoverExpiredLeases
  <2>2. \A i \in Runs : item'[i].present => item[i].present
    BY <1>a, <2>1, Presence DEF NoItem
  <2>3. QED
    BY <1>a, <1>b, <2>2, SameRuns DEF InPlay
<1>3. CASE \E r \in Runs : LeaseEnds(r) \/ BackoffElapses(r)
  BY <1>3, <1>1, <1>a, <1>b, SameRuns DEF InPlay
<1>4. QED
  BY <1>2, <1>3 DEF TimeStep, LeaseLapses, LeaseStalls

\* A stale command stays recorded.
LEMMA DoneRecords ==
  ASSUME NEW s \in Sessions, Done(s)
  PROVE  (overtaken => overtaken') /\ (~overtaken' => ~overtaken /\ ~Stale(s))
BY DEF Done

\* The commands, as they commit.
LEMMA CommitKeepsLatest ==
  ASSUME TypeOK, TypeOK', QueueInv, QueueInv', OrderInv, KnownInv, LatestInv,
         NEW s \in Sessions, Commit(s)
  PROVE  Grows /\ OrderInv' /\ LatestInv'
<1> DEFINE r == sess[s].run
<1>a. /\ item \in [Runs -> Item] /\ status \in [Runs -> RunStatus]
      /\ \A q \in Runs : item[q] \in Item
  BY DEF TypeOK, RunsTypeOK
<1>b. sess[s].op \in RunOps \cup ResolveOps => r \in Created /\ r \in Runs
  BY DEF KnownInv, Created
<1>c. (overtaken => overtaken') /\ (~overtaken' => ~overtaken /\ ~Stale(s))
  BY DoneRecords DEF Commit, StartRun, StartQueuedRun, EndRun, CancelRun, RetryFailedRun,
     RequestApproval, ResolveApproval, CancelTask, EndTask
<1>d. ~overtaken' /\ sess[s].op \in RunOps => RunLoads(sess[s].op, r)
  BY <1>c DEF Stale, RunOps, ResolveOps
<1>1. ASSUME NEW n \in Fresh, NEW e \in 1 .. n,
             status' = [status EXCEPT ![n] = "queued"], exec' = [exec EXCEPT ![n] = e],
             item' = [item EXCEPT ![n] = Enqueue(@, TRUE)],
             ~overtaken' => \A q \in Created : InPlay(q) => exec[q] # e,
             e = n \/ "retry" \in Ops
      PROVE  Grows /\ OrderInv' /\ LatestInv'
  <2>1. n \in Runs /\ n \notin Created
    BY FreshIsAbove
  <2>2. Created' = Created \cup {n}
    BY <1>1, <1>a, <2>1 DEF Created
  <2>3. \A q \in Created : InPlay(q)' => InPlay(q)
    <3>1. \A q \in Created : q \in Runs /\ q # n
      BY <2>1 DEF Created
    <3>2. \A q \in Created : item'[q] = item[q] /\ status'[q] = status[q]
      BY Zenon, <1>1, <1>a, <3>1
    <3>3. QED
      BY <3>2 DEF InPlay
  <2>4. QED
    BY <1>1, <1>c, <2>2, <2>3, NewRun
<1>2. CASE StartRun(s)
  <2>1. PICK n \in Fresh :
          /\ status' = [status EXCEPT ![n] = "queued"]
          /\ exec' = [exec EXCEPT ![n] = n]
          /\ item' = [item EXCEPT ![n] = Enqueue(@, TRUE)]
    BY <1>2 DEF StartRun
  <2>2. n \in 1 .. n /\ \A q \in Created : exec[q] # n
    BY FreshIsAbove, SMT DEF OrderInv, Runs, Created
  <2>3. QED
    BY <1>1, <2>1, <2>2
<1>3. CASE RetryFailedRun(s)
  <2>1. PICK n \in Fresh :
          /\ status' = [status EXCEPT ![n] = "queued"]
          /\ exec' = [exec EXCEPT ![n] = exec[r]]
          /\ item' = [item EXCEPT ![n] = Enqueue(@, TRUE)]
    BY <1>3 DEF RetryFailedRun
  <2>2. r \in Created /\ r \in Runs /\ sess[s].op = "retry"
    BY <1>3, <1>b DEF RetryFailedRun, RunOps
  <2>3. exec[r] \in 1 .. n
    BY <2>2, FreshIsAbove, SMT DEF OrderInv, Runs
  <2>4. ASSUME ~overtaken', NEW q \in Created, InPlay(q) PROVE exec[q] # exec[r]
    <3>1. Retryable(r) /\ q \in Runs
      BY <1>d, <2>2, <2>4 DEF RunLoads, RunOps, Created
    <3>2. q <= r /\ status[q] \in TerminalRun /\ status[r] = "failed"
      BY <2>4, <3>1 DEF Retryable
    <3>3. IsLatest(q)
      BY <1>c, <2>4, <3>1 DEF LatestInv
    <3>4. exec[q] = exec[r] => q = r
      BY <2>2, <3>1, <3>2, <3>3, SMT DEF IsLatest, Runs
    <3>5. ~item[r].present
      BY <2>2, <3>2 DEF QueueInv, QueueCoherence, Runnable
    <3>6. QED
      BY <2>4, <3>2, <3>4, <3>5 DEF InPlay, TerminalRun, LiveRun
  <2>5. "retry" \in Ops
    BY <2>2 DEF TypeOK, SessionsTypeOK
  <2>6. QED
    BY <1>1, <2>1, <2>3, <2>4, <2>5
<1>4. ASSUME NEW op \in RunOps, sess[s].op = op, NEW to \in RunStatus \ {"none"}, UNCHANGED exec,
             status' = [status EXCEPT ![r] = to],
             item' = [item EXCEPT ![r] = NoItem] \/ UNCHANGED item,
             ~overtaken' => InPlay(r) \/ (to \in TerminalRun /\ item' = [item EXCEPT ![r] = NoItem])
      PROVE  Grows /\ OrderInv' /\ LatestInv'
  <2>1. r \in Created /\ r \in Runs
    BY <1>4, <1>b
  <2>2. \A i \in Runs \ {r} : item'[i].present => item[i].present
    BY <1>4, <1>a
  <2>3. ~overtaken' => InPlay(r) \/ \A q \in Runs : q = r => ~InPlay(q)'
    BY <1>4, <1>a, <2>1, SMT DEF InPlay, NoItem, TerminalRun, LiveRun
  <2>4. QED
    BY <1>4, <1>c, <2>1, <2>2, <2>3, SavedRun
<1>5. CASE StartQueuedRun(s)
  <2>1. ~overtaken' => InPlay(r)
    BY <1>5, <1>d DEF StartQueuedRun, RunLoads, RunOps, InPlay, LiveRun
  <2>2. QED
    BY <1>5, <2>1, <1>4 DEF StartQueuedRun, RunOps, RunStatus, LiveRun
<1>6. ASSUME NEW op \in RunOps, NEW to \in TerminalRun, EndRun(s, op, to)
      PROVE  Grows /\ OrderInv' /\ LatestInv'
  BY <1>6, <1>4 DEF EndRun, RunStatus, TerminalRun
<1>7. CASE CancelRun(s)
  BY <1>7, <1>4 DEF CancelRun, RunOps, RunStatus, TerminalRun
<1>8. CASE RequestApproval(s)
  <2>1. ~overtaken' => InPlay(r)
    BY <1>8, <1>d DEF RequestApproval, RunLoads, RunOps, InPlay, LiveRun
  <2>2. QED
    BY <1>8, <2>1, <1>4 DEF RequestApproval, RunOps, RunStatus, LiveRun
<1>9. ASSUME NEW op \in ResolveOps, NEW to, ResolveApproval(s, op, to)
      PROVE  Grows /\ OrderInv' /\ LatestInv'
  <2>1. r \in Created /\ r \in Runs /\ sess[s].op = op /\ UNCHANGED exec
    BY <1>9, <1>b DEF ResolveApproval
  <2>2. CASE Resumes(s)
    <3>1. item' = [item EXCEPT ![r] = Enqueue(@, TRUE)] /\ status' = [status EXCEPT ![r] = "running"]
      BY Zenon, <1>9, <2>2 DEF ResolveApproval
    <3>2. \A i \in Runs \ {r} : item'[i].present => item[i].present
      BY <3>1, <1>a
    <3>3. ~overtaken' => status[r] = sess[s].seen
      BY <1>c, <2>1 DEF Stale, RunOps, ResolveOps
    <3>4. ~overtaken' => InPlay(r)
      BY <2>2, <3>3 DEF Resumes, InPlay, LiveRun
    <3>5. QED
      BY <1>c, <2>1, <3>1, <3>2, <3>4, SavedRun DEF RunStatus, LiveRun
  <2>3. CASE ~Resumes(s)
    <3>1. UNCHANGED <<status, item>>
      BY <1>9, <2>3 DEF ResolveApproval
    <3>2. Created' = Created
      BY <3>1 DEF Created
    <3>3. QED
      BY <1>c, <2>1, <3>1, <3>2, SameRuns DEF InPlay
  <2>4. QED
    BY <2>2, <2>3
<1>10. CASE CancelTask(s)
  <2>1. /\ UNCHANGED <<item, exec>>
        /\ \A i \in Runs : status'[i] = status[i] \/ (status[i] \in LiveRun /\ status'[i] = "cancelled")
    BY <1>10 DEF CancelTask
  <2>2. Created' = Created
    BY <2>1 DEF Created, LiveRun
  <2>3. QED
    BY <1>c, <2>1, <2>2, SameRuns DEF InPlay
<1>11. CASE UNCHANGED <<status, item, exec>>
  <2>1. Created' = Created
    BY <1>11 DEF Created
  <2>2. QED
    BY <1>c, <1>11, <2>1, SameRuns DEF InPlay
<1>12. QED
  BY <1>2, <1>3, <1>5, <1>6, <1>7, <1>8, <1>9, <1>10, <1>11
     DEF Commit, EndTask, ResolveOps, RunOps, TerminalRun

\* No step leaves an approval, a claim or a loaded command without its Run.
LEMMA KnownNext ==
  ASSUME TypeOK, QueueInv, KnownInv, Created \subseteq Created', Next
  PROVE  KnownInv'
<1> DEFINE ApprKnown == \A a \in Approvals : appr[a].status = "pending" => appr[a].run \in Created
           ClaimsKnown == \A w \in Workers : pc[w] \in Busy => claim[w].run \in Created
           SessKnown == \A s \in Sessions : sess[s].op \in RunOps \cup ResolveOps => sess[s].run \in Created
<1>a. ApprKnown /\ ClaimsKnown /\ SessKnown
  BY DEF KnownInv
<1>b. /\ pc \in [Workers -> {"idle", "processing", "applying", "parked", "down"}]
      /\ claim \in [Workers -> [run : 0 .. MaxRuns, token : Tokens \cup {Nobody}, gen : Nat]]
      /\ DOMAIN appr = Approvals /\ DOMAIN sess = Sessions
  BY DEF TypeOK, RunsTypeOK, WorkersTypeOK, SessionsTypeOK
<1>c. /\ UNCHANGED appr => ApprKnown'
      /\ UNCHANGED <<pc, claim>> => ClaimsKnown'
      /\ UNCHANGED sess => SessKnown'
  BY <1>a
<1>1. ASSUME NEW w \in Workers, NEW to \in {"idle", "down"}, Leaves(w, to) PROVE ClaimsKnown'
  BY <1>1, <1>a, <1>b DEF Leaves, Busy
<1>2. ASSUME NEW r \in Created, NEW a \in FreshApproval, NEW d,
             appr' = [appr EXCEPT ![a] = [run |-> r, status |-> "pending", deadline |-> d]]
      PROVE  ApprKnown'
  BY <1>2, <1>a, <1>b DEF FreshApproval
<1>3. ASSUME NEW w \in Workers, WorkerStep(w) PROVE KnownInv'
  <2>1. UNCHANGED sess
    BY <1>3 DEF WorkerStep, WorkerProgress, ClaimNextRun, ClaimRun, DropStaleItems, Decide,
       SucceedConflict, OutcomeFenced, OutcomeRejected, ApplySucceeded, ApplyFailed,
       RequeueClaimedRun, RequestToolApproval, ApplyWaiting, WaitingRejected, HeartbeatLost,
       HeartbeatFailed, Crash, Restart
  <2>2. CASE ClaimNextRun(w)
    <3>1. PICK q \in Runs, stale \in SUBSET StaleRows, tok \in FreshToken : ClaimRun(w, q, stale, tok)
      BY <2>2 DEF ClaimNextRun
    <3>2. q \in Created
      BY <3>1 DEF ClaimRun, Runnable, Created
    <3>3. claim'[w].run = q /\ \A v \in Workers \ {w} : claim'[v] = claim[v] /\ pc'[v] = pc[v]
      BY <3>1, <1>b DEF ClaimRun
    <3>4. ClaimsKnown' /\ UNCHANGED appr
      BY <3>1, <3>2, <3>3, <1>a DEF ClaimRun
    <3>5. QED
      BY <3>4, <2>1, <1>c DEF KnownInv
  <2>3. CASE RequestToolApproval(w)
    <3>1. claim[w].run \in Created /\ claim' = claim /\ \A v \in Workers : pc'[v] \in Busy => pc[v] \in Busy
      BY <2>3, <1>a, <1>b DEF RequestToolApproval, Busy
    <3>2. ApprKnown'
      BY <2>3, <3>1, <1>2 DEF RequestToolApproval
    <3>3. ClaimsKnown'
      BY <3>1, <1>a
    <3>4. QED
      BY <3>2, <3>3, <2>1, <1>c DEF KnownInv
  <2>4. CASE \E outcome \in Outcomes : Decide(w, outcome)
    <3>1. UNCHANGED <<claim, appr>> /\ \A v \in Workers : pc'[v] \in Busy => pc[v] \in Busy
      BY <2>4, <1>b DEF Decide, Busy, runVars
    <3>2. QED
      BY <3>1, <2>1, <1>a, <1>c DEF KnownInv
  <2>5. CASE Restart(w)
    <3>1. UNCHANGED <<claim, appr>> /\ \A v \in Workers : pc'[v] \in Busy => pc[v] \in Busy
      BY <2>5, <1>b DEF Restart, Busy, runVars
    <3>2. QED
      BY <3>1, <2>1, <1>a, <1>c DEF KnownInv
  <2>6. CASE DropStaleItems(w)
    BY <2>6, <2>1, <1>c DEF DropStaleItems, workerVars, KnownInv
  <2>7. CASE UNCHANGED appr /\ \E to \in {"idle", "down"} : Leaves(w, to)
    BY <2>7, <2>1, <1>1, <1>c DEF KnownInv
  <2>8. QED
    BY <1>3, <2>2, <2>3, <2>4, <2>5, <2>6, <2>7
       DEF WorkerStep, WorkerProgress, SucceedConflict, OutcomeFenced, OutcomeRejected, ApplySucceeded,
           ApplyFailed, RequeueClaimedRun, ApplyWaiting, WaitingRejected, HeartbeatLost,
           HeartbeatFailed, Crash, runVars
<1>4. CASE TimeStep
  BY <1>4, <1>c DEF TimeStep, LeaseLapses, LeaseStalls, LeaseEnds, BackoffElapses, RecoverExpiredLeases,
                    workerVars, KnownInv
<1>5. ASSUME NEW s \in Sessions, Load(s) PROVE KnownInv'
  <2>1. UNCHANGED appr /\ UNCHANGED <<pc, claim>>
    BY <1>5 DEF Load, LoadRun, LoadApproval, ReloadRun, LoadTask, runVars, workerVars
  <2>2. ASSUME NEW op, NEW r \in Runs, LoadRun(s, op, r) PROVE SessKnown'
    <3>1. r \in Created
      BY <2>2 DEF LoadRun, RunLoads, RunOps, Retryable, LiveRun, Created
    <3>2. sess'[s].run = r /\ \A t \in Sessions \ {s} : sess'[t] = sess[t]
      BY <2>2, <1>b DEF LoadRun, IdleSession
    <3>3. QED
      BY <3>1, <3>2, <1>a
  <2>3. ASSUME NEW op, NEW a \in Approvals, LoadApproval(s, op, a) PROVE SessKnown'
    <3>1. appr[a].run \in Created
      BY <2>3, <1>a DEF LoadApproval
    <3>2. sess'[s].run = appr[a].run /\ \A t \in Sessions \ {s} : sess'[t] = sess[t]
      BY <2>3, <1>b DEF LoadApproval, IdleSession
    <3>3. QED
      BY <3>1, <3>2, <1>a
  <2>4. ASSUME NEW op, LoadTask(s, op) PROVE SessKnown'
    <3>1. sess'[s].op \in TaskOps /\ \A t \in Sessions \ {s} : sess'[t] = sess[t]
      BY <2>4, <1>b DEF LoadTask, IdleSession
    <3>2. QED
      BY <3>1, <1>a DEF TaskOps, RunOps, ResolveOps
  <2>5. CASE ReloadRun(s)
    <3>1. \A t \in Sessions : sess'[t].run = sess[t].run /\ sess'[t].op = sess[t].op
      BY <2>5 DEF ReloadRun, TypeOK, SessionsTypeOK
    <3>2. SessKnown'
      BY <3>1, <1>a
    <3>3. QED
      BY <3>2, <2>1, <1>c DEF KnownInv
  <2>6. QED
    BY <1>5, <2>1, <2>2, <2>3, <2>4, <2>5, <1>c DEF Load, KnownInv
<1>6. ASSUME NEW s \in Sessions, Commit(s) \/ Abort(s) PROVE KnownInv'
  <2>1. UNCHANGED <<pc, claim>> /\ Closes(s)
    BY <1>6 DEF Commit, StartRun, StartQueuedRun, EndRun, CancelRun, RetryFailedRun,
       RequestApproval, ResolveApproval, CancelTask, EndTask, Done, Abort, workerVars
  <2>2. SessKnown'
    BY <2>1, <1>a, <1>b DEF Closes, IdleSession, RunOps, ResolveOps
  <2>3. CASE RequestApproval(s)
    <3>1. sess[s].run \in Created
      BY <2>3, <1>a DEF RequestApproval, RunOps
    <3>2. ApprKnown'
      BY <2>3, <3>1, <1>2 DEF RequestApproval
    <3>3. QED
      BY <3>2, <2>1, <2>2, <1>c DEF KnownInv
  <2>4. CASE CancelRun(s)
    <3>1. \A a \in Approvals : appr'[a] = appr[a] \/ appr'[a].status = "cancelled"
      BY <2>4 DEF CancelRun, TypeOK, RunsTypeOK
    <3>2. QED
      BY <3>1, <2>1, <2>2, <1>a, <1>c DEF KnownInv
  <2>5. ASSUME NEW op, NEW to \in TerminalApproval, ResolveApproval(s, op, to) PROVE KnownInv'
    <3>1. \A a \in Approvals : appr'[a] = appr[a] \/ appr'[a].status = to
      BY <2>5 DEF ResolveApproval, TypeOK, RunsTypeOK
    <3>2. QED
      BY <3>1, <2>1, <2>2, <1>a, <1>c DEF KnownInv, TerminalApproval
  <2>6. CASE UNCHANGED appr
    BY <2>6, <2>1, <2>2, <1>c DEF KnownInv
  <2>7. QED
    BY <1>6, <2>3, <2>4, <2>5, <2>6
       DEF Commit, StartRun, StartQueuedRun, EndRun, RetryFailedRun, CancelTask, EndTask, Abort,
           runVars, TerminalApproval
<1>7. QED
  BY <1>3, <1>4, <1>5, <1>6 DEF Next

LineageInv == OrderInv /\ KnownInv /\ LatestInv

\* Retries, takeovers, recoveries and commands keep the lineages in order.
LEMMA LineageNext ==
  ASSUME TypeOK, TypeOK', QueueInv, QueueInv', LineageInv, [Next]_vars
  PROVE  LineageInv' /\ Grows
<1> USE DEF LineageInv
<1>1. CASE UNCHANGED vars
  <2>1. /\ UNCHANGED <<status, exec, item, appr, pc, claim, sess, overtaken>>
        /\ Created' = Created
    BY <1>1 DEF vars, runVars, workerVars, Created
  <2>2. QED
    BY <2>1, SameRuns DEF InPlay, KnownInv
<1>2. ASSUME NEW s \in Sessions, Load(s) \/ Abort(s) PROVE Grows /\ OrderInv' /\ LatestInv'
  <2>1. UNCHANGED <<status, exec, item, overtaken>> /\ Created' = Created
    BY Zenon, <1>2 DEF Load, LoadRun, LoadApproval, ReloadRun, LoadTask, Abort, runVars, Created
  <2>2. QED
    BY <2>1, SameRuns DEF InPlay
<1>3. CASE Next
  <2>1. Grows /\ OrderInv' /\ LatestInv'
    BY <1>2, <1>3, WorkerKeepsLatest, TimeKeepsLatest, CommitKeepsLatest DEF Next
  <2>2. Created \subseteq Created'
    BY <2>1 DEF Grows
  <2>3. QED
    BY <1>3, <2>1, <2>2, KnownNext
<1>4. QED
  BY <1>1, <1>3

\* Nothing has been created at first.
LEMMA LineageInit == Init => LineageInv
BY SMT DEF Init, LineageInv, OrderInv, KnownInv, LatestInv, InPlay, LiveRun, NoItem, Created, Busy,
       IdleSession, RunOps, ResolveOps

\* The lineages stay in order.
LEMMA LineagesInOrder == Spec => [](TypeOK /\ QueueInv /\ LineageInv)
<1>1. Init => QueueInv
  BY SMT DEF Init, QueueInv, QueueCoherence, NoLostWork, Runnable, NoItem
<1>2. QED
  BY <1>1, TypeInit, TypeNext, QueueNext, LineageInit, LineageNext, PTL DEF Spec

\* A lineage never has two attempts alive at once, for any workers, crashes,
\* lease takeovers and concurrent commands, as long as none of the commands is
\* committed after what it read has changed: ApplyFailedOutcome retries a Run
\* only under its row, and RetryFailedRun only when nothing else is in play.
THEOREM LineageHasOneLiveAttempt == Spec => []OneLiveAttempt
<1>1. ASSUME TypeOK, LineageInv PROVE OneLiveAttempt
  <2>1. ASSUME ~overtaken, NEW q \in Created, NEW r \in Created, exec[q] = exec[r],
               status[q] \in LiveRun, status[r] \in LiveRun
        PROVE  q = r
    <3>1. q \in Runs /\ r \in Runs /\ InPlay(q) /\ InPlay(r)
      BY <2>1 DEF Created, InPlay
    <3>2. IsLatest(q) /\ IsLatest(r)
      BY <1>1, <2>1, <3>1 DEF LineageInv, LatestInv
    <3>3. q <= r /\ r <= q
      BY <2>1, <3>2 DEF IsLatest
    <3>4. QED
      BY <3>1, <3>3, SMT DEF Runs
  <2>2. QED
    BY <2>1 DEF OneLiveAttempt
<1>2. QED
  BY <1>1, LineagesInOrder, PTL

\* The attempts up to r, in its lineage.
AttemptsUpTo(r) == {q \in Created : exec[q] = exec[r] /\ q <= r}

\* They can be counted.
LEMMA AttemptsFinite ==
  ASSUME NEW r
  PROVE  IsFiniteSet(AttemptsUpTo(r)) /\ Attempt(r) = Cardinality(AttemptsUpTo(r)) /\ Attempt(r) \in Nat
<1>1. IsFiniteSet(Runs) /\ AttemptsUpTo(r) \in SUBSET Runs
  BY FS_Interval, CoordinationAssumption, SMT DEF Runs, AttemptsUpTo, Created
<1>2. IsFiniteSet(AttemptsUpTo(r)) /\ Attempt(r) = Cardinality(AttemptsUpTo(r))
  BY <1>1, FS_Subset DEF AttemptsUpTo, Attempt
<1>3. QED
  BY <1>2, FS_CardinalityType

\* Every step keeps the attempts within the bound: the one step that adds to a
\* lineage does so after its latest attempt, which RetryPolicy has found below it.
LEMMA AttemptsNext ==
  ASSUME TypeOK, LineageInv, Grows, overtaken => overtaken', AttemptsBounded
  PROVE  AttemptsBounded'
<1> SUFFICES ASSUME "retry" \notin Ops, ~overtaken, NEW q \in Created'
             PROVE  Attempt(q)' <= MaxAttempts
  BY DEF AttemptsBounded
<1>1. \A p \in Created : Attempt(p) <= MaxAttempts
  BY DEF AttemptsBounded
<1>2. CASE Created' = Created /\ UNCHANGED exec
  BY <1>1, <1>2 DEF Attempt
<1>3. ASSUME NEW n \in Fresh, NEW e \in Runs, Created' = Created \cup {n}, exec' = [exec EXCEPT ![n] = e],
             \/ e = n
             \/ \E r \in Created : InPlay(r) /\ exec[r] = e /\ Attempt(r) < MaxAttempts
      PROVE  Attempt(q)' <= MaxAttempts
  <2>1. n \in Runs /\ n \notin Created /\ (\A p \in Created : p < n) /\ Created \subseteq Runs
    BY FreshIsAbove DEF LineageInv, Created
  <2>2. exec'[n] = e /\ \A p \in Created : exec'[p] = exec[p]
    BY <1>3, <2>1 DEF TypeOK, RunsTypeOK
  <2>3. CASE q \in Created
    <3>1. {p \in Created' : exec'[p] = exec'[q] /\ p <= q} = AttemptsUpTo(q)
      BY <1>3, <2>1, <2>2, <2>3, SMT DEF AttemptsUpTo, Runs
    <3>2. QED
      BY <1>1, <2>3, <3>1, AttemptsFinite DEF Attempt
  <2>4. CASE q = n /\ e = n
    <3>1. {p \in Created' : exec'[p] = exec'[q] /\ p <= q} = {n}
      <4>1. n \in Int /\ Created \subseteq Int
        BY <2>1, SMT DEF Runs
      <4>2. \A p \in Created : exec[p] # n
        BY <2>1, <4>1, SMT DEF LineageInv, OrderInv
      <4>3. n <= q /\ exec'[q] = n
        BY <2>2, <2>4, <4>1, SMT
      <4>4. QED
        BY <1>3, <2>2, <4>2, <4>3
    <3>2. Attempt(q)' = Cardinality({n})
      BY <3>1 DEF Attempt
    <3>3. Cardinality({n}) = 1 /\ 1 <= MaxAttempts
      BY FS_Singleton, CoordinationAssumption, SMT
    <3>4. QED
      BY <3>2, <3>3
  <2>5. ASSUME NEW r \in Created, q = n, InPlay(r), exec[r] = e, Attempt(r) < MaxAttempts
        PROVE  Attempt(q)' <= MaxAttempts
    <3>1. IsLatest(r)
      BY <2>1, <2>5 DEF LineageInv, LatestInv
    <3>2. {p \in Created' : exec'[p] = exec'[q] /\ p <= q} = AttemptsUpTo(r) \cup {n}
      <4>1. n \in Int /\ Created \subseteq Int
        BY <2>1, SMT DEF Runs
      <4>2. \A p \in Created : p <= q
        BY <2>1, <2>5, <4>1, SMT
      <4>3. \A p \in Created : exec[p] = e => p <= r
        BY <2>5, <3>1 DEF IsLatest
      <4>4. n <= q /\ exec'[q] = e
        BY <2>2, <2>5, <4>1, SMT
      <4>5. QED
        BY <1>3, <2>2, <2>5, <4>2, <4>3, <4>4 DEF AttemptsUpTo
    <3>3. n \notin AttemptsUpTo(r)
      BY <2>1 DEF AttemptsUpTo
    <3>4. Cardinality(AttemptsUpTo(r) \cup {n}) = Attempt(r) + 1
      BY <3>3, AttemptsFinite, FS_AddElement
    <3>5. Attempt(r) + 1 <= MaxAttempts
      BY <2>5, AttemptsFinite, CoordinationAssumption, SMT
    <3>6. Attempt(q)' = Cardinality({p \in Created' : exec'[p] = exec'[q] /\ p <= q})
      BY DEF Attempt
    <3>7. QED
      BY <3>2, <3>4, <3>5, <3>6
  <2>6. QED
    BY <1>3, <2>3, <2>4, <2>5
<1>4. QED
  BY <1>2, <1>3 DEF Grows

\* The record of stale commits is never erased.
LEMMA OvertakenStays == [Next]_vars => (overtaken => overtaken')
<1> SUFFICES ASSUME [Next]_vars, overtaken PROVE overtaken'
  OBVIOUS
<1>1. ASSUME NEW w \in Workers, WorkerStep(w) PROVE UNCHANGED overtaken
  BY <1>1 DEF WorkerStep, WorkerProgress, ClaimNextRun, ClaimRun, DropStaleItems, Decide,
         SucceedConflict, OutcomeFenced, OutcomeRejected, ApplySucceeded, ApplyFailed,
         RequeueClaimedRun, RequestToolApproval, ApplyWaiting, WaitingRejected, HeartbeatLost,
         HeartbeatFailed, Crash, Restart
<1>2. CASE TimeStep
  BY <1>2 DEF TimeStep, LeaseLapses, LeaseStalls, LeaseEnds, BackoffElapses, RecoverExpiredLeases
<1>3. ASSUME NEW s \in Sessions, Load(s) \/ Abort(s) PROVE UNCHANGED overtaken
  BY <1>3 DEF Load, LoadRun, LoadApproval, ReloadRun, LoadTask, Abort
<1>4. ASSUME NEW s \in Sessions, Commit(s) PROVE overtaken'
  BY <1>4, DoneRecords DEF Commit, StartRun, StartQueuedRun, EndRun, CancelRun, RetryFailedRun,
     RequestApproval, ResolveApproval, CancelTask, EndTask
<1>5. QED
  BY <1>1, <1>2, <1>3, <1>4 DEF Next, vars

\* Without the operator's own retry command no lineage exceeds
\* RetryPolicy.max_attempts, however often workers crash between the attempts
\* and take each other's Runs over, as long as no command is committed after what
\* it read has changed.
THEOREM RetriesStayBounded == Spec => []AttemptsBounded
<1>1. Init => AttemptsBounded
  BY SMT DEF Init, AttemptsBounded, Created
<1>2. TypeOK /\ TypeOK' /\ QueueInv /\ QueueInv' /\ LineageInv /\ AttemptsBounded /\ [Next]_vars
        => AttemptsBounded'
  BY LineageNext, OvertakenStays, AttemptsNext
<1>3. QED
  BY <1>1, <1>2, LineagesInOrder, PTL DEF Spec
=============================================================================
