------------------------------- MODULE MCLive -------------------------------
(***************************************************************************)
(* What must eventually happen.  The parts below meet only in what they    *)
(* leave to each other's actions, so an instance is one part at a time:    *)
(* `part` is chosen initially and only that part takes steps.  The state   *)
(* space is the sum of theirs, and every fairness condition is that of the *)
(* part's own module, for the chosen part.                                 *)
(***************************************************************************)
EXTENDS OutboundDelivery, TLC

CONSTANTS Fires, Calls, Protected, Proposals, Cases, One, Session

VARIABLES
  part,
  tRun, tWaits, tItem, tAppr, tInv, tPc, tClaim, tPlan, tSess, tRan, tGranted, tOverwritten, tCrashes, tStalls,
  sNow, sTask, sSch, sFire, sWorker, sSess, sCrossed,
  aEnded, aPolicy, aRun, aPlan, aSent, aWorker, aSess,
  iPolicy, iWork, iProps, iCmp, iWorker, iSess, iFaults,
  wRoot, wRow, wExec, wNode, wChild, wMade, wPc, wSnap, wFound, wSess,
  lRun, lHolder, lObjective, lVault, lProc,
  mVault, mLock, mCorpus, mStaging, mActive, mPrevious, mBuilder, mReader, mFaults, mLapses,
  kCall, kOpen, kPending, kBuf, kAlive, kHolds, kPipe, kWritten

toolVars ==
  <<tRun, tWaits, tItem, tAppr, tInv, tPc, tClaim, tPlan, tSess, tRan, tGranted, tOverwritten, tCrashes, tStalls>>
schedVars == <<sNow, sTask, sSch, sFire, sWorker, sSess, sCrossed>>
answerVars == <<aEnded, aPolicy, aRun, aPlan, aSent, aWorker, aSess>>
improveVars == <<iPolicy, iWork, iProps, iCmp, iWorker, iSess, iFaults>>
flowVars == <<wRoot, wRow, wExec, wNode, wChild, wMade, wPc, wSnap, wFound, wSess>>
loopVars == <<lRun, lHolder, lObjective, lVault, lProc>>
indexVars ==
  <<mVault, mLock, mCorpus, mStaging, mActive, mPrevious, mBuilder, mReader, mFaults, mLapses>>
processVars == <<kCall, kOpen, kPending, kBuf, kAlive, kHolds, kPipe, kWritten>>

Tools == INSTANCE ToolExecution WITH
  WorkerIds <- {"id"}, Tokens <- {"t1", "t2", "t3"}, Nobody <- "nobody",
  IdOf <- [w \in Workers |-> "id"], Sessions <- Session, Ops <- {"approve"},
  MaxApprovals <- 2, MaxInvocations <- 2, MaxGen <- 3, MaxCrashes <- 1, MaxStalls <- 0,
  run <- tRun, waits <- tWaits, item <- tItem, appr <- tAppr, inv <- tInv, pc <- tPc,
  claim <- tClaim, plan <- tPlan, sess <- tSess, ran <- tRan, granted <- tGranted,
  overwritten <- tOverwritten,
  crashes <- tCrashes, stalls <- tStalls

Sched == INSTANCE Schedules WITH
  Horizon <- 2, Cron <- {1, 2}, Sessions <- Session, now <- sNow, task <- sTask, sch <- sSch,
  fire <- sFire, worker <- sWorker, sess <- sSess, crossed <- sCrossed

Answers == INSTANCE ScheduledAnswers WITH
  Workers <- One, Sessions <- Session, BatchSize <- 1, MaxAttempts <- 1, ended <- aEnded,
  policy <- aPolicy, run <- aRun, plan <- aPlan, sent <- aSent, worker <- aWorker, sess <- aSess

Improve == INSTANCE SkillImprovement WITH
  Workers <- One, Sessions <- Session, MaxFaults <- 2, policy <- iPolicy, work <- iWork,
  props <- iProps, cmp <- iCmp, worker <- iWorker, sess <- iSess, faults <- iFaults

\* Two nodes without predecessors, one of them with a successor.
Flow == INSTANCE WorkflowExecution WITH
  NodeCount <- 3, Preds <- <<{}, {}, {1}>>, Sessions <- {}, Commands <- {}, Nobody <- "nobody",
  root <- wRoot, row <- wRow, exec <- wExec, node <- wNode, child <- wChild, made <- wMade,
  pc <- wPc, snap <- wSnap, found <- wFound, sess <- wSess

Loop == INSTANCE AgentLoop WITH
  Workers <- One, MaxTurns <- 2, MaxTools <- 2, MaxEdits <- 1, MaxWrites <- 1, run <- lRun,
  holder <- lHolder, objective <- lObjective, vault <- lVault, proc <- lProc

Index == INSTANCE MemoryIndex WITH
  Builders <- One, Readers <- {}, MaxVault <- 2, Inodes <- 1 .. 4, MaxFaults <- 2,
  vault <- mVault, lock <- mLock, corpus <- mCorpus, staging <- mStaging, active <- mActive, previous <- mPrevious,
  builder <- mBuilder, reader <- mReader, faults <- mFaults, lapses <- mLapses

\* The candidate generator, which is fed a prompt, and the graph extractor.
Process == INSTANCE BoundedProcess WITH
  Kinds <- {"candidate", "graph"}, Limit <- 1, MaxInput <- 1, PipeSize <- 1,
  MaxWrites <- 1, call <- kCall, open <- kOpen, pending <- kPending, buf <- kBuf, alive <- kAlive,
  holds <- kHolds, pipe <- kPipe, written <- kWritten

LiveInit ==
  /\ part \in {"deliveries", "tools", "schedules", "answers", "improvement", "workflow", "loop",
               "index", "processes"}
  /\ Init /\ Tools!Init /\ Sched!Init /\ Answers!Init /\ Improve!Init /\ Flow!Init
  /\ Loop!Init /\ Index!Init
  /\ Process!Init /\ (part # "processes" => kCall.kind = "graph")

OnlyDeliveries ==
  UNCHANGED <<part, toolVars, schedVars, answerVars, improveVars, flowVars, loopVars, indexVars,
              processVars>>
OnlyTools ==
  UNCHANGED <<part, vars, schedVars, answerVars, improveVars, flowVars, loopVars, indexVars,
              processVars>>
OnlySchedules ==
  UNCHANGED <<part, vars, toolVars, answerVars, improveVars, flowVars, loopVars, indexVars,
              processVars>>
OnlyAnswers ==
  UNCHANGED <<part, vars, toolVars, schedVars, improveVars, flowVars, loopVars, indexVars,
              processVars>>
OnlyImprovement ==
  UNCHANGED <<part, vars, toolVars, schedVars, answerVars, flowVars, loopVars, indexVars,
              processVars>>
OnlyWorkflow ==
  UNCHANGED <<part, vars, toolVars, schedVars, answerVars, improveVars, loopVars, indexVars,
              processVars>>
OnlyLoop ==
  UNCHANGED <<part, vars, toolVars, schedVars, answerVars, improveVars, flowVars, indexVars,
              processVars>>
OnlyIndex ==
  UNCHANGED <<part, vars, toolVars, schedVars, answerVars, improveVars, flowVars, loopVars,
              processVars>>
OnlyProcesses ==
  UNCHANGED <<part, vars, toolVars, schedVars, answerVars, improveVars, flowVars, loopVars, indexVars>>

LiveNext ==
  \/ part = "deliveries" /\ Next /\ OnlyDeliveries
  \/ part = "tools" /\ Tools!Next /\ OnlyTools
  \/ part = "schedules" /\ Sched!Next /\ OnlySchedules
  \/ part = "answers" /\ Answers!Next /\ OnlyAnswers
  \/ part = "improvement" /\ Improve!Next /\ OnlyImprovement
  \/ part = "workflow" /\ Flow!Next /\ OnlyWorkflow
  \/ part = "loop" /\ Loop!Next /\ OnlyLoop
  \/ part = "index" /\ Index!Next /\ OnlyIndex
  \/ part = "processes" /\ Process!Next /\ OnlyProcesses

liveVars ==
  <<part, vars, toolVars, schedVars, answerVars, improveVars, flowVars, loopVars, indexVars,
    processVars>>

(* The fairness of each module, for the part that was chosen. Only one part moves, so the conditions of *)
(* different parts are put together: a step of the worker, a transaction that crashes interrupt, its     *)
(* commit, and the passing of time.                                                                     *)
WorkerStep(w) ==
  \/ part = "deliveries" /\ DispatchStep(w)
  \/ part = "tools" /\ Tools!ToolStep(w)
  \/ part = "schedules" /\ Sched!ListDue(w)
  \/ part = "answers" /\ w \in One /\ Answers!ListAnswers(w)
  \/ part = "improvement" /\ w \in One /\ Improve!Tick(w)
  \/ part = "workflow" /\ Flow!LoadExecution(w)
  \/ part = "loop" /\ w \in One /\ Loop!Step(w)
  \/ part = "index" /\ w \in One /\ Index!Build(w)
  \/ part = "processes" /\ w \in One /\ Process!Caller

Begins(w) ==
  \/ part = "deliveries" /\ ClaimStep(w)
  \/ part = "schedules" /\ Sched!LoadDue(w)
  \/ part = "answers" /\ w \in One /\ (\E f \in Fires : Answers!LoadAnswer(w, f))
  \/ part = "workflow" /\ Flow!CheckChildren(w)

Commits(w) ==
  \/ part = "schedules" /\ (Sched!Fire(w) \/ Sched!CompleteSchedule(w) \/ Sched!FireConflict(w))
  \/ part = "answers" /\ w \in One /\ (Answers!DeliverAnswer(w) \/ Answers!RejectContent(w))
  \/ part = "workflow" /\ Flow!Advance(w)

Lists(w) == part = "deliveries" /\ ListExpired(w)

Elapses ==
  \/ part = "deliveries" /\ (\E d \in Deliveries : BecomesDue(d))
  \/ part = "schedules" /\ Sched!ExecutionEnds(1)
  \/ part = "improvement" /\ Improve!Abandoned
  \/ part = "workflow" /\ Flow!ChildEnds(1)
  \/ part = "index" /\ Index!AbandonedLockExpires
  \/ part = "processes" /\ Process!DeadlinePasses

ElapsesToo ==
  \/ part = "deliveries" /\ (\E d \in Deliveries : LeaseExpires(d))
  \/ part = "schedules" /\ Sched!ExecutionEnds(2)
  \/ part = "improvement" /\ Improve!BackoffElapses
  \/ part = "workflow" /\ Flow!ChildEnds(2)
  \/ part = "processes" /\ Process!LeavesQuietly

ElapsesAsWell ==
  \/ part = "improvement" /\ Improve!CooldownPasses
  \/ part = "workflow" /\ Flow!ChildEnds(3)

\* The variables of the chosen part.
moving ==
  CASE part = "deliveries" -> vars
    [] part = "tools" -> toolVars
    [] part = "schedules" -> schedVars
    [] part = "answers" -> answerVars
    [] part = "improvement" -> improveVars
    [] part = "workflow" -> flowVars
    [] part = "loop" -> loopVars
    [] part = "index" -> indexVars
    [] part = "processes" -> processVars

LiveSpec ==
  /\ LiveInit /\ [][LiveNext]_liveVars
  /\ \A w \in Workers :
       /\ WF_moving(part' = part /\ WorkerStep(w)) /\ WF_moving(part' = part /\ Lists(w))
       /\ SF_moving(part' = part /\ Begins(w)) /\ SF_moving(part' = part /\ Commits(w))
  /\ WF_moving(part' = part /\ Elapses)
  /\ WF_moving(part' = part /\ ElapsesToo)
  /\ WF_moving(part' = part /\ ElapsesAsWell)

-----------------------------------------------------------------------------
(* Each row holds what its column type says, in the part that moves. *)
TypesOK ==
  CASE part = "deliveries" -> TypeOK
    [] part = "tools" -> Tools!TypeOK
    [] part = "schedules" -> Sched!TypeOK
    [] part = "answers" -> Answers!TypeOK
    [] part = "improvement" -> Improve!TypeOK
    [] part = "workflow" -> Flow!TypeOK
    [] part = "loop" -> Loop!TypeOK
    [] part = "index" -> Index!TypeOK
    [] part = "processes" -> Process!TypeOK

(* No Run succeeds over an open invocation, and an invocation a worker starts reaches a terminal        *)
(* status, unless a worker dies in it (ClaimAwareToolExecution, _finish_blocker).                       *)
ToolsHold == []Tools!SucceededIsQuiet /\ Tools!InvocationsSettle

(* A due occurrence of an active schedule is fired in the end, one execution of a schedule runs at a    *)
(* time, and an ended schedule stays ended (MaterializeDueSchedules, _change).  An acceptable answer of *)
(* an authorized fire becomes a delivery in the end, none is of another Run or of a fire that was not   *)
(* authorized, and no policy is written under an ended schedule                                         *)
(* (MaterializeScheduledAnswerDeliveries, put_for_nonterminal_schedule).                                *)
SchedulesHold ==
  /\ []Sched!NoOverlap /\ Sched!EndedStaysEnded /\ Sched!DueFires
  /\ []Answers!AnswersAreTruthful /\ Answers!PolicyFenced /\ Answers!AnswersArrive

(* Deliveries, their attempts, approvals, invocations, workflow executions, their nodes and root Runs   *)
(* only take the transitions of their classes although every one is checked on a row read before, and a *)
(* node has a child exactly if it was dispatched (_require_status, _validate_status_shape, and the      *)
(* conditional updates of the repositories).                                                            *)
RowsFollow == DeliveriesFollow /\ Tools!ToolsFollow /\ Flow!NodesFollow /\ Flow!RootFollows

(* Improvement work that was queued ends, through crashes, lost claims and failed model calls           *)
(* (the skill improvement tick of worker_maintenance).                                                  *)
WorkEnds == Improve!WorkEnds

(* An execution ends when its children do, and so does its root Run, at most two nodes being dispatched *)
(* at once (AdvanceWorkflowExecution).                                                                  *)
WorkflowSettles == Flow!WorkflowSettles

(* A claim comes to an outcome whatever the model answers, and the model is asked with the memory of    *)
(* what it is shown (AgentRunProcessor.process).                                                        *)
TurnsHold == []Loop!MemoryFollows /\ Loop!ProcessingEnds

(* The index becomes fresh again once the vault is left alone, though builders crash                    *)
(* (RefreshMemoryIndexIfStale, FileLock).                                                               *)
IndexCatchesUp == part = "index" => Index!IndexCatchesUp

(* A call that runs a child process returns, whatever the child and its helpers do with their pipes, if  *)
(* a child that has closed its outputs exits (_drain_bounded, _communicate_bounded, _run_bounded).       *)
CallsReturn == Process!CallReturns
=============================================================================
