----------------------------- MODULE MCCommands -----------------------------
(***************************************************************************)
(* Commands that overlap: of operators on skills, promotions, rollbacks    *)
(* and registries, of maintenance ticks on one improvement, of the         *)
(* requests of a chat client, of the writers of one Run's steps and events.*)
(* As in MCLive, `part` is chosen initially and only that part takes steps.*)
(* The module extends one of its parts, RunIdentity, and instantiates the  *)
(* others.                                                                 *)
(***************************************************************************)
EXTENDS RunIdentity, SequencesExt

CONSTANTS
  Proposals,   \* what maintenance works on
  Reviewed,    \* the proposal that is promoted
  Rollbacks

VARIABLES
  part,
  pSkill, pRevs, pProps, pPromo, pRb, pSess,
  iPolicy, iWork, iProps, iCmp, iWorker, iSess, iFaults,
  tClock, tTurns, tRuns, tReq, tReplies, tWalk,
  gWf, gRevs, gSess, gRoot,
  eRun, eSteps, eArts, eNext, eLog, eSess, eWatch, eDrops

promotionVars == <<pSkill, pRevs, pProps, pPromo, pRb, pSess>>
improveVars == <<iPolicy, iWork, iProps, iCmp, iWorker, iSess, iFaults>>
turnVars == <<tClock, tTurns, tRuns, tReq, tReplies, tWalk>>
registryVars == <<gWf, gRevs, gSess, gRoot>>
ledgerVars == <<eRun, eSteps, eArts, eNext, eLog, eSess, eWatch, eDrops>>
commandVars == <<part, promotionVars, improveVars, vars, turnVars, registryVars, ledgerVars>>

Symmetry == Permutations(Workers)

\* Promotion against edits of the skill, promotion against rollback, rollback against archiving.
Promoting == INSTANCE SkillPromotion WITH
  MaxVersion <- 4, Proposals <- Reviewed, Sessions <- Workers,
  Commands <- {"revise", "activate", "request", "promote", "stale", "reject", "cancel",
               "cancelProposal"},
  skill <- pSkill, revs <- pRevs, props <- pProps, promo <- pPromo, rb <- pRb, sess <- pSess
Crossing == INSTANCE SkillPromotion WITH
  MaxVersion <- 4, Proposals <- Reviewed, Sessions <- Workers,
  Commands <- {"activate", "disable", "request", "promote", "stale", "requestBack", "rollback",
               "staleBack"},
  skill <- pSkill, revs <- pRevs, props <- pProps, promo <- pPromo, rb <- pRb, sess <- pSess
Returning == INSTANCE SkillPromotion WITH
  MaxVersion <- 4, Proposals <- Reviewed, Sessions <- Workers,
  Commands <- {"activate", "archive", "requestBack", "rollback", "staleBack", "rejectBack",
               "cancelBack"},
  skill <- pSkill, revs <- pRevs, props <- pProps, promo <- pPromo, rb <- pRb, sess <- pSess

\* Two workers on one proposal, and two proposals in a row.
Improve == INSTANCE SkillImprovement WITH
  Sessions <- {"operator"}, Proposals <- Reviewed, Cases <- {1, 2}, MaxFaults <- 1,
  policy <- iPolicy, work <- iWork, props <- iProps, cmp <- iCmp, worker <- iWorker,
  sess <- iSess, faults <- iFaults
Again == INSTANCE SkillImprovement WITH
  Workers <- {"worker"}, Sessions <- {"operator"}, Cases <- {1}, MaxFaults <- 1,
  policy <- iPolicy, work <- iWork, props <- iProps, cmp <- iCmp, worker <- iWorker,
  sess <- iSess, faults <- iFaults

\* The agent of a Run with two attempts, its bindings, and its skills.
Rebinding == INSTANCE RunIdentity WITH
  Commands <- {"disable", "bindAgent", "bindWorkflow", "unbindWorkflow"}
Skilled == INSTANCE RunIdentity WITH
  Agents <- {}, Skills <- {"s"}, Commands <- {"revise", "activate", "archive", "bindSkills"}

\* One turn sent three times with different contents, and three turns read back page by page.
Sending == INSTANCE ConversationTurns WITH
  Keys <- {1}, Payloads <- {"x", "y"}, Requests <- 1 .. 3, Walks <- {}, MaxClock <- 1,
  MaxTurns <- 2, PageSize <- 1, clock <- tClock, turns <- tTurns, runs <- tRuns, req <- tReq,
  replies <- tReplies, walk <- tWalk
Walking == INSTANCE ConversationTurns WITH
  Keys <- 1 .. 3, Payloads <- {"x"}, Requests <- {1}, Walks <- {"forwards", "backwards"},
  MaxClock <- 1, MaxTurns <- 3, PageSize <- 1, clock <- tClock, turns <- tTurns, runs <- tRuns,
  req <- tReq, replies <- tReplies, walk <- tWalk

\* Graphs of up to three nodes with up to four edges, repeated and unknown names among them, sent by
\* one operator; and two operators with two graphs.
Pairs == {"a", "b", "c"} \X {"a", "b", "c"}
Submitted ==
  [nodes : BoundedSeq({"a", "b", "c"}, 4), edges : BoundedSeq(Pairs, 1)]
    \cup [nodes : {<<"a", "b">>, <<"a", "b", "c">>}, edges : BoundedSeq(Pairs, 3)]
    \cup [nodes : {<<"c", "a", "b">>},
          edges : [1 .. 4 -> {<<"a", "b">>, <<"b", "c">>, <<"a", "c">>, <<"c", "b">>}]]
Graphs == INSTANCE WorkflowRegistry WITH
  Inputs <- Submitted, MaxNodes <- 3, MaxEdges <- 3, MaxVersion <- 1, Sessions <- {"operator"},
  wf <- gWf, revs <- gRevs, sess <- gSess, root <- gRoot
Numbering == INSTANCE WorkflowRegistry WITH
  Inputs <- [nodes : {<<"a">>, <<"a", "b">>}, edges : {<<>>}], MaxNodes <- 3, MaxEdges <- 3,
  MaxVersion <- 2, Sessions <- Workers, wf <- gWf, revs <- gRevs, sess <- gSess, root <- gRoot

\* Two writers of the steps and events of one Run, and a page that follows it.
Ledger == INSTANCE RunLedger WITH
  Sessions <- Workers, Watchers <- {"page"}, Artifacts <- {1}, Contents <- {"x"}, PageSize <- 2,
  MaxSteps <- 1, MaxEvents <- 3, MaxDrops <- 1, run <- eRun, steps <- eSteps, arts <- eArts,
  next <- eNext, log <- eLog, sess <- eSess, watch <- eWatch, drops <- eDrops

CommandsInit ==
  /\ part \in {"promoting", "crossing", "returning", "improve", "again", "agent", "binding",
               "skills", "sending", "walking", "graphs", "versions", "ledger"}
  /\ Promoting!Init
  /\ IF part = "again" THEN Again!Init ELSE Improve!Init
  /\ IF part = "skills" THEN Skilled!Init ELSE Init
  /\ IF part = "walking" THEN Walking!Init ELSE Sending!Init
  /\ IF part = "graphs" THEN Graphs!Init ELSE Numbering!Init
  /\ Ledger!Init

OnlyPromotion == UNCHANGED <<part, improveVars, vars, turnVars, registryVars, ledgerVars>>
OnlyImprove == UNCHANGED <<part, promotionVars, vars, turnVars, registryVars, ledgerVars>>
OnlyIdentity == UNCHANGED <<part, promotionVars, improveVars, turnVars, registryVars, ledgerVars>>
OnlyTurns == UNCHANGED <<part, promotionVars, improveVars, vars, registryVars, ledgerVars>>
OnlyRegistry == UNCHANGED <<part, promotionVars, improveVars, vars, turnVars, ledgerVars>>
OnlyLedger == UNCHANGED <<part, promotionVars, improveVars, vars, turnVars, registryVars>>

CommandsNext ==
  \/ part = "promoting" /\ Promoting!Next /\ OnlyPromotion
  \/ part = "crossing" /\ Crossing!Next /\ OnlyPromotion
  \/ part = "returning" /\ Returning!Next /\ OnlyPromotion
  \/ part = "improve" /\ Improve!Next /\ OnlyImprove
  \/ part = "again" /\ Again!Next /\ OnlyImprove
  \/ part = "agent" /\ Next /\ OnlyIdentity
  \/ part = "binding" /\ Rebinding!Next /\ OnlyIdentity
  \/ part = "skills" /\ Skilled!Next /\ OnlyIdentity
  \/ part = "sending" /\ Sending!Next /\ OnlyTurns
  \/ part = "walking" /\ Walking!Next /\ OnlyTurns
  \/ part = "graphs" /\ Graphs!Next /\ OnlyRegistry
  \/ part = "versions" /\ Numbering!Next /\ OnlyRegistry
  \/ part = "ledger" /\ Ledger!Next /\ OnlyLedger

CommandsSpec == CommandsInit /\ [][CommandsNext]_commandVars

-----------------------------------------------------------------------------
(* Each row holds what its columns say, in the part that moves. *)
TypesOK ==
  CASE part \in {"promoting", "crossing", "returning"} -> Promoting!TypeOK
    [] part = "improve" -> Improve!TypeOK
    [] part = "again" -> Again!TypeOK
    [] part = "agent" -> TypeOK
    [] part = "binding" -> Rebinding!TypeOK
    [] part = "skills" -> Skilled!TypeOK
    [] part = "sending" -> Sending!TypeOK
    [] part = "walking" -> Walking!TypeOK
    [] part = "graphs" -> Graphs!TypeOK
    [] part = "versions" -> Numbering!TypeOK
    [] part = "ledger" -> Ledger!TypeOK

(* The active revision of a skill is replaced by a generated one only if that was reviewed against it,  *)
(* and by an older one only along an approved rollback (ck_skill_active_pointer_authority).             *)
PointerMovesAreApproved == Promoting!PointerMovesAreApproved

(* A cooldown follows completed work, and an eligible candidate did no worse than its base              *)
(* (_complete_work_and_trigger, CompareSkillImprovementProposal).                                       *)
ImprovementIsHonest ==
  /\ Improve!CooldownMeansCompleted
  /\ [](part = "improve" => Improve!EligibleIsNoWorse)
  /\ [](part = "again" => Again!EligibleIsNoWorse)

(* A turn is stored once however often it is sent, and shown once in every walk over the transcript     *)
(* (SubmitConversationTurn, list_turns).                                                                *)
TurnsAreKept ==
  /\ part = "sending" => Sending!TurnOnce
  /\ part = "walking" => Walking!TurnOnce /\ Walking!WalkIsComplete

(* A page that follows a Run misses no event, and the events tell the state of the steps                *)
(* (reserve_sequences, the resumption of the stream by Last-Event-ID).                                  *)
StreamTellsState == part = "ledger" => Ledger!StreamTellsState

(* A graph is accepted exactly if its nodes can be put in an order that its edges follow; revisions     *)
(* are numbered without gaps and never replaced, and what is active, or frozen to a Run, is one of them *)
(* (validate_workflow_dag, CreateWorkflowRevision, _load_active_revision).                              *)
RevisionsHold ==
  /\ [](part = "graphs" => Graphs!ValidationIsExact)
  /\ [](part = "versions" => Numbering!ValidationIsExact)
  /\ [][part = "graphs" => Graphs!RevisionsStay]_commandVars
  /\ [][part = "versions" => Numbering!RevisionsStay]_commandVars
=============================================================================
