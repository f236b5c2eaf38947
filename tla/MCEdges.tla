------------------------------ MODULE MCEdges ------------------------------
(***************************************************************************)
(* The parts at the edge of the process: what the model is shown, the      *)
(* child processes spoken to over pipes, the desktop, the files of the     *)
(* memory, the voice page, and the worker process that holds them.  As in  *)
(* MCLive, `part` is chosen initially and only that part takes steps.  The *)
(* module extends one of its parts, VaultNotes, and instantiates the       *)
(* others.                                                                 *)
(***************************************************************************)
EXTENDS VaultNotes, TLC

VARIABLES
  part,
  xIn, xOmitted, xPc, xCore, xConv, xMemory, xWorkflow,
  jClient, jSession, jChild, jCall, jOutcome, jGot, jRan, jNoise,
  cWindow, cScreen, cChanges, cMap, cCall, cCalls, cEffects, cFiles, cResults,
  mVault, mLock, mCorpus, mStaging, mActive, mPrevious, mBuilder, mReader, mFaults, mLapses,
  vCtl, vRec, vAttempts, vTts, vUtter, vPage, vSub, vRun, vKnown, vCached, vListed, vCancels,
  vRetrying, vRetries, vSilenced,
  kCall, kOpen, kPending, kBuf, kAlive, kHolds, kPipe, kWritten,
  uCfg, uPc, uHeld, uStack, uTodo, uInterrupted,
  qNotes, qIndex, qEdits, qPc, qStatus, qScanned, qFound, qRanked, qContext,
  rLineage, rResult, rKnown, rPending, rSeen, rRequests, rView

contextVars == <<xIn, xOmitted, xPc, xCore, xConv, xMemory, xWorkflow>>
stdioVars == <<jClient, jSession, jChild, jCall, jOutcome, jGot, jRan, jNoise>>
desktopVars == <<cWindow, cScreen, cChanges, cMap, cCall, cCalls, cEffects, cFiles, cResults>>
indexVars ==
  <<mVault, mLock, mCorpus, mStaging, mActive, mPrevious, mBuilder, mReader, mFaults, mLapses>>
voiceVars ==
  <<vCtl, vRec, vAttempts, vTts, vUtter, vPage, vSub, vRun, vKnown, vCached, vListed, vCancels,
    vRetrying, vRetries, vSilenced>>

processVars == <<kCall, kOpen, kPending, kBuf, kAlive, kHolds, kPipe, kWritten>>
startupVars == <<uCfg, uPc, uHeld, uStack, uTodo, uInterrupted>>
recallVars == <<qNotes, qIndex, qEdits, qPc, qStatus, qScanned, qFound, qRanked, qContext>>
resultVars == <<rLineage, rResult, rKnown, rPending, rSeen, rRequests, rView>>

Symmetry == Permutations(Writers)

Context == INSTANCE RuntimeContext WITH
  MaxChars <- 14, MinCore <- 6, MaxSkills <- 3, MaxAgent <- 4, Sep <- 1, MaxItems <- 1,
  SkillLens <- {0, 3}, AgentLens <- {0, 4}, DelegatedLens <- {0, 3}, WorkflowLens <- {0, 3},
  MemoryLens <- {0, 2}, MessageLens <- {2, 4}, in <- xIn, omitted <- xOmitted, pc <- xPc,
  core <- xCore, conv <- xConv, memory <- xMemory, workflow <- xWorkflow

\* McpStdioClient, which closes its session on every error, and the transport of the computer
\* driver, which keeps it.
Client == INSTANCE StdioSession WITH
  ClosesOnError <- TRUE, MaxCalls <- 4, MaxPending <- 2, MaxIgnored <- 1, MaxNoise <- 2,
  client <- jClient, session <- jSession, child <- jChild, call <- jCall, outcome <- jOutcome,
  got <- jGot, ran <- jRan, noise <- jNoise
Transport == INSTANCE StdioSession WITH
  ClosesOnError <- FALSE, MaxCalls <- 3, MaxPending <- 2, MaxIgnored <- 1, MaxNoise <- 2,
  client <- jClient, session <- jSession, child <- jChild, call <- jCall, outcome <- jOutcome,
  got <- jGot, ran <- jRan, noise <- jNoise

Desktop == INSTANCE ComputerUse WITH
  Descriptors <- {"send", "stop"}, Controls <- 1 .. 3, MaxElements <- 2, MaxCalls <- 1,
  MaxChanges <- 2, window <- cWindow, screen <- cScreen, changes <- cChanges, map <- cMap,
  call <- cCall, calls <- cCalls, effects <- cEffects, files <- cFiles, results <- cResults

\* Two builders, and one builder beside a retrieval.
Building == INSTANCE MemoryIndex WITH
  Builders <- Writers, Readers <- {}, MaxVault <- 2, Inodes <- 1 .. 4, MaxFaults <- 1,
  vault <- mVault, lock <- mLock, corpus <- mCorpus, staging <- mStaging, active <- mActive,
  previous <- mPrevious, builder <- mBuilder, reader <- mReader, faults <- mFaults,
  lapses <- mLapses
Reading == INSTANCE MemoryIndex WITH
  Builders <- {"builder"}, Readers <- {"reader"}, MaxVault <- 3, Inodes <- 1 .. 7, MaxFaults <- 1,
  vault <- mVault, lock <- mLock, corpus <- mCorpus, staging <- mStaging, active <- mActive,
  previous <- mPrevious, builder <- mBuilder, reader <- mReader, faults <- mFaults,
  lapses <- mLapses

\* Two turns that are typed, and one that is spoken; either can be retried.
Typed == INSTANCE VoiceSession WITH
  MaxTurns <- 2, MaxAttempts <- 0, MaxRearms <- 1, MaxRetries <- 1, ctl <- vCtl, rec <- vRec,
  attempts <- vAttempts, tts <- vTts, utter <- vUtter, page <- vPage, sub <- vSub, run <- vRun,
  known <- vKnown, cached <- vCached, listed <- vListed, cancels <- vCancels,
  retrying <- vRetrying, retries <- vRetries, silenced <- vSilenced
Spoken == INSTANCE VoiceSession WITH
  MaxTurns <- 1, MaxAttempts <- 2, MaxRearms <- 1, MaxRetries <- 1, ctl <- vCtl, rec <- vRec,
  attempts <- vAttempts, tts <- vTts, utter <- vUtter, page <- vPage, sub <- vSub, run <- vRun,
  known <- vKnown, cached <- vCached, listed <- vListed, cancels <- vCancels,
  retrying <- vRetrying, retries <- vRetries, silenced <- vSilenced

\* Every caller of a child process.
Calls == INSTANCE BoundedProcess WITH
  Kinds <- {"tool", "graph", "action", "candidate", "probe"}, Limit <- 1, MaxInput <- 2,
  PipeSize <- 1, MaxWrites <- 2, call <- kCall, open <- kOpen, pending <- kPending, buf <- kBuf, alive <- kAlive,
  holds <- kHolds, pipe <- kPipe, written <- kWritten

\* A worker with two MCP servers.
Worker == INSTANCE WorkerStartup WITH
  Servers <- <<"m1", "m2">>, cfg <- uCfg, pc <- uPc, held <- uHeld, stack <- uStack,
  todo <- uTodo, interrupted <- uInterrupted

\* A query of every kind; three notes of four relevances, the first and the last related by a concept.
Note(s, n, e) == [signals |-> s, chars |-> n, eligible |-> e]
NoteContents ==
  {Note({"title", "alias", "label"}, 2, TRUE), Note({"tag", "heading", "part"}, 1, TRUE),
   Note({"filename", "heading", "body"}, 3, TRUE), Note({"phrase", "body", "part"}, 1, TRUE),
   Note({"title", "label"}, 1, FALSE)}

Recall == INSTANCE MemoryRetrieval WITH
  Paths <- <<"a", "b", "c">>, Concepts <- {"x"}, Links <- <<<<"a", "x">>, <<"x", "c">>, <<"b", "a">>>>,
  Contents <- NoteContents, Asked <- {"titles", "tags", "terms", "phrases"},
  MaxCandidates <- 3, MaxExcerpts <- 2, MaxExcerptChars <- 2, MaxChars <- 3, MaxDepth <- 2,
  MaxVisited <- 2, MaxScanned <- 3, MaxEdits <- 1, MaxIndexes <- 2,
  notes <- qNotes, index <- qIndex, edits <- qEdits, pc <- qPc, status <- qStatus,
  scanned <- qScanned, found <- qFound, ranked <- qRanked, context <- qContext

\* The values k and km, m and hf overlap; request 4 leads back to an execution that was met.
Request(i, v, c) == [id |-> i, value |-> v, child |-> c]
SomeLineages ==
  {[value |-> <<"f">>,
    values |-> <<v1, v2, {<<"m">>, <<"k", "m">>}>>,
    requests |-> <<{Request(1, <<"g">>, 2), Request(2, <<"h">>, 0)}, nested, {}>>]
   : v1 \in {{}, {<<"k">>}}, v2 \in {{}, {<<"k", "m">>}},
     nested \in {{}, {Request(3, <<"h", "f">>, 3)}, {Request(3, <<"f">>, 3), Request(4, <<"g">>, 2)}}}

SomeTexts ==
  {<<"o">>, <<"k", "m">>, <<"label=", "o", "k", " ", "f", "m">>,
   <<"o", "h", "f", "k", "k", "m">>, <<"label=", " ", "o", "g">>}
SomeKeys == {<<"o">>, <<"approval_id">>, <<"o", "k">>}
Leaf(t) == [kind |-> "text", text |-> t]
Fields(s) == [kind |-> "object", entries |-> s]
SomeResults ==
  {[summary |-> t,
    details |-> Fields(<<[key |-> k, value |-> Leaf(t)],
                         [key |-> <<"p">>,
                          value |-> [kind |-> "list",
                                     items |-> <<Leaf(u), Fields(<<[key |-> k, value |-> Leaf(u)]>>)>>]]>>)]
   : k \in SomeKeys, t \in SomeTexts, u \in SomeTexts}

Result == INSTANCE DelegatedResult WITH
  Lineages <- SomeLineages, Results <- SomeResults,
  lineage <- rLineage, result <- rResult, known <- rKnown, pending <- rPending, seen <- rSeen,
  seenRequests <- rRequests, view <- rView

\* What a part that does not move is left with.
ASnapshot == CHOOSE x \in Context!Snapshot : TRUE
AScreen == CHOOSE x \in Desktop!Screens : x # <<>>
AVault == CHOOSE x \in Recall!Vaults : TRUE
ALineage == CHOOSE x \in SomeLineages : TRUE
AResult == CHOOSE x \in SomeResults : TRUE

EdgesInit ==
  /\ part \in {"context", "client", "transport", "desktop", "notes", "building", "reading",
               "typed", "spoken", "calls", "startup", "recall", "result"}
  /\ Init
  /\ IF part = "transport" THEN Transport!Init ELSE Client!Init
  /\ IF part = "reading" THEN Reading!Init ELSE Building!Init
  /\ IF part = "spoken" THEN Spoken!Init ELSE Typed!Init
  /\ Calls!Init /\ (part # "calls" => kCall.kind = "tool")
  /\ Worker!Init /\ (part # "startup" => uCfg = Worker!Plain)
  /\ cScreen \in (IF part = "desktop" THEN Desktop!Screens ELSE {AScreen}) /\ Desktop!Init
  /\ qNotes \in (IF part = "recall" THEN Recall!Vaults ELSE {AVault}) /\ Recall!Init
  /\ part # "recall" => qIndex.id = 0
  /\ rLineage \in IF part = "result" THEN SomeLineages ELSE {ALineage}
  /\ rResult \in (IF part = "result" THEN SomeResults ELSE {AResult}) /\ Result!Init
  /\ xIn \in (IF part = "context" THEN Context!Snapshot ELSE {ASnapshot}) /\ Context!Init

OnlyContext ==
  UNCHANGED <<part, stdioVars, desktopVars, vars, indexVars, voiceVars, processVars,
              startupVars, recallVars, resultVars>>
OnlyStdio ==
  UNCHANGED <<part, contextVars, desktopVars, vars, indexVars, voiceVars, processVars,
              startupVars, recallVars, resultVars>>
OnlyDesktop ==
  UNCHANGED <<part, contextVars, stdioVars, vars, indexVars, voiceVars, processVars,
              startupVars, recallVars, resultVars>>
OnlyNotes ==
  UNCHANGED <<part, contextVars, stdioVars, desktopVars, indexVars, voiceVars, processVars,
              startupVars, recallVars, resultVars>>
OnlyIndex ==
  UNCHANGED <<part, contextVars, stdioVars, desktopVars, vars, voiceVars, processVars,
              startupVars, recallVars, resultVars>>
OnlyVoice ==
  UNCHANGED <<part, contextVars, stdioVars, desktopVars, vars, indexVars, processVars,
              startupVars, recallVars, resultVars>>
OnlyCalls ==
  UNCHANGED <<part, contextVars, stdioVars, desktopVars, vars, indexVars, voiceVars,
              startupVars, recallVars, resultVars>>
OnlyStartup ==
  UNCHANGED <<part, contextVars, stdioVars, desktopVars, vars, indexVars, voiceVars,
              processVars, recallVars, resultVars>>
OnlyRecall ==
  UNCHANGED <<part, contextVars, stdioVars, desktopVars, vars, indexVars, voiceVars,
              processVars, startupVars, resultVars>>
OnlyResult ==
  UNCHANGED <<part, contextVars, stdioVars, desktopVars, vars, indexVars, voiceVars,
              processVars, startupVars, recallVars>>

EdgesNext ==
  \/ part = "context" /\ Context!Next /\ OnlyContext
  \/ part = "client" /\ Client!Next /\ OnlyStdio
  \/ part = "transport" /\ Transport!Next /\ OnlyStdio
  \/ part = "desktop" /\ Desktop!Next /\ OnlyDesktop
  \/ part = "notes" /\ Next /\ OnlyNotes
  \/ part = "building" /\ Building!Next /\ OnlyIndex
  \/ part = "reading" /\ Reading!Next /\ OnlyIndex
  \/ part = "typed" /\ Typed!Next /\ OnlyVoice
  \/ part = "spoken" /\ Spoken!Next /\ OnlyVoice
  \/ part = "calls" /\ Calls!Next /\ OnlyCalls
  \/ part = "startup" /\ Worker!Next /\ OnlyStartup
  \/ part = "recall" /\ Recall!Next /\ OnlyRecall
  \/ part = "result" /\ Result!Next /\ OnlyResult

edgesVars ==
  <<part, contextVars, stdioVars, desktopVars, vars, indexVars, voiceVars,
    processVars, startupVars, recallVars, resultVars>>

EdgesSpec == EdgesInit /\ [][EdgesNext]_edgesVars

-----------------------------------------------------------------------------
(* Each value is of its kind, in the part that moves. *)
TypesOK ==
  CASE part = "context" -> Context!TypeOK
    [] part = "client" -> Client!TypeOK
    [] part = "transport" -> Transport!TypeOK
    [] part = "desktop" -> Desktop!TypeOK
    [] part = "notes" -> TypeOK
    [] part = "building" -> Building!TypeOK
    [] part = "reading" -> Reading!TypeOK
    [] part = "typed" -> Typed!TypeOK
    [] part = "spoken" -> Spoken!TypeOK
    [] part = "calls" -> Calls!TypeOK
    [] part = "startup" -> Worker!TypeOK
    [] part = "recall" -> Recall!TypeOK
    [] part = "result" -> Result!TypeOK

(* The document a turn is given keeps to its budget, and gives up the least important items first; the  *)
(* notes in it were eligible when they were read, and what the graph added is of the index that was     *)
(* fresh; and of a delegated result nothing with authority is shown, and everything else is             *)
(* (build_runtime_context, MemoryRetriever.retrieve, project_delegated_result).                         *)
ContextHolds ==
  /\ part = "context" => Context!ContextFits
  /\ part = "recall" => Recall!ContextIsHonest
  /\ part = "result" => Result!NothingWithAuthority

(* A caller gets from a child process its own answer and all of it: an answer of a session matches its   *)
(* request, whatever late, unasked and malformed lines come, and a call that runs a child to its end    *)
(* returns what was written.  Closing a session and cutting a call short leave no process of the group, *)
(* the repair of a decision has no deadline of its own, and a worker that exits leaves no child behind  *)
(* (StdioJsonRpcSession, _drain_bounded, _communicate_bounded, _run_bounded, next_action,               *)
(* create_worker, Worker.close).                                                                        *)
ChildrenHold ==
  /\ [](/\ part = "client" => Client!AnswersMatch
        /\ part = "transport" => Transport!AnswersMatch
        /\ part = "calls" => Calls!OutputIsWhole /\ Calls!NoOrphans
        /\ part = "startup" => Worker!NothingLeft)
  /\ [][/\ part = "client" => Client!ClosesCleanly
        /\ part = "transport" => Transport!ClosesCleanly
        /\ part = "calls" => Calls!OneDeadline]_edgesVars

(* An action lands on the control that was approved, or on none (TargetResolver).                       *)
ActsOnApproved == part = "desktop" => Desktop!ActsOnApproved

(* An index labelled as current was extracted from the vault as it is, and a retrieval takes label and  *)
(* graph from one generation (BuildMemoryIndex, GraphifyJsonIndex._load_snapshot_view).                 *)
IndexIsConsistent ==
  /\ part = "building" => Building!IndexIsConsistent
  /\ part = "reading" => Reading!IndexIsConsistent

(* An interrupted turn is never spoken, and the session is released when nothing is under way           *)
(* (cancelActiveRun, handleAnswerState).                                                                *)
VoiceTurnsEnd ==
  /\ part = "typed" => Typed!InterruptedIsSilent /\ Typed!SessionReleasedUnretried
  /\ part = "spoken" => Spoken!InterruptedIsSilent /\ Spoken!SessionReleasedUnretried
=============================================================================
