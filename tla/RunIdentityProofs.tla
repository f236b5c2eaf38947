-------------------------- MODULE RunIdentityProofs --------------------------
(***************************************************************************)
(* That a published resolution is never replaced, for any number of        *)
(* agents, skills, attempts, workers and operators.                        *)
(***************************************************************************)
EXTENDS RunIdentity, FiniteSetTheorems, TLAPS

Bounds == MaxAttempts \in Nat \ {0} /\ MaxVersion \in Nat \ {0}

\* What a command has read, and what a worker carries between two steps.
LoadedCommand ==
  [op : {"none"}]
    \cup [op : {"revise"}, e : Entities, version : Versions]
    \cup [op : {"activate", "disable", "archive"}, e : Entities, row : RegistryRow]
    \cup [op : {"bindAgent"}, agent : Agents \cup {None}]
    \cup [op : {"bindWorkflow"}]
    \cup [op : {"bindSkills"}, skills : SUBSET Skills]
WorkerState ==
  [pc : {"idle"}]
    \cup [pc : {"bootstrap", "skills", "agent", "turn", "acting"}, r : Attempts]
    \cup [pc : {"publishSkills"}, r : Attempts, read : SkillSet]
    \cup [pc : {"publishAgent"}, r : Attempts, read : AgentRevision]

LocalInv == sess \in [Sessions -> LoadedCommand] /\ worker \in [Workers -> WorkerState]

\* A resolution that was published stays as it is.
Kept(old, new) == old # Unresolved => new = old

\* An attempt follows one that has ended, with what was resolved for it.
ChainInv ==
  \A q, r \in Attempts : q < r /\ run[r].state # "absent" =>
    /\ run[q].state = "ended"
    /\ Kept(run[q].skills, run[r].skills)
    /\ Kept(run[q].agent, run[r].agent)

\* A Run has at most one resolution, and an ended one has used it.
RowInv ==
  \A r \in Attempts :
    /\ \A f, g \in run[r].skills : f = g
    /\ run[r].state = "absent" => run[r].skills = Unresolved /\ run[r].agent = Unresolved
    /\ run[r].state = "ended" => run[r].usage = run[r].skills

\* Past the resolution of its skills, a worker's Run has one.
WorkInv ==
  \A w \in Workers : worker[w].pc \in {"agent", "publishAgent", "turn", "acting"} =>
    run[worker[w].r].skills # Unresolved

\* The model was given what is published.
TurnsInv ==
  \A t \in turns :
    /\ t.skills # Unresolved /\ run[t.r].skills = t.skills
    /\ Kept(t.agent, run[t.r].agent)

\* Ratings are filed under what is published.
FeedbackInv == \A f \in feedback : \E g \in run[f.r].skills : f.version = g[f.skill]

IdentityInv == TypeOK /\ LocalInv /\ ChainInv /\ RowInv /\ WorkInv /\ TurnsInv /\ FeedbackInv

-----------------------------------------------------------------------------
(* What workers and commands have read *)

\* A worker at work is at an attempt, with the revisions it is about to publish.
LEMMA WorkerShape ==
  ASSUME LocalInv, NEW w \in Workers
  PROVE  /\ worker[w].pc # "idle" => worker[w].r \in Attempts
         /\ worker[w].pc = "publishSkills" => worker[w].read \in SkillSet
         /\ worker[w].pc = "publishAgent" => worker[w].read \in AgentRevision
<1>1. worker[w] \in WorkerState
  BY DEF LocalInv
<1>2. QED BY <1>1 DEF WorkerState

\* A loaded command carries what its commit writes.
LEMMA CommandShape ==
  ASSUME LocalInv, NEW c \in Sessions
  PROVE  /\ sess[c].op = "revise" => sess[c].e \in Entities /\ sess[c].version \in Versions
         /\ sess[c].op \in {"activate", "disable", "archive"} =>
              sess[c].e \in Entities /\ sess[c].row \in RegistryRow
         /\ sess[c].op = "bindAgent" => sess[c].agent \in Agents \cup {None}
         /\ sess[c].op = "bindSkills" => sess[c].skills \in SUBSET Skills
<1>1. sess[c] \in LoadedCommand
  BY DEF LocalInv
<1>2. QED BY <1>1 DEF LoadedCommand

\* A worker that has published nothing in this step is where it may be.
LEMMA WorkerMoves ==
  ASSUME LocalInv, NEW w \in Workers, NEW s \in WorkerState, Go(w, s)
  PROVE  worker' \in [Workers -> WorkerState]
BY DEF LocalInv, Go

-----------------------------------------------------------------------------
(* What a step does to the Runs *)

\* The ways in which a step may change the rows of the Runs.
Unheld(r, h) == run' = [run EXCEPT ![r].holder = h]
Ended(r) == run[r].state = "live" /\ run' = [run EXCEPT ![r] = Terminal(@)]
Parked(r) ==
  /\ run[r].state = "live"
  /\ run' = [run EXCEPT ![r] = [@ EXCEPT !.state = "workflow", !.holder = Nobody]]
SkillsSet(r, x) ==
  /\ run[r].state = "live" /\ run[r].skills = Unresolved
  /\ run' = [run EXCEPT ![r].skills = {x}]
AgentSet(r, x) ==
  /\ run[r].state = "live" /\ run[r].agent = Unresolved
  /\ run' = [run EXCEPT ![r].agent = {x}]
Retried(r) ==
  /\ run[r].state = "ended" /\ r + 1 \in Attempts /\ run[r + 1].state = "absent"
  /\ run' = [run EXCEPT ![r + 1] = InheritFrozen(run[r])]
Replaced(r) ==
  /\ run[r].state = "live" /\ r + 1 \in Attempts
  /\ run' = [run EXCEPT ![r] = Terminal(@), ![r + 1] = InheritFrozen(run[r])]

RunStep ==
  \/ UNCHANGED run
  \/ \E r \in Attempts, h \in Workers \cup {Nobody} : Unheld(r, h)
  \/ \E r \in Attempts : Ended(r) \/ Parked(r) \/ Retried(r) \/ Replaced(r)
  \/ \E r \in Attempts, x \in SkillSet : SkillsSet(r, x)
  \/ \E r \in Attempts, x \in AgentRevision : AgentSet(r, x)

\* A failure ends the worker's Run or, without the claim, changes nothing.
LEMMA FailSteps ==
  ASSUME TypeOK, LocalInv, NEW w \in Workers, worker[w].pc # "idle", FailRun(w)
  PROVE  RunStep
<1>1. Mine(w) \in Attempts
  BY WorkerShape DEF Mine
<1>2. CASE Claimed(w)
  <2>1. Ended(Mine(w))
    BY <1>1, <1>2 DEF FailRun, Claimed, Ended
  <2>2. QED BY <1>1, <2>1 DEF RunStep
<1>3. CASE ~Claimed(w)
  <2>1. run' = run
    BY <1>1, <1>3 DEF FailRun, TypeOK
  <2>2. QED BY <2>1 DEF RunStep
<1>4. QED BY <1>2, <1>3

\* Every step of a worker changes the Runs in one of these ways.
LEMMA WorkSteps ==
  ASSUME Bounds, TypeOK, LocalInv, NEW w \in Workers, Work(w)
  PROVE  RunStep
<1> DEFINE m == Mine(w)
<1>0. worker[w].pc # "idle" => m \in Attempts
  BY WorkerShape DEF Mine
<1>1. ASSUME NEW r \in Attempts, ClaimAndRoute(w, r) PROVE RunStep
  BY <1>1 DEF ClaimAndRoute, RunStep, Unheld
<1>2. CASE Bootstrap(w)
  <2>1. CASE Claimed(w)
    <3>1. Parked(m)
      BY <1>0, <1>2, <2>1 DEF Bootstrap, Claimed, Parked
    <3>2. QED BY <1>0, <1>2, <3>1 DEF RunStep, Bootstrap
  <2>2. CASE ~Claimed(w)
    <3>1. run' = run
      BY <1>0, <1>2, <2>2 DEF Bootstrap, TypeOK
    <3>2. QED BY <3>1 DEF RunStep
  <2>3. QED BY <2>1, <2>2
<1>3. CASE BootstrapFails(w) \/ SkillsUnresolvable(w) \/ AgentUnresolvable(w) \/ Finish(w)
  BY <1>3, FailSteps DEF BootstrapFails, SkillsUnresolvable, AgentUnresolvable, Finish
<1>4. CASE Yield(w) \/ ReadSkills(w) \/ ReadAgent(w) \/ Turn(w) \/ NextTurn(w)
  BY <1>4 DEF Yield, ReadSkills, ReadAgent, Turn, NextTurn, RunStep
<1>5. CASE PublishSkills(w)
  <2>1. m \in Attempts /\ worker[w].read \in SkillSet
    BY <1>0, <1>5, WorkerShape DEF PublishSkills
  <2>2. CASE run[m].skills = Unresolved
    <3>1. SkillsSet(m, worker[w].read)
      BY <1>5, <2>1, <2>2 DEF PublishSkills, Claimed, SkillsSet
    <3>2. QED BY <2>1, <3>1 DEF RunStep
  <2>3. CASE run[m].skills # Unresolved
    <3>1. run' = run
      BY <1>5, <2>1, <2>3 DEF PublishSkills, TypeOK, RunRow
    <3>2. QED BY <3>1 DEF RunStep
  <2>4. QED BY <2>2, <2>3
<1>6. CASE PublishAgent(w)
  <2>1. m \in Attempts /\ worker[w].read \in AgentRevision
    BY <1>0, <1>6, WorkerShape DEF PublishAgent
  <2>2. CASE run[m].agent = Unresolved
    <3>1. AgentSet(m, worker[w].read)
      BY <1>6, <2>1, <2>2 DEF PublishAgent, Claimed, AgentSet
    <3>2. QED BY <2>1, <3>1 DEF RunStep
  <2>3. CASE run[m].agent # Unresolved
    <3>1. run' = run
      BY <1>6, <2>1, <2>3 DEF PublishAgent, TypeOK, RunRow
    <3>2. QED BY <3>1 DEF RunStep
  <2>4. QED BY <2>2, <2>3
<1>7. CASE Pause(w)
  <2>1. m \in Attempts
    BY <1>0, <1>7 DEF Pause
  <2>2. Unheld(m, Nobody) \/ run' = run
    BY <1>7, <2>1 DEF Pause, Unheld, TypeOK, RunRow
  <2>3. QED BY <2>1, <2>2 DEF RunStep
<1>8. CASE FailAndRetry(w)
  <2>1. m \in Attempts /\ m + 1 \in Attempts
    BY <1>0, <1>8 DEF FailAndRetry, Attempts, Bounds
  <2>2. Replaced(m)
    BY <1>8, <2>1 DEF FailAndRetry, Claimed, Replaced
  <2>3. QED BY <2>1, <2>2 DEF RunStep
<1>9. QED
  BY <1>1, <1>2, <1>3, <1>4, <1>5, <1>6, <1>7, <1>8 DEF Work

\* So does every other step.
LEMMA StepsOfRuns ==
  ASSUME Bounds, TypeOK, LocalInv, [Next]_vars
  PROVE  RunStep
<1>1. ASSUME NEW c \in Sessions, Registry(c) \/ Bindings(c) PROVE RunStep
  BY <1>1 DEF Registry, Bindings, LoadRevise, CreateAgentRevision, LoadActivate, LoadLifecycle,
     SaveAgent, LoadReplaceTaskAgent, ReplaceTaskAgent, LoadBindTaskWorkflow, BindTaskWorkflow,
     LoadReplaceTaskSkills, ReplaceTaskSkills, Open, RunStep
<1>2. CASE UnbindTaskWorkflow \/ UNCHANGED vars
  BY <1>2 DEF UnbindTaskWorkflow, vars, RunStep
<1>3. ASSUME NEW r \in Attempts, RetryFailedRun(r) PROVE RunStep
  <2>1. r + 1 \in Attempts
    BY <1>3 DEF RetryFailedRun, Attempts, Bounds
  <2>2. QED BY <1>3, <2>1 DEF RetryFailedRun, Retried, RunStep
<1>4. ASSUME NEW r \in Attempts, CancelRun(r) PROVE RunStep
  BY <1>4 DEF CancelRun, Ended, RunStep
<1>5. ASSUME NEW r \in Attempts, LeaseExpires(r) PROVE RunStep
  BY <1>5 DEF LeaseExpires, Unheld, RunStep
<1>6. ASSUME NEW r \in Attempts, NEW s \in Skills, AddSkillRunFeedback(r, s) PROVE RunStep
  BY <1>6 DEF AddSkillRunFeedback, RunStep
<1>7. QED
  BY <1>1, <1>2, <1>3, <1>4, <1>5, <1>6, WorkSteps DEF Next

-----------------------------------------------------------------------------
(* Types *)

\* A fresh row, a retried one and an ended one are rows.
LEMMA RowTypes ==
  ASSUME NEW row \in RunRow
  PROVE  /\ NewRun \in RunRow /\ [NewRun EXCEPT !.state = "absent"] \in RunRow
         /\ Terminal(row) \in RunRow /\ InheritFrozen(row) \in RunRow
BY DEF RunRow, NewRun, Terminal, InheritFrozen, Unresolved, UsageOf

\* The rows of the Runs keep their type.
LEMMA RunTypes ==
  ASSUME run \in [Attempts -> RunRow], RunStep
  PROVE  run' \in [Attempts -> RunRow]
<1>1. ASSUME NEW r \in Attempts, NEW h \in Workers \cup {Nobody}, Unheld(r, h)
      PROVE  run' \in [Attempts -> RunRow]
  BY <1>1 DEF Unheld, RunRow
<1>2. ASSUME NEW r \in Attempts, Ended(r) PROVE run' \in [Attempts -> RunRow]
  BY <1>2, RowTypes DEF Ended
<1>3. ASSUME NEW r \in Attempts, Parked(r) PROVE run' \in [Attempts -> RunRow]
  BY <1>3 DEF Parked, RunRow
<1>4. ASSUME NEW r \in Attempts, Retried(r) PROVE run' \in [Attempts -> RunRow]
  BY <1>4, RowTypes DEF Retried
<1>5. ASSUME NEW r \in Attempts, Replaced(r) PROVE run' \in [Attempts -> RunRow]
  <2>1. Terminal(run[r]) \in RunRow /\ InheritFrozen(run[r]) \in RunRow
    BY RowTypes
  <2>2. QED BY <1>5, <2>1 DEF Replaced
<1>6. ASSUME NEW r \in Attempts, NEW x \in SkillSet, SkillsSet(r, x)
      PROVE  run' \in [Attempts -> RunRow]
  BY <1>6 DEF SkillsSet, RunRow
<1>7. ASSUME NEW r \in Attempts, NEW x \in AgentRevision, AgentSet(r, x)
      PROVE  run' \in [Attempts -> RunRow]
  BY <1>7 DEF AgentSet, RunRow
<1>8. QED
  BY <1>1, <1>2, <1>3, <1>4, <1>5, <1>6, <1>7 DEF RunStep

\* Every step of a worker leaves it with what its next step needs, and a turn
\* or a rating recorded under the rows it was read from.
LEMMA WorkTypes ==
  ASSUME Bounds, TypeOK, LocalInv, NEW w \in Workers, Work(w)
  PROVE  /\ worker' \in [Workers -> WorkerState]
         /\ reg' = reg /\ bind' = bind /\ sess' = sess /\ feedback' = feedback
         /\ turns' \subseteq [r : Attempts, agent : SUBSET AgentRevision, skills : SUBSET SkillSet]
<1> DEFINE m == Mine(w)
<1>0. /\ worker[w].pc # "idle" => m \in Attempts
      /\ turns \subseteq [r : Attempts, agent : SUBSET AgentRevision, skills : SUBSET SkillSet]
  BY WorkerShape DEF Mine, TypeOK
<1>i. Idle \in WorkerState
  BY DEF Idle, WorkerState
<1>p. \A r \in Attempts, pc \in {"bootstrap", "skills", "agent", "turn", "acting"} :
        [pc |-> pc, r |-> r] \in WorkerState
  BY DEF WorkerState
<1> HIDE DEF m
<1>1. ASSUME NEW r \in Attempts, ClaimAndRoute(w, r)
      PROVE  \E s \in WorkerState : Go(w, s)
  BY <1>1, <1>p DEF ClaimAndRoute, RouteTo
<1>2. CASE Bootstrap(w) \/ Yield(w) \/ Pause(w) \/ FailAndRetry(w)
           \/ BootstrapFails(w) \/ SkillsUnresolvable(w) \/ AgentUnresolvable(w) \/ Finish(w)
  <2>1. Go(w, Idle)
    BY <1>2 DEF Bootstrap, Yield, Pause, FailAndRetry, BootstrapFails, SkillsUnresolvable,
       AgentUnresolvable, Finish, FailRun
  <2>2. QED
    BY <1>0, <1>2, <1>i, <2>1, WorkerMoves DEF Bootstrap, Yield, Pause, FailAndRetry, BootstrapFails,
       SkillsUnresolvable, AgentUnresolvable, Finish, FailRun
<1>3. CASE ReadSkills(w)
  <2>1. m \in Attempts
    BY <1>0, <1>3 DEF ReadSkills
  <2>2. CASE Go(w, [pc |-> "agent", r |-> m])
    BY <1>0, <1>3, <1>p, <2>1, <2>2, WorkerMoves DEF ReadSkills
  <2>3. CASE Go(w, [pc |-> "publishSkills", r |-> m, read |-> ActiveSkills])
    <3>1. ActiveSkills \in SkillSet
      BY DEF ActiveSkills, SkillSet, TypeOK, RegistryRow, Entities, Bounds
    <3>2. [pc |-> "publishSkills", r |-> m, read |-> ActiveSkills] \in WorkerState
      BY <2>1, <3>1 DEF WorkerState
    <3>3. QED BY <1>0, <1>3, <2>3, <3>2, WorkerMoves DEF ReadSkills
  <2>4. QED BY <1>3, <2>2, <2>3 DEF ReadSkills, m
<1>4. CASE ReadAgent(w)
  <2>1. m \in Attempts
    BY <1>0, <1>4 DEF ReadAgent
  <2>2. CASE Go(w, [pc |-> "turn", r |-> m])
    BY <1>0, <1>4, <1>p, <2>1, <2>2, WorkerMoves DEF ReadAgent
  <2> DEFINE rev == [agent |-> bind.agent, version |-> reg[bind.agent].active]
  <2>3. CASE bind.agent # None /\ Usable(bind.agent) /\ Go(w, [pc |-> "publishAgent", r |-> m, read |-> rev])
    <3>1. bind.agent \in Agents
      BY <2>3 DEF TypeOK, Binding
    <3>2. reg[bind.agent].active \in Versions
      BY <2>3, <3>1 DEF TypeOK, RegistryRow, Entities, Usable, Versions, Bounds
    <3>3. rev \in AgentRevision
      BY <3>1, <3>2 DEF AgentRevision
    <3> HIDE DEF rev
    <3>4. [pc |-> "publishAgent", r |-> m, read |-> rev] \in WorkerState
      BY <2>1, <3>3 DEF WorkerState
    <3>5. QED BY <1>0, <1>4, <2>3, <3>4, WorkerMoves DEF ReadAgent
  <2>4. QED BY <1>4, <2>2, <2>3 DEF ReadAgent, m
<1>5. CASE PublishSkills(w) \/ PublishAgent(w) \/ NextTurn(w)
  <2>1. m \in Attempts
    BY <1>0, <1>5 DEF PublishSkills, PublishAgent, NextTurn
  <2>2. PICK pc \in {"agent", "turn", "skills"} : Go(w, [pc |-> pc, r |-> m])
    BY <1>5 DEF PublishSkills, PublishAgent, NextTurn, m
  <2>3. QED
    BY <1>0, <1>5, <1>p, <2>1, <2>2, WorkerMoves DEF PublishSkills, PublishAgent, NextTurn
<1>6. CASE Turn(w)
  <2>1. m \in Attempts /\ Go(w, [pc |-> "acting", r |-> m])
    BY <1>0, <1>6 DEF Turn, m
  <2>2. [r |-> m, agent |-> run[m].agent, skills |-> run[m].skills]
          \in [r : Attempts, agent : SUBSET AgentRevision, skills : SUBSET SkillSet]
    BY <2>1 DEF TypeOK, RunRow
  <2>3. turns' = turns \cup {[r |-> m, agent |-> run[m].agent, skills |-> run[m].skills]}
    BY <1>6 DEF Turn, m
  <2>4. QED BY <1>0, <1>6, <1>p, <2>1, <2>2, <2>3, WorkerMoves DEF Turn
<1>7. ASSUME NEW r \in Attempts, ClaimAndRoute(w, r)
      PROVE  /\ worker' \in [Workers -> WorkerState]
             /\ reg' = reg /\ bind' = bind /\ sess' = sess /\ feedback' = feedback /\ turns' = turns
  BY <1>1, <1>7, WorkerMoves DEF ClaimAndRoute
<1>8. QED
  BY <1>0, <1>2, <1>3, <1>4, <1>5, <1>6, <1>7 DEF Work

\* Commands load what their commit needs, and commit rows of the registry and
\* bindings of the Task.
LEMMA CommandTypes ==
  ASSUME Bounds, TypeOK, LocalInv, NEW c \in Sessions, Registry(c) \/ Bindings(c)
  PROVE  /\ reg' \in [Entities -> RegistryRow] /\ bind' \in Binding
         /\ sess' \in [Sessions -> LoadedCommand]
         /\ worker' = worker /\ turns' = turns /\ feedback' = feedback
<1>0. reg \in [Entities -> RegistryRow] /\ bind \in Binding /\ sess \in [Sessions -> LoadedCommand]
  BY DEF TypeOK, LocalInv
<1>c. Closed \in LoadedCommand
  BY DEF Closed, LoadedCommand
<1>o. ASSUME NEW s \in LoadedCommand, Open(c, s)
      PROVE  /\ reg' \in [Entities -> RegistryRow] /\ bind' \in Binding
             /\ sess' \in [Sessions -> LoadedCommand]
             /\ worker' = worker /\ turns' = turns /\ feedback' = feedback
  BY <1>0, <1>o DEF Open
<1>1. ASSUME NEW e \in Entities, LoadRevise(c, e) PROVE \E s \in LoadedCommand : Open(c, s)
  <2>1. reg[e].top + 1 \in Versions
    BY <1>0, <1>1 DEF LoadRevise, RegistryRow, Versions, Bounds
  <2>2. [op |-> "revise", e |-> e, version |-> reg[e].top + 1] \in LoadedCommand
    BY <2>1 DEF LoadedCommand
  <2>3. QED BY <1>1, <2>2 DEF LoadRevise
<1>2. ASSUME NEW e \in Entities, NEW v \in Versions, LoadActivate(c, e, v)
      PROVE  \E s \in LoadedCommand : Open(c, s)
  <2>1. Activated(e, reg[e], v) \in RegistryRow
    <3>1. reg[e] \in RegistryRow /\ v \in 0 .. MaxVersion
      BY <1>0 DEF Versions, Bounds
    <3>2. CASE e \in Agents
      BY <3>1, <3>2 DEF Activated, RegistryRow, Status
    <3>3. CASE e \notin Agents
      BY <3>1, <3>3 DEF Activated, RegistryRow
    <3>4. QED BY <3>2, <3>3
  <2>2. [op |-> "activate", e |-> e, row |-> Activated(e, reg[e], v)] \in LoadedCommand
    BY <2>1 DEF LoadedCommand
  <2>3. QED BY <1>2, <2>2 DEF LoadActivate
<1>3. ASSUME NEW e \in Entities, NEW op \in {"disable", "archive"}, LoadLifecycle(c, e, op)
      PROVE  \E s \in LoadedCommand : Open(c, s)
  <2> DEFINE row == [reg[e] EXCEPT !.status = IF op = "disable" THEN "disabled" ELSE "archived"]
  <2>1. row \in RegistryRow
    BY <1>0 DEF RegistryRow, Status
  <2> HIDE DEF row
  <2>2. [op |-> op, e |-> e, row |-> row] \in LoadedCommand
    BY <2>1 DEF LoadedCommand
  <2>3. QED BY <1>3, <2>2 DEF LoadLifecycle, row
<1>4. ASSUME NEW a \in Agents \cup {None}, LoadReplaceTaskAgent(c, a)
      PROVE  \E s \in LoadedCommand : Open(c, s)
  <2>1. [op |-> "bindAgent", agent |-> a] \in LoadedCommand
    BY DEF LoadedCommand
  <2>2. QED BY <1>4, <2>1 DEF LoadReplaceTaskAgent
<1>5. CASE LoadBindTaskWorkflow(c)
  <2>1. [op |-> "bindWorkflow"] \in LoadedCommand
    BY DEF LoadedCommand
  <2>2. QED BY <1>5, <1>o, <2>1 DEF LoadBindTaskWorkflow
<1>6. ASSUME NEW S \in SUBSET Skills, LoadReplaceTaskSkills(c, S)
      PROVE  \E s \in LoadedCommand : Open(c, s)
  <2>1. [op |-> "bindSkills", skills |-> S] \in LoadedCommand
    BY DEF LoadedCommand
  <2>2. QED BY <1>6, <2>1 DEF LoadReplaceTaskSkills
<1>7. CASE CreateAgentRevision(c)
  <2>1. sess[c].e \in Entities /\ sess[c].version \in Versions
    BY <1>7, CommandShape DEF CreateAgentRevision
  <2>2. reg' \in [Entities -> RegistryRow]
    BY <1>0, <1>7, <2>1 DEF CreateAgentRevision, RegistryRow, Versions, Bounds
  <2>3. QED BY <1>0, <1>7, <1>c, <2>2 DEF CreateAgentRevision, Close
<1>8. CASE SaveAgent(c)
  <2>1. sess[c].e \in Entities /\ sess[c].row \in RegistryRow
    BY <1>8, CommandShape DEF SaveAgent
  <2>2. [sess[c].row EXCEPT !.top = reg[sess[c].e].top] \in RegistryRow
    BY <1>0, <2>1 DEF RegistryRow
  <2>3. reg' \in [Entities -> RegistryRow]
    BY <1>0, <1>8, <2>1, <2>2 DEF SaveAgent
  <2>4. QED BY <1>0, <1>8, <1>c, <2>3 DEF SaveAgent, Close
<1>9. CASE ReplaceTaskAgent(c) \/ BindTaskWorkflow(c) \/ ReplaceTaskSkills(c)
  <2>1. bind' \in Binding
    <3>1. CASE ReplaceTaskAgent(c)
      BY <1>0, <3>1, CommandShape DEF ReplaceTaskAgent, Binding
    <3>2. CASE BindTaskWorkflow(c)
      BY <1>0, <3>2 DEF BindTaskWorkflow, Binding
    <3>3. CASE ReplaceTaskSkills(c)
      BY <1>0, <3>3, CommandShape DEF ReplaceTaskSkills, Binding
    <3>4. QED BY <1>9, <3>1, <3>2, <3>3
  <2>2. QED
    BY <1>0, <1>9, <1>c, <2>1 DEF ReplaceTaskAgent, BindTaskWorkflow, ReplaceTaskSkills, Close
<1>10. QED
  BY <1>o, <1>1, <1>2, <1>3, <1>4, <1>5, <1>6, <1>7, <1>8, <1>9 DEF Registry, Bindings

\* The conjuncts of the type invariant that follow from the shapes.
LEMMA ShapesAreTypes ==
  /\ \A s \in WorkerState : s.pc \in {"idle", "bootstrap", "skills", "publishSkills",
                                      "agent", "publishAgent", "turn", "acting"}
  /\ \A s \in LoadedCommand : s.op \in AgentOps \cup BindOps \cup {"none"}
<1>1. \A s \in WorkerState : s.pc \in {"idle", "bootstrap", "skills", "publishSkills",
                                       "agent", "publishAgent", "turn", "acting"}
  BY DEF WorkerState
<1>2. \A s \in LoadedCommand : s.op \in AgentOps \cup BindOps \cup {"none"}
  BY DEF LoadedCommand, AgentOps, BindOps
<1>3. QED BY <1>1, <1>2

\* Every step keeps the types.
LEMMA TypesNext ==
  ASSUME Bounds, TypeOK, LocalInv, [Next]_vars
  PROVE  TypeOK' /\ LocalInv'
<1> DEFINE Turned == [r : Attempts, agent : SUBSET AgentRevision, skills : SUBSET SkillSet]
           Rated == [r : Attempts, skill : Skills, version : Versions]
           Typed == /\ reg' \in [Entities -> RegistryRow] /\ bind' \in Binding
                    /\ turns' \subseteq Turned /\ feedback' \subseteq Rated /\ LocalInv'
<1>0. /\ reg \in [Entities -> RegistryRow] /\ bind \in Binding
      /\ turns \subseteq Turned /\ feedback \subseteq Rated
      /\ sess \in [Sessions -> LoadedCommand] /\ worker \in [Workers -> WorkerState]
  BY DEF TypeOK, LocalInv
<1> HIDE DEF Turned
<1>1. ASSUME NEW c \in Sessions, Registry(c) \/ Bindings(c) PROVE Typed
  BY <1>0, <1>1, CommandTypes DEF LocalInv
<1>2. ASSUME UnbindTaskWorkflow PROVE Typed
  BY <1>0, <1>2 DEF UnbindTaskWorkflow, Binding, LocalInv
<1>3. ASSUME NEW w \in Workers, Work(w) PROVE Typed
  BY <1>0, <1>3, WorkTypes DEF LocalInv, Turned
<1>4. ASSUME NEW r \in Attempts, RetryFailedRun(r) \/ CancelRun(r) \/ LeaseExpires(r) PROVE Typed
  BY <1>0, <1>4 DEF RetryFailedRun, CancelRun, LeaseExpires, LocalInv
<1>5. ASSUME NEW r \in Attempts, NEW s \in Skills, AddSkillRunFeedback(r, s) PROVE Typed
  <2>1. PICK f \in run[r].skills : f[s] # 0 /\ feedback' = feedback \cup {[r |-> r, skill |-> s, version |-> f[s]]}
    BY <1>5 DEF AddSkillRunFeedback
  <2>2. f \in SkillSet
    BY DEF TypeOK, RunRow
  <2>3. f[s] \in Versions
    BY <2>1, <2>2 DEF SkillSet, Versions, Bounds
  <2>4. feedback' \subseteq Rated
    BY <1>0, <2>1, <2>3
  <2>5. QED BY <1>0, <1>5, <2>4 DEF AddSkillRunFeedback, LocalInv
<1>6. ASSUME UNCHANGED vars PROVE Typed
  BY <1>0, <1>6 DEF vars, LocalInv
<1>7. Typed
  BY <1>1, <1>2, <1>3, <1>4, <1>5, <1>6 DEF Next
<1>8. run' \in [Attempts -> RunRow]
  BY StepsOfRuns, RunTypes DEF TypeOK
<1>9. /\ \A w \in Workers : worker'[w].pc \in {"idle", "bootstrap", "skills", "publishSkills",
                                                "agent", "publishAgent", "turn", "acting"}
      /\ \A c \in Sessions : sess'[c].op \in AgentOps \cup BindOps \cup {"none"}
  <2>1. worker' \in [Workers -> WorkerState] /\ sess' \in [Sessions -> LoadedCommand]
    BY <1>7 DEF LocalInv
  <2>2. QED BY <2>1, ShapesAreTypes
<1>10. QED BY <1>7, <1>8, <1>9 DEF TypeOK, Turned

-----------------------------------------------------------------------------
(* What is published stays published *)

\* No step replaces a published resolution.
AllKept == \A r \in Attempts : Kept(run[r].skills, run'[r].skills) /\ Kept(run[r].agent, run'[r].agent)

\* Steps that leave the resolutions and the other attempts alone.
LEMMA OneRow ==
  ASSUME Bounds, run \in [Attempts -> RunRow], ChainInv, RowInv, NEW r \in Attempts,
         run' \in [Attempts -> RunRow], \A q \in Attempts : q # r => run'[q] = run[q],
         Kept(run[r].skills, run'[r].skills), Kept(run[r].agent, run'[r].agent),
         \/ run'[r].state = run[r].state /\ run'[r].usage = run[r].usage
            /\ (run[r].state # "live" => run'[r].skills = run[r].skills /\ run'[r].agent = run[r].agent)
         \/ run[r].state = "live" /\ run'[r].state = "workflow"
         \/ run[r].state = "live" /\ run'[r].state = "ended" /\ run'[r].usage = run'[r].skills,
         \A f, g \in run'[r].skills : f = g
  PROVE  ChainInv' /\ RowInv' /\ AllKept
<1>1. AllKept
  BY DEF AllKept, Kept
<1>2. RowInv'
  BY DEF RowInv
<1>3. ChainInv'
  <2> SUFFICES ASSUME NEW p \in Attempts, NEW q \in Attempts, p < q, run'[q].state # "absent"
               PROVE  /\ run'[p].state = "ended"
                      /\ Kept(run'[p].skills, run'[q].skills) /\ Kept(run'[p].agent, run'[q].agent)
    BY DEF ChainInv
  <2>1. run[q].state # "absent"
    BY DEF ChainInv
  <2>2. run[p].state = "ended" /\ Kept(run[p].skills, run[q].skills) /\ Kept(run[p].agent, run[q].agent)
    BY <2>1 DEF ChainInv
  <2>3. /\ run'[p].state = "ended"
        /\ run'[p].skills = run[p].skills /\ run'[p].agent = run[p].agent
    BY <2>2
  <2>4. Kept(run[q].skills, run'[q].skills) /\ Kept(run[q].agent, run'[q].agent)
    BY <1>1 DEF AllKept
  <2>5. QED BY <2>2, <2>3, <2>4 DEF Kept
<1>4. QED BY <1>1, <1>2, <1>3

\* An attempt is followed by one that inherits its resolutions, and nothing was
\* there before (inherit_frozen_resolutions_in_uow).
LEMMA NextRow ==
  ASSUME Bounds, run \in [Attempts -> RunRow], ChainInv, RowInv, NEW r \in Attempts, r + 1 \in Attempts,
         run[r].state \in {"live", "ended"}, run[r + 1].state = "absent",
         run' = [run EXCEPT ![r] = IF run[r].state = "live" THEN Terminal(run[r]) ELSE run[r],
                            ![r + 1] = InheritFrozen(run[r])]
  PROVE  ChainInv' /\ RowInv' /\ AllKept
<1>0. r \in Nat /\ r + 1 # r
  BY DEF Attempts
<1>1. /\ run'[r].state = "ended" /\ run'[r].skills = run[r].skills /\ run'[r].agent = run[r].agent
      /\ run'[r].usage = run[r].skills
  BY <1>0 DEF Terminal, RunRow, UsageOf, RowInv
<1>2. /\ run'[r + 1].state = "live"
      /\ run'[r + 1].skills = run[r].skills /\ run'[r + 1].agent = run[r].agent
  BY <1>0 DEF InheritFrozen, NewRun
<1>3. \A q \in Attempts : q # r /\ q # r + 1 => run'[q] = run[q]
  BY <1>0
<1>4. AllKept
  BY <1>1, <1>2, <1>3 DEF AllKept, Kept, RowInv
<1>5. RowInv'
  BY <1>1, <1>2, <1>3 DEF RowInv
<1>6. ASSUME NEW q \in Attempts, r + 1 < q PROVE run[q].state = "absent"
  BY <1>6 DEF ChainInv
<1>7. ChainInv'
  <2> SUFFICES ASSUME NEW p \in Attempts, NEW q \in Attempts, p < q, run'[q].state # "absent"
               PROVE  /\ run'[p].state = "ended"
                      /\ Kept(run'[p].skills, run'[q].skills) /\ Kept(run'[p].agent, run'[q].agent)
    BY DEF ChainInv
  <2>1. q <= r + 1
    BY <1>0, <1>3, <1>6 DEF Attempts
  <2>2. CASE q = r + 1 /\ p = r
    BY <1>1, <1>2, <2>2 DEF Kept
  <2>3. CASE q = r + 1 /\ p # r
    <3>1. p < r
      BY <1>0, <2>3 DEF Attempts
    <3>2. /\ run[p].state = "ended" /\ Kept(run[p].skills, run[r].skills)
          /\ Kept(run[p].agent, run[r].agent) /\ run'[p] = run[p]
      BY <1>0, <1>3, <3>1 DEF ChainInv, Attempts
    <3>3. QED BY <1>2, <2>3, <3>2
  <2>4. CASE q # r + 1
    <3>1. q <= r /\ p < r
      BY <1>0, <2>1, <2>4 DEF Attempts
    <3>2. run[q].state # "absent" /\ run'[p] = run[p] /\ run'[q].skills = run[q].skills /\ run'[q].agent = run[q].agent
      BY <1>0, <1>1, <1>3, <3>1 DEF Attempts
    <3>3. QED BY <3>2 DEF ChainInv
  <2>5. QED BY <2>2, <2>3, <2>4
<1>8. QED BY <1>4, <1>5, <1>7

\* Every step keeps the chain of attempts and all that is published.
LEMMA RowsNext ==
  ASSUME Bounds, run \in [Attempts -> RunRow], ChainInv, RowInv, RunStep
  PROVE  ChainInv' /\ RowInv' /\ AllKept
<1>0. run' \in [Attempts -> RunRow]
  BY RunTypes
<1>1. CASE UNCHANGED run
  BY <1>1 DEF ChainInv, RowInv, AllKept, Kept
<1>2. ASSUME NEW r \in Attempts, NEW h \in Workers \cup {Nobody}, Unheld(r, h)
      PROVE  ChainInv' /\ RowInv' /\ AllKept
  <2>1. /\ \A q \in Attempts : q # r => run'[q] = run[q]
        /\ run'[r].state = run[r].state /\ run'[r].usage = run[r].usage
        /\ run'[r].skills = run[r].skills /\ run'[r].agent = run[r].agent
    BY <1>2 DEF Unheld, RunRow
  <2>2. QED BY <1>0, <2>1, OneRow DEF Kept, RowInv
<1>3. ASSUME NEW r \in Attempts, Ended(r) PROVE ChainInv' /\ RowInv' /\ AllKept
  <2>1. /\ \A q \in Attempts : q # r => run'[q] = run[q]
        /\ run[r].state = "live" /\ run'[r].state = "ended" /\ run'[r].usage = run[r].skills
        /\ run'[r].skills = run[r].skills /\ run'[r].agent = run[r].agent
    BY <1>3 DEF Ended, Terminal, UsageOf, RunRow
  <2>2. QED BY <1>0, <2>1, OneRow DEF Kept, RowInv
<1>4. ASSUME NEW r \in Attempts, Parked(r) PROVE ChainInv' /\ RowInv' /\ AllKept
  <2>1. /\ \A q \in Attempts : q # r => run'[q] = run[q]
        /\ run[r].state = "live" /\ run'[r].state = "workflow"
        /\ run'[r].skills = run[r].skills /\ run'[r].agent = run[r].agent
    BY <1>4 DEF Parked, RunRow
  <2>2. QED BY <1>0, <2>1, OneRow DEF Kept, RowInv
<1>5. ASSUME NEW r \in Attempts, NEW x \in SkillSet, SkillsSet(r, x)
      PROVE  ChainInv' /\ RowInv' /\ AllKept
  <2>1. /\ \A q \in Attempts : q # r => run'[q] = run[q]
        /\ run[r].state = "live" /\ run'[r].state = "live" /\ run'[r].usage = run[r].usage
        /\ run[r].skills = Unresolved /\ run'[r].skills = {x} /\ run'[r].agent = run[r].agent
    BY <1>5 DEF SkillsSet, RunRow
  <2>2. QED BY <1>0, <2>1, OneRow DEF Kept
<1>6. ASSUME NEW r \in Attempts, NEW x \in AgentRevision, AgentSet(r, x)
      PROVE  ChainInv' /\ RowInv' /\ AllKept
  <2>1. /\ \A q \in Attempts : q # r => run'[q] = run[q]
        /\ run[r].state = "live" /\ run'[r].state = "live" /\ run'[r].usage = run[r].usage
        /\ run'[r].skills = run[r].skills /\ run[r].agent = Unresolved
    BY <1>6 DEF AgentSet, RunRow
  <2>2. QED BY <1>0, <2>1, OneRow DEF Kept, RowInv
<1>7. ASSUME NEW r \in Attempts, Retried(r) PROVE ChainInv' /\ RowInv' /\ AllKept
  <2>1. run' = [run EXCEPT ![r] = IF run[r].state = "live" THEN Terminal(run[r]) ELSE run[r],
                           ![r + 1] = InheritFrozen(run[r])]
    BY <1>7 DEF Retried
  <2>2. QED BY <1>7, <2>1, NextRow DEF Retried
<1>8. ASSUME NEW r \in Attempts, Replaced(r) PROVE ChainInv' /\ RowInv' /\ AllKept
  <2>1. run[r + 1].state = "absent"
    BY <1>8 DEF Replaced, ChainInv, Attempts
  <2>2. run' = [run EXCEPT ![r] = IF run[r].state = "live" THEN Terminal(run[r]) ELSE run[r],
                           ![r + 1] = InheritFrozen(run[r])]
    BY <1>8 DEF Replaced
  <2>3. QED BY <1>8, <2>1, <2>2, NextRow DEF Replaced
<1>9. QED
  BY <1>1, <1>2, <1>3, <1>4, <1>5, <1>6, <1>7, <1>8 DEF RunStep

-----------------------------------------------------------------------------
(* Turns and ratings *)

Resolved == {"agent", "publishAgent", "turn", "acting"}

\* A worker that has gone past the resolution of its Run's skills stays where
\* there is one, or has just found or published it.
LEMMA ResolvedStays ==
  ASSUME Bounds, TypeOK, LocalInv, WorkInv, AllKept, NEW w \in Workers, Work(w),
         worker'[w].pc \in Resolved
  PROVE  worker'[w].r \in Attempts /\ run'[worker'[w].r].skills # Unresolved
<1> DEFINE m == Mine(w)
<1>0. /\ worker[w].pc # "idle" => m \in Attempts
      /\ worker[w].pc \in Resolved => run[m].skills # Unresolved
      /\ \A r \in Attempts : run[r].skills # Unresolved => run'[r].skills # Unresolved
      /\ worker \in [Workers -> WorkerState]
  BY WorkerShape DEF Mine, WorkInv, Resolved, AllKept, Kept, LocalInv
<1>1. ASSUME NEW r \in Attempts, ClaimAndRoute(w, r) PROVE FALSE
  BY <1>0, <1>1 DEF ClaimAndRoute, Go, RouteTo, Resolved
<1>2. ASSUME Go(w, Idle) PROVE FALSE
  BY <1>0, <1>2 DEF Go, Idle, Resolved
<1>3. CASE ReadSkills(w)
  <2>1. m \in Attempts /\ run[m].skills # Unresolved /\ worker'[w].r = m
    BY <1>0, <1>3 DEF ReadSkills, Go, Resolved
  <2>2. QED BY <1>0, <2>1
<1>4. CASE PublishSkills(w)
  <2>1. m \in Attempts /\ worker'[w].r = m /\ run' = [run EXCEPT ![m].skills = IF @ = Unresolved THEN {worker[w].read} ELSE @]
    BY <1>0, <1>4 DEF PublishSkills, Go
  <2>2. run'[m].skills # Unresolved
    BY <2>1 DEF TypeOK, RunRow, Unresolved
  <2>3. QED BY <2>1, <2>2
<1>5. CASE ReadAgent(w) \/ PublishAgent(w) \/ Turn(w)
  <2>1. m \in Attempts /\ run[m].skills # Unresolved /\ worker'[w].r = m
    BY <1>0, <1>5 DEF ReadAgent, PublishAgent, Turn, Go, Resolved
  <2>2. QED BY <1>0, <2>1
<1>6. ASSUME NextTurn(w) PROVE FALSE
  BY <1>0, <1>6 DEF NextTurn, Go, Resolved
<1>7. QED
  BY <1>1, <1>2, <1>3, <1>4, <1>5, <1>6 DEF Work, Bootstrap, Yield, Pause, FailAndRetry, BootstrapFails,
     SkillsUnresolvable, AgentUnresolvable, Finish, FailRun

\* Every step keeps what is known of workers, turns and ratings.
LEMMA RecordsNext ==
  ASSUME Bounds, TypeOK, LocalInv, WorkInv, TurnsInv, FeedbackInv, AllKept, [Next]_vars
  PROVE  WorkInv' /\ TurnsInv' /\ FeedbackInv'
<1>0. \A r \in Attempts : /\ run[r].skills # Unresolved => run'[r].skills = run[r].skills
                          /\ run[r].agent # Unresolved => run'[r].agent = run[r].agent
  BY DEF AllKept, Kept
<1>1. \A w \in Workers : worker[w].pc \in Resolved =>
        worker[w].r \in Attempts /\ run'[worker[w].r].skills # Unresolved
  BY <1>0, WorkerShape DEF WorkInv, Resolved
<1>2. ASSUME worker' = worker PROVE WorkInv'
  BY <1>1, <1>2 DEF WorkInv, Resolved
<1>3. ASSUME NEW w \in Workers, Work(w) PROVE WorkInv'
  <2>1. \A v \in Workers : v # w => worker'[v] = worker[v]
    BY <1>3 DEF LocalInv, Work, ClaimAndRoute, Bootstrap, Yield, Pause, FailAndRetry, BootstrapFails,
       SkillsUnresolvable, AgentUnresolvable, Finish, FailRun, ReadSkills, PublishSkills, ReadAgent,
       PublishAgent, Turn, NextTurn, Go
  <2>2. worker'[w].pc \in Resolved => run'[worker'[w].r].skills # Unresolved
    BY <1>3, ResolvedStays
  <2>3. QED BY <1>1, <2>1, <2>2 DEF WorkInv, Resolved
<1>4. ASSUME NEW t \in turns
      PROVE  t.skills # Unresolved /\ run'[t.r].skills = t.skills /\ Kept(t.agent, run'[t.r].agent)
  <2>1. t.r \in Attempts
    BY DEF TypeOK
  <2>2. QED BY <1>0, <2>1 DEF TurnsInv, Kept
<1>5. ASSUME turns' = turns PROVE TurnsInv'
  BY <1>4, <1>5 DEF TurnsInv
<1>6. ASSUME NEW w \in Workers, Turn(w) PROVE TurnsInv'
  <2> DEFINE m == Mine(w)
             t == [r |-> m, agent |-> run[m].agent, skills |-> run[m].skills]
  <2>1. m \in Attempts /\ run[m].skills # Unresolved /\ turns' = turns \cup {t} /\ run' = run
    BY <1>6, WorkerShape DEF Turn, Mine, WorkInv
  <2>2. t.skills # Unresolved /\ run'[t.r].skills = t.skills /\ Kept(t.agent, run'[t.r].agent)
    BY <2>1 DEF Kept
  <2> HIDE DEF t
  <2>3. QED BY <1>4, <2>1, <2>2 DEF TurnsInv
<1>7. ASSUME NEW f \in feedback PROVE \E g \in run'[f.r].skills : f.version = g[f.skill]
  <2>1. f.r \in Attempts
    BY DEF TypeOK
  <2>2. QED BY <1>0, <2>1 DEF FeedbackInv, Unresolved
<1>8. ASSUME feedback' = feedback PROVE FeedbackInv'
  BY <1>7, <1>8 DEF FeedbackInv
<1>9. ASSUME NEW r \in Attempts, NEW s \in Skills, AddSkillRunFeedback(r, s) PROVE FeedbackInv'
  <2>1. PICK g \in run[r].skills : feedback' = feedback \cup {[r |-> r, skill |-> s, version |-> g[s]]}
    BY <1>9 DEF AddSkillRunFeedback
  <2>2. run' = run
    BY <1>9 DEF AddSkillRunFeedback
  <2>3. QED BY <1>7, <2>1, <2>2 DEF FeedbackInv
<1>10. ASSUME NEW c \in Sessions, Registry(c) \/ Bindings(c)
       PROVE  worker' = worker /\ turns' = turns /\ feedback' = feedback
  BY <1>10, CommandTypes
<1>11. ASSUME NEW w \in Workers, Work(w) PROVE feedback' = feedback /\ (turns' = turns \/ Turn(w))
  BY <1>11 DEF Work, ClaimAndRoute, Bootstrap, Yield, Pause, FailAndRetry, BootstrapFails,
       SkillsUnresolvable, AgentUnresolvable, Finish, FailRun, ReadSkills, PublishSkills, ReadAgent,
       PublishAgent, Turn, NextTurn
<1>12. CASE UnbindTaskWorkflow \/ UNCHANGED vars
  BY <1>12, <1>2, <1>5, <1>8 DEF UnbindTaskWorkflow, vars
<1>13. ASSUME NEW r \in Attempts, RetryFailedRun(r) \/ CancelRun(r) \/ LeaseExpires(r)
       PROVE  worker' = worker /\ turns' = turns /\ feedback' = feedback
  BY <1>13 DEF RetryFailedRun, CancelRun, LeaseExpires
<1>14. ASSUME NEW r \in Attempts, NEW s \in Skills, AddSkillRunFeedback(r, s)
       PROVE  worker' = worker /\ turns' = turns
  BY <1>14 DEF AddSkillRunFeedback
<1>15. QED
  BY <1>2, <1>3, <1>5, <1>6, <1>8, <1>9, <1>10, <1>11, <1>12, <1>13, <1>14 DEF Next

\* The invariant holds in every state.
LEMMA IdentityHolds == ASSUME Bounds PROVE Spec => []IdentityInv
<1>1. ASSUME Init PROVE IdentityInv
  <2>1. \A e \in Entities : [status |-> "active", active |-> 1, top |-> 1] \in RegistryRow
    BY DEF RegistryRow, Status, Bounds
  <2>2. NewRun \in RunRow /\ [NewRun EXCEPT !.state = "absent"] \in RunRow
    BY DEF RunRow, NewRun, Unresolved
  <2>3. run \in [Attempts -> RunRow]
    BY <1>1, <2>2 DEF Init
  <2>4. Idle \in WorkerState /\ Closed \in LoadedCommand /\ bind \in Binding
    BY <1>1 DEF Init, Idle, Closed, WorkerState, LoadedCommand, Binding
  <2>5. LocalInv
    BY <1>1, <2>4 DEF Init, LocalInv
  <2>6. TypeOK
    BY <1>1, <2>1, <2>3, <2>4 DEF Init, TypeOK, Idle, Closed
  <2>7. \A r \in Attempts : run[r].skills = Unresolved /\ run[r].agent = Unresolved /\ run[r].state # "ended"
                            /\ (r # 1 => run[r].state = "absent")
    BY <1>1 DEF Init, NewRun
  <2>8. ChainInv /\ RowInv
    BY <2>7 DEF ChainInv, RowInv, Kept, Attempts, Unresolved
  <2>9. WorkInv /\ TurnsInv /\ FeedbackInv
    BY <1>1 DEF Init, WorkInv, TurnsInv, FeedbackInv, Idle
  <2>10. QED BY <2>5, <2>6, <2>8, <2>9 DEF IdentityInv
<1>2. ASSUME IdentityInv, [Next]_vars PROVE IdentityInv'
  <2>1. ChainInv' /\ RowInv' /\ AllKept
    BY <1>2, StepsOfRuns, RowsNext DEF IdentityInv, TypeOK
  <2>2. QED BY <1>2, <2>1, TypesNext, RecordsNext DEF IdentityInv
<1>3. QED BY <1>1, <1>2, PTL DEF Spec

-----------------------------------------------------------------------------
(* The results *)

\* Two turns were given the same skills, and the same agent if both had one.
LEMMA TurnsAgree ==
  ASSUME Bounds, IdentityInv, NEW t \in turns, NEW u \in turns
  PROVE  t.skills = u.skills /\ (t.agent # Unresolved /\ u.agent # Unresolved => t.agent = u.agent)
<1>1. ASSUME NEW a \in turns, NEW b \in turns, a.r <= b.r
      PROVE  a.skills = b.skills /\ (a.agent # Unresolved /\ b.agent # Unresolved => a.agent = b.agent)
  <2>1. a.r \in Attempts /\ b.r \in Attempts
    BY DEF IdentityInv, TypeOK
  <2>2. run[b.r].state # "absent"
    BY <2>1 DEF IdentityInv, TurnsInv, RowInv
  <2>3. Kept(run[a.r].skills, run[b.r].skills) /\ Kept(run[a.r].agent, run[b.r].agent)
    BY <1>1, <2>1, <2>2 DEF IdentityInv, ChainInv, Attempts, Kept
  <2>4. QED BY <2>3 DEF IdentityInv, TurnsInv, Kept
<1>2. t.r \in Attempts /\ u.r \in Attempts
  BY DEF IdentityInv, TypeOK
<1>3. t.r <= u.r \/ u.r <= t.r
  BY <1>2 DEF Attempts
<1>4. QED BY <1>1, <1>3

\* A set without two different elements has at most one.
LEMMA AtMostOne ==
  ASSUME NEW S, \A x, y \in S : x = y
  PROVE  Cardinality(S) <= 1
<1>1. CASE S = {}
  BY <1>1, FS_EmptySet
<1>2. CASE S # {}
  <2>1. PICK x \in S : TRUE
    BY <1>2
  <2>2. S = {x}
    BY <2>1
  <2>3. QED BY <2>2, FS_Singleton
<1>3. QED BY <1>1, <1>2

\* All turns of all attempts of an execution work with one revision of one agent
\* and with the same revisions of the same skills, however many operators change
\* the registries and the bindings and however many workers lose their leases
\* (ResolveRunSkills, ResolveRunAgent, inherit_frozen_resolutions_in_uow).
THEOREM TurnsHaveOneIdentity == ASSUME Bounds PROVE Spec => []OneIdentity
<1>1. ASSUME IdentityInv PROVE OneIdentity
  <2>1. \A x, y \in {t.agent : t \in turns} \ {Unresolved} : x = y
    BY <1>1, TurnsAgree
  <2>2. \A x, y \in {t.skills : t \in turns} : x = y
    BY <1>1, TurnsAgree
  <2>3. QED BY <2>1, <2>2, AtMostOne DEF OneIdentity
<1>2. QED BY <1>1, IdentityHolds, PTL

\* What an ended attempt is recorded to have used, and what it is rated under,
\* is what the model was given (materialize_skill_usage_in_uow,
\* AddSkillRunFeedback).
THEOREM UsageIsWhatWasGiven == ASSUME Bounds PROVE Spec => []UsageIsFrozen
<1>1. ASSUME IdentityInv PROVE UsageIsFrozen
  <2> SUFFICES ASSUME NEW t \in turns
               PROVE  /\ run[t.r].state = "ended" => run[t.r].usage = t.skills
                      /\ \A f \in feedback : f.r = t.r => \A g \in t.skills : f.version = g[f.skill]
    BY DEF UsageIsFrozen
  <2>1. t.r \in Attempts /\ run[t.r].skills = t.skills
    BY <1>1 DEF IdentityInv, TypeOK, TurnsInv
  <2>2. run[t.r].state = "ended" => run[t.r].usage = t.skills
    BY <1>1, <2>1 DEF IdentityInv, RowInv
  <2>3. ASSUME NEW f \in feedback, f.r = t.r, NEW g \in t.skills PROVE f.version = g[f.skill]
    BY <1>1, <2>1, <2>3 DEF IdentityInv, RowInv, FeedbackInv
  <2>4. QED BY <2>2, <2>3
<1>2. QED BY <1>1, IdentityHolds, PTL

\* Both: the identity of an execution is frozen for its turns and for its record,
\* for any number of attempts, operators and versions (ResolveRunAgent,
\* ResolveRunSkills).
THEOREM IdentityStaysFrozen == ASSUME Bounds PROVE Spec => []IdentityIsFrozen
<1>1. OneIdentity /\ UsageIsFrozen => IdentityIsFrozen
  BY DEF IdentityIsFrozen
<1>2. QED BY <1>1, TurnsHaveOneIdentity, UsageIsWhatWasGiven, PTL
=============================================================================
