---------------------------- MODULE RunIdentity ----------------------------
(***************************************************************************)
(* Which agent, skills and workflow a Run works with.  Operators change    *)
(* the registries (agent_registry.py, skill_registry.py) and the bindings  *)
(* of one Task while workers resolve its Runs: a worker reads a binding,   *)
(* and publishes the exact revision under its claim, once per attempt.     *)
(* Automatic and manual retries copy the published revisions.              *)
(***************************************************************************)
EXTENDS Naturals, FiniteSets

CONSTANTS Agents, Skills, MaxVersion, MaxAttempts, Workers, Sessions,
          Commands    \* the commands the operators of an instance give

VARIABLES reg,        \* agents and skills: status, active revision, newest revision
          bind,       \* the Task's agent, workflow and skill bindings
          run,        \* its attempts: state, claim, frozen revisions, usage
          worker, sess,
          turns,      \* history: the identity of every model turn
          feedback    \* skill_run_feedback: the revision a rating is filed under

vars == <<reg, bind, run, worker, sess, turns, feedback>>

None == "none"
Nobody == "nobody"
Unresolved == {}       \* a marker is a row: the set of it, or no row
Versions == 1..MaxVersion
Attempts == 1..MaxAttempts
Entities == Agents \cup Skills
Status == {"active", "disabled", "archived"}
RegistryRow == [status : Status, active : 0..MaxVersion, top : 0..MaxVersion]
SkillSet == [Skills -> 0..MaxVersion]       \* 0: not bound
AgentRevision == [agent : Agents, version : Versions]
Binding == [agent : Agents \cup {None}, workflow : BOOLEAN, skills : SUBSET Skills]
RunRow == [state : {"absent", "live", "workflow", "ended"}, holder : Workers \cup {Nobody},
           skills : SUBSET SkillSet, agent : SUBSET AgentRevision,
           usage : SUBSET SkillSet]
AgentOps == {"revise", "activate", "disable", "archive"}
BindOps == {"bindAgent", "bindWorkflow", "unbindWorkflow", "bindSkills"}

NewRun == [state |-> "live", holder |-> Nobody, skills |-> Unresolved, agent |-> Unresolved,
           usage |-> {}]
Idle == [pc |-> "idle"]
Closed == [op |-> "none"]

TypeOK ==
    /\ reg \in [Entities -> RegistryRow]
    /\ bind \in Binding
    /\ run \in [Attempts -> RunRow]
    /\ \A w \in Workers : worker[w].pc \in {"idle", "bootstrap", "skills", "publishSkills",
                                            "agent", "publishAgent", "turn", "acting"}
    /\ \A c \in Sessions : sess[c].op \in AgentOps \cup BindOps \cup {"none"}
    /\ turns \subseteq [r : Attempts, agent : SUBSET AgentRevision, skills : SUBSET SkillSet]
    /\ feedback \subseteq [r : Attempts, skill : Skills, version : Versions]

Init ==
    /\ reg = [e \in Entities |-> [status |-> "active", active |-> 1, top |-> 1]]
    /\ bind = [agent |-> None, workflow |-> FALSE, skills |-> {}]
    /\ run = [r \in Attempts |->
                IF r = 1 THEN NewRun ELSE [NewRun EXCEPT !.state = "absent"]]
    /\ worker = [w \in Workers |-> Idle]
    /\ sess = [c \in Sessions |-> Closed]
    /\ turns = {}
    /\ feedback = {}

-----------------------------------------------------------------------------
(* The registries.  A command reads the row and saves it whole.            *)

Usable(e) == reg[e].status = "active" /\ reg[e].active # 0

Open(c, s) ==
    /\ sess[c] = Closed
    /\ s.op \in Commands
    /\ sess' = [sess EXCEPT ![c] = s]
    /\ UNCHANGED <<reg, bind, run, worker, turns, feedback>>

Close(c) == sess' = [sess EXCEPT ![c] = Closed]

LoadRevise(c, e) ==
    /\ reg[e].status # "archived"
    /\ reg[e].top < MaxVersion
    /\ Open(c, [op |-> "revise", e |-> e, version |-> reg[e].top + 1])

\* The unique (agent, version) makes the later of two equal versions a conflict.
CreateAgentRevision(c) ==
    /\ sess[c].op = "revise"
    /\ reg' = [reg EXCEPT ![sess[c].e].top = IF @ < sess[c].version THEN sess[c].version ELSE @]
    /\ Close(c)
    /\ UNCHANGED <<bind, run, worker, turns, feedback>>

\* Agent.activate makes a disabled agent active again; Skill.activate leaves the status.
Activated(e, row, v) ==
    [row EXCEPT !.active = v, !.status = IF e \in Agents THEN "active" ELSE @]

\* An older revision of a Skill comes back by a rollback (SkillPromotion).
LoadActivate(c, e, v) ==
    /\ reg[e].status # "archived"
    /\ v \in 1..reg[e].top
    /\ Open(c, [op |-> "activate", e |-> e, row |-> Activated(e, reg[e], v)])

LoadLifecycle(c, e, op) ==
    /\ op \in {"disable", "archive"}
    /\ op = "disable" => reg[e].status # "archived"
    /\ Open(c, [op |-> op, e |-> e,
                row |-> [reg[e] EXCEPT !.status = IF op = "disable" THEN "disabled" ELSE "archived"]])

\* session.merge writes back the row as read; the revisions are rows of their own.
SaveAgent(c) ==
    /\ sess[c].op \in {"activate", "disable", "archive"}
    /\ reg' = [reg EXCEPT ![sess[c].e] = [sess[c].row EXCEPT !.top = reg[sess[c].e].top]]
    /\ Close(c)
    /\ UNCHANGED <<bind, run, worker, turns, feedback>>

-----------------------------------------------------------------------------
(* The Task's bindings.                                                    *)

LoadReplaceTaskAgent(c, a) ==
    /\ a # None => ~bind.workflow /\ Usable(a)
    /\ Open(c, [op |-> "bindAgent", agent |-> a])

ReplaceTaskAgent(c) ==
    /\ sess[c].op = "bindAgent"
    /\ bind' = [bind EXCEPT !.agent = sess[c].agent]
    /\ Close(c)
    /\ UNCHANGED <<reg, run, worker, turns, feedback>>

RequireBindingExclusive == bind.agent = None

LoadBindTaskWorkflow(c) ==
    /\ RequireBindingExclusive
    /\ Open(c, [op |-> "bindWorkflow"])

BindTaskWorkflow(c) ==
    /\ sess[c].op = "bindWorkflow"
    /\ bind' = [bind EXCEPT !.workflow = TRUE]
    /\ Close(c)
    /\ UNCHANGED <<reg, run, worker, turns, feedback>>

UnbindTaskWorkflow ==
    /\ "unbindWorkflow" \in Commands
    /\ bind.workflow
    /\ bind' = [bind EXCEPT !.workflow = FALSE]
    /\ UNCHANGED <<reg, run, worker, sess, turns, feedback>>

LoadReplaceTaskSkills(c, S) ==
    /\ \A s \in S : Usable(s)
    /\ Open(c, [op |-> "bindSkills", skills |-> S])

ReplaceTaskSkills(c) ==
    /\ sess[c].op = "bindSkills"
    /\ bind' = [bind EXCEPT !.skills = sess[c].skills]
    /\ Close(c)
    /\ UNCHANGED <<reg, run, worker, turns, feedback>>

-----------------------------------------------------------------------------
(* A worker: claim, route, resolve, act.                                   *)

Go(w, s) == worker' = [worker EXCEPT ![w] = s]
Mine(w) == worker[w].r
Claimed(w) == run[Mine(w)].holder = w /\ run[Mine(w)].state = "live"

\* An existing workflow resolution is published with the root parked, so a Run that is
\* claimed has none, and the binding decides.
RouteTo == IF bind.workflow THEN "bootstrap" ELSE "skills"

ClaimAndRoute(w, r) ==
    /\ worker[w] = Idle
    /\ run[r].state = "live"
    /\ run[r].holder = Nobody
    /\ run' = [run EXCEPT ![r].holder = w]
    /\ Go(w, [pc |-> RouteTo, r |-> r])
    /\ UNCHANGED <<reg, bind, sess, turns, feedback>>

\* materialize_skill_usage_in_uow: one record per frozen skill, none if unresolved.
UsageOf_Active(row) ==
    {[s \in Skills |-> IF f[s] = 0 THEN 0 ELSE reg[s].active] : f \in row.skills}
UsageOf(row) == row.skills

Terminal(row) == [row EXCEPT !.state = "ended", !.holder = Nobody, !.usage = UsageOf(row)]

\* The failed outcomes of routing, bootstrap and resolution are not retryable.
FailRun(w) ==
    /\ run' = [run EXCEPT ![Mine(w)] = IF Claimed(w) THEN Terminal(@) ELSE @]
    /\ Go(w, Idle)
    /\ UNCHANGED <<reg, bind, sess, turns, feedback>>

Bootstrap(w) ==
    /\ worker[w].pc = "bootstrap"
    /\ bind.workflow /\ RequireBindingExclusive
    /\ run' = [run EXCEPT ![Mine(w)] =
                 IF Claimed(w) THEN [@ EXCEPT !.state = "workflow", !.holder = Nobody] ELSE @]
    /\ Go(w, Idle)
    /\ UNCHANGED <<reg, bind, sess, turns, feedback>>

BootstrapFails(w) ==
    /\ worker[w].pc = "bootstrap"
    /\ ~bind.workflow \/ ~RequireBindingExclusive
    /\ FailRun(w)

\* ClaimLost yields: the loop drops the Run without an outcome.
Yield(w) ==
    /\ worker[w].pc \notin {"idle", "acting"}
    /\ ~Claimed(w)
    /\ Go(w, Idle)
    /\ UNCHANGED <<reg, bind, run, sess, turns, feedback>>

ActiveSkills == [s \in Skills |-> IF s \in bind.skills THEN reg[s].active ELSE 0]

ReadSkills(w) ==
    /\ worker[w].pc = "skills"
    /\ Claimed(w)
    /\ \/ /\ run[Mine(w)].skills # Unresolved
          /\ Go(w, [pc |-> "agent", r |-> Mine(w)])
       \/ /\ run[Mine(w)].skills = Unresolved
          /\ \A s \in bind.skills : Usable(s)
          /\ Go(w, [pc |-> "publishSkills", r |-> Mine(w), read |-> ActiveSkills])
    /\ UNCHANGED <<reg, bind, run, sess, turns, feedback>>

SkillsUnresolvable(w) ==
    /\ worker[w].pc = "skills"
    /\ Claimed(w)
    /\ run[Mine(w)].skills = Unresolved
    /\ \E s \in bind.skills : ~Usable(s)
    /\ FailRun(w)

\* RunSkillResolutionRepository.add_if_claimed with the bindings, in one transaction.
PublishSkills(w) ==
    /\ worker[w].pc = "publishSkills"
    /\ Claimed(w)
    /\ run' = [run EXCEPT ![Mine(w)].skills = IF @ = Unresolved THEN {worker[w].read} ELSE @]
    /\ Go(w, [pc |-> "agent", r |-> Mine(w)])
    /\ UNCHANGED <<reg, bind, sess, turns, feedback>>

\* A Task without an agent resolves to nothing, and is asked again on the next turn.
ReadAgent(w) ==
    /\ worker[w].pc = "agent"
    /\ Claimed(w)
    /\ \/ /\ run[Mine(w)].agent # Unresolved \/ bind.agent = None
          /\ Go(w, [pc |-> "turn", r |-> Mine(w)])
       \/ /\ run[Mine(w)].agent = Unresolved
          /\ bind.agent # None
          /\ Usable(bind.agent)
          /\ Go(w, [pc |-> "publishAgent", r |-> Mine(w),
                    read |-> [agent |-> bind.agent, version |-> reg[bind.agent].active]])
    /\ UNCHANGED <<reg, bind, run, sess, turns, feedback>>

AgentUnresolvable(w) ==
    /\ worker[w].pc = "agent"
    /\ Claimed(w)
    /\ run[Mine(w)].agent = Unresolved
    /\ bind.agent # None
    /\ ~Usable(bind.agent)
    /\ FailRun(w)

PublishAgent(w) ==
    /\ worker[w].pc = "publishAgent"
    /\ Claimed(w)
    /\ run' = [run EXCEPT ![Mine(w)].agent = IF @ = Unresolved THEN {worker[w].read} ELSE @]
    /\ Go(w, [pc |-> "turn", r |-> Mine(w)])
    /\ UNCHANGED <<reg, bind, sess, turns, feedback>>

\* _load_snapshot reads the published rows; it asks for a live Run, not for the claim.
Turn(w) ==
    /\ worker[w].pc = "turn"
    /\ run[Mine(w)].state = "live"
    /\ turns' = turns \cup {[r |-> Mine(w), agent |-> run[Mine(w)].agent,
                             skills |-> run[Mine(w)].skills]}
    /\ Go(w, [pc |-> "acting", r |-> Mine(w)])
    /\ UNCHANGED <<reg, bind, run, sess, feedback>>

NextTurn(w) ==
    /\ worker[w].pc = "acting"
    /\ Claimed(w)
    /\ Go(w, [pc |-> "skills", r |-> Mine(w)])
    /\ UNCHANGED <<reg, bind, run, sess, turns, feedback>>

\* A wait, a yield, a finished or a failed outcome, applied under the claim.
Pause(w) ==
    /\ worker[w].pc = "acting"
    /\ run' = [run EXCEPT ![Mine(w)].holder = IF @ = w THEN Nobody ELSE @]
    /\ Go(w, Idle)
    /\ UNCHANGED <<reg, bind, sess, turns, feedback>>

Finish(w) ==
    /\ worker[w].pc = "acting"
    /\ FailRun(w)

\* inherit_frozen_resolutions_in_uow: an unresolved source stays unresolved.
InheritFrozen_Fresh(source) == NewRun
InheritFrozen(source) == [NewRun EXCEPT !.skills = source.skills, !.agent = source.agent]

FailAndRetry(w) ==
    /\ worker[w].pc = "acting"
    /\ Claimed(w)
    /\ Mine(w) < MaxAttempts
    /\ run' = [run EXCEPT ![Mine(w)] = Terminal(@),
                          ![Mine(w) + 1] = InheritFrozen(run[Mine(w)])]
    /\ Go(w, Idle)
    /\ UNCHANGED <<reg, bind, sess, turns, feedback>>

RetryFailedRun(r) ==
    /\ run[r].state = "ended"
    /\ r < MaxAttempts
    /\ run[r + 1].state = "absent"
    /\ run' = [run EXCEPT ![r + 1] = InheritFrozen(run[r])]
    /\ UNCHANGED <<reg, bind, worker, sess, turns, feedback>>

CancelRun(r) ==
    /\ run[r].state = "live"
    /\ run' = [run EXCEPT ![r] = Terminal(@)]
    /\ UNCHANGED <<reg, bind, worker, sess, turns, feedback>>

LeaseExpires(r) ==
    /\ run[r].holder # Nobody
    /\ run' = [run EXCEPT ![r].holder = Nobody]
    /\ UNCHANGED <<reg, bind, worker, sess, turns, feedback>>

AddSkillRunFeedback(r, s) ==
    /\ \E f \in run[r].skills :
          /\ f[s] # 0
          /\ feedback' = feedback \cup {[r |-> r, skill |-> s, version |-> f[s]]}
    /\ UNCHANGED <<reg, bind, run, worker, sess, turns>>

Registry(c) ==
    \/ \E e \in Entities : LoadRevise(c, e)
    \/ CreateAgentRevision(c)
    \/ \E e \in Entities, v \in Versions : LoadActivate(c, e, v)
    \/ \E e \in Entities, op \in {"disable", "archive"} : LoadLifecycle(c, e, op)
    \/ SaveAgent(c)

Bindings(c) ==
    \/ \E a \in Agents \cup {None} : LoadReplaceTaskAgent(c, a)
    \/ ReplaceTaskAgent(c)
    \/ LoadBindTaskWorkflow(c)
    \/ BindTaskWorkflow(c)
    \/ \E S \in SUBSET Skills : LoadReplaceTaskSkills(c, S)
    \/ ReplaceTaskSkills(c)

Work(w) ==
    \/ \E r \in Attempts : ClaimAndRoute(w, r)
    \/ Bootstrap(w)
    \/ BootstrapFails(w)
    \/ Yield(w)
    \/ ReadSkills(w)
    \/ SkillsUnresolvable(w)
    \/ PublishSkills(w)
    \/ ReadAgent(w)
    \/ AgentUnresolvable(w)
    \/ PublishAgent(w)
    \/ Turn(w)
    \/ NextTurn(w)
    \/ Pause(w)
    \/ Finish(w)
    \/ FailAndRetry(w)

Next ==
    \/ \E c \in Sessions : Registry(c) \/ Bindings(c)
    \/ UnbindTaskWorkflow
    \/ \E w \in Workers : Work(w)
    \/ \E r \in Attempts : RetryFailedRun(r) \/ CancelRun(r) \/ LeaseExpires(r)
    \/ \E r \in Attempts, s \in Skills : AddSkillRunFeedback(r, s)

Spec == Init /\ [][Next]_vars

-----------------------------------------------------------------------------
\* All turns of all attempts of an execution that have an agent have the same revision of
\* the same agent, and all have the same revisions of the same skills, whatever operators
\* do to the registries and bindings meanwhile and however often a lease is lost: the
\* freeze of ResolveRunSkills and ResolveRunAgent, and what retries inherit.
OneIdentity ==
    /\ Cardinality({t.agent : t \in turns} \ {Unresolved}) <= 1
    /\ Cardinality({t.skills : t \in turns}) <= 1

\* What an ended attempt is recorded to have used, and what a rating of it is filed under,
\* is what the model was given in its turns, even when it was cancelled from outside.
UsageIsFrozen ==
    \A t \in turns :
        /\ run[t.r].state = "ended" => run[t.r].usage = t.skills
        /\ \A f \in feedback : f.r = t.r => \A g \in t.skills : f.version = g[f.skill]

\* Both: who acts in an execution is settled with its first turn, for the turns after it
\* and for the record of it (ResolveRunAgent, ResolveRunSkills).
IdentityIsFrozen == OneIdentity /\ UsageIsFrozen
=============================================================================
