-------------------------- MODULE SkillImprovement --------------------------
(***************************************************************************)
(* The improvement loop of one Skill.  A maintenance tick looks at the     *)
(* policy, keeps one durable work row, claims it under a lease, generates  *)
(* a candidate, evaluates the base and the candidate on the frozen suite,  *)
(* compares them and closes the row together with the policy's cooldown.   *)
(* Each of these is a transaction of its own, and a worker may die, fail   *)
(* or lose its lease between any two.                                      *)
(*                                                                         *)
(* A worker id is made for each process, so who holds the row stands for   *)
(* the token and the generation.  Evidence, prompts and hashes are data    *)
(* that never change once written, and are left out.                       *)
(***************************************************************************)
EXTENDS Naturals, FiniteSets

CONSTANTS
  Workers,      \* maintenance processes
  Sessions,     \* API requests that can be open at once
  Proposals,    \* candidates that can be generated
  Cases,        \* cases of the frozen suite
  MaxFaults     \* crashes, failed model calls and outlived leases together

VARIABLES
  policy,   \* the row of skill_improvement_policies
  work,     \* the latest row of skill_improvement_work
  props,    \* status of skill_improvement_proposals
  cmp,      \* skill_candidate_evaluations by proposal
  worker,   \* where each tick is, and what it has read
  sess,     \* what each session has read
  faults

tables == <<policy, work, props, cmp>>
vars == <<tables, worker, sess, faults>>

Nobody == "nobody"
NoProposal == "none"

\* trig: when the policy was last triggered, against its cooldown.
PolicyRow == [enabled : BOOLEAN, trig : {"never", "recent", "past"}]

\* uq_skill_improvement_work_one_active: "failed" is active, and retried.
Active == {"evidence", "generation", "baseline", "candidate", "comparison", "failed"}
WorkRow ==
  [state : Active \cup {"none", "ready"}, holder : Workers \cup {Nobody}, live : BOOLEAN,
   due : BOOLEAN, prop : Proposals \cup {NoProposal}]

\* uq_skill_improvement_proposals_one_open.
OpenProposals == {"evaluation", "review"}
ProposalStatus == OpenProposals \cup {"none", "superseded", "closed"}

Scores == [Cases -> {0, 1}]
NoScores == [c \in Cases |-> 0]
ComparisonRow ==
  [result : {"none", "eligible", "manual", "not_eligible"}, base : Scores, cand : Scores]

NoPolicy == [enabled |-> FALSE, trig |-> "never"]
NoWork == [state |-> "none", holder |-> Nobody, live |-> FALSE, due |-> FALSE, prop |-> NoProposal]
Idle ==
  [pc |-> "idle", prop |-> NoProposal, base |-> NoScores, cand |-> NoScores,
   row |-> NoWork, read |-> NoPolicy]
Closed == [op |-> "none", prop |-> NoProposal, row |-> NoPolicy]

TypeOK ==
  /\ policy \in PolicyRow /\ work \in WorkRow
  /\ props \in [Proposals -> ProposalStatus]
  /\ cmp \in [Proposals -> ComparisonRow]
  /\ worker \in [Workers ->
       [pc : {"idle", "add", "claim", "resume", "generate", "baseline", "candidate", "compare",
              "record", "close", "closing", "fail", "failing"},
        prop : Proposals \cup {NoProposal}, base : Scores, cand : Scores,
        row : WorkRow, read : PolicyRow]]
  /\ sess \in [Sessions ->
       [op : {"none", "put", "add", "cancel"}, prop : Proposals \cup {NoProposal}, row : PolicyRow]]
  /\ faults \in 0 .. MaxFaults

\* The policy has not been put yet.
Init ==
  /\ policy = NoPolicy /\ work = NoWork
  /\ props = [p \in Proposals |-> "none"]
  /\ cmp = [p \in Proposals |-> [result |-> "none", base |-> NoScores, cand |-> NoScores]]
  /\ worker = [w \in Workers |-> Idle]
  /\ sess = [s \in Sessions |-> Closed]
  /\ faults = 0

-----------------------------------------------------------------------------
(* Statements *)

HasActive == work.state \in Active

Resumable == {p \in Proposals : props[p] = "evaluation"}

\* open_count of RunSkillImprovementPolicyNow: a superseded proposal counts.
OpenCount == Cardinality({p \in Proposals : props[p] \notin {"none", "closed"}})

\* list_due_enabled.
ListDueEnabled == policy.enabled /\ policy.trig # "recent"

\* add_if_active_absent.
AddIfActiveAbsent(p) ==
  work' = IF HasActive THEN work
          ELSE [NoWork EXCEPT !.state = IF p = NoProposal THEN "evidence" ELSE "generation",
                              !.prop = p, !.due = TRUE]

\* Mutant: an expired lease is not taken over.
Claimable_Unleased == HasActive /\ work.due /\ work.holder = Nobody

\* claim_for_skill.
Claimable == HasActive /\ work.due /\ (work.holder = Nobody \/ ~work.live)

\* The condition of save_if_claimed.
Held(w) == work.holder = w /\ work.live

Go(w, pc) == worker' = [worker EXCEPT ![w].pc = pc]

Raises(w) == Go(w, "fail") /\ UNCHANGED tables

\* _advance_work: under the exact claim, or the tick has lost it.
AdvanceWork(w, state, pc) ==
  IF Held(w)
  THEN /\ work' = [work EXCEPT !.state = state,
                     !.prop = IF worker[w].prop = NoProposal THEN @ ELSE worker[w].prop]
       /\ Go(w, pc) /\ UNCHANGED <<policy, props, cmp>>
  ELSE Raises(w)

-----------------------------------------------------------------------------
(* RunSkillImprovementPolicyNow *)

\* The reads.  Whether the thresholds on usage and feedback are met is free.
Triggers(p) ==
  \/ p \in Resumable
  \/ /\ p = NoProposal /\ Resumable = {}
     /\ policy.trig # "recent" /\ OpenCount = 0

\* A tick finds a policy that is due.
Check(w) ==
  /\ worker[w].pc = "idle" /\ ListDueEnabled
  /\ \/ HasActive /\ Go(w, "claim")
     \/ \E p \in Proposals \cup {NoProposal} :
          /\ ~HasActive /\ Triggers(p)
          /\ worker' = [worker EXCEPT ![w].pc = "add", ![w].prop = p]
  /\ UNCHANGED <<tables, sess, faults>>

AddWork(w) ==
  /\ worker[w].pc = "add"
  /\ AddIfActiveAbsent(worker[w].prop)
  /\ worker' = [worker EXCEPT ![w].pc = "claim", ![w].prop = NoProposal]
  /\ UNCHANGED <<policy, props, cmp, sess, faults>>

\* The same use case through the API.
LoadRunNow(s) ==
  /\ sess[s] = Closed /\ policy.enabled /\ ~HasActive
  /\ \E p \in Proposals \cup {NoProposal} :
       Triggers(p) /\ sess' = [sess EXCEPT ![s].op = "add", ![s].prop = p]
  /\ UNCHANGED <<tables, worker, faults>>

RunNow(s) ==
  /\ sess[s].op = "add"
  /\ AddIfActiveAbsent(sess[s].prop)
  /\ sess' = [sess EXCEPT ![s] = Closed]
  /\ UNCHANGED <<policy, props, cmp, worker, faults>>

-----------------------------------------------------------------------------
(* EvaluateDueSkillImprovementPolicies *)

ClaimWork(w) ==
  /\ worker[w].pc = "claim"
  /\ IF Claimable
     THEN /\ work' = [work EXCEPT !.holder = w, !.live = TRUE]
          /\ Go(w, "resume") /\ UNCHANGED <<policy, props, cmp>>
     ELSE Go(w, "idle") /\ UNCHANGED tables
  /\ UNCHANGED <<sess, faults>>

\* A candidate that waits for evaluation is taken up, else one is generated.
ResumableProposal(w) ==
  /\ worker[w].pc = "resume"
  /\ \/ /\ Resumable = {} /\ AdvanceWork(w, "generation", "generate")
     \/ \E p \in Resumable :
          IF Held(w)
          THEN /\ work' = [work EXCEPT !.state = "generation", !.prop = p]
               /\ worker' = [worker EXCEPT ![w].pc = "baseline", ![w].prop = p]
               /\ UNCHANGED <<policy, props, cmp>>
          ELSE Raises(w)
  /\ UNCHANGED <<sess, faults>>

\* CreateSkillImprovementProposal adds the candidate, unless another is open.
\* The claim plays no part.
CreateProposal(w) ==
  IF \E p \in Proposals : props[p] \in OpenProposals
  THEN Raises(w)
  ELSE \E p \in Proposals :
         /\ props[p] = "none"
         /\ props' = [props EXCEPT ![p] = "evaluation"]
         /\ worker' = [worker EXCEPT ![w].pc = "baseline", ![w].prop = p]
         /\ UNCHANGED <<policy, work, cmp>>

\* The model call is outside every transaction.
GenerateOne(w) ==
  /\ worker[w].pc = "generate"
  /\ CreateProposal(w)
  /\ UNCHANGED <<sess, faults>>

\* RunBrainOnlySkillEvaluation of the base: any case may pass or not.
EvaluateBaseline(w) ==
  /\ worker[w].pc = "baseline"
  /\ \/ ~Held(w) /\ Raises(w)
     \/ /\ Held(w)
        /\ work' = [work EXCEPT !.state = "baseline", !.prop = worker[w].prop]
        /\ \E b \in Scores :
             worker' = [worker EXCEPT ![w].pc = "candidate", ![w].base = b]
        /\ UNCHANGED <<policy, props, cmp>>
  /\ UNCHANGED <<sess, faults>>

EvaluateCandidate(w) ==
  /\ worker[w].pc = "candidate"
  /\ \/ ~Held(w) /\ Raises(w)
     \/ /\ Held(w)
        /\ work' = [work EXCEPT !.state = "candidate"]
        /\ \E d \in Scores :
             worker' = [worker EXCEPT ![w].pc = "compare", ![w].cand = d]
        /\ UNCHANGED <<policy, props, cmp>>
  /\ UNCHANGED <<sess, faults>>

Compare(w) ==
  /\ worker[w].pc = "compare"
  /\ AdvanceWork(w, "comparison", "record")
  /\ UNCHANGED <<sess, faults>>

\* Mutant: improvements are looked at first.
Recommend_Improves(base, cand) ==
  IF \E c \in Cases : cand[c] > base[c] THEN "eligible"
  ELSE IF \E c \in Cases : cand[c] < base[c] THEN "not_eligible"
  ELSE "manual"

\* One regression is enough to refuse the candidate.
Recommend(base, cand) ==
  IF \E c \in Cases : cand[c] < base[c] THEN "not_eligible"
  ELSE IF \E c \in Cases : cand[c] > base[c] THEN "eligible"
  ELSE "manual"

\* CompareSkillImprovementProposal: one report for a proposal, whose row is
\* saved as ready for review whatever became of it meanwhile.
RecordComparison(w) ==
  LET p == worker[w].prop
      clash == \E q \in Proposals \ {p} : props[q] \in OpenProposals
  IN /\ worker[w].pc = "record"
     /\ IF cmp[p].result # "none" \/ clash THEN Raises(w)
        ELSE /\ cmp' = [cmp EXCEPT ![p] =
                  [result |-> Recommend(worker[w].base, worker[w].cand),
                   base |-> worker[w].base, cand |-> worker[w].cand]]
             /\ props' = [props EXCEPT ![p] = "review"]
             /\ Go(w, "close") /\ UNCHANGED <<policy, work>>
     /\ UNCHANGED <<sess, faults>>

\* _complete_work_and_trigger reads the policy, then saves both rows.
LoadComplete(w) ==
  /\ worker[w].pc = "close"
  /\ worker' = [worker EXCEPT ![w].pc = "closing", ![w].read = policy]
  /\ UNCHANGED <<tables, sess, faults>>

\* Mutant: the trigger is recorded without the claim.
CompleteWorkAndTrigger_Unfenced(w) ==
  /\ worker[w].pc = "closing"
  /\ work' = IF Held(w)
             THEN [work EXCEPT !.state = "ready", !.prop = worker[w].prop,
                               !.holder = Nobody, !.live = FALSE]
             ELSE work
  /\ policy' = [worker[w].read EXCEPT !.trig = "recent"]
  /\ worker' = [worker EXCEPT ![w] = Idle]
  /\ UNCHANGED <<props, cmp, sess, faults>>

CompleteWorkAndTrigger(w) ==
  /\ worker[w].pc = "closing"
  /\ IF Held(w)
     THEN /\ work' = [work EXCEPT !.state = "ready", !.prop = worker[w].prop,
                                  !.holder = Nobody, !.live = FALSE]
          /\ policy' = [worker[w].read EXCEPT !.trig = "recent"]
          /\ worker' = [worker EXCEPT ![w] = Idle]
          /\ UNCHANGED <<props, cmp>>
     ELSE Raises(w)
  /\ UNCHANGED <<sess, faults>>

\* _fail_work: an unclaimed row is saved blindly, a claimed one under the claim.
LoadFail(w) ==
  /\ worker[w].pc = "fail"
  /\ worker' = [worker EXCEPT ![w] =
       IF HasActive THEN [Idle EXCEPT !.pc = "failing", !.row = work] ELSE Idle]
  /\ UNCHANGED <<tables, sess, faults>>

FailWork(w) ==
  LET row == worker[w].row
      failed == [row EXCEPT !.state = "failed", !.due = FALSE, !.holder = Nobody, !.live = FALSE]
  IN /\ worker[w].pc = "failing"
     /\ work' = IF row.holder = Nobody \/ (row.holder = w /\ Held(w)) THEN failed ELSE work
     /\ worker' = [worker EXCEPT ![w] = Idle]
     /\ UNCHANGED <<policy, props, cmp, sess, faults>>

-----------------------------------------------------------------------------
(* Faults and time *)

\* The process dies, or the model answers with something that is refused.
Crash(w) ==
  /\ worker[w].pc # "idle" /\ faults < MaxFaults
  /\ worker' = [worker EXCEPT ![w] = Idle]
  /\ faults' = faults + 1 /\ UNCHANGED <<tables, sess>>

ModelFails(w) ==
  /\ worker[w].pc \in {"generate", "baseline", "candidate"} /\ faults < MaxFaults
  /\ Raises(w)
  /\ faults' = faults + 1 /\ UNCHANGED sess

\* A lease runs out under a worker that is slow, or that is gone.
Working(w) == worker[w].pc \notin {"idle", "add", "claim"}

LeaseExpires ==
  /\ work.live
  /\ IF Working(work.holder) THEN faults < MaxFaults /\ faults' = faults + 1
     ELSE faults' = faults
  /\ work' = [work EXCEPT !.live = FALSE]
  /\ UNCHANGED <<policy, props, cmp, worker, sess>>

Abandoned == work.live /\ ~Working(work.holder) /\ LeaseExpires

BackoffElapses ==
  /\ HasActive /\ ~work.due
  /\ work' = [work EXCEPT !.due = TRUE]
  /\ UNCHANGED <<policy, props, cmp, worker, sess, faults>>

\* Every copy of the timestamp ages.
Aged(row) == IF row.trig = "recent" THEN [row EXCEPT !.trig = "past"] ELSE row

CooldownPasses ==
  /\ policy.trig = "recent"
  /\ policy' = Aged(policy)
  /\ worker' = [w \in Workers |-> [worker[w] EXCEPT !.read = Aged(@)]]
  /\ sess' = [s \in Sessions |-> [sess[s] EXCEPT !.row = Aged(@)]]
  /\ UNCHANGED <<work, props, cmp, faults>>

-----------------------------------------------------------------------------
(* Operators *)

LoadPolicy(s, enabled) ==
  /\ sess[s] = Closed
  /\ sess' = [sess EXCEPT ![s].op = "put", ![s].row = [policy EXCEPT !.enabled = enabled]]
  /\ UNCHANGED <<tables, worker, faults>>

SaveSkillImprovementPolicy(s) ==
  /\ sess[s].op = "put"
  /\ policy' = sess[s].row
  /\ sess' = [sess EXCEPT ![s] = Closed]
  /\ UNCHANGED <<work, props, cmp, worker, faults>>

\* One candidate is left to be generated, so that the loop can go on.
LoadCancel(s, p) ==
  /\ sess[s] = Closed /\ props[p] \in OpenProposals \cup {"superseded"}
  /\ \E q \in Proposals : props[q] = "none"
  /\ sess' = [sess EXCEPT ![s].op = "cancel", ![s].prop = p]
  /\ UNCHANGED <<tables, worker, faults>>

CancelProposal(s) ==
  /\ sess[s].op = "cancel"
  /\ props' = [props EXCEPT ![sess[s].prop] = "closed"]
  /\ sess' = [sess EXCEPT ![s] = Closed]
  /\ UNCHANGED <<policy, work, cmp, worker, faults>>

\* The review ends: promoted, rejected, or stale (see SkillPromotion).
ReviewEnds(p, end) ==
  /\ props[p] = "review" /\ end \in {"closed", "superseded"}
  /\ \E q \in Proposals : props[q] = "none"
  /\ props' = [props EXCEPT ![p] = end]
  /\ UNCHANGED <<policy, work, cmp, worker, sess, faults>>

-----------------------------------------------------------------------------
Tick(w) ==
  \/ Check(w) \/ AddWork(w) \/ ClaimWork(w) \/ ResumableProposal(w) \/ GenerateOne(w)
  \/ EvaluateBaseline(w) \/ EvaluateCandidate(w) \/ Compare(w) \/ RecordComparison(w)
  \/ LoadComplete(w) \/ CompleteWorkAndTrigger(w) \/ LoadFail(w) \/ FailWork(w)

Command(s) ==
  \/ \E e \in BOOLEAN : LoadPolicy(s, e)
  \/ \E p \in Proposals : LoadCancel(s, p)
  \/ LoadRunNow(s) \/ RunNow(s) \/ SaveSkillImprovementPolicy(s) \/ CancelProposal(s)

Next ==
  \/ \E w \in Workers : Tick(w) \/ Crash(w) \/ ModelFails(w)
  \/ LeaseExpires \/ BackoffElapses \/ CooldownPasses
  \/ \E s \in Sessions : Command(s)
  \/ \E p \in Proposals, end \in ProposalStatus : ReviewEnds(p, end)

Spec == Init /\ [][Next]_vars

\* Maintenance keeps ticking and time passes.  Operators need not act.
Fairness ==
  /\ \A w \in Workers : WF_vars(Tick(w))
  /\ WF_vars(Abandoned) /\ WF_vars(BackoffElapses) /\ WF_vars(CooldownPasses)

-----------------------------------------------------------------------------
(* Properties *)

\* "Cooldown is recorded only after that durable work completes": a policy is
\* triggered only in the step that ends work still open, and the proposal left
\* in the row has its comparison (_complete_work_and_trigger under
\* save_if_claimed).
CooldownMeansCompleted ==
  [][policy.trig # "recent" /\ policy'.trig = "recent" =>
       /\ HasActive /\ work'.state = "ready"
       /\ cmp[work'.prop].result # "none"]_vars

\* A candidate recommended for promotion did no worse than its base on any case
\* and better on one, in the runs its report is about.
EligibleIsNoWorse ==
  \A p \in Proposals :
    cmp[p].result = "eligible" =>
      /\ \A c \in Cases : cmp[p].cand[c] >= cmp[p].base[c]
      /\ cmp[p].cand # cmp[p].base

\* Work that was queued ends, unless the policy is disabled or a candidate is
\* already waiting for a person: crashes, failed model calls, lost claims and
\* saves of stale rows only delay it.
WorkEnds ==
  HasActive ~> \/ ~HasActive \/ ~policy.enabled
               \/ \E p \in Proposals : props[p] = "review"

=============================================================================
