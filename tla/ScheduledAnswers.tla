-------------------------- MODULE ScheduledAnswers --------------------------
(***************************************************************************)
(* The answers of a schedule's fires: the policy the operator sets, the    *)
(* plan each fire freezes from it, and the workers' maintenance ticks that *)
(* turn the summary of a succeeded execution into an outbound delivery     *)
(* (MaterializeScheduledAnswerDeliveries).  Which occurrence fires when is *)
(* in Schedules, what becomes of a delivery in OutboundDelivery.           *)
(***************************************************************************)
EXTENDS Naturals, FiniteSets

CONSTANTS
  Fires,        \* the occurrences of one schedule
  Workers,      \* worker processes
  Sessions,     \* API requests that can be open at once
  BatchSize,    \* answers listed at once
  MaxAttempts   \* Runs of one execution

VARIABLES
  ended,   \* the schedule is completed or cancelled
  policy,  \* the row of schedule_delivery_policies
  run,     \* the execution of each fire: its latest Run
  plan,    \* schedule_fire_delivery_plans
  sent,    \* outbound_deliveries by source_schedule_fire_id: the Run answered for
  worker,  \* where each worker stands, and what it has read
  sess     \* the policy each session is about to put

vars == <<ended, policy, run, plan, sent, worker, sess>>

\* The latest Run of an execution.  unfit: succeeded, with a summary the content
\* gate does not let through.
Succeeded == {"succeeded", "unfit"}
RunRow == [status : {"none", "live", "failed", "cancelled"} \cup Succeeded, n : 0 .. MaxAttempts]

\* enabled, for a route that does not change.
PolicyRow == {"none", "on", "off"}

\* uq_schedule_fire_delivery_plans_fire: one per fire.  rejected is the Run of
\* content_rejected_run_id.
PlanRow ==
  [status : {"ready"}, rejected : 0 .. MaxAttempts] \cup
  [status : {"none", "suppressed"}, rejected : {0}]

NoPlan == [status |-> "none", rejected |-> 0]
Idle == [pc |-> "idle", fires |-> {}, fire |-> "none", n |-> 0]

TypeOK ==
  /\ ended \in BOOLEAN
  /\ policy \in PolicyRow
  /\ run \in [Fires -> RunRow]
  /\ plan \in [Fires -> PlanRow]
  /\ sent \in [Fires -> 0 .. MaxAttempts]
  /\ worker \in [Workers ->
       [pc : {"idle", "batch", "delivering", "rejecting"}, fires : SUBSET Fires,
        fire : Fires \cup {"none"}, n : 0 .. MaxAttempts]]
  /\ sess \in [Sessions -> PolicyRow]

Init ==
  /\ ended = FALSE
  /\ policy = "none"
  /\ run = [f \in Fires |-> [status |-> "none", n |-> 0]]
  /\ plan = [f \in Fires |-> NoPlan]
  /\ sent = [f \in Fires |-> 0]
  /\ worker = [w \in Workers |-> Idle]
  /\ sess = [s \in Sessions |-> "none"]

-----------------------------------------------------------------------------
(* The policy *)

\* PutScheduleDeliveryPolicy refuses a terminal schedule when it reads it ...
LoadPolicy(s) ==
  /\ sess[s] = "none" /\ ~ended
  /\ \E p \in {"on", "off"} \ {policy} : sess' = [sess EXCEPT ![s] = p]
  /\ UNCHANGED <<ended, policy, run, plan, sent, worker>>

\* Mutant: a plain merge.
PutPolicy_Merged(s) ==
  /\ sess[s] # "none"
  /\ policy' = sess[s]
  /\ sess' = [sess EXCEPT ![s] = "none"]
  /\ UNCHANGED <<ended, run, plan, sent, worker>>

\* ... and put_for_nonterminal_schedule when it writes.
PutPolicy(s) ==
  /\ sess[s] # "none"
  /\ policy' = IF ended THEN policy ELSE sess[s]
  /\ sess' = [sess EXCEPT ![s] = "none"]
  /\ UNCHANGED <<ended, run, plan, sent, worker>>

-----------------------------------------------------------------------------
(* The schedule and its Runs *)

\* READY: the route is configured, enabled and the one the policy names.
Ready == [status |-> "ready", rejected |-> 0]

\* SUPPRESSED: route_missing or route_disabled.
Suppressed == [status |-> "suppressed", rejected |-> 0]

\* The plan of a fire under a policy, for what the worker's configuration holds.
Plans(p) == IF p = "on" THEN {Ready, Suppressed} ELSE {NoPlan}

\* Run, fire and plan are one transaction, which may be open when the schedule
\* ends.
Fire(f) ==
  /\ run[f].status = "none"
  /\ run' = [run EXCEPT ![f] = [status |-> "live", n |-> 1]]
  /\ \E p \in Plans(policy) : plan' = [plan EXCEPT ![f] = p]
  /\ UNCHANGED <<ended, policy, sent, worker, sess>>

ScheduleEnds ==
  /\ ~ended
  /\ ended' = TRUE
  /\ UNCHANGED <<policy, run, plan, sent, worker, sess>>

\* Its worker settles a Run; a retry that ApplyFailedOutcome schedules is in
\* the same transaction.
RunEnds(f) ==
  /\ run[f].status = "live"
  /\ \/ \E end \in {"failed", "cancelled"} \cup Succeeded : run' = [run EXCEPT ![f].status = end]
     \/ run[f].n < MaxAttempts /\ run' = [run EXCEPT ![f].n = @ + 1]
  /\ UNCHANGED <<ended, policy, plan, sent, worker, sess>>

\* RetryFailedRun.
RetryByHand(f) ==
  /\ run[f].status = "failed" /\ run[f].n < MaxAttempts
  /\ run' = [run EXCEPT ![f] = [status |-> "live", n |-> run[f].n + 1]]
  /\ UNCHANGED <<ended, policy, plan, sent, worker, sess>>

\* A CancelRun that had read the Run before it succeeded: _cancel_run saves what
\* it read.
LateCancel(f) ==
  /\ run[f].status \in Succeeded
  /\ run' = [run EXCEPT ![f].status = "cancelled"]
  /\ UNCHANGED <<ended, policy, plan, sent, worker, sess>>

-----------------------------------------------------------------------------
(* MaterializeScheduledAnswerDeliveries *)

Goes(w, state) == worker' = [worker EXCEPT ![w] = state]

\* Mutant: a rejected answer stays in the list.
Answerable_Rejected ==
  {f \in Fires : plan[f].status = "ready" /\ sent[f] = 0 /\ run[f].status \in Succeeded}

\* list_ready_without_delivery: a rejection counts against its own Run only.
Answerable ==
  {f \in Fires : /\ plan[f].status = "ready" /\ sent[f] = 0
                 /\ run[f].status \in Succeeded /\ plan[f].rejected # run[f].n}

\* The oldest BatchSize of them; which those are is free.
ListAnswers(w) ==
  /\ worker[w].pc = "idle"
  /\ \E batch \in SUBSET Answerable :
       /\ batch # {} /\ Cardinality(batch) <= BatchSize
       /\ batch = Answerable \/ Cardinality(batch) = BatchSize
       /\ Goes(w, [Idle EXCEPT !.pc = "batch", !.fires = batch])
  /\ UNCHANGED <<ended, policy, run, plan, sent, sess>>

\* The state in which w goes on with the fires left of its batch.
Rest(w, f) ==
  LET left == worker[w].fires \ {f} IN
  IF left = {} THEN Idle ELSE [Idle EXCEPT !.pc = "batch", !.fires = left]

\* _materialize_one up to its first write: everything is read again.
LoadAnswer(w, f) ==
  /\ worker[w].pc = "batch" /\ f \in worker[w].fires
  /\ Goes(w, IF plan[f].status # "ready" \/ sent[f] # 0 \/ run[f].status \notin Succeeded
             THEN Rest(w, f)
             ELSE [worker[w] EXCEPT !.pc = IF run[f].status = "succeeded" THEN "delivering" ELSE "rejecting",
                                    !.fire = f, !.n = run[f].n])
  /\ UNCHANGED <<ended, policy, run, plan, sent, sess>>

\* The authority is the plan's; the unique source_schedule_fire_id lets one
\* through, and the loser's EntityConflict is swallowed.
DeliverAnswer(w) ==
  /\ worker[w].pc = "delivering"
  /\ sent' = [sent EXCEPT ![worker[w].fire] = IF @ = 0 THEN worker[w].n ELSE @]
  /\ Goes(w, Rest(w, worker[w].fire))
  /\ UNCHANGED <<ended, policy, run, plan, sess>>

\* mark_content_rejected.
RejectContent(w) ==
  /\ worker[w].pc = "rejecting"
  /\ plan' = [plan EXCEPT ![worker[w].fire].rejected = worker[w].n]
  /\ Goes(w, Rest(w, worker[w].fire))
  /\ UNCHANGED <<ended, policy, run, sent, sess>>

\* The process ends anywhere and is started again; open work is rolled back.
Crash(w) ==
  /\ worker[w].pc # "idle"
  /\ Goes(w, Idle)
  /\ UNCHANGED <<ended, policy, run, plan, sent, sess>>

-----------------------------------------------------------------------------
AnswerStep(w) ==
  \/ ListAnswers(w) \/ DeliverAnswer(w) \/ RejectContent(w)
  \/ \E f \in Fires : LoadAnswer(w, f)

Next ==
  \/ ScheduleEnds
  \/ \E s \in Sessions : LoadPolicy(s) \/ PutPolicy(s)
  \/ \E f \in Fires : Fire(f) \/ RunEnds(f) \/ RetryByHand(f) \/ LateCancel(f)
  \/ \E w \in Workers : AnswerStep(w) \/ Crash(w)

Spec == Init /\ [][Next]_vars

\* A worker keeps ticking: however often it is restarted, each step of its tick
\* gets through now and then.
Fairness ==
  \A w \in Workers :
    /\ WF_vars(ListAnswers(w)) /\ SF_vars(DeliverAnswer(w)) /\ SF_vars(RejectContent(w))
    /\ \A f \in Fires : SF_vars(LoadAnswer(w, f))

-----------------------------------------------------------------------------
(* Properties *)

\* A delivery answers for a fire that was authorized when it fired, whatever the
\* policy is now, and for a Run of it that succeeded with an acceptable summary
\* and has no successor (MaterializeScheduledAnswerDeliveries).
AnswersAreTruthful ==
  \A f \in Fires : sent[f] # 0 =>
    plan[f].status = "ready" /\ run[f].n = sent[f] /\ run[f].status \in {"succeeded", "cancelled"}

\* A policy is never written under a schedule that has ended, also when it
\* ended after the request had checked it (put_for_nonterminal_schedule).
PolicyFenced == [][policy' # policy => ~ended]_vars

\* An acceptable answer of an authorized fire becomes a delivery, whatever
\* else is rejected in the same batches and whoever crashes.
AnswersArrive ==
  \A f \in Fires :
    (plan[f].status = "ready" /\ run[f].status = "succeeded") ~>
    (sent[f] # 0 \/ run[f].status # "succeeded")
=============================================================================
