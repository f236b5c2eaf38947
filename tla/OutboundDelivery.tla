-------------------------- MODULE OutboundDelivery --------------------------
(***************************************************************************)
(* The outbound deliveries, their attempt ledger and the dispatchers that  *)
(* claim, send and settle them (DeliveryDispatcher.dispatch_once).         *)
(*                                                                         *)
(* A transaction reads the clock when it opens and writes later, so its    *)
(* lease check is made with the time of a separate step.  claim_owner and  *)
(* claim_token are set and compared together with claim_generation; only   *)
(* try_claim moves the generation and rows are never deleted, so one       *)
(* generation stands for the three.                                        *)
(***************************************************************************)
EXTENDS Naturals, FiniteSets

CONSTANTS
  Deliveries,   \* the deliveries message.send and the scheduler may create
  Workers,      \* dispatching worker processes
  MaxAttempts   \* RetryPolicy.max_attempts

ASSUME DeliveryAssumption == MaxAttempts \in Nat \ {0}

VARIABLES
  dlv,    \* outbound_deliveries
  att,    \* delivery_attempts: outcome by delivery and generation
  pc,     \* where each worker stands
  claim,  \* the delivery and the generation it claimed
  seen,   \* the expired rows its recovery has read
  fresh,  \* the lease was unexpired when its transaction read the clock
  fate,   \* the outcome it is about to persist
  sent    \* history: how often each delivery was handed to the transport

rows == <<dlv, att>>
local == <<claim, seen, fresh, fate>>
vars == <<rows, pc, local, sent>>

Settled == {"delivered", "failed", "ambiguous"}
Fates == Settled \cup {"none", "parked"}
Generations == 0 .. MaxAttempts

\* due: available_at <= now; live: claim_expires_at > now; started:
\* dispatch_started_at is set; count: attempt_count.
Row ==
  [status : {"absent", "queued", "sending"} \cup Settled, due : BOOLEAN,
   gen : Generations, count : Generations, live : BOOLEAN, started : BOOLEAN]

Snapshot(d) ==
  [id |-> d, gen |-> dlv[d].gen, count |-> dlv[d].count, started |-> dlv[d].started]

\* Generations and attempts never pass the retry budget.
TypeOK ==
  /\ dlv \in [Deliveries -> Row]
  /\ att \in [Deliveries -> [Generations -> {"none", "in_progress"} \cup Settled]]
  /\ pc \in [Workers -> {"idle", "recovering", "claimed", "ready", "beginning",
                         "sending", "outcome", "persisting"}]
  /\ claim \in [Workers -> [id : Deliveries, gen : Generations]]
  /\ seen \in [Workers ->
       SUBSET [id : Deliveries, gen : Generations, count : Generations, started : BOOLEAN]]
  /\ fresh \in [Workers -> BOOLEAN]
  /\ fate \in [Workers -> Fates]
  /\ sent \in [Deliveries -> Nat]

Init ==
  /\ dlv = [d \in Deliveries |-> [status |-> "absent", due |-> FALSE, gen |-> 0,
                                  count |-> 0, live |-> FALSE, started |-> FALSE]]
  /\ att = [d \in Deliveries |-> [g \in Generations |-> "none"]]
  /\ pc = [w \in Workers |-> "idle"]
  /\ claim \in [Workers -> [id : Deliveries, gen : {0}]]
  /\ seen = [w \in Workers |-> {}]
  /\ fresh = [w \in Workers |-> FALSE]
  /\ fate = [w \in Workers |-> "none"]
  /\ sent = [d \in Deliveries |-> 0]

-----------------------------------------------------------------------------
(* Creation, and the passing of time *)

\* message.send and the scheduled-answer materializer; the unique source key
\* lets one row through.
Create(d) ==
  /\ dlv[d].status = "absent"
  /\ \E due \in BOOLEAN : dlv' = [dlv EXCEPT ![d].status = "queued", ![d].due = due]
  /\ UNCHANGED <<att, pc, local, sent>>

BecomesDue(d) ==
  /\ dlv[d].status = "queued" /\ ~dlv[d].due
  /\ dlv' = [dlv EXCEPT ![d].due = TRUE]
  /\ UNCHANGED <<att, pc, local, sent>>

LeaseExpires(d) ==
  /\ dlv[d].status = "sending" /\ dlv[d].live
  /\ dlv' = [dlv EXCEPT ![d].live = FALSE]
  /\ UNCHANGED <<att, pc, local, sent>>

-----------------------------------------------------------------------------
(* ClaimNextDelivery: recovery, then one claim, in one transaction *)

\* Mutant: recovery only looks for claims that never reached the boundary.
Expired_PreDispatch(d) == dlv[d].status = "sending" /\ ~dlv[d].live /\ ~dlv[d].started

\* find_expired_claims.
Expired(d) == dlv[d].status = "sending" /\ ~dlv[d].live

ListExpired(w) ==
  /\ pc[w] = "idle"
  /\ seen' = [seen EXCEPT ![w] = {Snapshot(d) : d \in {e \in Deliveries : Expired(e)}}]
  /\ pc' = [pc EXCEPT ![w] = "recovering"]
  /\ UNCHANGED <<rows, claim, fresh, fate, sent>>

\* _expired_claim_predicate and the condition on dispatch_started_at.
Matches(r) ==
  LET row == dlv[r.id] IN
  row.status = "sending" /\ ~row.live /\ row.gen = r.gen /\ row.started = r.started

\* A post-dispatch row that somebody else has recovered: TransactionFailure.
Conflicts(r) == r.started /\ ~(Matches(r) /\ att[r.id][r.gen] = "in_progress")

RecoveryConflict(w) ==
  /\ pc[w] = "recovering"
  /\ \E r \in seen[w] : Conflicts(r)
  /\ pc' = [pc EXCEPT ![w] = "idle"]
  /\ seen' = [seen EXCEPT ![w] = {}]
  /\ UNCHANGED <<rows, claim, fresh, fate, sent>>

\* Mutant: one attempt too many.
Recovered_OffByOne(r) ==
  IF r.started THEN [dlv[r.id] EXCEPT !.status = "ambiguous"]
  ELSE IF r.count <= MaxAttempts THEN [dlv[r.id] EXCEPT !.status = "queued", !.due = FALSE]
  ELSE [dlv[r.id] EXCEPT !.status = "failed"]

\* _recover_one: retry what was certainly not sent, within the budget; park
\* what may have been.
Recovered(r) ==
  IF r.started THEN [dlv[r.id] EXCEPT !.status = "ambiguous"]
  ELSE IF r.count < MaxAttempts THEN [dlv[r.id] EXCEPT !.status = "queued", !.due = FALSE]
  ELSE [dlv[r.id] EXCEPT !.status = "failed"]

\* The tables after the recovery half of w's transaction.
RecoveredRows(w) ==
  [d \in Deliveries |->
     IF \E r \in seen[w] : r.id = d /\ Matches(r)
     THEN Recovered(CHOOSE r \in seen[w] : r.id = d /\ Matches(r)) ELSE dlv[d]]

RecoveredAttempts(w) ==
  [d \in Deliveries |-> [g \in Generations |->
     IF \E r \in seen[w] : r.id = d /\ r.gen = g /\ r.started /\ Matches(r)
     THEN "ambiguous" ELSE att[d][g]]]

\* try_claim's WHERE clause.
Claimable(row) == row.status = "queued" /\ row.due

Claimed(row) ==
  [row EXCEPT !.status = "sending", !.live = TRUE, !.gen = @ + 1, !.count = @ + 1]

\* Recovery and claim commit together.
RecoverAndClaim(w, d) ==
  LET recovered == RecoveredRows(w) IN
  /\ pc[w] = "recovering"
  /\ \A r \in seen[w] : ~Conflicts(r)
  /\ Claimable(recovered[d])
  /\ dlv' = [recovered EXCEPT ![d] = Claimed(@)]
  /\ att' = RecoveredAttempts(w)
  /\ claim' = [claim EXCEPT ![w] = [id |-> d, gen |-> recovered[d].gen + 1]]
  /\ pc' = [pc EXCEPT ![w] = "claimed"]
  /\ seen' = [seen EXCEPT ![w] = {}]
  /\ UNCHANGED <<fresh, fate, sent>>

\* Nothing is due: the recovery alone is committed.
RecoverOnly(w) ==
  /\ pc[w] = "recovering"
  /\ \A r \in seen[w] : ~Conflicts(r)
  /\ \A d \in Deliveries : ~Claimable(RecoveredRows(w)[d])
  /\ dlv' = RecoveredRows(w)
  /\ att' = RecoveredAttempts(w)
  /\ pc' = [pc EXCEPT ![w] = "idle"]
  /\ seen' = [seen EXCEPT ![w] = {}]
  /\ UNCHANGED <<claim, fresh, fate, sent>>

-----------------------------------------------------------------------------
(* DeliveryDispatcher.dispatch_once after the claim *)

Goes(w, to) == pc' = [pc EXCEPT ![w] = to]

\* The delivery is loaded and its route compared with the configured ones; a
\* route may have gone, been disabled or changed since the approval.
CheckRoute(w) ==
  /\ pc[w] = "claimed"
  /\ \/ /\ dlv[claim[w].id].started
        /\ fate' = [fate EXCEPT ![w] = "ambiguous"] /\ Goes(w, "outcome")
     \/ /\ ~dlv[claim[w].id].started
        /\ fate' = [fate EXCEPT ![w] = "parked"] /\ Goes(w, "outcome")
     \/ /\ ~dlv[claim[w].id].started
        /\ UNCHANGED fate /\ Goes(w, "ready")
  /\ UNCHANGED <<rows, claim, seen, fresh, sent>>

\* BeginDeliveryAttempt and PersistDeliveryOutcome open and read the clock.
ReadClock(w) ==
  /\ \/ pc[w] = "ready" /\ Goes(w, "beginning")
     \/ pc[w] = "outcome" /\ Goes(w, "persisting")
  /\ fresh' = [fresh EXCEPT ![w] = dlv[claim[w].id].live]
  /\ UNCHANGED <<rows, claim, seen, fate, sent>>

\* _active_claim_predicate, with the time the transaction has read.
Owns(w) ==
  /\ dlv[claim[w].id].status = "sending"
  /\ dlv[claim[w].id].gen = claim[w].gen
  /\ fresh[w]

\* The boundary and its ledger row in one fenced transaction.
BeginDeliveryAttempt(w) ==
  /\ pc[w] = "beginning"
  /\ Owns(w) /\ ~dlv[claim[w].id].started
  /\ dlv' = [dlv EXCEPT ![claim[w].id].started = TRUE]
  /\ att' = [att EXCEPT ![claim[w].id][claim[w].gen] = "in_progress"]
  /\ Goes(w, "sending")
  /\ UNCHANGED <<local, sent>>

\* Mutant: an exception of the transport is retried in place.
Send_Retries(w) ==
  /\ pc[w] = "sending"
  /\ sent' = [sent EXCEPT ![claim[w].id] = @ + 1]
  /\ \/ \E result \in Settled : fate' = [fate EXCEPT ![w] = result] /\ Goes(w, "outcome")
     \/ UNCHANGED <<fate, pc>>
  /\ UNCHANGED <<rows, claim, seen, fresh>>

\* transport.send, outside any transaction: its answer, or "ambiguous" for an
\* exception.
Send(w) ==
  /\ pc[w] = "sending"
  /\ sent' = [sent EXCEPT ![claim[w].id] = @ + 1]
  /\ \E result \in Settled : fate' = [fate EXCEPT ![w] = result]
  /\ Goes(w, "outcome")
  /\ UNCHANGED <<rows, claim, seen, fresh>>

\* Mutant: the outcome is applied without the fence, however late.
PersistOutcome_Unfenced(w) ==
  LET d == claim[w].id
      status == IF fate[w] = "parked" THEN "ambiguous" ELSE fate[w]
  IN
  /\ pc[w] = "persisting"
  /\ dlv' = [dlv EXCEPT ![d].status = status]
  /\ att' = IF dlv[d].started THEN [att EXCEPT ![d][claim[w].gen] = status] ELSE att
  /\ Goes(w, "idle")
  /\ UNCHANGED <<local, sent>>

\* PersistDeliveryOutcome._apply: the attempt, if there is one, and the
\* delivery are closed together.
PersistOutcome(w) ==
  LET d == claim[w].id
      status == IF fate[w] = "parked" THEN "ambiguous" ELSE fate[w]
  IN
  /\ pc[w] = "persisting" /\ Owns(w)
  /\ dlv' = [dlv EXCEPT ![d].status = status]
  /\ att' = IF dlv[d].started THEN [att EXCEPT ![d][claim[w].gen] = status] ELSE att
  /\ Goes(w, "idle")
  /\ UNCHANGED <<local, sent>>

\* ClaimLost, before the boundary or at the outcome.
ClaimLost(w) ==
  /\ pc[w] \in {"beginning", "persisting"}
  /\ ~(Owns(w) /\ (pc[w] = "beginning" => ~dlv[claim[w].id].started))
  /\ Goes(w, "idle")
  /\ UNCHANGED <<rows, local, sent>>

\* The process ends anywhere and is started again.
Crash(w) ==
  /\ pc[w] # "idle"
  /\ Goes(w, "idle")
  /\ seen' = [seen EXCEPT ![w] = {}]
  /\ UNCHANGED <<rows, claim, fresh, fate, sent>>

-----------------------------------------------------------------------------
ClaimStep(w) ==
  \/ RecoveryConflict(w) \/ RecoverOnly(w)
  \/ \E d \in Deliveries : RecoverAndClaim(w, d)

DispatchStep(w) ==
  \/ CheckRoute(w) \/ ReadClock(w) \/ BeginDeliveryAttempt(w) \/ Send(w)
  \/ PersistOutcome(w) \/ ClaimLost(w)

Next ==
  \/ \E d \in Deliveries : Create(d) \/ BecomesDue(d) \/ LeaseExpires(d)
  \/ \E w \in Workers : ListExpired(w) \/ ClaimStep(w) \/ DispatchStep(w) \/ Crash(w)

Spec == Init /\ [][Next]_vars

\* Time passes, and a worker keeps being run: however often it is restarted,
\* it gets through a claim transaction now and then.
FairSpec ==
  /\ Spec
  /\ \A d \in Deliveries : WF_vars(BecomesDue(d)) /\ WF_vars(LeaseExpires(d))
  /\ \A w \in Workers :
       WF_vars(ListExpired(w)) /\ SF_vars(ClaimStep(w)) /\ WF_vars(DispatchStep(w))

-----------------------------------------------------------------------------
(* Properties *)

\* A delivery is handed to the transport at most once, over every crash, lost
\* lease, recovery and retry (dispatch_started_at and its fence).
AtMostOneSend == \A d \in Deliveries : sent[d] <= 1

\* The ledger tells the truth: no attempt before the boundary; past it exactly
\* one, of the current generation, open while the delivery is sending and
\* closed with the delivery's own outcome (BeginDeliveryAttempt, _apply,
\* close_expired_as_ambiguous).  Recovery therefore always finds its attempt.
LedgerAgrees ==
  \A d \in Deliveries : \A g \in Generations :
    att[d][g] =
      IF ~dlv[d].started \/ g # dlv[d].gen THEN "none"
      ELSE IF dlv[d].status = "sending" THEN "in_progress" ELSE dlv[d].status

\* What a delivery looks like from outside.
State(d) ==
  LET row == dlv[d] IN
  CASE row.status = "absent" -> "absent"
    [] row.status = "queued" -> "pending"
    [] row.status = "sending" -> IF row.started THEN "inflight" ELSE "pending"
    [] row.status = "delivered" -> "delivered"
    [] row.status = "failed" -> IF row.started THEN "rejected" ELSE "dropped"
    [] row.status = "ambiguous" -> IF row.started THEN "unknown" ELSE "parked"

Promise == INSTANCE DeliveryPromise WITH state <- [d \in Deliveries |-> State(d)]

\* The dispatchers keep the promise: reported outcomes only move forward, a
\* send follows the recorded boundary, a delivered message was sent.
PromiseKept == Promise!Spec

\* The status of a delivery, with dispatch_started_at.
Phase(row) ==
  CASE row.status = "absent" -> "none"
    [] row.status = "sending" -> IF row.started THEN "dispatched" ELSE "claimed"
    [] OTHER -> row.status

DeliveryRows == INSTANCE Lifecycle WITH
  Rows <- Deliveries, Kind <- "delivery", status <- [d \in Deliveries |-> Phase(dlv[d])]
AttemptRows == INSTANCE Lifecycle WITH
  Rows <- Deliveries \X Generations, Kind <- "attempt",
  status <- [x \in Deliveries \X Generations |-> att[x[1]][x[2]]]

\* Deliveries and their attempts only take the transitions of their classes
\* although each is decided from a row read before (_require_status,
\* DeliveryAttempt.complete, and the conditional updates of the repository).
DeliveriesFollow == DeliveryRows!Spec /\ AttemptRows!Spec

\* Every delivery is eventually settled.
DeliveriesSettle ==
  \A d \in Deliveries : dlv[d].status \in {"queued", "sending"} ~> dlv[d].status \in Settled
=============================================================================
