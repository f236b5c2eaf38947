----------------------------- MODULE WorkQueue -----------------------------
(***************************************************************************)
(* One row of run_work_items and the statements SqlAlchemyRunWorkQueue     *)
(* issues on it.  Every statement is a function of the row, so a module    *)
(* that uses it says in one expression what a transaction does to the      *)
(* queue.                                                                  *)
(*                                                                         *)
(* Time is abstracted to what the WHERE clauses compare: "due" stands for  *)
(* available_at <= now, "live" for lease_expires_at > now.  The owner      *)
(* module moves due from FALSE to TRUE and live from TRUE to FALSE as time *)
(* passes.  claimed_at, heartbeat_at and enqueued_at only order and report *)
(* rows and are left out.                                                  *)
(***************************************************************************)
EXTENDS Naturals

CONSTANTS
  WorkerIds,  \* values of claimed_by: FRIDAY_WORKER_ID or worker-<pid>
  Tokens,     \* values of uuid4().hex, as many as can be in use at once
  Nobody      \* SQL NULL in claimed_by and claim_token

ASSUME NobodyAssumption == Nobody \notin WorkerIds \cup Tokens

\* A row; present = FALSE stands for the absence of a row.
Item ==
  [present : BOOLEAN, due : BOOLEAN, owner : WorkerIds \cup {Nobody},
   token : Tokens \cup {Nobody}, gen : Nat, live : BOOLEAN]

NoItem ==
  [present |-> FALSE, due |-> FALSE, owner |-> Nobody, token |-> Nobody,
   gen |-> 0, live |-> FALSE]

Unclaimed(it) == [it EXCEPT !.owner = Nobody, !.token = Nobody, !.live = FALSE]

\* enqueue: a new row starts unclaimed at generation 0; an existing row only
\* moves in time and keeps its claim.
Enqueue(it, due) == [it EXCEPT !.present = TRUE, !.due = due]

\* Mutant: an expired claim is not claimable.
Claimable_OnlyUnclaimed(it) == it.present /\ it.due /\ it.owner = Nobody

\* The WHERE clause shared by find_due_candidates and try_claim.
Claimable(it) == it.present /\ it.due /\ (it.owner = Nobody \/ ~it.live)

\* try_claim: every claim moves the generation on.
TryClaim(it, id, tok) ==
  [it EXCEPT !.owner = id, !.token = tok, !.gen = @ + 1, !.live = TRUE]

\* Mutant: the fence compares worker ids only.
ClaimActive_IdOnly(it, id, tok, gen) == it.present /\ it.owner = id /\ it.live

\* The fencing WHERE clause of renew_lease, release_claim, requeue_claimed,
\* remove_if_claimed and is_claim_active: the whole triple and a live lease.
ClaimActive(it, id, tok, gen) ==
  /\ it.present
  /\ it.owner = id
  /\ it.token = tok
  /\ it.gen = gen
  /\ it.live

\* Mutant: a yield gives the row up altogether.
Requeue_Removes(it, due) == NoItem

\* requeue_claimed (the caller has checked ClaimActive).
Requeue(it, due) == [Unclaimed(it) EXCEPT !.due = due]

\* find_expired_claims, and the WHERE clause of clear_expired_claim and
\* remove_if_lease_expired.
ClaimExpired(it) == it.present /\ it.owner # Nobody /\ ~it.live
=============================================================================
