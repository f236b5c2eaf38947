--------------------------- MODULE SkillPromotion ---------------------------
(***************************************************************************)
(* One Skill and the pointer to its active revision.  Operators add        *)
(* revisions and activate them, disable and archive the Skill, and resolve *)
(* the promotion of reviewed candidates and the rollback to other          *)
(* revisions.  Every command reads in one step and writes in another; the  *)
(* triggers of the database judge the write against the tables as they     *)
(* are then.                                                               *)
(*                                                                         *)
(* A revision is its version.  An approval belongs to one request and is   *)
(* kept with it; fingerprints, hashes and reports bind the fields of a     *)
(* request that never change, and are left out.                            *)
(***************************************************************************)
EXTENDS Naturals, FiniteSets

CONSTANTS
  MaxVersion,   \* revisions that are looked at
  Proposals,    \* candidates
  Rollbacks,    \* rollback requests
  Sessions,     \* API requests that can be open at once
  Commands      \* the commands they make

VARIABLES
  skill,   \* the row of skills
  revs,    \* skill_revisions by version: where the instructions come from
  props,   \* skill_improvement_proposals, from review on
  promo,   \* skill_promotion_requests by proposal, with their approvals
  rb,      \* skill_rollback_requests with their approvals
  sess     \* the command each session has loaded, with what it has read

tables == <<skill, revs, props, promo, rb>>
vars == <<tables, sess>>

Versions == 1 .. MaxVersion
None == 0                   \* active_revision_id IS NULL

\* ck_skills_status.
SkillRow == [status : {"active", "disabled", "archived"}, active : 0 .. MaxVersion]

\* ck_skill_revisions_promotion_provenance: a generated revision, and no other,
\* names its promotion request, here the proposal that request is for.
RevisionRow == {"none", "operator"} \cup Proposals

Open == {"ready"}
ProposalRow ==
  [status : {"none", "rejected", "superseded", "cancelled", "promoted"} \cup Open,
   base : 0 .. MaxVersion, eligible : BOOLEAN]

\* ApprovalStatus; an approved request that was used is "consumed".
ApprovalState == {"none", "pending", "approved", "rejected", "cancelled", "consumed"}

PromotionRow ==
  [status : {"none", "pending", "rejected", "stale", "cancelled", "promoted"},
   expected : 0 .. MaxVersion, target : 0 .. MaxVersion, approval : ApprovalState]

\* ck_skill_rollback_target_not_current.
RollbackRow ==
  {r \in [status : {"none", "pending", "rejected", "stale", "cancelled", "completed"},
          expected : 0 .. MaxVersion, target : 0 .. MaxVersion, approval : ApprovalState] :
     r.status # "none" => r.target # r.expected}

SkillOps == {"revise", "activate", "disable", "archive"}
PromotionOps == {"request", "promote", "stale", "reject", "cancel"}
RollbackOps == {"requestBack", "rollback", "staleBack", "rejectBack", "cancelBack"}
AllOps == SkillOps \cup PromotionOps \cup RollbackOps \cup {"cancelProposal"}

NoRequest == [status |-> "none", expected |-> None, target |-> None, approval |-> "none"]
Idle ==
  [op |-> "none", id |-> None, row |-> [status |-> "active", active |-> None], next |-> None,
   was |-> "none"]

TypeOK ==
  /\ skill \in SkillRow
  /\ revs \in [Versions -> RevisionRow]
  /\ props \in [Proposals -> ProposalRow]
  /\ promo \in [Proposals -> PromotionRow]
  /\ rb \in [Rollbacks -> RollbackRow]
  /\ sess \in [Sessions ->
       [op : AllOps \cup {"none"},
        id : Versions \cup Proposals \cup Rollbacks \cup {None},
        row : SkillRow, next : 0 .. MaxVersion, was : ApprovalState]]

\* A Skill whose operator has added two revisions and activated the first.
Init ==
  /\ skill = [status |-> "active", active |-> 1]
  /\ revs = [v \in Versions |-> IF v <= 2 THEN "operator" ELSE "none"]
  /\ props = [p \in Proposals |-> [status |-> "none", base |-> None, eligible |-> FALSE]]
  /\ promo = [p \in Proposals |-> NoRequest]
  /\ rb = [r \in Rollbacks |-> NoRequest]
  /\ sess = [s \in Sessions |-> Idle]

-----------------------------------------------------------------------------
(* The aggregate and its repositories *)

Activated(row, v) == [row EXCEPT !.active = v]

Disabled(row) == [row EXCEPT !.status = "disabled"]

Archived(row) == [row EXCEPT !.status = "archived"]

\* next_version: one more than the largest.  Revisions are never deleted.
NextVersion == Cardinality({v \in Versions : revs[v] # "none"}) + 1

Exists(v) == v \in Versions /\ revs[v] # "none"

-----------------------------------------------------------------------------
(* The triggers *)

\* Mutant: the base is not compared again when the revision is inserted.
GeneratedAllowed_AnyBase(p, v) ==
  /\ promo[p].status = "pending" /\ promo[p].approval = "approved"
  /\ promo[p].target = v
  /\ props[p].status = "ready" /\ props[p].eligible
  /\ skill.status = "active"

\* ck_generated_revision_canonical_approval, at the INSERT of version v for p.
GeneratedAllowed(p, v) ==
  /\ promo[p].status = "pending" /\ promo[p].approval = "approved"
  /\ promo[p].target = v
  /\ props[p].status = "ready" /\ props[p].eligible
  /\ skill.status = "active" /\ skill.active = promo[p].expected

\* Mutant: the pointer may move to an older revision.
PointerAllowed_Downgrade(old, v) ==
  v # old /\ v # None /\ revs[v] \in Proposals =>
    /\ promo[revs[v]].status = "promoted" /\ promo[revs[v]].target = v
    /\ promo[revs[v]].approval \in {"approved", "consumed"}

\* ck_skill_active_pointer_authority, for a pointer that was old: a generated
\* revision was promoted, and an older one is the target of a rollback.
PointerAllowed(old, v) ==
  v # old /\ v # None =>
    /\ revs[v] \in Proposals =>
         /\ promo[revs[v]].status = "promoted" /\ promo[revs[v]].target = v
         /\ promo[revs[v]].approval \in {"approved", "consumed"}
    /\ v < old =>
         \E r \in Rollbacks :
           /\ rb[r].target = v /\ rb[r].expected = old
           /\ \/ rb[r].status = "pending" /\ rb[r].approval = "approved"
              \/ rb[r].status = "completed" /\ rb[r].approval = "consumed"

-----------------------------------------------------------------------------
(* Sessions *)

\* Only what the write uses is kept of what was read.
LoadWith(s, op, id, row, next, was) ==
  /\ sess[s] = Idle /\ op \in Commands
  /\ sess' = [sess EXCEPT ![s] =
       [op |-> op, id |-> id, row |-> row, next |-> next, was |-> was]]
  /\ UNCHANGED tables

Load(s, op, id, was) == LoadWith(s, op, id, Idle.row, None, was)

LoadSkill(s, op, id) == LoadWith(s, op, id, skill, None, "none")

\* The transaction ends, committed or rolled back.
Ends(s) == sess' = [sess EXCEPT ![s] = Idle]

Holds(s, op) == sess[s].op = op

\* IntegrityError, a trigger or a lost fence: nothing is written.
Conflict(s) == Ends(s) /\ UNCHANGED tables

-----------------------------------------------------------------------------
(* Registry commands *)

LoadRevise(s) ==
  /\ skill.status # "archived"
  /\ NextVersion <= MaxVersion
  /\ Load(s, "revise", NextVersion, "none")

\* uq_skill_revisions_skill_version.
CreateSkillRevision(s) ==
  /\ Holds(s, "revise")
  /\ IF Exists(sess[s].id) THEN Conflict(s)
     ELSE /\ revs' = [revs EXCEPT ![sess[s].id] = "operator"]
          /\ Ends(s) /\ UNCHANGED <<skill, props, promo, rb>>

LoadActivate(s, v) ==
  /\ Exists(v) /\ revs[v] = "operator"
  /\ skill.active # None => v > skill.active
  /\ skill.status # "archived"
  /\ LoadSkill(s, "activate", v)

LoadLifecycle(s, op) ==
  /\ op \in {"disable", "archive"}
  /\ op = "disable" => skill.status # "archived"
  /\ LoadSkill(s, op, None)

\* save: the whole row as it was read, with the change.
SaveSkill(s, row) ==
  IF PointerAllowed(skill.active, row.active)
  THEN /\ skill' = row
       /\ Ends(s) /\ UNCHANGED <<revs, props, promo, rb>>
  ELSE Conflict(s)

ActivateSkillRevision(s) ==
  Holds(s, "activate") /\ SaveSkill(s, Activated(sess[s].row, sess[s].id))

DisableSkill(s) == Holds(s, "disable") /\ SaveSkill(s, Disabled(sess[s].row))

ArchiveSkill(s) == Holds(s, "archive") /\ SaveSkill(s, Archived(sess[s].row))

-----------------------------------------------------------------------------
(* Candidates *)

\* CompareSkillImprovementProposal has reported on a candidate made from base,
\* a revision that was active when the candidate was generated.
ReadyForReview(p, base, eligible) ==
  /\ props[p].status = "none" /\ Exists(base)
  /\ \A q \in Proposals : props[q].status \notin Open
  /\ props' = [props EXCEPT ![p] = [status |-> "ready", base |-> base, eligible |-> eligible]]
  /\ UNCHANGED <<skill, revs, promo, rb, sess>>

LoadCancelProposal(s, p) ==
  /\ props[p].status \in Open \cup {"superseded"}
  /\ Load(s, "cancelProposal", p, "none")

CancelProposal(s) ==
  /\ Holds(s, "cancelProposal")
  /\ props' = [props EXCEPT ![sess[s].id].status = "cancelled"]
  /\ Ends(s) /\ UNCHANGED <<skill, revs, promo, rb>>

-----------------------------------------------------------------------------
(* Promotion *)

LoadRequestPromotion(s, p) ==
  /\ props[p].status = "ready" /\ props[p].eligible
  /\ skill.status = "active" /\ skill.active = props[p].base
  /\ NextVersion <= MaxVersion
  /\ LoadWith(s, "request", p, skill, NextVersion, "none")

\* The version was read with the rest; a proposal has one request.
RequestSkillPromotion(s) ==
  /\ Holds(s, "request")
  /\ IF promo[sess[s].id].status # "none" THEN Conflict(s)
     ELSE /\ promo' = [promo EXCEPT ![sess[s].id] =
               [status |-> "pending", expected |-> sess[s].row.active,
                target |-> sess[s].next, approval |-> "pending"]]
          /\ Ends(s) /\ UNCHANGED <<skill, revs, props, rb>>

\* ApproveRequest and RejectRequest of a request that no Run made.
ResolveApproval(p, answer) ==
  /\ promo[p].approval = "pending" /\ answer \in {"approved", "rejected"}
  /\ promo' = [promo EXCEPT ![p].approval = answer]
  /\ UNCHANGED <<skill, revs, props, rb, sess>>

\* _load_promotion_proposal.
ProposalLoads(p) == props[p].status \in Open

\* The list of ExecuteSkillPromotion.
Stale(p) ==
  \/ props[p].status # "ready" \/ ~props[p].eligible
  \/ props[p].base # promo[p].expected
  \/ skill.status # "active" \/ skill.active # promo[p].expected
  \/ NextVersion # promo[p].target

LoadPromote(s, p) ==
  /\ promo[p].status = "pending" /\ ProposalLoads(p) /\ promo[p].approval = "approved"
  /\ IF Stale(p) THEN Load(s, "stale", p, "none") ELSE LoadSkill(s, "promote", p)

\* _stage_terminal_promotion: both rows are saved as they were read.
Close(p, status, proposal, approval) ==
  /\ promo' = [promo EXCEPT ![p].status = status, ![p].approval = approval]
  /\ props' = [props EXCEPT ![p].status = proposal]

StalePromotion(s) ==
  /\ Holds(s, "stale")
  /\ Close(sess[s].id, "stale", "superseded", promo[sess[s].id].approval)
  /\ Ends(s) /\ UNCHANGED <<skill, revs, rb>>

\* One transaction: the revision, the closed request, the pointer, the approval.
ExecuteSkillPromotion(s) ==
  /\ Holds(s, "promote")
  /\ LET p == sess[s].id
         v == promo[p].target
     IN IF GeneratedAllowed(p, v) /\ ~Exists(v)
        THEN /\ revs' = [revs EXCEPT ![v] = p]
             /\ Close(p, "promoted", "promoted", "consumed")
             /\ skill' = Activated(sess[s].row, v)
             /\ Ends(s) /\ UNCHANGED rb
        ELSE Conflict(s)

\* A transition of the approval is possible from pending, or already made.
LoadClosePromotion(s, p, op) ==
  /\ op \in {"reject", "cancel"}
  /\ promo[p].status = "pending" /\ ProposalLoads(p)
  /\ promo[p].approval \in {"pending", IF op = "reject" THEN "rejected" ELSE "cancelled"}
  /\ Load(s, op, p, promo[p].approval)

ClosePromotion(s) ==
  /\ sess[s].op \in {"reject", "cancel"}
  /\ LET end == IF sess[s].op = "reject" THEN "rejected" ELSE "cancelled"
     IN Close(sess[s].id, end, end, IF sess[s].was = "pending" THEN end ELSE promo[sess[s].id].approval)
  /\ Ends(s) /\ UNCHANGED <<skill, revs, rb>>

-----------------------------------------------------------------------------
(* Rollback *)

\* Mutant: the active revision may be the target.
LoadRequestRollback_Current(s, v) ==
  /\ skill.status = "active" /\ skill.active # None
  /\ Exists(v)
  /\ LoadSkill(s, "requestBack", v)

LoadRequestRollback(s, v) ==
  /\ skill.status = "active" /\ skill.active # None
  /\ Exists(v) /\ v # skill.active
  /\ LoadSkill(s, "requestBack", v)

RequestSkillRollback(s) ==
  /\ Holds(s, "requestBack")
  /\ \E r \in Rollbacks :
       /\ rb[r].status = "none"
       /\ rb' = [rb EXCEPT ![r] = [status |-> "pending", expected |-> sess[s].row.active,
                                   target |-> sess[s].id, approval |-> "pending"]]
  /\ Ends(s) /\ UNCHANGED <<skill, revs, props, promo>>

ResolveRollbackApproval(r, answer) ==
  /\ rb[r].approval = "pending" /\ answer \in {"approved", "rejected"}
  /\ rb' = [rb EXCEPT ![r].approval = answer]
  /\ UNCHANGED <<skill, revs, props, promo, sess>>

LoadRollback(s, r) ==
  /\ rb[r].status = "pending" /\ rb[r].approval = "approved"
  /\ IF skill.status # "active" \/ skill.active # rb[r].expected
     THEN Load(s, "staleBack", r, "none") ELSE LoadSkill(s, "rollback", r)

StaleRollback(s) ==
  /\ Holds(s, "staleBack")
  /\ rb' = [rb EXCEPT ![sess[s].id].status = "stale"]
  /\ Ends(s) /\ UNCHANGED <<skill, revs, props, promo>>

ExecuteSkillRollback(s) ==
  /\ Holds(s, "rollback")
  /\ LET r == sess[s].id
         v == rb[r].target
     IN IF PointerAllowed(skill.active, v) /\ rb[r].approval = "approved"
        THEN /\ skill' = Activated(sess[s].row, v)
             /\ rb' = [rb EXCEPT ![r].status = "completed", ![r].approval = "consumed"]
             /\ Ends(s) /\ UNCHANGED <<revs, props, promo>>
        ELSE Conflict(s)

LoadCloseRollback(s, r, op) ==
  /\ op \in {"rejectBack", "cancelBack"}
  /\ rb[r].status = "pending"
  /\ rb[r].approval \in {"pending", IF op = "rejectBack" THEN "rejected" ELSE "cancelled"}
  /\ Load(s, op, r, rb[r].approval)

CloseRollback(s) ==
  /\ sess[s].op \in {"rejectBack", "cancelBack"}
  /\ LET end == IF sess[s].op = "rejectBack" THEN "rejected" ELSE "cancelled"
     IN rb' = [rb EXCEPT ![sess[s].id].status = end,
                         ![sess[s].id].approval = IF sess[s].was = "pending" THEN end ELSE @]
  /\ Ends(s) /\ UNCHANGED <<skill, revs, props, promo>>

-----------------------------------------------------------------------------
Reads(s) ==
  \/ LoadRevise(s)
  \/ \E v \in Versions : LoadActivate(s, v) \/ LoadRequestRollback(s, v)
  \/ \E op \in SkillOps : LoadLifecycle(s, op)
  \/ \E p \in Proposals :
       \/ LoadCancelProposal(s, p) \/ LoadRequestPromotion(s, p) \/ LoadPromote(s, p)
       \/ \E op \in PromotionOps : LoadClosePromotion(s, p, op)
  \/ \E r \in Rollbacks : LoadRollback(s, r) \/ \E op \in RollbackOps : LoadCloseRollback(s, r, op)

Writes(s) ==
  \/ CreateSkillRevision(s) \/ ActivateSkillRevision(s) \/ DisableSkill(s) \/ ArchiveSkill(s)
  \/ CancelProposal(s) \/ RequestSkillPromotion(s) \/ StalePromotion(s)
  \/ ExecuteSkillPromotion(s) \/ ClosePromotion(s)
  \/ RequestSkillRollback(s) \/ StaleRollback(s) \/ ExecuteSkillRollback(s) \/ CloseRollback(s)

Environment ==
  \/ \E p \in Proposals, v \in Versions, e \in BOOLEAN : ReadyForReview(p, v, e)
  \/ \E p \in Proposals, a \in ApprovalState : ResolveApproval(p, a)
  \/ \E r \in Rollbacks, a \in ApprovalState : ResolveRollbackApproval(r, a)

Next == Environment \/ \E s \in Sessions : Reads(s) \/ Writes(s)

Spec == Init /\ [][Next]_vars

-----------------------------------------------------------------------------
(* Properties *)

\* A generated revision becomes active in the transaction that consumes the
\* approval of its request, and replaces the very revision it was compared with,
\* whatever was committed since the request was read (ExecuteSkillPromotion
\* under ck_generated_revision_canonical_approval).
PromotesWhatWasReviewed ==
  [][\A p \in Proposals, v \in Versions :
       revs[v] = "none" /\ revs'[v] = p =>
         /\ skill.active = props[p].base /\ props[p].eligible
         /\ skill'.active = v
         /\ promo[p].approval = "approved" /\ promo'[p].approval = "consumed"]_vars

\* The pointer moves to an older revision only along a rollback that was
\* approved for exactly this pair (ck_skill_active_pointer_authority), no matter
\* which command writes the row back.
DowngradesAreApproved ==
  [][skill'.active # None /\ skill'.active < skill.active =>
       \E r \in Rollbacks :
         /\ rb[r].expected = skill.active /\ rb[r].target = skill'.active
         /\ rb[r].approval \in {"approved", "consumed"}]_vars

\* Both: whatever commands overlap, the active revision is replaced only by one
\* that was reviewed against it or that an operator activated, and goes back only
\* along an approved rollback (ck_generated_revision_canonical_approval,
\* ck_skill_active_pointer_authority).
PointerMovesAreApproved == PromotesWhatWasReviewed /\ DowngradesAreApproved

=============================================================================
