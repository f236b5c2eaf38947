----------------------------- MODULE Lifecycle -----------------------------
(***************************************************************************)
(* What a table of domain entities promises: a row is created in its first *)
(* status and then only ever takes the transitions its class allows, one   *)
(* per transaction (a transaction that creates a row may also take its     *)
(* first one).  The entity checks its transition when it is loaded, and    *)
(* the row is written later; that the committed rows keep the promise is   *)
(* up to the fences between the two.                                       *)
(***************************************************************************)
CONSTANTS Rows,   \* the rows there may be
          Kind    \* whose rows they are

VARIABLE status   \* of every row; "none" before it is created

Ends == {"succeeded", "failed", "cancelled"}

\* Run.start, wait_for_*, resume, succeed, fail, cancel.
RunMoves ==
  LET waiting == {"waiting_for_approval", "waiting_for_delegation", "waiting_for_workflow"} IN
  {<<"queued", "running">>}
    \cup ({"running"} \X waiting)
    \cup ({"waiting_for_approval", "waiting_for_delegation"} \X {"running"})
    \cup ({"running", "waiting_for_workflow"} \X {"succeeded", "failed"})
    \cup (({"queued", "running"} \cup waiting) \X {"cancelled"})

\* ApprovalRequest: resolved once, and consumed once if it was approved.
ApprovalMoves ==
  ({"pending"} \X {"approved", "rejected", "cancelled", "expired"}) \cup {<<"approved", "consumed">>}

\* ToolInvocation.
InvocationMoves ==
  {<<"requested", "running">>, <<"requested", "cancelled">>} \cup ({"running"} \X Ends)

\* DelegationRequest.
DelegationMoves ==
  ({"requested"} \X {"dispatched", "cancelled"}) \cup ({"dispatched"} \X Ends)

\* WorkflowExecution.
ExecutionMoves == {"running"} \X Ends

\* WorkflowNodeExecution.
NodeMoves ==
  ({"pending"} \X {"dispatched", "blocked", "cancelled"}) \cup ({"dispatched"} \X Ends)

\* OutboundDelivery, a delivery that is being sent being "claimed" before
\* dispatch_started_at is set and "dispatched" after.
DeliveryMoves ==
  {<<"queued", "claimed">>, <<"queued", "cancelled">>}
    \cup ({"claimed"} \X {"queued", "dispatched", "failed", "ambiguous"})
    \cup ({"dispatched"} \X {"delivered", "failed", "ambiguous"})

\* DeliveryAttempt.complete.
AttemptMoves == {"in_progress"} \X {"delivered", "failed", "ambiguous"}

First ==
  [run |-> "queued", approval |-> "pending", invocation |-> "requested", delegation |-> "requested",
   execution |-> "running", node |-> "pending", delivery |-> "queued", attempt |-> "in_progress"]
Moves ==
  [run |-> RunMoves, approval |-> ApprovalMoves, invocation |-> InvocationMoves,
   delegation |-> DelegationMoves, execution |-> ExecutionMoves, node |-> NodeMoves,
   delivery |-> DeliveryMoves, attempt |-> AttemptMoves]

\* The shape of a node and of a delegation: a child belongs to what was
\* dispatched and to nothing that was not.
NodeShape(s, child) ==
  /\ s \in {"dispatched", "succeeded", "failed"} => child
  /\ s \in {"pending", "blocked"} => ~child
DelegationShape(s, child) ==
  /\ s \in {"dispatched", "succeeded", "failed"} => child
  /\ s = "requested" => ~child

Allowed(s, t) ==
  \/ s = t
  \/ <<s, t>> \in Moves[Kind]
  \/ s = "none" /\ (t = First[Kind] \/ <<First[Kind], t>> \in Moves[Kind])

Init == \A r \in Rows : status[r] \in {"none", First[Kind]}

Next == \A r \in Rows : Allowed(status[r], status'[r])

Spec == Init /\ [][Next]_status
=============================================================================
