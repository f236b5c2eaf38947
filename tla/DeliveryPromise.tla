-------------------------- MODULE DeliveryPromise --------------------------
(***************************************************************************)
(* What Friday promises about outbound messages: an accepted message is    *)
(* handed to the transport at most once, only after the point of no return *)
(* was recorded, and what is reported about it is never better than what   *)
(* is known.                                                               *)
(***************************************************************************)
EXTENDS Naturals

CONSTANT Deliveries

VARIABLES
  state,  \* what Friday reports of each message
  sent    \* how often it was handed to the transport

vars == <<state, sent>>

\* "unknown": the message may have gone out; "parked": it has not.
States ==
  {"absent", "pending", "inflight", "delivered", "rejected", "unknown", "parked", "dropped"}

Init ==
  /\ state = [d \in Deliveries |-> "absent"]
  /\ sent = [d \in Deliveries |-> 0]

Becomes(d, from, to) ==
  /\ state[d] = from
  /\ state' = [state EXCEPT ![d] = to]
  /\ UNCHANGED sent

Accept(d) == Becomes(d, "absent", "pending")
PassBoundary(d) == Becomes(d, "pending", "inflight")

\* The sender may be late: by then the message may be reported unknown.
Transmit(d) ==
  /\ state[d] \in {"inflight", "unknown"}
  /\ sent[d] = 0
  /\ sent' = [sent EXCEPT ![d] = 1]
  /\ UNCHANGED state

\* What the transport answered, once it has been asked.
Report(d) ==
  /\ sent[d] = 1
  /\ Becomes(d, "inflight", "delivered") \/ Becomes(d, "inflight", "rejected")

\* Several messages can be given up in one transaction, and one of those still
\* pending can be given up before anything is sent.
GiveUp ==
  /\ state' \in [Deliveries -> States]
  /\ \A d \in Deliveries :
       \/ state'[d] = state[d]
       \/ state[d] = "inflight" /\ state'[d] = "unknown"
       \/ state[d] = "pending" /\ state'[d] \in {"parked", "dropped"}
  /\ UNCHANGED sent

Next ==
  \/ \E d \in Deliveries : Accept(d) \/ PassBoundary(d) \/ Transmit(d) \/ Report(d)
  \/ GiveUp

Spec == Init /\ [][Next]_vars
=============================================================================
