--------------------------- MODULE BoundedProcess ---------------------------
(***************************************************************************)
(* One call that runs a child process and waits for it under a deadline    *)
(* and byte limits: the process tool (process_runner.py), the model's      *)
(* command line (claude_cli.py) and the graph extractor (graphify_cli.py). *)
(*                                                                         *)
(* The child may fork a helper that inherits its pipes.  Bytes are counted *)
(* in units, and a pipe holds PipeSize of them.  A killed process runs no  *)
(* more, so a kill and the wait that follows it are one step.              *)
(***************************************************************************)
EXTENDS Naturals

CONSTANTS
  Kinds,     \* which callers there are, of those listed below
  Limit,     \* max_stdout_bytes, max_stderr_bytes
  MaxInput,  \* max_input_bytes
  PipeSize,
  MaxWrites  \* how much a child writes to each stream (bound)

VARIABLES
  call,    \* the caller: [kind, pc, tries, late, lost, result]
  open,    \* the streams still registered with the selector
  pending, \* what is left of the prompt
  buf,     \* what was read of each stream
  alive,   \* the processes of the child's group
  holds,   \* who has the child's end of a stream open
  pipe,    \* what is in each pipe
  written  \* what was written to each stream

vars == <<call, open, pending, buf, alive, holds, pipe, written>>

Processes == {"leader", "helper"}
Outputs == {"out", "err"}
Streams == Outputs \cup {"in"}

\* One decision of the model may take two children, and so does the probe at startup.
Brain == {"action", "candidate", "probe"}
AllKinds == Brain \cup {"tool", "graph"}

Min2(a, b) == IF a < b THEN a ELSE b

Init ==
  /\ call \in [kind : Kinds, pc : {"ready"}, tries : {0}, late : {FALSE}, lost : {FALSE},
               result : {"none"}]
  /\ open = {} /\ alive = {}
  /\ pending \in IF call.kind \in {"action", "candidate"} THEN 1 .. MaxInput + 1 ELSE {0}
  /\ buf = [s \in Outputs |-> 0]
  /\ holds = [s \in Streams |-> {}]
  /\ pipe = [s \in Streams |-> 0]
  /\ written = [s \in Outputs |-> 0]

Return(r) == call' = [call EXCEPT !.pc = "done", !.result = r]

child == <<alive, holds, pipe, written>>

\* The deadline is one for both children of a decision; the probe's two have one each.
Deadline_Fresh(c) == FALSE
Deadline(c) == IF c.kind = "action" THEN c.late ELSE FALSE

\* _invoke, _invoke_candidate, _run_probe, run and _run_bounded, up to the spawn.  A helper that the
\* first child left behind is in another group, and is of no concern to the second.
Spawn ==
  /\ call.pc = "ready" /\ pending <= MaxInput
  /\ ~Deadline(call)
  /\ call' = [call EXCEPT !.pc = "draining", !.tries = @ + 1, !.late = Deadline(call)]
  /\ open' = IF pending > 0 THEN Streams ELSE Outputs
  /\ alive' = {"leader"}
  /\ holds' = [s \in Streams |-> {"leader"}]
  /\ pipe' = [s \in Streams |-> 0]
  /\ written' = [s \in Outputs |-> 0]
  /\ buf' = [s \in Outputs |-> 0]
  /\ UNCHANGED pending

Refuse ==
  /\ call.pc = "ready"
  /\ \/ pending > MaxInput /\ Return("protocol")
     \/ Deadline(call) /\ Return("expired")
     \/ Return("unavailable")
  /\ UNCHANGED <<open, pending, buf, child>>

Looping == call.pc = "draining" /\ open # {}

\* killpg takes the helper as well as the leader.
Group_Leader == alive \cap {"leader"}
Group == alive

\* _terminate_process_group
Terminate(r) ==
  /\ alive' = alive \ Group
  /\ holds' = [s \in Streams |-> holds[s] \ Group]
  /\ open' = {}
  /\ Return(r)
  /\ UNCHANGED <<pending, pipe, written>>

\* The checks at the head of the loop.
Cancelled ==
  /\ Looping /\ call.kind = "tool" /\ call.lost
  /\ Terminate("claim_lost")
  /\ UNCHANGED buf

Expired_OnceFed ==
  /\ Looping /\ call.late /\ "in" \notin open
  /\ Terminate("timeout")
  /\ UNCHANGED buf
Expired ==
  /\ Looping /\ call.late
  /\ Terminate("timeout")
  /\ UNCHANGED buf

\* A child that is not reading does not block the caller.
Feed ==
  /\ Looping /\ ~call.late /\ "in" \in open
  /\ \/ /\ holds["in"] = {}
        /\ pending' = 0
        /\ UNCHANGED pipe
     \/ /\ holds["in"] # {} /\ pipe["in"] < PipeSize
        /\ \E k \in 1 .. Min2(pending, PipeSize - pipe["in"]) :
             /\ pending' = pending - k
             /\ pipe' = [pipe EXCEPT !["in"] = @ + k]
  /\ open' = IF pending' = 0 THEN open \ {"in"} ELSE open
  /\ UNCHANGED <<call, buf, alive, holds, written>>

\* What exceeds the limit ends the call, except that the extractor's output is cut and read on.
Over_Inclusive(n) == n >= Limit
Over(n) == n > Limit

Receive(s) ==
  /\ Looping /\ ~call.late /\ s \in open /\ pipe[s] > 0
  /\ \E k \in 1 .. pipe[s] :
       LET n == buf[s] + k
       IN  IF Over(n) /\ call.kind # "graph"
           THEN /\ buf' = [buf EXCEPT ![s] = IF call.kind = "tool" THEN Limit ELSE n]
                /\ Terminate(IF call.kind = "tool" THEN "too_large" ELSE "protocol")
           ELSE /\ buf' = [buf EXCEPT ![s] = Min2(n, Limit)]
                /\ pipe' = [pipe EXCEPT ![s] = @ - k]
                /\ UNCHANGED <<call, open, pending, alive, holds, written>>

EndOfFile(s) ==
  /\ Looping /\ ~call.late /\ s \in open \cap Outputs
  /\ pipe[s] = 0 /\ holds[s] = {}
  /\ open' = open \ {s}
  /\ UNCHANGED <<call, pending, buf, child>>

\* process.wait() has no deadline of its own.
Finished_Unawaited == call.pc = "draining" /\ open = {}
Finished == call.pc = "draining" /\ open = {} /\ "leader" \notin alive

\* An action that does not parse is asked for once more; a probe of the version is followed by
\* one of the protocol, with a prompt of its own.
Reap ==
  /\ Finished
  /\ \/ Return("ok") /\ (call.kind = "probe" => call.tries = 2) /\ UNCHANGED pending
     \/ call.kind \in Brain /\ Return("unavailable") /\ UNCHANGED pending
     \/ call.kind \in Brain /\ Return("protocol") /\ UNCHANGED pending
     \/ /\ call.kind = "action" /\ call.tries = 1
        /\ call' = [call EXCEPT !.pc = "ready"]
        /\ pending' \in 1 .. MaxInput + 1
     \/ /\ call.kind = "probe" /\ call.tries = 1
        /\ call' = [call EXCEPT !.pc = "ready"]
        /\ pending' = 1
  /\ UNCHANGED <<open, buf, child>>

Caller ==
  \/ Spawn \/ Refuse \/ Cancelled \/ Expired \/ Feed \/ Reap
  \/ \E s \in Outputs : Receive(s) \/ EndOfFile(s)

-----------------------------------------------------------------------------
(* The child, its helper, the clock and the loss of the claim. *)

Running == call.pc # "done"

Fork ==
  /\ Running /\ alive = {"leader"}
  /\ alive' = Processes
  /\ holds' = [s \in Streams |-> holds[s] \cup (IF "leader" \in holds[s] THEN {"helper"} ELSE {})]
  /\ UNCHANGED <<call, open, pending, buf, pipe, written>>

Write(p, s) ==
  /\ p \in holds[s] /\ pipe[s] < PipeSize /\ written[s] < MaxWrites
  /\ pipe' = [pipe EXCEPT ![s] = @ + 1]
  /\ written' = [written EXCEPT ![s] = @ + 1]
  /\ UNCHANGED <<call, open, pending, buf, alive, holds>>

ReadInput ==
  /\ holds["in"] # {} /\ pipe["in"] > 0
  /\ pipe' = [pipe EXCEPT !["in"] = @ - 1]
  /\ UNCHANGED <<call, open, pending, buf, alive, holds, written>>

Close(p, s) ==
  /\ p \in holds[s]
  /\ holds' = [holds EXCEPT ![s] = @ \ {p}]
  /\ UNCHANGED <<call, open, pending, buf, alive, pipe, written>>

Exit(p) ==
  /\ p \in alive
  /\ alive' = alive \ {p}
  /\ holds' = [s \in Streams |-> holds[s] \ {p}]
  /\ UNCHANGED <<call, open, pending, buf, pipe, written>>

DeadlinePasses ==
  /\ Running /\ call.tries > 0 /\ ~call.late
  /\ call' = [call EXCEPT !.late = TRUE]
  /\ UNCHANGED <<open, pending, buf, child>>

ClaimIsLost ==
  /\ Running /\ call.kind = "tool" /\ ~call.lost
  /\ call' = [call EXCEPT !.lost = TRUE]
  /\ UNCHANGED <<open, pending, buf, child>>

Done == call.pc = "done" /\ UNCHANGED vars

Next ==
  \/ Caller
  \/ Running /\ (Fork \/ ReadInput \/ \E p \in Processes :
                   Exit(p) \/ (\E s \in Streams : Close(p, s)) \/ (\E s \in Outputs : Write(p, s)))
  \/ DeadlinePasses \/ ClaimIsLost
  \/ Done

\* The caller is scheduled and time passes.  That a child which has closed its outputs goes on to
\* exit is an assumption about the child: nothing in the code limits that wait.
LeavesQuietly == holds["out"] = {} /\ holds["err"] = {} /\ Exit("leader")

Fairness == WF_vars(Caller) /\ WF_vars(DeadlinePasses) /\ WF_vars(LeavesQuietly)

Spec == Init /\ [][Next]_vars /\ Fairness

-----------------------------------------------------------------------------
TypeOK ==
  /\ call \in [kind : AllKinds, pc : {"ready", "draining", "done"}, tries : 0 .. 2, late : BOOLEAN,
               lost : BOOLEAN,
               result : {"none", "ok", "unavailable", "protocol", "expired", "timeout", "claim_lost",
                         "too_large"}]
  /\ open \subseteq Streams /\ pending \in 0 .. MaxInput + 1
  /\ buf \in [Outputs -> 0 .. Limit + PipeSize]
  /\ alive \subseteq Processes /\ holds \in [Streams -> SUBSET Processes]
  /\ pipe \in [Streams -> 0 .. PipeSize]
  /\ written \in [Outputs -> 0 .. MaxWrites]

(* A call that succeeds returns all that the child and its helper wrote, except that the extractor's    *)
(* output is cut at the limit; a call that fails because of the limit had a child that exceeded it.     *)
OutputIsWhole ==
  /\ call.result = "ok" =>
       \A s \in Outputs :
          buf[s] = IF call.kind = "graph" THEN Min2(written[s], Limit) ELSE written[s]
  /\ call.result = "too_large" => \E s \in Outputs : written[s] > Limit /\ buf[s] = Limit

(* No process of a call that was cut short is left running, and none is left that was waited for         *)
(* (start_new_session, _terminate_process_group).                                                       *)
NoOrphans ==
  /\ call.result \in {"timeout", "claim_lost", "too_large"} => alive = {}
  /\ call.result = "ok" => "leader" \notin alive

(* The deadline of a decision is not renewed for the child that repairs its answer (next_action).       *)
OneDeadline == call.kind = "action" /\ call.late => call'.late

(* A call that has started a child returns.                                                             *)
CallReturns == call.pc = "draining" ~> call.pc \in {"done", "ready"}
=============================================================================
