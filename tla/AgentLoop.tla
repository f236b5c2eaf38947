----------------------------- MODULE AgentLoop -----------------------------
(***************************************************************************)
(* AgentRunProcessor.process: the turns a worker takes with the model      *)
(* while it holds the claim on one Run, and the outcome the worker loop    *)
(* applies.  Losing the claim, the deadline, edits of the Task and writes  *)
(* to memory happen between any two steps.  What a tool call does is       *)
(* ToolExecution, what a delegation does is Delegation, and which agent    *)
(* and skills are resolved is RunIdentity: here they answer freely.        *)
(***************************************************************************)
EXTENDS Integers

CONSTANTS Workers,
          MaxTurns,     \* max_turns_per_claim
          MaxTools,     \* max_tool_calls_per_claim
          MaxEdits,     \* bound: edits of the Task's title or description
          MaxWrites     \* bound: notes written to memory

VARIABLES run,          \* live (queued or running), waiting or ended
          holder,       \* whose claim the queue row carries
          objective,    \* the Task's title and description, numbered
          vault,        \* number of notes written to memory
          proc          \* what each worker's process() has in hand

vars == <<run, holder, objective, vault, proc>>

Nobody == "nobody"
Actions == {"finish", "fail", "yield", "delegate", "tool"}
Outcomes == {"succeeded", "failed", "retry", "waiting", "yielded"}
Memory == [ok : BOOLEAN, version : 0..MaxWrites, query : -1..MaxEdits]
NoMemory == [ok |-> FALSE, version |-> 0, query |-> -1]

\* The locals of process(), and two histories: the newest note this claim wrote, and
\* how often it retrieved.
Locals == [pc : {"idle", "start", "snapshot", "memory", "audit", "render", "ask", "repair",
                 "answer", "outcome"},
           turn : 1..(MaxTurns + 1), calls : 0..MaxTools, late : BOOLEAN, lost : BOOLEAN,
           prev : -1..MaxEdits, mem : Memory, needed : BOOLEAN, available : BOOLEAN,
           refresh : BOOLEAN, resp : Actions \cup {"none"}, outcome : Outcomes \cup {"none"},
           wrote : 0..MaxWrites, retrievals : 0..3]

Fresh == [pc |-> "start", turn |-> 1, calls |-> 0, late |-> FALSE, lost |-> FALSE, prev |-> -1,
          mem |-> NoMemory, needed |-> TRUE, available |-> TRUE, refresh |-> FALSE,
          resp |-> "none", outcome |-> "none", wrote |-> 0, retrievals |-> 0]
Idle == [Fresh EXCEPT !.pc = "idle"]

TypeOK ==
    /\ run \in {"live", "waiting", "ended"}
    /\ holder \in Workers \cup {Nobody}
    /\ objective \in 0..MaxEdits
    /\ vault \in 0..MaxWrites
    /\ proc \in [Workers -> Locals]

Init ==
    /\ run = "live"
    /\ holder = Nobody
    /\ objective = 0
    /\ vault = 0
    /\ proc = [w \in Workers |-> Idle]

-----------------------------------------------------------------------------
\* The claim as VerifyRunClaim sees it, and the event the heartbeat thread sets.
ClaimHolds(w) == ~proc[w].lost /\ run = "live" /\ holder = w

Put(w, p) == proc' = [proc EXCEPT ![w] = p]
Local(w, p) == Put(w, p) /\ UNCHANGED <<run, holder, objective, vault>>
Ends(p, kind) == [p EXCEPT !.pc = "outcome", !.outcome = kind, !.resp = "none"]
Yields(w) == Local(w, Ends(proc[w], "yielded"))

Claim(w) ==
    /\ proc[w].pc = "idle"
    /\ run = "live"
    /\ holder = Nobody
    /\ holder' = w
    /\ Put(w, Fresh)
    /\ UNCHANGED <<run, objective, vault>>

\* The head of the loop, with the resolution of skills and agent; a resolution that fails
\* is not retried.
StartTurn_Unbounded(w) ==
    /\ proc[w].pc = "start"
    /\ IF proc[w].late \/ ~ClaimHolds(w) THEN Yields(w)
       ELSE \/ Local(w, [proc[w] EXCEPT !.pc = "snapshot"])
            \/ Local(w, Ends(proc[w], "failed"))

StartTurn(w) ==
    /\ proc[w].pc = "start"
    /\ IF proc[w].turn > MaxTurns \/ proc[w].late \/ ~ClaimHolds(w) THEN Yields(w)
       ELSE \/ Local(w, [proc[w] EXCEPT !.pc = "snapshot"])
            \/ Local(w, Ends(proc[w], "failed"))

\* _load_snapshot, and the comparison of the objective with the previous turn's.
LoadSnapshot(w) ==
    /\ proc[w].pc = "snapshot"
    /\ IF run # "live" THEN Yields(w)
       ELSE \/ LET p == proc[w]
                   edited == p.prev # -1 /\ p.prev # objective
                   needed == IF edited THEN p.available ELSE p.needed
               IN Local(w, [p EXCEPT !.prev = objective, !.needed = needed,
                                     !.refresh = IF edited THEN needed ELSE @,
                                     !.pc = IF needed THEN "memory" ELSE "render"])
            \/ Local(w, Ends(proc[w], "failed"))

\* The index answers, or retrieval is unavailable; the query is built from the snapshot.
RetrieveMemory(w) ==
    /\ proc[w].pc = "memory"
    /\ \E ok \in BOOLEAN :
          Local(w, [proc[w] EXCEPT !.mem = [ok |-> ok, version |-> vault, query |-> proc[w].prev],
                                   !.needed = FALSE, !.refresh = FALSE, !.pc = "audit",
                                   !.available = IF proc[w].refresh THEN FALSE ELSE @,
                                   !.retrievals = @ + 1])

RecordMemoryEvents(w) ==
    /\ proc[w].pc = "audit"
    /\ IF ClaimHolds(w) THEN Local(w, [proc[w] EXCEPT !.pc = "render"]) ELSE Yields(w)

\* build_runtime_context refuses an all-or-nothing section that does not fit; for the
\* workflow context this is an exception nobody catches, which the loop reports as a
\* failure to retry.
Render(w) ==
    /\ proc[w].pc = "render"
    /\ \/ IF proc[w].late THEN Yields(w) ELSE Local(w, [proc[w] EXCEPT !.pc = "ask"])
       \/ \E kind \in {"failed", "retry"} : Local(w, Ends(proc[w], kind))

\* BrainTimeout, BrainUnavailable, BrainProtocolError and a response that stays invalid.
BrainFails(w) ==
    /\ proc[w].pc \in {"ask", "repair"}
    /\ Local(w, Ends(proc[w], "retry"))

\* parse_brain_action accepts the first answer, or the one of the single repair call, which
\* has what is left of the same deadline.
Responds(w, a) ==
    /\ proc[w].pc \in {"ask", "repair"}
    /\ proc[w].pc = "repair" => ~proc[w].late
    /\ Local(w, [proc[w] EXCEPT !.pc = "answer", !.resp = a])

InvalidResponse(w) ==
    /\ proc[w].pc = "ask"
    /\ Local(w, [proc[w] EXCEPT !.pc = "repair"])

NextTurn(p) ==
    [p EXCEPT !.pc = "start", !.resp = "none",
              !.turn = IF @ <= MaxTurns THEN @ + 1 ELSE @]

\* Nothing is done with an answer when the claim is gone or the time is up.
Discard(w) ==
    /\ proc[w].pc = "answer"
    /\ ~ClaimHolds(w) \/ proc[w].late
    /\ Yields(w)

Acts(w, a) ==
    /\ proc[w].pc = "answer"
    /\ proc[w].resp = a
    /\ ClaimHolds(w)
    /\ ~proc[w].late

\* _finish_blocker finds unfinished work and tells the model, or the Run has succeeded.
Finish(w) ==
    /\ Acts(w, "finish")
    /\ \/ Local(w, NextTurn(proc[w]))
       \/ Local(w, Ends(proc[w], "succeeded"))

FailOrYield(w) ==
    \/ Acts(w, "fail") /\ Local(w, Ends(proc[w], "failed"))
    \/ Acts(w, "yield") /\ Yields(w)

Delegate(w) ==
    /\ Acts(w, "delegate")
    /\ \E kind \in {"waiting", "failed", "yielded"} : Local(w, Ends(proc[w], kind))

\* Unknown tool, ambiguous execution, lost claim, approval required.
ToolStops(w) ==
    /\ Acts(w, "tool")
    /\ \E kind \in {"retry", "failed", "yielded", "waiting"} : Local(w, Ends(proc[w], kind))

InvalidToolInput(w) ==
    /\ Acts(w, "tool")
    /\ Local(w, NextTurn(proc[w]))

Counted(p) ==
    LET q == [p EXCEPT !.calls = @ + 1]
    IN IF q.calls >= MaxTools THEN Ends(q, "yielded") ELSE NextTurn(q)

ToolReturns(w) ==
    /\ Acts(w, "tool")
    /\ Local(w, Counted(proc[w]))

\* A successful memory.create_note or memory.append_managed_note asks for a refresh.
AfterWrite_Stale(p) == p
AfterWrite(p) == [p EXCEPT !.needed = p.available, !.refresh = p.available]

MemoryWrite(w) ==
    /\ Acts(w, "tool")
    /\ vault < MaxWrites
    /\ vault' = vault + 1
    /\ Put(w, Counted(AfterWrite([proc[w] EXCEPT !.wrote = vault + 1])))
    /\ UNCHANGED <<run, holder, objective>>

-----------------------------------------------------------------------------
\* WorkerLoop.run_once applies an outcome under the exact claim; after a lease that the
\* heartbeat saw lost it applies nothing.  A retry is another attempt of the same work.
Applied(kind) ==
    CASE kind \in {"succeeded", "failed"} -> "ended"
      [] kind = "waiting" -> "waiting"
      [] OTHER -> "live"

ApplyOutcome(w) ==
    /\ proc[w].pc = "outcome"
    /\ IF ClaimHolds(w) THEN run' = Applied(proc[w].outcome) /\ holder' = Nobody
       ELSE UNCHANGED <<run, holder>>
    /\ Put(w, Idle)
    /\ UNCHANGED <<objective, vault>>

LeaseLapses ==
    /\ holder # Nobody
    /\ holder' = Nobody
    /\ UNCHANGED <<run, objective, vault, proc>>

HeartbeatSees(w) ==
    /\ proc[w].pc # "idle"
    /\ holder # w
    /\ ~proc[w].lost
    /\ Local(w, [proc[w] EXCEPT !.lost = TRUE])

DeadlinePasses(w) ==
    /\ proc[w].pc # "idle"
    /\ ~proc[w].late
    /\ Local(w, [proc[w] EXCEPT !.late = TRUE])

\* An approval is resolved, a delegated child ends, the Run is cancelled, the Task edited.
Resumes ==
    /\ run = "waiting"
    /\ run' = "live"
    /\ UNCHANGED <<holder, objective, vault, proc>>

Cancelled ==
    /\ run # "ended"
    /\ run' = "ended"
    /\ holder' = Nobody
    /\ UNCHANGED <<objective, vault, proc>>

EditTask ==
    /\ objective < MaxEdits
    /\ objective' = objective + 1
    /\ UNCHANGED <<run, holder, vault, proc>>

Step(w) ==
    \/ StartTurn(w)
    \/ LoadSnapshot(w)
    \/ RetrieveMemory(w)
    \/ RecordMemoryEvents(w)
    \/ Render(w)
    \/ BrainFails(w)
    \/ \E a \in Actions : Responds(w, a)
    \/ InvalidResponse(w)
    \/ Discard(w)
    \/ Finish(w)
    \/ FailOrYield(w)
    \/ Delegate(w)
    \/ ToolStops(w)
    \/ InvalidToolInput(w)
    \/ ToolReturns(w)
    \/ MemoryWrite(w)
    \/ ApplyOutcome(w)

Next ==
    \/ \E w \in Workers : Claim(w) \/ Step(w) \/ HeartbeatSees(w) \/ DeadlinePasses(w)
    \/ LeaseLapses
    \/ Resumes
    \/ Cancelled
    \/ EditTask

Spec == Init /\ [][Next]_vars

\* process() runs in its worker's thread, and the model process is killed at its timeout.
Fairness == \A w \in Workers : WF_vars(Step(w))

-----------------------------------------------------------------------------
\* A claim retrieves memory at most twice, and until it has used its one refresh the model
\* is asked with memory that includes every note this claim has written and that was
\* searched for the objective the model is shown.
MemoryFollows ==
    \A w \in Workers :
        /\ proc[w].retrievals <= 2
        /\ proc[w].pc = "ask" /\ proc[w].mem.ok /\ proc[w].available =>
              proc[w].mem.version >= proc[w].wrote /\ proc[w].mem.query = proc[w].prev

\* A claim comes to an outcome whatever the model answers, also when its finishes are
\* rejected or its tool inputs invalid forever.
ProcessingEnds == \A w \in Workers : proc[w].pc = "start" ~> proc[w].pc = "idle"
=============================================================================
