---------------------------- MODULE StdioSession ----------------------------
(* One JSON-RPC session over the pipes of a child process, and the two clients that sit on it:          *)
(* McpStdioClient behind McpToolGateway (ClosesOnError), and McpStdioTransport behind the computer-use  *)
(* driver, which keeps its session after a failed call. A message carries the number of the call it     *)
(* answers beside its JSON-RPC id: ids start again with every session, call numbers do not.             *)
EXTENDS Naturals, Sequences

CONSTANTS ClosesOnError,   \* TRUE: McpStdioClient; FALSE: McpStdioTransport
          MaxCalls,        \* bound on the requests made, handshakes included
          MaxPending,      \* max_pending_messages
          MaxIgnored,      \* MAX_IGNORED_MESSAGES_PER_REQUEST
          MaxNoise         \* bound on the lines a child sends unasked

VARIABLES client,    \* the client: fresh, starting (in the handshake), ready, closing, closed
          session,   \* next id, the bounded queue of lines, the flood mark, whether the pump still reads
          child,     \* the leader, the rest of its group, a half-written line, the calls it has read and run
          call,      \* the request in progress
          outcome,   \* what the gateway reported of each call
          got,       \* the call whose answer was returned for each call
          ran,       \* the calls the child has carried out
          noise      \* how often the child has spoken unasked

vars == <<client, session, child, call, outcome, got, ran, noise>>

Calls == 1..MaxCalls
Kinds == {"handshake", "read", "write"}
Line == [kind : {"answer", "error", "note", "bad", "eof"}, id : 0..MaxCalls, of : 0..MaxCalls]
Unasked(kind) == [kind |-> kind, id |-> 0, of |-> 0]
Entry == [id : Calls, of : Calls, kind : Kinds]
NoCall == [n |-> 0, id |-> 0, kind |-> "handshake", stage |-> "idle", ignored |-> 0]
NoSession == [next |-> 0, lines |-> <<>>, flooded |-> FALSE, pump |-> FALSE]
NoChild == [leader |-> FALSE, group |-> FALSE, half |-> FALSE, todo |-> {}, done |-> {}]

TypeOK ==
  /\ client \in {"fresh", "starting", "ready", "closing", "closed"}
  /\ session \in [next : 0..MaxCalls, lines : Seq(Line), flooded : BOOLEAN, pump : BOOLEAN]
  /\ Len(session.lines) <= MaxPending
  /\ child \in [leader : BOOLEAN, group : BOOLEAN, half : BOOLEAN,
                todo : SUBSET Entry, done : SUBSET Entry]
  /\ call \in [n : 0..MaxCalls, id : 0..MaxCalls, kind : Kinds,
               stage : {"idle", "write", "wait", "failed"}, ignored : 0..MaxIgnored]
  /\ outcome \in [Calls -> {"none", "succeeded", "failed", "ambiguous"}]
  /\ got \in [Calls -> 0..MaxCalls]
  /\ ran \subseteq Calls
  /\ noise \in 0..MaxNoise

Init ==
  /\ client = "fresh" /\ session = NoSession /\ child = NoChild /\ call = NoCall
  /\ outcome = [n \in Calls |-> "none"] /\ got = [n \in Calls |-> 0] /\ ran = {} /\ noise = 0

Used == IF call.n = 0 THEN {n \in Calls : outcome[n] # "none"} ELSE 1..call.n
NextCall == IF Used = {} THEN 1 ELSE 1 + CHOOSE n \in Used : \A k \in Used : k <= n

(* request: the id is the session's own counter; everything up to the answer is under _request_lock. *)
Begin(kind, next) ==
  /\ NextCall \in Calls
  /\ call' = [n |-> NextCall, id |-> next + 1, kind |-> kind, stage |-> "write", ignored |-> 0]

(* start: a new session object, an empty queue and a new child in a group of its own; then the          *)
(* handshake. A child that cannot be spawned ends the MCP client for good.                              *)
Start ==
  /\ client = "fresh" /\ call.stage = "idle"
  /\ Begin("handshake", 0)
  /\ client' = "starting"
  /\ session' = [next |-> 1, lines |-> <<>>, flooded |-> FALSE, pump |-> TRUE]
  /\ child' = [leader |-> TRUE, group |-> TRUE, half |-> FALSE, todo |-> {}, done |-> {}]
  /\ UNCHANGED <<outcome, got, ran, noise>>

SpawnFails ==
  /\ client = "fresh" /\ call.stage = "idle"
  /\ client' = IF ClosesOnError THEN "closed" ELSE "fresh"
  /\ UNCHANGED <<session, child, call, outcome, got, ran, noise>>

CallTool(kind) ==
  /\ client = "ready" /\ call.stage = "idle"
  /\ Begin(kind, session.next)
  /\ session' = [session EXCEPT !.next = @ + 1]
  /\ UNCHANGED <<client, child, outcome, got, ran, noise>>

(* What the gateways make of an error. McpToolGateway does not call a mutating operation failed once it *)
(* may have been dispatched; ComputerToolGateway reports a failure that is never retried.               *)
Reported(kind) == IF ClosesOnError /\ kind = "write" THEN "ambiguous" ELSE "failed"

(* _request of the two clients, on any StdioSessionError: the MCP client closes the session first; the  *)
(* transport closes it only inside start and otherwise keeps it.                                        *)
Raise_Kept ==
  /\ outcome' = [outcome EXCEPT ![call.n] = Reported(call.kind)]
  /\ call' = NoCall
  /\ UNCHANGED client

Raise ==
  IF ClosesOnError \/ client = "starting"
    THEN /\ client' = "closing"
         /\ call' = [call EXCEPT !.stage = "failed"]
         /\ UNCHANGED outcome
    ELSE Raise_Kept

(* close, first half: the handle is dropped, the pipes are closed, the group is sent SIGTERM. What the  *)
(* group does with it is its own affair; the leader may go and leave a descendant.                      *)
Terminated ==
  /\ client = "closing"
  /\ child.leader
  /\ child' = [child EXCEPT !.leader = FALSE]
  /\ UNCHANGED <<client, session, call, outcome, got, ran, noise>>

(* close, second half: whatever is left of the recorded group is killed, and the child is reaped. Only  *)
(* then does the error reach the caller.                                                                *)
AfterClose == IF ClosesOnError THEN "closed" ELSE "fresh"

CloseGroup_LeaderOnly == IF child.leader THEN NoChild ELSE child

CloseGroup == NoChild

Killed ==
  /\ client = "closing"
  /\ child' = CloseGroup
  /\ session' = NoSession
  /\ client' = AfterClose
  /\ outcome' = IF call.n = 0 THEN outcome ELSE [outcome EXCEPT ![call.n] = Reported(call.kind)]
  /\ call' = NoCall
  /\ UNCHANGED <<got, ran, noise>>

(* close called from outside: the worker shuts its gateways down. *)
Close ==
  /\ client = "ready" /\ call.stage = "idle"
  /\ client' = "closing"
  /\ UNCHANGED <<session, child, call, outcome, got, ran, noise>>

-----------------------------------------------------------------------------
(* _write: not blocking, against the deadline. A line may get out whole, in part, or not at all.        *)
Pending == [id |-> call.id, of |-> call.n, kind |-> call.kind]

WriteAll ==
  /\ call.stage = "write" /\ child.group
  /\ child' = [child EXCEPT !.half = FALSE,
                            !.todo = IF child.half THEN @ ELSE @ \union {Pending}]
  /\ call' = [call EXCEPT !.stage = "wait"]
  /\ UNCHANGED <<client, session, outcome, got, ran, noise>>

WriteTimesOut(half) ==
  /\ call.stage = "write" /\ child.group
  /\ child' = [child EXCEPT !.half = half \/ @]
  /\ Raise
  /\ UNCHANGED <<session, got, ran, noise>>

WriteBroken ==
  /\ call.stage = "write" /\ ~child.leader
  /\ Raise
  /\ UNCHANGED <<session, child, got, ran, noise>>

-----------------------------------------------------------------------------
(* _await_response: flood, cancellation and deadline are looked at before each line. *)
Flooded ==
  /\ call.stage = "wait" /\ session.flooded
  /\ Raise
  /\ UNCHANGED <<session, child, got, ran, noise>>

(* The cancellation notification is one more line; it can only be cut short in a session that is closed *)
(* right after it.                                                                                      *)
DeadlineOrCancel ==
  /\ call.stage = "wait" /\ ~session.flooded
  /\ Raise
  /\ UNCHANGED <<session, child, got, ran, noise>>

Matches_Any(line) == TRUE

Matches(line) == line.id = call.id

TakeLine ==
  /\ call.stage = "wait" /\ ~session.flooded /\ session.lines # <<>>
  /\ LET line == Head(session.lines) IN
     /\ session' = [session EXCEPT !.lines = Tail(@)]
     /\ \/ /\ line.kind \in {"eof", "bad"}
           /\ Raise /\ UNCHANGED got
        \/ /\ line.kind = "note" \/ (line.kind \in {"answer", "error"} /\ ~Matches(line))
           /\ IF call.ignored = MaxIgnored
                THEN Raise
                ELSE /\ call' = [call EXCEPT !.ignored = @ + 1]
                     /\ UNCHANGED <<client, outcome>>
           /\ UNCHANGED got
        \/ /\ line.kind = "error" /\ Matches(line)
           /\ Raise /\ UNCHANGED got
        \/ /\ line.kind = "answer" /\ Matches(line)
           /\ got' = [got EXCEPT ![call.n] = line.of]
           /\ outcome' = [outcome EXCEPT ![call.n] = "succeeded"]
           /\ client' = "ready"
           /\ call' = NoCall
  /\ UNCHANGED <<child, ran, noise>>

-----------------------------------------------------------------------------
(* The child, and the thread that pumps its output. A line that finds the queue full marks the flood    *)
(* and kills the group; a line without an end, or the end of the stream, ends the pump and leaves the   *)
(* end mark, if there is room for it.                                                                   *)
OnFlood ==
  /\ session' = [session EXCEPT !.flooded = TRUE, !.pump = FALSE]
  /\ child' = [child EXCEPT !.leader = FALSE, !.group = FALSE, !.todo = {}, !.done = {}]

PumpStdout(line, childAfter) ==
  IF Len(session.lines) = MaxPending
    THEN OnFlood
    ELSE /\ session' = [session EXCEPT !.lines = Append(@, line)]
         /\ child' = childAfter

Runs(e) ==
  /\ child.group /\ e \in child.todo
  /\ child' = [child EXCEPT !.todo = @ \ {e}, !.done = @ \union {e}]
  /\ ran' = ran \union {e.of}
  /\ UNCHANGED <<client, session, call, outcome, got, noise>>

Answers(e, kind) ==
  /\ child.group /\ session.pump /\ client # "closing" /\ e \in child.done
  /\ PumpStdout([kind |-> kind, id |-> e.id, of |-> e.of], [child EXCEPT !.done = @ \ {e}])
  /\ UNCHANGED <<client, call, outcome, got, ran, noise>>

Speaks(kind) ==
  /\ child.group /\ session.pump /\ client # "closing" /\ noise < MaxNoise
  /\ noise' = noise + 1
  /\ PumpStdout(Unasked(kind), child)
  /\ UNCHANGED <<client, call, outcome, got, ran>>

\* Mutant: the end mark goes into a full queue as well.
EndOfStream_Unbounded ==
  /\ session.pump /\ client # "closing"
  /\ session' = [session EXCEPT !.pump = FALSE, !.lines = Append(@, Unasked("eof"))]
  /\ UNCHANGED <<client, child, call, outcome, got, ran, noise>>

EndOfStream ==
  /\ session.pump /\ client # "closing"
  /\ session' = [session EXCEPT !.pump = FALSE,
                   !.lines = IF Len(@) < MaxPending THEN Append(@, Unasked("eof")) ELSE @]
  /\ UNCHANGED <<client, child, call, outcome, got, ran, noise>>

(* The leader exits by itself. A descendant may stay behind in the group. *)
ChildExits(survivor) ==
  /\ child.leader
  /\ child' = [child EXCEPT !.leader = FALSE, !.group = survivor,
                            !.todo = IF survivor THEN @ ELSE {},
                            !.done = IF survivor THEN @ ELSE {}]
  /\ UNCHANGED <<client, session, call, outcome, got, ran, noise>>

Child ==
  \/ \E e \in child.todo : Runs(e)
  \/ \E e \in child.done : \E kind \in {"answer", "error"} : Answers(e, kind)
  \/ \E kind \in {"note", "bad"} : Speaks(kind)
  \/ EndOfStream
  \/ \E survivor \in BOOLEAN : ChildExits(survivor)

Caller ==
  \/ Start \/ SpawnFails \/ Close \/ Terminated \/ Killed
  \/ \E kind \in {"read", "write"} : CallTool(kind)
  \/ WriteAll \/ WriteBroken
  \/ \E half \in BOOLEAN : WriteTimesOut(half)
  \/ Flooded \/ DeadlineOrCancel \/ TakeLine

Next == Caller \/ Child

Spec == Init /\ [][Next]_vars

-----------------------------------------------------------------------------
(* The result a caller gets is the answer to the request it made: late answers of earlier requests,     *)
(* half-written lines and a new session whose ids start again never put another call's answer in its    *)
(* place (_await_response; the queue that start replaces).                                              *)
AnswersMatch == \A n \in Calls : outcome[n] = "succeeded" => got[n] = n /\ n \in ran

(* Once a client has let go of its session no member of the child's process group is left, whatever     *)
(* exited first ("Transactional start … leaves no child at all"; close signals the recorded group even  *)
(* when the leader is gone). With a client that closes on error this also means that a call it has      *)
(* reported never starts to run afterwards.                                                             *)
ClosesCleanly ==
  /\ client' \in {"fresh", "closed"} => ~child'.group
  /\ ClosesOnError => \A n \in ran' \ ran : outcome[n] = "none"
=============================================================================
