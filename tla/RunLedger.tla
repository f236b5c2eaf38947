------------------------------ MODULE RunLedger -----------------------------
(* The steps, artifacts and events of one Run, and the clients that watch them: sessions read and then  *)
(* write in one transaction each; the API streams committed events and the browser merges the stream    *)
(* with the pages it polls. A step is its status, at its position; an event is its sequence number and  *)
(* what it is about.                                                                                    *)
EXTENDS Naturals, Sequences, FiniteSets, SequencesExt, FiniteSetsExt

CONSTANTS Sessions,     \* commands in flight
          Watchers,     \* browser pages that follow the Run
          Artifacts,    \* artifact ids supplied by callers
          Contents,     \* what an artifact may record
          PageSize,     \* events per page of the stream and of the listing
          MaxSteps, MaxEvents, MaxDrops

VARIABLES run, steps, arts, next, log, sess, watch, drops

tables == <<run, steps, arts, next, log>>
vars == <<run, steps, arts, next, log, sess, watch, drops>>

StepStatus == {"pending", "running", "waiting", "succeeded", "failed", "skipped", "cancelled"}
TerminalStep == {"succeeded", "failed", "skipped", "cancelled"}
RunStatus == {"queued", "running", "succeeded", "cancelled"}

(* RunStep's transitions, by command. *)
StepOps ==
  [start |-> [from |-> {"pending"}, to |-> "running"],
   complete |-> [from |-> {"running"}, to |-> "succeeded"],
   fail |-> [from |-> {"running"}, to |-> "failed"],
   skip |-> [from |-> {"pending"}, to |-> "skipped"],
   cancelStep |-> [from |-> {"pending", "running", "waiting"}, to |-> "cancelled"],
   await |-> [from |-> {"running"}, to |-> "waiting"],
   resume |-> [from |-> {"waiting"}, to |-> "running"]]

(* An event: about the Run (0), a step (its position) or an artifact (MaxSteps + 1). *)
Event == [seq : 1..MaxEvents, about : 0..MaxSteps + 1, to : StepStatus \union RunStatus \union {"recorded"}]

Idle == [op |-> "none", at |-> 0, seq |-> 0, art |-> {}]
Fresh == [up |-> FALSE, server |-> 0, wire |-> <<>>, last |-> 0, seen |-> {}, cursor |-> 0, page |-> {}]

TypeOK ==
  /\ run \in RunStatus
  /\ Len(steps) <= MaxSteps /\ \A i \in DOMAIN steps : steps[i] \in StepStatus
  /\ \A a \in Artifacts : arts[a] \subseteq Contents /\ Cardinality(arts[a]) <= 1
  /\ next \in 1..MaxEvents + 1 /\ log \subseteq Event
  /\ \A s \in Sessions : sess[s].op \in DOMAIN StepOps \union {"none", "create", "record", "startRun",
                                                               "complete run", "cancelRun"}
  /\ \A w \in Watchers : watch[w].seen \subseteq log
  /\ drops \in 0..MaxDrops

Init ==
  /\ run = "queued" /\ steps = <<>> /\ arts = [a \in Artifacts |-> {}]
  /\ next = 1 /\ log = {} /\ drops = 0
  /\ sess = [s \in Sessions |-> Idle] /\ watch = [w \in Watchers |-> Fresh]

-----------------------------------------------------------------------------
(* reserve_sequences: the counter is incremented under the write lock of the transaction that appends.  *)
(* Mutant: the number was read with the rest. *)
ReserveSequences_Read(s) == sess[s].seq

ReserveSequences(s) == next

AppendRunEvents(s, specs) ==
  /\ next + Len(specs) <= MaxEvents + 1
  /\ next' = next + Len(specs)
  /\ log' = log \union {[seq |-> ReserveSequences(s) + i - 1, about |-> specs[i][1], to |-> specs[i][2]] :
                        i \in DOMAIN specs}

Begins(s, op, at, art) ==
  /\ sess[s] = Idle
  /\ sess' = [sess EXCEPT ![s] = [op |-> op, at |-> at, seq |-> next, art |-> art]]
  /\ UNCHANGED <<tables, watch, drops>>

At(s, op) == sess[s].op = op
Ends(s) == sess' = [sess EXCEPT ![s] = Idle] /\ UNCHANGED <<watch, drops>>

(* CreateOrderedStep: the position after the last one read; the unique constraint decides. *)
LoadCreateStep(s) ==
  /\ run \in {"queued", "running"} /\ Len(steps) < MaxSteps
  /\ Begins(s, "create", Len(steps) + 1, {})

(* Mutant: without the unique constraint. *)
CreateOrderedStep_Twice(s) ==
  /\ At(s, "create")
  /\ steps' = Append(steps, "pending")
  /\ AppendRunEvents(s, <<<<sess[s].at, "pending">>>>)
  /\ UNCHANGED <<run, arts>>
  /\ Ends(s)

CreateOrderedStep(s) ==
  /\ At(s, "create")
  /\ IF Len(steps) >= sess[s].at
       THEN UNCHANGED tables
       ELSE /\ steps' = Append(steps, "pending")
            /\ AppendRunEvents(s, <<<<sess[s].at, "pending">>>>)
            /\ UNCHANGED <<run, arts>>
  /\ Ends(s)

(* The step commands and the approval workflow's two: a transition of the step as it was read. *)
LoadStep(s, op, i) ==
  /\ steps[i] \in StepOps[op].from
  /\ op = "start" => run = "running"
  /\ Begins(s, op, i, {})

SaveStep(s) ==
  /\ sess[s].op \in DOMAIN StepOps
  /\ steps' = [steps EXCEPT ![sess[s].at] = StepOps[sess[s].op].to]
  /\ AppendRunEvents(s, <<<<sess[s].at, StepOps[sess[s].op].to>>>>)
  /\ UNCHANGED <<run, arts>>
  /\ Ends(s)

(* RecordArtifact: an artifact is its id; a replay with other content is a conflict. *)
LoadArtifact(s, a, c) ==
  /\ run = "running" /\ arts[a] = {}
  /\ Begins(s, "record", a, {c})

RecordArtifact(s) ==
  /\ At(s, "record")
  /\ IF arts[sess[s].at] # {}
       THEN UNCHANGED tables
       ELSE /\ arts' = [arts EXCEPT ![sess[s].at] = sess[s].art]
            /\ AppendRunEvents(s, <<<<MaxSteps + 1, "recorded">>>>)
            /\ UNCHANGED <<run, steps>>
  /\ Ends(s)

LoadRun(s, op) ==
  /\ \/ op = "startRun" /\ run = "queued"
     \/ op = "complete run" /\ run = "running" /\ \A i \in DOMAIN steps : steps[i] \in TerminalStep
     \/ op = "cancelRun" /\ run \in {"queued", "running"}
  /\ Begins(s, op, 0, {})

StartRun(s) ==
  /\ At(s, "startRun")
  /\ run' = "running" /\ AppendRunEvents(s, <<<<0, "running">>>>)
  /\ UNCHANGED <<steps, arts>> /\ Ends(s)

CompleteRun(s) ==
  /\ At(s, "complete run")
  /\ run' = "succeeded" /\ AppendRunEvents(s, <<<<0, "succeeded">>>>)
  /\ UNCHANGED <<steps, arts>> /\ Ends(s)

(* _cancel_run: the steps are read after the Run is saved, under the write lock. *)
OpenSteps == {i \in DOMAIN steps : steps[i] \notin TerminalStep}

CancelledEvents_Running == [i \in DOMAIN SetToSortSeq(OpenSteps, <) |->
                              <<SetToSortSeq(OpenSteps, <)[i], "running">>]

CancelledEvents == [i \in DOMAIN SetToSortSeq(OpenSteps, <) |->
                      <<SetToSortSeq(OpenSteps, <)[i], "cancelled">>]

CancelRun(s) ==
  /\ At(s, "cancelRun")
  /\ run' = "cancelled"
  /\ steps' = [i \in DOMAIN steps |-> IF i \in OpenSteps THEN "cancelled" ELSE steps[i]]
  /\ AppendRunEvents(s, <<<<0, "cancelled">>>> \o CancelledEvents)
  /\ UNCHANGED arts /\ Ends(s)

-----------------------------------------------------------------------------
(* list_after_sequence: one page, in its own read. *)
ListAfter(after) ==
  LET later == SetToSortSeq({e \in log : e.seq > after}, LAMBDA d, e : d.seq < e.seq)
  IN SubSeq(later, 1, IF Len(later) < PageSize THEN Len(later) ELSE PageSize)

Watch(w, record) == watch' = [watch EXCEPT ![w] = record] /\ UNCHANGED <<tables, sess>>

(* EventSource connects, and after a failure reconnects with the id it received last. *)
Connect(w) ==
  /\ ~watch[w].up
  /\ Watch(w, [watch[w] EXCEPT !.up = TRUE, !.server = watch[w].last, !.wire = <<>>])
  /\ UNCHANGED drops

(* _run_event_stream: a poll reads a page and sends what is newer than the last event it sent. *)
StreamPoll(w) ==
  /\ watch[w].up /\ watch[w].wire = <<>>
  /\ LET page == ListAfter(watch[w].server)
     IN /\ page # <<>>
        /\ Watch(w, [watch[w] EXCEPT !.wire = page, !.server = page[Len(page)].seq])
  /\ UNCHANGED drops

Receive(w) ==
  /\ watch[w].up /\ watch[w].wire # <<>>
  /\ LET e == watch[w].wire[1]
     IN Watch(w, [watch[w] EXCEPT !.wire = Tail(@), !.last = e.seq, !.seen = @ \union {e}])
  /\ UNCHANGED drops

Disconnect(w) ==
  /\ watch[w].up /\ drops < MaxDrops
  /\ drops' = drops + 1
  /\ Watch(w, [watch[w] EXCEPT !.up = FALSE, !.wire = <<>>])

(* useRunEventStream's backfill: every page is fetched before the pages are merged into what is shown.  *)
Backfill(w) ==
  /\ LET page == ListAfter(watch[w].cursor)
     IN IF Len(page) < PageSize
          THEN Watch(w, [watch[w] EXCEPT !.seen = @ \union watch[w].page \union ToSet(page),
                                         !.cursor = 0, !.page = {}])
          ELSE Watch(w, [watch[w] EXCEPT !.cursor = page[Len(page)].seq, !.page = @ \union ToSet(page)])
  /\ UNCHANGED drops

Command(s) ==
  \/ LoadCreateStep(s) \/ CreateOrderedStep(s) \/ SaveStep(s) \/ RecordArtifact(s)
  \/ \E op \in DOMAIN StepOps, i \in DOMAIN steps : LoadStep(s, op, i)
  \/ \E a \in Artifacts, c \in Contents : LoadArtifact(s, a, c)
  \/ \E op \in {"startRun", "complete run", "cancelRun"} : LoadRun(s, op)
  \/ StartRun(s) \/ CompleteRun(s) \/ CancelRun(s)

Watching(w) == Connect(w) \/ StreamPoll(w) \/ Receive(w) \/ Backfill(w)

Next ==
  \/ \E s \in Sessions : Command(s)
  \/ \E w \in Watchers : Watching(w) \/ Disconnect(w)

Spec == Init /\ [][Next]_vars

-----------------------------------------------------------------------------
(* A page that follows the Run has every event up to the last one it was given, over reconnections and   *)
(* pages of the listing, and once it has them all they tell what each step is now, whichever stale       *)
(* command wrote last (every save appends its event, under a sequence reserved in its own transaction).  *)
StreamTellsState ==
  \A w \in Watchers :
    LET seen == watch[w].seen IN
    /\ \A e \in log : e.seq <= watch[w].last => e \in seen
    /\ watch[w].last = next - 1 =>
         \A i \in DOMAIN steps :
           \E e \in seen : e.about = i /\ e.to = steps[i] /\ \A f \in seen : f.about = i => f.seq <= e.seq
=============================================================================
