----------------------------- MODULE Schedules -----------------------------
(***************************************************************************)
(* One schedule of a Task: the operator who creates, pauses, resumes and   *)
(* cancels it or ends its Task, and the workers' maintenance ticks that    *)
(* turn due occurrences into Runs (MaterializeDueSchedules).               *)
(*                                                                         *)
(* A transaction reads, decides and takes the write lock with its first    *)
(* statement that writes; save() puts back the whole row as it was read.   *)
(* A fire is named by its occurrence, which the table keeps unique.  What  *)
(* becomes of the answers of its Runs is in ScheduledAnswers.              *)
(***************************************************************************)
EXTENDS Naturals, FiniteSets

CONSTANTS
  Horizon,      \* the instants 1 .. Horizon are looked at
  Cron,         \* those the cron expression matches
  Workers,      \* worker processes
  Sessions      \* API requests that can be open at once

Times == 1 .. Horizon
Never == 0                 \* next_fire_at IS NULL
Later == Horizon + 1       \* the next occurrence is not looked at any more

ControlOps == {"pause", "resume", "cancel"}
TaskOps == {"cancelTask", "completeTask", "failTask"}

VARIABLES
  now,     \* the clock
  task,    \* status of the Task
  sch,     \* the row of schedules
  fire,    \* schedule_fires by occurrence: what became of the execution
  worker,  \* where each worker stands, and what it has read
  sess,    \* the command each session has loaded, and what it will save
  crossed  \* history: a resume or a retry by hand cut into a materialization

tables == <<task, sch, fire>>
vars == <<now, tables, worker, sess, crossed>>

\* TERMINAL_SCHEDULE_STATUSES.
Final == {"completed", "cancelled"}

\* ck_schedules_status_next_fire: active has a next_fire_at, a terminal row none.
ScheduleRow ==
  {r \in [status : {"none", "active", "paused"} \cup Final,
          kind : {"once", "cron"}, at : 0 .. Horizon, next : 0 .. Later] :
     /\ r.status = "active" => r.next # Never
     /\ r.status \in Final \cup {"none"} => r.next = Never}

\* uq_schedule_fires_occurrence; the execution is live while any Run of it is,
\* and again once it is retried by hand, which is looked at once.
FireRow == {"none", "live", "again", "failed", "over"}
Live == {"live", "again"}

NoSchedule == [status |-> "none", kind |-> "cron", at |-> 0, next |-> Never]
Idle == [pc |-> "idle", row |-> NoSchedule, at |-> 0, pending |-> FALSE]
Closed == [op |-> "none", row |-> NoSchedule]

TypeOK ==
  /\ now \in 0 .. Horizon
  /\ task \in {"pending", "active", "ended"}
  /\ sch \in ScheduleRow
  /\ fire \in [Times -> FireRow]
  /\ worker \in [Workers ->
       [pc : {"idle", "listed", "firing", "completing"}, row : ScheduleRow, at : 0 .. Horizon, pending : BOOLEAN]]
  /\ sess \in [Sessions -> [op : ControlOps \cup TaskOps \cup {"none"}, row : ScheduleRow]]
  /\ crossed \in BOOLEAN

Init ==
  /\ now = 0
  /\ task = "pending"
  /\ sch = NoSchedule
  /\ fire = [t \in Times |-> "none"]
  /\ worker = [w \in Workers |-> Idle]
  /\ sess = [s \in Sessions |-> Closed]
  /\ crossed = FALSE

-----------------------------------------------------------------------------
(* Recurrence *)

\* _next_cron: the first match strictly after t.
NextCron(t) ==
  LET after == {c \in Cron : c > t} IN
  IF after = {} THEN Later ELSE CHOOSE c \in after : \A d \in after : c <= d

\* first_occurrence; a run_at that is not in the future is refused (Never).
FirstOccurrence(kind, at, t) ==
  IF kind = "cron" THEN NextCron(t) ELSE IF at > t THEN at ELSE Never

NextOccurrence(r, t) ==
  IF r.kind = "cron" THEN NextCron(t) ELSE IF r.at > t THEN r.at ELSE Never

\* Missed occurrences are skipped, not walked.
CoalescedNext(r, t) == IF r.kind = "once" THEN Never ELSE NextCron(t)

-----------------------------------------------------------------------------
(* The Schedule aggregate *)

New(kind, at, t) ==
  LET first == FirstOccurrence(kind, at, t) IN
  [status |-> IF first = Never THEN "completed" ELSE "active", kind |-> kind, at |-> at, next |-> first]

Pause(r) == [r EXCEPT !.status = "paused"]

Resume(r, next) ==
  [r EXCEPT !.status = IF next = Never THEN "completed" ELSE "active", !.next = next]

Cancel(r) == [r EXCEPT !.status = "cancelled", !.next = Never]

Complete(r) == [r EXCEPT !.status = "completed", !.next = Never]

\* Whatever the status was.
AdvanceAfterFire(r, next) ==
  [r EXCEPT !.status = IF next = Never THEN "completed" ELSE "active", !.next = next]

-----------------------------------------------------------------------------
(* The clock, and the executions of the fires *)

Tick ==
  /\ now < Horizon
  /\ now' = now + 1
  /\ UNCHANGED <<tables, worker, sess, crossed>>

\* has_non_terminal_execution_for_schedule.
Overlaps == \E t \in Times : fire[t] \in Live

Firing == \E w \in Workers : worker[w].pc = "firing"

\* Its last Run is settled, automatic retries included.
ExecutionEnds(t) ==
  /\ \/ fire[t] = "live" /\ fire' = [fire EXCEPT ![t] = "failed"]
     \/ fire[t] \in Live /\ fire' = [fire EXCEPT ![t] = "over"]
  /\ UNCHANGED <<now, task, sch, worker, sess, crossed>>

\* RetryFailedRun.
RetryByHand(t) ==
  /\ fire[t] = "failed" /\ task = "active"
  /\ fire' = [fire EXCEPT ![t] = "again"]
  /\ crossed' = (crossed \/ Overlaps \/ Firing)
  /\ UNCHANGED <<now, task, sch, worker, sess>>

-----------------------------------------------------------------------------
(* MaterializeDueSchedules *)

Goes(w, state) == worker' = [worker EXCEPT ![w] = state]

\* list_due.
Due(r, t) == r.status = "active" /\ r.next <= t

\* The ids come from a unit of work of their own.
ListDue(w) ==
  /\ worker[w].pc = "idle" /\ Due(sch, now)
  /\ Goes(w, [Idle EXCEPT !.pc = "listed"])
  /\ UNCHANGED <<now, tables, sess, crossed>>

\* Mutant: an execution that is still going on does not defer the next one.
LoadDue_Overlapping(w) ==
  /\ worker[w].pc = "listed"
  /\ Goes(w, IF ~Due(sch, now) THEN Idle
             ELSE [pc |-> IF task = "ended" THEN "completing" ELSE "firing",
                   row |-> sch, at |-> now, pending |-> task = "pending"])
  /\ UNCHANGED <<now, tables, sess, crossed>>

\* _materialize_one up to its first write: the occurrence stays due while an
\* execution of the schedule is still going on.
LoadDue(w) ==
  /\ worker[w].pc = "listed"
  /\ Goes(w, IF ~Due(sch, now) \/ (task # "ended" /\ Overlaps) THEN Idle
             ELSE [pc |-> IF task = "ended" THEN "completing" ELSE "firing",
                   row |-> sch, at |-> now, pending |-> task = "pending"])
  /\ UNCHANGED <<now, tables, sess, crossed>>

\* The schedule of an ended Task.
CompleteSchedule(w) ==
  /\ worker[w].pc = "completing"
  /\ sch' = Complete(worker[w].row)
  /\ Goes(w, Idle)
  /\ UNCHANGED <<now, task, fire, sess, crossed>>

\* StartRun.execute_in_uow, the fire and the schedule's next occurrence in one
\* transaction.  The schedule, and a Task that was pending, go back as they
\* were read.
Fire(w) ==
  /\ worker[w].pc = "firing" /\ fire[worker[w].row.next] = "none"
  /\ task' = IF worker[w].pending THEN "active" ELSE task
  /\ fire' = [fire EXCEPT ![worker[w].row.next] = "live"]
  /\ sch' = AdvanceAfterFire(worker[w].row, CoalescedNext(worker[w].row, worker[w].at))
  /\ Goes(w, Idle)
  /\ crossed' = (crossed \/ \E s \in Sessions : sess[s].op = "resume")
  /\ UNCHANGED <<now, sess>>

\* uq_schedule_fires_occurrence: EntityConflict, rolled back and swallowed.
FireConflict(w) ==
  /\ worker[w].pc = "firing" /\ fire[worker[w].row.next] # "none"
  /\ Goes(w, Idle)
  /\ UNCHANGED <<now, tables, sess, crossed>>

\* The process ends anywhere and is started again; open work is rolled back.
Crash(w) ==
  /\ worker[w].pc # "idle"
  /\ Goes(w, Idle)
  /\ UNCHANGED <<now, tables, sess, crossed>>

-----------------------------------------------------------------------------
(* The operator's commands: loaded and checked, then written *)

Open(s, op, row) == sess' = [sess EXCEPT ![s] = [op |-> op, row |-> row]]

\* CreateSchedule, which does not look at the status of the Task.
CreateSchedule(s) ==
  /\ sess[s] = Closed /\ sch.status = "none"
  /\ \E kind \in {"once", "cron"}, at \in 0 .. Horizon :
       /\ IF kind = "once" THEN at > now ELSE at = 0
       /\ sch' = New(kind, at, now)
  /\ UNCHANGED <<now, task, fire, worker, sess, crossed>>

\* ScheduleControl._change up to the save: the row as it will be written.
LoadControl(s) ==
  /\ sess[s] = Closed
  /\ \/ sch.status = "active" /\ Open(s, "pause", Pause(sch))
     \/ sch.status = "paused" /\ Open(s, "resume", Resume(sch, NextOccurrence(sch, now)))
     \/ sch.status \in {"active", "paused"} /\ Open(s, "cancel", Cancel(sch))
  /\ UNCHANGED <<now, tables, worker, crossed>>

SaveControl(s) ==
  /\ sess[s].op \in ControlOps
  /\ sch' = sess[s].row
  /\ sess' = [sess EXCEPT ![s] = Closed]
  /\ crossed' = (crossed \/ /\ sess[s].op = "resume"
                            /\ Firing \/ \E u \in Sessions \ {s} : sess[u].op = "resume")
  /\ UNCHANGED <<now, task, fire, worker>>

\* CancelTask, CompleteTask and FailTask up to their first write.
LoadTask(s) ==
  /\ sess[s] = Closed /\ task # "ended"
  /\ \/ Open(s, "cancelTask", NoSchedule)
     \/ Open(s, "failTask", NoSchedule)
     \/ task = "active" /\ ~Overlaps /\ Open(s, "completeTask", NoSchedule)
  /\ UNCHANGED <<now, tables, worker, crossed>>

\* complete_for_task: only rows that are active or paused.
CompleteForTask(r, cancelled) ==
  IF r.status \in {"active", "paused"} THEN (IF cancelled THEN Cancel(r) ELSE Complete(r)) ELSE r

\* CancelTask also cancels the Runs it finds under the lock.
EndTask(s) ==
  /\ sess[s].op \in TaskOps
  /\ task' = "ended"
  /\ sch' = CompleteForTask(sch, sess[s].op = "cancelTask")
  /\ fire' = [t \in Times |-> IF sess[s].op = "cancelTask" /\ fire[t] \in Live THEN "over" ELSE fire[t]]
  /\ sess' = [sess EXCEPT ![s] = Closed]
  /\ UNCHANGED <<now, worker, crossed>>

-----------------------------------------------------------------------------
MaterializeStep(w) == ListDue(w) \/ LoadDue(w) \/ CompleteSchedule(w) \/ Fire(w) \/ FireConflict(w)

CommandStep(s) ==
  CreateSchedule(s) \/ LoadControl(s) \/ SaveControl(s) \/ LoadTask(s) \/ EndTask(s)

Next ==
  \/ Tick
  \/ \E t \in Times : ExecutionEnds(t) \/ RetryByHand(t)
  \/ \E w \in Workers : MaterializeStep(w) \/ Crash(w)
  \/ \E s \in Sessions : CommandStep(s)

Spec == Init /\ [][Next]_vars

\* Executions end, and a worker keeps ticking: however often it is restarted,
\* each step of its tick gets through now and then.
Fairness ==
  /\ \A t \in Times : WF_vars(ExecutionEnds(t))
  /\ \A w \in Workers :
       /\ WF_vars(ListDue(w)) /\ SF_vars(LoadDue(w)) /\ SF_vars(Fire(w))
       /\ SF_vars(CompleteSchedule(w)) /\ SF_vars(FireConflict(w))

-----------------------------------------------------------------------------
(* Properties *)

\* Two executions of a schedule never overlap, unless a person retries one, or
\* resumes the schedule, in the middle of a materialization: the
\* materializers decide from rows read before the lock, and the unique
\* occurrence settles who was right (_materialize_one reads the schedule first
\* and the executions after it).
NoOverlap ==
  ~crossed => \A t, u \in Times : fire[t] \in Live /\ fire[u] \in Live => t = u

\* No transaction that read the schedule before it ended is still open.
Quiet ==
  /\ \A w \in Workers : worker[w].pc \notin {"firing", "completing"}
  /\ \A s \in Sessions : sess[s].op \notin ControlOps

\* A schedule that has ended stays ended, once the transactions that had read
\* it before are over (the checks _materialize_one and _change make on the row
\* they load, not on the listed one).
EndedStaysEnded == [][sch.status \in Final /\ Quiet => sch' = sch]_vars

\* A due occurrence is materialized, unless the schedule moves away from it or
\* stops: overlap only defers it, crashes and lost races do not lose it.
DueFires ==
  \A t \in Times :
    (sch.status = "active" /\ sch.next = t /\ fire[t] = "none" /\ now >= t) ~>
    (fire[t] # "none" \/ sch.status # "active" \/ sch.next # t)
=============================================================================
