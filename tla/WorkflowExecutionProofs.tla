----------------------- MODULE WorkflowExecutionProofs -----------------------
(***************************************************************************)
(* What WorkflowExecution guarantees for every graph and any number of     *)
(* workers, sessions and commands.  The reconcilers decide from rows that  *)
(* may be stale; the argument is that a row they read is only ever behind  *)
(* the table, and that update_status lets a decision through only where    *)
(* the row it was taken from is still current.                             *)
(***************************************************************************)
EXTENDS WorkflowExecution, TLAPS

\* How node rows age: b is a, or what a may have become since.
Behind(a, b) ==
  /\ a # "none" /\ b # "none"
  /\ a = b \/ a = "pending" \/ (a = "dispatched" /\ b \in Ended)

HasChild == {"dispatched"} \cup Ended

MadeInv == \A n \in Nodes : made[n] = IF node[n] \in HasChild THEN 1 ELSE 0

StartedInv == \A n \in Nodes : node[n] = "none" <=> exec = "none"

EndInv == exec \in Ended => exec = Outcome(node)

\* What a reconciler holds is behind the table.
SnapInv ==
  \A w \in Workers : pc[w] \in {"loaded", "checked"} =>
    exec # "none" /\ \A n \in Nodes : Behind(snap[w][n], node[n])

WorkflowInv == TypeOK /\ MadeInv /\ StartedInv /\ DependenciesRespected /\ EndInv /\ SnapInv

-----------------------------------------------------------------------------
(* The scheduler *)

\* Only pending nodes are blocked.
LEMMA BlockedArePending ==
  ASSUME NEW nd, NEW big PROVE \A n \in Blocked(nd, big) : nd[n] = "pending"
BY DEF Blocked

\* Scheduling moves pending nodes only, and dispatches the ready ones only.
LEMMA ScheduleMoves ==
  ASSUME NEW nd \in [Nodes -> NodeStatus \cup {"none"}], NEW new \in Schedules(nd)
  PROVE  /\ new \in [Nodes -> NodeStatus \cup {"none"}]
         /\ \A n \in Nodes : \/ new[n] = nd[n]
                             \/ nd[n] = "pending" /\ new[n] = "blocked"
                             \/ Ready(nd, n) /\ new[n] = "dispatched"
<1>1. PICK big : new = Scheduled(nd, big)
  BY DEF Schedules
<1>2. DEFINE blocked == Blocked(nd, big)
<1>3. new = [n \in Nodes |->
               IF n \in blocked THEN "blocked" ELSE IF Ready(nd, n) THEN "dispatched" ELSE nd[n]]
  BY <1>1 DEF Scheduled
<1>4. \A n \in blocked : nd[n] = "pending"
  BY BlockedArePending
<1> HIDE DEF blocked
<1>5. QED BY <1>3, <1>4 DEF NodeStatus

\* The reconciler marks dispatched nodes only, and only as ended.
LEMMA MarkedMoves ==
  ASSUME TypeOK, NEW w \in Workers
  PROVE  /\ Marked(w) \in [Nodes -> NodeStatus \cup {"none"}]
         /\ \A n \in Nodes : \/ Marked(w)[n] = snap[w][n]
                             \/ snap[w][n] = "dispatched" /\ Marked(w)[n] \in Ended
<1>1. snap[w] \in [Nodes -> NodeStatus \cup {"none"}]
  BY DEF TypeOK
<1>2. QED BY <1>1 DEF Marked, NodeStatus

\* An outcome other than running is one of the three, and all nodes are done.
LEMMA OutcomeEnds ==
  ASSUME NEW nd PROVE /\ Outcome(nd) \in {"running"} \cup Ended
                      /\ Outcome(nd) # "running" => \A n \in Nodes : nd[n] \in Done
<1> DEFINE S == {nd[n] : n \in Nodes}
<1>1. \/ Outcome(nd) = "running"
      \/ Outcome(nd) \in Ended /\ S \subseteq Done
  <2>1. CASE ~(S \subseteq Done)
    BY <2>1 DEF Outcome, Done, Ended
  <2>2. CASE S \subseteq Done
    BY <2>2 DEF Outcome, Done, Ended
  <2>3. QED BY <2>1, <2>2
<1>2. QED BY <1>1 DEF Ended

-----------------------------------------------------------------------------
(* Advance *)

\* Each node row a reconciler writes moves forward, from the status it was
\* read in or one that amounts to the same.
LEMMA AdvanceForward ==
  ASSUME WorkflowInv, NEW w \in Workers, pc[w] = "checked",
         NEW nd \in Schedules(Marked(w)),
         \A n \in Changed(w, nd) : Lands(node[n], nd[n]),
         node' = [n \in Nodes |-> IF n \in Changed(w, nd) THEN nd[n] ELSE node[n]]
  PROVE  \A n \in Nodes :
           /\ Behind(node[n], node'[n])
           /\ nd[n] \in Done => node'[n] = nd[n]
           /\ IF n \in Dispatched(snap[w], nd)
              THEN node[n] = "pending" /\ node'[n] = "dispatched" /\ Ready(Marked(w), n)
              ELSE node'[n] \in HasChild <=> node[n] \in HasChild
           /\ Marked(w)[n] = "succeeded" => node'[n] = "succeeded"
<1> SUFFICES ASSUME NEW n \in Nodes
             PROVE  /\ Behind(node[n], node'[n])
                    /\ nd[n] \in Done => node'[n] = nd[n]
                    /\ IF n \in Dispatched(snap[w], nd)
                       THEN node[n] = "pending" /\ node'[n] = "dispatched" /\ Ready(Marked(w), n)
                       ELSE node'[n] \in HasChild <=> node[n] \in HasChild
                    /\ Marked(w)[n] = "succeeded" => node'[n] = "succeeded"
  OBVIOUS
<1> DEFINE s == snap[w][n]
           m == Marked(w)[n]
           old == node[n]
           new == node'[n]
<1>1. /\ s \in NodeStatus \cup {"none"}
      /\ old \in NodeStatus \cup {"none"}
  BY DEF WorkflowInv, TypeOK
<1>2. Behind(s, old)
  BY DEF WorkflowInv, SnapInv
<1>3. m = s \/ (s = "dispatched" /\ m \in Ended)
  BY MarkedMoves DEF WorkflowInv
<1>4. \/ nd[n] = m
      \/ m = "pending" /\ nd[n] = "blocked"
      \/ Ready(Marked(w), n) /\ m = "pending" /\ nd[n] = "dispatched"
  BY MarkedMoves, ScheduleMoves DEF WorkflowInv, Ready
<1>5. new = IF nd[n] # s THEN nd[n] ELSE old
  BY DEF Changed
<1>6. nd[n] # s => Lands(old, nd[n])
  BY DEF Changed
<1>7. n \in Dispatched(snap[w], nd) <=> nd[n] = "dispatched" /\ s # "dispatched"
  BY DEF Dispatched
<1> HIDE DEF s, m, old, new
<1>8. CASE nd[n] = s
  <2>1. new = old /\ m = s
    BY <1>3, <1>4, <1>5, <1>8 DEF Ended
  <2>2. QED BY <2>1, <1>1, <1>2, <1>7, <1>8 DEF Behind, Done, Ended, HasChild, s, m, old, new
<1>9. CASE nd[n] # s /\ s = "dispatched"
  <2>1. nd[n] \in Ended /\ new = nd[n] /\ m = nd[n]
    BY <1>3, <1>4, <1>5, <1>9 DEF Ended
  <2>2. old = "dispatched" \/ old = new
    BY <2>1, <1>2, <1>6, <1>9 DEF Lands, Behind, Ended
  <2>3. QED BY <2>1, <2>2, <1>7, <1>9 DEF Behind, Done, Ended, HasChild, s, m, old, new
<1>10. CASE nd[n] # s /\ s # "dispatched"
  <2>1. m = s /\ s = "pending" /\ new = nd[n]
    BY <1>3, <1>4, <1>5, <1>10
  <2>2. CASE nd[n] = "blocked"
    <3>1. old \in {"pending", "blocked"}
      BY <2>2, <1>6, <1>10 DEF Lands, Ended
    <3>2. QED BY <2>1, <2>2, <3>1, <1>7 DEF Behind, Done, Ended, HasChild, s, m, old, new
  <2>3. CASE nd[n] = "dispatched" /\ Ready(Marked(w), n)
    <3>1. old = "pending"
      BY <2>3, <1>6, <1>10 DEF Lands, Ended
    <3>2. QED BY <2>1, <2>3, <3>1, <1>7 DEF Behind, Done, Ended, HasChild, s, m, old, new
  <2>4. QED BY <2>1, <2>2, <2>3, <1>4, <1>10
<1>11. QED BY <1>8, <1>9, <1>10

\* The reconciler's transaction preserves the invariant.
LEMMA AdvanceInv ==
  ASSUME WorkflowInv, NEW w \in Workers, Advance(w)
  PROVE  WorkflowInv' /\ \A n \in Nodes : Behind(node[n], node'[n])
<1>1. PICK nd \in Schedules(Marked(w)) :
        /\ \A n \in Changed(w, nd) : Lands(node[n], nd[n])
        /\ Outcome(nd) = "running" \/ exec \in {"running", Outcome(nd)}
        /\ node' = [n \in Nodes |-> IF n \in Changed(w, nd) THEN nd[n] ELSE node[n]]
        /\ Children(Dispatched(snap[w], nd))
        /\ exec' = IF Outcome(nd) = "running" THEN exec ELSE Outcome(nd)
        /\ IF Outcome(nd) # "running" /\ root = "waiting"
           THEN root' = Outcome(nd) /\ row' = Gone ELSE UNCHANGED <<root, row>>
  BY DEF Advance
<1>2. pc[w] = "checked" /\ Rests(w) /\ UNCHANGED sess
  BY DEF Advance
<1>3. TypeOK
  BY DEF WorkflowInv
<1> DEFINE Moved(n) ==
      /\ Behind(node[n], node'[n])
      /\ nd[n] \in Done => node'[n] = nd[n]
      /\ IF n \in Dispatched(snap[w], nd)
         THEN node[n] = "pending" /\ node'[n] = "dispatched" /\ Ready(Marked(w), n)
         ELSE node'[n] \in HasChild <=> node[n] \in HasChild
      /\ Marked(w)[n] = "succeeded" => node'[n] = "succeeded"
<1>4. \A n \in Nodes : Moved(n)
  BY <1>1, <1>2, AdvanceForward
<1>5. nd \in [Nodes -> NodeStatus \cup {"none"}]
  BY <1>3, MarkedMoves, ScheduleMoves
<1>6. Outcome(nd) \in {"running"} \cup Ended /\ (Outcome(nd) # "running" => \A n \in Nodes : nd[n] \in Done)
  BY OutcomeEnds
<1>7. TypeOK'
  <2>1. node' \in [Nodes -> NodeStatus \cup {"none"}]
    BY <1>1, <1>3, <1>5 DEF TypeOK
  <2>2. child' \in [Nodes -> {"none", "live"} \cup Ended] /\ made' \in [Nodes -> Nat]
    BY <1>1, <1>3 DEF TypeOK, Children
  <2>3. /\ root' \in RootStatus
        /\ row' \in [present : BOOLEAN, holder : Workers \cup {Nobody}, live : BOOLEAN]
        /\ exec' \in {"none", "running"} \cup Ended
    <3>1. /\ root \in RootStatus
          /\ row \in [present : BOOLEAN, holder : Workers \cup {Nobody}, live : BOOLEAN]
          /\ exec \in {"none", "running"} \cup Ended
      BY <1>3 DEF TypeOK
    <3>2. Gone \in [present : BOOLEAN, holder : Workers \cup {Nobody}, live : BOOLEAN]
      BY DEF Gone
    <3>3. Outcome(nd) # "running" => Outcome(nd) \in RootStatus
      BY <1>6 DEF RootStatus
    <3>4. CASE Outcome(nd) # "running" /\ root = "waiting"
      BY <1>1, <1>6, <3>1, <3>2, <3>3, <3>4
    <3>5. CASE ~(Outcome(nd) # "running" /\ root = "waiting")
      BY <1>1, <1>6, <3>1, <3>5
    <3>6. QED BY <3>4, <3>5
  <2>4. NoFind \in [node : 0 .. NodeCount + 1, status : Ended \cup {"none"}]
    BY GraphAssumption DEF NoFind
  <2>5. NoNodes \in [Nodes -> NodeStatus \cup {"none"}]
    BY DEF NoNodes
  <2>6. QED BY <1>2, <1>3, <2>1, <2>2, <2>3, <2>4, <2>5 DEF TypeOK, Rests, Goes
<1>8. MadeInv'
  <2>1. \A n \in Nodes : made[n] = IF node[n] \in HasChild THEN 1 ELSE 0
    BY DEF WorkflowInv, MadeInv
  <2>2. \A n \in Nodes : made'[n] = IF n \in Dispatched(snap[w], nd) THEN made[n] + 1 ELSE made[n]
    BY <1>1 DEF Children
  <2>3. QED BY <1>4, <2>1, <2>2 DEF MadeInv, HasChild, Ended
<1>9. StartedInv'
  <2>1. exec # "none" /\ exec' # "none"
    BY <1>1, <1>2, <1>6 DEF WorkflowInv, SnapInv, Ended
  <2>2. QED BY <1>4, <2>1 DEF StartedInv, Behind
<1>10. DependenciesRespected'
  <2> SUFFICES ASSUME NEW n \in Nodes, node'[n] \in HasChild, NEW p \in Preds[n]
               PROVE  node'[p] = "succeeded"
    BY DEF DependenciesRespected, HasChild
  <2>1. p \in Nodes
    BY GraphAssumption
  <2>2. CASE n \in Dispatched(snap[w], nd)
    BY <1>4, <2>1, <2>2 DEF Ready
  <2>3. CASE n \notin Dispatched(snap[w], nd)
    <3>1. node[p] = "succeeded"
      BY <1>4, <2>3 DEF WorkflowInv, DependenciesRespected, HasChild
    <3>2. QED BY <1>4, <2>1, <3>1 DEF Behind
  <2>4. QED BY <2>2, <2>3
<1>11. EndInv'
  <2>1. CASE Outcome(nd) = "running"
    <3> SUFFICES ASSUME exec \in Ended PROVE exec = Outcome(node')
      BY <1>1, <2>1 DEF EndInv
    <3>1. exec = Outcome(node) /\ Outcome(node) # "running"
      BY DEF WorkflowInv, EndInv, Ended
    <3>2. \A n \in Nodes : node[n] \in Done
      BY <3>1, OutcomeEnds
    <3>3. \A n \in Nodes : node'[n] = node[n]
      BY <1>4, <3>2 DEF Behind, Done, Ended
    <3>4. node' = node
      BY <1>3, <1>7, <3>3 DEF TypeOK
    <3>5. QED BY <3>1, <3>4
  <2>2. CASE Outcome(nd) # "running"
    <3>1. \A n \in Nodes : node'[n] = nd[n]
      BY <1>4, <1>6, <2>2
    <3>2. node' = nd
      BY <1>5, <1>7, <3>1 DEF TypeOK
    <3>3. QED BY <1>1, <2>2, <3>2 DEF EndInv
  <2>3. QED BY <2>1, <2>2
<1>12. SnapInv'
  <2> SUFFICES ASSUME NEW x \in Workers, pc'[x] \in {"loaded", "checked"}
               PROVE  exec' # "none" /\ \A n \in Nodes : Behind(snap'[x][n], node'[n])
    BY DEF SnapInv
  <2>1. x # w /\ pc[x] = pc'[x] /\ snap'[x] = snap[x]
    BY <1>2, <1>3 DEF Rests, Goes, TypeOK
  <2>2. exec # "none" /\ \A n \in Nodes : Behind(snap[x][n], node[n])
    BY <2>1 DEF WorkflowInv, SnapInv
  <2>3. QED BY <1>1, <1>4, <1>6, <2>1, <2>2 DEF Behind, Ended
<1>13. QED BY <1>4, <1>7, <1>8, <1>9, <1>10, <1>11, <1>12 DEF WorkflowInv

-----------------------------------------------------------------------------
(* The other actions *)

\* The bootstrap's transaction establishes the invariant of a new execution.
LEMMA BootstrapInv ==
  ASSUME WorkflowInv, NEW w \in Workers, Bootstrap(w)
  PROVE  WorkflowInv'
<1> DEFINE nd0 == [n \in Nodes |-> "pending"]
<1>1. PICK nd \in Schedules(nd0) :
        /\ node' = nd
        /\ Children(Dispatched(node, nd))
        /\ exec' = Outcome(nd)
        /\ root' = IF Outcome(nd) = "running" THEN "waiting" ELSE Outcome(nd)
  BY DEF Bootstrap
<1>2. /\ pc[w] = "bootstrapping" /\ exec = "none" /\ row' = Gone
      /\ Goes(w, "idle") /\ UNCHANGED <<snap, found, sess>>
  BY DEF Bootstrap
<1>3. TypeOK /\ \A n \in Nodes : node[n] = "none" /\ made[n] = 0
  BY <1>2 DEF WorkflowInv, StartedInv, MadeInv, HasChild, Ended
<1>4. nd0 \in [Nodes -> NodeStatus \cup {"none"}]
  BY DEF NodeStatus
<1>5. /\ nd \in [Nodes -> NodeStatus \cup {"none"}]
      /\ \A n \in Nodes : \/ nd[n] = "pending" \/ nd[n] = "blocked"
                          \/ nd[n] = "dispatched" /\ Preds[n] = {}
  <2>1. \A n \in Nodes : Ready(nd0, n) => Preds[n] = {}
    BY GraphAssumption DEF Ready
  <2> HIDE DEF nd0
  <2>2. \A n \in Nodes : nd0[n] = "pending"
    BY DEF nd0
  <2>3. QED BY <1>4, <2>1, <2>2, ScheduleMoves
<1>6. Outcome(nd) \in {"running"} \cup Ended
  BY OutcomeEnds
<1>7. TypeOK'
  <2>1. child' \in [Nodes -> {"none", "live"} \cup Ended] /\ made' \in [Nodes -> Nat]
    BY <1>1, <1>3 DEF TypeOK, Children
  <2>2. /\ root' \in RootStatus
        /\ row' \in [present : BOOLEAN, holder : Workers \cup {Nobody}, live : BOOLEAN]
        /\ exec' \in {"none", "running"} \cup Ended
    BY <1>1, <1>2, <1>6 DEF RootStatus, Gone
  <2>3. QED BY <1>1, <1>2, <1>3, <1>5, <2>1, <2>2 DEF TypeOK, Goes
<1>8. MadeInv'
  <2>1. \A n \in Nodes : made'[n] = IF nd[n] = "dispatched" THEN 1 ELSE 0
    BY <1>1, <1>3 DEF Children, Dispatched
  <2>2. QED BY <1>1, <1>5, <2>1 DEF MadeInv, HasChild, Ended
<1>9. StartedInv' /\ DependenciesRespected'
  BY <1>1, <1>5, <1>6 DEF StartedInv, DependenciesRespected, Ended
<1>10. EndInv'
  BY <1>1 DEF EndInv
<1>11. SnapInv'
  BY <1>2, <1>3 DEF WorkflowInv, SnapInv, Goes, TypeOK
<1>12. QED BY <1>7, <1>8, <1>9, <1>10, <1>11 DEF WorkflowInv

\* Steps that leave the execution and its nodes alone, and let no worker hold
\* rows it did not hold before, preserve all but the types.
LEMMA QuietStep ==
  ASSUME WorkflowInv, TypeOK', UNCHANGED <<exec, node, made>>,
         \A x \in Workers : pc'[x] \in {"loaded", "checked"} =>
           pc[x] \in {"loaded", "checked"} /\ snap'[x] = snap[x]
  PROVE  WorkflowInv'
<1>1. MadeInv' /\ StartedInv' /\ DependenciesRespected'
  BY DEF WorkflowInv, MadeInv, StartedInv, DependenciesRespected
<1>2. EndInv'
  BY DEF WorkflowInv, EndInv, Outcome
<1>3. SnapInv'
  BY DEF WorkflowInv, SnapInv
<1>4. QED BY <1>1, <1>2, <1>3 DEF WorkflowInv

\* What a worker that goes back to the loop holds is well typed.
LEMMA RestsTypes ==
  ASSUME TypeOK, NEW w \in Workers, Rests(w)
  PROVE  /\ pc' \in [Workers -> {"idle", "claimed", "bootstrapping", "failing", "failed",
                                 "callback", "loaded", "checked"}]
         /\ snap' \in [Workers -> [Nodes -> NodeStatus \cup {"none"}]]
         /\ found' \in [Workers -> [node : 0 .. NodeCount + 1, status : Ended \cup {"none"}]]
<1>1. NoFind \in [node : 0 .. NodeCount + 1, status : Ended \cup {"none"}]
  BY GraphAssumption DEF NoFind
<1>2. NoNodes \in [Nodes -> NodeStatus \cup {"none"}]
  BY DEF NoNodes
<1>3. QED BY <1>1, <1>2 DEF TypeOK, Rests, Goes

\* The steps around the bootstrap touch the root and its work item only.
LEMMA RootStepInv ==
  ASSUME WorkflowInv, NEW w \in Workers,
         \/ ClaimRoot(w) \/ LoadRoot(w) \/ BootstrapRefused(w)
         \/ LoadFailing(w) \/ FailBootstrap(w)
  PROVE  WorkflowInv' /\ node' = node
<1>1. TypeOK
  BY DEF WorkflowInv
<1>0. /\ row \in [present : BOOLEAN, holder : Workers \cup {Nobody}, live : BOOLEAN]
      /\ Gone \in [present : BOOLEAN, holder : Workers \cup {Nobody}, live : BOOLEAN]
  BY <1>1 DEF TypeOK, Gone
<1>2. CASE ClaimRoot(w)
  <2>1. TypeOK'
    <3>1. root' \in RootStatus
      BY <1>1, <1>2 DEF ClaimRoot, TypeOK, RootStatus
    <3>2. row' \in [present : BOOLEAN, holder : Workers \cup {Nobody}, live : BOOLEAN]
      BY <1>0, <1>2 DEF ClaimRoot
    <3>3. pc' = pc \/ Goes(w, "claimed")
      BY <1>2 DEF ClaimRoot
    <3>4. QED BY <1>1, <1>2, <3>1, <3>2, <3>3 DEF ClaimRoot, TypeOK, Goes
  <2>2. QED BY <1>1, <1>2, <2>1, QuietStep DEF ClaimRoot, Goes, TypeOK
<1>3. CASE LoadRoot(w) \/ BootstrapRefused(w) \/ LoadFailing(w)
  <2>1. PICK to \in {"idle", "failing", "bootstrapping", "failed"} : Goes(w, to)
    BY <1>3 DEF LoadRoot, BootstrapRefused, LoadFailing
  <2>2. UNCHANGED <<tables, snap, found, sess>>
    BY <1>3 DEF LoadRoot, BootstrapRefused, LoadFailing
  <2>3. TypeOK'
    BY <1>1, <2>1, <2>2 DEF tables, TypeOK, Goes
  <2>4. QED BY <1>1, <2>1, <2>2, <2>3, QuietStep DEF tables, Goes, TypeOK
<1>4. CASE FailBootstrap(w)
  <2>1. TypeOK'
    <3>1. root' \in RootStatus
      BY <1>1, <1>4 DEF FailBootstrap, TypeOK, RootStatus, Ended
    <3>2. row' \in [present : BOOLEAN, holder : Workers \cup {Nobody}, live : BOOLEAN]
      BY <1>0, <1>4 DEF FailBootstrap
    <3>3. QED BY <1>1, <1>4, <3>1, <3>2 DEF FailBootstrap, TypeOK, Goes
  <2>2. QED BY <1>1, <1>4, <2>1, QuietStep DEF FailBootstrap, Goes, TypeOK
<1>5. QED BY <1>2, <1>3, <1>4

\* Children and the commands about them and the root leave the nodes alone.
LEMMA OutsideStepInv ==
  ASSUME WorkflowInv,
         \/ LeaseExpires
         \/ \E n \in Nodes : ChildEnds(n)
         \/ \E s \in Sessions : LoadCommand(s) \/ SaveCommand(s)
  PROVE  WorkflowInv' /\ node' = node
<1>1. TypeOK
  BY DEF WorkflowInv
<1>2. CASE LeaseExpires
  <2>1. TypeOK'
    BY <1>1, <1>2 DEF LeaseExpires, TypeOK, local
  <2>2. QED BY <1>2, <2>1, QuietStep DEF LeaseExpires, local
<1>3. ASSUME NEW n \in Nodes, ChildEnds(n) PROVE WorkflowInv' /\ node' = node
  <2>1. Ends(n)
    BY <1>3 DEF ChildEnds, ApiEndsChild, WorkerEndsChild
  <2>2. /\ UNCHANGED <<snap, found>>
        /\ pc' = pc \/ \E w \in Workers : Goes(w, "callback")
    BY <1>3 DEF ChildEnds, ApiEndsChild, WorkerEndsChild, local
  <2>3. child' \in [Nodes -> {"none", "live"} \cup Ended]
    BY <1>1, <2>1 DEF Ends, TypeOK
  <2>4. TypeOK'
    BY <1>1, <2>1, <2>2, <2>3 DEF Ends, TypeOK, Goes
  <2>5. \A x \in Workers : pc'[x] \in {"loaded", "checked"} => pc[x] = pc'[x]
    BY <1>1, <2>2 DEF Goes, TypeOK
  <2>6. QED BY <2>1, <2>2, <2>4, <2>5, QuietStep DEF Ends
<1>4. ASSUME NEW s \in Sessions, LoadCommand(s) PROVE WorkflowInv' /\ node' = node
  <2>1. PICK name \in CommandNames, n \in Nodes :
          sess' = [sess EXCEPT ![s] = [name |-> name, node |-> n]]
    BY <1>4 DEF LoadCommand, Admits, CommandNames
  <2>2. TypeOK'
    BY <1>1, <1>4, <2>1 DEF LoadCommand, TypeOK, tables, local
  <2>3. QED BY <1>4, <2>2, QuietStep DEF LoadCommand, tables, local
<1>5. ASSUME NEW s \in Sessions, SaveCommand(s) PROVE WorkflowInv' /\ node' = node
  <2>1. sess[s].name \in CommandNames /\ sess[s].node \in Nodes
    BY <1>1, <1>5 DEF SaveCommand, TypeOK
  <2>2. root' \in RootStatus
    BY <1>1, <1>5, <2>1 DEF SaveCommand, TypeOK, CommandNames, RootStatus, Ended
  <2>3. row' \in [present : BOOLEAN, holder : Workers \cup {Nobody}, live : BOOLEAN]
    BY <1>1, <1>5 DEF SaveCommand, TypeOK, Gone
  <2>4. child' \in [Nodes -> {"none", "live"} \cup Ended]
    BY <1>1, <1>5, <2>1 DEF SaveCommand, TypeOK, Ended
  <2>5. TypeOK'
    BY <1>1, <1>5, <2>2, <2>3, <2>4 DEF SaveCommand, TypeOK, local
  <2>6. QED BY <1>5, <2>5, QuietStep DEF SaveCommand, local
<1>6. QED BY <1>2, <1>3, <1>4, <1>5

\* The reconciler up to its first write, and a crash anywhere.
LEMMA ReconcileReadsInv ==
  ASSUME WorkflowInv, NEW w \in Workers,
         \/ LoadExecution(w) \/ CallbackDone(w) \/ CheckChildren(w)
         \/ AdvanceConflict(w) \/ Crash(w)
  PROVE  WorkflowInv' /\ node' = node
<1>1. TypeOK
  BY DEF WorkflowInv
<1>2. CASE LoadExecution(w)
  <2>1. TypeOK'
    BY <1>1, <1>2 DEF LoadExecution, TypeOK, Goes, tables
  <2>2. MadeInv' /\ StartedInv' /\ DependenciesRespected' /\ EndInv'
    BY <1>2 DEF LoadExecution, tables, WorkflowInv, MadeInv, StartedInv,
                DependenciesRespected, EndInv, Outcome
  <2>3. SnapInv'
    <3> SUFFICES ASSUME NEW x \in Workers, pc'[x] \in {"loaded", "checked"}
                 PROVE  exec' # "none" /\ \A n \in Nodes : Behind(snap'[x][n], node'[n])
      BY DEF SnapInv
    <3>1. exec' = exec /\ node' = node /\ exec = "running"
      BY <1>2 DEF LoadExecution, tables
    <3>2. CASE x = w
      <4>1. snap'[x] = node
        BY <1>1, <1>2, <3>2 DEF LoadExecution, TypeOK
      <4>2. QED BY <3>1, <4>1 DEF WorkflowInv, StartedInv, Behind
    <3>3. CASE x # w
      <4>1. pc'[x] = pc[x] /\ snap'[x] = snap[x]
        BY <1>1, <1>2, <3>3 DEF LoadExecution, Goes, TypeOK
      <4>2. QED BY <3>1, <4>1 DEF WorkflowInv, SnapInv
    <3>4. QED BY <3>2, <3>3
  <2>4. QED BY <1>2, <2>1, <2>2, <2>3 DEF WorkflowInv, LoadExecution, tables
<1>3. CASE CallbackDone(w)
  <2>1. TypeOK'
    BY <1>1, <1>3 DEF CallbackDone, TypeOK, Goes, tables
  <2>2. QED BY <1>1, <1>3, <2>1, QuietStep DEF CallbackDone, tables, Goes, TypeOK
<1>4. CASE CheckChildren(w)
  <2> DEFINE F == [node : 0 .. NodeCount + 1, status : Ended \cup {"none"}]
  <2>1. \A n \in Nodes, status \in Ended : [node |-> n, status |-> status] \in F
    BY GraphAssumption DEF Nodes
  <2>2. [node |-> NodeCount + 1, status |-> "none"] \in F
    BY GraphAssumption
  <2>3. PICK f \in F : found' = [found EXCEPT ![w] = f]
    BY <1>4, <2>1, <2>2 DEF CheckChildren
  <2>4. UNCHANGED <<tables, snap, sess>> /\ pc[w] = "loaded" /\ Goes(w, "checked")
    BY <1>4 DEF CheckChildren
  <2>5. TypeOK'
    BY <1>1, <2>3, <2>4 DEF TypeOK, Goes, tables
  <2>6. QED BY <1>1, <2>4, <2>5, QuietStep DEF tables, Goes, TypeOK
<1>5. CASE AdvanceConflict(w) \/ Crash(w)
  <2>1. Rests(w) /\ UNCHANGED <<tables, sess>>
    BY <1>5 DEF AdvanceConflict, Crash
  <2>2. TypeOK'
    BY <1>1, <2>1, RestsTypes DEF TypeOK, tables
  <2>3. \A x \in Workers : pc'[x] \in {"loaded", "checked"} =>
          pc[x] \in {"loaded", "checked"} /\ snap'[x] = snap[x]
    BY <1>1, <2>1 DEF Rests, Goes, TypeOK
  <2>4. QED BY <2>1, <2>2, <2>3, QuietStep DEF tables
<1>6. QED BY <1>2, <1>3, <1>4, <1>5

-----------------------------------------------------------------------------
(* The theorems *)

\* Every step preserves the invariant and lets node rows only move forward.
LEMMA StepInv ==
  ASSUME WorkflowInv, [Next]_vars
  PROVE  WorkflowInv' /\ \A n \in Nodes : node[n] \in Done => node'[n] = node[n]
<1>1. ASSUME NEW w \in Workers, Advance(w)
      PROVE  WorkflowInv' /\ \A n \in Nodes : node[n] \in Done => node'[n] = node[n]
  BY <1>1, AdvanceInv DEF Behind, Done, Ended
<1>2. ASSUME NEW w \in Workers, Bootstrap(w)
      PROVE  WorkflowInv' /\ \A n \in Nodes : node[n] \in Done => node'[n] = node[n]
  <2>1. \A n \in Nodes : node[n] = "none"
    BY <1>2 DEF Bootstrap, WorkflowInv, StartedInv
  <2>2. QED BY <1>2, <2>1, BootstrapInv DEF Done, Ended
<1>3. CASE UNCHANGED vars
  <2>1. TypeOK'
    BY <1>3 DEF WorkflowInv, TypeOK, vars, tables, local
  <2>2. QED BY <1>3, <2>1, QuietStep DEF vars, tables, local
<1>4. QED
  BY <1>1, <1>2, <1>3, RootStepInv, OutsideStepInv, ReconcileReadsInv
  DEF Next, BootstrapStep, ReconcileStep

\* The invariant holds in every reachable state, for every graph and any
\* number of workers and sessions.
THEOREM WorkflowInvariant == Spec => []WorkflowInv
<1>1. Init => WorkflowInv
  <2> SUFFICES ASSUME Init PROVE WorkflowInv
    OBVIOUS
  <2>1. NoFind \in [node : 0 .. NodeCount + 1, status : Ended \cup {"none"}]
    BY GraphAssumption DEF NoFind
  <2>2. TypeOK
    BY <2>1 DEF Init, TypeOK, RootStatus, NoNodes, NoCommand
  <2>3. MadeInv /\ StartedInv /\ DependenciesRespected
    BY DEF Init, NoNodes, MadeInv, HasChild, StartedInv, DependenciesRespected, Ended
  <2>4. EndInv /\ SnapInv
    BY DEF Init, EndInv, SnapInv, Ended
  <2>5. QED BY <2>2, <2>3, <2>4 DEF WorkflowInv
<1>2. WorkflowInv /\ [Next]_vars => WorkflowInv'
  BY StepInv
<1>3. QED BY <1>1, <1>2, PTL DEF Spec

\* No node is ever given a second child Run: a dispatch decided from a stale
\* row does not land (update_status).
THEOREM OneChild == Spec => []OneChildPerNode
<1>1. WorkflowInv => OneChildPerNode
  BY DEF WorkflowInv, MadeInv, OneChildPerNode
<1>2. QED BY <1>1, WorkflowInvariant, PTL

\* Whatever the graph, a node runs only after all its predecessors succeeded.
THEOREM Dependencies == Spec => []DependenciesRespected
<1>1. WorkflowInv => DependenciesRespected
  BY DEF WorkflowInv
<1>2. QED BY <1>1, WorkflowInvariant, PTL

\* The recorded end of an execution agrees with its nodes
\* (_finish_if_terminal decides from rows that may be stale).
THEOREM OutcomeIsTruthful == Spec => []OutcomeMatchesNodes
<1>1. WorkflowInv => OutcomeMatchesNodes
  <2> SUFFICES ASSUME exec = Outcome(node), exec \in Ended
               PROVE  LET statuses == {node[n] : n \in Nodes} IN
                      /\ statuses \subseteq Done
                      /\ exec = "succeeded" <=> statuses = {"succeeded"}
                      /\ exec = "cancelled" => "failed" \notin statuses
    BY DEF WorkflowInv, EndInv, OutcomeMatchesNodes
  <2> DEFINE S == {node[n] : n \in Nodes}
  <2>1. S \subseteq Done
    BY OutcomeEnds DEF Ended
  <2>2. exec = CASE ~(S \subseteq Done) -> "running"
                 [] S = {"succeeded"} -> "succeeded"
                 [] "cancelled" \in S /\ S \subseteq Done \ {"failed"} -> "cancelled"
                 [] OTHER -> "failed"
    BY DEF Outcome
  <2> HIDE DEF S
  <2>3. CASE S = {"succeeded"}
    BY <2>1, <2>2, <2>3 DEF S
  <2>4. CASE S # {"succeeded"} /\ "cancelled" \in S /\ S \subseteq Done \ {"failed"}
    BY <2>1, <2>2, <2>4 DEF S
  <2>5. CASE S # {"succeeded"} /\ ~("cancelled" \in S /\ S \subseteq Done \ {"failed"})
    BY <2>1, <2>2, <2>5 DEF S
  <2>6. QED BY <2>3, <2>4, <2>5
<1>2. QED BY <1>1, WorkflowInvariant, PTL

\* An outcome recorded for a node is final: no later step of any reconciler,
\* however stale, changes it.
THEOREM OutcomesAreFinal == Spec => NodesKeepOutcome
<1>1. WorkflowInv /\ [Next]_vars => [\A n \in Nodes : node[n] \in Done => node'[n] = node[n]]_vars
  BY StepInv
<1>2. QED BY <1>1, WorkflowInvariant, PTL DEF Spec, NodesKeepOutcome

-----------------------------------------------------------------------------
(* No execution is stranded while reconcilers take turns *)

\* Scheduling to the fixed point leaves no open node behind without a
\* dispatched one: of the nodes that are still pending, one has no pending
\* predecessor, and that one would have been dispatched or blocked.
LEMMA ScheduleDispatches ==
  ASSUME NEW nd \in [Nodes -> NodeStatus], NEW new \in Schedules(nd), Outcome(new) = "running"
  PROVE  \E n \in Nodes : new[n] = "dispatched"
<1> SUFFICES ASSUME \A n \in Nodes : new[n] # "dispatched" PROVE FALSE
  OBVIOUS
<1>1. PICK big : new = Scheduled(nd, big)
  BY DEF Schedules
<1> DEFINE blocked == Blocked(nd, big)
<1>2. new = [n \in Nodes |->
               IF n \in blocked THEN "blocked" ELSE IF Ready(nd, n) THEN "dispatched" ELSE nd[n]]
  BY <1>1 DEF Scheduled
<1>3. \A n \in Nodes : new[n] \in Done \cup {"pending"}
  BY <1>2 DEF NodeStatus, Done
<1>4. \E n \in Nodes : new[n] = "pending"
  <2> DEFINE S == {new[n] : n \in Nodes}
  <2>1. S \subseteq Done => Outcome(new) # "running"
    BY DEF Outcome
  <2>2. QED BY <1>3, <2>1
<1> DEFINE P == {n \in Nodes : new[n] = "pending"}
<1>5. PICK n \in P : Preds[n] \cap P = {}
  BY <1>4, GraphAssumption
<1>6. n \in Nodes /\ nd[n] = "pending" /\ n \notin blocked /\ ~Ready(nd, n)
  BY <1>2, <1>5
<1>7. PICK p \in Preds[n] : nd[p] # "succeeded"
  BY <1>6 DEF Ready
<1>8. p \in Nodes /\ new[p] \in Done
  BY <1>3, <1>5, <1>6, <1>7, GraphAssumption
<1>9. nd[p] \in Bad \/ p \in blocked
  BY <1>2, <1>7, <1>8 DEF Done, Bad, Ended
<1>10. ASSUME NEW S \in SUBSET {m \in Nodes : nd[m] = "pending"}, Blocks(nd, big, S) \subseteq S PROVE n \in S
  <2>1. nd[p] \in Bad \/ p \in S
    BY <1>9, <1>10 DEF Blocked
  <2>2. n \in Blocks(nd, big, S)
    BY <1>6, <1>7, <2>1 DEF Blocks
  <2>3. QED BY <1>10, <2>2
<1>11. n \in blocked
  BY <1>6, <1>10 DEF Blocked
<1>12. QED BY <1>6, <1>11

\* What the one reconciler at work has read is current, and the execution has
\* a node whose child will bring the next one.
TurnsInv ==
  /\ \A w \in Workers : pc[w] \in {"loaded", "checked"} => snap[w] = node
  /\ NeverStranded

\* Steps that leave the execution and its nodes alone.
LEMMA TurnsQuiet ==
  ASSUME TurnsInv, UNCHANGED <<exec, node>>,
         \A x \in Workers : pc'[x] \in {"loaded", "checked"} =>
           snap'[x] = node \/ (pc[x] \in {"loaded", "checked"} /\ snap'[x] = snap[x])
  PROVE  TurnsInv'
BY DEF TurnsInv, NeverStranded

\* The two transactions that schedule leave a dispatched node or an end.
LEMMA TurnsWrites ==
  ASSUME WorkflowInv, TurnsInv, \A v, w \in Workers : v = w,
         NEW w \in Workers, Bootstrap(w) \/ Advance(w)
  PROVE  TurnsInv'
<1>1. TypeOK
  BY DEF WorkflowInv
<1>2. pc'[w] = "idle"
  BY <1>1 DEF Bootstrap, Advance, Rests, Goes, TypeOK
<1>3. \A x \in Workers : pc'[x] \notin {"loaded", "checked"}
  BY <1>2
<1>4. CASE Bootstrap(w)
  <2> DEFINE nd0 == [n \in Nodes |-> "pending"]
  <2>1. PICK nd \in Schedules(nd0) : node' = nd /\ exec' = Outcome(nd)
    BY <1>4 DEF Bootstrap
  <2>2. nd0 \in [Nodes -> NodeStatus]
    BY DEF NodeStatus
  <2> HIDE DEF nd0
  <2>3. NeverStranded'
    BY <2>1, <2>2, ScheduleDispatches DEF NeverStranded
  <2>4. QED BY <1>3, <2>3 DEF TurnsInv
<1>5. CASE Advance(w)
  <2>1. PICK nd \in Schedules(Marked(w)) :
          /\ node' = [n \in Nodes |-> IF n \in Changed(w, nd) THEN nd[n] ELSE node[n]]
          /\ exec' = IF Outcome(nd) = "running" THEN exec ELSE Outcome(nd)
    BY <1>5 DEF Advance
  <2>2. pc[w] = "checked" /\ snap[w] = node /\ exec # "none"
    BY <1>5 DEF Advance, TurnsInv, WorkflowInv, SnapInv
  <2>3. \A n \in Nodes : node[n] # "none"
    BY <2>2 DEF WorkflowInv, StartedInv
  <2>4. Marked(w) \in [Nodes -> NodeStatus]
    <3>1. \A n \in Nodes : Marked(w)[n] # "none"
      BY <1>1, <2>2, <2>3, MarkedMoves DEF Ended
    <3>2. Marked(w) \in [Nodes -> NodeStatus \cup {"none"}]
      BY <1>1, MarkedMoves
    <3>3. QED BY <3>1, <3>2
  <2>5. \A n \in Nodes : node'[n] = nd[n]
    BY <2>1, <2>2 DEF Changed
  <2>6. exec' = "running" => Outcome(nd) = "running"
    BY <2>1
  <2>7. NeverStranded'
    BY <2>4, <2>5, <2>6, ScheduleDispatches DEF NeverStranded
  <2>8. QED BY <1>3, <2>7 DEF TurnsInv
<1>6. QED BY <1>4, <1>5

\* Every step of a system with one worker process keeps executions going.
LEMMA TurnsNext ==
  ASSUME WorkflowInv, TurnsInv, \A v, w \in Workers : v = w, [Next]_vars
  PROVE  TurnsInv'
<1>1. TypeOK
  BY DEF WorkflowInv
<1>2. ASSUME NEW w \in Workers, LoadExecution(w) PROVE TurnsInv'
  <2>1. UNCHANGED <<exec, node>> /\ snap'[w] = node
    BY <1>1, <1>2 DEF LoadExecution, tables, TypeOK
  <2>2. QED BY <2>1, TurnsQuiet
<1>3. ASSUME NEW w \in Workers, CheckChildren(w) PROVE TurnsInv'
  <2>1. UNCHANGED <<exec, node, snap>> /\ pc[w] = "loaded"
    BY <1>3 DEF CheckChildren, tables
  <2>2. QED BY <2>1, TurnsQuiet
<1>4. ASSUME NEW w \in Workers, AdvanceConflict(w) \/ Crash(w) PROVE TurnsInv'
  <2>1. UNCHANGED <<exec, node>> /\ pc'[w] = "idle"
    BY <1>1, <1>4 DEF AdvanceConflict, Crash, Rests, Goes, tables, TypeOK
  <2>2. QED BY <2>1, TurnsQuiet
<1>5. ASSUME NEW w \in Workers, NEW to \in {"idle", "claimed", "failing", "bootstrapping", "failed", "callback"},
             pc' = pc \/ Goes(w, to), UNCHANGED <<exec, node, snap>>
      PROVE  TurnsInv'
  <2>1. \A x \in Workers : pc'[x] = pc[x] \/ pc'[x] = to
    BY <1>1, <1>5 DEF Goes, TypeOK
  <2>2. QED BY <1>5, <2>1, TurnsQuiet
<1>6. ASSUME NEW w \in Workers,
             \/ ClaimRoot(w) \/ LoadRoot(w) \/ BootstrapRefused(w)
             \/ LoadFailing(w) \/ FailBootstrap(w) \/ CallbackDone(w)
      PROVE  TurnsInv'
  BY <1>5, <1>6 DEF ClaimRoot, LoadRoot, BootstrapRefused, LoadFailing, FailBootstrap, CallbackDone, tables
<1>7. ASSUME UNCHANGED <<exec, node, snap, pc>> PROVE TurnsInv'
  BY <1>7, TurnsQuiet
<1>8. CASE \E n \in Nodes : ChildEnds(n)
  BY <1>5, <1>7, <1>8 DEF ChildEnds, ApiEndsChild, WorkerEndsChild, Ends, local
<1>9. CASE LeaseExpires \/ (\E s \in Sessions : LoadCommand(s) \/ SaveCommand(s)) \/ UNCHANGED vars
  BY <1>7, <1>9 DEF LeaseExpires, LoadCommand, SaveCommand, tables, local, vars
<1>10. QED
  BY <1>2, <1>3, <1>4, <1>6, <1>8, <1>9, TurnsWrites DEF Next, BootstrapStep, ReconcileStep

\* With one worker process, whatever the graph, the crashes, the operators'
\* commands and the order in which child Runs end, a running execution has a
\* dispatched node, whose child's end brings a reconciler (the fixed point of
\* _schedule_to_fixed_point, and the comment in StartWorkflowExecution on
\* stranding).  Two reconcilers at once can break it: see MCLostJoin.cfg.
THEOREM OneWorkerStrandsNothing ==
  ASSUME \A v, w \in Workers : v = w
  PROVE  Spec => []NeverStranded
<1>1. Init => TurnsInv
  BY DEF Init, TurnsInv, NeverStranded
<1>2. WorkflowInv /\ TurnsInv /\ [Next]_vars => TurnsInv'
  BY TurnsNext
<1>3. TurnsInv => NeverStranded
  BY DEF TurnsInv
<1>4. QED BY <1>1, <1>2, <1>3, WorkflowInvariant, PTL DEF Spec

-----------------------------------------------------------------------------
(* Nodes and executions implement Lifecycle *)

\* A node has a child once one was made for it, and a loaded cancellation is of
\* a child that exists.
ChildInv ==
  /\ \A n \in Nodes : child[n] = "none" <=> made[n] = 0
  /\ \A s \in Sessions : sess[s].name = "cancel_child" =>
       sess[s].node \in Nodes /\ child[sess[s].node] # "none"

\* Steps that take no child away and load no command.
LEMMA ChildKept ==
  ASSUME TypeOK, ChildInv,
         \A n \in Nodes : child'[n] = "none" <=> made'[n] = 0,
         \A n \in Nodes : child[n] # "none" => child'[n] # "none",
         \A s \in Sessions : sess'[s] = sess[s] \/ sess'[s] = NoCommand
  PROVE  ChildInv'
BY DEF ChildInv, NoCommand

\* Children are created with their nodes' dispatch.
LEMMA ChildrenMade ==
  ASSUME TypeOK, ChildInv, NEW new, Children(new), sess' = sess
  PROVE  ChildInv'
<1>1. \A n \in Nodes : made[n] \in Nat /\ (child[n] = "none" <=> made[n] = 0)
  BY DEF TypeOK, ChildInv
<1>2. \A n \in Nodes : child'[n] = "none" <=> made'[n] = 0
  BY <1>1 DEF Children
<1>3. \A n \in Nodes : child[n] # "none" => child'[n] # "none"
  BY DEF Children
<1>4. QED BY <1>2, <1>3, ChildKept

\* Every step keeps it.
LEMMA ChildNext ==
  ASSUME TypeOK, ChildInv, [Next]_vars
  PROVE  ChildInv'
<1>1. ASSUME UNCHANGED <<child, made, sess>> PROVE ChildInv'
  BY <1>1 DEF ChildInv
<1>2. ASSUME NEW w \in Workers, Bootstrap(w) \/ Advance(w) PROVE ChildInv'
  BY <1>2, ChildrenMade DEF Bootstrap, Advance
<1>3. ASSUME NEW n \in Nodes, ChildEnds(n) PROVE ChildInv'
  <2>1. /\ child[n] = "live" /\ (\E status \in Ended : child' = [child EXCEPT ![n] = status])
        /\ UNCHANGED <<made, sess>>
    BY <1>3 DEF ChildEnds, ApiEndsChild, WorkerEndsChild, Ends
  <2>2. \A m \in Nodes : child'[m] = "none" <=> child[m] = "none"
    BY <2>1 DEF TypeOK, Ended
  <2>3. QED BY <2>1, <2>2, ChildKept DEF ChildInv
<1>4. ASSUME NEW s \in Sessions, LoadCommand(s) PROVE ChildInv'
  <2>1. PICK name \in Commands, n \in Nodes :
          Admits(name, n) /\ sess' = [sess EXCEPT ![s] = [name |-> name, node |-> n]]
    BY <1>4 DEF LoadCommand
  <2>2. UNCHANGED <<child, made>>
    BY <1>4 DEF LoadCommand, tables
  <2>3. name = "cancel_child" => child[n] # "none"
    BY <2>1 DEF Admits
  <2>4. \A t \in Sessions : sess'[t] = IF t = s THEN [name |-> name, node |-> n] ELSE sess[t]
    BY <2>1 DEF TypeOK
  <2>5. QED BY <2>2, <2>3, <2>4 DEF ChildInv
<1>5. ASSUME NEW s \in Sessions, SaveCommand(s) PROVE ChildInv'
  <2>1. \A t \in Sessions : sess'[t] = sess[t] \/ sess'[t] = NoCommand
    BY <1>5 DEF SaveCommand, TypeOK
  <2>2. \A n \in Nodes : child'[n] = "none" <=> child[n] = "none"
    BY <1>5 DEF SaveCommand, ChildInv, TypeOK
  <2>3. made' = made
    BY <1>5 DEF SaveCommand
  <2>4. QED BY <2>1, <2>2, <2>3, ChildKept DEF ChildInv
<1>6. ASSUME NEW w \in Workers,
             \/ ClaimRoot(w) \/ LoadRoot(w) \/ BootstrapRefused(w) \/ LoadFailing(w) \/ FailBootstrap(w)
             \/ LoadExecution(w) \/ CallbackDone(w) \/ CheckChildren(w) \/ AdvanceConflict(w) \/ Crash(w)
      PROVE  UNCHANGED <<child, made, sess>>
  BY <1>6 DEF ClaimRoot, LoadRoot, BootstrapRefused, LoadFailing, FailBootstrap, LoadExecution,
     CallbackDone, CheckChildren, AdvanceConflict, Crash, tables
<1>7. CASE LeaseExpires \/ UNCHANGED vars
  BY <1>1, <1>7 DEF LeaseExpires, vars, tables
<1>8. QED
  BY <1>1, <1>2, <1>3, <1>4, <1>5, <1>6, <1>7 DEF Next, BootstrapStep, ReconcileStep

\* What update_status lets through is a transition of the class.
LEMMA LandsAllowed ==
  ASSUME NEW old, NEW new, Lands(old, new)
  PROVE  NodeRows!Allowed(old, new)
BY DEF Lands, NodeRows!Allowed, NodeRows!Moves, NodeRows!NodeMoves, NodeRows!Ends

\* Every step takes the nodes and the execution along their transitions.
LEMMA StepAllowed ==
  ASSUME WorkflowInv, [Next]_vars
  PROVE  /\ \A n \in Nodes : NodeRows!Allowed(node[n], node'[n])
         /\ ExecutionRows!Allowed(exec, exec')
<1>1. ASSUME UNCHANGED <<node, exec>>
      PROVE  /\ \A n \in Nodes : NodeRows!Allowed(node[n], node'[n])
             /\ ExecutionRows!Allowed(exec, exec')
  BY <1>1 DEF NodeRows!Allowed, ExecutionRows!Allowed
<1>2. ASSUME NEW w \in Workers, Bootstrap(w)
      PROVE  /\ \A n \in Nodes : NodeRows!Allowed(node[n], node'[n])
             /\ ExecutionRows!Allowed(exec, exec')
  <2> DEFINE nd0 == [n \in Nodes |-> "pending"]
  <2>1. PICK nd \in Schedules(nd0) : node' = nd /\ exec' = Outcome(nd)
    BY <1>2 DEF Bootstrap
  <2>2. nd0 \in [Nodes -> NodeStatus \cup {"none"}] /\ \A n \in Nodes : nd0[n] = "pending"
    BY DEF NodeStatus
  <2> HIDE DEF nd0
  <2>3. \A n \in Nodes : node'[n] \in {"pending", "blocked", "dispatched"}
    BY <2>1, <2>2, ScheduleMoves
  <2>4. exec = "none" /\ \A n \in Nodes : node[n] = "none"
    BY <1>2 DEF Bootstrap, WorkflowInv, StartedInv
  <2>5. \A n \in Nodes : NodeRows!Allowed(node[n], node'[n])
    BY <2>3, <2>4 DEF NodeRows!Allowed, NodeRows!Moves, NodeRows!NodeMoves, NodeRows!First
  <2>6. exec' \in {"running"} \cup Ended
    BY <2>1, OutcomeEnds
  <2>7. ExecutionRows!Allowed(exec, exec')
    BY <2>4, <2>6 DEF ExecutionRows!Allowed, ExecutionRows!Moves, ExecutionRows!ExecutionMoves,
       ExecutionRows!First, ExecutionRows!Ends, Ended
  <2>8. QED BY <2>5, <2>7
<1>3. ASSUME NEW w \in Workers, Advance(w)
      PROVE  /\ \A n \in Nodes : NodeRows!Allowed(node[n], node'[n])
             /\ ExecutionRows!Allowed(exec, exec')
  <2>1. PICK nd \in Schedules(Marked(w)) :
          /\ \A n \in Changed(w, nd) : Lands(node[n], nd[n])
          /\ Outcome(nd) = "running" \/ exec \in {"running", Outcome(nd)}
          /\ node' = [n \in Nodes |-> IF n \in Changed(w, nd) THEN nd[n] ELSE node[n]]
          /\ exec' = IF Outcome(nd) = "running" THEN exec ELSE Outcome(nd)
    BY <1>3 DEF Advance
  <2>2. \A n \in Nodes : node'[n] = node[n] \/ Lands(node[n], node'[n])
    BY <2>1
  <2>3. \A n \in Nodes : NodeRows!Allowed(node[n], node'[n])
    BY <2>2, LandsAllowed DEF NodeRows!Allowed
  <2>4. exec' = exec \/ (exec = "running" /\ exec' \in Ended)
    BY <2>1, OutcomeEnds
  <2>5. ExecutionRows!Allowed(exec, exec')
    BY <2>4 DEF ExecutionRows!Allowed, ExecutionRows!Moves, ExecutionRows!ExecutionMoves,
       ExecutionRows!Ends, Ended
  <2>6. QED BY <2>3, <2>5
<1>4. ASSUME NEW w \in Workers,
             \/ ClaimRoot(w) \/ LoadRoot(w) \/ BootstrapRefused(w) \/ LoadFailing(w) \/ FailBootstrap(w)
             \/ LoadExecution(w) \/ CallbackDone(w) \/ CheckChildren(w) \/ AdvanceConflict(w) \/ Crash(w)
      PROVE  UNCHANGED <<node, exec>>
  BY <1>4 DEF ClaimRoot, LoadRoot, BootstrapRefused, LoadFailing, FailBootstrap, LoadExecution,
     CallbackDone, CheckChildren, AdvanceConflict, Crash, tables
<1>5. ASSUME \/ LeaseExpires \/ UNCHANGED vars
             \/ \E n \in Nodes : ChildEnds(n)
             \/ \E s \in Sessions : LoadCommand(s) \/ SaveCommand(s)
      PROVE  UNCHANGED <<node, exec>>
  BY <1>5 DEF LeaseExpires, vars, tables, ChildEnds, ApiEndsChild, WorkerEndsChild, Ends, LoadCommand,
     SaveCommand
<1>6. QED
  BY <1>1, <1>2, <1>3, <1>4, <1>5 DEF Next, BootstrapStep, ReconcileStep

\* Nodes and executions follow their classes for every graph, any number of
\* racing reconcilers, and all commands: the detailed transactions implement
\* Lifecycle, and a node has a child exactly if it was dispatched.
THEOREM NodesKeepTheirLifecycle == Spec => NodesFollow
<1>1. Init => ChildInv /\ NodeRows!Init /\ ExecutionRows!Init
  BY DEF Init, ChildInv, NoNodes, NoCommand, NodeRows!Init, ExecutionRows!Init
<1>2. WorkflowInv /\ ChildInv /\ [Next]_vars => ChildInv'
  BY ChildNext DEF WorkflowInv
<1>3. ASSUME WorkflowInv, [Next]_vars
      PROVE  [NodeRows!Next]_node /\ [ExecutionRows!Next]_<<exec>>
  BY <1>3, StepAllowed DEF NodeRows!Next, ExecutionRows!Next
<1>4. ASSUME WorkflowInv, ChildInv
      PROVE  \A n \in Nodes : NodeRows!NodeShape(node[n], child[n] # "none")
  <2>1. \A n \in Nodes : child[n] # "none" <=> node[n] \in HasChild
    BY <1>4 DEF WorkflowInv, MadeInv, ChildInv
  <2>2. QED BY <2>1 DEF NodeRows!NodeShape, HasChild, Ended
<1>5. QED
  BY <1>1, <1>2, <1>3, <1>4, WorkflowInvariant, PTL
  DEF Spec, NodesFollow, NodeRows!Spec, ExecutionRows!Spec

-----------------------------------------------------------------------------
(* The root Run *)

\* A work item is there only while its Run may be executed, and is claimed
\* only while it runs: the claim is the fence of bootstrap and failure.
ClaimedInv ==
  row.present => root \in {"queued", "running"} /\ (row.holder # Nobody => root = "running")

\* Every step but cancel_task's keeps it and takes the root along a transition,
\* unless a command is stale.
LEMMA RootMoves ==
  ASSUME WorkflowInv, ClaimedInv, [Next]_vars, \A s \in Sessions : sess[s].name # "cancel_task"
  PROVE  /\ ClaimedInv'
         /\ RootRow!Next \/ \E s \in Sessions : SaveCommand(s) /\ ~Admits(sess[s].name, sess[s].node)
<1> USE DEF RootRow!Next, RootRow!Allowed, RootRow!Moves, RootRow!RunMoves
<1>1. ASSUME UNCHANGED <<root, row>> PROVE ClaimedInv' /\ RootRow!Next
  BY <1>1 DEF ClaimedInv
<1>2. ASSUME NEW w \in Workers, Holds(w) PROVE root = "running"
  BY <1>2, NobodyAssumption DEF Holds, ClaimedInv
<1>3. ASSUME NEW w \in Workers, ClaimRoot(w) PROVE ClaimedInv' /\ RootRow!Next
  BY <1>3 DEF ClaimRoot, ClaimedInv, Gone, WorkflowInv, TypeOK
<1>4. ASSUME NEW w \in Workers, Bootstrap(w) PROVE ClaimedInv' /\ RootRow!Next
  <2>1. PICK nd \in Schedules([n \in Nodes |-> "pending"]) :
          root' = IF Outcome(nd) = "running" THEN "waiting" ELSE Outcome(nd)
    BY <1>4 DEF Bootstrap
  <2>2. root = "running" /\ root' \in {"waiting"} \cup Ended /\ row' = Gone
    BY <1>2, <1>4, <2>1, OutcomeEnds DEF Bootstrap
  <2>3. QED BY <2>2 DEF ClaimedInv, Gone, Ended
<1>5. ASSUME NEW w \in Workers, FailBootstrap(w) PROVE ClaimedInv' /\ RootRow!Next
  <2>1. CASE Holds(w)
    BY <1>2, <1>5, <2>1 DEF FailBootstrap, ClaimedInv, Gone
  <2>2. CASE ~Holds(w)
    BY <1>1, <1>5, <2>2 DEF FailBootstrap
  <2>3. QED BY <2>1, <2>2
<1>6. ASSUME NEW w \in Workers, Advance(w) PROVE ClaimedInv' /\ RootRow!Next
  <2>1. PICK nd \in Schedules(Marked(w)) :
          IF Outcome(nd) # "running" /\ root = "waiting"
          THEN root' = Outcome(nd) /\ row' = Gone ELSE UNCHANGED <<root, row>>
    BY <1>6 DEF Advance
  <2>2. \/ root = "waiting" /\ root' \in Ended /\ row' = Gone
        \/ UNCHANGED <<root, row>>
    BY <2>1, OutcomeEnds
  <2>3. QED BY <1>1, <2>2 DEF ClaimedInv, Gone, Ended
<1>7. ASSUME NEW s \in Sessions, SaveCommand(s)
      PROVE  ClaimedInv' /\ (RootRow!Next \/ ~Admits(sess[s].name, sess[s].node))
  <2> DEFINE name == sess[s].name
  <2>1. name \in CommandNames \ {"cancel_task"}
    BY <1>7 DEF SaveCommand, WorkflowInv, TypeOK
  <2>2. /\ name = "start_run" => root' = "running"
        /\ name = "complete_run" => root' = "succeeded"
        /\ name = "fail_run" => root' = "failed"
        /\ name = "cancel_run" => root' = "cancelled"
        /\ name = "cancel_child" => root' = root
        /\ row' = IF name \in {"complete_run", "fail_run", "cancel_run"} THEN Gone ELSE row
    BY <1>7 DEF SaveCommand
  <2>3. ClaimedInv'
    BY <2>1, <2>2 DEF ClaimedInv, Gone, CommandNames
  <2>4. Admits(name, sess[s].node) => RootRow!Next
    BY <2>1, <2>2 DEF Admits, CommandNames, WorkflowInv, TypeOK, RootStatus, Ended
  <2>5. QED BY <2>3, <2>4
<1>8. ASSUME LeaseExpires PROVE ClaimedInv' /\ RootRow!Next
  BY <1>8 DEF LeaseExpires, ClaimedInv, WorkflowInv, TypeOK
<1>9. ASSUME NEW w \in Workers,
             \/ LoadRoot(w) \/ BootstrapRefused(w) \/ LoadFailing(w) \/ LoadExecution(w)
             \/ CallbackDone(w) \/ CheckChildren(w) \/ AdvanceConflict(w) \/ Crash(w)
      PROVE  UNCHANGED <<root, row>>
  BY <1>9 DEF LoadRoot, BootstrapRefused, LoadFailing, LoadExecution, CallbackDone, CheckChildren,
     AdvanceConflict, Crash, tables
<1>10. ASSUME \/ UNCHANGED vars
              \/ \E n \in Nodes : ChildEnds(n)
              \/ \E s \in Sessions : LoadCommand(s)
       PROVE  UNCHANGED <<root, row>>
  BY <1>10 DEF vars, tables, ChildEnds, ApiEndsChild, WorkerEndsChild, Ends, LoadCommand
<1> HIDE DEF RootRow!Next
<1>11. QED
  BY <1>1, <1>3, <1>4, <1>5, <1>6, <1>7, <1>8, <1>9, <1>10 DEF Next, BootstrapStep, ReconcileStep

\* A session only holds commands there are.
OfferedInv == \A s \in Sessions : sess[s] # NoCommand => sess[s].name \in Commands

\* Every step keeps it.
LEMMA OfferedNext ==
  ASSUME TypeOK, OfferedInv, [Next]_vars
  PROVE  OfferedInv'
<1>1. CASE sess' = sess
  BY <1>1 DEF OfferedInv
<1>2. ASSUME NEW s \in Sessions, LoadCommand(s) \/ SaveCommand(s) PROVE OfferedInv'
  <2>1. \/ sess' = [sess EXCEPT ![s] = NoCommand]
        \/ \E name \in Commands, n \in Nodes : sess' = [sess EXCEPT ![s] = [name |-> name, node |-> n]]
    BY <1>2 DEF LoadCommand, SaveCommand
  <2>2. /\ \A t \in Sessions \ {s} : sess'[t] = sess[t]
        /\ sess'[s] = NoCommand \/ sess'[s].name \in Commands
    BY <2>1 DEF TypeOK
  <2>3. QED BY <2>2 DEF OfferedInv
<1>3. ASSUME ~\E s \in Sessions : LoadCommand(s) \/ SaveCommand(s) PROVE sess' = sess
  <2>1. ASSUME NEW w \in Workers,
               \/ ClaimRoot(w) \/ LoadRoot(w) \/ Bootstrap(w) \/ BootstrapRefused(w) \/ LoadFailing(w)
               \/ FailBootstrap(w) \/ LoadExecution(w) \/ CallbackDone(w) \/ CheckChildren(w) \/ Advance(w)
               \/ AdvanceConflict(w) \/ Crash(w)
        PROVE  sess' = sess
    BY <2>1 DEF ClaimRoot, LoadRoot, Bootstrap, BootstrapRefused, LoadFailing, FailBootstrap,
       LoadExecution, CallbackDone, CheckChildren, Advance, AdvanceConflict, Crash
  <2>2. ASSUME LeaseExpires \/ UNCHANGED vars \/ \E n \in Nodes : ChildEnds(n)
        PROVE  sess' = sess
    BY <2>2 DEF LeaseExpires, vars, ChildEnds, ApiEndsChild, WorkerEndsChild, Ends
  <2>3. QED BY <1>3, <2>1, <2>2 DEF Next, BootstrapStep, ReconcileStep
<1>4. QED BY <1>1, <1>2, <1>3

\* Nothing but a stale command takes the root Run off its lifecycle: bootstrap,
\* failure and reconciliation by any number of workers never do.
THEOREM RootKeptUnlessStale == Spec => RootUnlessStale
<1> SUFFICES ASSUME "cancel_task" \notin Commands
             PROVE  Spec => [][RootRow!Next \/ \E s \in Sessions :
                                 SaveCommand(s) /\ ~Admits(sess[s].name, sess[s].node)]_vars
  BY DEF RootUnlessStale
<1>1. Init => ClaimedInv /\ OfferedInv
  BY DEF Init, ClaimedInv, OfferedInv
<1>2. ASSUME WorkflowInv, ClaimedInv, OfferedInv, [Next]_vars
      PROVE  /\ ClaimedInv' /\ OfferedInv'
             /\ RootRow!Next \/ \E s \in Sessions : SaveCommand(s) /\ ~Admits(sess[s].name, sess[s].node)
  <2>1. \A s \in Sessions : sess[s].name # "cancel_task"
    BY <1>2 DEF OfferedInv, NoCommand
  <2>2. QED BY <1>2, <2>1, RootMoves, OfferedNext DEF WorkflowInv
<1>3. QED BY <1>1, <1>2, WorkflowInvariant, PTL DEF Spec

\* Where the API settles no more than child Runs, the root Run keeps its
\* lifecycle, for every graph and any number of workers.
THEOREM RootKeepsItsLifecycle ==
  ASSUME Commands \subseteq {"cancel_child"}
  PROVE  Spec => RootFollows
<1>1. Init => ClaimedInv /\ OfferedInv /\ RootRow!Init
  BY DEF Init, ClaimedInv, OfferedInv, RootRow!Init, RootRow!First
<1>2. ASSUME WorkflowInv, ClaimedInv, OfferedInv, [Next]_vars
      PROVE  ClaimedInv' /\ OfferedInv' /\ RootRow!Next
  <2>1. \A s \in Sessions : sess[s].name # "cancel_task"
    BY <1>2 DEF OfferedInv, NoCommand
  <2>2. ASSUME NEW s \in Sessions, SaveCommand(s) PROVE root' = root
    <3>1. sess[s] # NoCommand
      BY <2>2 DEF SaveCommand
    <3>2. sess[s].name = "cancel_child"
      BY <1>2, <3>1 DEF OfferedInv
    <3>3. QED BY <2>2, <3>2 DEF SaveCommand
  <2>3. root' = root => RootRow!Next
    BY DEF RootRow!Next, RootRow!Allowed
  <2>4. QED BY <1>2, <2>1, <2>2, <2>3, RootMoves, OfferedNext DEF WorkflowInv
<1>3. QED BY <1>1, <1>2, WorkflowInvariant, PTL DEF Spec, RootFollows, RootRow!Spec
=============================================================================
