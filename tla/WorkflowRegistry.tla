-------------------------- MODULE WorkflowRegistry --------------------------
(***************************************************************************)
(* The registry of workflows: one workflow row, its numbered revisions,    *)
(* and the commands of workflow_registry.py, each of which reads in one    *)
(* step and writes in another.  A revision is accepted only if its graph   *)
(* is (validate_workflow_dag), and a root Run freezes the active one when  *)
(* it is started.                                                          *)
(***************************************************************************)
EXTENDS Naturals, Sequences, FiniteSets, Functions

CONSTANTS
  Inputs,                \* the graphs that are submitted: [nodes, edges], both sequences
  MaxNodes, MaxEdges,    \* MAX_WORKFLOW_NODES, MAX_WORKFLOW_EDGES
  MaxVersion,            \* bound on the revisions
  Sessions

VARIABLES
  wf,      \* the workflow row
  revs,    \* version -> graph
  sess,    \* what each operator has read
  root     \* the root Run: what it read, and the revision it was frozen to

vars == <<wf, revs, sess, root>>

Row == [status : {"active", "disabled", "archived"}, active : 0 .. MaxVersion]

Closed == [op |-> "none"]

Init ==
  /\ wf = [status |-> "active", active |-> 0]
  /\ revs = <<>>
  /\ sess = [c \in Sessions |-> Closed]
  /\ root = [pc |-> "queued", version |-> 0]

-----------------------------------------------------------------------------
(* Whether a graph is accepted. *)

Distinct(s) == IsInjective(s)

\* The edges name nodes of the revision, and no node twice.
Endpoints(g) == \A e \in Range(g.edges) : {e[1], e[2]} \subseteq Range(g.nodes) /\ e[1] # e[2]

WithinLimits(g) ==
  /\ g.nodes # <<>>
  /\ Len(g.nodes) <= MaxNodes /\ Len(g.edges) <= MaxEdges

\* The nodes all of whose predecessors were visited have an indegree of zero.
Free_Any(g, visited) ==
  {n \in Range(g.nodes) :
     LET P == {e \in Range(g.edges) : e[2] = n} IN P = {} \/ \E e \in P : e[1] \in visited}
Free(g, visited) == {n \in Range(g.nodes) : \A e \in Range(g.edges) : e[2] = n => e[1] \in visited}

\* What the queue has visited after k rounds; each round visits a node, or the queue is empty.
Visited(g) ==
  LET after[k \in 0 .. Len(g.nodes)] == IF k = 0 THEN {} ELSE Free(g, after[k - 1])
  IN  after[Len(g.nodes)]

ValidateWorkflowDag(g) ==
  /\ WithinLimits(g)
  /\ Distinct(g.nodes) /\ Distinct(g.edges)
  /\ Endpoints(g)
  /\ Cardinality(Visited(g)) = Len(g.nodes)

-----------------------------------------------------------------------------
(* The commands. *)

Open(c, s) ==
  /\ sess[c] = Closed
  /\ sess' = [sess EXCEPT ![c] = s]
  /\ UNCHANGED <<wf, revs, root>>

Close(c) == sess' = [sess EXCEPT ![c] = Closed]

\* next_version is read before the revision is inserted.
LoadCreateRevision(c, g) ==
  /\ wf.status # "archived" /\ Len(revs) < MaxVersion
  /\ Open(c, [op |-> "revise", graph |-> g, valid |-> ValidateWorkflowDag(g),
              version |-> Len(revs) + 1])

\* The unique (workflow, version) makes the later of two equal versions a conflict.
Numbered_Merged(c) == TRUE
Numbered(c) == sess[c].version = Len(revs) + 1

CreateWorkflowRevision(c) ==
  /\ sess[c].op = "revise"
  /\ IF sess[c].valid /\ Numbered(c)
     THEN revs' = [v \in DOMAIN revs \cup {sess[c].version} |->
                     IF v = sess[c].version THEN sess[c].graph ELSE revs[v]]
     ELSE UNCHANGED revs
  /\ Close(c)
  /\ UNCHANGED <<wf, root>>

LoadActivate(c, v) ==
  /\ v \in DOMAIN revs /\ wf.status # "archived"
  /\ Open(c, [op |-> "save", row |-> [status |-> "active", active |-> v]])

LoadLifecycle(c, to) ==
  /\ to = "disabled" => wf.status # "archived"
  /\ Open(c, [op |-> "save", row |-> [wf EXCEPT !.status = to]])

SaveWorkflow(c) ==
  /\ sess[c].op = "save"
  /\ wf' = sess[c].row
  /\ Close(c)
  /\ UNCHANGED <<revs, root>>

\* _load_active_revision: what a root Run will be frozen to.
LoadActiveRevision ==
  /\ root.pc = "queued"
  /\ wf.status = "active" /\ wf.active # 0
  /\ root' = [pc |-> "resolved", version |-> wf.active]
  /\ UNCHANGED <<wf, revs, sess>>

\* _load_frozen_revision and the bootstrap: the digest is that of the revision's rows.
Freeze ==
  /\ root.pc = "resolved"
  /\ root' = [root EXCEPT !.pc = "started"]
  /\ UNCHANGED <<wf, revs, sess>>

Next ==
  \/ \E c \in Sessions :
       \/ \E g \in Inputs : LoadCreateRevision(c, g)
       \/ CreateWorkflowRevision(c)
       \/ \E v \in 1 .. MaxVersion : LoadActivate(c, v)
       \/ \E to \in {"disabled", "archived"} : LoadLifecycle(c, to)
       \/ SaveWorkflow(c)
  \/ LoadActiveRevision \/ Freeze

Spec == Init /\ [][Next]_vars

-----------------------------------------------------------------------------
TypeOK ==
  /\ wf \in Row
  /\ DOMAIN revs \subseteq 1 .. MaxVersion
  /\ root \in [pc : {"queued", "resolved", "started"}, version : 0 .. MaxVersion]
  /\ \A c \in Sessions : sess[c].op \in {"none", "revise", "save"}

\* A graph whose nodes can be put in an order that its edges follow.
Sound(g) ==
  /\ g.nodes # <<>> /\ Len(g.nodes) <= MaxNodes /\ Len(g.edges) <= MaxEdges
  /\ Cardinality(Range(g.nodes)) = Len(g.nodes) /\ Cardinality(Range(g.edges)) = Len(g.edges)
  /\ \E order \in [Range(g.nodes) -> 1 .. Len(g.nodes)] :
       \A e \in Range(g.edges) :
          /\ e[1] \in Range(g.nodes) /\ e[2] \in Range(g.nodes)
          /\ order[e[1]] < order[e[2]]

(* A graph is accepted exactly if its nodes can be put in an order that its edges follow, with no node   *)
(* or edge named twice (validate_workflow_dag).                                                         *)
ValidationIsExact == \A c \in Sessions : sess[c].op = "revise" => (sess[c].valid <=> Sound(sess[c].graph))

(* Revisions are numbered without gaps and never replaced, and what is active, or was frozen to a Run,   *)
(* is one of them (next_version, the unique version, _load_frozen_revision).                            *)
RevisionsStay ==
  /\ DOMAIN revs' \in {1 .. k : k \in 0 .. MaxVersion}
  /\ \A v \in DOMAIN revs : v \in DOMAIN revs' /\ revs'[v] = revs[v]
  /\ {wf'.active, root'.version} \subseteq DOMAIN revs' \cup {0}
  /\ root.pc # "queued" => root'.version = root.version
=============================================================================
