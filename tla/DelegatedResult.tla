-------------------------- MODULE DelegatedResult --------------------------
(***************************************************************************)
(* What a parent is shown of a delegated result.  The values that carry    *)
(* authority anywhere below the delegation are collected, execution by     *)
(* execution, and taken out of the child's summary and details together    *)
(* with what a label or a key marks.  A text is a sequence of fragments,   *)
(* and so is a value: one value may be the beginning of another.  Ids are  *)
(* texts; no id of the lineage is an integer.                              *)
(***************************************************************************)
EXTENDS Naturals, Sequences, FiniteSets, SequencesExt

CONSTANTS
  Lineages,    \* [value, values : execution -> values, requests : execution -> [id, value, child]]
  Results      \* [summary : text, details : JSON]

Redacted == "[redacted]"
Label == "label="      \* a label of _LABEL_PATTERNS with its separator
Gap == " "             \* what ends the value of a label
SensitiveKeys == {<<"approval_id">>}

\* JSON: texts, lists and objects; an object is its entries in their order.
Text(t) == [kind |-> "text", text |-> t]
List(s) == [kind |-> "list", items |-> s]
Entry(k, v) == [key |-> k, value |-> v]
Object(s) == [kind |-> "object", entries |-> s]

VARIABLES lineage, result, known, pending, seen, seenRequests, view

vars == <<lineage, result, known, pending, seen, seenRequests, view>>

\* The delegation itself, request 0 to execution 1, has a fingerprint too.
Init ==
  /\ lineage \in Lineages /\ result \in Results
  /\ known = {lineage.value}
  /\ pending = <<1>> /\ seen = {} /\ seenRequests = {0}
  /\ view = {}

-----------------------------------------------------------------------------
(* _delegated_lineage_authority_values *)

\* Mutant: only the requests of the child itself are followed.
Nested_Shallow(e) == IF e = 1 THEN {r \in lineage.requests[e] : r.id \notin seenRequests} ELSE {}

\* The requests of an execution that were not met yet.
Nested(e) == {r \in lineage.requests[e] : r.id \notin seenRequests}

\* Approvals, invocations, fingerprints and claim tokens of every Run of the execution.
Remembered(e) == lineage.values[e]

CollectExecution ==
  /\ view = {} /\ pending # <<>>
  /\ LET e == Last(pending)
         nested == IF e \in seen THEN {} ELSE Nested(e)
     IN  /\ pending' = Front(pending) \o SetToSeq({r.child : r \in {q \in nested : q.child # 0}})
         /\ known' = known \cup (IF e \in seen THEN {} ELSE Remembered(e)) \cup {r.value : r \in nested}
         /\ seen' = seen \cup {e}
         /\ seenRequests' = seenRequests \cup {r.id : r \in nested}
  /\ UNCHANGED <<lineage, result, view>>

-----------------------------------------------------------------------------
(* sanitize_delegation_result_text, sanitize_delegation_result_value *)

\* The value after a label, up to the next gap, is one redaction.
Labelled(t) ==
  LET inside(i) == \E j \in 1 .. i - 1 : t[j] = Label /\ \A k \in j .. i : t[k] # Gap
      begins(i) == inside(i) /\ ~inside(i - 1)
  IN  FlattenSeq([i \in DOMAIN t |-> IF ~inside(i) THEN <<t[i]>>
                                     ELSE IF begins(i) THEN <<Redacted>> ELSE <<>>])

RECURSIVE Replace(_, _)
Replace(t, v) ==
  IF Len(t) < Len(v) THEN t
  ELSE IF SubSeq(t, 1, Len(v)) = v THEN <<Redacted>> \o Replace(SubSeq(t, Len(v) + 1, Len(t)), v)
  ELSE <<t[1]>> \o Replace(Tail(t), v)

Listed(V) == FoldSet(LAMBDA v, s : Append(s, v), <<>>, V)

\* Mutant: the shortest value first.
LongestFirst_Shortest(V) == SortSeq(Listed(V), LAMBDA a, b : Len(a) <= Len(b))
LongestFirst(V) == SortSeq(Listed(V), LAMBDA a, b : Len(a) >= Len(b))

\* V: the values in their order.
Scrub(t, V) == FoldLeft(Replace, t, V)

SanitizeText(t, V) == Scrub(Labelled(t), V)

\* Of two entries whose keys have become the same, the later stays.
Distinct(entries) ==
  LET last == SelectSeq([i \in DOMAIN entries |-> i],
                        LAMBDA i : \A j \in DOMAIN entries : entries[j].key = entries[i].key => j <= i)
  IN  [i \in DOMAIN last |-> entries[last[i]]]

RECURSIVE Sanitize(_, _)
Sanitize(x, V) ==
  CASE x.kind = "text" -> Text(SanitizeText(x.text, V))
    [] x.kind = "list" -> List([i \in DOMAIN x.items |-> Sanitize(x.items[i], V)])
    [] x.kind = "object" ->
         Object(Distinct([i \in DOMAIN x.entries |->
           Entry(Scrub(x.entries[i].key, V),
                 IF x.entries[i].key \in SensitiveKeys THEN Text(<<Redacted>>)
                 ELSE Sanitize(x.entries[i].value, V))]))

Projected(r, rendered) ==
  LET V == LongestFirst(known) IN
  [summary |-> SanitizeText(r.summary, V), details |-> Sanitize(r.details, V), rendered |-> rendered]

ProjectDelegatedResult ==
  /\ view = {} /\ pending = <<>>
  /\ view' = {Projected(result, FALSE)}
  /\ UNCHANGED <<lineage, result, known, pending, seen, seenRequests>>

\* The document of a turn projects it once more.
RenderDelegations ==
  /\ \E w \in view : ~w.rendered /\ view' = {Projected(w, TRUE)}
  /\ UNCHANGED <<lineage, result, known, pending, seen, seenRequests>>

Next == CollectExecution \/ ProjectDelegatedResult \/ RenderDelegations

Spec == Init /\ [][Next]_vars

-----------------------------------------------------------------------------
TypeOK ==
  /\ lineage \in Lineages /\ result \in Results
  /\ seen \subseteq DOMAIN lineage.values
  /\ ToSet(pending) \subseteq DOMAIN lineage.values
  /\ Cardinality(view) <= 1

\* The executions below the delegation: those in every set that has its child and is closed.
Below ==
  {e \in DOMAIN lineage.values :
     \A S \in SUBSET (DOMAIN lineage.values) :
        1 \in S /\ (\A r \in UNION {lineage.requests[g] : g \in S} : r.child \in S \cup {0}) => e \in S}
Authority ==
  {lineage.value} \cup
    UNION {lineage.values[e] \cup {r.value : r \in lineage.requests[e]} : e \in Below}

\* The texts of a value, each with the keys and positions that lead to it.
RECURSIVE Leaves(_)
Leaves(x) ==
  CASE x.kind = "text" -> {[at |-> <<>>, text |-> x.text]}
    [] x.kind = "list" ->
         UNION {{[at |-> <<<<"item">>>> \o l.at, text |-> l.text] : l \in Leaves(x.items[i])} : i \in DOMAIN x.items}
    [] x.kind = "object" ->
         UNION {{[at |-> <<x.entries[i].key>> \o l.at, text |-> l.text] : l \in Leaves(x.entries[i].value)}
                : i \in DOMAIN x.entries}

Occurs(v, t) == \E i \in 1 .. Len(t) - Len(v) + 1 : SubSeq(t, i, i + Len(v) - 1) = v

(* No value with authority anywhere below the delegation reaches the parent, in a text or a key, nor    *)
(* does what a label or a sensitive key marks; a value leaves no remains where another value begins     *)
(* like it; and "ordinary data that contains no authority value survives intact"                        *)
(* (project_delegated_result, delegation_result_safety.py:209).                                         *)
NothingWithAuthority ==
  \A w \in view :
    LET mine == Leaves(result.details)
        secret == Authority
        Carries(t) == \E v \in secret : Occurs(v, t)
        shown == Leaves(w.details) \cup {[at |-> <<>>, text |-> w.summary]}
    IN  /\ \A l \in shown : ~Carries(l.text) /\ \A i \in DOMAIN l.at : ~Carries(l.at[i])
        /\ result.summary \in secret => w.summary = <<Redacted>>
        /\ \A l \in shown : ToSet(l.at) \cap SensitiveKeys # {} => l.text = <<Redacted>>
        /\ \A l \in shown : \A i \in 1 .. Len(l.text) - 1 :
              l.text[i] = Label => l.text[i + 1] \in {Redacted, Gap}
        /\ \A l \in mine :
              ~Carries(l.text) /\ Label \notin ToSet(l.text)
                /\ (\A i \in DOMAIN l.at : ~Carries(l.at[i]) /\ l.at[i] \notin SensitiveKeys)
                => l \in shown
=============================================================================
