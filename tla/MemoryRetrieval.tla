-------------------------- MODULE MemoryRetrieval --------------------------
(***************************************************************************)
(* MemoryRetriever.retrieve: the notes a turn is given.  It asks for the   *)
(* status of the structural index, takes the source hash, scans the notes  *)
(* one by one, adds what the graph of the fresh index relates to the       *)
(* query, and reads the best candidates again, while people edit notes and *)
(* a builder promotes new indexes.  A note is what the query finds in it,  *)
(* its length and whether it is eligible; one that is private, excluded or *)
(* deleted is not.  Scores are in sixtieths.  That a view of the graph is  *)
(* of one generation is in MemoryIndex.                                    *)
(***************************************************************************)
EXTENDS Naturals, Sequences, FiniteSets, SequencesExt, FiniteSetsExt

CONSTANTS
  Paths,            \* the notes, in the order of their paths
  Concepts,         \* nodes of the graph that are no documents
  Links,            \* the links Graphify finds, in their order
  Contents,         \* what a note may become
  Asked,            \* what the query has: titles, tags, terms, phrases
  MaxCandidates, MaxExcerpts, MaxExcerptChars, MaxChars, MaxDepth, MaxVisited,
  MaxScanned,       \* index_max_files_per_scan
  MaxEdits, MaxIndexes   \* bounds

VARIABLES
  notes,            \* path -> content
  index,            \* the active index: its id, and the notes it was built from
  edits,
  pc, status, scanned, found, ranked, context

vars == <<notes, index, edits, pc, status, scanned, found, ranked, context>>

Path == ToSet(Paths)
Signals == {"title", "alias", "tag", "heading", "filename", "phrase", "body", "label", "part"}
Methods == {"title", "alias", "tag", "heading", "filename", "phrase", "body", "node", "neighbor"}
Modes == {"none", "lexical_only", "hybrid", "unavailable"}
Far == MaxDepth + 1      \* no graph distance

\* The notes the source hash is of.
Included(n) == {<<p, n[p]>> : p \in {q \in Path : n[q].eligible}}

Vaults == [Path -> {c \in Contents : c.eligible}]

Init ==
  /\ notes \in Vaults
  /\ index \in {[id |-> 0, of |-> {}], [id |-> 1, of |-> Included(notes)]}
  /\ edits = 0
  /\ pc = "status" /\ status = [state |-> "missing", id |-> 0]
  /\ scanned = 0 /\ found = {} /\ ranked = <<>>
  /\ context = [mode |-> "none", excerpts |-> <<>>, chars |-> 0, id |-> 0]

-----------------------------------------------------------------------------
(* The lexical score of a note. *)

Weight == [title |-> 600, alias |-> 480, tag |-> 420, heading |-> 360, filename |-> 300,
           phrase |-> 240, body |-> 60]

\* What each signal is looked for with.
Looked(s) ==
  CASE s \in {"title", "alias"} -> "titles" \in Asked
    [] s = "tag" -> "tags" \in Asked
    [] s \in {"filename", "body"} -> "terms" \in Asked
    [] s = "phrase" -> "phrases" \in Asked
    [] s = "heading" -> Asked \cap {"terms", "phrases"} # {}

\* A title wins over an alias; the body is opened for phrases, and for terms
\* only if nothing else matched; a phrase wins over a term.
Matched(c) ==
  LET hits == {s \in c.signals \cap DOMAIN Weight : Looked(s)}
      head == (hits \ {"phrase", "body"}) \ (IF "title" \in hits THEN {"alias"} ELSE {})
      opened == "phrases" \in Asked \/ head = {}
      tail == IF ~opened THEN {}
              ELSE IF "phrase" \in hits THEN {"phrase"} ELSE hits \cap {"body"}
  IN  head \cup tail

Worth(S) == SumSet({Weight[s] : s \in S})

Candidate(p, methods, score, distance, id) ==
  [path |-> p, methods |-> methods, score |-> score, distance |-> distance, id |-> id]

-----------------------------------------------------------------------------
(* What a view of the graph gives. *)

Take(s, n) == IF Len(s) <= n THEN s ELSE SubSeq(s, 1, n)

\* Nodes whose label is a title, then nodes whose label has a term or a phrase.
Direct(g) ==
  LET has(p, s) == \E e \in g.of : e[1] = p /\ s \in e[2].signals
      titled == SelectSeq(Paths, LAMBDA p : has(p, "label") /\ "titles" \in Asked)
      partly == SelectSeq(Paths, LAMBDA p : /\ has(p, "part") /\ Asked \cap {"terms", "phrases"} # {}
                                            /\ p \notin ToSet(titled))
  IN  Take(titled \o partly, MaxCandidates)

\* A link exists where both its ends do, and is followed both ways.
Nodes(g) == {e[1] : e \in g.of} \cup Concepts
Adjacent(g, n) ==
  LET mine == SelectSeq(Links, LAMBDA l : {l[1], l[2]} \subseteq Nodes(g) /\ n \in {l[1], l[2]})
  IN  [i \in DOMAIN mine |-> IF mine[i][1] = n THEN mine[i][2] ELSE mine[i][1]]

\* The order of the breadth-first search, as <<node, distance>>.
Search(g, start) ==
  LET next(seen, d) ==
        FoldLeft(LAMBDA acc, n : IF \E e \in ToSet(acc) : e[1] = n THEN acc ELSE Append(acc, <<n, d>>),
                 seen, FlattenSeq([i \in DOMAIN seen |->
                          IF seen[i][2] = d - 1 THEN Adjacent(g, seen[i][1]) ELSE <<>>]))
      level[d \in 0 .. MaxDepth] == IF d = 0 THEN <<<<start, 0>>>> ELSE next(level[d - 1], d)
  IN  SelectSeq(level[MaxDepth], LAMBDA e : e[2] > 0 /\ e[1] \in Path)

\* The direct hits share what may be visited.
Neighbors(g) ==
  FoldLeft(LAMBDA acc, p : acc \o Take(Search(g, p), MaxVisited - Len(acc)), <<>>, Direct(g))

Exact(g, p) == \E e \in g.of : e[1] = p /\ "label" \in e[2].signals /\ "titles" \in Asked
Structural(g) ==
  {Candidate(p, {"node"}, IF Exact(g, p) THEN 60 ELSE 54, Far, g.id) : p \in ToSet(Direct(g))}
    \cup {Candidate(e[1], {"neighbor"}, 60, e[2], g.id) : e \in ToSet(Neighbors(g))}

-----------------------------------------------------------------------------
(* _rank: one candidate per path. *)

\* Mutant: a method counts as much as a match.
Bonus_Large == 60

\* _METHOD_BONUS
Bonus == 6

\* Mutant: the first candidate's snapshot is kept, though it has none.
Merged_First(S) ==
  {LET mine == {c \in S : c.path = p} IN
     Candidate(p, UNION {c.methods : c \in mine}, Max({c.score : c \in mine}),
               Min({c.distance : c \in mine}), Min({c.id : c \in mine}))
   : p \in {c.path : c \in S}}

Merged(S) ==
  {LET mine == {c \in S : c.path = p} IN
     Candidate(p, UNION {c.methods : c \in mine}, Max({c.score : c \in mine}),
               Min({c.distance : c \in mine}), Max({c.id : c \in mine}))
   : p \in {c.path : c \in S}}

Score(c) ==
  c.score + (IF c.distance = Far THEN 0 ELSE 60 \div (c.distance + 1))
    + Bonus * (Cardinality(c.methods) - 1)

Position(p) == CHOOSE i \in DOMAIN Paths : Paths[i] = p
Better(c, d) ==
  Score(c) > Score(d) \/ (Score(c) = Score(d) /\ Position(c.path) < Position(d.path))

Ranked(S) == Take(SetToSortSeq(S, Better), MaxCandidates)

-----------------------------------------------------------------------------
Fresh == index.id # 0 /\ index.of = Included(notes)

\* An error of status() counts as a missing index.
IndexStatus ==
  /\ pc = "status"
  /\ status' \in {[state |-> "missing", id |-> 0],
                  [state |-> IF index.id = 0 THEN "missing" ELSE IF Fresh THEN "fresh" ELSE "stale",
                   id |-> index.id]}
  /\ pc' = "hash"
  /\ UNCHANGED <<notes, index, edits, scanned, found, ranked, context>>

Unavailable ==
  /\ pc' = "done"
  /\ context' = [context EXCEPT !.mode = "unavailable"]
  /\ UNCHANGED <<notes, index, edits, status, scanned, found, ranked>>

SourceSnapshotHash ==
  /\ pc = "hash"
  /\ \/ pc' = "scan" /\ UNCHANGED <<notes, index, edits, status, scanned, found, ranked, context>>
     \/ Unavailable

\* One note of LexicalIndexStore.search.
ScanNote ==
  /\ pc = "scan" /\ scanned < Len(Paths) /\ scanned < MaxScanned
  /\ LET p == Paths[scanned + 1]
         m == Matched(notes[p])
     IN  found' = IF notes[p].eligible /\ m # {}
                  THEN found \cup {Candidate(p, m, Worth(m), Far, 0)} ELSE found
  /\ scanned' = scanned + 1
  /\ UNCHANGED <<notes, index, edits, pc, status, ranked, context>>

\* The best of them by their score alone.
Relevant(c, d) ==
  c.score > d.score \/ (c.score = d.score /\ Position(c.path) < Position(d.path))
Limited(S) == ToSet(Take(SetToSortSeq(S, Relevant), MaxCandidates))

SearchLexical ==
  /\ pc = "scan" /\ (scanned = Len(Paths) \/ scanned >= MaxScanned)
  /\ \/ /\ found' = Limited(found) /\ pc' = "structural"
        /\ UNCHANGED <<notes, index, edits, status, scanned, ranked, context>>
     \/ Unavailable

\* Mutant: any index will do.
Fenced_Any == index.id # 0

\* A promotion since the status was read makes the graph ineligible.
Fenced == index.id = status.id

StructuralCandidates ==
  /\ pc = "structural"
  /\ \E usable \in BOOLEAN :
       LET hybrid == usable /\ status.state = "fresh" /\ Fenced IN
       /\ ranked' = Ranked(Merged(found \cup (IF hybrid THEN Structural(index) ELSE {})))
       /\ context' = [context EXCEPT !.mode = IF hybrid THEN "hybrid" ELSE "lexical_only",
                                     !.id = IF hybrid THEN status.id ELSE 0]
  /\ pc' = "read"
  /\ UNCHANGED <<notes, index, edits, status, scanned, found>>

\* Mutant: what the search found is trusted.
Eligible_Trusted(n) == TRUE

\* read_excerpt trusts no candidate: the note is read and judged again.
Eligible(n) == n.eligible
Chars(n) == IF n.chars > MaxExcerptChars THEN MaxExcerptChars ELSE n.chars

ReadExcerpt ==
  /\ pc = "read" /\ ranked # <<>> /\ Len(context.excerpts) < MaxExcerpts
  /\ LET c == ranked[1]
         n == notes[c.path]
     IN  IF ~Eligible(n) THEN ranked' = Tail(ranked) /\ UNCHANGED <<pc, context>>
         ELSE IF context.chars + Chars(n) > MaxChars THEN pc' = "done" /\ UNCHANGED <<ranked, context>>
         ELSE /\ ranked' = Tail(ranked)
              /\ context' = [context EXCEPT !.excerpts = Append(@, [c |-> c, note |-> n]),
                                            !.chars = @ + Chars(n)]
              /\ UNCHANGED pc
  /\ UNCHANGED <<notes, index, edits, status, scanned, found>>

BuildContext ==
  /\ pc = "read" /\ (ranked = <<>> \/ Len(context.excerpts) = MaxExcerpts)
  /\ pc' = "done"
  /\ UNCHANGED <<notes, index, edits, status, scanned, found, ranked, context>>

-----------------------------------------------------------------------------
EditNote(p, c) ==
  /\ edits < MaxEdits /\ notes[p] # c /\ pc # "done"
  /\ notes' = [notes EXCEPT ![p] = c] /\ edits' = edits + 1
  /\ UNCHANGED <<index, pc, status, scanned, found, ranked, context>>

PromoteIndex ==
  /\ index.id < MaxIndexes /\ ~Fresh /\ pc # "done"
  /\ index' = [id |-> index.id + 1, of |-> Included(notes)]
  /\ UNCHANGED <<notes, edits, pc, status, scanned, found, ranked, context>>

Next ==
  \/ IndexStatus \/ SourceSnapshotHash \/ ScanNote \/ SearchLexical \/ StructuralCandidates
  \/ ReadExcerpt \/ BuildContext \/ PromoteIndex
  \/ \E p \in Path, c \in Contents : EditNote(p, c)

Spec == Init /\ [][Next]_vars

-----------------------------------------------------------------------------
TypeOK ==
  /\ notes \in [Path -> Contents]
  /\ index.id \in 0 .. MaxIndexes /\ edits \in 0 .. MaxEdits
  /\ pc \in {"status", "hash", "scan", "structural", "read", "done"}
  /\ status \in [state : {"missing", "stale", "fresh"}, id : 0 .. MaxIndexes]
  /\ scanned \in 0 .. Len(Paths)
  /\ \A c \in found \cup ToSet(ranked) : c.path \in Path /\ c.methods \in SUBSET Methods
  /\ context.mode \in Modes /\ context.id \in 0 .. MaxIndexes

(* What a turn is given was eligible when it was read, stays within every limit and names no note       *)
(* twice.  Whatever came from the graph is of the index that was fresh, and the context says which:     *)
(* hybrid exactly with such an index.  At one distance, the notes are in the order of their relevance:  *)
(* "the small per-method bonus cannot outweigh a material relevance difference"                         *)
(* (MemoryRetriever.retrieve, retrieval.py:69-70; ObsidianVaultStore.read_excerpt).                     *)
ContextIsHonest ==
  LET E == context.excerpts IN
  /\ \A i \in DOMAIN E :
       /\ E[i].note.eligible
       /\ E[i].c.id \in {0, context.id}
       /\ E[i].c.methods \cap {"node", "neighbor"} # {} <=> E[i].c.id # 0
  /\ context.mode = "hybrid" <=> context.id # 0
  /\ context.id # 0 => status = [state |-> "fresh", id |-> context.id]
  /\ Len(E) <= MaxExcerpts /\ context.chars <= MaxChars
  /\ \A i, j \in DOMAIN E : i < j =>
       /\ E[i].c.path # E[j].c.path
       /\ E[i].c.distance = E[j].c.distance => E[i].c.score >= E[j].c.score
=============================================================================
