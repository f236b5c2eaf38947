--------------------------- MODULE RuntimeContext ---------------------------
(***************************************************************************)
(* build_runtime_context: the document a model turn is given, put together *)
(* under a character budget.  Texts are their lengths.  Items are dropped  *)
(* one at a time until the core fits; skills, the agent's instructions,    *)
(* delegated input and the workflow context are taken whole or refused.    *)
(***************************************************************************)
EXTENDS Integers, Sequences, FiniteSets, SequencesExt

CONSTANTS MaxChars,          \* max_chars
          MinCore,      \* MIN_CONTEXT_CHARS
          MaxSkills, MaxAgent,   \* max_skill_context_chars, max_agent_context_chars
          Sep,          \* the blank line between sections
          MaxItems,     \* bound: items of each kind in the snapshot
          SkillLens, AgentLens, DelegatedLens, WorkflowLens, MemoryLens, MessageLens

VARIABLES in,           \* the snapshot, by length
          omitted,      \* _Omitted
          pc,           \* check, core, done, or the error raised
          core,         \* length of the core document
          conv, memory, workflow   \* lengths of the sections added to it

vars == <<in, omitted, pc, core, conv, memory, workflow>>

\* The order in which _next_drop gives items up, the oldest of a kind first.
DropOrder == <<"events", "invocations", "approvals", "artifacts", "turns">>
Kinds == ToSet(DropOrder)
Omitted == [items : [Kinds -> 0..MaxItems], description : BOOLEAN]
Snapshot == [items : [Kinds -> 0..MaxItems], description : {0, 2}, skills : SkillLens,
             agent : AgentLens, delegated : DelegatedLens, workflow : WorkflowLens,
             memory : MemoryLens, messages : BoundedSeq(MessageLens, 2)]
Errors == {"skill_context_too_large", "agent_context_too_large", "delegated_context_too_large",
           "workflow_context_too_large"}
NoneOmitted == [items |-> [k \in Kinds |-> 0], description |-> FALSE]

TypeOK ==
    /\ omitted \in Omitted
    /\ pc \in {"check", "core", "done"} \cup Errors
    /\ {core, conv, memory, workflow} \subseteq 0..(2 * MaxChars)

Init ==
    /\ in \in Snapshot
    /\ omitted = NoneOmitted
    /\ pc = "check"
    /\ core = 0 /\ conv = 0 /\ memory = 0 /\ workflow = 0

-----------------------------------------------------------------------------
\* A section and its separator.
Room(n) == IF n = 0 THEN 0 ELSE n + Sep

\* build_conversation_section.  A line has its length, the header and the note on what is
\* left out have one each, and a clipped line needs more than its suffix.
Header == 1
Note(n) == IF n > 0 THEN 1 ELSE 0
Total(lens) == FoldLeft(LAMBDA a, b : a + b, 0, lens)

TakeNewest(messages, max) ==
    FoldLeft(LAMBDA acc, line :
        IF Header + Note(acc.omitted) + line + Total(acc.kept) <= max
        THEN [acc EXCEPT !.kept = <<line>> \o @]
        ELSE [kept |-> IF acc.kept = <<>> /\ max - Header - 1 > 1
                       THEN <<max - Header - 1>> ELSE acc.kept,
              omitted |-> acc.omitted + 1],
        [kept |-> <<>>, omitted |-> 0], Reverse(messages))

ConversationSection(messages, max) ==
    LET taken == TakeNewest(messages, max)
        len(i) == Header + Note(taken.omitted + i - 1) + Total(SubSeq(taken.kept, i, Len(taken.kept)))
        fits == {i \in 1..Len(taken.kept) : len(i) <= max}
    IN  IF messages = <<>> THEN 0
        ELSE IF taken.kept = <<>> THEN Header + Note(taken.omitted)
        ELSE IF fits # {} THEN len(CHOOSE i \in fits : \A j \in fits : i <= j)
        ELSE max

\* What _render makes of the snapshot with these omissions; an item is longer than the note.
Item == 2
Section(n, gone) == IF n = 0 THEN 0 ELSE 1 + Note(gone) + Item * (n - gone)
Description(o) == IF o.description /\ in.description > 0 THEN 1 ELSE in.description
HeadLen(o) == 2 + Description(o)
Rendered(o) ==
    HeadLen(o) + in.agent + in.delegated
        + Total([i \in DOMAIN DropOrder |->
                   Section(in.items[DropOrder[i]], o.items[DropOrder[i]])])

\* The kinds that still have items, in the order they are given up.
Left(o) == SelectSeq(DropOrder, LAMBDA k : o.items[k] < in.items[k])
NextDrop_Newest(o) ==
    IF Left(o) # <<>> THEN [o EXCEPT !.items[Last(Left(o))] = @ + 1]
    ELSE [o EXCEPT !.description = TRUE]
NextDrop(o) ==
    IF Left(o) # <<>> THEN [o EXCEPT !.items[Left(o)[1]] = @ + 1]
    ELSE [o EXCEPT !.description = TRUE]

\* The omissions without the last one made.
Undone(o) ==
    LET gone == SelectSeq(DropOrder, LAMBDA k : o.items[k] > 0)
    IN  IF o.description THEN [o EXCEPT !.description = FALSE]
        ELSE [o EXCEPT !.items[Last(gone)] = @ - 1]

ConversationBudget == LET r == MaxChars - Room(in.skills) - MinCore IN IF r > 0 THEN r ELSE 0
CoreMax == MaxChars - Room(in.skills) - Room(conv)
Raise(e) == pc' = e /\ UNCHANGED <<in, omitted, core, conv, memory, workflow>>

SkillsTooLarge == in.skills > MaxSkills \/ Room(in.skills) + MinCore > MaxChars
AgentTooLarge == in.agent > MaxAgent \/ (in.agent > 0 /\ in.agent + MinCore > MaxChars)

Check ==
    /\ pc = "check"
    /\ IF SkillsTooLarge THEN Raise("skill_context_too_large")
       ELSE IF AgentTooLarge THEN Raise("agent_context_too_large")
       ELSE /\ conv' = IF ConversationBudget > 0
                       THEN ConversationSection(in.messages, ConversationBudget) ELSE 0
            /\ core' = Rendered(NoneOmitted)
            /\ pc' = "core"
            /\ UNCHANGED <<in, omitted, memory, workflow>>

Drop ==
    /\ pc = "core"
    /\ core > CoreMax
    /\ Left(omitted) # <<>> \/ ~omitted.description
    /\ omitted' = NextDrop(omitted)
    /\ core' = Rendered(omitted')
    /\ UNCHANGED <<in, pc, conv, memory, workflow>>

\* Nothing is left to drop: the text is cut, and a marker takes its end.
Truncate ==
    /\ pc = "core"
    /\ core > CoreMax
    /\ Left(omitted) = <<>> /\ omitted.description
    /\ LET cut == CoreMax - 1 IN
       IF in.agent > 0 /\ HeadLen(omitted) + in.agent > cut THEN Raise("agent_context_too_large")
       ELSE IF in.delegated > 0 /\ HeadLen(omitted) + in.agent + in.delegated > cut
       THEN Raise("delegated_context_too_large")
       ELSE core' = CoreMax /\ UNCHANGED <<in, omitted, pc, conv, memory, workflow>>

\* The memory section gets what is left of the budget; the texts for unavailable and
\* disabled memory have a fixed length and are removed again if they do not fit.
Before == core + Room(in.skills) + Room(conv)
MemoryTaken == IF MaxChars - Before - Sep > 0 THEN in.memory ELSE 0
Assemble ==
    /\ pc = "core"
    /\ core <= CoreMax
    /\ \E m \in {MemoryTaken} \cup {n \in 0..MemoryTaken : Before + Room(n) <= MaxChars} :
          /\ memory' = IF Before + Room(m) > MaxChars /\ in.workflow = 0 THEN 0 ELSE m
          /\ IF in.workflow > 0 /\ Before + Room(m) + Room(in.workflow) > MaxChars
             THEN pc' = "workflow_context_too_large" /\ workflow' = 0
             ELSE pc' = "done" /\ workflow' = in.workflow
    /\ UNCHANGED <<in, omitted, core, conv>>

Next == Check \/ Drop \/ Truncate \/ Assemble

Spec == Init /\ [][Next]_vars

-----------------------------------------------------------------------------
\* A document that is built never exceeds max_chars, its conversation leaves the core its
\* minimum but for one separator, an item is given up only when everything less relevant is gone, and not one
\* more is given up than the budget asks for.
ContextFits ==
    pc = "done" =>
        /\ Before + Room(memory) + Room(workflow) <= MaxChars
        /\ CoreMax >= MinCore - Sep
        /\ \A i, j \in DOMAIN DropOrder :
              i < j /\ omitted.items[DropOrder[j]] > 0 =>
                  omitted.items[DropOrder[i]] = in.items[DropOrder[i]]
        /\ omitted # NoneOmitted => Rendered(Undone(omitted)) > CoreMax

\* A workflow context the scheduler accepted is refused only if it could not fit beside the
\* smallest core: "a child Run and its scheduler agree on exactly when a node's durable
\* context is legal" (workflow_context.py:4-6).
SchedulerAgrees ==
    pc = "workflow_context_too_large" =>
        MinCore + Room(in.skills) + Room(in.workflow) > MaxChars
=============================================================================
