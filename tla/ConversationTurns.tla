------------------------- MODULE ConversationTurns -------------------------
(* One conversation: submissions of turns, which a client repeats under the same client_turn_id when it *)
(* got no reply, and readers that walk the transcript page by page while it grows. A turn, its Task and *)
(* its Run are created together and share one identifier, whose order is not the order of creation.     *)
EXTENDS Naturals, Sequences, FiniteSets, SequencesExt

CONSTANTS Keys,       \* client_turn_ids
          Payloads,   \* text, mode and language
          Requests,   \* requests the API serves at once
          Walks,      \* directions in which the transcript is read
          MaxClock, MaxTurns, PageSize

VARIABLES clock, turns, runs, req, replies, walk

vars == <<clock, turns, runs, req, replies, walk>>

Ids == 1..MaxTurns
Nothing == {}

Turn == [id : Ids, key : Keys, payload : Payloads, at : 0..MaxClock]
Idle == [pc |-> "idle"]
Resting == [pc |-> "idle", cursor |-> Nothing, seen |-> <<>>, old |-> {}]

TypeOK ==
  /\ clock \in 0..MaxClock /\ turns \subseteq Turn /\ runs \subseteq Ids
  /\ \A q \in Requests : req[q].pc \in {"idle", "materialize", "replay", "load"}
  /\ \A r \in replies : r.key \in Keys /\ r.payload \in Payloads /\ r.run \in Ids
  /\ walk.pc \in {"idle", "forwards", "backwards", "done"} /\ walk.old \subseteq turns

Init ==
  /\ clock = 0 /\ turns = {} /\ runs = {} /\ replies = {}
  /\ req = [q \in Requests |-> Idle] /\ walk = Resting

-----------------------------------------------------------------------------
(* Rows. *)
GetByClientTurnId(key) == {t \in turns : t.key = key}

(* The unique (conversation_id, client_turn_id) constraint. *)
Admits(turn) == \A t \in turns : t.key # turn.key

(* The order of both page queries: created_at, then id. *)
Before(s, t) == s.at < t.at \/ (s.at = t.at /\ s.id < t.id)

ListForConversation(limit, after) ==
  LET rest == SetToSortSeq({t \in turns : \A c \in after : Before(c, t)}, Before)
  IN SubSeq(rest, 1, IF Len(rest) < limit THEN Len(rest) ELSE limit)

ListRecentBefore(limit, before) ==
  LET rest == SetToSortSeq({t \in turns : \A c \in before : Before(t, c)}, Before)
  IN SubSeq(rest, IF Len(rest) < limit THEN 1 ELSE Len(rest) - limit + 1, Len(rest))

-----------------------------------------------------------------------------
(* SubmitConversationTurn. *)
Goes(q, r) == req' = [req EXCEPT ![q] = r]

SamePayload_Unchecked(turn, r) == TRUE
SamePayload(turn, r) == turn.payload = r.payload

(* The turn is there: the request is answered with it, or refused for its other payload. *)
Deduplicates(q, turn, r) ==
  IF SamePayload(turn, r) THEN Goes(q, [r EXCEPT !.pc = "load", !.id = turn.id]) ELSE Goes(q, Idle)

Lookup(q) ==
  /\ req[q] = Idle
  /\ \E key \in Keys, payload \in Payloads :
       LET r == [pc |-> "materialize", key |-> key, payload |-> payload, at |-> clock, id |-> 0]
       IN IF GetByClientTurnId(key) = {}
            THEN Goes(q, r)
            ELSE \E turn \in GetByClientTurnId(key) : Deduplicates(q, turn, r)
  /\ UNCHANGED <<clock, turns, runs, replies, walk>>

(* Task, Run, work item and turn commit together or not at all. *)
Materialize(q) ==
  /\ req[q].pc = "materialize"
  /\ \E id \in Ids \ runs :
       LET turn == [id |-> id, key |-> req[q].key, payload |-> req[q].payload, at |-> req[q].at]
       IN IF Admits(turn)
            THEN /\ turns' = turns \union {turn} /\ runs' = runs \union {id}
                 /\ Goes(q, [req[q] EXCEPT !.pc = "load", !.id = id])
            ELSE Goes(q, [req[q] EXCEPT !.pc = "replay"]) /\ UNCHANGED <<turns, runs>>
  /\ UNCHANGED <<clock, replies, walk>>

(* _existing, after the conflict. *)
Replay(q) ==
  /\ req[q].pc = "replay"
  /\ \E turn \in GetByClientTurnId(req[q].key) : Deduplicates(q, turn, req[q])
  /\ UNCHANGED <<clock, turns, runs, replies, walk>>

(* The route reads the turn again and replies. *)
Respond(q) ==
  /\ req[q].pc = "load"
  /\ replies' = replies \union {[key |-> req[q].key, payload |-> req[q].payload, run |-> req[q].id]}
  /\ Goes(q, Idle)
  /\ UNCHANGED <<clock, turns, runs, walk>>

(* The process dies or the connection breaks; the client may send the same turn again. *)
ReplyLost(q) ==
  /\ req[q] # Idle
  /\ Goes(q, Idle)
  /\ UNCHANGED <<clock, turns, runs, replies, walk>>

Tick ==
  /\ clock < MaxClock
  /\ clock' = clock + 1
  /\ UNCHANGED <<turns, runs, req, replies, walk>>

-----------------------------------------------------------------------------
(* A reader: the transcript page of the web client goes backwards, other clients forwards. *)
StartWalk ==
  /\ walk.pc = "idle"
  /\ \E pc \in Walks : walk' = [Resting EXCEPT !.pc = pc, !.old = turns]
  /\ UNCHANGED <<clock, turns, runs, req, replies>>

(* One more row than the page holds tells whether there is another page. *)
RecentPage_DropsNewest(items) ==
  IF Len(items) > PageSize THEN SubSeq(items, 1, PageSize) ELSE items
RecentPage(items) == IF Len(items) > PageSize THEN Tail(items) ELSE items

RecentTurns ==
  LET items == ListRecentBefore(PageSize + 1, walk.cursor)
      page == RecentPage(items)
  IN /\ walk.pc = "backwards"
     /\ walk' = [walk EXCEPT !.seen = page \o @,
                             !.cursor = IF page = <<>> THEN @ ELSE {page[1]},
                             !.pc = IF Len(items) > PageSize THEN @ ELSE "done"]
     /\ UNCHANGED <<clock, turns, runs, req, replies>>

ListTurns ==
  LET items == ListForConversation(PageSize + 1, walk.cursor)
      page == IF Len(items) > PageSize THEN Front(items) ELSE items
  IN /\ walk.pc = "forwards"
     /\ walk' = [walk EXCEPT !.seen = @ \o page,
                             !.cursor = IF page = <<>> THEN @ ELSE {Last(page)},
                             !.pc = IF Len(items) > PageSize THEN @ ELSE "done"]
     /\ UNCHANGED <<clock, turns, runs, req, replies>>

EndWalk ==
  /\ walk.pc = "done"
  /\ walk' = Resting
  /\ UNCHANGED <<clock, turns, runs, req, replies>>

Next ==
  \/ \E q \in Requests : Lookup(q) \/ Materialize(q) \/ Replay(q) \/ Respond(q) \/ ReplyLost(q)
  \/ Tick \/ StartWalk \/ RecentTurns \/ ListTurns \/ EndWalk

Spec == Init /\ [][Next]_vars

-----------------------------------------------------------------------------
(* However often a client repeats a turn, and whatever replies are lost, every reply names the one Run  *)
(* that carries its payload, and no Run exists beside the turns (SubmitConversationTurn: "atomically    *)
(* materializes one Task and one queued Run, fenced by (conversation_id, client_turn_id)").             *)
TurnOnce ==
  /\ runs = {t.id : t \in turns}
  /\ \A r \in replies : \E t \in turns : t.id = r.run /\ t.key = r.key /\ t.payload = r.payload
  /\ \A r, s \in replies : r.key = s.key => r.run = s.run

(* A walk over the pages, in either direction, shows every turn there was when it began, each turn at   *)
(* most once and in order, however many arrive meanwhile (list_turns, _recent_turns).                   *)
WalkIsComplete ==
  /\ walk.pc = "done" => walk.old \subseteq Range(walk.seen)
  /\ \A i, j \in 1..Len(walk.seen) : i < j => Before(walk.seen[i], walk.seen[j])
=============================================================================
