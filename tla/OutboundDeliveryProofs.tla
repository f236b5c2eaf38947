----------------------- MODULE OutboundDeliveryProofs -----------------------
(***************************************************************************)
(* Proofs about OutboundDelivery for any number of deliveries and workers  *)
(* and any retry budget.  AtMostOneSend is not inductive: it rests on who  *)
(* may stand before the boundary (WorkInv), on generations being given out *)
(* once (UniqueClaims) and on what recovery may have read (SeenInv).       *)
(***************************************************************************)
EXTENDS OutboundDelivery, TLAPS

Working(w) == pc[w] \notin {"idle", "recovering"}

\* A row that can still be claimed was never sent, and has budget left.
RowInv(d) ==
  /\ dlv[d].count = dlv[d].gen
  /\ dlv[d].status = "absent" => dlv[d].gen = 0
  /\ dlv[d].status = "queued" => dlv[d].gen < MaxAttempts
  /\ dlv[d].status \in {"absent", "queued"} => ~dlv[d].started
  /\ ~dlv[d].started => sent[d] = 0
  /\ sent[d] <= 1

\* What recovery read is of this or of an earlier generation.
SeenInv(w) == \A r \in seen[w] : r.count = r.gen /\ r.gen <= dlv[r.id].gen

\* Before the boundary nobody with this claim has passed it; between the
\* boundary and the send nothing was sent.
WorkInv(w) ==
  Working(w) =>
    /\ 0 < claim[w].gen /\ claim[w].gen <= dlv[claim[w].id].gen
    /\ (pc[w] \in {"claimed", "ready", "beginning"} \/
          (pc[w] \in {"outcome", "persisting"} /\ fate[w] = "parked")) =>
         (dlv[claim[w].id].gen = claim[w].gen => ~dlv[claim[w].id].started)
    /\ pc[w] = "sending" =>
         dlv[claim[w].id].started /\ sent[claim[w].id] = 0 /\ dlv[claim[w].id].gen = claim[w].gen
    /\ pc[w] \in {"outcome", "persisting"} =>
         /\ fate[w] # "none"
         /\ fate[w] \in Settled => dlv[claim[w].id].started
         /\ fate[w] \in {"delivered", "failed"} => sent[claim[w].id] = 1

UniqueClaims ==
  \A v, w \in Workers :
    v # w /\ Working(v) /\ Working(w) /\ claim[v].id = claim[w].id => claim[v].gen # claim[w].gen

DeliveryInv ==
  /\ TypeOK
  /\ \A d \in Deliveries : RowInv(d)
  /\ LedgerAgrees
  /\ \A w \in Workers : SeenInv(w) /\ WorkInv(w)
  /\ UniqueClaims

-----------------------------------------------------------------------------
(* Lemmas about parts of a step *)

\* Recovery changes the status of expired rows only, and keeps generation,
\* count and boundary.
RecoveredTo(old, new) ==
  /\ new \in Row
  /\ new.gen = old.gen /\ new.count = old.count /\ new.started = old.started
  /\ \/ new = old
     \/ old.status = "sending" /\ old.started /\ new.status = "ambiguous"
     \/ old.status = "sending" /\ ~old.started /\ new.status = "queued" /\ old.gen < MaxAttempts
     \/ old.status = "sending" /\ ~old.started /\ new.status = "failed"

\* Recovery takes every row to such a row
\* (RecoverExpiredDeliveryClaims._recover_one).
LEMMA RecoveryOfRows ==
  ASSUME DeliveryInv, NEW w \in Workers, NEW d \in Deliveries
  PROVE  RecoveredTo(dlv[d], RecoveredRows(w)[d])
<1>1. dlv[d] \in Row
  BY DEF DeliveryInv, TypeOK
<1>2. CASE \E r \in seen[w] : r.id = d /\ Matches(r)
  <2> DEFINE q == CHOOSE r \in seen[w] : r.id = d /\ Matches(r)
  <2>1. q \in seen[w] /\ q.id = d /\ Matches(q)
    BY <1>2
  <2>2. RecoveredRows(w)[d] = Recovered(q)
    BY <1>2 DEF RecoveredRows
  <2>3. q.count = q.gen /\ dlv[d].status = "sending" /\ dlv[d].gen = q.gen /\ dlv[d].started = q.started
    BY <2>1 DEF DeliveryInv, SeenInv, Matches
  <2> HIDE DEF q
  <2>4. RecoveredTo(dlv[d], Recovered(q))
    BY <1>1, <2>1, <2>3 DEF Recovered, RecoveredTo, Row, Settled
  <2> QED BY <2>2, <2>4
<1>3. CASE ~\E r \in seen[w] : r.id = d /\ Matches(r)
  <2>1. RecoveredRows(w)[d] = dlv[d]
    BY <1>3 DEF RecoveredRows
  <2> QED BY <1>1, <2>1 DEF RecoveredTo
<1> QED BY <1>2, <1>3

\* It closes the attempt of exactly the rows it parks
\* (close_expired_as_ambiguous beside mark_expired_post_dispatch_ambiguous).
LEMMA RecoveryOfAttempts ==
  ASSUME DeliveryInv, NEW w \in Workers, NEW d \in Deliveries, NEW g \in Generations
  PROVE  RecoveredAttempts(w)[d][g] =
           IF ~dlv[d].started \/ g # dlv[d].gen THEN "none"
           ELSE IF RecoveredRows(w)[d].status = "sending" THEN "in_progress"
           ELSE RecoveredRows(w)[d].status
<1>1. dlv[d] \in Row
  BY DEF DeliveryInv, TypeOK
<1>2. att[d][g] = IF ~dlv[d].started \/ g # dlv[d].gen THEN "none"
                  ELSE IF dlv[d].status = "sending" THEN "in_progress" ELSE dlv[d].status
  BY DEF DeliveryInv, LedgerAgrees
<1>3. CASE \E r \in seen[w] : r.id = d /\ Matches(r)
  <2> DEFINE q == CHOOSE r \in seen[w] : r.id = d /\ Matches(r)
  <2>1. q \in seen[w] /\ q.id = d /\ Matches(q)
    BY <1>3
  <2>2. RecoveredRows(w)[d] = Recovered(q)
    BY <1>3 DEF RecoveredRows
  <2>3. dlv[d].gen = q.gen /\ dlv[d].started = q.started
    BY <2>1 DEF Matches
  <2> HIDE DEF q
  <2>4. CASE g = dlv[d].gen /\ dlv[d].started
    <3>1. RecoveredAttempts(w)[d][g] = "ambiguous"
      BY <2>1, <2>3, <2>4 DEF RecoveredAttempts
    <3>2. Recovered(q).status = "ambiguous"
      BY <1>1, <2>1, <2>3, <2>4 DEF Recovered, Row
    <3> QED BY <2>2, <2>4, <3>1, <3>2
  <2>5. CASE ~(g = dlv[d].gen /\ dlv[d].started)
    <3>1. ~\E r \in seen[w] : r.id = d /\ r.gen = g /\ r.started /\ Matches(r)
      BY <2>5 DEF Matches
    <3>2. RecoveredAttempts(w)[d][g] = att[d][g]
      BY <3>1 DEF RecoveredAttempts
    <3> QED BY <1>2, <2>5, <3>2
  <2> QED BY <2>4, <2>5
<1>4. CASE ~\E r \in seen[w] : r.id = d /\ Matches(r)
  <2>1. RecoveredRows(w)[d] = dlv[d] /\ RecoveredAttempts(w)[d][g] = att[d][g]
    BY <1>4 DEF RecoveredRows, RecoveredAttempts
  <2> QED BY <1>2, <2>1
<1> QED BY <1>3, <1>4

\* Rows only grow: generations go up, and stand still past the boundary.
RowsGrow ==
  \A d \in Deliveries :
    /\ dlv'[d] \in Row
    /\ dlv[d].gen <= dlv'[d].gen
    /\ dlv'[d].started = dlv[d].started
    /\ dlv[d].started => dlv'[d].gen = dlv[d].gen

\* A worker that does not move keeps its invariant while rows grow.
LEMMA WorkKept ==
  ASSUME DeliveryInv, RowsGrow, sent' = sent, NEW v \in Workers,
         pc'[v] = pc[v], claim'[v] = claim[v], fate'[v] = fate[v]
  PROVE  WorkInv(v)'
<1>1. claim[v] \in [id : Deliveries, gen : Generations]
  BY DEF DeliveryInv, TypeOK
<1> DEFINE d == claim[v].id
<1>2. d \in Deliveries /\ claim[v].gen \in Nat
  BY <1>1 DEF Generations
<1>3. dlv[d] \in Row /\ dlv'[d] \in Row /\ dlv[d].gen <= dlv'[d].gen
      /\ dlv'[d].started = dlv[d].started /\ (dlv[d].started => dlv'[d].gen = dlv[d].gen)
  BY <1>2 DEF DeliveryInv, TypeOK, RowsGrow
<1>4. dlv[d].gen \in Nat /\ dlv'[d].gen \in Nat
  BY <1>3 DEF Row, Generations
<1>5. WorkInv(v)
  BY DEF DeliveryInv
<1>6. Working(v)' <=> Working(v)
  BY DEF Working
<1> QED BY <1>2, <1>3, <1>4, <1>5, <1>6 DEF WorkInv

\* What recovery has read stays of this or of an earlier generation.
LEMMA SeenKept ==
  ASSUME DeliveryInv, \A d \in Deliveries : dlv'[d] \in Row /\ dlv[d].gen <= dlv'[d].gen,
         NEW v \in Workers, seen'[v] \subseteq seen[v]
  PROVE  SeenInv(v)'
<1> SUFFICES ASSUME NEW r \in seen[v] PROVE r.count = r.gen /\ r.gen <= dlv'[r.id].gen
  BY DEF SeenInv
<1>1. r.id \in Deliveries /\ r.gen \in Nat
  BY DEF DeliveryInv, TypeOK, Generations
<1>2. dlv[r.id].gen \in Nat /\ dlv'[r.id].gen \in Nat
  BY <1>1 DEF DeliveryInv, TypeOK, Row, Generations
<1> QED BY <1>1, <1>2 DEF DeliveryInv, SeenInv

\* No new claim, no clash of claims.
LEMMA UniqueKept ==
  ASSUME UniqueClaims, \A v \in Workers : Working(v)' => Working(v) /\ claim'[v] = claim[v]
  PROVE  UniqueClaims'
BY DEF UniqueClaims

-----------------------------------------------------------------------------
(* The invariant is inductive *)

\* It holds when no delivery exists yet.
LEMMA InitInv ==
  ASSUME Init
  PROVE  DeliveryInv
<1>1. MaxAttempts \in Nat \ {0} /\ 0 \in Generations
  BY DeliveryAssumption DEF Generations
<1>2. TypeOK
  BY <1>1 DEF Init, TypeOK, Row, Fates, Generations
<1>3. \A d \in Deliveries : RowInv(d)
  BY <1>1 DEF Init, RowInv
<1>4. LedgerAgrees
  BY DEF Init, LedgerAgrees
<1>5. \A w \in Workers : SeenInv(w) /\ WorkInv(w)
  BY DEF Init, SeenInv, WorkInv, Working
<1>6. UniqueClaims
  BY DEF Init, UniqueClaims, Working
<1> QED BY <1>2, <1>3, <1>4, <1>5, <1>6 DEF DeliveryInv

\* Creating a delivery and the passing of time touch one row, before its
\* boundary or in its lease.
LEMMA TimeInv ==
  ASSUME DeliveryInv, NEW d \in Deliveries, Create(d) \/ BecomesDue(d) \/ LeaseExpires(d)
  PROVE  DeliveryInv'
<1>1. dlv \in [Deliveries -> Row] /\ MaxAttempts \in Nat \ {0}
  BY DeliveryAssumption DEF DeliveryInv, TypeOK
<1>2. UNCHANGED <<att, pc, claim, seen, fresh, fate, sent>>
  BY DEF Create, BecomesDue, LeaseExpires, local
<1>3. PICK new \in Row : /\ dlv' = [dlv EXCEPT ![d] = new]
                         /\ new.gen = dlv[d].gen /\ new.count = dlv[d].count
                         /\ new.started = dlv[d].started
                         /\ \/ new.status = dlv[d].status
                            \/ dlv[d].status = "absent" /\ new.status = "queued"
  <2>1. CASE Create(d)
    <3>1. PICK due \in BOOLEAN : dlv' = [dlv EXCEPT ![d].status = "queued", ![d].due = due]
      BY <2>1 DEF Create
    <3>2. [dlv[d] EXCEPT !.status = "queued", !.due = due] \in Row
      BY <1>1 DEF Row
    <3> QED BY <1>1, <2>1, <3>1, <3>2 DEF Create, Row
  <2>2. CASE BecomesDue(d)
    <3>1. [dlv[d] EXCEPT !.due = TRUE] \in Row
      BY <1>1 DEF Row
    <3> QED BY <1>1, <2>2, <3>1 DEF BecomesDue, Row
  <2>3. CASE LeaseExpires(d)
    <3>1. [dlv[d] EXCEPT !.live = FALSE] \in Row
      BY <1>1 DEF Row
    <3> QED BY <1>1, <2>3, <3>1 DEF LeaseExpires, Row
  <2> QED BY <2>1, <2>2, <2>3
<1>4. dlv' \in [Deliveries -> Row]
  BY <1>1, <1>3
<1>5. TypeOK'
  BY <1>2, <1>4 DEF DeliveryInv, TypeOK
<1>6. \A e \in Deliveries : dlv[e].gen \in Nat
  BY <1>1 DEF Row, Generations
<1>7. RowsGrow
  BY <1>1, <1>3, <1>4, <1>6 DEF RowsGrow
<1>8. \A e \in Deliveries : RowInv(e)'
  BY <1>1, <1>2, <1>3, <1>6 DEF DeliveryInv, RowInv
<1>9. LedgerAgrees'
  <2> SUFFICES ASSUME NEW e \in Deliveries, NEW g \in Generations
               PROVE att'[e][g] = IF ~dlv'[e].started \/ g # dlv'[e].gen THEN "none"
                     ELSE IF dlv'[e].status = "sending" THEN "in_progress" ELSE dlv'[e].status
    BY DEF LedgerAgrees
  <2> QED BY <1>1, <1>2, <1>3 DEF DeliveryInv, LedgerAgrees, RowInv
<1>10. \A v \in Workers : SeenInv(v)' /\ WorkInv(v)'
  <2> TAKE v \in Workers
  <2> QED BY <1>2, <1>7, SeenKept, WorkKept DEF RowsGrow
<1>11. UniqueClaims'
  BY <1>2, UniqueKept DEF DeliveryInv, Working
<1> QED BY <1>5, <1>8, <1>9, <1>10, <1>11 DEF DeliveryInv

\* A worker that stops, stalls or reads writes no row: it keeps the invariant
\* if its own place in the dispatch is right.
LEMMA QuietInv ==
  ASSUME DeliveryInv, NEW w \in Workers, UNCHANGED <<rows, sent>>, TypeOK',
         \A v \in Workers \ {w} :
           pc'[v] = pc[v] /\ claim'[v] = claim[v] /\ fate'[v] = fate[v] /\ seen'[v] = seen[v],
         SeenInv(w)', WorkInv(w)', Working(w)' => Working(w) /\ claim'[w] = claim[w]
  PROVE  DeliveryInv'
<1>1. dlv' = dlv /\ att' = att /\ sent' = sent
  BY DEF rows
<1>2. \A d \in Deliveries : RowInv(d)'
  BY <1>1 DEF DeliveryInv, RowInv
<1>3. LedgerAgrees'
  BY <1>1 DEF DeliveryInv, LedgerAgrees
<1>4. \A d \in Deliveries : dlv[d] \in Row /\ dlv[d].gen \in Nat
  BY DEF DeliveryInv, TypeOK, Row, Generations
<1>5. RowsGrow
  BY <1>1, <1>4 DEF RowsGrow
<1>6. \A v \in Workers \ {w} : SeenInv(v)' /\ WorkInv(v)'
  <2> TAKE v \in Workers \ {w}
  <2> QED BY <1>1, <1>5, SeenKept, WorkKept DEF RowsGrow
<1>7. UniqueClaims'
  BY UniqueKept DEF DeliveryInv, Working
<1> QED BY <1>2, <1>3, <1>6, <1>7 DEF DeliveryInv

\* Reading the expired claims, giving up and crashing.
LEMMA IdlingInv ==
  ASSUME DeliveryInv, NEW w \in Workers,
         ListExpired(w) \/ RecoveryConflict(w) \/ ClaimLost(w) \/ Crash(w)
  PROVE  DeliveryInv'
<1>1. UNCHANGED <<rows, claim, fresh, fate, sent>> /\ ~Working(w)'
  BY DEF ListExpired, RecoveryConflict, ClaimLost, Crash, Goes, local, Working, DeliveryInv, TypeOK
<1>2. pc' \in [Workers -> {"idle", "recovering", "claimed", "ready", "beginning",
                           "sending", "outcome", "persisting"}]
      /\ \A v \in Workers \ {w} : pc'[v] = pc[v]
  BY DEF ListExpired, RecoveryConflict, ClaimLost, Crash, Goes, DeliveryInv, TypeOK
<1>3. \/ seen' = seen \/ seen' = [seen EXCEPT ![w] = {}]
      \/ seen' = [seen EXCEPT ![w] = {Snapshot(d) : d \in {e \in Deliveries : Expired(e)}}]
  BY DEF ListExpired, RecoveryConflict, ClaimLost, Crash, local
<1>4. \A d \in Deliveries : /\ Snapshot(d) \in [id : Deliveries, gen : Generations, count : Generations, started : BOOLEAN]
                            /\ Snapshot(d).count = Snapshot(d).gen
                            /\ Snapshot(d).gen <= dlv[Snapshot(d).id].gen
  <2> TAKE d \in Deliveries
  <2>1. dlv[d] \in Row /\ dlv[d].count = dlv[d].gen
    BY DEF DeliveryInv, TypeOK, RowInv
  <2> QED BY <2>1 DEF Snapshot, Row, Generations
<1>5. seen \in [Workers -> SUBSET [id : Deliveries, gen : Generations, count : Generations, started : BOOLEAN]]
  BY DEF DeliveryInv, TypeOK
<1>6. seen' \in [Workers -> SUBSET [id : Deliveries, gen : Generations, count : Generations, started : BOOLEAN]]
      /\ \A v \in Workers \ {w} : seen'[v] = seen[v]
  BY <1>3, <1>4, <1>5
<1>7. SeenInv(w)'
  <2>1. dlv' = dlv
    BY <1>1 DEF rows
  <2>2. CASE seen'[w] = seen[w] \/ seen'[w] = {}
    BY <2>1, <2>2 DEF SeenInv, DeliveryInv
  <2>3. CASE seen'[w] = {Snapshot(d) : d \in {e \in Deliveries : Expired(e)}}
    BY <1>4, <2>1, <2>3 DEF SeenInv
  <2> QED BY <1>3, <1>5, <2>2, <2>3
<1>8. TypeOK'
  BY <1>1, <1>2, <1>6 DEF TypeOK, DeliveryInv, rows
<1>9. WorkInv(w)'
  BY <1>1 DEF WorkInv
<1> QED BY <1>1, <1>2, <1>6, <1>7, <1>8, <1>9, QuietInv

\* Recovery moves rows in a way that RowInv, the ledger and every other worker
\* survive.
LEMMA RecoveryKeeps ==
  ASSUME DeliveryInv, NEW w \in Workers, NEW d \in Deliveries
  PROVE  LET new == RecoveredRows(w)[d] IN
         /\ new \in Row /\ new.gen \in Nat /\ new.gen = dlv[d].gen
         /\ new.started = dlv[d].started /\ new.count = new.gen
         /\ new.status = "absent" => new.gen = 0
         /\ new.status = "queued" => new.gen < MaxAttempts
         /\ new.status \in {"absent", "queued"} => ~new.started
<1>1. RecoveredTo(dlv[d], RecoveredRows(w)[d])
  BY RecoveryOfRows
<1>2. dlv[d] \in Row /\ RowInv(d)
  BY DEF DeliveryInv, TypeOK
<1> QED BY <1>1, <1>2 DEF RecoveredTo, RowInv, Row, Generations

\* A recovery with no claim behind it.
LEMMA RecoverOnlyInv ==
  ASSUME DeliveryInv, NEW w \in Workers, RecoverOnly(w)
  PROVE  DeliveryInv'
<1>1. /\ dlv' = RecoveredRows(w) /\ att' = RecoveredAttempts(w)
      /\ pc' = [pc EXCEPT ![w] = "idle"] /\ seen' = [seen EXCEPT ![w] = {}]
      /\ UNCHANGED <<claim, fresh, fate, sent>>
  BY DEF RecoverOnly
<1>2. pc \in [Workers -> {"idle", "recovering", "claimed", "ready", "beginning",
                          "sending", "outcome", "persisting"}]
      /\ seen \in [Workers -> SUBSET [id : Deliveries, gen : Generations, count : Generations, started : BOOLEAN]]
      /\ att \in [Deliveries -> [Generations -> {"none", "in_progress"} \cup Settled]]
  BY DEF DeliveryInv, TypeOK
<1>3. dlv' \in [Deliveries -> Row]
  <2>1. \A d \in Deliveries : RecoveredRows(w)[d] \in Row
    BY RecoveryKeeps
  <2> QED BY <1>1, <2>1 DEF RecoveredRows
<1>4. att' \in [Deliveries -> [Generations -> {"none", "in_progress"} \cup Settled]]
  BY <1>1, <1>2 DEF RecoveredAttempts, Settled
<1>5. TypeOK'
  BY <1>1, <1>2, <1>3, <1>4 DEF TypeOK, DeliveryInv
<1>6. \A d \in Deliveries : dlv[d].gen \in Nat
  BY DEF DeliveryInv, TypeOK, Row, Generations
<1>7. RowsGrow
  BY <1>1, <1>3, <1>6, RecoveryKeeps DEF RowsGrow
<1>8. \A d \in Deliveries : RowInv(d)'
  <2> TAKE d \in Deliveries
  <2>1. RowInv(d)
    BY DEF DeliveryInv
  <2> QED BY <1>1, <2>1, RecoveryKeeps DEF RowInv
<1>9. LedgerAgrees'
  <2> SUFFICES ASSUME NEW d \in Deliveries, NEW g \in Generations
               PROVE att'[d][g] = IF ~dlv'[d].started \/ g # dlv'[d].gen THEN "none"
                     ELSE IF dlv'[d].status = "sending" THEN "in_progress" ELSE dlv'[d].status
    BY DEF LedgerAgrees
  <2> QED BY <1>1, RecoveryOfAttempts, RecoveryKeeps
<1>10. \A v \in Workers : SeenInv(v)'
  <2> TAKE v \in Workers
  <2>1. seen'[v] \subseteq seen[v]
    BY <1>1, <1>2
  <2> QED BY <1>7, <2>1, SeenKept DEF RowsGrow
<1>11. \A v \in Workers : WorkInv(v)'
  <2> TAKE v \in Workers
  <2>1. CASE v = w
    BY <1>1, <1>2, <2>1 DEF WorkInv, Working
  <2>2. CASE v # w
    <3>1. pc'[v] = pc[v] /\ claim'[v] = claim[v] /\ fate'[v] = fate[v]
      BY <1>1, <1>2, <2>2
    <3> QED BY <1>1, <1>7, <3>1, WorkKept
  <2> QED BY <2>1, <2>2
<1>12. \A v \in Workers : Working(v)' => Working(v) /\ claim'[v] = claim[v]
  BY <1>1, <1>2 DEF Working
<1>13. UniqueClaims'
  BY <1>12, UniqueKept DEF DeliveryInv
<1> QED BY <1>5, <1>8, <1>9, <1>10, <1>11, <1>13 DEF DeliveryInv

\* A claim: a generation nobody has had, on a row never sent.
LEMMA ClaimInv ==
  ASSUME DeliveryInv, NEW w \in Workers, NEW d \in Deliveries, RecoverAndClaim(w, d)
  PROVE  DeliveryInv'
<1> DEFINE rec == RecoveredRows(w)
           new == Claimed(rec[d])
<1>1. /\ dlv' = [rec EXCEPT ![d] = new] /\ att' = RecoveredAttempts(w)
      /\ pc' = [pc EXCEPT ![w] = "claimed"] /\ seen' = [seen EXCEPT ![w] = {}]
      /\ claim' = [claim EXCEPT ![w] = [id |-> d, gen |-> rec[d].gen + 1]]
      /\ UNCHANGED <<fresh, fate, sent>>
      /\ rec[d].status = "queued" /\ pc[w] = "recovering"
  BY DEF RecoverAndClaim, Claimable
<1>2. pc \in [Workers -> {"idle", "recovering", "claimed", "ready", "beginning",
                          "sending", "outcome", "persisting"}]
      /\ seen \in [Workers -> SUBSET [id : Deliveries, gen : Generations, count : Generations, started : BOOLEAN]]
      /\ att \in [Deliveries -> [Generations -> {"none", "in_progress"} \cup Settled]]
      /\ claim \in [Workers -> [id : Deliveries, gen : Generations]]
  BY DEF DeliveryInv, TypeOK
<1>3. \A e \in Deliveries : /\ rec[e] \in Row /\ rec[e].gen \in Nat /\ rec[e].gen = dlv[e].gen
                            /\ rec[e].started = dlv[e].started /\ rec[e].count = rec[e].gen
                            /\ rec[e].status = "absent" => rec[e].gen = 0
                            /\ rec[e].status = "queued" => rec[e].gen < MaxAttempts
                            /\ rec[e].status \in {"absent", "queued"} => ~rec[e].started
  BY RecoveryKeeps
<1>4. rec \in [Deliveries -> Row]
  BY <1>3 DEF RecoveredRows
<1>5. MaxAttempts \in Nat
  BY DeliveryAssumption
<1>6. rec[d].gen + 1 \in Generations
  BY <1>1, <1>3, <1>5 DEF Generations
<1> HIDE DEF rec
<1>7. /\ new \in Row /\ new.gen = dlv[d].gen + 1 /\ new.count = dlv[d].gen + 1
      /\ new.status = "sending" /\ new.started = FALSE
  BY <1>1, <1>3, <1>6 DEF Claimed, Row
<1> HIDE DEF new
<1>8. dlv' \in [Deliveries -> Row] /\ dlv'[d] = new /\ \A e \in Deliveries \ {d} : dlv'[e] = rec[e]
  BY <1>1, <1>4, <1>7
<1>9. att' \in [Deliveries -> [Generations -> {"none", "in_progress"} \cup Settled]]
  BY <1>1, <1>2 DEF RecoveredAttempts, Settled
<1>10. claim' \in [Workers -> [id : Deliveries, gen : Generations]]
       /\ claim'[w].id = d /\ claim'[w].gen = dlv[d].gen + 1
       /\ \A v \in Workers \ {w} : claim'[v] = claim[v]
  BY <1>1, <1>2, <1>3, <1>6
<1>11. pc'[w] = "claimed" /\ \A v \in Workers \ {w} : pc'[v] = pc[v]
  BY <1>1, <1>2
<1>12. TypeOK'
  BY <1>1, <1>2, <1>8, <1>9, <1>10 DEF TypeOK, DeliveryInv
<1>13. ~dlv[d].started /\ dlv[d].gen \in Nat
  BY <1>1, <1>3
<1>14. RowsGrow
  <2> SUFFICES ASSUME NEW e \in Deliveries
               PROVE dlv'[e] \in Row /\ dlv[e].gen <= dlv'[e].gen /\ dlv'[e].started = dlv[e].started
                     /\ (dlv[e].started => dlv'[e].gen = dlv[e].gen)
    BY DEF RowsGrow
  <2>0. dlv[e] \in Row
    BY DEF DeliveryInv, TypeOK
  <2>1. CASE e = d
    BY <2>0, <1>7, <1>8, <1>13, <2>1 DEF Row
  <2>2. CASE e # d
    BY <1>3, <1>8, <2>2
  <2> QED BY <2>1, <2>2
<1>15. \A e \in Deliveries : RowInv(e)'
  <2> TAKE e \in Deliveries
  <2>1. RowInv(e) /\ sent' = sent
    BY <1>1 DEF DeliveryInv
  <2>2. CASE e = d
    BY <1>7, <1>8, <1>13, <2>1, <2>2 DEF RowInv
  <2>3. CASE e # d
    BY <1>3, <1>8, <2>1, <2>3 DEF RowInv
  <2> QED BY <2>2, <2>3
<1>16. LedgerAgrees'
  <2> SUFFICES ASSUME NEW e \in Deliveries, NEW g \in Generations
               PROVE att'[e][g] = IF ~dlv'[e].started \/ g # dlv'[e].gen THEN "none"
                     ELSE IF dlv'[e].status = "sending" THEN "in_progress" ELSE dlv'[e].status
    BY DEF LedgerAgrees
  <2>1. att'[e][g] = IF ~dlv[e].started \/ g # dlv[e].gen THEN "none"
           ELSE IF rec[e].status = "sending" THEN "in_progress" ELSE rec[e].status
    BY <1>1, RecoveryOfAttempts DEF rec
  <2>2. CASE e = d
    BY <1>7, <1>8, <1>13, <2>1, <2>2
  <2>3. CASE e # d
    BY <1>3, <1>8, <2>1, <2>3
  <2> QED BY <2>2, <2>3
<1>17. \A v \in Workers : SeenInv(v)'
  <2> TAKE v \in Workers
  <2>1. seen'[v] \subseteq seen[v]
    BY <1>1, <1>2
  <2> QED BY <1>14, <2>1, SeenKept DEF RowsGrow
<1>18. \A v \in Workers : WorkInv(v)'
  <2> TAKE v \in Workers
  <2>1. CASE v = w
    <3>1. 0 < dlv[d].gen + 1 /\ dlv[d].gen + 1 <= dlv[d].gen + 1
      BY <1>13
    <3> QED BY <1>7, <1>8, <1>10, <1>11, <2>1, <3>1 DEF WorkInv, Working
  <2>2. CASE v # w
    <3>1. pc'[v] = pc[v] /\ claim'[v] = claim[v] /\ fate'[v] = fate[v] /\ sent' = sent
      BY <1>1, <1>10, <1>11, <2>2
    <3> QED BY <1>14, <3>1, WorkKept
  <2> QED BY <2>1, <2>2
<1>19. UniqueClaims'
  <2> SUFFICES ASSUME NEW u \in Workers, NEW v \in Workers, u # v, Working(u)', Working(v)',
                      claim'[u].id = claim'[v].id
               PROVE claim'[u].gen # claim'[v].gen
    BY DEF UniqueClaims
  <2>1. \A x \in Workers \ {w} : Working(x)' /\ claim'[x].id = d => claim'[x].gen # dlv[d].gen + 1
    <3> SUFFICES ASSUME NEW x \in Workers \ {w}, Working(x)', claim'[x].id = d
                 PROVE claim'[x].gen # dlv[d].gen + 1
      OBVIOUS
    <3>1. Working(x) /\ claim'[x] = claim[x] /\ WorkInv(x) /\ claim[x].gen \in Nat
      BY <1>2, <1>10, <1>11 DEF Working, DeliveryInv, Generations
    <3>2. claim[x].gen <= dlv[d].gen
      BY <3>1 DEF WorkInv
    <3> QED BY <1>13, <3>1, <3>2
  <2>2. CASE u = w \/ v = w
    BY <1>10, <2>1, <2>2
  <2>3. CASE u # w /\ v # w
    BY <1>10, <1>11, <2>3 DEF DeliveryInv, UniqueClaims, Working
  <2> QED BY <2>2, <2>3
<1> QED BY <1>12, <1>15, <1>16, <1>17, <1>18, <1>19 DEF DeliveryInv

\* Loading the delivery and reading the clock write nothing; a route that has
\* drifted is parked before the boundary.
LEMMA LookingInv ==
  ASSUME DeliveryInv, NEW w \in Workers, CheckRoute(w) \/ ReadClock(w)
  PROVE  DeliveryInv'
<1>1. pc \in [Workers -> {"idle", "recovering", "claimed", "ready", "beginning",
                          "sending", "outcome", "persisting"}]
      /\ fate \in [Workers -> Fates] /\ fresh \in [Workers -> BOOLEAN]
      /\ claim[w].id \in Deliveries
      /\ dlv[claim[w].id].live \in BOOLEAN /\ dlv[claim[w].id].started \in BOOLEAN
  BY DEF DeliveryInv, TypeOK, Row
<1>2. UNCHANGED <<rows, claim, seen, sent>> /\ dlv' = dlv
  BY DEF CheckRoute, ReadClock, rows
<1>3. \/ /\ pc[w] = "claimed" /\ pc'[w] = "outcome" /\ fate'[w] = "ambiguous" /\ dlv[claim[w].id].started
      \/ /\ pc[w] = "claimed" /\ pc'[w] = "outcome" /\ fate'[w] = "parked" /\ ~dlv[claim[w].id].started
      \/ /\ pc[w] = "claimed" /\ pc'[w] = "ready"
      \/ /\ pc[w] = "ready" /\ pc'[w] = "beginning"
      \/ /\ pc[w] = "outcome" /\ pc'[w] = "persisting" /\ fate'[w] = fate[w]
  BY <1>1 DEF CheckRoute, ReadClock, Goes
<1>4. \A v \in Workers \ {w} : pc'[v] = pc[v] /\ fate'[v] = fate[v]
  BY <1>1 DEF CheckRoute, ReadClock, Goes
<1>5. pc' \in [Workers -> {"idle", "recovering", "claimed", "ready", "beginning",
                           "sending", "outcome", "persisting"}]
  BY <1>1 DEF CheckRoute, ReadClock, Goes
<1>6. fate' \in [Workers -> Fates] /\ fresh' \in [Workers -> BOOLEAN]
  BY <1>1 DEF CheckRoute, ReadClock, Fates, Settled
<1>7. TypeOK'
  BY <1>2, <1>5, <1>6 DEF TypeOK, DeliveryInv, rows
<1>8. Working(w) /\ WorkInv(w) /\ SeenInv(w)
  BY <1>3 DEF Working, DeliveryInv
<1>9. WorkInv(w)'
  BY <1>2, <1>3, <1>8 DEF WorkInv, Settled
<1>10. SeenInv(w)'
  BY <1>2, <1>8 DEF SeenInv
<1> QED BY <1>2, <1>4, <1>7, <1>8, <1>9, <1>10, QuietInv

\* The boundary is passed by the only worker that holds the row's generation.
LEMMA BoundaryInv ==
  ASSUME DeliveryInv, NEW w \in Workers, BeginDeliveryAttempt(w)
  PROVE  DeliveryInv'
<1> DEFINE d == claim[w].id
           g == claim[w].gen
<1>1. /\ pc[w] = "beginning" /\ dlv[d].status = "sending" /\ dlv[d].gen = g /\ ~dlv[d].started
      /\ dlv' = [dlv EXCEPT ![d].started = TRUE] /\ att' = [att EXCEPT ![d][g] = "in_progress"]
      /\ pc' = [pc EXCEPT ![w] = "sending"] /\ UNCHANGED <<claim, seen, fresh, fate, sent>>
  BY DEF BeginDeliveryAttempt, Owns, Goes, local
<1>2. dlv \in [Deliveries -> Row] /\ d \in Deliveries /\ g \in Generations
      /\ att \in [Deliveries -> [Generations -> {"none", "in_progress"} \cup Settled]]
      /\ pc \in [Workers -> {"idle", "recovering", "claimed", "ready", "beginning",
                              "sending", "outcome", "persisting"}]
  BY DEF DeliveryInv, TypeOK
<1>3. /\ dlv' \in [Deliveries -> Row] /\ dlv'[d].started = TRUE /\ dlv'[d].gen = dlv[d].gen
      /\ dlv'[d].count = dlv[d].count /\ dlv'[d].status = "sending"
      /\ \A e \in Deliveries \ {d} : dlv'[e] = dlv[e]
  BY <1>1, <1>2 DEF Row
<1>4. att' \in [Deliveries -> [Generations -> {"none", "in_progress"} \cup Settled]]
  BY <1>1, <1>2
<1>5. TypeOK'
  BY <1>1, <1>2, <1>3, <1>4 DEF TypeOK, DeliveryInv
<1>6. \A e \in Deliveries : RowInv(e)'
  <2> TAKE e \in Deliveries
  <2>1. RowInv(e)
    BY DEF DeliveryInv
  <2> QED BY <1>1, <1>3, <2>1 DEF RowInv
<1>7. LedgerAgrees'
  <2> SUFFICES ASSUME NEW e \in Deliveries, NEW h \in Generations
               PROVE att'[e][h] = IF ~dlv'[e].started \/ h # dlv'[e].gen THEN "none"
                     ELSE IF dlv'[e].status = "sending" THEN "in_progress" ELSE dlv'[e].status
    BY DEF LedgerAgrees
  <2>1. att[e][h] = IF ~dlv[e].started \/ h # dlv[e].gen THEN "none"
                     ELSE IF dlv[e].status = "sending" THEN "in_progress" ELSE dlv[e].status
    BY DEF DeliveryInv, LedgerAgrees
  <2>2. CASE e = d /\ h = g
    BY <1>1, <1>2, <1>3, <2>2
  <2>3. CASE e = d /\ h # g
    BY <1>1, <1>2, <1>3, <2>1, <2>3
  <2>4. CASE e # d
    BY <1>1, <1>2, <1>3, <2>1, <2>4
  <2> QED BY <2>2, <2>3, <2>4
<1>8. \A e \in Deliveries : dlv'[e] \in Row /\ dlv[e].gen <= dlv'[e].gen
  <2> TAKE e \in Deliveries
  <2>1. dlv[e].gen \in Nat
    BY <1>2 DEF Row, Generations
  <2>2. dlv'[e].gen = dlv[e].gen
    BY <1>3
  <2> QED BY <1>3, <2>1, <2>2
<1>9. \A v \in Workers : SeenInv(v)'
  <2> TAKE v \in Workers
  <2> QED BY <1>1, <1>8, SeenKept
<1>10. \A v \in Workers : WorkInv(v)'
  <2> TAKE v \in Workers
  <2>1. WorkInv(v) /\ WorkInv(w) /\ RowInv(d) /\ claim[v].id \in Deliveries
    BY <1>2 DEF DeliveryInv, TypeOK
  <2>2. CASE v = w
    <3>1. 0 < g /\ g <= dlv[d].gen /\ sent[d] = 0
      BY <1>1, <2>1 DEF WorkInv, Working, RowInv
    <3> QED BY <1>1, <1>2, <1>3, <2>2, <3>1 DEF WorkInv, Working
  <2>3. CASE v # w /\ claim[v].id # d
    <3>1. dlv'[claim[v].id] = dlv[claim[v].id] /\ pc'[v] = pc[v]
      BY <1>1, <1>2, <1>3, <2>1, <2>3
    <3> QED BY <1>1, <2>1, <3>1 DEF WorkInv, Working
  <2>4. CASE v # w /\ claim[v].id = d
    <3>1. pc'[v] = pc[v] /\ (Working(v) => claim[v].gen # g)
      BY <1>1, <1>2, <2>4 DEF DeliveryInv, UniqueClaims, Working
    <3> QED BY <1>1, <1>3, <2>1, <2>4, <3>1 DEF WorkInv, Working
  <2> QED BY <2>2, <2>3, <2>4
<1>11. \A v \in Workers : Working(v)' => Working(v) /\ claim'[v] = claim[v]
  BY <1>1, <1>2 DEF Working
<1>12. UniqueClaims'
  BY <1>11, UniqueKept DEF DeliveryInv
<1> QED BY <1>5, <1>6, <1>7, <1>9, <1>10, <1>12 DEF DeliveryInv

\* Whoever stands at the send is alone there, and nothing has been sent.
LEMMA SendInv ==
  ASSUME DeliveryInv, NEW w \in Workers, Send(w)
  PROVE  DeliveryInv' /\ sent[claim[w].id] = 0 /\ dlv[claim[w].id].started
<1> DEFINE d == claim[w].id
<1>1. /\ pc[w] = "sending" /\ sent' = [sent EXCEPT ![d] = @ + 1]
      /\ pc' = [pc EXCEPT ![w] = "outcome"] /\ UNCHANGED <<dlv, att, claim, seen, fresh>>
  BY DEF Send, Goes, rows
<1>2. PICK result \in Settled : fate' = [fate EXCEPT ![w] = result]
  BY DEF Send
<1>3. d \in Deliveries /\ sent \in [Deliveries -> Nat] /\ fate \in [Workers -> Fates]
      /\ pc \in [Workers -> {"idle", "recovering", "claimed", "ready", "beginning",
                              "sending", "outcome", "persisting"}]
  BY DEF DeliveryInv, TypeOK
<1>4. WorkInv(w) /\ dlv[d].started /\ sent[d] = 0 /\ dlv[d].gen = claim[w].gen
  BY <1>1 DEF DeliveryInv, WorkInv, Working
<1>5. sent' \in [Deliveries -> Nat] /\ sent'[d] = 1 /\ \A e \in Deliveries \ {d} : sent'[e] = sent[e]
  BY <1>1, <1>3, <1>4
<1>6. TypeOK'
  BY <1>1, <1>2, <1>3, <1>5 DEF TypeOK, DeliveryInv, Fates
<1>7. \A e \in Deliveries : RowInv(e)'
  <2> TAKE e \in Deliveries
  <2>1. RowInv(e)
    BY DEF DeliveryInv
  <2> QED BY <1>1, <1>4, <1>5, <2>1 DEF RowInv
<1>8. LedgerAgrees'
  BY <1>1 DEF DeliveryInv, LedgerAgrees
<1>9. \A v \in Workers : SeenInv(v)'
  BY <1>1 DEF DeliveryInv, SeenInv
<1>10. \A v \in Workers : WorkInv(v)'
  <2> TAKE v \in Workers
  <2>1. WorkInv(v) /\ claim[v].id \in Deliveries
    BY DEF DeliveryInv, TypeOK
  <2>2. CASE v = w
    BY <1>1, <1>2, <1>3, <1>4, <1>5, <2>2 DEF WorkInv, Working, Settled
  <2>3. CASE v # w
    <3>1. pc'[v] = pc[v] /\ fate'[v] = fate[v]
      BY <1>1, <1>2, <1>3, <2>3
    <3>2. pc[v] = "sending" => claim[v].id # d
      BY <1>1, <1>4, <2>1, <2>3 DEF DeliveryInv, UniqueClaims, Working, WorkInv
    <3>3. sent[claim[v].id] = 1 => sent'[claim[v].id] = 1
      BY <1>4, <1>5, <2>1
    <3>4. claim[v].id # d => sent'[claim[v].id] = sent[claim[v].id]
      BY <1>5, <2>1
    <3> QED BY <1>1, <2>1, <3>1, <3>2, <3>3, <3>4 DEF WorkInv, Working
  <2> QED BY <2>2, <2>3
<1>11. \A v \in Workers : Working(v)' => Working(v) /\ claim'[v] = claim[v]
  BY <1>1, <1>3 DEF Working
<1>12. UniqueClaims'
  BY <1>11, UniqueKept DEF DeliveryInv
<1> QED BY <1>4, <1>6, <1>7, <1>8, <1>9, <1>10, <1>12 DEF DeliveryInv

\* The outcome closes the delivery and its attempt together.
LEMMA OutcomeInv ==
  ASSUME DeliveryInv, NEW w \in Workers, PersistOutcome(w)
  PROVE  DeliveryInv'
<1> DEFINE d == claim[w].id
           g == claim[w].gen
           st == IF fate[w] = "parked" THEN "ambiguous" ELSE fate[w]
<1>1. /\ pc[w] = "persisting" /\ dlv[d].status = "sending" /\ dlv[d].gen = g
      /\ dlv' = [dlv EXCEPT ![d].status = st]
      /\ att' = IF dlv[d].started THEN [att EXCEPT ![d][g] = st] ELSE att
      /\ pc' = [pc EXCEPT ![w] = "idle"] /\ UNCHANGED <<claim, seen, fresh, fate, sent>>
  BY DEF PersistOutcome, Owns, Goes, local
<1>2. dlv \in [Deliveries -> Row] /\ d \in Deliveries /\ g \in Generations
      /\ att \in [Deliveries -> [Generations -> {"none", "in_progress"} \cup Settled]]
      /\ pc \in [Workers -> {"idle", "recovering", "claimed", "ready", "beginning",
                              "sending", "outcome", "persisting"}]
  BY DEF DeliveryInv, TypeOK
<1>3. st \in Settled
  <2>1. fate[w] \in Fates /\ fate[w] # "none"
    BY <1>1 DEF DeliveryInv, TypeOK, WorkInv, Working
  <2> QED BY <2>1 DEF Fates, Settled
<1> HIDE DEF st
<1>4. /\ dlv' \in [Deliveries -> Row] /\ dlv'[d].status = st /\ dlv'[d].gen = dlv[d].gen
      /\ dlv'[d].count = dlv[d].count /\ dlv'[d].started = dlv[d].started
      /\ \A e \in Deliveries \ {d} : dlv'[e] = dlv[e]
  BY <1>1, <1>2, <1>3 DEF Row
<1>5. att' \in [Deliveries -> [Generations -> {"none", "in_progress"} \cup Settled]]
  BY <1>1, <1>2, <1>3
<1>6. TypeOK'
  BY <1>1, <1>2, <1>4, <1>5 DEF TypeOK, DeliveryInv
<1>7. \A e \in Deliveries : RowInv(e)'
  <2> TAKE e \in Deliveries
  <2>1. RowInv(e)
    BY DEF DeliveryInv
  <2> QED BY <1>1, <1>3, <1>4, <2>1 DEF RowInv, Settled
<1>8. LedgerAgrees'
  <2> SUFFICES ASSUME NEW e \in Deliveries, NEW h \in Generations
               PROVE att'[e][h] = IF ~dlv'[e].started \/ h # dlv'[e].gen THEN "none"
                     ELSE IF dlv'[e].status = "sending" THEN "in_progress" ELSE dlv'[e].status
    BY DEF LedgerAgrees
  <2>1. att[e][h] = IF ~dlv[e].started \/ h # dlv[e].gen THEN "none"
                     ELSE IF dlv[e].status = "sending" THEN "in_progress" ELSE dlv[e].status
    BY DEF DeliveryInv, LedgerAgrees
  <2>2. CASE e = d /\ h = g /\ dlv[d].started
    BY <1>1, <1>2, <1>3, <1>4, <2>2 DEF Settled
  <2>3. CASE e = d /\ ~(h = g /\ dlv[d].started)
    BY <1>1, <1>2, <1>4, <2>1, <2>3
  <2>4. CASE e # d
    BY <1>1, <1>2, <1>4, <2>1, <2>4
  <2> QED BY <2>2, <2>3, <2>4
<1>9. RowsGrow
  <2> SUFFICES ASSUME NEW e \in Deliveries
               PROVE dlv'[e] \in Row /\ dlv[e].gen <= dlv'[e].gen /\ dlv'[e].started = dlv[e].started
                     /\ (dlv[e].started => dlv'[e].gen = dlv[e].gen)
    BY DEF RowsGrow
  <2>1. dlv[e].gen \in Nat
    BY <1>2 DEF Row, Generations
  <2>2. dlv'[e].gen = dlv[e].gen /\ dlv'[e].started = dlv[e].started
    BY <1>4
  <2> QED BY <1>4, <2>1, <2>2
<1>10. \A v \in Workers : SeenInv(v)'
  <2> TAKE v \in Workers
  <2> QED BY <1>1, <1>9, SeenKept DEF RowsGrow
<1>11. \A v \in Workers : WorkInv(v)'
  <2> TAKE v \in Workers
  <2>1. CASE v = w
    BY <1>1, <1>2, <2>1 DEF WorkInv, Working
  <2>2. CASE v # w
    <3>1. pc'[v] = pc[v] /\ claim'[v] = claim[v] /\ fate'[v] = fate[v]
      BY <1>1, <1>2, <2>2
    <3> QED BY <1>1, <1>9, <3>1, WorkKept
  <2> QED BY <2>1, <2>2
<1>12. \A v \in Workers : Working(v)' => Working(v) /\ claim'[v] = claim[v]
  BY <1>1, <1>2 DEF Working
<1>13. UniqueClaims'
  BY <1>12, UniqueKept DEF DeliveryInv
<1> QED BY <1>6, <1>7, <1>8, <1>10, <1>11, <1>13 DEF DeliveryInv

\* Every step keeps the invariant.
LEMMA NextInv ==
  ASSUME DeliveryInv, [Next]_vars
  PROVE  DeliveryInv'
<1>1. CASE UNCHANGED vars
  <2>1. UNCHANGED <<dlv, att, pc, claim, seen, fresh, fate, sent>>
    BY <1>1 DEF vars, rows, local
  <2> QED BY <2>1 DEF DeliveryInv, TypeOK, RowInv, LedgerAgrees, SeenInv, WorkInv, UniqueClaims, Working
<1>2. ASSUME NEW d \in Deliveries, Create(d) \/ BecomesDue(d) \/ LeaseExpires(d) PROVE DeliveryInv'
  BY <1>2, TimeInv
<1>3. ASSUME NEW w \in Workers, ListExpired(w) \/ ClaimStep(w) \/ DispatchStep(w) \/ Crash(w)
      PROVE DeliveryInv'
  BY <1>3, IdlingInv, RecoverOnlyInv, ClaimInv, LookingInv, BoundaryInv, SendInv, OutcomeInv
     DEF ClaimStep, DispatchStep
<1> QED BY <1>1, <1>2, <1>3 DEF Next

\* In every reachable state.
THEOREM DeliveryInvariant == Spec => []DeliveryInv
<1>1. Init => DeliveryInv
  BY InitInv
<1>2. DeliveryInv /\ [Next]_vars => DeliveryInv'
  BY NextInv
<1> QED BY <1>1, <1>2, PTL DEF Spec

\* No delivery is handed to the transport twice, whatever number of workers
\* crash, stall and recover each other's claims.
THEOREM SentAtMostOnce == Spec => []AtMostOneSend
<1>1. DeliveryInv => AtMostOneSend
  BY DEF DeliveryInv, RowInv, AtMostOneSend
<1> QED BY <1>1, DeliveryInvariant, PTL

\* The ledger and the deliveries tell the same story, so recovery past the
\* boundary always finds the attempt it has to close.
THEOREM LedgerIsTruthful == Spec => []LedgerAgrees
<1>1. DeliveryInv => LedgerAgrees
  BY DEF DeliveryInv
<1> QED BY <1>1, DeliveryInvariant, PTL

-----------------------------------------------------------------------------
(* The dispatchers implement DeliveryPromise *)

\* What a row looks like from outside, by status and boundary.
LEMMA StateOfRow ==
  ASSUME NEW d \in Deliveries, dlv[d] \in Row
  PROVE  /\ State(d) \in Promise!States
         /\ dlv[d].status = "absent" => State(d) = "absent"
         /\ dlv[d].status = "queued" => State(d) = "pending"
         /\ dlv[d].status = "sending" => State(d) = IF dlv[d].started THEN "inflight" ELSE "pending"
         /\ dlv[d].status = "delivered" => State(d) = "delivered"
         /\ dlv[d].status = "failed" => State(d) = IF dlv[d].started THEN "rejected" ELSE "dropped"
         /\ dlv[d].status = "ambiguous" => State(d) = IF dlv[d].started THEN "unknown" ELSE "parked"
<1>1. dlv[d].status \in {"absent", "queued", "sending", "delivered", "failed", "ambiguous"}
  BY DEF Row, Settled
<1> QED BY <1>1 DEF State, Promise!States

\* The same of the next state.
LEMMA StateOfNextRow ==
  ASSUME NEW d \in Deliveries, dlv'[d] \in Row
  PROVE  /\ State(d)' \in Promise!States
         /\ dlv'[d].status = "absent" => State(d)' = "absent"
         /\ dlv'[d].status = "queued" => State(d)' = "pending"
         /\ dlv'[d].status = "sending" => State(d)' = IF dlv'[d].started THEN "inflight" ELSE "pending"
         /\ dlv'[d].status = "delivered" => State(d)' = "delivered"
         /\ dlv'[d].status = "failed" => State(d)' = IF dlv'[d].started THEN "rejected" ELSE "dropped"
         /\ dlv'[d].status = "ambiguous" => State(d)' = IF dlv'[d].started THEN "unknown" ELSE "parked"
<1>1. dlv'[d].status \in {"absent", "queued", "sending", "delivered", "failed", "ambiguous"}
  BY DEF Row, Settled
<1> QED BY <1>1 DEF State, Promise!States

\* A step that leaves the rows' outside alone is a stutter of the promise.
LEMMA QuietStep ==
  ASSUME \A d \in Deliveries : State(d)' = State(d), sent' = sent
  PROVE  [Promise!Next]_(Promise!vars)
BY DEF Promise!vars

\* A step that at most gives messages up.
LEMMA GivingUp ==
  ASSUME \A d \in Deliveries : State(d)' \in Promise!States, sent' = sent,
         \A d \in Deliveries :
           \/ State(d)' = State(d)
           \/ State(d) = "inflight" /\ State(d)' = "unknown"
           \/ State(d) = "pending" /\ State(d)' \in {"parked", "dropped"}
  PROVE  Promise!Next
BY DEF Promise!Next, Promise!GiveUp

\* A step that moves one message from one state to another.
LEMMA OneMoves ==
  ASSUME NEW d \in Deliveries, \A e \in Deliveries \ {d} : State(e)' = State(e), sent' = sent,
         NEW from, NEW to, State(d) = from, State(d)' = to
  PROVE  Promise!Becomes(d, from, to)
BY DEF Promise!Becomes

\* Creation accepts a message; the passing of time shows nothing outside.
LEMMA TimeKeepsPromise ==
  ASSUME DeliveryInv, NEW d \in Deliveries, Create(d) \/ BecomesDue(d) \/ LeaseExpires(d)
  PROVE  [Promise!Next]_(Promise!vars)
<1>1. dlv \in [Deliveries -> Row] /\ sent' = sent
  BY DEF DeliveryInv, TypeOK, Create, BecomesDue, LeaseExpires
<1>2. /\ dlv'[d].started = dlv[d].started /\ \A e \in Deliveries \ {d} : dlv'[e] = dlv[e]
      /\ dlv' \in [Deliveries -> Row]
      /\ \/ dlv[d].status = "absent" /\ dlv'[d].status = "queued"
         \/ dlv'[d].status = dlv[d].status
  <2>1. CASE Create(d)
    <3>1. PICK due \in BOOLEAN : dlv' = [dlv EXCEPT ![d].status = "queued", ![d].due = due]
      BY <2>1 DEF Create
    <3>2. dlv[d].status = "absent" /\ dlv[d] \in Row
      BY <1>1, <2>1 DEF Create
    <3>3. dlv'[d] = [dlv[d] EXCEPT !.status = "queued", !.due = due]
      BY <1>1, <3>1
    <3>4. dlv'[d] \in Row /\ dlv'[d].status = "queued" /\ dlv'[d].started = dlv[d].started
      BY <3>2, <3>3 DEF Row
    <3> QED BY <1>1, <3>1, <3>2, <3>4
  <2>2. CASE BecomesDue(d)
    BY <1>1, <2>2 DEF BecomesDue, Row
  <2>3. CASE LeaseExpires(d)
    BY <1>1, <2>3 DEF LeaseExpires, Row
  <2> QED BY <2>1, <2>2, <2>3
<1>3. \A e \in Deliveries \ {d} : State(e)' = State(e)
  BY <1>2 DEF State
<1>4. CASE dlv[d].status = "absent" /\ dlv'[d].status = "queued"
  <2>1. State(d) = "absent" /\ State(d)' = "pending"
    BY <1>1, <1>2, <1>4, StateOfRow, StateOfNextRow
  <2>2. Promise!Accept(d)
    BY <1>1, <1>3, <2>1, OneMoves DEF Promise!Accept
  <2> QED BY <2>2 DEF Promise!Next
<1>5. CASE dlv'[d].status = dlv[d].status
  <2>1. State(d)' = State(d)
    BY <1>2, <1>5 DEF State
  <2> QED BY <1>1, <1>3, <2>1, QuietStep
<1> QED BY <1>2, <1>4, <1>5

\* Recovery and claim give up what cannot be retried, and nothing else shows.
LEMMA ClaimKeepsPromise ==
  ASSUME DeliveryInv, DeliveryInv', NEW w \in Workers, ClaimStep(w)
  PROVE  [Promise!Next]_(Promise!vars)
<1>1. dlv \in [Deliveries -> Row] /\ dlv' \in [Deliveries -> Row] /\ sent' = sent
  BY DEF DeliveryInv, TypeOK, ClaimStep, RecoveryConflict, RecoverOnly, RecoverAndClaim
<1>2. CASE RecoveryConflict(w)
  <2>1. \A d \in Deliveries : State(d)' = State(d)
    BY <1>2 DEF RecoveryConflict, rows, State
  <2> QED BY <1>1, <2>1, QuietStep
<1>3. ASSUME NEW e \in Deliveries, RecoverAndClaim(w, e) \/ RecoverOnly(w)
      PROVE  Promise!Next
  <2> SUFFICES ASSUME NEW d \in Deliveries
               PROVE \/ State(d)' = State(d)
                     \/ State(d) = "inflight" /\ State(d)' = "unknown"
                     \/ State(d) = "pending" /\ State(d)' \in {"parked", "dropped"}
    BY <1>1, StateOfNextRow, GivingUp
  <2> DEFINE row == RecoveredRows(w)[d]
  <2>1. RecoveredTo(dlv[d], row)
    BY RecoveryOfRows
  <2>2. \/ dlv'[d] = row
        \/ row.status = "queued" /\ dlv'[d].status = "sending" /\ dlv'[d].started = row.started
    <3>1. RecoveredRows(w) = [c \in Deliveries |-> RecoveredRows(w)[c]]
      BY DEF RecoveredRows
    <3>2. row \in Row
      BY <2>1 DEF RecoveredTo
    <3> HIDE DEF row
    <3>3. CASE RecoverOnly(w)
      BY <3>3 DEF RecoverOnly, row
    <3>4. CASE RecoverAndClaim(w, e) /\ d # e
      BY <3>1, <3>4 DEF RecoverAndClaim, row
    <3>5. CASE RecoverAndClaim(w, e) /\ d = e
      <4>1. dlv'[d] = Claimed(row) /\ row.status = "queued"
        BY <3>1, <3>5 DEF RecoverAndClaim, row, Claimable
      <4> QED BY <3>2, <4>1 DEF Claimed, Row
    <3> QED BY <1>3, <3>3, <3>4, <3>5
  <2>3. dlv[d].status = "queued" => ~dlv[d].started
    BY DEF DeliveryInv, RowInv
  <2> HIDE DEF row
  <2>4. dlv[d] \in Row /\ dlv'[d] \in Row
    BY <1>1
  <2>5. \/ dlv'[d].status = dlv[d].status /\ dlv'[d].started = dlv[d].started
        \/ dlv[d].status = "sending" /\ dlv[d].started /\ dlv'[d].status = "ambiguous" /\ dlv'[d].started
        \/ /\ dlv[d].status \in {"queued", "sending"} /\ ~dlv[d].started
           /\ dlv'[d].status \in {"queued", "sending", "failed"} /\ ~dlv'[d].started
    BY <2>1, <2>2, <2>3, <2>4 DEF RecoveredTo, Row
  <2>6. CASE dlv'[d].status = dlv[d].status /\ dlv'[d].started = dlv[d].started
    BY <2>6 DEF State
  <2>7. CASE dlv[d].status = "sending" /\ dlv[d].started /\ dlv'[d].status = "ambiguous" /\ dlv'[d].started
    BY <2>4, <2>7, StateOfRow, StateOfNextRow
  <2>8. CASE /\ dlv[d].status \in {"queued", "sending"} /\ ~dlv[d].started
             /\ dlv'[d].status \in {"queued", "sending", "failed"} /\ ~dlv'[d].started
    <3>1. State(d) = "pending"
      BY <2>4, <2>8, StateOfRow
    <3>2. State(d)' \in {"pending", "dropped"}
      BY <2>4, <2>8, StateOfNextRow
    <3> QED BY <3>1, <3>2
  <2> QED BY <2>5, <2>6, <2>7, <2>8
<1>4. CASE RecoverOnly(w)
  <2>1. PICK e \in Deliveries : TRUE
    BY DEF DeliveryInv, TypeOK
  <2> QED BY <1>3, <1>4
<1> QED BY <1>2, <1>3, <1>4 DEF ClaimStep

\* A delivery reported delivered, or failed past the boundary, was sent.
ReportedInv ==
  \A d \in Deliveries :
    dlv[d].started /\ dlv[d].status \in {"delivered", "failed"} => sent[d] = 1

\* Only the claim that sent can report an answer (PersistDeliveryOutcome).
LEMMA ReportedStep ==
  ASSUME DeliveryInv, ReportedInv, [Next]_vars
  PROVE  ReportedInv'
<1> SUFFICES ASSUME NEW d \in Deliveries, dlv'[d].started, dlv'[d].status \in {"delivered", "failed"}
             PROVE sent'[d] = 1
  BY DEF ReportedInv
<1>1. dlv \in [Deliveries -> Row] /\ sent \in [Deliveries -> Nat]
  BY DEF DeliveryInv, TypeOK
<1>2. dlv[d].started /\ dlv[d].status \in {"delivered", "failed"} => sent[d] = 1
  BY DEF ReportedInv
<1>3. CASE UNCHANGED vars
  BY <1>2, <1>3 DEF vars, rows
<1>4. ASSUME NEW e \in Deliveries, Create(e) \/ BecomesDue(e) \/ LeaseExpires(e) PROVE sent'[d] = 1
  <2>1. CASE Create(e)
    BY <1>1, <1>2, <2>1 DEF Create, Row
  <2>2. CASE BecomesDue(e)
    BY <1>1, <1>2, <2>2 DEF BecomesDue, Row
  <2>3. CASE LeaseExpires(e)
    BY <1>1, <1>2, <2>3 DEF LeaseExpires, Row
  <2> QED BY <1>4, <2>1, <2>2, <2>3
<1>5. ASSUME NEW w \in Workers, ListExpired(w) \/ Crash(w) \/ RecoveryConflict(w)
                                 \/ CheckRoute(w) \/ ReadClock(w) \/ ClaimLost(w)
      PROVE sent'[d] = 1
  <2>1. dlv' = dlv /\ sent' = sent
    BY <1>5 DEF ListExpired, Crash, RecoveryConflict, CheckRoute, ReadClock, ClaimLost, rows
  <2> QED BY <1>2, <2>1
<1>6. ASSUME NEW w \in Workers, RecoverOnly(w) PROVE sent'[d] = 1
  <2>1. RecoveredTo(dlv[d], dlv'[d]) /\ sent' = sent
    BY <1>6, RecoveryOfRows DEF RecoverOnly
  <2> QED BY <1>2, <2>1 DEF RecoveredTo
<1>7. ASSUME NEW w \in Workers, NEW e \in Deliveries, RecoverAndClaim(w, e) PROVE sent'[d] = 1
  <2>1. sent' = sent /\ dlv' = [RecoveredRows(w) EXCEPT ![e] = Claimed(@)]
    BY <1>7 DEF RecoverAndClaim
  <2>2. RecoveredTo(dlv[d], RecoveredRows(w)[d])
    BY RecoveryOfRows
  <2>3. RecoveredRows(w) = [c \in Deliveries |-> RecoveredRows(w)[c]]
    BY DEF RecoveredRows
  <2>4. CASE d = e
    <3>1. dlv'[d] = Claimed(RecoveredRows(w)[d])
      BY <2>1, <2>3, <2>4
    <3>2. dlv'[d].status = "sending"
      BY <2>2, <3>1 DEF Claimed, RecoveredTo, Row
    <3> QED BY <3>2
  <2>5. CASE d # e
    <3>1. dlv'[d] = RecoveredRows(w)[d]
      BY <2>1, <2>3, <2>5
    <3> QED BY <1>2, <2>1, <2>2, <3>1 DEF RecoveredTo
  <2> QED BY <2>4, <2>5
<1>8. ASSUME NEW w \in Workers, BeginDeliveryAttempt(w) PROVE sent'[d] = 1
  <2>1. /\ sent' = sent /\ dlv[claim[w].id].status = "sending"
        /\ dlv' = [dlv EXCEPT ![claim[w].id].started = TRUE]
    BY <1>8 DEF BeginDeliveryAttempt, Owns
  <2> QED BY <1>1, <1>2, <2>1 DEF Row
<1>9. ASSUME NEW w \in Workers, Send(w) PROVE sent'[d] = 1
  <2>1. dlv' = dlv /\ sent' = [sent EXCEPT ![claim[w].id] = @ + 1] /\ sent[claim[w].id] = 0
    BY <1>9 DEF Send, rows, DeliveryInv, WorkInv, Working
  <2> QED BY <1>1, <1>2, <2>1
<1>10. ASSUME NEW w \in Workers, PersistOutcome(w) PROVE sent'[d] = 1
  <2>1. /\ sent' = sent /\ pc[w] = "persisting"
        /\ dlv' = [dlv EXCEPT ![claim[w].id].status = IF fate[w] = "parked" THEN "ambiguous" ELSE fate[w]]
    BY <1>10 DEF PersistOutcome
  <2>2. fate[w] \in {"delivered", "failed"} => sent[claim[w].id] = 1
    BY <2>1 DEF DeliveryInv, WorkInv, Working
  <2>3. CASE d = claim[w].id
    BY <1>1, <2>1, <2>2, <2>3 DEF Row
  <2>4. CASE d # claim[w].id
    BY <1>1, <1>2, <2>1, <2>4
  <2> QED BY <2>3, <2>4
<1> QED BY <1>3, <1>4, <1>5, <1>6, <1>7, <1>8, <1>9, <1>10 DEF Next, ClaimStep, DispatchStep

\* In every reachable state.
LEMMA ReportsFollowSends == Spec => []ReportedInv
<1>1. Init => ReportedInv
  BY DEF Init, ReportedInv
<1>2. DeliveryInv /\ ReportedInv /\ [Next]_vars => ReportedInv'
  BY ReportedStep
<1> QED BY <1>1, <1>2, DeliveryInvariant, PTL DEF Spec

\* The boundary, the send and the outcome are the promise's own steps.
LEMMA DispatchKeepsPromise ==
  ASSUME DeliveryInv, DeliveryInv', ReportedInv, NEW w \in Workers, DispatchStep(w)
  PROVE  [Promise!Next]_(Promise!vars)
<1>0. PICK d \in Deliveries : d = claim[w].id
  BY DEF DeliveryInv, TypeOK
<1>1. dlv \in [Deliveries -> Row] /\ dlv' \in [Deliveries -> Row]
      /\ sent \in [Deliveries -> Nat]
  BY DEF DeliveryInv, TypeOK
<1>2. CASE CheckRoute(w) \/ ReadClock(w) \/ ClaimLost(w)
  <2>1. \A e \in Deliveries : State(e)' = State(e)
    BY <1>2 DEF CheckRoute, ReadClock, ClaimLost, rows, State
  <2> QED BY <1>2, <2>1, QuietStep DEF CheckRoute, ReadClock, ClaimLost
<1>3. CASE BeginDeliveryAttempt(w)
  <2>1. /\ dlv[d].status = "sending" /\ ~dlv[d].started /\ sent' = sent
        /\ dlv' = [dlv EXCEPT ![d].started = TRUE]
    BY <1>0, <1>3 DEF BeginDeliveryAttempt, Owns
  <2>2. /\ dlv'[d].status = "sending" /\ dlv'[d].started
        /\ \A e \in Deliveries \ {d} : dlv'[e] = dlv[e]
    BY <1>1, <2>1 DEF Row
  <2>3. State(d) = "pending" /\ State(d)' = "inflight"
    BY <1>1, <2>1, <2>2, StateOfRow, StateOfNextRow
  <2>4. \A e \in Deliveries \ {d} : State(e)' = State(e)
    BY <2>2 DEF State
  <2>5. Promise!PassBoundary(d)
    BY <1>1, <2>1, <2>3, <2>4, OneMoves DEF Promise!PassBoundary
  <2> QED BY <1>1, <2>5 DEF Promise!Next
<1>4. CASE Send(w)
  <2>1. dlv' = dlv /\ sent' = [sent EXCEPT ![d] = @ + 1] /\ pc[w] = "sending"
    BY <1>0, <1>4 DEF Send, rows
  <2>2. dlv[d].started /\ sent[d] = 0
    BY <1>0, <2>1 DEF DeliveryInv, WorkInv, Working
  <2>3. dlv[d].status \in {"sending", "ambiguous"}
    <3>1. dlv[d].status \notin {"absent", "queued"}
      BY <2>2 DEF DeliveryInv, RowInv
    <3>2. dlv[d].status \notin {"delivered", "failed"}
      BY <2>2 DEF ReportedInv
    <3> QED BY <1>1, <3>1, <3>2 DEF Row, Settled
  <2>4. State(d) \in {"inflight", "unknown"}
    BY <1>1, <2>2, <2>3, StateOfRow
  <2>5. \A e \in Deliveries : State(e)' = State(e)
    BY <2>1 DEF State
  <2>6. sent' = [sent EXCEPT ![d] = 1]
    BY <1>1, <2>1, <2>2
  <2>7. Promise!Transmit(d)
    BY <1>1, <2>2, <2>4, <2>5, <2>6 DEF Promise!Transmit
  <2> QED BY <1>1, <2>7 DEF Promise!Next
<1>5. CASE PersistOutcome(w)
  <2> DEFINE st == IF fate[w] = "parked" THEN "ambiguous" ELSE fate[w]
  <2>1. /\ dlv[d].status = "sending" /\ dlv[d].gen = claim[w].gen /\ sent' = sent /\ pc[w] = "persisting"
        /\ dlv' = [dlv EXCEPT ![d].status = st]
    BY <1>0, <1>5 DEF PersistOutcome, Owns
  <2>2. /\ dlv'[d].status = st /\ dlv'[d].started = dlv[d].started
        /\ \A e \in Deliveries \ {d} : dlv'[e] = dlv[e]
    BY <1>1, <2>1 DEF Row
  <2>3. \A e \in Deliveries \ {d} : State(e)' = State(e)
    BY <2>2 DEF State
  <2>4. fate[w] \in Fates /\ WorkInv(w) /\ Working(w)
    BY <2>1 DEF DeliveryInv, TypeOK, Working
  <2>5. CASE fate[w] \in {"delivered", "failed"}
    <3>1. dlv[d].started /\ sent[d] = 1
      BY <1>0, <2>1, <2>4, <2>5 DEF WorkInv, Settled
    <3>2. State(d) = "inflight" /\ State(d)' \in {"delivered", "rejected"}
      BY <1>1, <2>1, <2>2, <2>5, <3>1, StateOfRow, StateOfNextRow
    <3>3. Promise!Report(d)
      BY <1>1, <2>1, <2>3, <3>1, <3>2, OneMoves DEF Promise!Report
    <3> QED BY <1>1, <3>3 DEF Promise!Next
  <2>6. CASE fate[w] \in {"ambiguous", "parked"}
    <3>1. dlv'[d].status = "ambiguous"
      BY <2>2, <2>6
    <3>2. \/ State(d) = "inflight" /\ State(d)' = "unknown"
          \/ State(d) = "pending" /\ State(d)' = "parked"
      BY <1>1, <2>1, <2>2, <3>1, StateOfRow, StateOfNextRow
    <3>3. \A e \in Deliveries : State(e)' \in Promise!States
      BY <1>1, StateOfNextRow
    <3> QED BY <2>1, <2>3, <3>2, <3>3, GivingUp
  <2> QED BY <2>1, <2>4, <2>5, <2>6 DEF Fates, Settled, WorkInv
<1> QED BY <1>2, <1>3, <1>4, <1>5 DEF DispatchStep

\* The dispatchers implement DeliveryPromise: under any interleaving of
\* claims, recoveries, crashes and late answers, what is reported of a message
\* only moves forward, it is sent once at most and only past the recorded
\* boundary, and it is reported delivered or rejected only after a send.
THEOREM PromiseIsKept == Spec => PromiseKept
<1>1. Init => Promise!Init
  BY DEF Init, Promise!Init, State
<1>2. ASSUME DeliveryInv, DeliveryInv', ReportedInv, [Next]_vars PROVE [Promise!Next]_(Promise!vars)
  <2>1. CASE UNCHANGED vars
    BY <2>1, QuietStep DEF vars, rows, State
  <2>2. ASSUME NEW w \in Workers, ListExpired(w) \/ Crash(w) PROVE [Promise!Next]_(Promise!vars)
    <3>1. \A d \in Deliveries : State(d)' = State(d)
      BY <2>2 DEF ListExpired, Crash, rows, State
    <3> QED BY <2>2, <3>1, QuietStep DEF ListExpired, Crash
  <2> QED BY <1>2, <2>1, <2>2, TimeKeepsPromise, ClaimKeepsPromise, DispatchKeepsPromise DEF Next
<1> QED BY <1>1, <1>2, DeliveryInvariant, ReportsFollowSends, PTL DEF Spec, PromiseKept, Promise!Spec

-----------------------------------------------------------------------------
(* Deliveries and attempts implement Lifecycle *)

\* How a step may change a row.
RowMoves(old, new) ==
  \/ new.status = old.status /\ new.started = old.started /\ (old.started => new.gen = old.gen)
  \/ old.status = "absent" /\ new.status = "queued" /\ ~old.started /\ ~new.started
  \/ old.status = "queued" /\ new.status = "sending" /\ ~old.started /\ ~new.started
  \/ old.status = "sending" /\ new.status = "sending" /\ ~old.started /\ new.started /\ new.gen = old.gen
  \/ old.status = "sending" /\ new.status \in {"queued", "failed", "ambiguous"} /\ ~old.started /\ ~new.started
  \/ old.status = "sending" /\ new.status \in Settled /\ old.started /\ new.started /\ new.gen = old.gen

\* Recovery moves rows like that, and so does a claim after it.
LEMMA RecoveryMoves ==
  ASSUME DeliveryInv, NEW w \in Workers, NEW d \in Deliveries
  PROVE  /\ RowMoves(dlv[d], RecoveredRows(w)[d])
         /\ Claimable(RecoveredRows(w)[d]) => RowMoves(dlv[d], Claimed(RecoveredRows(w)[d]))
<1> DEFINE old == dlv[d]
           new == RecoveredRows(w)[d]
<1>1. RecoveredTo(old, new) /\ old \in Row /\ new \in Row
  BY RecoveryOfRows DEF DeliveryInv, TypeOK, RecoveredTo
<1>2. old.status \in {"absent", "queued"} => ~old.started
  BY DEF DeliveryInv, RowInv
<1> HIDE DEF old, new
<1>3. RowMoves(old, new)
  BY <1>1 DEF RecoveredTo, RowMoves, Row, Settled
<1>4. ASSUME Claimable(new) PROVE RowMoves(old, Claimed(new))
  <2>1. Claimed(new).status = "sending" /\ Claimed(new).started = new.started
    BY <1>1 DEF Claimed, Row
  <2>2. new.status = "queued" /\ old.started = new.started /\ old.started \in BOOLEAN
    BY <1>1, <1>4 DEF Claimable, RecoveredTo, Row
  <2>3. old.status = "queued" \/ (old.status = "sending" /\ ~old.started)
    BY <1>1, <2>2 DEF RecoveredTo
  <2>4. ~old.started
    BY <1>2, <2>3
  <2>5. QED BY <2>1, <2>2, <2>3, <2>4 DEF RowMoves
<1>5. QED BY <1>3, <1>4 DEF old, new

\* Every step moves every row like that.
LEMMA StepMoves ==
  ASSUME DeliveryInv, [Next]_vars, NEW e \in Deliveries
  PROVE  RowMoves(dlv[e], dlv'[e])
<1>1. /\ dlv \in [Deliveries -> Row] /\ dlv[e] \in Row
      /\ dlv[e].status \in {"absent", "queued"} => ~dlv[e].started
  BY DEF DeliveryInv, TypeOK, RowInv
<1>2. ASSUME dlv' = dlv PROVE RowMoves(dlv[e], dlv'[e])
  BY <1>2 DEF RowMoves
<1>3. ASSUME NEW d \in Deliveries, Create(d) \/ BecomesDue(d) \/ LeaseExpires(d)
      PROVE  RowMoves(dlv[e], dlv'[e])
  <2>1. \/ dlv'[e] = dlv[e]
        \/ /\ dlv'[e].started = dlv[e].started /\ dlv'[e].gen = dlv[e].gen
           /\ dlv'[e].status = dlv[e].status \/ (dlv[e].status = "absent" /\ dlv'[e].status = "queued")
    BY <1>1, <1>3 DEF Create, BecomesDue, LeaseExpires, Row
  <2>2. QED BY <1>1, <2>1 DEF RowMoves
<1>4. ASSUME NEW w \in Workers, NEW d \in Deliveries, RecoverAndClaim(w, d)
      PROVE  RowMoves(dlv[e], dlv'[e])
  <2>1. dlv'[e] = IF e = d THEN Claimed(RecoveredRows(w)[d]) ELSE RecoveredRows(w)[e]
    BY <1>4 DEF RecoverAndClaim, RecoveredRows
  <2>2. e = d => Claimable(RecoveredRows(w)[e])
    BY <1>4 DEF RecoverAndClaim
  <2>3. QED BY <2>1, <2>2, RecoveryMoves
<1>5. ASSUME NEW w \in Workers, RecoverOnly(w) PROVE RowMoves(dlv[e], dlv'[e])
  BY <1>5, RecoveryMoves DEF RecoverOnly
<1>6. ASSUME NEW w \in Workers, BeginDeliveryAttempt(w) PROVE RowMoves(dlv[e], dlv'[e])
  <2>1. \/ dlv'[e] = dlv[e]
        \/ /\ dlv[e].status = "sending" /\ ~dlv[e].started
           /\ dlv'[e].status = "sending" /\ dlv'[e].started /\ dlv'[e].gen = dlv[e].gen
    BY <1>1, <1>6 DEF BeginDeliveryAttempt, Owns, Row
  <2>2. QED BY <1>1, <2>1 DEF RowMoves
<1>7. ASSUME NEW w \in Workers, PersistOutcome(w) PROVE RowMoves(dlv[e], dlv'[e])
  <2> DEFINE st == IF fate[w] = "parked" THEN "ambiguous" ELSE fate[w]
  <2>1. /\ dlv[claim[w].id].status = "sending" /\ dlv[claim[w].id].gen = claim[w].gen
        /\ dlv' = [dlv EXCEPT ![claim[w].id].status = st] /\ pc[w] = "persisting"
    BY <1>7 DEF PersistOutcome, Owns
  <2>2. /\ fate[w] \in Fates /\ fate[w] # "none"
        /\ fate[w] \in Settled => dlv[claim[w].id].started
        /\ fate[w] = "parked" => ~dlv[claim[w].id].started
    BY <2>1 DEF DeliveryInv, TypeOK, WorkInv, Working
  <2>3. /\ dlv[claim[w].id].started => st \in Settled
        /\ ~dlv[claim[w].id].started => st = "ambiguous"
    BY <2>2 DEF Fates
  <2> HIDE DEF st
  <2>4. \/ dlv'[e] = dlv[e]
        \/ /\ e = claim[w].id /\ dlv'[e].status = st
           /\ dlv'[e].started = dlv[e].started /\ dlv'[e].gen = dlv[e].gen
    BY <1>1, <2>1 DEF Row
  <2>5. dlv[e].started \in BOOLEAN
    BY <1>1 DEF Row
  <2>6. QED BY <2>1, <2>3, <2>4, <2>5 DEF RowMoves
<1>8. ASSUME NEW w \in Workers,
             \/ ListExpired(w) \/ RecoveryConflict(w) \/ CheckRoute(w) \/ ReadClock(w)
             \/ Send(w) \/ ClaimLost(w) \/ Crash(w)
      PROVE  dlv' = dlv
  BY <1>8 DEF ListExpired, RecoveryConflict, CheckRoute, ReadClock, Send, ClaimLost, Crash, rows
<1>9. CASE UNCHANGED vars
  BY <1>2, <1>9 DEF vars, rows
<1>10. QED
  BY <1>2, <1>3, <1>4, <1>5, <1>6, <1>7, <1>8, <1>9 DEF Next, ClaimStep, DispatchStep

\* These are the transitions of a delivery.
LEMMA MovesAllowed ==
  ASSUME NEW old \in Row, NEW new \in Row, RowMoves(old, new)
  PROVE  DeliveryRows!Allowed(Phase(old), Phase(new))
<1>1. /\ old.status \in {"absent", "queued", "sending", "delivered", "failed", "ambiguous"}
      /\ new.status \in {"absent", "queued", "sending", "delivered", "failed", "ambiguous"}
  BY DEF Row, Settled
<1>2. \A row \in {old, new} :
        /\ row.status = "absent" => Phase(row) = "none"
        /\ row.status = "sending" /\ row.started => Phase(row) = "dispatched"
        /\ row.status = "sending" /\ ~row.started => Phase(row) = "claimed"
        /\ row.status \in {"queued", "delivered", "failed", "ambiguous"} => Phase(row) = row.status
  BY DEF Phase
<1>3. \/ Phase(new) = Phase(old)
      \/ Phase(old) = "none" /\ Phase(new) = "queued"
      \/ Phase(old) = "queued" /\ Phase(new) = "claimed"
      \/ Phase(old) = "claimed" /\ Phase(new) \in {"dispatched", "queued", "failed", "ambiguous"}
      \/ Phase(old) = "dispatched" /\ Phase(new) \in {"delivered", "failed", "ambiguous"}
  BY <1>1, <1>2 DEF RowMoves, Settled
<1>4. QED
  BY <1>3 DEF DeliveryRows!Allowed, DeliveryRows!Moves, DeliveryRows!DeliveryMoves, DeliveryRows!First

\* With the ledger in step with the rows before and after, they are also the
\* transitions of its attempts.
LEMMA LedgerAllowed ==
  ASSUME DeliveryInv, DeliveryInv', NEW d \in Deliveries, NEW g \in Generations,
         RowMoves(dlv[d], dlv'[d])
  PROVE  AttemptRows!Allowed(att[d][g], att'[d][g])
<1>1. /\ att[d][g] = IF ~dlv[d].started \/ g # dlv[d].gen THEN "none"
                     ELSE IF dlv[d].status = "sending" THEN "in_progress" ELSE dlv[d].status
      /\ att'[d][g] = IF ~dlv'[d].started \/ g # dlv'[d].gen THEN "none"
                      ELSE IF dlv'[d].status = "sending" THEN "in_progress" ELSE dlv'[d].status
  BY DEF DeliveryInv, LedgerAgrees
<1>2. \/ att'[d][g] = att[d][g]
      \/ att[d][g] = "none" /\ att'[d][g] = "in_progress"
      \/ att[d][g] = "in_progress" /\ att'[d][g] \in Settled
  BY <1>1 DEF RowMoves, Settled
<1>3. QED
  BY <1>2 DEF AttemptRows!Allowed, AttemptRows!Moves, AttemptRows!AttemptMoves, AttemptRows!First, Settled

\* Deliveries and attempts keep their lifecycle for any number of dispatchers
\* that crash, stall and recover each other's claims: the detailed transactions
\* implement Lifecycle.
THEOREM DeliveriesKeepTheirLifecycle == Spec => DeliveriesFollow
<1>1. Init => DeliveryRows!Init /\ AttemptRows!Init
  BY DEF Init, Phase, DeliveryRows!Init, AttemptRows!Init
<1>2. ASSUME DeliveryInv, [Next]_vars PROVE DeliveryRows!Next /\ AttemptRows!Next
  <2>1. DeliveryInv' /\ \A d \in Deliveries : dlv[d] \in Row /\ dlv'[d] \in Row /\ RowMoves(dlv[d], dlv'[d])
    BY <1>2, NextInv, StepMoves DEF DeliveryInv, TypeOK
  <2>2. DeliveryRows!Next
    BY <2>1, MovesAllowed DEF DeliveryRows!Next
  <2>3. \A d \in Deliveries, g \in Generations : AttemptRows!Allowed(att[d][g], att'[d][g])
    BY <1>2, <2>1, LedgerAllowed
  <2>4. AttemptRows!Next
    BY <2>3 DEF AttemptRows!Next
  <2>5. QED BY <2>2, <2>4
<1>3. QED
  BY <1>1, <1>2, DeliveryInvariant, PTL DEF Spec, DeliveriesFollow, DeliveryRows!Spec, AttemptRows!Spec
=============================================================================
