-------------------------- MODULE DelegationProofs --------------------------
(***************************************************************************)
(* What Delegation guarantees for every number of workers, Runs, requests, *)
(* attempts and operators' commands and for all budgets.  Commands write   *)
(* what they made of a Run they read earlier, and CancelTask ends Runs     *)
(* that still have rows.  The argument is that only the latest attempt of  *)
(* an execution can be alive or have a row, so that the end that settles a *)
(* delegation is the end of its last live Run; and that what a budget      *)
(* counts, the request an execution was created for, never changes.        *)
(***************************************************************************)
EXTENDS Delegation, Integers, TLAPS

\* Most leaves are first-order: Zenon takes those that name no prover, and a leaf
\* about numbers, sets of records or functions cites SMT.
USE Zenon

RunState == {"none"} \cup Live \cup Terminal
RequestState == {"none", "requested", "dispatched"} \cup Terminal
RequestRow ==
  [status : RequestState, parent : 0 .. MaxRuns, child : 0 .. MaxRuns, root : 0 .. MaxRequests,
   depth : 0 .. MaxDepth]
Places == {"idle", "processing", "dispatching", "succeeding", "failing", "retrying", "acking", "down"}
Rows == {"absent", "free"} \cup Workers

\* The Runs that exist, and the requests that own an execution.
Created == {r \in Runs : status[r] # "none"}
Made == {q \in Requests : req[q].child # 0}

\* Runs are created in order; an execution is named by its first attempt, and
\* has a last one.
LineageInv ==
  /\ \A r \in Runs \ Created :
       /\ exec[r] = 0 /\ row[r] = "absent" /\ waits[r] = 0
       /\ \A s \in Runs : r < s => s \notin Created
  /\ \A r \in Created : exec[r] \in Created /\ exec[exec[r]] = exec[r] /\ Latest(exec[r]) # {}

\* Workers and commands refer to Runs that exist; a dispatch was admitted at
\* the depth it will have.
LocalInv ==
  /\ 1 \in Created
  /\ \A w \in Workers : job[w] \in Created
  /\ sess.run \in Created /\ sess.op \notin {"cancelTask", "request"}
  /\ \A w \in Workers, p \in Created : pc[w] = "dispatching" /\ job[w] = p => DepthAfter(p) <= MaxDepth

\* Requests are made by Runs that exist, and each owns an execution of its own.
RequestsInv ==
  /\ \A q \in Requests : req[q].status = "none" => req[q] = NoRequest
  /\ \A q \in Requests : req[q].status # "none" => req[q].parent \in Created
  /\ \A q \in Requests : req[q].status \in {"dispatched"} \cup Terminal <=> q \in Made
  /\ \A q \in Requests \ Made : req[q].root = 0
  /\ \A q \in Made : /\ req[q].child \in Created /\ exec[req[q].child] = req[q].child
                     /\ req[q].root \in Made
  /\ \A p, q \in Made : req[p].child = req[q].child => p = q

\* A Run that may still do something.
InPlay(r) == status[r] \in Live \/ row[r] # "absent"

\* Only the last attempt is in play, a Run that ended and kept its row was
\* cancelled with its Task, and a Run has an open request only if it waits for
\* it or will never run again.
RunOK(r) ==
  /\ InPlay(r) => \A a \in Attempts(exec[r]) : a <= r
  /\ status[r] \in Terminal /\ row[r] # "absent" => exec[r] \in cancelled /\ DispatchedBy(r) = {}
  /\ status[r] = "waiting" <=> waits[r] # 0
  /\ status[r] = "waiting" => row[r] = "absent" /\ DispatchedBy(r) = {waits[r]}
  /\ status[r] \in {"queued", "running"} => row[r] # "absent" /\ DispatchedBy(r) = {}

\* A request is open exactly while its execution is alive.
RequestOK(q) ==
  req[q].child \notin cancelled =>
    (req[q].status = "dispatched" <=> \E a \in Runs : exec[a] = req[q].child /\ status[a] \in Live)

AliveInv == (\A r \in Created : RunOK(r)) /\ (\A q \in Made : RequestOK(q))

DelegationInv == TypeOK /\ LineageInv /\ LocalInv /\ RequestsInv /\ BudgetsHold /\ AliveInv

-----------------------------------------------------------------------------
(* Types *)

\* The rows a fresh request may be given.
LEMMA FreshTypes ==
  ASSUME TypeOK
  PROVE  /\ NoRequest \in RequestRow
         /\ \A r \in Fresh : r \in Runs /\ status[r] = "none"
         /\ \A q \in FreshRequest : q \in Requests /\ req[q].status = "none"
<1>1. 0 \in 0 .. MaxRuns /\ 0 \in 0 .. MaxRequests /\ 0 \in 0 .. MaxDepth
  BY DelegationAssumption, SMT
<1>2. QED BY <1>1 DEF Fresh, FreshRequest, NoRequest, RequestRow, RequestState

\* The depth of a request is that of the one above it, and one more.
LEMMA DepthTypes ==
  ASSUME TypeOK, NEW p \in Runs
  PROVE  /\ DepthAfter(p) \in Nat /\ DepthAfter(p) > 0
         /\ Incoming(p) # {} => (CHOOSE i \in Incoming(p) : TRUE) \in Incoming(p)
<1>1. ASSUME Incoming(p) # {}
      PROVE  (CHOOSE i \in Incoming(p) : TRUE) \in Incoming(p)
  BY <1>1
<1>2. \A i \in Incoming(p) : req[i].depth \in Nat
  BY DelegationAssumption, SMT DEF Incoming, TypeOK
<1>3. QED BY <1>1, <1>2, SMT DEF DepthAfter

\* Returning to the loop is well typed.
LEMMA ReturnsTypes ==
  ASSUME TypeOK, NEW w \in Workers, Returns(w)
  PROVE  /\ pc' \in [Workers -> Places] /\ job' \in [Workers -> Runs]
         /\ asked' \in [Workers -> 0 .. MaxRequests]
         /\ \A v \in Workers : v # w => pc'[v] = pc[v] /\ job'[v] = job[v]
         /\ pc'[w] = "idle" /\ job'[w] = 1
<1>1. 1 \in Runs /\ 0 \in 0 .. MaxRequests
  BY DelegationAssumption, SMT DEF Runs
<1>2. QED BY <1>1 DEF Returns, Goes, TypeOK, Places

\* What the settlement leaves of requests.
SettledRow(q) ==
  \/ req'[q] = req[q]
  \/ /\ q \in Made /\ req[q].status = "dispatched"
     /\ \E t \in Terminal : req'[q] = [req[q] EXCEPT !.status = t]

\* An end, and the settlement that goes with it.
LEMMA EndRunEffect ==
  ASSUME TypeOK, LineageInv, RequestsInv, NEW r \in Created, NEW o \in Terminal, EndRun(r, o)
  PROVE  LET ended == [status EXCEPT ![r] = o]
             settled == Settles(r, ended)
             woken == {p \in Runs : ended[p] = "waiting" /\ waits[p] \in settled}
         IN  /\ status' \in [Runs -> RunState] /\ waits' \in [Runs -> 0 .. MaxRequests]
             /\ row' \in [Runs -> Rows] /\ req' \in [Requests -> RequestRow]
             /\ UNCHANGED <<exec, cancelled>>
             /\ Created' = Created
             /\ \A q \in Requests : SettledRow(q)
             /\ \A q \in settled : req'[q].status \in Terminal
             /\ \A q \in Requests \ settled : req'[q] = req[q]
             /\ status'[r] = o /\ waits'[r] = 0 /\ row'[r] = "absent" /\ r \notin woken
             /\ \A p \in Runs \ {r} :
                  IF p \in woken
                  THEN /\ status[p] = "waiting" /\ waits[p] \in settled
                       /\ status'[p] = "running" /\ waits'[p] = 0 /\ row'[p] # "absent"
                  ELSE /\ status'[p] = status[p] /\ waits'[p] = waits[p] /\ row'[p] = row[p]
<1> DEFINE ended == [status EXCEPT ![r] = o]
           settled == Settles(r, ended)
           woken == {p \in Runs : ended[p] = "waiting" /\ waits[p] \in settled}
           last == CHOOSE a \in Latest(exec[r]) : TRUE
<1>1. /\ status \in [Runs -> RunState] /\ waits \in [Runs -> 0 .. MaxRequests]
      /\ row \in [Runs -> Rows] /\ req \in [Requests -> RequestRow] /\ r \in Runs
      /\ 0 \in 0 .. MaxRequests
  BY DelegationAssumption, SMT DEF TypeOK, RunState, RequestState, Rows, RequestRow, Created
<1>2. /\ status' = [p \in Runs |-> IF p \in woken THEN "running" ELSE ended[p]]
      /\ waits' = [p \in Runs |-> IF p \in woken \cup {r} THEN 0 ELSE waits[p]]
      /\ row' = [p \in Runs |->
           IF p = r THEN "absent" ELSE IF p \in woken /\ row[p] = "absent" THEN "free" ELSE row[p]]
      /\ req' = [q \in Requests |->
           IF q \in settled THEN [req[q] EXCEPT !.status = ended[last]] ELSE req[q]]
      /\ UNCHANGED <<exec, cancelled>>
  BY DEF EndRun, Resume
<1>3. /\ ended \in [Runs -> RunState] /\ ended[r] = o
      /\ \A p \in Runs \ {r} : ended[p] = status[p]
  BY <1>1 DEF RunState
<1>4. last \in Latest(exec[r])
  BY DEF LineageInv
<1>5. \A q \in settled : /\ q \in Requests /\ q \in Made /\ req[q].status = "dispatched"
                         /\ ended[last] \in Terminal
  BY <1>4 DEF Settles, Incoming, RequestsInv
<1> HIDE DEF settled, ended, last
<1>6. /\ status' \in [Runs -> RunState] /\ waits' \in [Runs -> 0 .. MaxRequests] /\ row' \in [Runs -> Rows]
  BY <1>1, <1>2, <1>3 DEF RunState, Live, Rows
<1>7. \A q \in settled : req'[q] = [req[q] EXCEPT !.status = ended[last]] /\ req'[q] \in RequestRow
  BY <1>1, <1>2, <1>5 DEF RequestRow, RequestState
<1>8. \A q \in Requests \ settled : req'[q] = req[q] /\ req'[q] \in RequestRow
  BY <1>1, <1>2
<1>9. req' \in [Requests -> RequestRow]
  BY <1>2, <1>7, <1>8
<1>10. \A q \in settled : req'[q].status \in Terminal
  BY <1>1, <1>5, <1>7 DEF RequestRow
<1>11. \A q \in Requests : SettledRow(q)
  BY <1>5, <1>7, <1>8 DEF SettledRow
<1>12. /\ r \notin woken
       /\ status'[r] = o /\ waits'[r] = 0 /\ row'[r] = "absent"
  BY <1>1, <1>2, <1>3 DEF Terminal
<1>13. ASSUME NEW p \in Runs \ {r}
       PROVE  IF p \in woken
              THEN /\ status[p] = "waiting" /\ waits[p] \in settled
                   /\ status'[p] = "running" /\ waits'[p] = 0 /\ row'[p] # "absent"
              ELSE /\ status'[p] = status[p] /\ waits'[p] = waits[p] /\ row'[p] = row[p]
  BY <1>1, <1>2, <1>3
<1>14. Created' = Created
  <2>1. \A p \in Runs : status'[p] # "none" <=> status[p] # "none"
    BY <1>12, <1>13 DEF Created, Terminal
  <2>2. QED BY <2>1 DEF Created
<1>15. QED BY <1>2, <1>6, <1>8, <1>9, <1>10, <1>11, <1>12, <1>13, <1>14 DEF settled, ended

\* A fresh Run comes after all that exist.
LEMMA FreshIsLast ==
  ASSUME TypeOK, LineageInv, NEW n \in Fresh
  PROVE  /\ n \in Runs /\ n \notin Created /\ exec[n] = 0 /\ waits[n] = 0 /\ row[n] = "absent"
         /\ \A r \in Created : r < n
         /\ \A r \in Runs : r < n => r \in Created
<1>1. n \in Runs /\ status[n] = "none" /\ \A r \in Runs : r < n => status[r] # "none"
  BY DEF Fresh
<1>2. n \notin Created /\ Runs \subseteq Int
  BY <1>1, DelegationAssumption, SMT DEF Created, Runs
<1>3. QED BY <1>1, <1>2, SMT DEF LineageInv, Created

\* The tables after a dispatch.
LEMMA DispatchEffect ==
  ASSUME TypeOK, LineageInv, LocalInv, RequestsInv,
         NEW w \in Workers, NEW r \in Runs, NEW q \in Requests, Dispatch(w, r, q)
  PROVE  LET p == job[w]
             above == Incoming(p)
             new == [status |-> "dispatched", parent |-> p, child |-> r, depth |-> DepthAfter(p),
                     root |-> IF above = {} THEN q ELSE req[CHOOSE i \in above : TRUE].root]
         IN  /\ TypeOK' /\ Created' = Created \cup {r}
             /\ p \in Created /\ p # r /\ r \in Fresh /\ row[p] = w /\ req[q] = NoRequest /\ new \in RequestRow
             /\ status'[p] = "waiting" /\ waits'[p] = q /\ row'[p] = "absent"
             /\ status'[r] = "queued" /\ waits'[r] = 0 /\ row'[r] = "free" /\ exec'[r] = r
             /\ \A s \in Runs \ {p, r} : status'[s] = status[s] /\ waits'[s] = waits[s] /\ row'[s] = row[s]
             /\ \A s \in Runs \ {r} : exec'[s] = exec[s]
             /\ req'[q] = new /\ \A s \in Requests \ {q} : req'[s] = req[s]
             /\ UNCHANGED <<cancelled, job, sess>>
             /\ \A v \in Workers : pc'[v] = "dispatching" => pc[v] = "dispatching"
<1> DEFINE p == job[w]
           above == Incoming(p)
           new == [status |-> "dispatched", parent |-> p, child |-> r, depth |-> DepthAfter(p),
                   root |-> IF above = {} THEN q ELSE req[CHOOSE i \in above : TRUE].root]
<1>1. /\ status \in [Runs -> RunState] /\ exec \in [Runs -> 0 .. MaxRuns]
      /\ waits \in [Runs -> 0 .. MaxRequests]
      /\ row \in [Runs -> Rows] /\ req \in [Requests -> RequestRow]
      /\ pc \in [Workers -> Places] /\ asked \in [Workers -> 0 .. MaxRequests]
  BY DEF TypeOK, RunState, RequestState, Rows, RequestRow, Places
<1>2. /\ pc[w] = "dispatching" /\ row[p] = w /\ r \in Fresh /\ q \in FreshRequest
      /\ status' = [status EXCEPT ![p] = "waiting", ![r] = "queued"]
      /\ exec' = [exec EXCEPT ![r] = r]
      /\ waits' = [waits EXCEPT ![p] = q]
      /\ row' = [row EXCEPT ![p] = "absent", ![r] = "free"]
      /\ req' = [req EXCEPT ![q] = new]
      /\ asked' = [asked EXCEPT ![w] = q]
      /\ pc' = [pc EXCEPT ![w] = "acking"]
      /\ UNCHANGED <<cancelled, job, sess, events>>
  BY DEF Dispatch, Owns, Goes
<1>3. /\ p \in Created /\ p \in Runs /\ r \notin Created /\ p # r /\ waits[r] = 0
      /\ req[q] = NoRequest /\ DepthAfter(p) <= MaxDepth
  BY <1>2, FreshIsLast, FreshTypes DEF LocalInv, RequestsInv, Created
<1>4. new \in RequestRow
  <2>1. p \in 0 .. MaxRuns /\ r \in 0 .. MaxRuns /\ q \in 0 .. MaxRequests
    BY <1>3, DelegationAssumption, SMT DEF Runs, Requests
  <2>2. DepthAfter(p) \in 0 .. MaxDepth
    BY <1>3, DepthTypes, DelegationAssumption, SMT
  <2>3. above # {} => req[CHOOSE i \in above : TRUE].root \in 0 .. MaxRequests
    <3>1. \A i \in above : req[i].root \in 0 .. MaxRequests
      BY <1>1 DEF Incoming, RequestRow
    <3>2. QED BY <1>3, <3>1, DepthTypes
  <2> HIDE DEF p, above
  <2>4. QED BY <2>1, <2>2, <2>3 DEF RequestRow, RequestState
<1> HIDE DEF new, p
<1>5. /\ status' \in [Runs -> RunState] /\ exec' \in [Runs -> 0 .. MaxRuns]
      /\ waits' \in [Runs -> 0 .. MaxRequests]
      /\ row' \in [Runs -> Rows] /\ req' \in [Requests -> RequestRow]
      /\ pc' \in [Workers -> Places] /\ asked' \in [Workers -> 0 .. MaxRequests]
  <2>1. r \in 0 .. MaxRuns /\ q \in 0 .. MaxRequests
    BY DelegationAssumption, SMT DEF Runs, Requests
  <2>2. QED BY <1>1, <1>2, <1>4, <2>1 DEF RunState, Live, Rows, Places
<1>6. TypeOK'
  BY <1>2, <1>5 DEF TypeOK, RunState, RequestState, Rows, RequestRow, Places
<1>7. /\ status'[p] = "waiting" /\ waits'[p] = q /\ row'[p] = "absent"
      /\ status'[r] = "queued" /\ waits'[r] = 0 /\ row'[r] = "free" /\ exec'[r] = r
      /\ \A s \in Runs \ {p, r} : status'[s] = status[s] /\ waits'[s] = waits[s] /\ row'[s] = row[s]
      /\ \A s \in Runs \ {r} : exec'[s] = exec[s]
      /\ req'[q] = new /\ \A s \in Requests \ {q} : req'[s] = req[s]
      /\ \A v \in Workers : pc'[v] = "dispatching" => pc[v] = "dispatching"
  BY <1>1, <1>2, <1>3
<1>8. Created' = Created \cup {r}
  BY <1>3, <1>7 DEF Created
<1>9. QED BY <1>2, <1>3, <1>4, <1>6, <1>7, <1>8 DEF new, p

\* The tables after a retry.
Retries(w, n) ==
  LET r == job[w] IN
  /\ status' = [status EXCEPT ![r] = "failed", ![n] = "queued"]
  /\ exec' = [exec EXCEPT ![n] = exec[r]]
  /\ row' = [row EXCEPT ![r] = "absent", ![n] = "free"]
  /\ waits' = [waits EXCEPT ![r] = 0]
  /\ UNCHANGED <<req, cancelled, sess, events>>

\* What a retry does to the Run it gives up and to the Run it queues for the
\* same execution.
LEMMA RetryEffect ==
  ASSUME TypeOK, LineageInv, LocalInv, NEW w \in Workers, NEW n \in Fresh, Retries(w, n), Returns(w)
  PROVE  LET r == job[w]
         IN  /\ TypeOK' /\ Created' = Created \cup {n}
             /\ r \in Created /\ r # n
             /\ status'[r] = "failed" /\ waits'[r] = 0 /\ row'[r] = "absent"
             /\ status'[n] = "queued" /\ waits'[n] = 0 /\ row'[n] = "free" /\ exec'[n] = exec[r]
             /\ \A s \in Runs \ {r, n} : status'[s] = status[s] /\ waits'[s] = waits[s] /\ row'[s] = row[s]
             /\ \A s \in Runs \ {n} : exec'[s] = exec[s]
<1> DEFINE r == job[w]
<1>1. /\ status \in [Runs -> RunState] /\ exec \in [Runs -> 0 .. MaxRuns]
      /\ waits \in [Runs -> 0 .. MaxRequests] /\ row \in [Runs -> Rows]
      /\ 0 \in 0 .. MaxRequests
  BY DelegationAssumption, SMT DEF TypeOK, RunState, Rows
<1>2. r \in Created /\ r \in Runs /\ n \in Runs /\ n \notin Created /\ r # n /\ waits[n] = 0
  BY FreshIsLast DEF LocalInv, Created
<1>3. /\ status' = [status EXCEPT ![r] = "failed", ![n] = "queued"]
      /\ exec' = [exec EXCEPT ![n] = exec[r]]
      /\ row' = [row EXCEPT ![r] = "absent", ![n] = "free"]
      /\ waits' = [waits EXCEPT ![r] = 0]
      /\ UNCHANGED <<req, cancelled, sess, events>>
  BY DEF Retries
<1> HIDE DEF r
<1>4. /\ status' \in [Runs -> RunState] /\ exec' \in [Runs -> 0 .. MaxRuns]
      /\ waits' \in [Runs -> 0 .. MaxRequests] /\ row' \in [Runs -> Rows]
  BY <1>1, <1>2, <1>3 DEF RunState, Live, Terminal, Rows
<1>5. TypeOK'
  BY <1>3, <1>4, ReturnsTypes DEF TypeOK, RunState, Rows, Places
<1>6. /\ status'[r] = "failed" /\ waits'[r] = 0 /\ row'[r] = "absent"
      /\ status'[n] = "queued" /\ waits'[n] = 0 /\ row'[n] = "free" /\ exec'[n] = exec[r]
      /\ \A s \in Runs \ {r, n} : status'[s] = status[s] /\ waits'[s] = waits[s] /\ row'[s] = row[s]
      /\ \A s \in Runs \ {n} : exec'[s] = exec[s]
  BY <1>1, <1>2, <1>3
<1>7. Created' = Created \cup {n}
  BY <1>2, <1>6 DEF Created
<1>8. QED BY <1>2, <1>5, <1>6, <1>7 DEF r

-----------------------------------------------------------------------------
(* Lineages and requests *)

\* A settlement changes the status of open requests and nothing else of them.
LEMMA SettledFields ==
  ASSUME TypeOK, NEW q \in Requests, SettledRow(q)
  PROVE  /\ req'[q].parent = req[q].parent /\ req'[q].child = req[q].child
         /\ req'[q].root = req[q].root /\ req'[q].depth = req[q].depth
         /\ \/ req'[q] = req[q]
            \/ q \in Made /\ req[q].status = "dispatched" /\ req'[q].status \in Terminal
<1>1. req[q] \in RequestRow
  BY DEF TypeOK, RequestRow, RequestState
<1>2. CASE req'[q] = req[q]
  BY <1>2
<1>3. ASSUME NEW t \in Terminal, q \in Made, req[q].status = "dispatched",
             req'[q] = [req[q] EXCEPT !.status = t]
      PROVE  /\ req'[q].parent = req[q].parent /\ req'[q].child = req[q].child
             /\ req'[q].root = req[q].root /\ req'[q].depth = req[q].depth
             /\ q \in Made /\ req[q].status = "dispatched" /\ req'[q].status \in Terminal
  BY <1>1, <1>3 DEF RequestRow
<1>4. QED BY <1>2, <1>3 DEF SettledRow

\* The depth at which a Run delegates depends on nothing else.
LEMMA DepthStays ==
  ASSUME TypeOK, NEW p \in Runs, exec'[p] = exec[p],
         \A q \in Requests : req'[q].child = exec[p] <=> req[q].child = exec[p],
         \A q \in Requests : req[q].child = exec[p] => req'[q].depth = req[q].depth
  PROVE  Incoming(p)' = Incoming(p) /\ DepthAfter(p)' = DepthAfter(p)
<1>1. Incoming(p)' = Incoming(p)
  BY DEF Incoming
<1>2. CASE Incoming(p) = {}
  BY <1>1, <1>2 DEF DepthAfter
<1>3. CASE Incoming(p) # {}
  <2> DEFINE i == CHOOSE q \in Incoming(p) : TRUE
  <2>1. i \in Incoming(p)
    BY <1>3
  <2>2. req'[i].depth = req[i].depth
    BY <2>1 DEF Incoming
  <2>3. QED BY <1>1, <1>3, <2>2, SMT DEF DepthAfter
<1>4. QED BY <1>1, <1>2, <1>3

\* Steps that create nothing.
LEMMA QuietStructure ==
  ASSUME TypeOK, LineageInv, RequestsInv, BudgetsHold, exec' = exec, Created' = Created,
         \A q \in Requests : SettledRow(q),
         \A r \in Runs \ Created : row'[r] = "absent" /\ waits'[r] = 0
  PROVE  /\ LineageInv' /\ RequestsInv' /\ BudgetsHold'
         /\ \A p \in Created : DepthAfter(p)' = DepthAfter(p)
<1>1. \A q \in Requests :
        /\ req'[q].parent = req[q].parent /\ req'[q].child = req[q].child
        /\ req'[q].root = req[q].root /\ req'[q].depth = req[q].depth
        /\ \/ req'[q] = req[q]
           \/ q \in Made /\ req[q].status = "dispatched" /\ req'[q].status \in Terminal
  BY SettledFields
<1>2. LineageInv'
  BY SMT DEF LineageInv, Latest, Attempts
<1>3. Made' = Made
  BY <1>1 DEF Made
<1>4. RequestsInv'
  <2>1. \A q \in Requests : req'[q].status = "none" => req'[q] = NoRequest
    BY <1>1, SMT DEF RequestsInv, Terminal
  <2>2. \A q \in Requests : req'[q].status # "none" => req'[q].parent \in Created
    BY <1>1 DEF RequestsInv
  <2>3. \A q \in Requests : req'[q].status \in {"dispatched"} \cup Terminal <=> q \in Made
    BY <1>1 DEF RequestsInv
  <2>4. \A q \in Requests \ Made : req'[q].root = 0
    BY <1>1 DEF RequestsInv
  <2>5. \A q \in Made : /\ req'[q].child \in Created /\ exec[req'[q].child] = req'[q].child
                        /\ req'[q].root \in Made
    BY <1>1, SMT DEF RequestsInv, Made
  <2>6. \A p, q \in Made : req'[p].child = req'[q].child => p = q
    BY <1>1, SMT DEF RequestsInv, Made
  <2>7. QED BY <1>3, <2>1, <2>2, <2>3, <2>4, <2>5, <2>6 DEF RequestsInv
<1>5. BudgetsHold'
  <2>1. \A r \in Runs : {q \in Requests : req'[q].parent = r /\ req'[q].child # 0}
                          = {q \in Requests : req[q].parent = r /\ req[q].child # 0}
    BY <1>1
  <2>2. \A t \in Requests : {q \in Requests : req'[q].root = t} = {q \in Requests : req[q].root = t}
    BY <1>1
  <2>3. ASSUME NEW q \in Requests, req'[q].child # 0
        PROVE  LET above == {p \in Requests : req'[p].child = exec[req'[q].parent]} IN
               /\ above = {} => req'[q].depth = 1 /\ req'[q].root = q
               /\ \A p \in above : req'[q].depth = req'[p].depth + 1 /\ req'[q].root = req'[p].root
    <3>1. {p \in Requests : req'[p].child = exec[req'[q].parent]}
            = {p \in Requests : req[p].child = exec[req[q].parent]}
      BY <1>1
    <3>2. QED BY <1>1, <2>3, <3>1, SMT DEF BudgetsHold
  <2>4. QED BY <2>1, <2>2, <2>3 DEF BudgetsHold
<1>6. ASSUME NEW p \in Created PROVE DepthAfter(p)' = DepthAfter(p)
  BY <1>1, DepthStays DEF Created
<1>7. QED BY <1>2, <1>4, <1>5, <1>6

\* A new Run is the last attempt of its execution, its own or another's.
LEMMA NewestRun ==
  ASSUME TypeOK, LineageInv, NEW n \in Fresh, NEW e \in Created \cup {n}, e # n => exec[e] = e,
         exec'[n] = e, \A s \in Runs \ {n} : exec'[s] = exec[s], Created' = Created \cup {n},
         \A s \in Runs \ Created : s # n => row'[s] = row[s] /\ waits'[s] = waits[s]
  PROVE  /\ LineageInv' /\ e # 0
         /\ \A x : x # 0 => Attempts(x)' = IF x = e THEN Attempts(x) \cup {n} ELSE Attempts(x)
         /\ \A x \in Runs : \A a \in Attempts(x) : a \in Created
<1>1. /\ n \in Runs /\ n \notin Created /\ exec[n] = 0
      /\ \A r \in Created : r < n
      /\ \A r \in Runs : r < n => r \in Created
  BY FreshIsLast
<1>2. Runs \subseteq Int /\ Created \subseteq Runs /\ 0 \notin Runs
  BY DelegationAssumption, SMT DEF Runs, Created
<1>3. e # 0
  BY <1>1, <1>2
<1>4. \A x \in Runs : \A a \in Attempts(x) : a \in Created
  BY <1>2, SMT DEF LineageInv, Attempts
<1>5. ASSUME NEW x, x # 0 PROVE Attempts(x)' = IF x = e THEN Attempts(x) \cup {n} ELSE Attempts(x)
  BY <1>1, <1>5 DEF Attempts
<1>6. ASSUME NEW s \in Runs \ Created'
      PROVE  /\ exec'[s] = 0 /\ row'[s] = "absent" /\ waits'[s] = 0
             /\ \A t \in Runs : s < t => t \notin Created'
  <2>1. s \in Runs \ Created /\ s # n /\ n < s
    BY <1>1, <1>2, SMT
  <2>2. \A t \in Runs : s < t => t \notin Created /\ t # n
    BY <1>1, <1>2, <2>1, SMT DEF LineageInv
  <2>3. QED BY <2>1, <2>2 DEF LineageInv
<1>7. \E a \in Attempts(e)' : \A b \in Attempts(e)' : b <= a
  <2>1. n \in Attempts(e)'
    BY <1>1 DEF Attempts
  <2>2. \A b \in Attempts(e)' : b <= n
    <3>1. e \in Runs
      BY <1>1, <1>2
    <3>2. \A b \in Attempts(e)' : b = n \/ b \in Created
      BY <1>3, <1>4, <1>5, <3>1, SMT
    <3>3. n <= n /\ \A b \in Created : b <= n
      BY <1>1, <1>2, SMT
    <3>4. QED BY <3>2, <3>3
  <2>3. QED BY <2>1, <2>2
<1>8. ASSUME NEW s \in Created'
      PROVE  exec'[s] \in Created' /\ exec'[exec'[s]] = exec'[s] /\ Latest(exec[s])' # {}
  <2>1. CASE exec'[s] = e
    <3>1. e \in Created' /\ exec'[e] = e
      BY <1>1, <1>2
    <3>2. QED BY <1>7, <2>1, <3>1 DEF Latest
  <2>2. CASE exec'[s] # e
    <3>1. s \in Created /\ s # n /\ exec'[s] = exec[s] /\ exec[s] \in Created
      BY <1>1, <1>2, <2>2 DEF LineageInv
    <3>2. exec[s] # n /\ exec[s] # 0 /\ exec'[exec[s]] = exec[s] /\ Latest(exec[s]) # {}
      BY <1>1, <1>2, <3>1 DEF LineageInv
    <3>3. Attempts(exec[s])' = Attempts(exec[s])
      <4>1. \A x : x # 0 /\ x # e => Attempts(x)' = Attempts(x)
        BY <1>5
      <4>2. QED BY <2>2, <3>1, <3>2, <4>1, SMT DEF Attempts
    <3>4. QED BY <3>1, <3>2, <3>3 DEF Latest
  <2>3. QED BY <2>1, <2>2
<1>9. LineageInv'
  BY <1>6, <1>8 DEF LineageInv
<1>10. QED BY <1>3, <1>4, <1>5, <1>9

\* A retry touches no request.
LEMMA RetryStructure ==
  ASSUME TypeOK, LineageInv, RequestsInv, BudgetsHold, NEW n \in Fresh, req' = req,
         Created' = Created \cup {n}, \A s \in Runs \ {n} : exec'[s] = exec[s]
  PROVE  /\ RequestsInv' /\ BudgetsHold'
         /\ \A p \in Created : DepthAfter(p)' = DepthAfter(p)
<1>1. \A s \in Created : exec'[s] = exec[s] /\ s \in Runs
  BY FreshIsLast DEF Created
<1>2. Made' = Made
  BY DEF Made
<1>3. RequestsInv'
  BY <1>1, <1>2 DEF RequestsInv
<1>4. \A q \in Requests : req[q].child # 0 => exec'[req[q].parent] = exec[req[q].parent]
  BY <1>1 DEF RequestsInv, Made, Terminal
<1>5. BudgetsHold'
  BY <1>4, SMT DEF BudgetsHold
<1>6. \A p \in Created : DepthAfter(p)' = DepthAfter(p)
  BY <1>1, DepthStays
<1>7. QED BY <1>3, <1>5, <1>6

\* A request that is only recorded takes no slot.
LEMMA CreateStructure ==
  ASSUME TypeOK, LineageInv, RequestsInv, BudgetsHold, NEW r \in Runs, CreateDelegationRequest(r)
  PROVE  /\ RequestsInv' /\ BudgetsHold' /\ req' \in [Requests -> RequestRow]
         /\ \A q \in Requests : req'[q] = req[q] \/ (q \notin Made /\ req'[q].status = "requested")
         /\ Made' = Made /\ \A q \in Made : req'[q] = req[q]
         /\ \A p \in Created : DepthAfter(p)' = DepthAfter(p)
<1>1. PICK q \in FreshRequest :
        req' = [req EXCEPT ![q] = [NoRequest EXCEPT !.status = "requested", !.parent = r]]
  BY DEF CreateDelegationRequest
<1>2. /\ r \in Created /\ UNCHANGED <<status, exec>> /\ r \in 0 .. MaxRuns
      /\ req \in [Requests -> RequestRow]
  BY DelegationAssumption, SMT DEF CreateDelegationRequest, Created, Runs, TypeOK, RequestRow, RequestState
<1>3. q \in Requests /\ req[q] = NoRequest /\ q \notin Made /\ NoRequest \in RequestRow
  BY FreshTypes, SMT DEF RequestsInv, Made, NoRequest
<1>4. /\ req'[q].status = "requested" /\ req'[q].parent = r /\ req'[q].child = 0 /\ req'[q].root = 0
      /\ req'[q] \in RequestRow
      /\ \A x \in Requests \ {q} : req'[x] = req[x]
      /\ req[q].child = 0 /\ req[q].root = 0
  <2>1. /\ req'[q] = [NoRequest EXCEPT !.status = "requested", !.parent = r]
        /\ \A x \in Requests \ {q} : req'[x] = req[x]
    BY <1>1, <1>2, <1>3
  <2> DEFINE new == [NoRequest EXCEPT !.status = "requested", !.parent = r]
  <2>2. new \in RequestRow
    BY <1>2, <1>3 DEF RequestRow, RequestState
  <2>3. /\ new.status = "requested" /\ new.parent = r
        /\ new.child = NoRequest.child /\ new.root = NoRequest.root
    BY <1>3 DEF RequestRow
  <2>4. NoRequest.child = 0 /\ NoRequest.root = 0
    BY DEF NoRequest
  <2> HIDE DEF new
  <2>5. QED BY <1>3, <2>1, <2>2, <2>3, <2>4 DEF new
<1>5. req' \in [Requests -> RequestRow]
  BY <1>1, <1>2, <1>4
<1>6. Made' = Made
  BY <1>3, <1>4 DEF Made
<1>7. RequestsInv'
  <2>1. Created' = Created
    BY <1>2 DEF Created
  <2>2. \A x \in Made : req'[x] = req[x] /\ x \in Requests
    BY <1>3, <1>4 DEF Made
  <2>3. \A x \in Requests : x # q => req'[x] = req[x]
    BY <1>4
  <2>4. \A x \in Requests : req'[x].status \in {"dispatched"} \cup Terminal <=> x \in Made
    BY <1>3, <1>4, <2>3 DEF RequestsInv, Terminal
  <2>5. QED BY <1>2, <1>3, <1>4, <1>6, <2>1, <2>2, <2>3, <2>4, SMT DEF RequestsInv
<1>8. BudgetsHold'
  <2>1. \A s \in Runs : {x \in Requests : req'[x].parent = s /\ req'[x].child # 0}
                          = {x \in Requests : req[x].parent = s /\ req[x].child # 0}
    BY <1>4
  <2>2. \A t \in Requests : {x \in Requests : req'[x].root = t} = {x \in Requests : req[x].root = t}
    BY <1>4
  <2>3. ASSUME NEW x \in Requests, req'[x].child # 0
        PROVE  LET over == {y \in Requests : req'[y].child = exec[req'[x].parent]} IN
               /\ over = {} => req'[x].depth = 1 /\ req'[x].root = x
               /\ \A y \in over : req'[x].depth = req'[y].depth + 1 /\ req'[x].root = req'[y].root
    <3>1. req'[x] = req[x] /\ req[x].child # 0 /\ req[x].parent \in Created
      BY <1>4, <2>3 DEF RequestsInv, Made, Terminal
    <3>2. exec[req[x].parent] # 0
      BY <3>1, DelegationAssumption, SMT DEF LineageInv, Created, Runs
    <3>3. \A y \in Requests : req'[y].child = exec[req[x].parent] => req'[y] = req[y]
      BY <1>4, <3>2
    <3>4. {y \in Requests : req'[y].child = exec[req'[x].parent]}
            = {y \in Requests : req[y].child = exec[req[x].parent]}
      BY <1>4, <3>1, <3>2
    <3>5. QED BY <3>1, <3>3, <3>4, SMT DEF BudgetsHold
  <2>4. QED BY <1>2, <2>1, <2>2, <2>3, SMT DEF BudgetsHold
<1>9. ASSUME NEW p \in Created PROVE DepthAfter(p)' = DepthAfter(p)
  <2>1. p \in Runs /\ exec'[p] = exec[p] /\ exec[p] # 0
    BY <1>2, DelegationAssumption, SMT DEF LineageInv, Created, Runs
  <2>2. \A x \in Requests : /\ req'[x].child = exec[p] <=> req[x].child = exec[p]
                            /\ req[x].child = exec[p] => req'[x].depth = req[x].depth
    BY <1>4, <2>1
  <2>3. QED BY <2>1, <2>2, DepthStays
<1>10. QED BY <1>3, <1>4, <1>5, <1>6, <1>7, <1>8, <1>9 DEF Made

-----------------------------------------------------------------------------
(* What is alive *)

\* A Run whose row is there does not wait, and has no open request; one that
\* has ended belongs to a cancelled Task.
LEMMA RowMeansRunnable ==
  ASSUME TypeOK, NEW r \in Created, RunOK(r), row[r] # "absent"
  PROVE  /\ DispatchedBy(r) = {}
         /\ status[r] \in Live \/ exec[r] \in cancelled
         /\ status[r] # "waiting"
         /\ \A a \in Attempts(exec[r]) : a <= r
<1>1. status[r] \in Live \cup Terminal
  BY DEF TypeOK, Created
<1>2. QED BY <1>1 DEF RunOK, InPlay, Live

\* Steps that leave the tables alone.
LEMMA AliveQuiet ==
  ASSUME AliveInv, UNCHANGED <<status, exec, waits, row, req, cancelled>> PROVE AliveInv'
BY DEF AliveInv, Created, Made, RunOK, RequestOK, InPlay, Attempts, DispatchedBy

\* The end of a Run settles its delegation exactly if it was the last alive.
LEMMA EndRunAlive ==
  ASSUME TypeOK, LineageInv, RequestsInv, AliveInv, NEW r \in Created, NEW o \in Terminal, EndRun(r, o)
  PROVE  AliveInv'
<1> DEFINE ended == [status EXCEPT ![r] = o]
           settled == Settles(r, ended)
           woken == {p \in Runs : ended[p] = "waiting" /\ waits[p] \in settled}
<1>1. /\ UNCHANGED <<exec, cancelled>>
      /\ Created' = Created
      /\ \A q \in Requests : SettledRow(q)
      /\ \A q \in settled : req'[q].status \in Terminal
      /\ \A q \in Requests \ settled : req'[q] = req[q]
      /\ status'[r] = o /\ waits'[r] = 0 /\ row'[r] = "absent" /\ r \notin woken
      /\ \A p \in Runs \ {r} :
           IF p \in woken
           THEN /\ status[p] = "waiting" /\ waits[p] \in settled
                /\ status'[p] = "running" /\ waits'[p] = 0 /\ row'[p] # "absent"
           ELSE /\ status'[p] = status[p] /\ waits'[p] = waits[p] /\ row'[p] = row[p]
  BY EndRunEffect
<1>2. r \in Runs /\ \A p \in Runs \ {r} : ended[p] = status[p]
  BY DEF TypeOK, Created
<1>3. ended[r] = o
  BY <1>2 DEF TypeOK
<1>4. \A q \in Requests : /\ req'[q].parent = req[q].parent /\ req'[q].child = req[q].child
                          /\ req'[q].status = "dispatched" <=> req[q].status = "dispatched" /\ q \notin settled
  <2>1. \A q \in Requests : req'[q].parent = req[q].parent /\ req'[q].child = req[q].child
    BY <1>1, SettledFields
  <2>2. \A q \in settled : req[q].status = "dispatched"
    BY DEF Settles
  <2>3. QED BY <1>1, <2>1, <2>2 DEF Terminal
<1>5. \A p \in Runs : DispatchedBy(p)' = DispatchedBy(p) \ settled
  BY <1>4 DEF DispatchedBy
<1>6. \A p \in Runs : Attempts(exec[p])' = Attempts(exec[p])
  BY <1>1 DEF Attempts
<1>7. \A a \in Runs : a # r => (status'[a] \in Live <=> status[a] \in Live)
  BY <1>1 DEF Live
<1>8. status'[r] \notin Live
  BY <1>1 DEF Live, Terminal
<1>9. \A q \in settled : q \in Incoming(r) /\ \A a \in Latest(exec[r]) : ended[a] \in Terminal
  BY DEF Settles
<1>10. \A q \in Incoming(r) \ settled :
         req[q].status = "dispatched" => \E a \in Latest(exec[r]) : ended[a] \notin Terminal
  BY DEF Settles
<1> HIDE DEF ended, settled
<1>11. ASSUME NEW p \in Created PROVE RunOK(p)'
  <2>1. CASE p = r
    BY <1>1, <1>8, <2>1 DEF RunOK, InPlay, Terminal, Live
  <2>2. CASE p \in woken
    <3>1. p # r /\ p \in Runs /\ RunOK(p)
      BY <1>1, <2>2 DEF AliveInv, Created
    <3>2. status[p] = "waiting" /\ waits[p] \in settled /\ status'[p] = "running" /\ waits'[p] = 0 /\ row'[p] # "absent"
      BY <1>1, <2>2, <3>1
    <3>3. DispatchedBy(p)' = {}
      BY <1>5, <3>1, <3>2 DEF RunOK
    <3>4. \A a \in Attempts(exec[p])' : a <= p
      BY <1>6, <3>1, <3>2 DEF RunOK, InPlay, Live
    <3>5. QED BY <3>2, <3>3, <3>4 DEF RunOK, Terminal
  <2>3. CASE p # r /\ p \notin woken
    <3>1. p \in Runs /\ RunOK(p) /\ status'[p] = status[p] /\ waits'[p] = waits[p] /\ row'[p] = row[p]
      BY <1>1, <2>3 DEF AliveInv, Created
    <3>2. status[p] = "waiting" => waits[p] \notin settled
      BY <1>2, <2>3, <3>1
    <3>3. DispatchedBy(p)' = DispatchedBy(p) \ settled
      BY <1>5, <3>1
    <3>4. InPlay(p)' => \A a \in Attempts(exec[p])' : a <= p
      BY <1>6, <3>1 DEF RunOK, InPlay
    <3>5. QED BY <1>1, <3>1, <3>2, <3>3, <3>4 DEF RunOK
  <2>4. QED BY <2>1, <2>2, <2>3
<1>12. ASSUME NEW q \in Made, req[q].child \notin cancelled
       PROVE  req'[q].status = "dispatched" <=> \E a \in Runs : exec[a] = req[q].child /\ status'[a] \in Live
  <2>1. q \in Requests /\ RequestOK(q)
    BY DEF AliveInv, Made
  <2>2. CASE q \in settled
    <3>1. ASSUME NEW a \in Runs, exec[a] = req[q].child, status'[a] \in Live PROVE FALSE
      <4>1. a # r /\ status[a] \in Live /\ exec[a] = exec[r]
        BY <1>7, <1>8, <1>9, <2>2, <3>1 DEF Incoming
      <4>2. a \in Created
        BY <4>1 DEF Created, Live
      <4>3. a \in Latest(exec[r])
        BY <4>1, <4>2 DEF AliveInv, RunOK, InPlay, Latest, Attempts
      <4>4. status[a] \in Terminal
        BY <1>2, <1>9, <2>2, <4>1, <4>3
      <4>5. QED BY <4>1, <4>4 DEF Live, Terminal
    <3>2. QED BY <1>4, <2>1, <2>2, <3>1
  <2>3. CASE q \notin settled /\ req[q].child # exec[r]
    <3>1. \A a \in Runs : exec[a] = req[q].child => (status'[a] \in Live <=> status[a] \in Live)
      BY <1>7, <2>3
    <3>2. QED BY <1>4, <1>12, <2>1, <2>3, <3>1 DEF RequestOK
  <2>4. CASE q \notin settled /\ req[q].child = exec[r] /\ req[q].status = "dispatched"
    <3>1. PICK a \in Latest(exec[r]) : ended[a] \notin Terminal
      BY <1>10, <2>1, <2>4 DEF Incoming
    <3>2. a \in Runs /\ exec[a] = exec[r] /\ a # r
      BY <1>3, <3>1 DEF Latest, Attempts
    <3>3. a \in Created
      <4>1. exec[r] # 0
        BY DelegationAssumption, SMT DEF LineageInv, Created, Runs
      <4>2. QED BY <3>2, <4>1 DEF LineageInv
    <3>4. status[a] \in Live
      BY <1>2, <3>1, <3>2, <3>3 DEF TypeOK, Created
    <3>5. QED BY <1>4, <1>7, <2>1, <2>4, <3>2, <3>4
  <2>5. CASE q \notin settled /\ req[q].status # "dispatched"
    <3>1. \A a \in Runs : exec[a] = req[q].child => status[a] \notin Live
      BY <1>12, <2>1, <2>5 DEF RequestOK
    <3>2. QED BY <1>4, <1>7, <1>8, <2>1, <2>5, <3>1
  <2>6. QED BY <2>2, <2>3, <2>4, <2>5
<1>13. Made' = Made
  BY <1>4 DEF Made
<1>14. \A q \in Made : req'[q].child = req[q].child
  BY <1>4 DEF Made
<1>15. \A q \in Made : RequestOK(q)'
  BY <1>1, <1>12, <1>14, SMT DEF RequestOK
<1>16. QED BY <1>1, <1>11, <1>13, <1>15 DEF AliveInv

\* Claims, lost leases and dropped rows.
LEMMA RowStepAlive ==
  ASSUME TypeOK, AliveInv, UNCHANGED <<exec, waits, req, cancelled>>, NEW r \in Created, row[r] # "absent",
         \A s \in Runs \ {r} : status'[s] = status[s] /\ row'[s] = row[s],
         \/ status[r] \in {"queued", "running"} /\ status'[r] = "running" /\ row'[r] # "absent"
         \/ status'[r] = status[r] /\ row'[r] # "absent"
         \/ status[r] \notin {"queued", "running"} /\ status'[r] = status[r] /\ row'[r] = "absent"
  PROVE  AliveInv' /\ Created' = Created
<1>1. RunOK(r) /\ r \in Runs
  BY DEF AliveInv, Created
<1>2. /\ DispatchedBy(r) = {} /\ status[r] # "waiting"
      /\ \A a \in Attempts(exec[r]) : a <= r
  BY <1>1, RowMeansRunnable
<1>3. \A s \in Runs : /\ status'[s] \in Live <=> status[s] \in Live
                      /\ status'[s] # "none" <=> status[s] # "none"
  BY DEF Live
<1>4. Created' = Created
  BY <1>3 DEF Created
<1>5. \A s \in Runs : Attempts(exec[s])' = Attempts(exec[s]) /\ DispatchedBy(s)' = DispatchedBy(s)
  BY DEF Attempts, DispatchedBy
<1>6. RunOK(r)'
  BY <1>1, <1>2, <1>5 DEF RunOK, Terminal
<1>7. ASSUME NEW s \in Created, s # r PROVE RunOK(s)'
  <2>1. s \in Runs /\ RunOK(s) /\ status'[s] = status[s] /\ row'[s] = row[s]
    BY <1>7 DEF AliveInv, Created
  <2>2. Attempts(exec[s])' = Attempts(exec[s]) /\ DispatchedBy(s)' = DispatchedBy(s)
    BY <1>5, <2>1
  <2>3. InPlay(s)' <=> InPlay(s)
    BY <2>1 DEF InPlay
  <2>4. QED BY <2>1, <2>2, <2>3 DEF RunOK
<1>8. \A q \in Made : RequestOK(q)'
  BY <1>3 DEF AliveInv, RequestOK
<1>9. Made' = Made
  BY DEF Made
<1>10. QED BY <1>4, <1>6, <1>7, <1>8, <1>9 DEF AliveInv

\* A cancelled Task's Runs end, and its rows stay.
LEMMA CancelTaskAlive ==
  ASSUME TypeOK, AliveInv, NEW e \in Runs, CancelTask(e)
  PROVE  AliveInv' /\ Created' = Created
<1>1. /\ UNCHANGED <<exec, row, req>> /\ cancelled' = cancelled \cup {e}
      /\ \A s \in Runs : /\ status'[s] = IF exec[s] = e /\ status[s] \in Live THEN "cancelled" ELSE status[s]
                         /\ waits'[s] = IF exec[s] = e THEN 0 ELSE waits[s]
  BY DEF CancelTask
<1>2. Created' = Created
  BY <1>1 DEF Created, Live
<1>3. \A s \in Runs : Attempts(exec[s])' = Attempts(exec[s]) /\ DispatchedBy(s)' = DispatchedBy(s)
  BY <1>1 DEF Attempts, DispatchedBy
<1>4. ASSUME NEW s \in Created PROVE RunOK(s)'
  <2>1. s \in Runs /\ RunOK(s) /\ status[s] \in Live \cup Terminal
    BY DEF AliveInv, Created, TypeOK
  <2>2. Attempts(exec[s])' = Attempts(exec[s]) /\ DispatchedBy(s)' = DispatchedBy(s)
    BY <1>3, <2>1
  <2>3. CASE exec[s] = e
    <3>1. status'[s] \in Terminal /\ waits'[s] = 0 /\ exec'[s] \in cancelled' /\ row'[s] = row[s]
      BY <1>1, <2>1, <2>3 DEF Terminal
    <3>2. row[s] # "absent" => DispatchedBy(s) = {} /\ \A a \in Attempts(exec[s]) : a <= s
      BY <2>1, RowMeansRunnable
    <3>3. QED BY <2>2, <3>1, <3>2 DEF RunOK, InPlay, Terminal, Live
  <2>4. CASE exec[s] # e
    <3>1. status'[s] = status[s] /\ waits'[s] = waits[s] /\ row'[s] = row[s] /\ exec'[s] = exec[s]
      BY <1>1, <2>1, <2>4
    <3>2. InPlay(s)' <=> InPlay(s)
      BY <3>1 DEF InPlay
    <3>3. QED BY <1>1, <2>1, <2>2, <3>1, <3>2 DEF RunOK
  <2>5. QED BY <2>3, <2>4
<1>5. \A q \in Made : RequestOK(q)'
  BY <1>1 DEF AliveInv, RequestOK
<1>6. Made' = Made
  BY <1>1 DEF Made
<1>7. QED BY <1>2, <1>4, <1>5, <1>6 DEF AliveInv

\* A request that is only recorded opens nothing.
LEMMA CreateAlive ==
  ASSUME TypeOK, LineageInv, RequestsInv, BudgetsHold, AliveInv, NEW r \in Runs, CreateDelegationRequest(r)
  PROVE  AliveInv'
<1>1. UNCHANGED <<status, exec, waits, row, cancelled>>
  BY DEF CreateDelegationRequest
<1>2. /\ \A q \in Requests : req'[q] = req[q] \/ (q \notin Made /\ req'[q].status = "requested")
      /\ Made' = Made /\ \A q \in Made : req'[q] = req[q]
  BY CreateStructure
<1>3. \A q \in Requests : q \notin Made => req[q].status # "dispatched"
  BY DEF RequestsInv
<1>4. \A s \in Runs : DispatchedBy(s)' = DispatchedBy(s)
  BY <1>2, <1>3 DEF DispatchedBy
<1>5. \A s \in Created : s \in Runs /\ RunOK(s) /\ (InPlay(s)' <=> InPlay(s)) /\ Attempts(exec[s])' = Attempts(exec[s])
  BY <1>1 DEF AliveInv, Created, InPlay, Attempts
<1>6. \A s \in Created : RunOK(s)'
  BY <1>1, <1>4, <1>5 DEF RunOK
<1>7. \A q \in Made : RequestOK(q)'
  BY <1>1, <1>2, SMT DEF AliveInv, RequestOK
<1>8. Created' = Created
  BY <1>1 DEF Created
<1>9. QED BY <1>2, <1>6, <1>7, <1>8 DEF AliveInv

\* The parent of a dispatch waits for the one request it has open, and its
\* child is alive.
LEMMA DispatchAlive ==
  ASSUME TypeOK, LineageInv, LocalInv, RequestsInv, AliveInv,
         NEW w \in Workers, NEW r \in Runs, NEW q \in Requests, Dispatch(w, r, q)
  PROVE  AliveInv'
<1> DEFINE p == job[w]
           above == Incoming(p)
           new == [status |-> "dispatched", parent |-> p, child |-> r, depth |-> DepthAfter(p),
                   root |-> IF above = {} THEN q ELSE req[CHOOSE i \in above : TRUE].root]
<1>1. /\ Created' = Created \cup {r}
      /\ p \in Created /\ p # r /\ r \in Fresh /\ row[p] = w /\ req[q] = NoRequest
      /\ status'[p] = "waiting" /\ waits'[p] = q /\ row'[p] = "absent"
      /\ status'[r] = "queued" /\ waits'[r] = 0 /\ row'[r] = "free" /\ exec'[r] = r
      /\ \A s \in Runs \ {p, r} : status'[s] = status[s] /\ waits'[s] = waits[s] /\ row'[s] = row[s]
      /\ \A s \in Runs \ {r} : exec'[s] = exec[s]
      /\ req'[q] = new /\ \A s \in Requests \ {q} : req'[s] = req[s]
      /\ UNCHANGED <<cancelled, job, sess>>
  BY DispatchEffect, SMT
<1>2. req'[q].status = "dispatched" /\ req'[q].parent = p /\ req'[q].child = r
  BY <1>1, SMT
<1> HIDE DEF new, above
<1>3. req[q].status = "none" /\ req[q].child = 0 /\ q # 0 /\ q \notin Made
  BY <1>1, DelegationAssumption, SMT DEF NoRequest, Requests, Made
<1>4. r \notin Created /\ p \in Runs /\ \A s \in Created : s \in Runs /\ s # r
  BY <1>1, FreshIsLast DEF Created
<1>5. RunOK(p) /\ row[p] # "absent"
  BY <1>1, DelegationAssumption DEF AliveInv
<1>6. /\ DispatchedBy(p) = {}
      /\ status[p] \in Live \/ exec[p] \in cancelled
      /\ \A a \in Attempts(exec[p]) : a <= p
  BY <1>1, <1>5, RowMeansRunnable
<1> HIDE DEF p
<1>7. \A s \in Runs : DispatchedBy(s)' = IF s = p THEN DispatchedBy(s) \cup {q} ELSE DispatchedBy(s)
  BY <1>1, <1>2, <1>3, SMT DEF DispatchedBy
<1>8. \A s \in Created : exec[s] \in Created /\ exec[s] # r /\ exec'[s] = exec[s]
  BY <1>1, <1>4 DEF LineageInv
<1>9. \A x \in Created : Attempts(x)' = Attempts(x)
  <2>1. exec[r] = 0 /\ 0 \notin Created
    BY <1>1, FreshIsLast, DelegationAssumption, SMT DEF Created, Runs
  <2>2. QED BY <1>1, <1>4, <2>1, SMT DEF Attempts
<1>10. ASSUME NEW s \in Created PROVE RunOK(s)'
  <2>1. Attempts(exec[s])' = Attempts(exec[s])
    <3>1. \A x \in Created : {a \in Runs : exec'[a] = x} = {a \in Runs : exec[a] = x}
      BY <1>9 DEF Attempts
    <3>2. QED BY <1>8, <3>1, SMT DEF Attempts
  <2>2. CASE s = p
    <3>1. DispatchedBy(s)' = {q}
      BY <1>4, <1>6, <1>7, <2>2
    <3>2. \A a \in Attempts(exec[s])' : a <= s
      BY <1>6, <2>1, <2>2
    <3>3. QED BY <1>1, <1>3, <2>2, <3>1, <3>2 DEF RunOK, Terminal
  <2>3. CASE s # p
    <3>1. /\ s \in Runs /\ RunOK(s) /\ status'[s] = status[s] /\ waits'[s] = waits[s] /\ row'[s] = row[s]
          /\ exec'[s] = exec[s] /\ DispatchedBy(s)' = DispatchedBy(s)
      BY <1>1, <1>4, <1>7, <1>8, <2>3 DEF AliveInv
    <3>2. InPlay(s)' <=> InPlay(s)
      BY <3>1 DEF InPlay
    <3>3. QED BY <1>1, <2>1, <3>1, <3>2 DEF RunOK
  <2>4. QED BY <2>2, <2>3
<1>11. RunOK(r)'
  <2>1. DispatchedBy(r) = {}
    BY <1>4 DEF DispatchedBy, RequestsInv
  <2>2. DispatchedBy(r)' = {}
    BY <1>1, <1>4, <1>7, <2>1
  <2>3. \A a \in Runs : exec'[a] = r => a = r
    <3>1. 0 \notin Runs
      BY DelegationAssumption, SMT DEF Runs
    <3>2. \A a \in Runs : exec[a] # r
      BY <1>4, <3>1 DEF LineageInv
    <3>3. QED BY <1>1, <3>2
  <2>4. r <= r
    BY DelegationAssumption, SMT DEF Runs
  <2>5. \A a \in Attempts(exec[r])' : a <= r
    BY <1>1, <2>3, <2>4 DEF Attempts
  <2>6. QED BY <1>1, <2>2, <2>5 DEF RunOK, Terminal
<1>12. Made' = Made \cup {q}
  BY <1>1, <1>2, <1>3, <1>4, DelegationAssumption, SMT DEF Made, Runs
<1>13. ASSUME NEW x \in Made PROVE RequestOK(x)'
  <2>1. x \in Requests /\ x # q /\ req'[x] = req[x] /\ req[x].child \in Created /\ RequestOK(x)
    BY <1>1, <1>3 DEF Made, RequestsInv, AliveInv
  <2>2. \A a \in Runs : exec'[a] = req[x].child <=> exec[a] = req[x].child
    BY <1>9, <2>1 DEF Attempts
  <2>3. ASSUME req[x].child \notin cancelled, NEW a \in Runs, exec[a] = req[x].child
        PROVE  status'[a] \in Live <=> status[a] \in Live
    <3>1. a # r
      BY <1>1, <2>1, <2>3, FreshIsLast, DelegationAssumption, SMT DEF Created, Runs
    <3>2. CASE a = p
      BY <1>1, <1>6, <2>3, <3>2 DEF Live
    <3>3. CASE a # p
      BY <1>1, <3>1, <3>3
    <3>4. QED BY <3>2, <3>3
  <2>4. QED BY <1>1, <2>1, <2>2, <2>3, SMT DEF RequestOK
<1>14. RequestOK(q)'
  BY <1>1, <1>2 DEF RequestOK, Live
<1>15. QED BY <1>1, <1>10, <1>11, <1>12, <1>13, <1>14 DEF AliveInv

\* A retry is the one attempt in play, and keeps the delegation open.
LEMMA RetryAlive ==
  ASSUME TypeOK, LineageInv, LocalInv, RequestsInv, AliveInv,
         NEW w \in Workers, Owns(w), NEW n \in Fresh, Retries(w, n), Returns(w)
  PROVE  AliveInv' /\ LineageInv'
<1> DEFINE r == job[w]
           e == exec[r]
<1>1. /\ Created' = Created \cup {n}
      /\ r \in Created /\ r # n
      /\ status'[r] = "failed" /\ waits'[r] = 0 /\ row'[r] = "absent"
      /\ status'[n] = "queued" /\ waits'[n] = 0 /\ row'[n] = "free" /\ exec'[n] = e
      /\ \A s \in Runs \ {r, n} : status'[s] = status[s] /\ waits'[s] = waits[s] /\ row'[s] = row[s]
      /\ \A s \in Runs \ {n} : exec'[s] = exec[s]
  BY RetryEffect, SMT
<1>2. UNCHANGED <<req, cancelled>>
  BY DEF Retries
<1>3. RunOK(r) /\ row[r] # "absent"
  BY <1>1, DelegationAssumption DEF AliveInv, Owns
<1>4. /\ status[r] \in Live \/ e \in cancelled
      /\ \A a \in Attempts(e) : a <= r
  BY <1>1, <1>3, RowMeansRunnable
<1>5. /\ n \in Runs /\ n \notin Created /\ \A s \in Created : s \in Runs /\ s # n /\ s < n
      /\ r \in Runs /\ e \in Created /\ exec[e] = e
  BY <1>1, FreshIsLast DEF LineageInv, Created
<1> HIDE DEF r, e
<1>6. /\ LineageInv' /\ e # 0
      /\ \A x : x # 0 => Attempts(x)' = IF x = e THEN Attempts(x) \cup {n} ELSE Attempts(x)
      /\ \A x \in Runs : \A a \in Attempts(x) : a \in Created
  <2>1. \A s \in Runs \ Created : s # n => row'[s] = row[s] /\ waits'[s] = waits[s]
    BY <1>1
  <2>2. QED BY <1>1, <1>5, <2>1, NewestRun, SMT
<1>7. Runs \subseteq Int
  BY DelegationAssumption, SMT DEF Runs
<1>8. \A s \in Runs : DispatchedBy(s)' = DispatchedBy(s)
  BY <1>2 DEF DispatchedBy
<1>9. ASSUME NEW s \in Created PROVE RunOK(s)'
  <2>1. CASE s = r
    BY <1>1, <2>1 DEF RunOK, InPlay, Live
  <2>2. CASE s # r
    <3>1. /\ s \in Runs /\ RunOK(s) /\ status'[s] = status[s] /\ waits'[s] = waits[s] /\ row'[s] = row[s]
          /\ exec'[s] = exec[s] /\ DispatchedBy(s)' = DispatchedBy(s)
      BY <1>1, <1>5, <1>8, <2>2 DEF AliveInv
    <3>2. InPlay(s)' <=> InPlay(s)
      BY <3>1 DEF InPlay
    <3>3. ASSUME InPlay(s) PROVE \A a \in Attempts(exec[s])' : a <= s
      <4>1. \A a \in Attempts(exec[s]) : a <= s
        BY <3>1, <3>3 DEF RunOK
      <4>2. exec[s] # e
        <5>1. ASSUME exec[s] = e PROVE s <= r /\ r <= s
          BY <1>4, <1>5, <3>1, <4>1, <5>1 DEF Attempts, e
        <5>2. \A i, j \in Int : i <= j /\ j <= i => i = j
          BY SMT
        <5>3. QED BY <1>5, <1>7, <2>2, <3>1, <5>1, <5>2
      <4>3. \A a \in Runs : exec'[a] = exec[s] => exec[a] = exec[s]
        BY <1>1, <4>2
      <4>4. QED BY <3>1, <4>1, <4>3 DEF Attempts
    <3>4. QED BY <1>2, <3>1, <3>2, <3>3 DEF RunOK
  <2>3. QED BY <2>1, <2>2
<1>10. RunOK(n)'
  <2>1. DispatchedBy(n) = {}
    BY <1>5 DEF DispatchedBy, RequestsInv
  <2>2. \A a \in Attempts(exec[n])' : a <= n
    <3>1. \A a \in Runs : exec[a] = e => a < n
      BY <1>5, <1>6 DEF Attempts, Created
    <3>2. \A a \in Runs : exec'[a] = e => a <= n
      BY <1>1, <1>5, <1>7, <3>1, SMT
    <3>3. QED BY <1>1, <3>2 DEF Attempts
  <2>3. QED BY <1>1, <1>5, <1>8, <2>1, <2>2 DEF RunOK, Terminal
<1>11. ASSUME NEW q \in Made PROVE RequestOK(q)'
  <2>1. RequestOK(q) /\ req[q].child \in Created /\ req[q].child # n
    BY <1>5 DEF AliveInv, RequestsInv
  <2>2. CASE req[q].child = e
    <3>1. e \notin cancelled => req[q].status = "dispatched"
      BY <1>4, <1>5, <2>1, <2>2 DEF RequestOK, e
    <3>2. exec'[n] = e /\ status'[n] \in Live
      BY <1>1 DEF Live
    <3>3. QED BY <1>2, <1>5, <2>2, <3>1, <3>2 DEF RequestOK
  <2>3. CASE req[q].child # e
    <3>1. exec[n] # req[q].child
      BY <2>1, FreshIsLast, DelegationAssumption, SMT DEF Created, Runs
    <3>2. \A a \in Runs : exec'[a] = req[q].child <=> exec[a] = req[q].child
      BY <1>1, <2>3, <3>1
    <3>3. \A a \in Runs : exec[a] = req[q].child => status'[a] = status[a]
      BY <1>1, <2>3, <3>1 DEF e
    <3>4. QED BY <1>2, <2>1, <3>2, <3>3 DEF RequestOK
  <2>4. QED BY <2>2, <2>3
<1>12. Made' = Made
  BY <1>2 DEF Made
<1>13. QED BY <1>1, <1>6, <1>9, <1>10, <1>11, <1>12 DEF AliveInv

-----------------------------------------------------------------------------
(* The invariant *)

\* Workers and sessions go on referring to Runs that exist.
LEMMA LocalKept ==
  ASSUME TypeOK, LocalInv, Created \subseteq Created',
         \A p \in Created : DepthAfter(p)' = DepthAfter(p),
         \A w \in Workers : job'[w] \in Created',
         \A w \in Workers : pc'[w] = "dispatching" =>
           job'[w] = job[w] /\ (pc[w] = "dispatching" \/ DepthAfter(job[w]) <= MaxDepth),
         sess' = sess \/ (sess'.run \in Created' /\ sess'.op \notin {"cancelTask", "request"})
  PROVE  LocalInv'
<1>1. 1 \in Created' /\ sess'.run \in Created' /\ sess'.op \notin {"cancelTask", "request"}
  BY DEF LocalInv
<1>2. ASSUME NEW w \in Workers, NEW p \in Created', pc'[w] = "dispatching", job'[w] = p
      PROVE  DepthAfter(p)' <= MaxDepth
  <2>1. p \in Created /\ job[w] = p
    BY <1>2 DEF LocalInv
  <2>2. DepthAfter(p) <= MaxDepth
    BY <1>2, <2>1 DEF LocalInv
  <2>3. QED BY <2>1, <2>2
<1>3. QED BY <1>1, <1>2 DEF LocalInv

\* Whoever ends a Run, the invariant holds afterwards.
LEMMA EndRunInv ==
  ASSUME DelegationInv, NEW r \in Created, NEW o \in Terminal, EndRun(r, o),
         pc' \in [Workers -> Places], job' \in [Workers -> Runs], asked' \in [Workers -> 0 .. MaxRequests],
         sess' \in [op : {"none"} \cup Ops, run : Runs], events' = events,
         \A w \in Workers : job'[w] \in Created,
         \A w \in Workers : pc'[w] = "dispatching" => job'[w] = job[w] /\ pc[w] = "dispatching",
         sess' = sess \/ sess' = Idle
  PROVE  DelegationInv'
<1>1. TypeOK /\ LineageInv /\ LocalInv /\ RequestsInv /\ BudgetsHold /\ AliveInv
  BY DEF DelegationInv
<1>2. /\ status' \in [Runs -> RunState] /\ waits' \in [Runs -> 0 .. MaxRequests]
      /\ row' \in [Runs -> Rows] /\ req' \in [Requests -> RequestRow]
      /\ UNCHANGED <<exec, cancelled>>
      /\ Created' = Created
      /\ \A q \in Requests : SettledRow(q)
  BY <1>1, EndRunEffect
<1>3. \A p \in Runs \ Created : row'[p] = "absent" /\ waits'[p] = 0
  <2> DEFINE ended == [status EXCEPT ![r] = o]
             woken == {p \in Runs : ended[p] = "waiting" /\ waits[p] \in Settles(r, ended)}
  <2>1. \A p \in Runs \ {r} :
          IF p \in woken
          THEN /\ status[p] = "waiting" /\ waits[p] \in Settles(r, ended)
               /\ status'[p] = "running" /\ waits'[p] = 0 /\ row'[p] # "absent"
          ELSE /\ status'[p] = status[p] /\ waits'[p] = waits[p] /\ row'[p] = row[p]
    BY <1>1, EndRunEffect, SMT
  <2>2. \A p \in Runs \ Created : p # r /\ status[p] # "waiting"
    BY DEF Created
  <2>3. QED BY <1>1, <2>1, <2>2 DEF LineageInv
<1>4. TypeOK'
  BY <1>1, <1>2 DEF TypeOK, RunState, RequestState, Rows, RequestRow, Places
<1>5. /\ LineageInv' /\ RequestsInv' /\ BudgetsHold'
      /\ \A p \in Created : DepthAfter(p)' = DepthAfter(p)
  BY <1>1, <1>2, <1>3, QuietStructure
<1>6. AliveInv'
  BY <1>1, EndRunAlive
<1>7. LocalInv'
  <2>1. sess' = sess \/ (sess'.run \in Created' /\ sess'.op \notin {"cancelTask", "request"})
    BY <1>1, <1>2, SMT DEF Idle, LocalInv
  <2>2. QED BY <1>1, <1>2, <1>5, <2>1, LocalKept
<1>8. QED BY <1>4, <1>5, <1>6, <1>7 DEF DelegationInv

\* A worker's outcome, a command's.
LEMMA OutcomesInv ==
  ASSUME DelegationInv,
         \/ \E w \in Workers, o \in Terminal :
              EndRun(job[w], o) /\ Returns(w) /\ UNCHANGED <<sess, events>>
         \/ Commit
  PROVE  DelegationInv'
<1>1. TypeOK /\ LocalInv
  BY DEF DelegationInv
<1>2. ASSUME NEW w \in Workers, NEW o \in Terminal, EndRun(job[w], o), Returns(w), UNCHANGED <<sess, events>>
      PROVE  DelegationInv'
  <2>1. /\ pc' \in [Workers -> Places] /\ job' \in [Workers -> Runs]
        /\ asked' \in [Workers -> 0 .. MaxRequests]
        /\ \A v \in Workers : v # w => pc'[v] = pc[v] /\ job'[v] = job[v]
        /\ pc'[w] = "idle" /\ job'[w] = 1
    BY <1>1, <1>2, ReturnsTypes
  <2>2. job[w] \in Created /\ \A v \in Workers : job'[v] \in Created
    BY <1>1, <2>1 DEF LocalInv
  <2>3. sess' \in [op : {"none"} \cup Ops, run : Runs]
    BY <1>1, <1>2 DEF TypeOK
  <2>4. QED BY <1>2, <2>1, <2>2, <2>3, EndRunInv
<1>3. CASE Commit
  <2>1. sess.op \in {"cancel", "complete", "fail"} /\ sess.run \in Created
    BY <1>1, <1>3, DelegationAssumption DEF Commit, LocalInv, TypeOK, AllOps
  <2>2. Outcome(sess.op) \in Terminal
    BY <2>1 DEF Outcome, Terminal
  <2>3. EndRun(sess.run, Outcome(sess.op)) /\ sess' = Idle /\ UNCHANGED <<pc, job, asked, events>>
    BY <1>3 DEF Commit, local
  <2>4. Idle \in [op : {"none"} \cup Ops, run : Runs]
    BY DelegationAssumption, SMT DEF Idle, Runs
  <2>5. /\ pc' \in [Workers -> Places] /\ job' \in [Workers -> Runs]
        /\ asked' \in [Workers -> 0 .. MaxRequests]
        /\ \A v \in Workers : job'[v] \in Created
    BY <1>1, <2>3 DEF TypeOK, Places, LocalInv
  <2>6. QED BY <2>1, <2>2, <2>3, <2>4, <2>5, EndRunInv
<1>4. QED BY <1>2, <1>3

\* Steps of the workers and the sessions that only read.
LEMMA ReadsInv ==
  ASSUME DelegationInv, UNCHANGED data, TypeOK',
         \A w \in Workers : job'[w] = job[w] \/ job'[w] = 1,
         \A w \in Workers : pc'[w] = "dispatching" =>
           job'[w] = job[w] /\ (pc[w] = "dispatching" \/ DepthAfter(job[w]) <= MaxDepth),
         sess' = sess \/ (sess'.run \in Created /\ sess'.op \notin {"cancelTask", "request"})
  PROVE  DelegationInv'
<1>1. TypeOK /\ LineageInv /\ LocalInv /\ RequestsInv /\ BudgetsHold /\ AliveInv
  BY DEF DelegationInv
<1>2. UNCHANGED <<status, exec, waits, row, req, cancelled>>
  BY DEF data
<1>3. Created' = Created
  BY <1>2 DEF Created
<1>4. AliveInv'
  BY <1>1, <1>2, AliveQuiet
<1>5. /\ LineageInv' /\ RequestsInv' /\ BudgetsHold'
      /\ \A p \in Created : DepthAfter(p)' = DepthAfter(p)
  <2>1. \A q \in Requests : SettledRow(q)
    BY <1>2 DEF SettledRow
  <2>2. \A r \in Runs \ Created : row'[r] = "absent" /\ waits'[r] = 0
    BY <1>1, <1>2 DEF LineageInv
  <2>3. QED BY <1>1, <1>2, <1>3, <2>1, <2>2, QuietStructure
<1>6. LocalInv'
  <2>1. \A w \in Workers : job'[w] \in Created'
    BY <1>1, <1>3 DEF LocalInv
  <2>2. QED BY <1>1, <1>3, <1>5, <2>1, LocalKept
<1>7. QED BY <1>4, <1>5, <1>6 DEF DelegationInv

\* Workers between their transactions, and a session that loads a Run.
LEMMA QuietActions ==
  ASSUME DelegationInv,
         \/ \E w \in Workers :
              \/ \E to \in {"dispatching", "succeeding", "failing", "retrying"} : Open(w, to)
              \/ Refuse(w) \/ Abandon(w) \/ Conflict(w) \/ Crash(w)
         \/ \E op \in AllOps, r \in Runs : Load(op, r)
         \/ UNCHANGED vars
  PROVE  DelegationInv'
<1>1. TypeOK /\ LocalInv
  BY DEF DelegationInv
<1>2. ASSUME NEW w \in Workers, NEW to \in Places, pc' = [pc EXCEPT ![w] = to],
             to = "dispatching" => DepthAfter(job[w]) <= MaxDepth,
             UNCHANGED <<data, job, asked, sess>>, events' \in 0 .. MaxEvents
      PROVE  DelegationInv'
  <2>1. \A v \in Workers : pc'[v] = pc[v] \/ (v = w /\ pc'[v] = to)
    BY <1>1, <1>2 DEF TypeOK
  <2>2. pc' \in [Workers -> Places]
    BY <1>1, <1>2 DEF TypeOK, Places
  <2>3. TypeOK'
    BY <1>1, <1>2, <2>2 DEF TypeOK, Places, data
  <2>4. QED BY <1>2, <2>1, <2>3, ReadsInv
<1>3. ASSUME NEW w \in Workers, NEW to \in {"dispatching", "succeeding", "failing", "retrying"}, Open(w, to)
      PROVE  DelegationInv'
  <2>1. /\ pc' = [pc EXCEPT ![w] = to] /\ UNCHANGED <<data, job, asked, sess>> /\ events' \in 0 .. MaxEvents
        /\ to = "dispatching" => DepthAfter(job[w]) <= MaxDepth
    BY <1>1, <1>3 DEF Open, Goes, TypeOK
  <2>2. QED BY <1>2, <2>1 DEF Places
<1>4. ASSUME NEW w \in Workers, Refuse(w) \/ Conflict(w) \/ Crash(w) PROVE DelegationInv'
  <2>1. events' \in 0 .. MaxEvents
    BY <1>1, <1>4, DelegationAssumption, SMT DEF Refuse, Conflict, Crash, TypeOK
  <2>2. \E to \in {"failing", "down"} : pc' = [pc EXCEPT ![w] = to]
    BY <1>4 DEF Refuse, Conflict, Crash, Goes
  <2>3. UNCHANGED <<data, job, asked, sess>>
    BY <1>4 DEF Refuse, Conflict, Crash
  <2>4. QED BY <1>2, <2>1, <2>2, <2>3 DEF Places
<1>5. ASSUME NEW w \in Workers, Abandon(w) PROVE DelegationInv'
  <2>1. Returns(w) /\ UNCHANGED <<data, sess, events>>
    BY <1>5 DEF Abandon
  <2>2. /\ pc' \in [Workers -> Places] /\ job' \in [Workers -> Runs]
        /\ asked' \in [Workers -> 0 .. MaxRequests]
        /\ \A v \in Workers : v # w => pc'[v] = pc[v] /\ job'[v] = job[v]
        /\ pc'[w] = "idle" /\ job'[w] = 1
    BY <1>1, <2>1, ReturnsTypes
  <2>3. TypeOK'
    BY <1>1, <2>1, <2>2 DEF TypeOK, Places, data
  <2>4. QED BY <2>1, <2>2, <2>3, ReadsInv
<1>6. ASSUME NEW op \in AllOps, NEW r \in Runs, Load(op, r) PROVE DelegationInv'
  <2>1. /\ UNCHANGED <<data, local>> /\ sess' = [op |-> op, run |-> r] /\ op \in Ops \ {"cancelTask", "request"}
        /\ r \in Created /\ events' \in 0 .. MaxEvents
    BY <1>1, <1>6, DelegationAssumption, SMT DEF Load, Created, Live, TypeOK
  <2>2. TypeOK'
    BY <1>1, <2>1 DEF TypeOK, data, local
  <2>3. QED BY <2>1, <2>2, ReadsInv DEF local
<1>7. CASE UNCHANGED vars
  <2>1. UNCHANGED <<data, local, sess, events>>
    BY <1>7 DEF vars
  <2>2. TypeOK'
    BY <1>1, <2>1 DEF TypeOK, data, local
  <2>3. QED BY <2>1, <2>2, ReadsInv DEF local
<1>8. QED BY <1>3, <1>4, <1>5, <1>6, <1>7

\* r's row is taken, freed or dropped.
RowMoves(r) ==
  /\ row[r] # "absent"
  /\ \A s \in Runs \ {r} : status'[s] = status[s] /\ row'[s] = row[s]
  /\ \/ status[r] \in {"queued", "running"} /\ status'[r] = "running" /\ row'[r] # "absent"
     \/ status'[r] = status[r] /\ row'[r] # "absent"
     \/ status[r] \notin {"queued", "running"} /\ status'[r] = status[r] /\ row'[r] = "absent"
  /\ \A w \in Workers : \/ pc'[w] = pc[w] /\ job'[w] = job[w]
                        \/ pc'[w] = "processing" /\ job'[w] = r

\* Claims, stalls and leases that lapse move one row.
LEMMA RowInv ==
  ASSUME DelegationInv, UNCHANGED <<exec, waits, req, cancelled, asked, sess>>, events' \in 0 .. MaxEvents,
         NEW r \in Runs, row' \in [Runs -> Rows], status' \in [Runs -> RunState],
         pc' \in [Workers -> Places], job' \in [Workers -> Runs], RowMoves(r)
  PROVE  DelegationInv'
<1>1. TypeOK /\ LineageInv /\ LocalInv /\ RequestsInv /\ BudgetsHold /\ AliveInv
  BY DEF DelegationInv
<1>2. r \in Created /\ row[r] # "absent"
  BY <1>1 DEF LineageInv, RowMoves
<1>3. AliveInv' /\ Created' = Created
  BY <1>1, <1>2, RowStepAlive DEF RowMoves
<1>4. TypeOK'
  BY <1>1 DEF TypeOK, RunState, Rows, Places
<1>5. /\ LineageInv' /\ RequestsInv' /\ BudgetsHold'
      /\ \A p \in Created : DepthAfter(p)' = DepthAfter(p)
  <2>1. \A q \in Requests : SettledRow(q)
    BY DEF SettledRow
  <2>2. \A s \in Runs \ Created : row'[s] = "absent" /\ waits'[s] = 0
    BY <1>1, <1>2, SMT DEF LineageInv, RowMoves
  <2>3. QED BY <1>1, <1>3, <2>1, <2>2, QuietStructure
<1>6. LocalInv'
  <2>1. \A w \in Workers : job'[w] \in Created'
    BY <1>1, <1>2, <1>3 DEF LocalInv, RowMoves
  <2>2. \A w \in Workers : pc'[w] = "dispatching" => job'[w] = job[w] /\ pc[w] = "dispatching"
    BY DEF RowMoves
  <2>3. QED BY <1>1, <1>3, <1>5, <2>1, <2>2, LocalKept
<1>7. QED BY <1>3, <1>4, <1>5, <1>6 DEF DelegationInv

\* A claim, a stalled worker and a lapsed lease only move work items.
LEMMA RowActions ==
  ASSUME DelegationInv, NEW w \in Workers,
         (\E r \in Runs : ClaimNextRun(w, r)) \/ Stall(w) \/ LeaseLapses(w)
  PROVE  DelegationInv'
<1>1. TypeOK /\ LocalInv /\ "absent" \notin Workers
  BY DelegationAssumption DEF DelegationInv
<1>2. ASSUME NEW r \in Runs, ClaimNextRun(w, r) PROVE DelegationInv'
  <2>1. UNCHANGED <<exec, waits, req, cancelled, asked, sess, events>> /\ row[r] = "free"
    BY <1>2 DEF ClaimNextRun
  <2>2. events' \in 0 .. MaxEvents
    BY <1>1, <2>1 DEF TypeOK
  <2>3. CASE status[r] \in {"queued", "running"}
    <3>1. /\ status' = [status EXCEPT ![r] = "running"] /\ row' = [row EXCEPT ![r] = w]
          /\ job' = [job EXCEPT ![w] = r] /\ pc' = [pc EXCEPT ![w] = "processing"]
      BY <1>2, <2>3 DEF ClaimNextRun, Goes
    <3>2. /\ status' \in [Runs -> RunState] /\ row' \in [Runs -> Rows]
          /\ pc' \in [Workers -> Places] /\ job' \in [Workers -> Runs]
      BY <1>1, <3>1 DEF TypeOK, RunState, Rows, Places, Live
    <3>3. /\ status'[r] = "running" /\ row'[r] # "absent"
          /\ \A s \in Runs \ {r} : status'[s] = status[s] /\ row'[s] = row[s]
      BY <1>1, <3>1 DEF TypeOK
    <3>4. \A v \in Workers : \/ pc'[v] = pc[v] /\ job'[v] = job[v]
                             \/ pc'[v] = "processing" /\ job'[v] = r
      BY <1>1, <3>1 DEF TypeOK
    <3>5. RowMoves(r)
      BY <2>1, <2>3, <3>3, <3>4 DEF RowMoves
    <3>6. QED BY <2>1, <2>2, <3>2, <3>5, RowInv
  <2>4. CASE status[r] \notin {"queued", "running"}
    <3>1. row' = [row EXCEPT ![r] = "absent"] /\ UNCHANGED <<status, job, pc>>
      BY <1>2, <2>4 DEF ClaimNextRun
    <3>2. /\ status' \in [Runs -> RunState] /\ row' \in [Runs -> Rows]
          /\ pc' \in [Workers -> Places] /\ job' \in [Workers -> Runs]
      BY <1>1, <3>1 DEF TypeOK, RunState, Rows, Places
    <3>3. /\ status'[r] = status[r] /\ row'[r] = "absent"
          /\ \A s \in Runs \ {r} : status'[s] = status[s] /\ row'[s] = row[s]
      BY <1>1, <3>1 DEF TypeOK
    <3>4. RowMoves(r)
      BY <2>1, <2>4, <3>1, <3>3 DEF RowMoves
    <3>5. QED BY <2>1, <2>2, <3>2, <3>4, RowInv
  <2>5. QED BY <2>3, <2>4
<1>3. CASE Stall(w) \/ LeaseLapses(w)
  <2>1. /\ UNCHANGED <<status, exec, waits, req, cancelled, asked, sess, pc, job>>
        /\ row' = [row EXCEPT ![job[w]] = "free"] /\ row[job[w]] = w
    BY <1>3 DEF Stall, LeaseLapses, local, Owns
  <2>2. events' \in 0 .. MaxEvents
    BY <1>1, <1>3, DelegationAssumption, SMT DEF Stall, LeaseLapses, TypeOK
  <2>3. /\ status' \in [Runs -> RunState] /\ row' \in [Runs -> Rows] /\ job[w] \in Runs
        /\ pc' \in [Workers -> Places] /\ job' \in [Workers -> Runs]
    BY <1>1, <2>1 DEF TypeOK, RunState, Rows, Places
  <2>4. /\ status'[job[w]] = status[job[w]] /\ row'[job[w]] # "absent" /\ row[job[w]] # "absent"
        /\ \A s \in Runs \ {job[w]} : status'[s] = status[s] /\ row'[s] = row[s]
    BY <1>1, <2>1, <2>3 DEF TypeOK
  <2>5. RowMoves(job[w])
    BY <2>1, <2>4 DEF RowMoves
  <2>6. QED BY <2>1, <2>2, <2>3, <2>5, RowInv
<1>4. QED BY <1>2, <1>3

\* CancelTask ends Runs and touches no request.
LEMMA CancelTaskInv ==
  ASSUME DelegationInv, NEW e \in Runs, CancelTask(e)
  PROVE  DelegationInv'
<1>1. TypeOK /\ LineageInv /\ LocalInv /\ RequestsInv /\ BudgetsHold /\ AliveInv
  BY DEF DelegationInv
<1>2. AliveInv' /\ Created' = Created
  BY <1>1, CancelTaskAlive
<1>3. UNCHANGED <<exec, row, req, pc, job, asked, sess>>
  BY DEF CancelTask, local
<1>4. TypeOK'
  <2>1. status' \in [Runs -> RunState] /\ waits' \in [Runs -> 0 .. MaxRequests]
    BY <1>1, DelegationAssumption, SMT DEF CancelTask, TypeOK, RunState, Terminal
  <2>2. cancelled' \in SUBSET Runs /\ events' \in 0 .. MaxEvents
    BY <1>1, DelegationAssumption, SMT DEF CancelTask, TypeOK
  <2>3. QED BY <1>1, <1>3, <2>1, <2>2 DEF TypeOK, RunState
<1>5. /\ LineageInv' /\ RequestsInv' /\ BudgetsHold'
      /\ \A p \in Created : DepthAfter(p)' = DepthAfter(p)
  <2>1. \A q \in Requests : SettledRow(q)
    BY <1>3 DEF SettledRow
  <2>2. \A s \in Runs \ Created : row'[s] = "absent" /\ waits'[s] = 0
    BY <1>1, <1>3 DEF LineageInv, CancelTask
  <2>3. QED BY <1>1, <1>2, <1>3, <2>1, <2>2, QuietStructure
<1>6. LocalInv'
  <2>1. \A w \in Workers : job'[w] \in Created'
    BY <1>1, <1>2, <1>3 DEF LocalInv
  <2>2. QED BY <1>1, <1>2, <1>3, <1>5, <2>1, LocalKept
<1>7. QED BY <1>2, <1>4, <1>5, <1>6 DEF DelegationInv

\* CreateDelegationRequest leaves the Runs alone.
LEMMA CreateInv ==
  ASSUME DelegationInv, NEW r \in Runs, CreateDelegationRequest(r)
  PROVE  DelegationInv'
<1>1. TypeOK /\ LineageInv /\ LocalInv /\ RequestsInv /\ BudgetsHold /\ AliveInv
  BY DEF DelegationInv
<1>2. /\ RequestsInv' /\ BudgetsHold' /\ req' \in [Requests -> RequestRow]
      /\ \A p \in Created : DepthAfter(p)' = DepthAfter(p)
  BY <1>1, CreateStructure
<1>3. UNCHANGED <<status, exec, waits, row, cancelled, pc, job, asked, sess>>
  BY DEF CreateDelegationRequest, local
<1>4. TypeOK'
  <2>1. events' \in 0 .. MaxEvents
    BY <1>1, DelegationAssumption, SMT DEF CreateDelegationRequest, TypeOK
  <2>2. QED BY <1>1, <1>2, <1>3, <2>1 DEF TypeOK, RequestRow, RequestState
<1>5. Created' = Created
  BY <1>3 DEF Created
<1>6. LineageInv'
  BY <1>1, <1>3, <1>5 DEF LineageInv, Latest, Attempts
<1>7. LocalInv'
  <2>1. \A w \in Workers : job'[w] \in Created'
    BY <1>1, <1>3, <1>5 DEF LocalInv
  <2>2. QED BY <1>1, <1>2, <1>3, <1>5, <2>1, LocalKept
<1>8. AliveInv'
  BY <1>1, CreateAlive
<1>9. QED BY <1>2, <1>4, <1>6, <1>7, <1>8 DEF DelegationInv

-----------------------------------------------------------------------------
(* The request table implements Lifecycle *)

\* What a step makes of the status of a request.
RequestMoves(q) ==
  \/ req'[q].status = req[q].status
  \/ req[q].status = "none" /\ req'[q].status \in {"requested", "dispatched"}
  \/ req[q].status = "dispatched" /\ req'[q].status \in Terminal

\* The moves of a request are transitions of DelegationRequest.
LEMMA MovesAllowed ==
  ASSUME TypeOK, NEW q \in Requests, RequestMoves(q)
  PROVE  RequestRows!Allowed(req[q].status, req'[q].status)
<1>1. RequestRows!Moves["delegation"] = RequestRows!DelegationMoves
  BY DEF RequestRows!Moves
<1>2. RequestRows!First["delegation"] = "requested"
  BY DEF RequestRows!First
<1>3. <<"requested", "dispatched">> \in RequestRows!DelegationMoves
  BY DEF RequestRows!DelegationMoves
<1>4. \A t \in Terminal : <<"dispatched", t>> \in RequestRows!DelegationMoves
  BY DEF RequestRows!DelegationMoves, RequestRows!Ends, Terminal
<1>5. QED BY <1>1, <1>2, <1>3, <1>4 DEF RequestMoves, RequestRows!Allowed

\* An end settles requests that are open.
LEMMA EndRunMoves ==
  ASSUME DelegationInv, NEW r \in Created, NEW o \in Terminal, EndRun(r, o), NEW q \in Requests
  PROVE  RequestMoves(q)
<1>1. TypeOK /\ LineageInv /\ RequestsInv
  BY DEF DelegationInv
<1>2. SettledRow(q)
  BY <1>1, EndRunEffect
<1>3. QED BY <1>1, <1>2, SettledFields DEF RequestMoves

\* No step takes a request through any other move.
LEMMA StepMoves ==
  ASSUME DelegationInv, [Next]_vars, NEW q \in Requests PROVE RequestMoves(q)
<1>1. TypeOK /\ LocalInv /\ LineageInv /\ RequestsInv
  BY DEF DelegationInv
<1>2. ASSUME req' = req PROVE RequestMoves(q)
  BY <1>2 DEF RequestMoves
<1>3. ASSUME NEW w \in Workers, WorkerStep(w) PROVE RequestMoves(q)
  <2>1. job[w] \in Created
    BY <1>1 DEF LocalInv
  <2>2. CASE ApplySucceeded(w) \/ ApplyFailed(w) \/ ApplyRetry(w)
    <3>1. (\E o \in Terminal : EndRun(job[w], o)) \/ req' = req
      BY <2>2 DEF ApplySucceeded, ApplyFailed, ApplyRetry, Terminal
    <3>2. QED BY <1>2, <2>1, <3>1, EndRunMoves
  <2>3. ASSUME NEW r \in Runs, NEW p \in Requests, Dispatch(w, r, p) PROVE RequestMoves(q)
    <3>1. p \in FreshRequest
      BY <2>3 DEF Dispatch
    <3>2. req[p].status = "none"
      BY <1>1, <3>1, FreshTypes
    <3> DEFINE new == [status |-> "dispatched", parent |-> job[w], child |-> r, depth |-> DepthAfter(job[w]),
                       root |-> IF Incoming(job[w]) = {} THEN p ELSE req[CHOOSE i \in Incoming(job[w]) : TRUE].root]
    <3>3. new.status = "dispatched" /\ req' = [req EXCEPT ![p] = new]
      BY <2>3 DEF Dispatch
    <3> HIDE DEF new
    <3>4. IF q = p THEN req'[q] = new ELSE req'[q] = req[q]
      BY <1>1, <3>3 DEF TypeOK
    <3>5. QED BY <3>2, <3>3, <3>4 DEF RequestMoves
  <2>4. CASE \/ \E r \in Runs : ClaimNextRun(w, r)
             \/ \E to \in {"dispatching", "succeeding", "failing", "retrying"} : Open(w, to)
             \/ Refuse(w) \/ Abandon(w) \/ Conflict(w)
    BY <1>2, <2>4 DEF ClaimNextRun, Open, Refuse, Abandon, Conflict, data
  <2>5. QED BY <1>3, <2>2, <2>3, <2>4 DEF WorkerStep
<1>4. ASSUME NEW w \in Workers, Crash(w) \/ Stall(w) \/ LeaseLapses(w) PROVE RequestMoves(q)
  BY <1>2, <1>4 DEF Crash, Stall, LeaseLapses, data
<1>5. CASE (\E op \in AllOps, r \in Runs : Load(op, r)) \/ (\E e \in Runs : CancelTask(e)) \/ UNCHANGED vars
  BY <1>2, <1>5 DEF Load, CancelTask, vars, data
<1>6. ASSUME NEW e \in Runs, CreateDelegationRequest(e) PROVE RequestMoves(q)
  <2>1. PICK p \in FreshRequest :
          req' = [req EXCEPT ![p] = [NoRequest EXCEPT !.status = "requested", !.parent = e]]
    BY <1>6 DEF CreateDelegationRequest
  <2>2. req[p].status = "none" /\ p \in Requests
    BY <1>1, FreshTypes
  <2>3. [NoRequest EXCEPT !.status = "requested", !.parent = e].status = "requested"
    BY DEF NoRequest
  <2>4. IF q = p THEN req'[q].status = "requested" ELSE req'[q] = req[q]
    BY <1>1, <2>1, <2>2, <2>3 DEF TypeOK
  <2>5. QED BY <2>2, <2>4, SMT DEF RequestMoves
<1>7. CASE Commit
  <2>1. sess.op \in {"cancel", "complete", "fail"} /\ sess.run \in Created
    BY <1>1, <1>7, DelegationAssumption DEF Commit, LocalInv, TypeOK, AllOps
  <2>2. Outcome(sess.op) \in Terminal
    BY <2>1 DEF Outcome, Terminal
  <2>3. QED BY <1>7, <2>1, <2>2, EndRunMoves DEF Commit
<1>8. QED BY <1>3, <1>4, <1>5, <1>6, <1>7 DEF Next

-----------------------------------------------------------------------------
(* What the budgets count *)

INSTANCE FiniteSetTheorems

\* Counting one element more.
LEMMA OneMore ==
  ASSUME NEW S \in SUBSET Requests, NEW q \in Requests, q \notin S, NEW k \in Nat, Cardinality(S) < k
  PROVE  Cardinality(S \cup {q}) <= k
<1>1. IsFiniteSet(Requests)
  BY FS_Interval, DelegationAssumption, SMT DEF Requests
<1>2. IsFiniteSet(S)
  BY <1>1, FS_Subset
<1>3. Cardinality(S) \in Nat /\ Cardinality(S \cup {q}) = Cardinality(S) + 1
  BY <1>2, FS_AddElement, FS_CardinalityType
<1>4. QED BY <1>3, SMT

\* A dispatch gives the execution it creates to a request of its own, and takes
\* one slot of the Run's budget and one of its tree's.
LEMMA DispatchStructure ==
  ASSUME TypeOK, LineageInv, LocalInv, RequestsInv, BudgetsHold,
         NEW w \in Workers, NEW r \in Runs, NEW q \in Requests, Dispatch(w, r, q)
  PROVE  /\ LineageInv' /\ RequestsInv' /\ BudgetsHold'
         /\ \A p \in Created : DepthAfter(p)' = DepthAfter(p)
<1> DEFINE p == job[w]
           above == Incoming(p)
           tree == IF above = {} THEN q ELSE req[CHOOSE i \in above : TRUE].root
           new == [status |-> "dispatched", parent |-> p, child |-> r, depth |-> DepthAfter(p), root |-> tree]
<1>1. /\ TypeOK' /\ Created' = Created \cup {r}
      /\ p \in Created /\ p # r /\ r \in Fresh /\ row[p] = w /\ req[q] = NoRequest /\ new \in RequestRow
      /\ waits'[r] = 0 /\ exec'[r] = r
      /\ \A s \in Runs \ {p, r} : waits'[s] = waits[s] /\ row'[s] = row[s]
      /\ \A s \in Runs \ {r} : exec'[s] = exec[s]
      /\ req'[q] = new /\ \A s \in Requests \ {q} : req'[s] = req[s]
  BY DispatchEffect, SMT
<1>2. WithinBudget(p)
  BY DEF Dispatch
<1>3. /\ r \in Runs /\ r \notin Created /\ p \in Runs /\ 0 \notin Runs /\ 0 \notin Requests
      /\ \A s \in Created : s \in Runs /\ s # r
  BY <1>1, FreshIsLast, DelegationAssumption, SMT DEF Created, Runs, Requests
<1>4. /\ req[q].child = 0 /\ req[q].root = 0 /\ q \notin Made
      /\ req'[q].child = r /\ req'[q].parent = p /\ req'[q].root = tree /\ req'[q].depth = DepthAfter(p)
      /\ req'[q].status = "dispatched"
  BY <1>1, SMT DEF NoRequest, Made
<1>5. LineageInv'
  BY <1>1, <1>3, NewestRun, SMT
<1>6. exec[p] \in Created /\ exec'[p] = exec[p] /\ exec[p] # r /\ exec[p] # 0
  BY <1>1, <1>3 DEF LineageInv
<1>7. above \subseteq Made /\ \A i, j \in above : i = j
  BY <1>6, SMT DEF Incoming, Made, RequestsInv
<1>8. above # {} => (CHOOSE i \in above : TRUE) \in above
  BY <1>3, DepthTypes
<1>9. tree \in Made \cup {q}
  BY <1>7, <1>8 DEF RequestsInv
<1> HIDE DEF new, p, above, tree
<1>10. Made' = Made \cup {q}
  BY <1>1, <1>3, <1>4, SMT DEF Made
<1>11. RequestsInv'
  <2>1. \A x \in Requests : req'[x].status = "none" => req'[x] = NoRequest
    BY <1>1, <1>4, SMT DEF RequestsInv
  <2>2. \A x \in Requests : req'[x].status # "none" => req'[x].parent \in Created'
    BY <1>1, <1>4 DEF RequestsInv
  <2>3. \A x \in Requests : req'[x].status \in {"dispatched"} \cup Terminal <=> x \in Made'
    BY <1>1, <1>4, <1>10 DEF RequestsInv
  <2>4. \A x \in Requests \ Made' : req'[x].root = 0
    BY <1>1, <1>10 DEF RequestsInv
  <2>5. ASSUME NEW x \in Made'
        PROVE  /\ req'[x].child \in Created' /\ exec'[req'[x].child] = req'[x].child
               /\ req'[x].root \in Made'
    <3>1. CASE x = q
      BY <1>1, <1>4, <1>9, <1>10, <3>1
    <3>2. CASE x # q
      <4>1. x \in Made /\ x \in Requests /\ req'[x] = req[x]
        BY <1>1, <1>10, <3>2 DEF Made
      <4>2. QED BY <1>1, <1>3, <1>10, <4>1, SMT DEF RequestsInv
    <3>3. QED BY <3>1, <3>2
  <2>6. ASSUME NEW x \in Made', NEW y \in Made', req'[x].child = req'[y].child PROVE x = y
    <3>1. \A z \in Made : req'[z].child = req[z].child /\ req[z].child # r
      BY <1>1, <1>3, <1>4 DEF RequestsInv, Made
    <3>2. QED BY <1>4, <1>10, <2>6, <3>1, SMT DEF RequestsInv
  <2>7. QED BY <2>1, <2>2, <2>3, <2>4, <2>5, <2>6 DEF RequestsInv
<1>12. ASSUME NEW s \in Runs
       PROVE  Cardinality({x \in Requests : req'[x].parent = s /\ req'[x].child # 0}) <= PerRun
  <2>1. CASE s = p
    <3>1. {x \in Requests : req'[x].parent = s /\ req'[x].child # 0} = Materialized(p) \cup {q}
      BY <1>1, <1>3, <1>4, <2>1, SMT DEF Materialized
    <3>2. q \notin Materialized(p) /\ Materialized(p) \in SUBSET Requests
      BY <1>4 DEF Materialized
    <3>3. Cardinality(Materialized(p)) < PerRun /\ PerRun \in Nat
      BY <1>2, DelegationAssumption DEF WithinBudget
    <3>4. QED BY <3>1, <3>2, <3>3, OneMore
  <2>2. CASE s # p
    <3>1. {x \in Requests : req'[x].parent = s /\ req'[x].child # 0}
            = {x \in Requests : req[x].parent = s /\ req[x].child # 0}
      BY <1>1, <1>4, <2>2, SMT
    <3>2. QED BY <3>1 DEF BudgetsHold
  <2>3. QED BY <2>1, <2>2
<1>13. ASSUME NEW t \in Requests
       PROVE  Cardinality({x \in Requests : req'[x].root = t}) <= PerTree
  <2>1. CASE t # tree
    <3>1. {x \in Requests : req'[x].root = t} = {x \in Requests : req[x].root = t}
      BY <1>1, <1>3, <1>4, <2>1, SMT
    <3>2. QED BY <3>1 DEF BudgetsHold
  <2>2. CASE t = tree
    <3>1. {x \in Requests : req'[x].root = t} = InTree(t) \cup {q}
      BY <1>1, <1>4, <2>2 DEF InTree
    <3>2. q \notin InTree(t) /\ InTree(t) \in SUBSET Requests
      BY <1>3, <1>4 DEF InTree
    <3>3. Cardinality(InTree(t)) < PerTree
      <4>1. CASE above = {}
        <5>1. t = q
          BY <2>2, <4>1 DEF tree
        <5>2. InTree(t) = {}
          BY <1>3, <1>4, <5>1, SMT DEF InTree, RequestsInv
        <5>3. QED BY <5>2, FS_EmptySet, DelegationAssumption, SMT
      <4>2. CASE above # {}
        BY <1>2, <1>8, <2>2, <4>2 DEF tree, above, WithinBudget
      <4>3. QED BY <4>1, <4>2
    <3>4. QED BY <3>1, <3>2, <3>3, OneMore, DelegationAssumption
  <2>3. QED BY <2>1, <2>2
<1>14. ASSUME NEW x \in Requests, req'[x].child # 0
       PROVE  LET over == {y \in Requests : req'[y].child = exec'[req'[x].parent]} IN
              /\ over = {} => req'[x].depth = 1 /\ req'[x].root = x
              /\ \A y \in over : req'[x].depth = req'[y].depth + 1 /\ req'[x].root = req'[y].root
  <2>1. \A e \in Created : {y \in Requests : req'[y].child = e} = {y \in Requests : req[y].child = e}
    BY <1>1, <1>3, <1>4, SMT
  <2>2. CASE x = q
    <3>1. {y \in Requests : req'[y].child = exec'[req'[x].parent]} = above
      BY <1>4, <1>6, <2>1, <2>2 DEF above, Incoming
    <3>2. CASE above = {}
      BY <1>4, <2>2, <3>1, <3>2 DEF tree, DepthAfter, above
    <3>3. ASSUME NEW y \in above
          PROVE  req'[x].depth = req'[y].depth + 1 /\ req'[x].root = req'[y].root
      <4>1. y = CHOOSE i \in above : TRUE
        BY <1>7, <1>8
      <4>2. req'[y] = req[y] /\ req[y].depth \in Nat
        BY <1>1, <1>4, <1>7, DelegationAssumption, SMT DEF Made, TypeOK
      <4>3. DepthAfter(p) = 1 + req[y].depth /\ tree = req[y].root
        BY <3>3, <4>1 DEF DepthAfter, tree, above
      <4>4. QED BY <1>4, <2>2, <4>2, <4>3, SMT
    <3>4. QED BY <3>1, <3>2, <3>3
  <2>3. CASE x # q
    <3>1. req'[x] = req[x] /\ req[x].child # 0 /\ req[x].parent \in Created
      BY <1>1, <1>14, <2>3 DEF RequestsInv, Made, Terminal
    <3>2. exec'[req[x].parent] = exec[req[x].parent] /\ exec[req[x].parent] \in Created
      BY <1>1, <1>3, <3>1 DEF LineageInv
    <3>3. {y \in Requests : req'[y].child = exec'[req'[x].parent]}
            = {y \in Requests : req[y].child = exec[req[x].parent]}
      BY <2>1, <3>1, <3>2
    <3>4. \A y \in Requests : req[y].child = exec[req[x].parent] => req'[y] = req[y]
      BY <1>1, <1>3, <1>4, <3>2, SMT
    <3>5. QED BY <3>1, <3>3, <3>4, SMT DEF BudgetsHold
  <2>4. QED BY <2>2, <2>3
<1>15. BudgetsHold'
  BY <1>12, <1>13, <1>14 DEF BudgetsHold
<1>16. ASSUME NEW s \in Created PROVE DepthAfter(s)' = DepthAfter(s)
  <2>1. s \in Runs /\ exec'[s] = exec[s] /\ exec[s] # r /\ exec[s] # 0
    BY <1>1, <1>3 DEF LineageInv
  <2>2. \A x \in Requests : /\ req'[x].child = exec[s] <=> req[x].child = exec[s]
                            /\ req[x].child = exec[s] => req'[x].depth = req[x].depth
    BY <1>1, <1>4, <2>1
  <2>3. QED BY <2>1, <2>2, DepthStays
<1>17. QED BY <1>5, <1>11, <1>15, <1>16

\* A dispatch creates the child's Run, a retry the next attempt.
LEMMA CreatingInv ==
  ASSUME DelegationInv, NEW w \in Workers,
         \/ \E r \in Runs, q \in Requests : Dispatch(w, r, q)
         \/ Owns(w) /\ Returns(w) /\ UNCHANGED <<sess, events>> /\ \E n \in Fresh : Retries(w, n)
  PROVE  DelegationInv'
<1>1. TypeOK /\ LineageInv /\ LocalInv /\ RequestsInv /\ BudgetsHold /\ AliveInv
  BY DEF DelegationInv
<1>2. ASSUME NEW r \in Runs, NEW q \in Requests, Dispatch(w, r, q) PROVE DelegationInv'
  <2> DEFINE p == job[w]
             above == Incoming(p)
             new == [status |-> "dispatched", parent |-> p, child |-> r, depth |-> DepthAfter(p),
                     root |-> IF above = {} THEN q ELSE req[CHOOSE i \in above : TRUE].root]
  <2>1. /\ TypeOK' /\ Created' = Created \cup {r}
        /\ p \in Created /\ p # r /\ r \in Fresh /\ row[p] = w /\ req[q] = NoRequest /\ new \in RequestRow
        /\ status'[p] = "waiting" /\ waits'[p] = q /\ row'[p] = "absent"
        /\ status'[r] = "queued" /\ waits'[r] = 0 /\ row'[r] = "free" /\ exec'[r] = r
        /\ \A s \in Runs \ {p, r} : status'[s] = status[s] /\ waits'[s] = waits[s] /\ row'[s] = row[s]
        /\ \A s \in Runs \ {r} : exec'[s] = exec[s]
        /\ req'[q] = new /\ \A s \in Requests \ {q} : req'[s] = req[s]
        /\ UNCHANGED <<cancelled, job, sess>>
        /\ \A v \in Workers : pc'[v] = "dispatching" => pc[v] = "dispatching"
    BY <1>1, <1>2, DispatchEffect
  <2> HIDE DEF new, above, p
  <2>2. /\ LineageInv' /\ RequestsInv' /\ BudgetsHold'
        /\ \A s \in Created : DepthAfter(s)' = DepthAfter(s)
    BY <1>1, <1>2, DispatchStructure
  <2>3. AliveInv'
    BY <1>1, <1>2, DispatchAlive
  <2>4. \A v \in Workers : job'[v] \in Created'
    BY <1>1, <2>1 DEF LocalInv
  <2>5. LocalInv'
    BY <1>1, <2>1, <2>2, <2>4, LocalKept
  <2>6. QED BY <2>1, <2>2, <2>3, <2>5 DEF DelegationInv
<1>3. ASSUME Owns(w), Returns(w), UNCHANGED <<sess, events>>, NEW n \in Fresh, Retries(w, n)
      PROVE  DelegationInv'
  <2> DEFINE r == job[w]
  <2>1. /\ TypeOK' /\ Created' = Created \cup {n}
        /\ r \in Created /\ r # n
        /\ status'[r] = "failed" /\ waits'[r] = 0 /\ row'[r] = "absent"
        /\ status'[n] = "queued" /\ waits'[n] = 0 /\ row'[n] = "free" /\ exec'[n] = exec[r]
        /\ \A s \in Runs \ {r, n} : status'[s] = status[s] /\ waits'[s] = waits[s] /\ row'[s] = row[s]
        /\ \A s \in Runs \ {n} : exec'[s] = exec[s]
    BY <1>1, <1>3, RetryEffect
  <2> HIDE DEF r
  <2>2. req' = req
    BY <1>3 DEF Retries
  <2>3. /\ RequestsInv' /\ BudgetsHold'
        /\ \A s \in Created : DepthAfter(s)' = DepthAfter(s)
    BY <1>1, <1>3, <2>1, <2>2, RetryStructure
  <2>4. AliveInv' /\ LineageInv'
    BY <1>1, <1>3, RetryAlive
  <2>5. /\ \A v \in Workers : v # w => pc'[v] = pc[v] /\ job'[v] = job[v]
        /\ pc'[w] = "idle" /\ job'[w] = 1
    BY <1>1, <1>3, ReturnsTypes
  <2>6. \A v \in Workers : job'[v] \in Created'
    BY <1>1, <2>1, <2>5 DEF LocalInv
  <2>7. LocalInv'
    BY <1>1, <1>3, <2>1, <2>3, <2>5, <2>6, LocalKept
  <2>8. QED BY <2>1, <2>3, <2>4, <2>7 DEF DelegationInv
<1>4. QED BY <1>2, <1>3

\* Every step keeps the invariant.
LEMMA DelegationNext ==
  ASSUME DelegationInv, [Next]_vars PROVE DelegationInv'
<1>1. ASSUME NEW w \in Workers, WorkerStep(w) PROVE DelegationInv'
  <2>1. CASE \E r \in Runs : ClaimNextRun(w, r)
    BY <2>1, RowActions
  <2>2. CASE \/ \E to \in {"dispatching", "succeeding", "failing", "retrying"} : Open(w, to)
             \/ Refuse(w) \/ Abandon(w) \/ Conflict(w)
    BY <2>2, QuietActions
  <2>3. CASE \E r \in Runs, q \in Requests : Dispatch(w, r, q)
    BY <2>3, CreatingInv
  <2>4. CASE ApplySucceeded(w) \/ ApplyFailed(w)
    BY <2>4, OutcomesInv DEF ApplySucceeded, ApplyFailed, Terminal
  <2>5. CASE ApplyRetry(w)
    <3>1. Owns(w) /\ Returns(w) /\ UNCHANGED <<sess, events>>
      BY <2>5 DEF ApplyRetry
    <3>2. (\E n \in Fresh : Retries(w, n)) \/ EndRun(job[w], "failed")
      BY <2>5 DEF ApplyRetry, Retries
    <3>3. CASE EndRun(job[w], "failed")
      BY <3>1, <3>3, OutcomesInv DEF Terminal
    <3>4. CASE \E n \in Fresh : Retries(w, n)
      BY <3>1, <3>4, CreatingInv
    <3>5. QED BY <3>2, <3>3, <3>4
  <2>6. QED BY <1>1, <2>1, <2>2, <2>3, <2>4, <2>5 DEF WorkerStep
<1>2. ASSUME NEW w \in Workers, Crash(w) PROVE DelegationInv'
  BY <1>2, QuietActions
<1>3. ASSUME NEW w \in Workers, Stall(w) \/ LeaseLapses(w) PROVE DelegationInv'
  BY <1>3, RowActions
<1>4. CASE (\E op \in AllOps, r \in Runs : Load(op, r)) \/ UNCHANGED vars
  BY <1>4, QuietActions
<1>5. ASSUME NEW e \in Runs, CancelTask(e) \/ CreateDelegationRequest(e) PROVE DelegationInv'
  BY <1>5, CancelTaskInv, CreateInv
<1>6. CASE Commit
  BY <1>6, OutcomesInv
<1>7. QED BY <1>1, <1>2, <1>3, <1>4, <1>5, <1>6 DEF Next

\* One queued root Run and no request: the invariant holds initially.
LEMMA DelegationInit == Init => DelegationInv
<1> SUFFICES ASSUME Init PROVE DelegationInv
  OBVIOUS
<1> USE DelegationAssumption DEF Runs, Requests
<1>1. TypeOK
  <2>1. NoRequest \in RequestRow
    BY SMT DEF NoRequest, RequestRow, RequestState
  <2>2. req \in [Requests -> RequestRow]
    BY <2>1 DEF Init
  <2>3. sess \in [op : {"none"} \cup Ops, run : Runs]
    BY SMT DEF Init, Idle
  <2>4. status \in [Runs -> RunState] /\ row \in [Runs -> {"absent", "free"} \cup Workers]
    BY DEF Init, RunState, Live
  <2>5. /\ exec \in [Runs -> 0 .. MaxRuns] /\ waits \in [Runs -> 0 .. MaxRequests] /\ cancelled \subseteq Runs
        /\ job \in [Workers -> Runs] /\ asked \in [Workers -> 0 .. MaxRequests] /\ events \in 0 .. MaxEvents
    BY SMT DEF Init
  <2>6. pc \in [Workers -> Places]
    BY DEF Init, Places
  <2>7. QED BY <2>2, <2>3, <2>4, <2>5, <2>6 DEF TypeOK, RunState, RequestRow, RequestState, Places
<1>2. Created = {1} /\ Made = {}
  BY SMT DEF Created, Made, Init, NoRequest
<1>3. /\ \A q \in Requests : req[q] = NoRequest
      /\ exec[1] = 1 /\ status[1] = "queued" /\ waits[1] = 0 /\ row[1] = "free"
      /\ \A r \in Runs \ {1} : exec[r] = 0 /\ waits[r] = 0 /\ row[r] = "absent"
  BY SMT DEF Init
<1>4. LineageInv
  <2>1. 1 \in Latest(1)
    BY <1>3, SMT DEF Latest, Attempts
  <2>2. QED BY <1>2, <1>3, <2>1, SMT DEF LineageInv
<1>5. LocalInv
  BY <1>2 DEF LocalInv, Init, Idle
<1>6. RequestsInv
  BY <1>2, <1>3, SMT DEF RequestsInv, NoRequest, Terminal
<1>7. BudgetsHold
  <2>1. \A r \in Runs : {q \in Requests : req[q].parent = r /\ req[q].child # 0} = {}
    BY <1>3, SMT DEF NoRequest
  <2>2. \A t \in Requests : {q \in Requests : req[q].root = t} = {}
    BY <1>3, SMT DEF NoRequest
  <2>3. \A q \in Requests : req[q].child = 0
    BY <1>3, SMT DEF NoRequest
  <2>4. Cardinality({}) = 0
    BY FS_EmptySet
  <2>5. 0 <= PerRun /\ 0 <= PerTree
    BY SMT
  <2>6. QED BY <2>1, <2>2, <2>3, <2>4, <2>5 DEF BudgetsHold
<1>8. AliveInv
  <2>1. DispatchedBy(1) = {}
    BY <1>3, SMT DEF DispatchedBy, NoRequest
  <2>2. \A a \in Attempts(1) : a <= 1
    BY <1>3, SMT DEF Attempts
  <2>3. QED BY <1>2, <1>3, <2>1, <2>2 DEF AliveInv, RunOK, Terminal
<1>9. QED BY <1>1, <1>4, <1>5, <1>6, <1>7, <1>8 DEF DelegationInv

-----------------------------------------------------------------------------
(* What follows *)

\* DispatchDelegation's budgets hold over the whole history of a Run and of a
\* tree, and every delegation is one level below the one its execution works
\* for, although workers dispatch from several places of a tree at once, die,
\* lose their claims and are retried, and commands end Runs under them.
THEOREM DelegationBudgetsHold == Spec => []BudgetsHold
<1>1. DelegationInv => BudgetsHold
  BY DEF DelegationInv
<1>2. QED BY <1>1, DelegationInit, DelegationNext, PTL DEF Spec

\* reconcile_child_terminal_in_uow settles every delegation in the transaction
\* that ends the last live attempt of its child, and no parent waits for a
\* settled one: unless a Task was cancelled, an open request has a live child,
\* a waiting parent has an open request, and a Run that may run has a row.
THEOREM EveryWaitIsBacked == Spec => []WaitsAreBacked
<1>1. ASSUME DelegationInv PROVE WaitsAreBacked
  <2>1. TypeOK /\ LineageInv /\ AliveInv
    BY <1>1 DEF DelegationInv
  <2>2. ASSUME NEW q \in Requests, req[q].child # 0, req[q].child \notin cancelled
        PROVE  req[q].status = "dispatched" <=>
                 \E a \in Runs : exec[a] = req[q].child /\ status[a] \in Live
    BY <2>1, <2>2 DEF AliveInv, RequestOK, Made
  <2>3. ASSUME NEW r \in Runs
        PROVE  /\ status[r] = "waiting" <=> waits[r] # 0
               /\ status[r] = "waiting" => row[r] = "absent" /\ waits[r] \in DispatchedBy(r)
               /\ status[r] \in {"queued", "running"} => row[r] # "absent" /\ DispatchedBy(r) = {}
    <3>1. CASE r \in Created
      BY <2>1, <3>1 DEF AliveInv, RunOK
    <3>2. CASE r \notin Created
      BY <2>1, <3>2 DEF LineageInv, Created
    <3>3. QED BY <3>1, <3>2
  <2>4. QED BY <2>1, <2>2, <2>3 DEF WaitsAreBacked
<1>2. QED BY <1>1, DelegationInit, DelegationNext, PTL DEF Spec

\* DelegationRequest rows keep their lifecycle although the transition is
\* checked on a row that was read before: requested, dispatched with a child,
\* then settled once and for good.  The detailed workers, commands and crashes
\* implement Lifecycle.
THEOREM RequestsKeepTheirLifecycle == Spec => RequestsFollow
<1>1. Init => RequestRows!Init
  BY SMT DEF Init, RequestRows!Init, NoRequest
<1>2. ASSUME DelegationInv, [Next]_vars
      PROVE  [RequestRows!Next]_([q \in Requests |-> req[q].status])
  <2>1. \A q \in Requests : RequestRows!Allowed(req[q].status, req'[q].status)
    BY <1>2, StepMoves, MovesAllowed DEF DelegationInv
  <2>2. QED BY <2>1 DEF RequestRows!Next
<1>3. ASSUME DelegationInv
      PROVE  \A q \in Requests : RequestRows!DelegationShape(req[q].status, req[q].child # 0)
  <2>1. \A q \in Requests : req[q].status \in {"dispatched"} \cup Terminal <=> req[q].child # 0
    BY <1>3 DEF DelegationInv, RequestsInv, Made
  <2>2. QED BY <2>1 DEF RequestRows!DelegationShape, Terminal
<1>4. QED BY <1>1, <1>2, <1>3, DelegationInit, DelegationNext, PTL
         DEF Spec, RequestsFollow, RequestRows!Spec
=============================================================================
