------------------------------ MODULE FileLock ------------------------------
(* A directory used as a lock, and the file system calls made on it. The lock is a set: empty when the  *)
(* directory does not exist, otherwise one record with the token in owner.json (NoToken until it is     *)
(* written) and whether the time to live, counted from the creation recorded there, is not over.        *)
EXTENDS Naturals

NoToken == "no token"
Free == {}
LockOf(tokens) == {Free} \union {{r} : r \in [by : tokens \union {NoToken}, fresh : BOOLEAN]}

Mkdir == {[by |-> NoToken, fresh |-> TRUE]}
WithOwner(lock, token) == {[by |-> token, fresh |-> TRUE] : r \in lock}
Expired(lock) == {[r EXCEPT !.fresh = FALSE] : r \in lock}

(* Mutant: a lock is never given up. *)
IsStale_Never(lock) == FALSE

(* _is_stale: a lock whose owner cannot be read is never stale. *)
IsStale(lock) == \E r \in lock : r.by # NoToken /\ ~r.fresh

OwnedBy(lock, token) == \E r \in lock : r.by = token
Ownerless(lock) == \E r \in lock : r.by = NoToken
=============================================================================
