---------------------------- MODULE VaultProofs -----------------------------
(***************************************************************************)
(* Proofs about the vault, for any values of the bounds: an append keeps   *)
(* what is in a note (VaultNotes), and the index that is built from the    *)
(* notes is consistent (MemoryIndex).                                      *)
(***************************************************************************)
EXTENDS VaultNotes, Integers, FiniteSetTheorems, SequenceTheorems, TLAPS

CONSTANTS Builders, Readers, MaxVault, Inodes, MaxIndexFaults

VARIABLES vault, indexLock, corpus, staging, active, previous, builder, reader, indexFaults, indexLapses

Index == INSTANCE MemoryIndex WITH
  MaxFaults <- MaxIndexFaults, lock <- indexLock, faults <- indexFaults, lapses <- indexLapses

(* Most leaves are first-order: Zenon takes those that name no prover.                                  *)
USE Zenon

WriterPcs ==
  {"idle", "lock", "remove", "own", "held", "open", "write", "verify", "release", "rmtree"}

NoteRow == [ino : Nat, text : Seq(Nat)]

WriterRow ==
  [pc : WriterPcs, op : {"create", "append"}, seen : Seq(Nat), ino : Nat, tag : Nat, tries : Nat,
   saw : LockOf(Writers)]

(* One note at the path, with the latest inode, and rows as the columns say.                            *)
NotesOK ==
  /\ note \subseteq NoteRow /\ \A f, g \in note : f = g
  /\ proc \in [Writers -> WriterRow] /\ lock \in LockOf(Writers)
  /\ tags \in Nat /\ inodes \in Nat
  /\ \A f \in note : f.ino <= inodes
  /\ \A w \in Writers : proc[w].ino <= inodes
  /\ \A w \in Writers : At(w, "remove") => IsStale(proc[w].saw)

(* Until the lock is lost, a writer past WriteOwner owns it and a writer before it made it.             *)
OwnerInv ==
  lapses = {} =>
    /\ \A w \in Writers : Holding(w) => lock = {[by |-> w, fresh |-> TRUE]}
    /\ \A w \in Writers : At(w, "own") => lock = Mkdir
    /\ \A v, w \in Writers : At(v, "own") /\ At(w, "own") => v = w

(* The tags in a text.                                                                                  *)
TagsOf(t) == {t[i] : i \in 1 .. Len(t)}

(* What a writer at x can rely on of the inode it opened, in the note N; clean says that no lock has    *)
(* been lost.                                                                                           *)
Relies(x, N, clean) ==
  /\ x.pc = "write" => \A f \in N : f.ino = x.ino /\ clean => f.text = x.seen
  /\ x.pc = "verify" => \A f \in N : f.ino = x.ino =>
       /\ x.tag \in TagsOf(f.text)
       /\ clean => f.text = Append(x.seen, x.tag)

ReliesInv == \A w \in Writers : Relies(proc[w], note, lapses = {})

NotesInv == NotesOK /\ OwnerInv /\ ReliesInv

-----------------------------------------------------------------------------
(* The calls on the lock leave it a lock.                                                               *)
LEMMA LockWritten ==
  ASSUME NEW l \in LockOf(Writers), NEW w \in Writers
  PROVE  /\ Free \in LockOf(Writers) /\ Mkdir \in LockOf(Writers)
         /\ WithOwner(l, w) \in LockOf(Writers) /\ Expired(l) \in LockOf(Writers)
<1>1. Free \in LockOf(Writers) /\ Mkdir \in LockOf(Writers)
  BY DEF LockOf, Mkdir, Free
<1>2. CASE l = {}
  BY <1>1, <1>2 DEF WithOwner, Expired, Free
<1>3. ASSUME NEW r \in [by : Writers \cup {NoToken}, fresh : BOOLEAN], l = {r}
      PROVE  WithOwner(l, w) \in LockOf(Writers) /\ Expired(l) \in LockOf(Writers)
  <2>1. WithOwner(l, w) = {[by |-> w, fresh |-> TRUE]} /\ Expired(l) = {[r EXCEPT !.fresh = FALSE]}
    BY <1>3 DEF WithOwner, Expired
  <2>2. [r EXCEPT !.fresh = FALSE] \in [by : Writers \cup {NoToken}, fresh : BOOLEAN]
    OBVIOUS
  <2>3. [by |-> w, fresh |-> TRUE] \in [by : Writers \cup {NoToken}, fresh : BOOLEAN]
    OBVIOUS
  <2> QED
    BY <2>1, <2>2, <2>3 DEF LockOf
<1> QED
  BY <1>1, <1>2, <1>3 DEF LockOf, Free

(* owner.json names one owner.                                                                          *)
LEMMA OneOwner ==
  ASSUME NEW x, NEW y, {[by |-> x, fresh |-> TRUE]} = {[by |-> y, fresh |-> TRUE]}
  PROVE  x = y
<1>1. [by |-> x, fresh |-> TRUE] = [by |-> y, fresh |-> TRUE]
  OBVIOUS
<1>2. [by |-> x, fresh |-> TRUE].by = x /\ [by |-> y, fresh |-> TRUE].by = y
  OBVIOUS
<1> QED
  BY <1>1, <1>2

(* An owned, fresh lock is neither free nor stale, nor the directory that was just made.                *)
LEMMA OwnedIsFresh ==
  ASSUME NoToken \notin Writers, NEW w \in Writers
  PROVE  LET l == {[by |-> w, fresh |-> TRUE]} IN l # Free /\ l # Mkdir /\ ~IsStale(l)
<1>1. {[by |-> w, fresh |-> TRUE]} # Mkdir
  BY OneOwner DEF Mkdir
<1>2. ~IsStale({[by |-> w, fresh |-> TRUE]})
  BY SMT DEF IsStale
<1> QED
  BY <1>1, <1>2 DEF Free

(* Two writers do not hold the lock at once, until it is lost.                                          *)
LEMMA OneHolder ==
  ASSUME OwnerInv, lapses = {}, NEW v \in Writers, NEW w \in Writers, Holding(v), Holding(w)
  PROVE  v = w
BY OneOwner DEF OwnerInv

-----------------------------------------------------------------------------
(* A writer moved to the row x, and the note stayed as it is.                                           *)
Moves(w, x) ==
  /\ x \in WriterRow /\ proc' = [proc EXCEPT ![w] = x]
  /\ lapses' = {} => lapses = {}

(* What a move does to the rows of the writers.                                                         *)
LEMMA RowMoves ==
  ASSUME NotesOK, NEW w \in Writers, NEW x, Moves(w, x)
  PROVE  /\ proc' \in [Writers -> WriterRow] /\ proc'[w] = x
         /\ \A v \in Writers : v # w => proc'[v] = proc[v]
BY DEF NotesOK, Moves

(* A writer that goes to a step at which it relies on nothing.                                          *)
LEMMA QuietMove ==
  ASSUME NotesOK, ReliesInv, NEW w \in Writers, NEW x, Moves(w, x), UNCHANGED <<note, inodes>>,
         tags' \in Nat, lock' \in LockOf(Writers), x.pc \notin {"write", "verify"}, x.ino <= inodes,
         x.pc = "remove" => IsStale(x.saw)
  PROVE  NotesOK' /\ ReliesInv'
<1>1. /\ proc' \in [Writers -> WriterRow] /\ proc'[w] = x
      /\ \A v \in Writers : v # w => proc'[v] = proc[v]
  BY RowMoves
<1>2. NotesOK'
  BY <1>1 DEF NotesOK, At
<1>3. ReliesInv'
  BY <1>1 DEF ReliesInv, Relies, Moves
<1> QED
  BY <1>2, <1>3

(* A writer that neither holds the lock nor has made it, and leaves it alone.                           *)
LEMMA OwnerAlone ==
  ASSUME NotesOK, OwnerInv, NEW w \in Writers, NEW x, Moves(w, x), UNCHANGED lock,
         x.pc \in {"idle", "lock", "remove"}
  PROVE  OwnerInv'
BY RowMoves DEF OwnerInv, Moves, Holding, At

(* A writer that holds the lock and goes on holding it.                                                 *)
LEMMA HolderStays ==
  ASSUME NotesOK, OwnerInv, NEW w \in Writers, NEW x, Moves(w, x), UNCHANGED lock, Holding(w),
         x.pc \in {"held", "open", "write", "verify", "release", "rmtree"}
  PROVE  OwnerInv'
<1>1. proc'[w] = x /\ \A v \in Writers : v # w => proc'[v] = proc[v]
  BY RowMoves
<1>2. x.pc # "own"
  OBVIOUS
<1>3. \A v \in Writers : Holding(v)' => Holding(v)
  BY <1>1 DEF Holding
<1>4. \A v \in Writers : At(v, "own")' => At(v, "own")
  BY <1>1, <1>2 DEF At
<1> QED
  BY <1>3, <1>4 DEF OwnerInv, Moves

(* A row with another step of the program, and a row at rest.                                           *)
LEMMA RowGoes ==
  ASSUME NotesOK, NEW w \in Writers, NEW p \in WriterPcs, Goes(w, p), lapses' = {} => lapses = {}
  PROVE  LET x == [proc[w] EXCEPT !.pc = p] IN Moves(w, x) /\ x.pc = p /\ x.ino <= inodes
<1> DEFINE x == [proc[w] EXCEPT !.pc = p]
<1>1. proc[w] \in WriterRow /\ proc[w].ino <= inodes
  BY DEF NotesOK
<1>2. x \in WriterRow /\ x.pc = p /\ x.ino = proc[w].ino
  BY <1>1 DEF WriterRow
<1>3. proc' = [proc EXCEPT ![w] = x]
  BY DEF Goes, NotesOK
<1> QED
  BY <1>1, <1>2, <1>3 DEF Moves

(* A writer that gives up is idle again.                                                                *)
LEMMA RowEnds ==
  ASSUME NotesOK, NEW w \in Writers, Ends(w), lapses' = {} => lapses = {}
  PROVE  Moves(w, Idle) /\ Idle.pc = "idle" /\ Idle.ino <= inodes
<1>1. 0 \in Nat /\ 0 <= inodes /\ <<>> \in Seq(Nat)
  BY SMT DEF NotesOK
<1>2. Idle \in WriterRow /\ Idle.pc = "idle" /\ Idle.ino = 0
  BY <1>1 DEF Idle, WriterRow, WriterPcs, LockOf
<1> QED
  BY <1>1, <1>2 DEF Moves, Ends

-----------------------------------------------------------------------------
(* The steps that leave the note alone.                                                                 *)

(* A proposal reads the note, and holds nothing yet.                                                    *)
LEMMA ProposeStep ==
  ASSUME NotesInv, NEW w \in Writers, NEW op \in {"create", "append"}, Propose(w, op)
  PROVE  NotesInv'
<1>0. tags + 1 \in Nat /\ 0 \in Nat /\ 0 <= inodes /\ <<>> \in Seq(Nat) /\ lock \in LockOf(Writers)
  BY SMT DEF NotesInv, NotesOK
<1>1. \A f \in note : f.text \in Seq(Nat)
  BY DEF NotesInv, NotesOK, NoteRow
<1>2. PICK x \in WriterRow : proc' = [proc EXCEPT ![w] = x] /\ x.pc = "lock" /\ x.ino = 0
  <2>1. CASE op = "create"
    <3> DEFINE x == [Idle EXCEPT !.pc = "lock", !.tag = tags + 1]
    <3>1. proc' = [proc EXCEPT ![w] = x]
      BY <2>1 DEF Propose
    <3>2. x \in WriterRow /\ x.pc = "lock" /\ x.ino = 0
      BY <1>0 DEF Idle, WriterRow, WriterPcs, LockOf
    <3> QED
      BY <3>1, <3>2
  <2>2. CASE op = "append"
    <3>1. PICK f \in note : proc' = [proc EXCEPT ![w] =
            [Idle EXCEPT !.pc = "lock", !.op = op, !.tag = tags + 1, !.seen = f.text]]
      BY <2>2 DEF Propose
    <3> DEFINE x == [Idle EXCEPT !.pc = "lock", !.op = op, !.tag = tags + 1, !.seen = f.text]
    <3>2. x \in WriterRow /\ x.pc = "lock" /\ x.ino = 0
      BY <1>0, <1>1 DEF Idle, WriterRow, WriterPcs, LockOf
    <3> QED
      BY <3>1, <3>2
  <2> QED
    BY <2>1, <2>2
<1>3. x.pc = "lock"
  BY <1>2
<1>4. UNCHANGED <<note, lock, inodes, lapses>> /\ tags' = tags + 1
  BY DEF Propose
<1>5. Moves(w, x) /\ x.pc \notin {"write", "verify", "remove"} /\ x.ino <= inodes
  BY <1>0, <1>2, <1>4 DEF Moves
<1>6. NotesOK' /\ ReliesInv'
  BY <1>0, <1>4, <1>5, QuietMove DEF NotesInv
<1>7. OwnerInv'
  BY <1>3, <1>4, <1>5, OwnerAlone DEF NotesInv
<1> QED
  BY <1>6, <1>7 DEF NotesInv

(* acquire makes the directory, finds a stale one, or gives up.                                         *)
LEMMA AcquireStep ==
  ASSUME NoToken \notin Writers, NotesInv, NEW w \in Writers, AcquireLock(w)
  PROVE  NotesInv'
<1>0. /\ NotesOK /\ OwnerInv /\ ReliesInv /\ proc[w] \in WriterRow /\ proc[w].ino <= inodes
      /\ lock \in LockOf(Writers) /\ tags \in Nat /\ UNCHANGED <<note, tags, inodes, lapses>>
  BY DEF NotesInv, NotesOK, AcquireLock
<1>1. CASE lock = Free /\ lock' = Mkdir /\ Goes(w, "own")
  <2> DEFINE x == [proc[w] EXCEPT !.pc = "own"]
  <2>1. Moves(w, x) /\ x.pc = "own" /\ x.ino <= inodes
    BY <1>0, <1>1, RowGoes DEF WriterPcs
  <2> HIDE DEF x
  <2>2. NotesOK' /\ ReliesInv'
    BY <1>0, <1>1, <2>1, QuietMove, LockWritten
  <2>3. lapses = {} => \A v \in Writers : ~Holding(v) /\ ~At(v, "own")
    BY <1>0, <1>1 DEF OwnerInv, Free, Mkdir
  <2>4. OwnerInv'
    BY <1>0, <1>1, <2>1, <2>3, RowMoves DEF OwnerInv, Holding, At
  <2> QED
    BY <2>2, <2>4 DEF NotesInv
<1>2. CASE IsStale(lock) /\ proc' = [proc EXCEPT ![w].pc = "remove", ![w].saw = lock] /\ UNCHANGED lock
  <2> DEFINE x == [proc[w] EXCEPT !.pc = "remove", !.saw = lock]
  <2>1. x \in WriterRow /\ x.pc = "remove" /\ x.ino = proc[w].ino /\ x.saw = lock
    BY <1>0 DEF WriterRow, WriterPcs
  <2>2. proc' = [proc EXCEPT ![w] = x]
    BY <1>0, <1>2 DEF NotesOK
  <2> HIDE DEF x
  <2>3. Moves(w, x)
    BY <1>0, <2>1, <2>2 DEF Moves
  <2>4. NotesOK' /\ ReliesInv'
    BY <1>0, <1>2, <2>1, <2>3, QuietMove
  <2>5. OwnerInv'
    BY <1>0, <1>2, <2>1, <2>3, OwnerAlone
  <2> QED
    BY <2>4, <2>5 DEF NotesInv
<1>3. CASE Ends(w) /\ UNCHANGED lock
  <2>1. Moves(w, Idle) /\ Idle.pc = "idle" /\ Idle.ino <= inodes
    BY <1>0, <1>3, RowEnds
  <2>2. NotesOK' /\ ReliesInv'
    BY <1>0, <1>3, <2>1, QuietMove
  <2>3. OwnerInv'
    BY <1>0, <1>3, <2>1, OwnerAlone
  <2> QED
    BY <2>2, <2>3 DEF NotesInv
<1> QED
  BY <1>1, <1>2, <1>3 DEF AcquireLock

(* _remove_stale frees a lock that nobody at work owns, unless it takes another than it saw.            *)
LEMMA RemoveStep ==
  ASSUME NoToken \notin Writers, NotesInv, NEW w \in Writers, RemoveStale(w)
  PROVE  NotesInv'
<1>0. /\ NotesOK /\ OwnerInv /\ ReliesInv /\ proc[w] \in WriterRow /\ proc[w].ino <= inodes
      /\ lock \in LockOf(Writers) /\ Free \in LockOf(Writers) /\ tags \in Nat
      /\ UNCHANGED <<note, tags, inodes>> /\ IsStale(proc[w].saw)
  BY LockWritten DEF NotesInv, NotesOK, RemoveStale
<1>1. CASE lock = Free
  <2>1. Ends(w) /\ UNCHANGED <<lock, lapses>>
    BY <1>1 DEF RemoveStale
  <2>2. Moves(w, Idle) /\ Idle.pc = "idle" /\ Idle.ino <= inodes
    BY <1>0, <2>1, RowEnds
  <2>3. NotesOK' /\ ReliesInv'
    BY <1>0, <2>1, <2>2, QuietMove
  <2>4. OwnerInv'
    BY <1>0, <2>1, <2>2, OwnerAlone
  <2> QED
    BY <2>3, <2>4 DEF NotesInv
<1>2. CASE lock # Free
  <2> DEFINE x == [proc[w] EXCEPT !.pc = "lock", !.tries = @ + 1, !.saw = Free]
  <2>0. proc[w].tries + 1 \in Nat
    <3>1. proc[w].tries \in Nat
      BY <1>0 DEF WriterRow
    <3> QED
      BY <3>1, SMT
  <2>1. x \in WriterRow /\ x.pc = "lock" /\ x.ino = proc[w].ino
    BY <1>0, <2>0 DEF WriterRow, WriterPcs
  <2>2. /\ proc' = [proc EXCEPT ![w] = x] /\ lock' = Free
        /\ lapses' = IF lock = proc[w].saw THEN lapses ELSE lapses \cup {"snatched"}
    BY <1>0, <1>2 DEF RemoveStale, NotesOK
  <2> HIDE DEF x
  <2>3. lapses' = {} => lapses = {} /\ IsStale(lock)
    BY <1>0, <2>2
  <2>4. Moves(w, x)
    BY <2>1, <2>2, <2>3 DEF Moves
  <2>5. NotesOK' /\ ReliesInv'
    BY <1>0, <2>1, <2>2, <2>4, QuietMove
  <2>6. ~IsStale(Mkdir)
    BY SMT DEF IsStale, Mkdir
  <2>7. lapses' = {} => \A v \in Writers : ~Holding(v) /\ ~At(v, "own")
    BY <1>0, <2>3, <2>6, OwnedIsFresh DEF OwnerInv
  <2>8. OwnerInv'
    BY <1>0, <2>1, <2>4, <2>7, RowMoves DEF OwnerInv, Holding, At
  <2> QED
    BY <2>5, <2>8 DEF NotesInv
<1> QED
  BY <1>1, <1>2

(* _write_owner makes the writer of the directory its owner.                                            *)
LEMMA OwnerStep ==
  ASSUME NoToken \notin Writers, NotesInv, NEW w \in Writers, WriteOwner(w)
  PROVE  NotesInv'
<1>0. /\ NotesOK /\ OwnerInv /\ ReliesInv /\ lock \in LockOf(Writers) /\ tags \in Nat
      /\ UNCHANGED <<note, tags, inodes, lapses>>
  BY DEF NotesInv, NotesOK, WriteOwner
<1>1. CASE lock = Free
  <2>1. Ends(w) /\ UNCHANGED lock
    BY <1>1 DEF WriteOwner
  <2>2. Moves(w, Idle) /\ Idle.pc = "idle" /\ Idle.ino <= inodes
    BY <1>0, <2>1, RowEnds
  <2>3. NotesOK' /\ ReliesInv'
    BY <1>0, <2>1, <2>2, QuietMove
  <2>4. OwnerInv'
    BY <1>0, <2>1, <2>2, OwnerAlone
  <2> QED
    BY <2>3, <2>4 DEF NotesInv
<1>2. CASE lock # Free
  <2> DEFINE x == [proc[w] EXCEPT !.pc = "held"]
  <2>1. Goes(w, "held") /\ lock' = WithOwner(lock, w)
    BY <1>2 DEF WriteOwner
  <2>2. Moves(w, x) /\ x.pc = "held" /\ x.ino <= inodes
    BY <1>0, <2>1, RowGoes DEF WriterPcs
  <2> HIDE DEF x
  <2>3. NotesOK' /\ ReliesInv'
    BY <1>0, <2>1, <2>2, QuietMove, LockWritten
  <2>4. ASSUME lapses = {} PROVE lock' = {[by |-> w, fresh |-> TRUE]}
    <3>1. lock = {[by |-> NoToken, fresh |-> TRUE]}
      BY <1>0, <2>4 DEF OwnerInv, WriteOwner, Mkdir
    <3> QED
      BY <2>1, <3>1 DEF WithOwner
  <2>5. lapses = {} => \A v \in Writers : ~Holding(v) /\ (At(v, "own") => v = w)
    BY <1>0, OwnedIsFresh DEF OwnerInv, WriteOwner
  <2>6. proc'[w] = x /\ \A v \in Writers : v # w => proc'[v] = proc[v]
    BY <1>0, <2>2, RowMoves
  <2>7. lapses = {} => \A v \in Writers : (Holding(v)' => v = w) /\ ~At(v, "own")'
    BY <2>2, <2>5, <2>6 DEF Holding, At
  <2>8. OwnerInv'
    BY <1>0, <2>4, <2>7 DEF OwnerInv
  <2> QED
    BY <2>3, <2>8 DEF NotesInv
<1> QED
  BY <1>1, <1>2

(* A writer that holds the lock and goes to a step at which it relies on nothing.                       *)
LEMMA HolderGoes ==
  ASSUME NotesInv, NEW w \in Writers, NEW p \in {"open", "release", "rmtree"}, Goes(w, p), Holding(w),
         UNCHANGED <<note, lock, tags, inodes, lapses>>
  PROVE  NotesInv'
<1>0. NotesOK /\ OwnerInv /\ ReliesInv /\ lock \in LockOf(Writers) /\ tags \in Nat
  BY DEF NotesInv, NotesOK
<1> DEFINE x == [proc[w] EXCEPT !.pc = p]
<1>1. p \in WriterPcs
  BY DEF WriterPcs
<1>2. Moves(w, x) /\ x.pc = p /\ x.ino <= inodes
  BY <1>0, <1>1, RowGoes
<1> HIDE DEF x
<1>3. NotesOK' /\ ReliesInv'
  BY <1>0, <1>2, QuietMove
<1>4. OwnerInv'
  BY <1>0, <1>2, HolderStays
<1> QED
  BY <1>3, <1>4 DEF NotesInv

(* A writer that ends without touching the lock, whoever holds it.                                      *)
LEMMA WriterEnds ==
  ASSUME NotesInv, NEW w \in Writers, Ends(w), UNCHANGED <<note, lock, tags, inodes, lapses>>
  PROVE  NotesInv'
<1>0. NotesOK /\ OwnerInv /\ ReliesInv /\ lock \in LockOf(Writers) /\ tags \in Nat
  BY DEF NotesInv, NotesOK
<1>1. Moves(w, Idle) /\ Idle.pc = "idle" /\ Idle.ino <= inodes
  BY <1>0, RowEnds
<1>2. NotesOK' /\ ReliesInv'
  BY <1>0, <1>1, QuietMove
<1>3. OwnerInv'
  BY <1>0, <1>1, OwnerAlone
<1> QED
  BY <1>2, <1>3 DEF NotesInv

(* release reads the owner and changes nothing.                                                         *)
LEMMA ReleaseStep ==
  ASSUME NotesInv, NEW w \in Writers, ReleaseCheck(w)
  PROVE  NotesInv'
<1>1. Holding(w) /\ UNCHANGED <<note, lock, tags, inodes, lapses>> /\ (Goes(w, "rmtree") \/ Ends(w))
  BY DEF ReleaseCheck, At, Holding
<1> QED
  BY <1>1, HolderGoes, WriterEnds

(* Only the owner removes the directory, until a lock has been lost.                                    *)
LEMMA UnlockStep ==
  ASSUME NoToken \notin Writers, NotesInv, NEW w \in Writers, ReleaseLock(w)
  PROVE  NotesInv'
<1>0. /\ NotesOK /\ OwnerInv /\ ReliesInv /\ Free \in LockOf(Writers) /\ tags \in Nat
      /\ Ends(w) /\ lock' = Free /\ UNCHANGED <<note, tags, inodes, lapses>> /\ Holding(w)
  BY LockWritten DEF NotesInv, NotesOK, ReleaseLock, Holding, At
<1>1. Moves(w, Idle) /\ Idle.pc = "idle" /\ Idle.ino <= inodes
  BY <1>0, RowEnds
<1>2. NotesOK' /\ ReliesInv'
  BY <1>0, <1>1, QuietMove
<1>3. lapses = {} => \A v \in Writers : v # w => ~Holding(v)
  BY <1>0, OneHolder
<1>4. lapses = {} => \A v \in Writers : ~At(v, "own")
  BY <1>0, OwnedIsFresh DEF OwnerInv
<1>5. proc'[w] = Idle /\ \A v \in Writers : v # w => proc'[v] = proc[v]
  BY <1>0, <1>1, RowMoves
<1>6. lapses = {} => \A v \in Writers : ~Holding(v)' /\ ~At(v, "own")'
  BY <1>1, <1>3, <1>4, <1>5 DEF Holding, At
<1>7. OwnerInv'
  BY <1>0, <1>6 DEF OwnerInv
<1> QED
  BY <1>2, <1>7 DEF NotesInv

(* The inode of a new note is later than every inode opened.                                            *)
LEMMA NewNote ==
  ASSUME NotesOK, NEW t \in Seq(Nat), note' = {[ino |-> inodes + 1, text |-> t]}, inodes' = inodes + 1
  PROVE  /\ note' \subseteq NoteRow /\ \A f, g \in note' : f = g
         /\ inodes' \in Nat /\ \A f \in note' : f.ino <= inodes'
         /\ \A w \in Writers : proc[w].ino <= inodes' /\ \A f \in note' : f.ino # proc[w].ino
<1>1. inodes + 1 \in Nat /\ inodes + 1 <= inodes + 1
  BY SMT DEF NotesOK
<1>2. \A w \in Writers : proc[w].ino \in Nat /\ proc[w].ino <= inodes
  BY DEF NotesOK, WriterRow
<1>3. \A w \in Writers : proc[w].ino <= inodes + 1 /\ inodes + 1 # proc[w].ino
  BY <1>2, SMT DEF NotesOK
<1> DEFINE r == [ino |-> inodes + 1, text |-> t]
<1>4. r \in NoteRow /\ r.ino = inodes + 1 /\ note' = {r}
  BY <1>1 DEF NoteRow
<1> HIDE DEF r
<1> QED
  BY <1>1, <1>3, <1>4

(* _atomic_create links a new inode, which no append has opened.                                        *)
LEMMA CreateStep ==
  ASSUME NotesInv, NEW w \in Writers, AtomicCreate(w)
  PROVE  NotesInv'
<1>0. /\ NotesOK /\ OwnerInv /\ ReliesInv /\ Holding(w) /\ Goes(w, "release")
      /\ UNCHANGED <<lock, tags, lapses>>
  BY DEF NotesInv, AtomicCreate, Holding, At
<1>1. CASE UNCHANGED <<note, inodes>>
  BY <1>0, <1>1, HolderGoes
<1>2. CASE note' = {[ino |-> inodes + 1, text |-> <<proc[w].tag>>]} /\ inodes' = inodes + 1
  <2> DEFINE x == [proc[w] EXCEPT !.pc = "release"]
  <2>0. proc[w] \in WriterRow
    BY <1>0 DEF NotesOK
  <2>1. Moves(w, x) /\ x.pc = "release" /\ x.ino = proc[w].ino
    BY <1>0, <2>0, RowGoes DEF WriterPcs, WriterRow
  <2> HIDE DEF x
  <2>2. /\ proc' \in [Writers -> WriterRow] /\ proc'[w] = x
        /\ \A v \in Writers : v # w => proc'[v] = proc[v]
    BY <1>0, <2>1, RowMoves
  <2>3. <<proc[w].tag>> \in Seq(Nat)
    <3>1. proc[w].tag \in Nat
      BY <1>0 DEF NotesOK, WriterRow
    <3> QED
      BY <3>1, SMT
  <2>4. /\ note' \subseteq NoteRow /\ \A f, g \in note' : f = g
        /\ inodes' \in Nat /\ \A f \in note' : f.ino <= inodes'
        /\ \A v \in Writers : proc[v].ino <= inodes' /\ \A f \in note' : f.ino # proc[v].ino
    BY <1>0, <1>2, <2>3, NewNote
  <2>5. NotesOK'
    BY <1>0, <2>1, <2>2, <2>4 DEF NotesOK, At
  <2>6. ReliesInv'
    BY <2>1, <2>2, <2>4 DEF ReliesInv, Relies
  <2>7. OwnerInv'
    BY <1>0, <2>1, HolderStays
  <2> QED
    BY <2>5, <2>6, <2>7 DEF NotesInv
<1> QED
  BY <1>1, <1>2 DEF AtomicCreate

(* The first comparison of _append changes nothing.                                                     *)
LEMMA CheckStep ==
  ASSUME NotesInv, NEW w \in Writers, AppendCheck(w) \/ Verify(w)
  PROVE  NotesInv'
<1>1. /\ Holding(w) /\ (Goes(w, "open") \/ Goes(w, "release"))
      /\ UNCHANGED <<note, lock, tags, inodes, lapses>>
  BY DEF AppendCheck, Verify, At, Holding
<1> QED
  BY <1>1, HolderGoes

(* An inode is opened with the text that was observed.                                                  *)
LEMMA OpenStep ==
  ASSUME NotesInv, NEW w \in Writers, Open(w)
  PROVE  NotesInv'
<1>0. /\ NotesOK /\ OwnerInv /\ ReliesInv /\ Holding(w) /\ proc[w] \in WriterRow
      /\ UNCHANGED <<note, lock, tags, inodes, lapses>>
  BY DEF NotesInv, NotesOK, Open, Holding, At
<1>1. CASE Goes(w, "release")
  BY <1>0, <1>1, HolderGoes
<1>2. ASSUME NEW f \in note, f.text = proc[w].seen,
             proc' = [proc EXCEPT ![w].pc = "write", ![w].ino = f.ino]
      PROVE  NotesInv'
  <2> DEFINE x == [proc[w] EXCEPT !.pc = "write", !.ino = f.ino]
  <2>1. f.ino \in Nat /\ f.ino <= inodes
    BY <1>0 DEF NotesOK, NoteRow
  <2>2. x \in WriterRow /\ x.pc = "write" /\ x.ino = f.ino /\ x.seen = proc[w].seen
    BY <1>0, <2>1 DEF WriterRow, WriterPcs
  <2>3. proc' = [proc EXCEPT ![w] = x]
    BY <1>0, <1>2 DEF NotesOK
  <2> HIDE DEF x
  <2>4. Moves(w, x)
    BY <1>0, <2>2, <2>3 DEF Moves
  <2>5. /\ proc' \in [Writers -> WriterRow] /\ proc'[w] = x
        /\ \A v \in Writers : v # w => proc'[v] = proc[v]
    BY <1>0, <2>4, RowMoves
  <2>6. NotesOK'
    BY <1>0, <2>1, <2>2, <2>5 DEF NotesOK, At
  <2>7. \A g \in note : g.text = x.seen
    BY <1>0, <1>2, <2>2 DEF NotesOK
  <2>8. ReliesInv'
    <3>1. Relies(x, note, lapses = {})
      BY <2>2, <2>7 DEF Relies
    <3> QED
      BY <1>0, <2>5, <3>1 DEF ReliesInv
  <2>9. OwnerInv'
    BY <1>0, <2>2, <2>4, HolderStays
  <2> QED
    BY <2>6, <2>8, <2>9 DEF NotesInv
<1> QED
  BY <1>1, <1>2 DEF Open, OpenNote

(* The tags of a text stay in it when it is appended to, and the new tag joins them.                    *)
LEMMA TagsStay ==
  ASSUME NEW t \in Seq(Nat), NEW a \in Nat
  PROVE  /\ a \in TagsOf(Append(t, a)) /\ TagsOf(t) \subseteq TagsOf(Append(t, a))
         /\ Append(t, a) \in Seq(Nat)
<1> DEFINE u == Append(t, a)
<1>1. Len(t) \in Nat
  BY LenProperties
<1>2. /\ u \in Seq(Nat) /\ Len(u) = Len(t) + 1 /\ u[Len(t) + 1] = a
      /\ \A i \in 1 .. Len(t) : u[i] = t[i]
  BY <1>1, SMT
<1>3. Len(t) + 1 \in 1 .. Len(u) /\ \A i \in 1 .. Len(t) : i \in 1 .. Len(u)
  BY <1>1, <1>2, SMT
<1> HIDE DEF u
<1>4. a \in TagsOf(u)
  BY <1>2, <1>3 DEF TagsOf
<1>5. TagsOf(t) \subseteq TagsOf(u)
  BY <1>2, <1>3 DEF TagsOf
<1> QED
  BY <1>2, <1>4, <1>5 DEF u

(* g is what the file f is after the writer at x has written.                                           *)
Follows(g, f, x) ==
  g.ino = f.ino /\ g.text = IF f.ino = x.ino THEN Append(f.text, x.tag) ELSE f.text

(* What _append_if_unchanged writes through the descriptor: the same inode, its text followed by the    *)
(* tag, if the inode is still at the path.                                                              *)
LEMMA WrittenNote ==
  ASSUME NotesOK, NEW w \in Writers
  PROVE  /\ \A f \in note : \E g \in Written(w) : Follows(g, f, proc[w])
         /\ \A g \in Written(w) : g \in NoteRow /\ \E f \in note : Follows(g, f, proc[w])
         /\ \A g, h \in Written(w) : g = h
<1> DEFINE W(f) == IF f.ino = proc[w].ino THEN [f EXCEPT !.text = Append(@, proc[w].tag)] ELSE f
<1>1. Written(w) = {W(f) : f \in note}
  BY DEF Written
<1>2. ASSUME NEW f \in note
      PROVE  W(f) \in NoteRow /\ Follows(W(f), f, proc[w])
  <2>1. f \in NoteRow /\ f.text \in Seq(Nat) /\ proc[w].tag \in Nat
    BY DEF NotesOK, NoteRow, WriterRow
  <2>2. Append(f.text, proc[w].tag) \in Seq(Nat)
    BY <2>1, TagsStay
  <2>3. CASE f.ino = proc[w].ino
    BY <2>1, <2>2, <2>3 DEF NoteRow, Follows
  <2>4. CASE f.ino # proc[w].ino
    BY <2>1, <2>4 DEF Follows
  <2> QED
    BY <2>3, <2>4
<1>3. \A f, g \in note : f = g
  BY DEF NotesOK
<1> HIDE DEF W
<1>4. \A f \in note : \E g \in Written(w) : Follows(g, f, proc[w])
  <2> TAKE f \in note
  <2>1. W(f) \in Written(w)
    BY <1>1
  <2> QED
    BY <1>2, <2>1
<1>5. ASSUME NEW g \in Written(w)
      PROVE  g \in NoteRow /\ \E f \in note : Follows(g, f, proc[w])
  <2>1. PICK f \in note : g = W(f)
    BY <1>1
  <2> QED
    BY <1>2, <2>1
<1>6. \A g, h \in Written(w) : g = h
  BY <1>1, <1>3
<1> QED
  BY <1>4, <1>5, <1>6

(* The write through the descriptor adds to the inode that was opened, and to no other.                 *)
LEMMA WriteStep ==
  ASSUME NoToken \notin Writers, NotesInv, NEW w \in Writers, Write(w)
  PROVE  NotesInv'
<1>0. /\ NotesOK /\ OwnerInv /\ ReliesInv /\ Holding(w) /\ proc[w] \in WriterRow /\ proc[w].pc = "write"
      /\ note' = Written(w) /\ Goes(w, "verify") /\ UNCHANGED <<lock, tags, inodes, lapses>>
  BY DEF NotesInv, NotesOK, Write, Holding, At
<1> DEFINE x == [proc[w] EXCEPT !.pc = "verify"]
<1>1. /\ Moves(w, x) /\ x.pc = "verify" /\ x.ino = proc[w].ino /\ x.tag = proc[w].tag
      /\ x.seen = proc[w].seen
  BY <1>0, RowGoes DEF WriterPcs, WriterRow
<1> HIDE DEF x
<1>2. /\ proc' \in [Writers -> WriterRow] /\ proc'[w] = x
      /\ \A v \in Writers : v # w => proc'[v] = proc[v]
  BY <1>0, <1>1, RowMoves
<1>3. /\ \A g \in note' : g \in NoteRow /\ \E f \in note : Follows(g, f, proc[w])
      /\ \A g, h \in note' : g = h
  <2>1. NotesOK /\ note' = Written(w)
    BY <1>0
  <2> QED
    BY <2>1, WrittenNote
<1>4. NotesOK'
  <2>1. \A g \in note' : g.ino <= inodes
    BY <1>0, <1>3 DEF NotesOK, Follows
  <2> QED
    BY <1>0, <1>1, <1>2, <1>3, <2>1 DEF NotesOK, At
<1>5. \A f \in note : f.text \in Seq(Nat)
  BY <1>0 DEF NotesOK, NoteRow
<1>6. proc[w].tag \in Nat
  BY <1>0 DEF WriterRow
<1>7. Relies(x, note', lapses = {})
  <2> SUFFICES ASSUME NEW g \in note', g.ino = x.ino
               PROVE  /\ x.tag \in TagsOf(g.text)
                      /\ lapses = {} => g.text = Append(x.seen, x.tag)
    BY <1>1 DEF Relies
  <2>0. PICK f \in note : Follows(g, f, proc[w])
    BY <1>3
  <2>1. f.ino = proc[w].ino /\ g.text = Append(f.text, proc[w].tag)
    BY <1>1, <2>0 DEF Follows
  <2>2. proc[w].tag \in TagsOf(g.text)
    BY <1>5, <1>6, <2>1, TagsStay
  <2>3. lapses = {} => f.text = proc[w].seen
    BY <1>0, <2>1 DEF ReliesInv, Relies
  <2> QED
    BY <1>1, <2>1, <2>2, <2>3
<1>8. ASSUME NEW v \in Writers, v # w PROVE Relies(proc[v], note', lapses = {})
  <2>1. Relies(proc[v], note, lapses = {})
    BY <1>0 DEF ReliesInv
  <2>2. proc[v].pc \in {"write", "verify"} => lapses # {}
    <3>1. proc[v].pc \in {"write", "verify"} => Holding(v)
      BY DEF Holding
    <3> QED
      BY <1>0, <1>8, <3>1, OneHolder
  <2>3. ASSUME proc[v].pc = "verify", NEW g \in note', g.ino = proc[v].ino
        PROVE  proc[v].tag \in TagsOf(g.text)
    <3>1. PICK f \in note : Follows(g, f, proc[w])
      BY <1>3
    <3>2. proc[v].tag \in TagsOf(f.text)
      BY <2>1, <2>3, <3>1 DEF Relies, Follows
    <3>3. CASE g.text = f.text
      BY <3>2, <3>3
    <3>4. CASE g.text = Append(f.text, proc[w].tag)
      BY <1>5, <1>6, <3>2, <3>4, TagsStay
    <3> QED
      BY <3>1, <3>3, <3>4 DEF Follows
  <2> QED
    BY <2>2, <2>3 DEF Relies
<1>9. ReliesInv'
  BY <1>0, <1>2, <1>7, <1>8 DEF ReliesInv
<1>10. OwnerInv'
  BY <1>0, <1>1, HolderStays
<1> QED
  BY <1>4, <1>9, <1>10 DEF NotesInv

-----------------------------------------------------------------------------
(* A change of the note by the editor, after which no writer finds the inode it opened.                 *)
LEMMA EditorStep ==
  ASSUME NotesInv, UNCHANGED <<lock, proc, lapses>>, tags' \in Nat,
         note' \subseteq NoteRow, \A f, g \in note' : f = g, inodes' \in Nat,
         \A f \in note' : f.ino <= inodes',
         \A w \in Writers : proc[w].ino <= inodes' /\ \A f \in note' : f.ino # proc[w].ino
  PROVE  NotesInv'
<1>1. NotesOK'
  BY DEF NotesInv, NotesOK, At
<1>2. ReliesInv'
  BY DEF NotesInv, ReliesInv, Relies
<1>3. OwnerInv'
  BY DEF NotesInv, OwnerInv, Holding, At
<1> QED
  BY <1>1, <1>2, <1>3 DEF NotesInv

(* The editor saves a new inode, which no append has opened.                                            *)
LEMMA SaveStep ==
  ASSUME NotesInv, EditorSaves PROVE NotesInv'
<1>0. NotesOK /\ tags + 1 \in Nat /\ tags' = tags + 1 /\ UNCHANGED <<lock, proc, lapses>>
  BY SMT DEF NotesInv, NotesOK, EditorSaves
<1>1. PICK t \in {<<>>} \cup {f.text : f \in note} :
        note' = {[ino |-> inodes + 1, text |-> Append(t, tags + 1)]} /\ inodes' = inodes + 1
  BY DEF EditorSaves
<1>2. t \in Seq(Nat)
  <2>1. <<>> \in Seq(Nat)
    BY EmptySeq
  <2> QED
    BY <1>0, <2>1 DEF NotesOK, NoteRow
<1>3. Append(t, tags + 1) \in Seq(Nat)
  BY <1>0, <1>2, TagsStay
<1>4. /\ note' \subseteq NoteRow /\ \A f, g \in note' : f = g
      /\ inodes' \in Nat /\ \A f \in note' : f.ino <= inodes'
      /\ \A w \in Writers : proc[w].ino <= inodes' /\ \A f \in note' : f.ino # proc[w].ino
  BY <1>0, <1>1, <1>3, NewNote
<1> QED
  BY <1>0, <1>4, EditorStep

(* Without a note there is nothing to rely on.                                                          *)
LEMMA DeleteStep ==
  ASSUME NotesInv, EditorDeletes PROVE NotesInv'
<1>1. /\ note' = {} /\ UNCHANGED <<lock, proc, tags, inodes, lapses>> /\ tags \in Nat /\ inodes \in Nat
      /\ \A w \in Writers : proc[w].ino <= inodes
  BY DEF NotesInv, NotesOK, EditorDeletes
<1> QED
  BY <1>1, EditorStep

(* A lock that expires under its holder is a lapse; another one nobody relies on.                       *)
LEMMA ExpiryStep ==
  ASSUME NoToken \notin Writers, NotesInv, LockExpires PROVE NotesInv'
<1>0. /\ NotesOK /\ OwnerInv /\ ReliesInv /\ lock \in LockOf(Writers)
      /\ UNCHANGED <<note, proc, tags, inodes>> /\ lock' = Expired(lock)
  BY DEF NotesInv, NotesOK, LockExpires
<1>1. PICK r \in lock : /\ r.by # NoToken /\ r.fresh
                        /\ IF Holding(r.by) THEN lapses' = lapses \cup {"outlived"} ELSE UNCHANGED lapses
  BY DEF LockExpires
<1>2. lapses' = {} => lapses = {}
  BY <1>1
<1>3. NotesOK'
  <2>1. r.by \in Writers
    BY <1>0, <1>1 DEF LockOf, Free
  <2>2. lock' \in LockOf(Writers)
    BY <1>0, <2>1, LockWritten
  <2> QED
    BY <1>0, <2>2 DEF NotesOK, At
<1>4. ReliesInv'
  BY <1>0, <1>2 DEF ReliesInv, Relies
<1>5. ASSUME lapses' = {} PROVE \A v \in Writers : ~Holding(v) /\ ~At(v, "own")
  <2>1. lapses = {} /\ ~Holding(r.by)
    BY <1>1, <1>5
  <2>2. ASSUME NEW v \in Writers, Holding(v) PROVE FALSE
    <3>1. lock = {[by |-> v, fresh |-> TRUE]}
      BY <1>0, <2>1, <2>2 DEF OwnerInv
    <3>2. r = [by |-> v, fresh |-> TRUE]
      BY <3>1
    <3>3. r.by = v
      BY <3>2
    <3> QED
      BY <2>1, <2>2, <3>3
  <2>3. ASSUME NEW v \in Writers, At(v, "own") PROVE FALSE
    <3>1. lock = {[by |-> NoToken, fresh |-> TRUE]}
      BY <1>0, <2>1, <2>3 DEF OwnerInv, Mkdir
    <3>2. r = [by |-> NoToken, fresh |-> TRUE]
      BY <3>1
    <3>3. r.by = NoToken
      BY <3>2
    <3> QED
      BY <1>1, <3>3
  <2> QED
    BY <2>2, <2>3
<1>6. OwnerInv'
  BY <1>0, <1>5 DEF OwnerInv, Holding, At
<1> QED
  BY <1>3, <1>4, <1>6 DEF NotesInv

-----------------------------------------------------------------------------
(* The invariant holds before anything is written,                                                      *)
LEMMA NotesInit == ASSUME Init PROVE NotesInv
<1>1. 0 \in Nat /\ 0 <= 0 /\ <<>> \in Seq(Nat)
  BY SMT
<1>2. Idle \in WriterRow /\ Idle.pc = "idle" /\ Idle.ino = 0
  BY <1>1 DEF Idle, WriterRow, WriterPcs, LockOf
<1>3. proc \in [Writers -> WriterRow] /\ \A w \in Writers : proc[w] = Idle
  BY <1>2 DEF Init
<1>4. NotesOK
  BY <1>1, <1>2, <1>3 DEF Init, NotesOK, LockOf, At
<1>5. OwnerInv
  BY <1>2, <1>3 DEF OwnerInv, Holding, At
<1>6. ReliesInv
  BY <1>2, <1>3 DEF ReliesInv, Relies
<1> QED
  BY <1>4, <1>5, <1>6 DEF NotesInv

(* and every step preserves it.                                                                         *)
LEMMA NotesNext ==
  ASSUME NoToken \notin Writers, NotesInv, [Next]_vars PROVE NotesInv'
<1>1. ASSUME NEW w \in Writers, Friday(w) PROVE NotesInv'
  BY <1>1, ProposeStep, AcquireStep, RemoveStep, OwnerStep, CreateStep, CheckStep, OpenStep, WriteStep,
     ReleaseStep, UnlockStep DEF Friday
<1>2. ASSUME NEW w \in Writers, Crash(w) PROVE NotesInv'
  BY <1>2, WriterEnds DEF Crash
<1>3. CASE EditorSaves \/ EditorDeletes \/ LockExpires
  BY <1>3, SaveStep, DeleteStep, ExpiryStep
<1>4. CASE UNCHANGED vars
  BY <1>4 DEF vars, NotesInv, NotesOK, OwnerInv, ReliesInv, Holding, At
<1> QED
  BY <1>1, <1>2, <1>3, <1>4 DEF Next

(* A text is a prefix of itself and of what it is after an append.                                      *)
LEMMA AppendIsPrefix ==
  ASSUME NEW t \in Seq(Nat), NEW a \in Nat
  PROVE  t = SubSeq(t, 1, Len(t)) /\ t = SubSeq(Append(t, a), 1, Len(t))
<1> DEFINE u == Append(t, a)
<1>1. Len(t) \in Nat
  BY LenProperties
<1>2. u \in Seq(Nat) /\ Len(u) = Len(t) + 1 /\ \A i \in 1 .. Len(t) : u[i] = t[i]
  BY <1>1, SMT
<1>3. 0 \in Int /\ 1 \in Int /\ Len(t) \in Int /\ Len(t) <= Len(t) /\ Len(t) <= Len(u)
  BY <1>1, <1>2, SMT
<1> HIDE DEF u
<1>4. t \in [1 .. Len(t) -> Nat]
  BY LenProperties
<1>5. SubSeq(t, 1, Len(t)) = t
  BY SubSeqFull
<1>6. SubSeq(u, 1, Len(t)) = t
  BY <1>1, <1>2, <1>4, SMT
<1> QED
  BY <1>3, <1>5, <1>6 DEF u

(* Only the writer itself goes from the descriptor's write to the comparison of inodes.                 *)
LEMMA OnlyWriteWrites ==
  ASSUME NotesInv, Next, NEW w \in Writers, At(w, "write"), proc'[w].pc = "verify"
  PROVE  Write(w)
<1>0. proc \in [Writers -> WriterRow] /\ proc[w].pc = "write"
  BY DEF NotesInv, NotesOK, At
<1>1. ASSUME UNCHANGED proc PROVE FALSE
  BY <1>0, <1>1
<1>2. ASSUME NEW v \in Writers, NEW x, proc' = [proc EXCEPT ![v] = x], v # w PROVE FALSE
  BY <1>0, <1>2
<1>3. ASSUME NEW v \in Writers, v # w, Friday(v) \/ Crash(v) PROVE FALSE
  <2>1. \E x : proc' = [proc EXCEPT ![v] = x]
    BY <1>3 DEF Friday, Crash, Propose, AcquireLock, RemoveStale, WriteOwner, AtomicCreate, AppendCheck,
       Open,
                OpenNote, Write, Verify, ReleaseCheck, ReleaseLock, Goes, Ends
  <2> QED
    BY <1>2, <1>3, <2>1
<1>4. ASSUME Crash(w) PROVE FALSE
  <2>1. proc'[w] = Idle
    BY <1>0, <1>4 DEF Crash, Ends
  <2>2. Idle.pc = "idle"
    BY DEF Idle
  <2> QED
    BY <2>1, <2>2
<1>5. Friday(w) => Write(w)
  BY <1>0 DEF Friday, Propose, AcquireLock, RemoveStale, WriteOwner, AtomicCreate, AppendCheck, Open,
     Verify,
              ReleaseCheck, ReleaseLock, At
<1>6. ~EditorSaves /\ ~EditorDeletes /\ ~LockExpires
  BY <1>1 DEF EditorSaves, EditorDeletes, LockExpires
<1> QED
  BY <1>3, <1>4, <1>5, <1>6 DEF Next

(* For any number of writers, tags and faults: the write of an append leaves everything that was in the *)
(* note in front of it, whatever the editor saves in between, and an append that is reported a success  *)
(* is in the note at the path, directly after the text that was observed while no lock has been lost    *)
(* (ObsidianVaultStore._append_if_unchanged).                                                           *)
THEOREM AppendsKeepWhatIsThere == ASSUME NoToken \notin Writers PROVE Spec => AppendsKeepText
<1>1. Init => NotesInv
  BY NotesInit
<1>2. NotesInv /\ [Next]_vars => NotesInv'
  BY NotesNext
<1> DEFINE Keeps ==
      \A w \in Writers :
         /\ At(w, "write") /\ proc'[w].pc = "verify" =>
              \A f \in note : \E g \in note' : g.ino = f.ino /\ f.text = SubSeq(g.text, 1, Len(f.text))
         /\ Succeeds(w) /\ proc'[w].pc = "release" =>
              \E f \in note : /\ proc[w].tag \in {f.text[i] : i \in 1..Len(f.text)}
                              /\ lapses = {} => f.text = Append(proc[w].seen, proc[w].tag)
<1>3. NotesInv /\ [Next]_vars => [Keeps]_vars
  <2> SUFFICES ASSUME NotesInv, Next, NEW w \in Writers
               PROVE  /\ At(w, "write") /\ proc'[w].pc = "verify" =>
                           \A f \in note : \E g \in note' : g.ino = f.ino /\ f.text = SubSeq(g.text, 1,
                             Len(f.text))
                      /\ Succeeds(w) => \E f \in note :
                           /\ proc[w].tag \in {f.text[i] : i \in 1..Len(f.text)}
                           /\ lapses = {} => f.text = Append(proc[w].seen, proc[w].tag)
    OBVIOUS
  <2>1. ASSUME At(w, "write"), proc'[w].pc = "verify", NEW f \in note
        PROVE  \E g \in note' : g.ino = f.ino /\ f.text = SubSeq(g.text, 1, Len(f.text))
    <3>1. Write(w)
      BY <2>1, OnlyWriteWrites
    <3>2. PICK g \in note' : Follows(g, f, proc[w])
      BY <3>1, WrittenNote DEF Write, NotesInv
    <3>3. f.text \in Seq(Nat) /\ proc[w].tag \in Nat
      BY DEF NotesInv, NotesOK, NoteRow, WriterRow
    <3>4. f.text = SubSeq(g.text, 1, Len(f.text))
      BY <3>2, <3>3, AppendIsPrefix DEF Follows
    <3> QED
      BY <3>2, <3>4 DEF Follows
  <2>2. ASSUME Succeeds(w)
        PROVE  \E f \in note : /\ proc[w].tag \in {f.text[i] : i \in 1..Len(f.text)}
                               /\ lapses = {} => f.text = Append(proc[w].seen, proc[w].tag)
    BY <2>2 DEF Succeeds, At, NotesInv, ReliesInv, Relies, TagsOf
  <2> QED
    BY <2>1, <2>2
<1>4. [][Keeps]_vars => AppendsKeepText
  BY PTL DEF AppendsKeepText
<1> QED
  BY <1>1, <1>2, <1>3, <1>4, PTL DEF Spec

-----------------------------------------------------------------------------
(* The index of the vault. *)

(* What the constants are assumed to be: there are inodes for the three directories and for the three   *)
(* that each retrieval remembers.                                                                       *)
IndexBounds ==
  /\ MaxVault \in Nat \ {0} /\ MaxIndexFaults \in Nat /\ Index!NoToken \notin Builders
  /\ IsFiniteSet(Readers)
  /\ IsFiniteSet(Inodes) => Cardinality(Inodes) > 3 + 3 * Cardinality(Readers)

(* Tries are counted before they are used up. *)
TriesInv ==
  /\ \A b \in Builders : Index!At(b, "remove") => builder[b].tries < 2 /\ Index!IsStale(builder[b].saw)
  /\ \A r \in Readers : ~Index!ReaderAt(r, "got") /\ ~Index!ReaderAt(r, "idle") => reader[r].tries < 2

(* Until the lock is lost, a builder past WriteOwner owns it and a builder before it made it.           *)
LockInv ==
  indexLapses = {} =>
    /\ \A b \in Builders : Index!Holding(b) => indexLock = {[by |-> b, fresh |-> TRUE]}
    /\ \A b \in Builders : Index!At(b, "own") => indexLock = Index!Mkdir
    /\ \A b, c \in Builders : Index!At(b, "own") /\ Index!At(c, "own") => b = c

(* Until the lock is lost, no directory is labelled with a later version than its graph is of: the      *)
(* request read the hash before the corpus was copied.                                                  *)
DataInv ==
  /\ corpus <= vault
  /\ \A b \in Builders : builder[b].src <= vault
  /\ \A d \in staging \cup active : d.graph <= vault
  /\ indexLapses = {} =>
       /\ \A d \in staging \cup active : d.label <= d.graph
       /\ \A b \in Builders :
            /\ builder[b].pc \in {"stage", "extract", "metadata"} => \A d \in staging : d.label = 0
            /\ Index!At(b, "extract") => builder[b].src <= corpus
            /\ Index!At(b, "metadata") => \A d \in staging : builder[b].src <= d.graph

(* A retrieval that has looked at the inode either finds it still, and has read nothing else, or will   *)
(* not find it again: a directory that was replaced never comes back.                                   *)
ReaderInv ==
  /\ \A d \in staging, e \in active : d.ino # e.ino
  /\ \A r \in Readers :
       /\ reader[r].pc \in {"metadata", "graph", "after"} =>
            \/ /\ \E d \in active : d.ino = reader[r].before
               /\ reader[r].pc \in {"graph", "after"} => reader[r].from = reader[r].before
               /\ Index!ReaderAt(r, "after") => reader[r].of = reader[r].before
            \/ \A d \in staging \cup active : d.ino # reader[r].before
       /\ Index!ReaderAt(r, "got") => reader[r].from = reader[r].of

IndexInv == Index!TypeOK /\ TriesInv /\ LockInv /\ DataInv /\ ReaderInv

-----------------------------------------------------------------------------
(* What is read of a finite set is finite, and no more.                                                 *)
LEMMA ImageIsSmall ==
  ASSUME NEW S, IsFiniteSet(S), NEW f
  PROVE  IsFiniteSet({f[x] : x \in S}) /\ Cardinality({f[x] : x \in S}) <= Cardinality(S)
<1> DEFINE T == {f[x] : x \in S}
           g == [x \in S |-> f[x]]
<1>1. g \in Surjection(S, T)
  BY DEF Surjection
<1> QED
  BY <1>1, FS_Surjection

(* A directory is at most one record.                                                                   *)
LEMMA DirectoryIsSmall ==
  ASSUME NEW S \in Index!Directories
  PROVE  IsFiniteSet({d.ino : d \in S}) /\ Cardinality({d.ino : d \in S}) <= 1
<1>1. CASE S = {}
  <2>1. {d.ino : d \in S} = {}
    BY <1>1
  <2> QED
    BY <2>1, FS_EmptySet, SMT
<1>2. ASSUME NEW e \in Index!Directory, S = {e}
      PROVE  IsFiniteSet({d.ino : d \in S}) /\ Cardinality({d.ino : d \in S}) <= 1
  <2>1. {d.ino : d \in S} = {e.ino}
    BY <1>2
  <2>2. IsFiniteSet({e.ino}) /\ Cardinality({e.ino}) = 1
    BY FS_Singleton
  <2> QED
    BY <2>1, <2>2, SMT
<1> QED
  BY <1>1, <1>2 DEF Index!Directories

(* The union of two sets has at most the elements of both.                                              *)
LEMMA UnionIsSmall ==
  ASSUME NEW S, IsFiniteSet(S), NEW T, IsFiniteSet(T), NEW m \in Nat, NEW n \in Nat,
         Cardinality(S) <= m, Cardinality(T) <= n
  PROVE  IsFiniteSet(S \cup T) /\ Cardinality(S \cup T) <= m + n
<1>1. IsFiniteSet(S \cap T)
  BY FS_Intersection
<1>2. Cardinality(S) \in Nat /\ Cardinality(T) \in Nat /\ Cardinality(S \cap T) \in Nat
  BY <1>1, FS_CardinalityType
<1> QED
  BY <1>2, FS_Union, SMT

(* mkdir of the staging directory finds an inode that is not in use.                                    *)
LEMMA InodeIsFree ==
  ASSUME IndexBounds, Index!TypeOK
  PROVE  (CHOOSE i \in Inodes \ Index!InUse : TRUE) \in Inodes \ Index!InUse
<1> DEFINE Of(S) == {d.ino : d \in S}
           D == Of(staging) \cup Of(active) \cup Of(previous)
           n == Cardinality(Readers)
           before == [r \in Readers |-> reader[r].before]
           from == [r \in Readers |-> reader[r].from]
           of == [r \in Readers |-> reader[r].of]
           B == {before[r] : r \in Readers}
           F == {from[r] : r \in Readers}
           O == {of[r] : r \in Readers}
<1>1. IsFiniteSet(D) /\ Cardinality(D) <= 3
  <2>1. \A S \in Index!Directories : IsFiniteSet(Of(S)) /\ Cardinality(Of(S)) <= 1
    BY DirectoryIsSmall
  <2> HIDE DEF Of
  <2>2. IsFiniteSet(Of(staging) \cup Of(active)) /\ Cardinality(Of(staging) \cup Of(active)) <= 1 + 1
    BY <2>1, UnionIsSmall, 1 \in Nat DEF Index!TypeOK
  <2>3. Cardinality(Of(staging) \cup Of(active)) <= 2
    BY <2>2, SMT
  <2>4. IsFiniteSet(D) /\ Cardinality(D) <= 2 + 1
    BY <2>1, <2>2, <2>3, UnionIsSmall, 1 \in Nat, 2 \in Nat DEF Index!TypeOK
  <2> QED
    BY <2>4, SMT
<1>2. n \in Nat
  BY FS_CardinalityType DEF IndexBounds
<1>3. /\ IsFiniteSet(B) /\ Cardinality(B) <= n
      /\ IsFiniteSet(F) /\ Cardinality(F) <= n
      /\ IsFiniteSet(O) /\ Cardinality(O) <= n
  <2> HIDE DEF before, from, of
  <2> QED
    BY ImageIsSmall DEF IndexBounds
<1>4. Index!InUse = D \cup B \cup F \cup O
  BY SMT DEF Index!InUse
<1>5. IsFiniteSet(Index!InUse) /\ Cardinality(Index!InUse) <= 3 + 3 * n
  <2> HIDE DEF D, B, F, O, n
  <2>1. IsFiniteSet(D \cup B) /\ Cardinality(D \cup B) <= 3 + n
    BY <1>1, <1>2, <1>3, UnionIsSmall
  <2>0. 3 \in Nat /\ 3 + n \in Nat /\ (3 + n) + n \in Nat
    BY <1>2, SMT
  <2>2. IsFiniteSet(D \cup B \cup F) /\ Cardinality(D \cup B \cup F) <= (3 + n) + n
    BY <2>0, <2>1, <1>2, <1>3, UnionIsSmall
  <2>3. IsFiniteSet(D \cup B \cup F \cup O) /\ Cardinality(D \cup B \cup F \cup O) <= ((3 + n) + n) + n
    BY <2>0, <2>2, <1>2, <1>3, UnionIsSmall
  <2> QED
    BY <2>3, <1>2, <1>4, SMT
<1>6. ~(Inodes \subseteq Index!InUse)
  <2> SUFFICES ASSUME Inodes \subseteq Index!InUse PROVE FALSE
    OBVIOUS
  <2>1. IsFiniteSet(Inodes) /\ Cardinality(Inodes) <= Cardinality(Index!InUse)
    BY <1>5, FS_Subset
  <2>2. Cardinality(Inodes) \in Nat /\ Cardinality(Index!InUse) \in Nat
    BY <2>1, <1>5, FS_CardinalityType
  <2>3. Cardinality(Inodes) > 3 + 3 * n
    BY <2>1 DEF IndexBounds
  <2> QED
    BY <1>2, <1>5, <2>1, <2>2, <2>3, SMT
<1>7. PICK i \in Inodes : i \notin Index!InUse
  BY <1>6
<1> HIDE DEF D, B, F, O
<1> QED
  BY <1>7

-----------------------------------------------------------------------------
(* Writing one file of a directory leaves it a directory.                                               *)
LEMMA DirectoryWritten ==
  ASSUME NEW S \in Index!Directories, NEW v \in 0 .. MaxVault
  PROVE  /\ {[d EXCEPT !.graph = v] : d \in S} \in Index!Directories
         /\ {[d EXCEPT !.label = v] : d \in S} \in Index!Directories
<1>1. CASE S = {}
  BY <1>1 DEF Index!Directories
<1>2. ASSUME NEW e \in Index!Directory, S = {e}
      PROVE  /\ {[d EXCEPT !.graph = v] : d \in S} \in Index!Directories
             /\ {[d EXCEPT !.label = v] : d \in S} \in Index!Directories
  <2>1. /\ {[d EXCEPT !.graph = v] : d \in S} = {[e EXCEPT !.graph = v]}
        /\ {[d EXCEPT !.label = v] : d \in S} = {[e EXCEPT !.label = v]}
    BY <1>2
  <2>2. [e EXCEPT !.graph = v] \in Index!Directory /\ [e EXCEPT !.label = v] \in Index!Directory
    BY DEF Index!Directory
  <2> QED
    BY <2>1, <2>2 DEF Index!Directories
<1> QED
  BY <1>1, <1>2 DEF Index!Directories

(* The calls on the lock leave it a lock.                                                               *)
LEMMA IndexLockWritten ==
  ASSUME NEW l \in Index!LockOf(Builders), NEW b \in Builders
  PROVE  /\ Index!Free \in Index!LockOf(Builders) /\ Index!Mkdir \in Index!LockOf(Builders)
         /\ Index!WithOwner(l, b) \in Index!LockOf(Builders) /\ Index!Expired(l) \in Index!LockOf(Builders)
<1>1. Index!Free \in Index!LockOf(Builders) /\ Index!Mkdir \in Index!LockOf(Builders)
  BY DEF Index!LockOf, Index!Mkdir, Index!Free
<1>2. CASE l = {}
  BY <1>1, <1>2 DEF Index!WithOwner, Index!Expired, Index!Free
<1>3. ASSUME NEW r \in [by : Builders \cup {Index!NoToken}, fresh : BOOLEAN], l = {r}
      PROVE  Index!WithOwner(l, b) \in Index!LockOf(Builders) /\ Index!Expired(l) \in Index!LockOf(Builders)
  <2>1. Index!WithOwner(l, b) = {[by |-> b, fresh |-> TRUE]}
          /\ Index!Expired(l) = {[r EXCEPT !.fresh = FALSE]}
    BY <1>3 DEF Index!WithOwner, Index!Expired
  <2>2. [r EXCEPT !.fresh = FALSE] \in [by : Builders \cup {Index!NoToken}, fresh : BOOLEAN]
    OBVIOUS
  <2>3. [by |-> b, fresh |-> TRUE] \in [by : Builders \cup {Index!NoToken}, fresh : BOOLEAN]
    OBVIOUS
  <2> QED
    BY <2>1, <2>2, <2>3 DEF Index!LockOf
<1> QED
  BY <1>1, <1>2, <1>3 DEF Index!LockOf, Index!Free

-----------------------------------------------------------------------------
(* Types and tries *)

BuilderRow ==
  [pc : {"idle", "hash", "lock", "remove", "own", "clear", "stage", "extract", "metadata", "drop", "retire",
         "promote", "clean", "release", "rmtree"},
   src : 0 .. MaxVault, tries : 0 .. 2, saw : Index!LockOf(Builders)]

ReaderRow ==
  [pc : {"idle", "metadata", "graph", "after", "got"}, tries : 0 .. 2, before : Inodes \cup {0},
   label : 0 .. MaxVault, from : Inodes \cup {0}, graph : 0 .. MaxVault, of : Inodes \cup {0}]

(* The step of one builder leaves the rows of the others alone.                                         *)
LEMMA BuilderSteps ==
  ASSUME builder \in [Builders -> BuilderRow], NEW b \in Builders, NEW x \in BuilderRow,
         builder' = [builder EXCEPT ![b] = x]
  PROVE  /\ builder' \in [Builders -> BuilderRow] /\ builder'[b] = x
         /\ \A c \in Builders : c # b => builder'[c] = builder[c]
OBVIOUS

(* The step of one retrieval leaves the rows of the others alone.                                       *)
LEMMA ReaderSteps ==
  ASSUME reader \in [Readers -> ReaderRow], NEW r \in Readers, NEW x \in ReaderRow, Index!Reads(r, x)
  PROVE  /\ reader' \in [Readers -> ReaderRow] /\ reader'[r] = x
         /\ \A q \in Readers : q # r => reader'[q] = reader[q]
BY DEF Index!Reads

(* A builder that goes to another step, or ends.                                                        *)
LEMMA BuilderGoes ==
  ASSUME IndexBounds, Index!TypeOK, NEW b \in Builders,
         NEW p \in {"idle", "hash", "lock", "remove", "own", "clear", "stage", "extract", "metadata",
                    "drop", "retire", "promote", "clean", "release", "rmtree"},
         Index!Goes(b, p)
  PROVE  /\ builder' \in [Builders -> BuilderRow] /\ builder'[b] = [builder[b] EXCEPT !.pc = p]
         /\ \A c \in Builders : c # b => builder'[c] = builder[c]
<1>1. builder \in [Builders -> BuilderRow]
  BY DEF Index!TypeOK, BuilderRow
<1>2. [builder[b] EXCEPT !.pc = p] \in BuilderRow
  BY <1>1 DEF BuilderRow
<1>3. builder' = [builder EXCEPT ![b] = [builder[b] EXCEPT !.pc = p]]
  BY <1>1 DEF Index!Goes
<1> QED
  BY <1>1, <1>2, <1>3, BuilderSteps

(* A builder that ends is at rest, and the others stay where they are.                                  *)
LEMMA BuilderEnds ==
  ASSUME IndexBounds, Index!TypeOK, NEW b \in Builders, Index!Ends(b)
  PROVE  /\ builder' \in [Builders -> BuilderRow] /\ builder'[b] = Index!Resting
         /\ \A c \in Builders : c # b => builder'[c] = builder[c]
<1>1. builder \in [Builders -> BuilderRow]
  BY DEF Index!TypeOK, BuilderRow
<1>2. Index!Resting \in BuilderRow
  BY SMT DEF Index!Resting, BuilderRow, Index!LockOf, IndexBounds
<1> QED
  BY <1>1, <1>2, BuilderSteps DEF Index!Ends

(* The types again, with the rows by name.                                                              *)
LEMMA TypesSplit ==
  ASSUME Index!TypeOK
  PROVE  builder \in [Builders -> BuilderRow] /\ reader \in [Readers -> ReaderRow]
BY DEF Index!TypeOK, BuilderRow, ReaderRow

(* Types by row make up the types of the module.                                                        *)
LEMMA TypesJoin ==
  ASSUME (vault \in Index!Versions)', (corpus \in 0..MaxVault)', (indexLock \in Index!LockOf(Builders))',
         (staging \in Index!Directories)', (active \in Index!Directories)',
           (previous \in Index!Directories)',
         builder' \in [Builders -> BuilderRow], reader' \in [Readers -> ReaderRow],
         (indexFaults \in 0..MaxIndexFaults)', (indexLapses \in SUBSET {"outlived", "snatched"})'
  PROVE  Index!TypeOK'
BY DEF Index!TypeOK, BuilderRow, ReaderRow

(* owner.json names one owner.                                                                          *)
LEMMA IndexOneOwner ==
  ASSUME NEW x, NEW y, {[by |-> x, fresh |-> TRUE]} = {[by |-> y, fresh |-> TRUE]}
  PROVE  x = y
<1>1. [by |-> x, fresh |-> TRUE] = [by |-> y, fresh |-> TRUE]
  OBVIOUS
<1>2. [by |-> x, fresh |-> TRUE].by = x /\ [by |-> y, fresh |-> TRUE].by = y
  OBVIOUS
<1> QED
  BY <1>1, <1>2

-----------------------------------------------------------------------------
(* The steps of a builder that leave the files alone *)

(* A builder moved to the row x, and nothing but the lock, the faults and the lapses changed with it.   *)
IndexMoves(b, x) ==
  /\ builder'[b] = x /\ x \in BuilderRow /\ builder' \in [Builders -> BuilderRow]
  /\ \A c \in Builders : c # b => builder'[c] = builder[c]
  /\ UNCHANGED <<Index!files, reader>> /\ indexLapses \subseteq indexLapses'
  /\ indexLock' \in Index!LockOf(Builders) /\ indexFaults' \in 0 .. MaxIndexFaults
  /\ indexLapses' \in SUBSET {"outlived", "snatched"}

(* A builder that only moves keeps everything but, perhaps, what is said of the lock.                   *)
LEMMA IndexQuietMove ==
  ASSUME IndexBounds, IndexInv, NEW b \in Builders, NEW x \in BuilderRow, IndexMoves(b, x), x.src <= vault,
         x.pc \notin {"stage", "extract", "metadata"}, x.pc = "remove" => x.tries < 2
           /\ Index!IsStale(x.saw)
  PROVE  Index!TypeOK' /\ TriesInv' /\ DataInv' /\ ReaderInv'
<1> USE DEF IndexInv
<1>1. Index!TypeOK'
  BY TypesSplit, TypesJoin DEF IndexMoves, Index!TypeOK, Index!files
<1>2. TriesInv'
  BY DEF TriesInv, IndexMoves, Index!At, Index!ReaderAt
<1>3. DataInv'
  BY DEF DataInv, IndexMoves, Index!files, Index!At
<1>4. ReaderInv'
  BY DEF ReaderInv, IndexMoves, Index!files, Index!ReaderAt
<1> QED
  BY <1>1, <1>2, <1>3, <1>4

(* A builder that neither holds the lock nor has made it, before and after.                             *)
LEMMA LockAlone ==
  ASSUME IndexBounds, IndexInv, NEW b \in Builders, NEW x \in BuilderRow, IndexMoves(b, x),
         UNCHANGED indexLock,
         x.pc \in {"idle", "hash", "lock", "remove"}
  PROVE  LockInv'
BY DEF IndexInv, LockInv, IndexMoves, Index!Holding, Index!At

(* RefreshMemoryIndexIfStale: the index is found stale and a build begins.                              *)
LEMMA RefreshStep ==
  ASSUME IndexBounds, IndexInv, NEW b \in Builders, Index!RefreshIfStale(b)
  PROVE  IndexInv'
<1> DEFINE x == [builder[b] EXCEPT !.pc = "hash"]
<1>1. x \in BuilderRow /\ x.pc = "hash" /\ x.src <= vault
  BY TypesSplit DEF IndexInv, DataInv, BuilderRow
<1>2. IndexMoves(b, x)
  BY <1>1, BuilderGoes DEF Index!RefreshIfStale, IndexMoves, IndexInv, Index!TypeOK
<1> HIDE DEF x
<1>3. Index!TypeOK' /\ TriesInv' /\ DataInv' /\ ReaderInv'
  BY <1>1, <1>2, IndexQuietMove
<1>4. LockInv'
  BY <1>1, <1>2, LockAlone DEF Index!RefreshIfStale
<1> QED
  BY <1>3, <1>4 DEF IndexInv

(* The source hash is read before anything is copied.                                                   *)
LEMMA HashStep ==
  ASSUME IndexBounds, IndexInv, NEW b \in Builders, Index!ReadSourceHash(b)
  PROVE  IndexInv'
<1> DEFINE x == [builder[b] EXCEPT !.pc = "lock", !.src = vault]
<1>0. builder[b] \in BuilderRow /\ vault \in 0 .. MaxVault
  BY TypesSplit, SMT DEF IndexInv, Index!TypeOK, Index!Versions, IndexBounds
<1>1. x \in BuilderRow /\ x.pc = "lock" /\ x.src = vault
  BY <1>0 DEF BuilderRow
<1>2. builder' = [builder EXCEPT ![b] = x]
  BY TypesSplit DEF Index!ReadSourceHash, IndexInv
<1> HIDE DEF x
<1>3. IndexMoves(b, x)
  BY <1>1, <1>2, BuilderSteps, TypesSplit DEF Index!ReadSourceHash, IndexMoves, IndexInv, Index!TypeOK
<1>4. x.src <= vault
  BY <1>0, <1>1, SMT
<1>5. Index!TypeOK' /\ TriesInv' /\ DataInv' /\ ReaderInv'
  BY <1>1, <1>3, <1>4, IndexQuietMove
<1>6. LockInv'
  BY <1>1, <1>3, LockAlone DEF Index!ReadSourceHash
<1> QED
  BY <1>5, <1>6 DEF IndexInv

(* A builder that ends, whatever became of the lock.                                                    *)
LEMMA EndingMoves ==
  ASSUME IndexBounds, IndexInv, NEW b \in Builders, Index!Ends(b), UNCHANGED <<Index!files, reader>>,
         indexLapses \subseteq indexLapses', indexLock' \in Index!LockOf(Builders),
           indexFaults' \in 0 .. MaxIndexFaults,
         indexLapses' \in SUBSET {"outlived", "snatched"}
  PROVE  /\ IndexMoves(b, Index!Resting) /\ Index!Resting \in BuilderRow
         /\ Index!TypeOK' /\ TriesInv' /\ DataInv' /\ ReaderInv'
<1>1. IndexMoves(b, Index!Resting) /\ Index!Resting \in BuilderRow
  BY BuilderEnds DEF IndexMoves, IndexInv
<1>2. Index!Resting.pc = "idle" /\ Index!Resting.src <= vault
  BY SMT DEF Index!Resting, IndexInv, Index!TypeOK, Index!Versions, IndexBounds
<1> QED
  BY <1>1, <1>2, IndexQuietMove

(* acquire: the directory is made, found stale, or found fresh.                                         *)
LEMMA IndexAcquireStep ==
  ASSUME IndexBounds, IndexInv, NEW b \in Builders, Index!AcquireLock(b)
  PROVE  IndexInv'
<1>0. /\ builder[b] \in BuilderRow /\ builder[b].src <= vault /\ indexLock \in Index!LockOf(Builders)
      /\ indexFaults \in 0 .. MaxIndexFaults /\ indexLapses \in SUBSET {"outlived", "snatched"}
  BY TypesSplit DEF IndexInv, Index!TypeOK, DataInv
<1>1. CASE indexLock = Index!Free /\ indexLock' = Index!Mkdir /\ Index!Goes(b, "own")
  <2> DEFINE x == [builder[b] EXCEPT !.pc = "own"]
  <2>1. x \in BuilderRow /\ x.pc = "own" /\ x.src <= vault
    BY <1>0 DEF BuilderRow
  <2>2. IndexMoves(b, x)
    BY <1>0, <1>1, BuilderGoes, IndexLockWritten, <2>1 DEF Index!AcquireLock, IndexMoves, IndexInv
  <2> HIDE DEF x
  <2>3. Index!TypeOK' /\ TriesInv' /\ DataInv' /\ ReaderInv'
    BY <2>1, <2>2, IndexQuietMove
  <2>4. LockInv'
    <3>1. indexLapses' = indexLapses
      BY DEF Index!AcquireLock
    <3>2. indexLapses = {} => \A c \in Builders : ~Index!Holding(c) /\ ~Index!At(c, "own")
      BY <1>1 DEF IndexInv, LockInv, Index!Free, Index!Mkdir
    <3> QED
      BY <3>1, <3>2, <1>1, <2>1, <2>2 DEF LockInv, IndexMoves, Index!Holding, Index!At
  <2> QED
    BY <2>3, <2>4 DEF IndexInv
<1>2. CASE /\ Index!IsStale(indexLock) /\ builder[b].tries < 2 /\ UNCHANGED indexLock
           /\ builder' = [builder EXCEPT ![b].pc = "remove", ![b].saw = indexLock]
  <2> DEFINE x == [builder[b] EXCEPT !.pc = "remove", !.saw = indexLock]
  <2>1. x \in BuilderRow /\ x.pc = "remove" /\ x.src <= vault /\ x.tries < 2 /\ x.saw = indexLock
    BY <1>0, <1>2 DEF BuilderRow
  <2>2. builder' = [builder EXCEPT ![b] = x]
    BY <1>2, TypesSplit DEF IndexInv
  <2> HIDE DEF x
  <2>3. IndexMoves(b, x)
    BY <1>0, <1>2, <2>1, <2>2, BuilderSteps, TypesSplit DEF Index!AcquireLock, IndexMoves, IndexInv
  <2>4. Index!TypeOK' /\ TriesInv' /\ DataInv' /\ ReaderInv'
    BY <1>2, <2>1, <2>3, IndexQuietMove
  <2>5. LockInv'
    BY <1>2, <2>1, <2>3, LockAlone
  <2> QED
    BY <2>4, <2>5 DEF IndexInv
<1>3. CASE Index!Ends(b) /\ UNCHANGED indexLock
  <2>1. IndexMoves(b, Index!Resting) /\ Index!Resting \in BuilderRow /\ Index!TypeOK' /\ TriesInv'
          /\ DataInv' /\ ReaderInv'
    BY <1>0, <1>3, EndingMoves DEF Index!AcquireLock
  <2>2. LockInv'
    BY <1>3, <2>1, LockAlone DEF Index!Resting
  <2> QED
    BY <2>1, <2>2 DEF IndexInv
<1> QED
  BY <1>1, <1>2, <1>3 DEF Index!AcquireLock

(* _remove_stale: renaming away a lock that was not the one seen is a lapse.                            *)
LEMMA IndexRemoveStep ==
  ASSUME IndexBounds, IndexInv, NEW b \in Builders, Index!RemoveStale(b)
  PROVE  IndexInv'
<1>0. /\ builder[b] \in BuilderRow /\ builder[b].src <= vault /\ indexLock \in Index!LockOf(Builders)
      /\ indexFaults \in 0 .. MaxIndexFaults /\ indexLapses \in SUBSET {"outlived", "snatched"}
      /\ builder[b].tries < 2 /\ Index!IsStale(builder[b].saw)
  BY TypesSplit DEF IndexInv, Index!TypeOK, DataInv, TriesInv, Index!RemoveStale
<1>1. CASE indexLock = Index!Free
  <2>1. Index!Ends(b) /\ UNCHANGED <<indexLock, indexLapses>>
    BY <1>1 DEF Index!RemoveStale
  <2>2. IndexMoves(b, Index!Resting) /\ Index!Resting \in BuilderRow /\ Index!TypeOK' /\ TriesInv'
          /\ DataInv' /\ ReaderInv'
    BY <1>0, <2>1, EndingMoves DEF Index!RemoveStale
  <2>3. LockInv'
    BY <2>1, <2>2, LockAlone DEF Index!Resting
  <2> QED
    BY <2>2, <2>3 DEF IndexInv
<1>2. CASE indexLock # Index!Free
  <2> DEFINE x == [builder[b] EXCEPT !.pc = "lock", !.tries = builder[b].tries + 1, !.saw = Index!Free]
  <2>1. /\ indexLock' = Index!Free
             /\ indexLapses' = IF indexLock = builder[b].saw THEN indexLapses ELSE indexLapses \cup {"snatched"}
        /\ builder' = [builder EXCEPT ![b].pc = "lock", ![b].tries = @ + 1, ![b].saw = Index!Free]
    BY <1>2 DEF Index!RemoveStale
  <2>2. Index!Free \in Index!LockOf(Builders) /\ builder[b].tries + 1 \in 0 .. 2
    BY <1>0, IndexLockWritten, SMT DEF BuilderRow
  <2>3. x \in BuilderRow /\ x.pc = "lock" /\ x.src <= vault
    BY <1>0, <2>2 DEF BuilderRow
  <2>4. builder' = [builder EXCEPT ![b] = x]
    BY <2>1, TypesSplit DEF IndexInv
  <2> HIDE DEF x
  <2>5. IndexMoves(b, x)
    BY <1>0, <2>1, <2>2, <2>3, <2>4, BuilderSteps, TypesSplit DEF Index!RemoveStale, IndexMoves, IndexInv
  <2>6. Index!TypeOK' /\ TriesInv' /\ DataInv' /\ ReaderInv'
    BY <2>3, <2>5, IndexQuietMove
  <2>7. LockInv'
    <3> SUFFICES ASSUME indexLapses' = {} PROVE LockInv'
      BY DEF LockInv
    <3>1. indexLapses = {} /\ Index!IsStale(indexLock)
      BY <1>0, <2>1
    <3>2. \A c \in Builders : ~Index!Holding(c) /\ ~Index!At(c, "own")
      BY <3>1, SMT DEF IndexInv, LockInv, Index!IsStale, Index!Mkdir
    <3> QED
      BY <3>2, <2>3, <2>5 DEF LockInv, IndexMoves, Index!Holding, Index!At
  <2> QED
    BY <2>6, <2>7 DEF IndexInv
<1> QED
  BY <1>1, <1>2

(* _write_owner makes the builder the owner of the directory it made.                                   *)
LEMMA IndexOwnerStep ==
  ASSUME IndexBounds, IndexInv, NEW b \in Builders, Index!WriteOwner(b)
  PROVE  IndexInv'
<1>0. /\ builder[b] \in BuilderRow /\ builder[b].src <= vault /\ indexLock \in Index!LockOf(Builders)
      /\ indexFaults \in 0 .. MaxIndexFaults /\ indexLapses \in SUBSET {"outlived", "snatched"}
      /\ indexLapses' = indexLapses
  BY TypesSplit DEF IndexInv, Index!TypeOK, DataInv, Index!WriteOwner
<1>1. CASE indexLock = Index!Free
  <2>1. Index!Ends(b) /\ UNCHANGED indexLock
    BY <1>1 DEF Index!WriteOwner
  <2>2. IndexMoves(b, Index!Resting) /\ Index!Resting \in BuilderRow /\ Index!TypeOK' /\ TriesInv'
          /\ DataInv' /\ ReaderInv'
    BY <1>0, <2>1, EndingMoves DEF Index!WriteOwner
  <2>3. LockInv'
    BY <2>1, <2>2, LockAlone DEF Index!Resting
  <2> QED
    BY <2>2, <2>3 DEF IndexInv
<1>2. CASE indexLock # Index!Free
  <2> DEFINE x == [builder[b] EXCEPT !.pc = "clear"]
  <2>1. x \in BuilderRow /\ x.pc = "clear" /\ x.src <= vault
    BY <1>0 DEF BuilderRow
  <2>2. indexLock' = Index!WithOwner(indexLock, b) /\ Index!Goes(b, "clear")
    BY <1>2 DEF Index!WriteOwner
  <2>3. IndexMoves(b, x)
    BY <1>0, <2>1, <2>2, BuilderGoes, IndexLockWritten DEF Index!WriteOwner, IndexMoves, IndexInv
  <2> HIDE DEF x
  <2>4. Index!TypeOK' /\ TriesInv' /\ DataInv' /\ ReaderInv'
    BY <2>1, <2>3, IndexQuietMove
  <2>5. LockInv'
    <3> SUFFICES ASSUME indexLapses = {} PROVE LockInv'
      BY <1>0 DEF LockInv
    <3>1. indexLock = Index!Mkdir /\ \A c \in Builders : Index!At(c, "own") => c = b
      BY DEF IndexInv, LockInv, Index!WriteOwner
    <3>2. \A c \in Builders : ~Index!Holding(c)
      BY <3>1, IndexOneOwner DEF IndexInv, LockInv, Index!Mkdir, IndexBounds
    <3>3. indexLock' = {[by |-> b, fresh |-> TRUE]}
      BY <3>1, <2>2 DEF Index!Mkdir, Index!WithOwner
    <3>4. \A c \in Builders : Index!Holding(c)' => c = b
      BY <3>2, <2>3 DEF IndexMoves, Index!Holding
    <3>5. \A c \in Builders : ~Index!At(c, "own")'
      BY <3>1, <2>1, <2>3 DEF IndexMoves, Index!At
    <3> QED
      BY <3>3, <3>4, <3>5 DEF LockInv
  <2> QED
    BY <2>4, <2>5 DEF IndexInv
<1> QED
  BY <1>1, <1>2

(* The one that holds the lock is alone.                                                                *)
LEMMA HolderAlone ==
  ASSUME IndexBounds, IndexInv, NEW b \in Builders, Index!Holding(b), indexLapses = {}
  PROVE  \A c \in Builders : /\ Index!Holding(c) => c = b
                             /\ ~Index!At(c, "own")
<1>1. indexLock = {[by |-> b, fresh |-> TRUE]}
  BY DEF IndexInv, LockInv
<1>2. \A c \in Builders : Index!Holding(c) => c = b
  BY <1>1, IndexOneOwner DEF IndexInv, LockInv
<1>3. \A c \in Builders : ~Index!At(c, "own")
  BY <1>1, IndexOneOwner DEF IndexInv, LockInv, Index!Mkdir, IndexBounds
<1> QED
  BY <1>2, <1>3

(* release: the owner file is read.                                                                     *)
LEMMA IndexReleaseStep ==
  ASSUME IndexBounds, IndexInv, NEW b \in Builders, Index!ReleaseCheck(b)
  PROVE  IndexInv'
<1>0. /\ builder[b] \in BuilderRow /\ builder[b].src <= vault /\ indexLock \in Index!LockOf(Builders)
      /\ indexFaults \in 0 .. MaxIndexFaults /\ indexLapses \in SUBSET {"outlived", "snatched"}
      /\ indexLapses' = indexLapses /\ indexLock' = indexLock
  BY TypesSplit DEF IndexInv, Index!TypeOK, DataInv, Index!ReleaseCheck
<1>1. CASE Index!Ends(b)
  <2>1. IndexMoves(b, Index!Resting) /\ Index!Resting \in BuilderRow /\ Index!TypeOK' /\ TriesInv'
          /\ DataInv' /\ ReaderInv'
    BY <1>0, <1>1, EndingMoves DEF Index!ReleaseCheck
  <2>2. LockInv'
    BY <1>0, <2>1, LockAlone DEF Index!Resting
  <2> QED
    BY <2>1, <2>2 DEF IndexInv
<1>2. CASE Index!Goes(b, "rmtree")
  <2> DEFINE x == [builder[b] EXCEPT !.pc = "rmtree"]
  <2>1. x \in BuilderRow /\ x.pc = "rmtree" /\ x.src <= vault
    BY <1>0 DEF BuilderRow
  <2>2. IndexMoves(b, x)
    BY <1>0, <1>2, <2>1, BuilderGoes DEF Index!ReleaseCheck, IndexMoves, IndexInv
  <2> HIDE DEF x
  <2>3. Index!TypeOK' /\ TriesInv' /\ DataInv' /\ ReaderInv'
    BY <2>1, <2>2, IndexQuietMove
  <2>4. Index!Holding(b)
    BY DEF Index!ReleaseCheck, Index!At, Index!Holding
  <2>5. LockInv'
    BY <1>0, <2>1, <2>2, <2>4 DEF IndexInv, LockInv, IndexMoves, Index!Holding, Index!At
  <2> QED
    BY <2>3, <2>5 DEF IndexInv
<1> QED
  BY <1>1, <1>2 DEF Index!ReleaseCheck

(* release: the directory is removed, and nobody else held it.                                          *)
LEMMA IndexUnlockStep ==
  ASSUME IndexBounds, IndexInv, NEW b \in Builders, Index!ReleaseLock(b)
  PROVE  IndexInv'
<1>0. /\ indexFaults \in 0 .. MaxIndexFaults /\ indexLapses \in SUBSET {"outlived", "snatched"}
      /\ indexLapses' = indexLapses /\ indexLock' = Index!Free /\ indexLock \in Index!LockOf(Builders)
  BY DEF IndexInv, Index!TypeOK, Index!ReleaseLock
<1>1. IndexMoves(b, Index!Resting) /\ Index!Resting \in BuilderRow /\ Index!TypeOK' /\ TriesInv' /\ DataInv'
        /\ ReaderInv'
  BY <1>0, IndexLockWritten, EndingMoves DEF Index!ReleaseLock
<1>2. Index!Holding(b)
  BY DEF Index!ReleaseLock, Index!At, Index!Holding
<1>3. LockInv'
  BY <1>0, <1>1, <1>2, HolderAlone, SMT DEF LockInv, IndexMoves, Index!Holding, Index!At, Index!Resting
<1> QED
  BY <1>1, <1>3 DEF IndexInv

(* A builder that dies leaves its lock and its files as they are.                                       *)
LEMMA CrashStep ==
  ASSUME IndexBounds, IndexInv, NEW b \in Builders, Index!Crash(b)
  PROVE  IndexInv'
<1>0. /\ indexFaults' \in 0 .. MaxIndexFaults /\ indexLapses \in SUBSET {"outlived", "snatched"}
      /\ indexLapses' = indexLapses /\ indexLock' = indexLock /\ indexLock \in Index!LockOf(Builders)
  BY SMT DEF IndexInv, Index!TypeOK, Index!Crash, IndexBounds
<1>1. IndexMoves(b, Index!Resting) /\ Index!Resting \in BuilderRow /\ Index!TypeOK' /\ TriesInv' /\ DataInv'
        /\ ReaderInv'
  BY <1>0, EndingMoves DEF Index!Crash
<1>2. LockInv'
  BY <1>0, <1>1, LockAlone DEF Index!Resting
<1> QED
  BY <1>1, <1>2 DEF IndexInv

-----------------------------------------------------------------------------
(* The steps of the builder that holds the lock *)

Held == {"clear", "stage", "extract", "metadata", "drop", "retire", "promote", "clean", "release", "rmtree"}

(* It goes on holding it, and is the only one unless the lock was lost.                                 *)
LEMMA IndexHolderGoes ==
  ASSUME IndexBounds, IndexInv, NEW b \in Builders, Index!Holding(b), NEW p \in Held, Index!Goes(b, p),
         UNCHANGED <<indexLock, reader, indexLapses>>
  PROVE  /\ LockInv' /\ TriesInv' /\ builder' \in [Builders -> BuilderRow]
         /\ builder'[b].pc = p /\ builder'[b].src = builder[b].src
         /\ \A c \in Builders : c # b => builder'[c] = builder[c]
         /\ indexLapses = {} => \A c \in Builders : c # b => ~Index!Holding(c)
<1>0. p \in {"idle", "hash", "lock", "remove", "own", "clear", "stage", "extract", "metadata", "drop",
            "retire", "promote", "clean", "release", "rmtree"}
  BY DEF Held
<1>1. /\ builder' \in [Builders -> BuilderRow] /\ builder'[b] = [builder[b] EXCEPT !.pc = p]
      /\ \A c \in Builders : c # b => builder'[c] = builder[c]
  BY <1>0, BuilderGoes DEF IndexInv
<1>2. builder[b] \in BuilderRow
  BY TypesSplit DEF IndexInv
<1>3. builder'[b].pc = p /\ builder'[b].src = builder[b].src
  BY <1>1, <1>2 DEF BuilderRow
<1>4. TriesInv'
  BY <1>1, <1>3 DEF Held, IndexInv, TriesInv, Index!At, Index!ReaderAt
<1>5. \A c \in Builders : Index!Holding(c)' => Index!Holding(c)
  BY <1>1 DEF Index!Holding
<1>6. \A c \in Builders : Index!At(c, "own")' => Index!At(c, "own")
  BY <1>1, <1>3 DEF Held, Index!At
<1>7. LockInv'
  BY <1>5, <1>6 DEF IndexInv, LockInv
<1> QED
  BY <1>1, <1>3, <1>4, <1>7, HolderAlone

(* What the step has to leave of the versions.                                                          *)
LEMMA HolderData ==
  ASSUME IndexBounds, IndexInv, NEW b \in Builders, Index!Holding(b), NEW p \in Held, Index!Goes(b, p),
         UNCHANGED <<indexLock, reader, indexLapses, vault>>, corpus' <= vault,
         \A d \in staging' \cup active' : d.graph <= vault,
         indexLapses = {} =>
           /\ \A d \in staging' \cup active' : d.label <= d.graph
           /\ p \in {"stage", "extract", "metadata"} => \A d \in staging' : d.label = 0
           /\ p = "extract" => builder[b].src <= corpus'
           /\ p = "metadata" => \A d \in staging' : builder[b].src <= d.graph
  PROVE  DataInv'
<1>1. /\ builder'[b].pc = p /\ builder'[b].src = builder[b].src
      /\ \A c \in Builders : c # b => builder'[c] = builder[c]
      /\ indexLapses = {} => \A c \in Builders : c # b => ~Index!Holding(c)
  BY IndexHolderGoes
<1>2. \A c \in Builders : builder'[c].src <= vault
  BY <1>1 DEF IndexInv, DataInv
<1>3. ASSUME indexLapses = {}, NEW c \in Builders
      PROVE  /\ builder'[c].pc \in {"stage", "extract", "metadata"} => \A d \in staging' : d.label = 0
             /\ Index!At(c, "extract")' => builder'[c].src <= corpus'
             /\ Index!At(c, "metadata")' => \A d \in staging' : builder'[c].src <= d.graph
  <2>1. CASE c = b
    BY <1>1, <1>3, <2>1 DEF Index!At
  <2>2. CASE c # b
    <3>1. ~Index!Holding(c) /\ builder'[c] = builder[c]
      BY <1>1, <1>3, <2>2
    <3> QED
      BY <3>1 DEF Index!Holding, Index!At
  <2> QED
    BY <2>1, <2>2
<1> QED
  BY <1>2, <1>3 DEF DataInv

(* What it has to leave of the inodes: the active directory stays, and the staging directory is the one *)
(* that was, or a new one.                                                                              *)
LEMMA ReaderKept ==
  ASSUME ReaderInv, UNCHANGED <<active, reader>>,
         \A d \in staging' : d.ino \notin Index!InUse \/ \E e \in staging : e.ino = d.ino
  PROVE  ReaderInv'
<1>1. \A d \in staging', e \in active : d.ino # e.ino
  BY SMT DEF ReaderInv, Index!InUse
<1>2. \A r \in Readers : \A d \in staging' :
        (\A e \in staging \cup active : e.ino # reader[r].before) => d.ino # reader[r].before
  <2> SUFFICES ASSUME NEW r \in Readers, NEW d \in staging', d.ino = reader[r].before,
                      \A e \in staging \cup active : e.ino # reader[r].before
               PROVE  FALSE
    OBVIOUS
  <2>1. d.ino \in Index!InUse
    BY SMT DEF Index!InUse
  <2> QED
    BY <2>1
<1> QED
  BY <1>1, <1>2 DEF ReaderInv, Index!ReaderAt

(* The staging directory is made anew, under an inode that is not in use.                               *)
LEMMA ClearStep ==
  ASSUME IndexBounds, IndexInv, NEW b \in Builders, Index!ClearStaging(b)
  PROVE  IndexInv'
<1> DEFINE i == CHOOSE i \in Inodes \ Index!InUse : TRUE
           d == [ino |-> i, label |-> 0, graph |-> 0]
<1>1. i \in Inodes /\ i \notin Index!InUse
  BY InodeIsFree DEF IndexInv
<1> HIDE DEF i
<1>2. d \in Index!Directory /\ d.ino = i /\ d.label = 0 /\ d.graph = 0
  BY <1>1, SMT DEF Index!Directory, IndexBounds
<1>3. /\ staging' = {d} /\ corpus' = 0 /\ Index!Goes(b, "stage") /\ Index!Holding(b)
      /\ UNCHANGED <<vault, indexLock, active, previous, reader, indexFaults, indexLapses>>
  BY DEF Index!ClearStaging, i, Index!At, Index!Holding
<1> HIDE DEF d
<1>4. vault \in Nat /\ vault >= 0
  BY SMT DEF IndexInv, Index!TypeOK, Index!Versions, IndexBounds
<1>5. LockInv' /\ TriesInv' /\ builder' \in [Builders -> BuilderRow]
  BY <1>3, IndexHolderGoes DEF Held
<1>6. Index!TypeOK'
  <2>1. staging' \in Index!Directories
    BY <1>2, <1>3 DEF Index!Directories
  <2>2. corpus' \in 0 .. MaxVault
    BY <1>3, SMT DEF IndexBounds
  <2> QED
    BY <1>3, <1>5, <2>1, <2>2, TypesSplit, TypesJoin DEF IndexInv, Index!TypeOK
<1>7. DataInv'
  <2>1. \A e \in staging' \cup active' : e.graph <= vault
    BY <1>2, <1>3, <1>4 DEF IndexInv, DataInv
  <2>2. indexLapses = {} => \A e \in staging' \cup active' : e.label <= e.graph
    BY <1>2, <1>3, SMT DEF IndexInv, DataInv
  <2>3. \A e \in staging' : e.label = 0
    BY <1>2, <1>3
  <2> QED
    BY <1>3, <1>4, <2>1, <2>2, <2>3, HolderData DEF Held
<1>8. ReaderInv'
  BY <1>1, <1>2, <1>3, ReaderKept DEF IndexInv
<1> QED
  BY <1>5, <1>6, <1>7, <1>8 DEF IndexInv

(* The corpus is copied from the vault as it is, not older than the hash that was read.                 *)
LEMMA StageStep ==
  ASSUME IndexBounds, IndexInv, NEW b \in Builders, Index!StageSourceCorpus(b)
  PROVE  IndexInv'
<1>1. /\ corpus' = vault /\ Index!Goes(b, "extract") /\ Index!Holding(b)
      /\ UNCHANGED <<vault, indexLock, staging, active, previous, reader, indexFaults, indexLapses>>
  BY DEF Index!StageSourceCorpus, Index!At, Index!Holding
<1>2. LockInv' /\ TriesInv' /\ builder' \in [Builders -> BuilderRow]
  BY <1>1, IndexHolderGoes DEF Held
<1>3. vault \in 0 .. MaxVault
  BY SMT DEF IndexInv, Index!TypeOK, Index!Versions, IndexBounds
<1>4. Index!TypeOK'
  BY <1>1, <1>2, <1>3, TypesSplit, TypesJoin DEF IndexInv, Index!TypeOK
<1>5. DataInv'
  <2>1. /\ builder[b].src <= vault /\ \A d \in staging \cup active : d.graph <= vault
        /\ indexLapses = {} => /\ \A d \in staging \cup active : d.label <= d.graph
                          /\ \A d \in staging : d.label = 0
    BY DEF IndexInv, DataInv, Index!StageSourceCorpus, Index!At
  <2>2. corpus' <= vault
    BY <1>1, <1>3, SMT
  <2> QED
    BY <1>1, <2>1, <2>2, HolderData DEF Held
<1>6. ReaderInv'
  BY <1>1, ReaderKept DEF IndexInv
<1> QED
  BY <1>2, <1>4, <1>5, <1>6 DEF IndexInv

(* The steps that leave the three directories and the corpus as they are, but for the previous one.     *)
LEMMA HolderPasses ==
  ASSUME IndexBounds, IndexInv, NEW b \in Builders, Index!Holding(b),
         NEW p \in {"drop", "retire", "promote", "clean", "release"}, Index!Goes(b, p),
         UNCHANGED <<indexLock, reader, indexLapses, vault, corpus, staging, active>>,
         indexFaults' \in 0 .. MaxIndexFaults, previous' \in Index!Directories
  PROVE  IndexInv'
<1>1. LockInv' /\ TriesInv' /\ builder' \in [Builders -> BuilderRow]
  BY IndexHolderGoes DEF Held
<1>2. Index!TypeOK'
  BY <1>1, TypesSplit, TypesJoin DEF IndexInv, Index!TypeOK
<1>3. DataInv'
  <2>1. /\ corpus <= vault /\ \A d \in staging \cup active : d.graph <= vault
        /\ indexLapses = {} => \A d \in staging \cup active : d.label <= d.graph
    BY DEF IndexInv, DataInv
  <2> QED
    BY <2>1, HolderData DEF Held
<1>4. ReaderInv'
  BY ReaderKept DEF IndexInv
<1> QED
  BY <1>1, <1>2, <1>3, <1>4 DEF IndexInv

(* The extractor writes the graph of the corpus that was copied.                                        *)
LEMMA ExtractStep ==
  ASSUME IndexBounds, IndexInv, NEW b \in Builders, Index!Extract(b)
  PROVE  IndexInv'
<1>1. Index!Holding(b) /\ UNCHANGED <<vault, corpus, indexLock, active, previous, reader, indexLapses>>
  BY DEF Index!Extract, Index!At, Index!Holding
<1>2. indexFaults' \in 0 .. MaxIndexFaults
  BY SMT DEF Index!Extract, IndexInv, Index!TypeOK, IndexBounds
<1>3. CASE Index!Goes(b, "clean") /\ UNCHANGED staging
  BY <1>1, <1>2, <1>3, HolderPasses DEF IndexInv, Index!TypeOK
<1>4. CASE staging' = {[d EXCEPT !.graph = corpus] : d \in staging} /\ Index!Goes(b, "metadata")
  <2>1. LockInv' /\ TriesInv' /\ builder' \in [Builders -> BuilderRow]
    BY <1>1, <1>4, IndexHolderGoes DEF Held
  <2>0. staging' \in Index!Directories
    BY <1>4, DirectoryWritten DEF IndexInv, Index!TypeOK
  <2>2. Index!TypeOK'
    BY <1>1, <1>2, <2>0, <2>1, TypesSplit, TypesJoin DEF IndexInv, Index!TypeOK
  <2>3. \A e \in staging' : \E d \in staging : e.ino = d.ino /\ e.label = d.label /\ e.graph = corpus
    BY <1>4, SMT DEF IndexInv, Index!TypeOK, Index!Directories, Index!Directory
  <2>4. DataInv'
    <3>1. corpus \in Nat
      BY SMT DEF IndexInv, Index!TypeOK, IndexBounds
    <3>2. \A d \in staging' \cup active' : d.graph <= vault
      BY <1>1, <2>3 DEF IndexInv, DataInv
    <3>3. indexLapses = {} => \A d \in staging' : d.label = 0 /\ builder[b].src <= d.graph
      BY <2>3 DEF IndexInv, DataInv, Index!Extract, Index!At
    <3>4. indexLapses = {} => \A d \in staging' \cup active' : d.label <= d.graph
      BY <1>1, <2>3, <3>1, <3>3, SMT DEF IndexInv, DataInv
    <3>5. corpus' <= vault
      BY <1>1 DEF IndexInv, DataInv
    <3> QED
      BY <1>1, <1>4, <3>2, <3>3, <3>4, <3>5, HolderData DEF Held
  <2>5. ReaderInv'
    BY <1>1, <2>3, ReaderKept DEF IndexInv
  <2> QED
    BY <2>1, <2>2, <2>4, <2>5 DEF IndexInv
<1> QED
  BY <1>3, <1>4 DEF Index!Extract

(* The label is the hash read before the copy, so it is not later than the graph.                       *)
LEMMA MetadataStep ==
  ASSUME IndexBounds, IndexInv, NEW b \in Builders, Index!WriteMetadata(b)
  PROVE  IndexInv'
<1> DEFINE p == IF staging = {} THEN "clean" ELSE "drop"
           v == builder[b].src
<1>1. /\ Index!Holding(b) /\ UNCHANGED <<vault, corpus, indexLock, active, previous, reader, indexFaults,
           indexLapses>>
      /\ p \in Held /\ p \notin {"stage", "extract", "metadata"} /\ Index!Goes(b, p)
      /\ staging' = {[d EXCEPT !.label = v] : d \in staging}
  BY DEF Index!WriteMetadata, Index!At, Index!Holding, Held, Index!Labelled
<1>2. v \in 0 .. MaxVault
  BY TypesSplit DEF IndexInv, BuilderRow
<1>3. indexLapses = {} => \A d \in staging : v <= d.graph
  BY DEF IndexInv, DataInv, Index!WriteMetadata, Index!At
<1> HIDE DEF p, v
<1>4. LockInv' /\ TriesInv' /\ builder' \in [Builders -> BuilderRow]
  BY <1>1, IndexHolderGoes
<1>0. staging' \in Index!Directories
  BY <1>1, <1>2, DirectoryWritten DEF IndexInv, Index!TypeOK
<1>5. Index!TypeOK'
  BY <1>0, <1>1, <1>4, TypesSplit, TypesJoin DEF IndexInv, Index!TypeOK
<1>6. \A e \in staging' : \E d \in staging : e.ino = d.ino /\ e.label = v /\ e.graph = d.graph
  BY <1>1, SMT DEF IndexInv, Index!TypeOK, Index!Directories, Index!Directory
<1>7. DataInv'
  <2>1. \A d \in staging' \cup active' : d.graph <= vault
    BY <1>1, <1>6 DEF IndexInv, DataInv
  <2>2. indexLapses = {} => \A d \in staging' \cup active' : d.label <= d.graph
    BY <1>1, <1>3, <1>6, SMT DEF IndexInv, DataInv
  <2>3. corpus' <= vault
    BY <1>1 DEF IndexInv, DataInv
  <2> QED
    BY <1>1, <2>1, <2>2, <2>3, HolderData
<1>8. ReaderInv'
  BY <1>1, <1>6, ReaderKept DEF IndexInv
<1> QED
  BY <1>4, <1>5, <1>7, <1>8 DEF IndexInv

(* The previous generation is removed.                                                                  *)
LEMMA DropStep ==
  ASSUME IndexBounds, IndexInv, NEW b \in Builders, Index!DropPrevious(b)
  PROVE  IndexInv'
<1>1. /\ Index!Holding(b) /\ Index!Goes(b, "retire") /\ previous' = {}
      /\ UNCHANGED <<vault, corpus, indexLock, staging, active, reader, indexFaults, indexLapses>>
  BY DEF Index!DropPrevious, Index!At, Index!Holding
<1>2. indexFaults' \in 0 .. MaxIndexFaults /\ previous' \in Index!Directories
  BY <1>1 DEF IndexInv, Index!TypeOK, Index!Directories
<1> QED
  BY <1>1, <1>2, HolderPasses

(* The active generation is renamed to the previous one.                                                *)
LEMMA RetireStep ==
  ASSUME IndexBounds, IndexInv, NEW b \in Builders, Index!RetireActive(b)
  PROVE  IndexInv'
<1>1. /\ Index!Holding(b) /\ Index!Goes(b, "promote")
      /\ UNCHANGED <<vault, corpus, indexLock, staging, reader, indexFaults, indexLapses>>
  BY DEF Index!RetireActive, Index!At, Index!Holding
<1>2. CASE active = {}
  BY <1>1, <1>2, HolderPasses DEF Index!RetireActive, IndexInv, Index!TypeOK
<1>3. CASE active # {}
  <2>1. previous' = active /\ active' = {}
    BY <1>3 DEF Index!RetireActive
  <2>2. LockInv' /\ TriesInv' /\ builder' \in [Builders -> BuilderRow]
    BY <1>1, IndexHolderGoes DEF Held
  <2>3. Index!TypeOK'
    BY <1>1, <2>1, <2>2, TypesSplit, TypesJoin DEF IndexInv, Index!TypeOK, Index!Directories
  <2>4. DataInv'
    <3>1. /\ corpus' <= vault /\ \A d \in staging' \cup active' : d.graph <= vault
          /\ indexLapses = {} => \A d \in staging' \cup active' : d.label <= d.graph
      BY <1>1, <2>1 DEF IndexInv, DataInv
    <3> QED
      BY <1>1, <3>1, HolderData DEF Held
  <2>5. ReaderInv'
    BY <1>1, <2>1 DEF IndexInv, ReaderInv, Index!ReaderAt
  <2> QED
    BY <2>2, <2>3, <2>4, <2>5 DEF IndexInv
<1> QED
  BY <1>2, <1>3

(* The staged generation is renamed to the active one, with its label and its inode.                    *)
LEMMA PromoteStep ==
  ASSUME IndexBounds, IndexInv, NEW b \in Builders, Index!PromoteStaging(b)
  PROVE  IndexInv'
<1>1. /\ Index!Holding(b) /\ Index!Goes(b, "clean")
      /\ UNCHANGED <<vault, corpus, indexLock, previous, reader, indexFaults, indexLapses>>
  BY DEF Index!PromoteStaging, Index!At, Index!Holding
<1>2. CASE UNCHANGED <<active, staging>>
  BY <1>1, <1>2, HolderPasses DEF IndexInv, Index!TypeOK
<1>3. CASE active = {} /\ active' = staging /\ staging' = {}
  <2>1. LockInv' /\ TriesInv' /\ builder' \in [Builders -> BuilderRow]
    BY <1>1, IndexHolderGoes DEF Held
  <2>2. Index!TypeOK'
    BY <1>1, <1>3, <2>1, TypesSplit, TypesJoin DEF IndexInv, Index!TypeOK, Index!Directories
  <2>3. DataInv'
    <3>1. /\ corpus' <= vault /\ \A d \in staging' \cup active' : d.graph <= vault
          /\ indexLapses = {} => \A d \in staging' \cup active' : d.label <= d.graph
      BY <1>1, <1>3 DEF IndexInv, DataInv
    <3> QED
      BY <1>1, <3>1, HolderData DEF Held
  <2>4. ReaderInv'
    BY <1>1, <1>3 DEF IndexInv, ReaderInv, Index!ReaderAt
  <2> QED
    BY <2>1, <2>2, <2>3, <2>4 DEF IndexInv
<1> QED
  BY <1>2, <1>3 DEF Index!PromoteStaging

(* The staging directory and the corpus are removed.                                                    *)
LEMMA CleanStep ==
  ASSUME IndexBounds, IndexInv, NEW b \in Builders, Index!CleanUp(b)
  PROVE  IndexInv'
<1>1. /\ Index!Holding(b) /\ Index!Goes(b, "release") /\ staging' = {} /\ corpus' = 0
      /\ UNCHANGED <<vault, indexLock, active, previous, reader, indexFaults, indexLapses>>
  BY DEF Index!CleanUp, Index!At, Index!Holding
<1>2. LockInv' /\ TriesInv' /\ builder' \in [Builders -> BuilderRow]
  BY <1>1, IndexHolderGoes DEF Held
<1>3. corpus' \in 0 .. MaxVault /\ corpus' <= vault
  BY <1>1, SMT DEF IndexBounds, IndexInv, Index!TypeOK, Index!Versions
<1>4. Index!TypeOK'
  BY <1>1, <1>2, <1>3, TypesSplit, TypesJoin DEF IndexInv, Index!TypeOK, Index!Directories
<1>5. DataInv'
  <2>1. /\ \A d \in staging' \cup active' : d.graph <= vault
        /\ indexLapses = {} => \A d \in staging' \cup active' : d.label <= d.graph
    BY <1>1 DEF IndexInv, DataInv
  <2> QED
    BY <1>1, <1>3, <2>1, HolderData DEF Held
<1>6. ReaderInv'
  BY <1>1, ReaderKept DEF IndexInv
<1> QED
  BY <1>2, <1>4, <1>5, <1>6 DEF IndexInv

-----------------------------------------------------------------------------
(* Time, the vault and the retrievals *)

(* The lock of a builder that is gone expires: nobody holds it.                                         *)
LEMMA IndexExpiryStep ==
  ASSUME IndexBounds, IndexInv, Index!AbandonedLockExpires
  PROVE  IndexInv'
<1>1. PICK r \in indexLock : r.by # Index!NoToken /\ r.fresh /\ ~Index!Holding(r.by)
  BY DEF Index!AbandonedLockExpires
<1>2. indexLock' = Index!Expired(indexLock) /\ UNCHANGED <<Index!files, builder, reader, indexFaults,
        indexLapses>>
  BY DEF Index!AbandonedLockExpires
<1>3. indexLapses = {} => \A b \in Builders : ~Index!Holding(b) /\ ~Index!At(b, "own")
  BY <1>1, SMT DEF IndexInv, LockInv, Index!Mkdir
<1>4. indexLock' \in Index!LockOf(Builders)
  <2>1. indexLock = {r} /\ r \in [by : Builders \cup {Index!NoToken}, fresh : BOOLEAN]
    BY <1>1, SMT DEF IndexInv, Index!TypeOK, Index!LockOf, Index!Free
  <2> QED
    BY <1>1, <1>2, <2>1, IndexLockWritten DEF IndexInv, Index!TypeOK
<1>5. Index!TypeOK'
  BY <1>2, <1>4, TypesSplit, TypesJoin DEF IndexInv, Index!TypeOK, Index!files
<1>6. TriesInv' /\ DataInv' /\ ReaderInv'
  BY <1>2 DEF IndexInv, TriesInv, DataInv, ReaderInv, Index!files, Index!At, Index!ReaderAt
<1>7. LockInv'
  BY <1>2, <1>3 DEF LockInv, Index!Holding, Index!At
<1> QED
  BY <1>5, <1>6, <1>7 DEF IndexInv

(* The lock of a builder at work expires: that is a lapse.                                              *)
LEMMA OutliveStep ==
  ASSUME IndexBounds, IndexInv, Index!BuildOutlivesLock
  PROVE  IndexInv'
<1>1. PICK r \in indexLock : r.by # Index!NoToken
  BY DEF Index!BuildOutlivesLock
<1>2. indexLock' = Index!Expired(indexLock) /\ indexLapses' = indexLapses \cup {"outlived"}
        /\ UNCHANGED <<Index!files, builder, reader>>
  BY DEF Index!BuildOutlivesLock
<1>3. indexLock' \in Index!LockOf(Builders) /\ indexFaults' \in 0 .. MaxIndexFaults
  <2>1. indexLock = {r} /\ r \in [by : Builders \cup {Index!NoToken}, fresh : BOOLEAN]
    BY <1>1, SMT DEF IndexInv, Index!TypeOK, Index!LockOf, Index!Free
  <2>2. r.by \in Builders
    BY <1>1, <2>1
  <2> QED
    BY <1>2, <2>2, IndexLockWritten, SMT DEF Index!BuildOutlivesLock, IndexInv, Index!TypeOK, IndexBounds
<1>4. Index!TypeOK'
  BY <1>2, <1>3, TypesSplit, TypesJoin DEF IndexInv, Index!TypeOK, Index!files
<1>5. TriesInv' /\ DataInv' /\ ReaderInv'
  BY <1>2 DEF IndexInv, TriesInv, DataInv, ReaderInv, Index!files, Index!At, Index!ReaderAt
<1>6. LockInv'
  BY <1>2 DEF LockInv
<1> QED
  BY <1>4, <1>5, <1>6 DEF IndexInv

(* An edit of the vault makes every label and every graph older than it.                                *)
LEMMA VaultStep ==
  ASSUME IndexBounds, IndexInv, Index!VaultChanges
  PROVE  IndexInv'
<1>1. /\ vault' = vault + 1 /\ vault < MaxVault
      /\ UNCHANGED <<corpus, indexLock, staging, active, previous, builder, reader, indexFaults,
           indexLapses>>
  BY DEF Index!VaultChanges
<1>2. vault \in Nat /\ vault' \in Index!Versions
  BY <1>1, SMT DEF IndexInv, Index!TypeOK, Index!Versions, IndexBounds
<1>3. Index!TypeOK'
  BY <1>1, <1>2, TypesSplit, TypesJoin DEF IndexInv, Index!TypeOK
<1>4. TriesInv' /\ LockInv' /\ ReaderInv'
  BY <1>1 DEF IndexInv, TriesInv, LockInv, ReaderInv, Index!At, Index!ReaderAt, Index!Holding
<1>5. DataInv'
  <2>1. \A i \in Nat : i <= vault => i <= vault'
    BY <1>1, <1>2, SMT
  <2>2. corpus \in Nat /\ \A b \in Builders : builder[b].src \in Nat
    BY TypesSplit, SMT DEF IndexInv, Index!TypeOK, IndexBounds, BuilderRow
  <2>3. \A d \in staging \cup active : d.graph \in Nat
    BY SMT DEF IndexInv, Index!TypeOK, IndexBounds, Index!Directories, Index!Directory
  <2> QED
    BY <1>1, <2>1, <2>2, <2>3 DEF IndexInv, DataInv, Index!At
<1> QED
  BY <1>3, <1>4, <1>5 DEF IndexInv

(* A retrieval that moves to a row in keeping with the directories.                                     *)
LEMMA ReaderMoves ==
  ASSUME IndexBounds, IndexInv, NEW r \in Readers, NEW x \in ReaderRow, Index!Reads(r, x),
         UNCHANGED <<Index!files, indexLock, builder, indexFaults, indexLapses>>,
         x.pc \notin {"got", "idle"} => x.tries < 2,
         x.pc \in {"metadata", "graph", "after"} =>
           \/ /\ \E d \in active : d.ino = x.before
              /\ x.pc \in {"graph", "after"} => x.from = x.before
              /\ x.pc = "after" => x.of = x.before
           \/ \A d \in staging \cup active : d.ino # x.before,
         x.pc = "got" => x.from = x.of
  PROVE  IndexInv'
<1>1. /\ reader' \in [Readers -> ReaderRow] /\ reader'[r] = x
      /\ \A q \in Readers : q # r => reader'[q] = reader[q]
  BY ReaderSteps, TypesSplit DEF IndexInv
<1>2. Index!TypeOK'
  BY <1>1, TypesSplit, TypesJoin DEF IndexInv, Index!TypeOK, Index!files
<1>3. TriesInv'
  BY <1>1 DEF IndexInv, TriesInv, Index!At, Index!ReaderAt
<1>4. LockInv' /\ DataInv'
  BY DEF IndexInv, LockInv, DataInv, Index!files, Index!At, Index!Holding
<1>5. ReaderInv'
  BY <1>1 DEF IndexInv, ReaderInv, Index!files, Index!ReaderAt
<1> QED
  BY <1>2, <1>3, <1>4, <1>5 DEF IndexInv

(* The steps of a retrieval: inode, metadata, graph, inode again.                                       *)
LEMMA ReadStep ==
  ASSUME IndexBounds, IndexInv, NEW r \in Readers, Index!Read(r)
  PROVE  IndexInv'
<1>0. /\ reader[r] \in ReaderRow /\ active \in Index!Directories
      /\ \A d \in active : d.ino \in Inodes /\ d.label \in 0 .. MaxVault /\ d.graph \in 0 .. MaxVault
      /\ \A d, e \in active : d = e
  BY TypesSplit, SMT DEF IndexInv, Index!TypeOK, Index!Directories, Index!Directory, ReaderInv
<1>1. UNCHANGED <<Index!files, indexLock, builder, indexFaults, indexLapses>>
  BY DEF Index!Read, Index!StatBefore, Index!ReadMetadata, Index!ReadGraph, Index!StatAfter, Index!Retrieved
<1>2. Index!Away \in ReaderRow /\ Index!Away.pc = "idle"
  BY SMT DEF Index!Away, ReaderRow, IndexBounds
<1>3. /\ ~Index!ReaderAt(r, "got") /\ ~Index!ReaderAt(r, "idle") => reader[r].tries < 2
      /\ reader[r].pc \in {"metadata", "graph", "after"} =>
            \/ /\ \E d \in active : d.ino = reader[r].before
               /\ reader[r].pc \in {"graph", "after"} => reader[r].from = reader[r].before
               /\ Index!ReaderAt(r, "after") => reader[r].of = reader[r].before
            \/ \A d \in staging \cup active : d.ino # reader[r].before
  BY DEF IndexInv, TriesInv, ReaderInv
<1>4. CASE Index!StatBefore(r)
  <2>1. PICK d \in active : Index!Reads(r, [reader[r] EXCEPT !.pc = "metadata", !.before = d.ino])
    BY <1>4 DEF Index!StatBefore
  <2> DEFINE x == [reader[r] EXCEPT !.pc = "metadata", !.before = d.ino]
  <2>2. x \in ReaderRow /\ x.pc = "metadata" /\ x.before = d.ino /\ x.tries < 2
    BY <1>0, <1>4 DEF ReaderRow, Index!StatBefore
  <2>3. Index!Reads(r, x)
    BY <2>1
  <2> HIDE DEF x
  <2> QED
    BY <1>1, <2>2, <2>3, ReaderMoves
<1>5. CASE Index!ReadMetadata(r)
  <2>0. reader[r].pc = "metadata" /\ reader[r].tries < 2
    BY <1>3, <1>5 DEF Index!ReadMetadata, Index!ReaderAt
  <2>1. ASSUME NEW l \in 0 .. MaxVault, NEW i \in Inodes \cup {0},
               (\E d \in active : d.ino = i) \/ active = {},
               Index!Reads(r, [reader[r] EXCEPT !.pc = "graph", !.label = l, !.from = i])
        PROVE  IndexInv'
    <3> DEFINE x == [reader[r] EXCEPT !.pc = "graph", !.label = l, !.from = i]
    <3>1. x \in ReaderRow /\ x.pc = "graph" /\ x.before = reader[r].before /\ x.tries < 2 /\ x.from = i
      BY <1>0, <2>0 DEF ReaderRow
    <3>2. Index!Reads(r, x)
      BY <2>1
    <3> HIDE DEF x
    <3>3. \/ (\E d \in active : d.ino = x.before) /\ x.from = x.before
          \/ \A d \in staging \cup active : d.ino # x.before
      BY <1>0, <1>3, <2>0, <2>1, <3>1
    <3> QED
      BY <1>1, <3>1, <3>2, <3>3, ReaderMoves
  <2>2. 0 \in 0 .. MaxVault
    BY SMT DEF IndexBounds
  <2> QED
    BY <1>0, <1>5, <2>1, <2>2 DEF Index!ReadMetadata
<1>6. CASE Index!ReadGraph(r)
  <2>0. reader[r].pc = "graph" /\ reader[r].tries < 2
    BY <1>3, <1>6 DEF Index!ReadGraph, Index!ReaderAt
  <2>1. ASSUME NEW g \in 0 .. MaxVault, NEW i \in Inodes \cup {0},
               (\E d \in active : d.ino = i) \/ active = {},
               Index!Reads(r, [reader[r] EXCEPT !.pc = "after", !.graph = g, !.of = i])
        PROVE  IndexInv'
    <3> DEFINE x == [reader[r] EXCEPT !.pc = "after", !.graph = g, !.of = i]
    <3>1. /\ x \in ReaderRow /\ x.pc = "after" /\ x.before = reader[r].before /\ x.tries < 2
          /\ x.from = reader[r].from /\ x.of = i
      BY <1>0, <2>0 DEF ReaderRow
    <3>2. Index!Reads(r, x)
      BY <2>1
    <3> HIDE DEF x
    <3>3. \/ (\E d \in active : d.ino = x.before) /\ x.from = x.before /\ x.of = x.before
          \/ \A d \in staging \cup active : d.ino # x.before
      BY <1>0, <1>3, <2>0, <2>1, <3>1
    <3> QED
      BY <1>1, <3>1, <3>2, <3>3, ReaderMoves
  <2>2. 0 \in 0 .. MaxVault
    BY SMT DEF IndexBounds
  <2> QED
    BY <1>0, <1>6, <2>1, <2>2 DEF Index!ReadGraph
<1>7. CASE Index!StatAfter(r)
  <2>0. reader[r].pc = "after" /\ reader[r].tries < 2
    BY <1>3, <1>7 DEF Index!StatAfter, Index!ReaderAt
  <2>1. CASE Index!Reads(r, Index!Away)
    BY <1>1, <1>2, <2>1, ReaderMoves
  <2>2. CASE Index!Reads(r, [Index!Away EXCEPT !.tries = reader[r].tries + 1])
    <3> DEFINE x == [Index!Away EXCEPT !.tries = reader[r].tries + 1]
    <3>1. reader[r].tries + 1 \in 0 .. 2
      BY <1>0, <2>0, SMT DEF ReaderRow
    <3>2. x \in ReaderRow /\ x.pc = "idle"
      BY <1>2, <3>1 DEF ReaderRow
    <3>3. Index!Reads(r, x)
      BY <2>2
    <3> HIDE DEF x
    <3> QED
      BY <1>1, <3>2, <3>3, ReaderMoves
  <2>3. CASE Index!Unmoved(r) /\ Index!Reads(r, [reader[r] EXCEPT !.pc = "got"])
    <3> DEFINE x == [reader[r] EXCEPT !.pc = "got"]
    <3>1. x \in ReaderRow /\ x.pc = "got" /\ x.from = reader[r].from /\ x.of = reader[r].of
      BY <1>0 DEF ReaderRow
    <3>2. Index!Reads(r, x)
      BY <2>3
    <3>3. reader[r].from = reader[r].of
      BY <1>3, <2>0, <2>3 DEF Index!Unmoved, Index!ReaderAt
    <3> HIDE DEF x
    <3> QED
      BY <1>1, <3>1, <3>2, <3>3, ReaderMoves
  <2> QED
    BY <1>7, <2>1, <2>2, <2>3 DEF Index!StatAfter
<1>8. CASE Index!Retrieved(r)
  BY <1>1, <1>2, <1>8, ReaderMoves DEF Index!Retrieved
<1> QED
  BY <1>4, <1>5, <1>6, <1>7, <1>8 DEF Index!Read

-----------------------------------------------------------------------------
(* The theorems *)

(* No index and no lock: the invariant holds initially.                                                 *)
LEMMA IndexInit == ASSUME IndexBounds, Index!Init PROVE IndexInv
<1>1. Index!Resting \in BuilderRow /\ Index!Resting.pc = "idle" /\ Index!Resting.src = 0
  BY SMT DEF Index!Resting, BuilderRow, Index!LockOf, IndexBounds
<1>2. Index!Away \in ReaderRow /\ Index!Away.pc = "idle"
  BY SMT DEF Index!Away, ReaderRow, IndexBounds
<1>3. builder \in [Builders -> BuilderRow] /\ reader \in [Readers -> ReaderRow]
  BY <1>1, <1>2 DEF Index!Init
<1>4. Index!TypeOK
  BY <1>3, SMT DEF Index!Init, Index!TypeOK, BuilderRow, ReaderRow, Index!Versions, Index!Directories,
     Index!LockOf, IndexBounds
<1>5. /\ \A b \in Builders : builder[b].pc = "idle" /\ builder[b].src = 0
      /\ \A r \in Readers : reader[r].pc = "idle"
  BY <1>1, <1>2 DEF Index!Init
<1>6. TriesInv /\ LockInv
  BY <1>5 DEF TriesInv, LockInv, Index!At, Index!ReaderAt, Index!Holding
<1>7. DataInv
  BY <1>5, SMT DEF Index!Init, DataInv, Index!At
<1>8. ReaderInv
  BY <1>5 DEF Index!Init, ReaderInv, Index!ReaderAt
<1> QED
  BY <1>4, <1>6, <1>7, <1>8 DEF IndexInv

(* Every step keeps the invariant.                                                                      *)
LEMMA IndexNext == ASSUME IndexBounds, IndexInv, [Index!Next]_(Index!vars) PROVE IndexInv'
<1>1. ASSUME NEW b \in Builders, Index!Build(b) PROVE IndexInv'
  BY <1>1, RefreshStep, HashStep, IndexAcquireStep, IndexRemoveStep, IndexOwnerStep, ClearStep, StageStep,
     ExtractStep,
     MetadataStep, DropStep, RetireStep, PromoteStep, CleanStep, IndexReleaseStep, IndexUnlockStep
       DEF Index!Build
<1>2. CASE UNCHANGED Index!vars
  <2>1. Index!TypeOK'
    BY <1>2 DEF Index!vars, IndexInv, Index!TypeOK
  <2>2. TriesInv' /\ LockInv'
    BY <1>2 DEF Index!vars, IndexInv, TriesInv, LockInv, Index!At, Index!ReaderAt, Index!Holding
  <2>3. DataInv' /\ ReaderInv'
    BY <1>2 DEF Index!vars, IndexInv, DataInv, ReaderInv, Index!At, Index!ReaderAt
  <2> QED
    BY <2>1, <2>2, <2>3 DEF IndexInv
<1> QED
  BY <1>1, <1>2, CrashStep, ReadStep, IndexExpiryStep, OutliveStep, VaultStep DEF Index!Next

(* The inductive invariant holds in every state BuildMemoryIndex and a retrieval reach.                 *)
THEOREM IndexInvariant == ASSUME IndexBounds PROVE Index!Spec => []IndexInv
<1>1. Index!Init => IndexInv
  BY IndexInit
<1>2. IndexInv /\ [Index!Next]_(Index!vars) => IndexInv'
  BY IndexNext
<1> QED
  BY <1>1, <1>2, PTL DEF Index!Spec

(* The index of the vault: one that is fresh was extracted from the vault as it is, unless the build    *)
(* lock was lost, and a retrieval uses label and graph of one generation (BuildMemoryIndex,             *)
(* GraphifyJsonIndex._load_snapshot_view). For any number of builders and retrievals, crashes and       *)
(* changes of the vault.                                                                                *)
THEOREM IndexCanBeTrusted == ASSUME IndexBounds PROVE Index!Spec => []Index!IndexIsConsistent
<1>1. ASSUME IndexInv PROVE Index!IndexIsConsistent
  <2>1. ASSUME NEW d \in active, d.label = vault, indexLapses = {}
        PROVE  \A e \in active : e.graph = vault
    <3>1. \A e \in active : e = d
      BY <1>1, SMT DEF IndexInv, Index!TypeOK, Index!Directories
    <3>2. d.label <= d.graph /\ d.graph <= vault /\ d.graph \in Nat /\ vault \in Nat
      BY <1>1, <2>1, SMT DEF IndexInv, DataInv, Index!TypeOK, Index!Directories, Index!Directory,
         IndexBounds, Index!Versions
    <3> QED
      BY <2>1, <3>1, <3>2, SMT
  <2>2. Index!FreshMeansCurrent
    BY <2>1 DEF Index!FreshMeansCurrent, Index!Fresh
  <2>3. Index!OneGeneration
    BY <1>1 DEF Index!OneGeneration, IndexInv, ReaderInv
  <2> QED
    BY <2>2, <2>3 DEF Index!IndexIsConsistent
<1> QED
  BY <1>1, IndexInvariant, PTL
=============================================================================
