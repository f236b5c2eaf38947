----------------------------- MODULE VaultNotes -----------------------------
(* One managed note of the vault. Workers create it or append to it under the note's lock, while a      *)
(* person edits it with an editor that saves by rename. A text is the sequence of the tags written.     *)
EXTENDS FileLock, Sequences

CONSTANTS Writers,     \* processes that run memory tools
          MaxTags,     \* bound on the texts written, by Friday and by the editor
          MaxFaults    \* bound on crashes and on writers that outlive their lock

VARIABLES note,      \* the note at its path: empty, or one record with inode and text
          lock,
          proc,      \* what each writer is doing
          tags,      \* tags used so far
          inodes,    \* inodes used so far
          faults,
          lapses     \* how a lock has been lost: outlived by its writer, or snatched by a remover

vars == <<note, lock, proc, tags, inodes, faults, lapses>>

Texts == {t \in Seq(1..MaxTags) : Len(t) <= MaxTags}
Files == [ino : 1..MaxTags, text : Texts]
Idle == [pc |-> "idle", op |-> "create", seen |-> <<>>, ino |-> 0, tag |-> 0, tries |-> 0, saw |-> Free]

TypeOK ==
  /\ note \subseteq Files /\ \A f, g \in note : f = g
  /\ lock \in LockOf(Writers)
  /\ proc \in [Writers -> [pc : {"idle", "lock", "remove", "own", "held", "open", "write", "verify",
                                 "release", "rmtree"},
                           op : {"create", "append"}, seen : Texts, ino : 0..MaxTags, tag : 0..MaxTags,
                           tries : 0..2, saw : LockOf(Writers)]]
  /\ tags \in 0..MaxTags /\ inodes \in 0..MaxTags /\ faults \in 0..MaxFaults /\ lapses \in SUBSET {"outlived", "snatched"}

Init ==
  /\ note = {} /\ lock = Free /\ proc = [w \in Writers |-> Idle]
  /\ tags = 0 /\ inodes = 0 /\ faults = 0 /\ lapses = {}

At(w, pc) == proc[w].pc = pc
Goes(w, pc) == proc' = [proc EXCEPT ![w].pc = pc]
Ends(w) == proc' = [proc EXCEPT ![w] = Idle]

(* The tool call: a create, or an append against the content hash the model observed earlier.           *)
Propose(w, op) ==
  /\ At(w, "idle") /\ tags < MaxTags
  /\ tags' = tags + 1
  /\ \/ op = "create" /\ proc' = [proc EXCEPT ![w] = [Idle EXCEPT !.pc = "lock", !.tag = tags + 1]]
     \/ /\ op = "append"
        /\ \E f \in note : proc' = [proc EXCEPT ![w] =
             [Idle EXCEPT !.pc = "lock", !.op = op, !.tag = tags + 1, !.seen = f.text]]
  /\ UNCHANGED <<note, lock, inodes, faults, lapses>>

(* acquire: mkdir, twice at most; between the two the stale lock is renamed away. *)
AcquireLock(w) ==
  /\ At(w, "lock")
  /\ \/ /\ lock = Free /\ proc[w].tries < 2
        /\ lock' = Mkdir /\ Goes(w, "own")
     \/ /\ lock # Free /\ IsStale(lock) /\ proc[w].tries < 2
        /\ proc' = [proc EXCEPT ![w].pc = "remove", ![w].saw = lock]
        /\ UNCHANGED lock
     \/ /\ (lock # Free /\ ~IsStale(lock)) \/ proc[w].tries = 2
        /\ Ends(w) /\ UNCHANGED lock
  /\ UNCHANGED <<note, tags, inodes, faults, lapses>>

(* _remove_stale renames whatever is at the path. *)
RemoveStale(w) ==
  /\ At(w, "remove")
  /\ IF lock = Free
       THEN Ends(w) /\ UNCHANGED <<lock, lapses>>
       ELSE /\ lock' = Free
            /\ lapses' = IF lock = proc[w].saw THEN lapses ELSE lapses \union {"snatched"}
            /\ proc' = [proc EXCEPT ![w].pc = "lock", ![w].tries = @ + 1, ![w].saw = Free]
  /\ UNCHANGED <<note, tags, inodes, faults>>

(* _write_owner writes into the directory that is there; without one the call fails. *)
WriteOwner(w) ==
  /\ At(w, "own")
  /\ IF lock = Free THEN Ends(w) /\ UNCHANGED lock
                    ELSE lock' = WithOwner(lock, w) /\ Goes(w, "held")
  /\ UNCHANGED <<note, tags, inodes, faults, lapses>>

(* _atomic_create: a hard link, which fails when the note exists. *)
AtomicCreate(w) ==
  /\ At(w, "held") /\ proc[w].op = "create"
  /\ IF note = {} /\ inodes < MaxTags
       THEN /\ note' = {[ino |-> inodes + 1, text |-> <<proc[w].tag>>]} /\ inodes' = inodes + 1
       ELSE UNCHANGED <<note, inodes>>
  /\ Goes(w, "release")
  /\ UNCHANGED <<lock, tags, faults, lapses>>

(* _append: the note must exist and still be what was observed, twice over. *)
AppendCheck(w) ==
  /\ At(w, "held") /\ proc[w].op = "append"
  /\ Goes(w, IF \E f \in note : f.text = proc[w].seen THEN "open" ELSE "release")
  /\ UNCHANGED <<note, lock, tags, inodes, faults, lapses>>

(* _append_if_unchanged: the inode is opened and read, appended to through the descriptor, and compared *)
(* with the inode at the path afterwards.                                                               *)
OpenNote_Unchecked(w) ==
  \E f \in note : proc' = [proc EXCEPT ![w].pc = "write", ![w].ino = f.ino]

OpenNote(w) ==
  \/ \E f \in note : /\ f.text = proc[w].seen
                     /\ proc' = [proc EXCEPT ![w].pc = "write", ![w].ino = f.ino]
  \/ /\ \A f \in note : f.text # proc[w].seen
     /\ Goes(w, "release")

Open(w) ==
  /\ At(w, "open")
  /\ OpenNote(w)
  /\ UNCHANGED <<note, lock, tags, inodes, faults, lapses>>

Written_Replaced(w) == {[ino |-> proc[w].ino, text |-> Append(proc[w].seen, proc[w].tag)]}

Written(w) == {IF f.ino = proc[w].ino THEN [f EXCEPT !.text = Append(@, proc[w].tag)] ELSE f : f \in note}

Write(w) ==
  /\ At(w, "write")
  /\ note' = Written(w)
  /\ Goes(w, "verify")
  /\ UNCHANGED <<lock, tags, inodes, faults, lapses>>

(* The append is reported only if the path still leads to the inode that was written. *)
Succeeds(w) == At(w, "verify") /\ \E f \in note : f.ino = proc[w].ino

Verify(w) ==
  /\ At(w, "verify")
  /\ Goes(w, "release")
  /\ UNCHANGED <<note, lock, tags, inodes, faults, lapses>>

(* release: the owner is read, and then the directory is removed. *)
ReleaseCheck(w) ==
  /\ At(w, "release")
  /\ IF OwnedBy(lock, w) THEN Goes(w, "rmtree") ELSE Ends(w)
  /\ UNCHANGED <<note, lock, tags, inodes, faults, lapses>>

ReleaseLock(w) ==
  /\ At(w, "rmtree")
  /\ lock' = Free /\ Ends(w)
  /\ UNCHANGED <<note, tags, inodes, faults, lapses>>

(* The person's editor saves by rename: a new inode, whatever was in it before. *)
EditorSaves ==
  /\ tags < MaxTags /\ inodes < MaxTags
  /\ \E text \in {<<>>} \union {f.text : f \in note} :
       note' = {[ino |-> inodes + 1, text |-> Append(text, tags + 1)]}
  /\ tags' = tags + 1 /\ inodes' = inodes + 1
  /\ UNCHANGED <<lock, proc, faults, lapses>>

EditorDeletes ==
  /\ note # {} /\ faults < MaxFaults
  /\ note' = {} /\ faults' = faults + 1
  /\ UNCHANGED <<lock, proc, tags, inodes, lapses>>

Crash(w) ==
  /\ ~At(w, "idle") /\ faults < MaxFaults
  /\ faults' = faults + 1
  /\ Ends(w)
  /\ UNCHANGED <<note, lock, tags, inodes, lapses>>

(* The time to live passes. The holder may have died, or may still be at work. *)
Holding(w) == proc[w].pc \notin {"idle", "lock", "remove", "own"}

LockExpires ==
  /\ \E r \in lock :
       /\ r.by # NoToken /\ r.fresh
       /\ IF Holding(r.by)
            THEN faults < MaxFaults /\ faults' = faults + 1 /\ lapses' = lapses \union {"outlived"}
            ELSE UNCHANGED <<faults, lapses>>
  /\ lock' = Expired(lock)
  /\ UNCHANGED <<note, proc, tags, inodes>>

Friday(w) ==
  \/ \E op \in {"create", "append"} : Propose(w, op)
  \/ AcquireLock(w) \/ RemoveStale(w) \/ WriteOwner(w)
  \/ AtomicCreate(w) \/ AppendCheck(w) \/ Open(w) \/ Write(w) \/ Verify(w)
  \/ ReleaseCheck(w) \/ ReleaseLock(w)

Next ==
  \/ \E w \in Writers : Friday(w) \/ Crash(w)
  \/ EditorSaves \/ EditorDeletes \/ LockExpires

Spec == Init /\ [][Next]_vars

-----------------------------------------------------------------------------
(* What a person saved is never overwritten by an append, and an append that is reported a success is   *)
(* in the note at its path. While the lock is kept it directly follows the text that was observed       *)
(* (ObsidianVaultStore._append_if_unchanged, "Friday never clobbers it"; docs/memory.md:349).           *)
AppendsKeepText ==
  [][\A w \in Writers :
       /\ At(w, "write") /\ proc'[w].pc = "verify" =>
            \A f \in note : \E g \in note' : g.ino = f.ino /\ f.text = SubSeq(g.text, 1, Len(f.text))
       /\ Succeeds(w) /\ proc'[w].pc = "release" =>
            \E f \in note : /\ proc[w].tag \in {f.text[i] : i \in 1..Len(f.text)}
                            /\ lapses = {} => f.text = Append(proc[w].seen, proc[w].tag)]_vars
=============================================================================
