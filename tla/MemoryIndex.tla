---------------------------- MODULE MemoryIndex -----------------------------
(* The structural index of the vault: workers inspect it on their maintenance tick, rebuild it under    *)
(* the build lock and promote it by renames, while retrieval reads it with no lock at all. The vault is *)
(* its version; versions are not repeated. A directory is a set: empty, or one record with its inode,   *)
(* the source hash in its metadata and the version its graph was extracted from (0 = no such file).     *)
EXTENDS FileLock

CONSTANTS Builders,    \* worker processes that refresh the index
          Readers,     \* retrievals
          MaxVault,    \* bound on the versions of the vault
          Inodes,      \* of directories; one is not used again while a retrieval remembers it
          MaxFaults    \* bound on crashes, failed extractions and builders that outlive their lock

VARIABLES vault, lock, corpus, staging, active, previous, builder, reader, faults, lapses

vars == <<vault, lock, corpus, staging, active, previous, builder, reader, faults, lapses>>
files == <<vault, corpus, staging, active, previous>>

Versions == 1..MaxVault
Directory == [ino : Inodes, label : 0..MaxVault, graph : 0..MaxVault]
Directories == {{}} \union {{d} : d \in Directory}

Resting == [pc |-> "idle", src |-> 0, tries |-> 0, saw |-> Free]
Away == [pc |-> "idle", tries |-> 0, before |-> 0, label |-> 0, from |-> 0, graph |-> 0, of |-> 0]

TypeOK ==
  /\ vault \in Versions /\ corpus \in 0..MaxVault /\ lock \in LockOf(Builders)
  /\ staging \in Directories /\ active \in Directories /\ previous \in Directories
  /\ builder \in [Builders -> [pc : {"idle", "hash", "lock", "remove", "own", "clear", "stage", "extract",
                                     "metadata", "drop", "retire", "promote", "clean", "release", "rmtree"},
                               src : 0..MaxVault, tries : 0..2, saw : LockOf(Builders)]]
  /\ reader \in [Readers -> [pc : {"idle", "metadata", "graph", "after", "got"}, tries : 0..2,
                             before : Inodes \union {0}, label : 0..MaxVault, from : Inodes \union {0},
                             graph : 0..MaxVault, of : Inodes \union {0}]]
  /\ faults \in 0..MaxFaults /\ lapses \in SUBSET {"outlived", "snatched"}

Init ==
  /\ vault = 1 /\ corpus = 0 /\ lock = Free
  /\ staging = {} /\ active = {} /\ previous = {}
  /\ builder = [b \in Builders |-> Resting] /\ reader = [r \in Readers |-> Away]
  /\ faults = 0 /\ lapses = {}

At(b, pc) == builder[b].pc = pc
Goes(b, pc) == builder' = [builder EXCEPT ![b].pc = pc]
Ends(b) == builder' = [builder EXCEPT ![b] = Resting]

-----------------------------------------------------------------------------
(* GraphifyJsonIndex.status and InspectMemoryIndex: fresh is having the hash of the vault as it is.     *)
Fresh == \E d \in active : d.graph # 0 /\ d.label = vault

RefreshIfStale(b) ==
  /\ At(b, "idle") /\ ~Fresh
  /\ Goes(b, "hash")
  /\ UNCHANGED <<files, lock, reader, faults, lapses>>

(* BuildMemoryIndex reads the source hash, and only then asks for the build. *)
ReadSourceHash(b) ==
  /\ At(b, "hash")
  /\ builder' = [builder EXCEPT ![b].pc = "lock", ![b].src = vault]
  /\ UNCHANGED <<files, lock, reader, faults, lapses>>

AcquireLock(b) ==
  /\ At(b, "lock")
  /\ \/ /\ lock = Free /\ builder[b].tries < 2
        /\ lock' = Mkdir /\ Goes(b, "own")
     \/ /\ lock # Free /\ IsStale(lock) /\ builder[b].tries < 2
        /\ builder' = [builder EXCEPT ![b].pc = "remove", ![b].saw = lock]
        /\ UNCHANGED lock
     \/ /\ (lock # Free /\ ~IsStale(lock)) \/ builder[b].tries = 2
        /\ Ends(b) /\ UNCHANGED lock
  /\ UNCHANGED <<files, reader, faults, lapses>>

RemoveStale(b) ==
  /\ At(b, "remove")
  /\ IF lock = Free
       THEN Ends(b) /\ UNCHANGED <<lock, lapses>>
       ELSE /\ lock' = Free
            /\ lapses' = IF lock = builder[b].saw THEN lapses ELSE lapses \union {"snatched"}
            /\ builder' = [builder EXCEPT ![b].pc = "lock", ![b].tries = @ + 1, ![b].saw = Free]
  /\ UNCHANGED <<files, reader, faults>>

WriteOwner(b) ==
  /\ At(b, "own")
  /\ IF lock = Free THEN Ends(b) /\ UNCHANGED lock
                    ELSE lock' = WithOwner(lock, b) /\ Goes(b, "clear")
  /\ UNCHANGED <<files, reader, faults, lapses>>

(* _build_locked. The staging and source directories have fixed names. *)
InUse == {d.ino : d \in staging \union active \union previous}
           \union UNION {{reader[r].before, reader[r].from, reader[r].of} : r \in Readers}

ClearStaging(b) ==
  /\ At(b, "clear")
  /\ staging' = {[ino |-> CHOOSE i \in Inodes \ InUse : TRUE, label |-> 0, graph |-> 0]}
  /\ corpus' = 0 /\ Goes(b, "stage")
  /\ UNCHANGED <<vault, lock, active, previous, reader, faults, lapses>>

StageSourceCorpus(b) ==
  /\ At(b, "stage")
  /\ corpus' = vault /\ Goes(b, "extract")
  /\ UNCHANGED <<vault, lock, staging, active, previous, reader, faults, lapses>>

(* The bounded Graphify process, which reads the corpus and leaves a graph in staging. *)
Extract(b) ==
  /\ At(b, "extract")
  /\ \/ /\ staging # {}
        /\ staging' = {[d EXCEPT !.graph = corpus] : d \in staging}
        /\ Goes(b, "metadata") /\ UNCHANGED faults
     \/ /\ staging = {} /\ Goes(b, "clean") /\ UNCHANGED <<staging, faults>>
     \/ /\ faults < MaxFaults /\ faults' = faults + 1
        /\ Goes(b, "clean") /\ UNCHANGED staging
  /\ UNCHANGED <<vault, corpus, lock, active, previous, reader, lapses>>

(* IndexMetadata.write: the hash the request was made with. *)
Labelled_Now(b) == vault

Labelled(b) == builder[b].src

WriteMetadata(b) ==
  /\ At(b, "metadata")
  /\ staging' = {[d EXCEPT !.label = Labelled(b)] : d \in staging}
  /\ Goes(b, IF staging = {} THEN "clean" ELSE "drop")
  /\ UNCHANGED <<vault, corpus, lock, active, previous, reader, faults, lapses>>

(* _promote: three calls. *)
DropPrevious(b) ==
  /\ At(b, "drop")
  /\ previous' = {} /\ Goes(b, "retire")
  /\ UNCHANGED <<vault, corpus, lock, staging, active, reader, faults, lapses>>

RetireActive(b) ==
  /\ At(b, "retire")
  /\ IF active = {} THEN UNCHANGED <<active, previous>> ELSE previous' = active /\ active' = {}
  /\ Goes(b, "promote")
  /\ UNCHANGED <<vault, corpus, lock, staging, reader, faults, lapses>>

(* os.replace fails without a staging directory, and onto a directory that is not empty. *)
PromoteStaging(b) ==
  /\ At(b, "promote")
  /\ IF staging # {} /\ active = {} THEN active' = staging /\ staging' = {}
                                    ELSE UNCHANGED <<active, staging>>
  /\ Goes(b, "clean")
  /\ UNCHANGED <<vault, corpus, lock, previous, reader, faults, lapses>>

CleanUp(b) ==
  /\ At(b, "clean")
  /\ staging' = {} /\ corpus' = 0 /\ Goes(b, "release")
  /\ UNCHANGED <<vault, lock, active, previous, reader, faults, lapses>>

ReleaseCheck(b) ==
  /\ At(b, "release")
  /\ IF OwnedBy(lock, b) THEN Goes(b, "rmtree") ELSE Ends(b)
  /\ UNCHANGED <<files, lock, reader, faults, lapses>>

ReleaseLock(b) ==
  /\ At(b, "rmtree")
  /\ lock' = Free /\ Ends(b)
  /\ UNCHANGED <<files, reader, faults, lapses>>

Build(b) ==
  \/ RefreshIfStale(b) \/ ReadSourceHash(b) \/ AcquireLock(b) \/ RemoveStale(b) \/ WriteOwner(b)
  \/ ClearStaging(b) \/ StageSourceCorpus(b) \/ Extract(b) \/ WriteMetadata(b)
  \/ DropPrevious(b) \/ RetireActive(b) \/ PromoteStaging(b) \/ CleanUp(b)
  \/ ReleaseCheck(b) \/ ReleaseLock(b)

Crash(b) ==
  /\ ~At(b, "idle") /\ faults < MaxFaults
  /\ faults' = faults + 1 /\ Ends(b)
  /\ UNCHANGED <<files, lock, reader, lapses>>

Holding(b) == builder[b].pc \notin {"idle", "hash", "lock", "remove", "own"}

(* The time to live passes: of a lock whose owner is gone, or of one still in use. *)
AbandonedLockExpires ==
  /\ \E r \in lock : r.by # NoToken /\ r.fresh /\ ~Holding(r.by)
  /\ lock' = Expired(lock)
  /\ UNCHANGED <<files, builder, reader, faults, lapses>>

BuildOutlivesLock ==
  /\ \E r \in lock : r.by # NoToken /\ r.fresh /\ Holding(r.by)
  /\ faults < MaxFaults /\ faults' = faults + 1
  /\ lock' = Expired(lock) /\ lapses' = lapses \union {"outlived"}
  /\ UNCHANGED <<files, builder, reader>>

(* A note is written, by a person or by a memory tool. *)
VaultChanges ==
  /\ vault < MaxVault /\ vault' = vault + 1
  /\ UNCHANGED <<corpus, lock, staging, active, previous, builder, reader, faults, lapses>>

-----------------------------------------------------------------------------
(* _load_snapshot_view: the inode of the active directory before and after both reads, two tries.       *)
ReaderAt(r, pc) == reader[r].pc = pc
Reads(r, record) == reader' = [reader EXCEPT ![r] = record]

StatBefore(r) ==
  /\ ReaderAt(r, "idle") /\ reader[r].tries < 2
  /\ \E d \in active : Reads(r, [reader[r] EXCEPT !.pc = "metadata", !.before = d.ino])
  /\ UNCHANGED <<files, lock, builder, faults, lapses>>

ReadMetadata(r) ==
  /\ ReaderAt(r, "metadata")
  /\ \/ \E d \in active : Reads(r, [reader[r] EXCEPT !.pc = "graph", !.label = d.label, !.from = d.ino])
     \/ active = {} /\ Reads(r, [reader[r] EXCEPT !.pc = "graph", !.label = 0, !.from = 0])
  /\ UNCHANGED <<files, lock, builder, faults, lapses>>

ReadGraph(r) ==
  /\ ReaderAt(r, "graph")
  /\ \/ \E d \in active : Reads(r, [reader[r] EXCEPT !.pc = "after", !.graph = d.graph, !.of = d.ino])
     \/ active = {} /\ Reads(r, [reader[r] EXCEPT !.pc = "after", !.graph = 0, !.of = 0])
  /\ UNCHANGED <<files, lock, builder, faults, lapses>>

Unmoved_Unchecked(r) == TRUE

Unmoved(r) == \E d \in active : d.ino = reader[r].before

StatAfter(r) ==
  /\ ReaderAt(r, "after")
  /\ IF active = {} THEN Reads(r, Away)
     ELSE IF ~Unmoved(r) THEN Reads(r, [Away EXCEPT !.tries = reader[r].tries + 1])
     ELSE IF reader[r].graph = 0 \/ reader[r].label = 0 THEN Reads(r, Away)
     ELSE Reads(r, [reader[r] EXCEPT !.pc = "got"])
  /\ UNCHANGED <<files, lock, builder, faults, lapses>>

Retrieved(r) ==
  /\ ReaderAt(r, "got") \/ reader[r].tries = 2
  /\ Reads(r, Away)
  /\ UNCHANGED <<files, lock, builder, faults, lapses>>

Read(r) == StatBefore(r) \/ ReadMetadata(r) \/ ReadGraph(r) \/ StatAfter(r) \/ Retrieved(r)

Next ==
  \/ \E b \in Builders : Build(b) \/ Crash(b)
  \/ \E r \in Readers : Read(r)
  \/ AbandonedLockExpires \/ BuildOutlivesLock \/ VaultChanges

Spec == Init /\ [][Next]_vars

(* serve_forever repeats the maintenance tick; a build is bounded by its timeout; time passes. *)
Fairness == (\A b \in Builders : WF_vars(Build(b))) /\ WF_vars(AbandonedLockExpires)

-----------------------------------------------------------------------------
(* An index that is fresh was extracted from the vault as it is, as long as the build lock was not      *)
(* lost (BuildMemoryIndex takes the source hash before the corpus is copied).                           *)
FreshMeansCurrent == Fresh /\ lapses = {} => \A d \in active : d.graph = vault

(* What one retrieval uses, snapshot id and graph, is of one generation of the index, promotions under  *)
(* it notwithstanding (GraphifyJsonIndex._load_snapshot_view).                                          *)
OneGeneration == \A r \in Readers : ReaderAt(r, "got") => reader[r].from = reader[r].of

(* Both: what the index says of itself can be relied on, by a worker that decides on a build and by a   *)
(* retrieval (GraphifyJsonIndex.status, GraphifyJsonIndex._load_snapshot_view).                         *)
IndexIsConsistent == FreshMeansCurrent /\ OneGeneration

(* The index becomes fresh again and again once the vault is left alone, whatever crashed on the way. A *)
(* process that died between mkdir and owner.json leaves a lock nobody recovers, and is the exception   *)
(* (RefreshMemoryIndexIfStale on every maintenance tick).                                               *)
IndexCatchesUp == []<>(Fresh \/ Ownerless(lock))
=============================================================================
