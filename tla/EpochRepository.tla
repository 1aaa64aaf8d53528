-------------------------- MODULE EpochRepository --------------------------
(***************************************************************************)
(* One table's directory of immutable epochs and the operations that       *)
(* change it: an insert (server/ingest.cpp, InsertRowAndPublish), a bulk   *)
(* load (admin/service.cpp, AdminService::Publish) and a rollback          *)
(* (AdminService::RollbackEpoch), all of them over                         *)
(* storage/local_repository.cpp.                                           *)
(*                                                                         *)
(* Operations run on threads, threads live in processes, and write_mutex   *)
(* is one mutex per process: the server and a CLI command that works on    *)
(* the same directory do not share it.  Every step below is one system     *)
(* call, or a run of calls nothing else can observe in between.            *)
(*                                                                         *)
(* The contents of an epoch are the set of its rows.  A segment file and   *)
(* the manifest are represented by the rows they were made from: the       *)
(* checks of OpenVersion (record counts and CRCs against the manifest)     *)
(* succeed exactly when all three files come from the same rows.           *)
(***************************************************************************)
EXTENDS Integers, FiniteSets

CONSTANTS
  Thread,             \* threads that run operations
  Process,            \* processes that hold a LocalEpochRepository
  ProcOf,             \* the process of each thread
  Ops,                \* the operations each thread may run
  Row,                \* the rows an operation may bring
  Keep,               \* kInsertEpochRetention (8 in the code)
  MaxVersion,         \* bound on the version numbers
  QuiescentRollback,  \* TRUE: the operator rolls back only between writes
  Faults,             \* which faults happen: "write", "read", "misread",
                      \* "crash", "power"
  NoRow,              \* stands in the set that represents a missing file
  NoDir,              \* a directory that is not there
  None                \* no thread

Version == 1 .. MaxVersion
Operation == {"insert", "load", "rollback"}

\* A file is represented by the rows it was made from.
Absent == {NoRow}
File == (SUBSET Row) \cup {Absent}
Dir == [match: File, payload: File, manifest: File, synced: BOOLEAN]

ASSUME ConstantsAssumption ==
  /\ ProcOf \in [Thread -> Process]
  /\ Ops \in [Thread -> SUBSET Operation]
  /\ Keep \in Nat
  /\ MaxVersion \in Nat \ {0}
  /\ QuiescentRollback \in BOOLEAN
  /\ NoRow \notin Row
  /\ NoDir \notin Dir
  /\ None \notin Thread

VARIABLES
  root,       \* the epoch directories and CURRENT, as running processes see them
  survivors,  \* the roots that a loss of power now may leave behind
  staging,    \* the directories .tmp.<version>
  curTmp,     \* what the file CURRENT.tmp holds
  mutex,      \* write_mutex of each process: its holder or None
  pc,         \* per thread: the next step of its operation
  op,         \* per thread: the operation
  row,        \* per thread: the row it brings
  base,       \* per thread: the rows it copied from the current epoch
  ver,        \* per thread: the version it opens, publishes or points CURRENT at
  fd,         \* per thread: the file its descriptor for CURRENT.tmp refers to
  victims,    \* per thread: the versions Prune has still to delete
  acked       \* history: the version CURRENT was last reported to name, or 0

disk == <<root, survivors, staging, curTmp>>
locals == <<op, row, base, ver, fd, victims>>
vars == <<disk, mutex, pc, locals, acked>>

-----------------------------------------------------------------------------
(* Files and directories.                                                  *)

\* CURRENT and CURRENT.tmp hold a version, or are missing, or are empty.
NoFile == 0
Empty == -1
Pointer == Version \cup {NoFile, Empty}

EmptyDir ==
  [match |-> Absent, payload |-> Absent, manifest |-> Absent, synced |-> FALSE]

HasFiles(d) == {d.match, d.payload, d.manifest} # {Absent}

\* OpenVersion succeeds: the directory is there and its files agree.
Readable(d) ==
  d # NoDir /\ d.manifest # Absent /\ d.match = d.manifest /\ d.payload = d.manifest

Root == [epochs: [Version -> Dir \cup {NoDir}], current: Pointer]

EpochDirs(r) == {v \in Version : r.epochs[v] # NoDir}

\* A step that changes the root leaves one more root a loss of power may keep.
SetRoot(r) ==
  /\ root' = r
  /\ survivors' = survivors \cup {r}

\* Mutant of FsyncRoot: the directory is not synced.
FsyncForgotten == UNCHANGED <<root, survivors>>

\* FsyncDir on the root: what is there now is there for good.
FsyncRoot ==
  /\ survivors' = {root}
  /\ UNCHANGED root

RowsAt(r, v) ==
  IF v \in Version /\ Readable(r.epochs[v]) THEN r.epochs[v].manifest ELSE {}

-----------------------------------------------------------------------------

Init ==
  /\ root = [epochs |-> [v \in Version |-> NoDir], current |-> NoFile]
  /\ survivors = {root}
  /\ staging = [v \in Version |-> NoDir]
  /\ curTmp = NoFile
  /\ mutex = [p \in Process |-> None]
  /\ pc = [t \in Thread |-> "idle"]
  /\ op = [t \in Thread |-> "none"]
  /\ row = [t \in Thread |-> NoRow]
  /\ base = [t \in Thread |-> {}]
  /\ ver = [t \in Thread |-> NoFile]
  /\ fd = [t \in Thread |-> "closed"]
  /\ victims = [t \in Thread |-> {}]
  /\ acked = 0

Goto(t, label) == pc' = [pc EXCEPT ![t] = label]

\* The operator's discipline when QuiescentRollback holds.
MayStart(t, o) ==
  /\ pc[t] = "idle"
  /\ o \in Ops[t]
  /\ QuiescentRollback =>
       \A u \in Thread \ {t} :
         pc[u] # "idle" => o # "rollback" /\ op[u] # "rollback"

\* Bound: every operation under way finds a version number left to take.
VersionsLeft ==
  \A v \in EpochDirs(root) \cup {0} :
    v + Cardinality({t \in Thread : pc[t] # "idle"}) < MaxVersion

\* InsertRowAndPublish or AdminService::Publish is called.
StartWrite(t) ==
  \E o \in {"insert", "load"}, r \in Row :
    /\ MayStart(t, o)
    /\ VersionsLeft
    /\ op' = [op EXCEPT ![t] = o]
    /\ row' = [row EXCEPT ![t] = r]
    /\ Goto(t, "lock")
    /\ UNCHANGED <<disk, mutex, base, ver, fd, victims, acked>>

\* AdminService::RollbackEpoch is called; it takes no lock.
StartRollback(t) ==
  \E v \in Version :
    /\ MayStart(t, "rollback")
    /\ op' = [op EXCEPT ![t] = "rollback"]
    /\ ver' = [ver EXCEPT ![t] = v]
    /\ Goto(t, "open")
    /\ UNCHANGED <<disk, mutex, row, base, fd, victims, acked>>

\* Mutant of Lock: the mutex is not waited for.
LockSkipped(t) ==
  /\ pc[t] = "lock"
  /\ mutex' = [mutex EXCEPT ![ProcOf[t]] = t]
  /\ Goto(t, IF op[t] = "insert" THEN "current" ELSE "next")
  /\ UNCHANGED <<disk, locals, acked>>

\* The lock_guard on write_mutex.
Lock(t) ==
  /\ pc[t] = "lock"
  /\ mutex[ProcOf[t]] = None
  /\ mutex' = [mutex EXCEPT ![ProcOf[t]] = t]
  /\ Goto(t, IF op[t] = "insert" THEN "current" ELSE "next")
  /\ UNCHANGED <<disk, locals, acked>>

\* OpenCurrent, first half: read CURRENT.  A missing or an unreadable file ends
\* the insert.
ReadCurrent(t) ==
  /\ pc[t] = "current"
  /\ IF root.current \in Version
       THEN /\ ver' = [ver EXCEPT ![t] = root.current]
            /\ Goto(t, "open")
       ELSE /\ Goto(t, "error")
            /\ UNCHANGED ver
  /\ UNCHANGED <<disk, mutex, op, row, base, fd, victims, acked>>

\* Mutant of OpenVersion: a rollback's target is not opened first.
OpenVersionUnchecked(t) ==
  /\ pc[t] = "open"
  /\ IF Readable(root.epochs[ver[t]])
       THEN base' = [base EXCEPT ![t] = root.epochs[ver[t]].manifest]
       ELSE UNCHANGED base
  /\ Goto(t, IF op[t] = "rollback" THEN "trunc" ELSE
             IF Readable(root.epochs[ver[t]]) THEN "next" ELSE "error")
  /\ UNCHANGED <<disk, mutex, op, row, ver, fd, victims, acked>>

\* OpenVersion, for the rows an insert copies or to vet a rollback's target.
OpenVersion(t) ==
  /\ pc[t] = "open"
  /\ IF Readable(root.epochs[ver[t]])
       THEN /\ base' = [base EXCEPT ![t] = root.epochs[ver[t]].manifest]
            /\ Goto(t, IF op[t] = "insert" THEN "next" ELSE "trunc")
       ELSE /\ Goto(t, "error")
            /\ UNCHANGED base
  /\ UNCHANGED <<disk, mutex, op, row, ver, fd, victims, acked>>

\* The version to publish: CURRENT + 1, or 1 when CURRENT cannot be read.
NextVersion(t) ==
  /\ pc[t] = "next"
  /\ root.current < MaxVersion  \* bound
  /\ ver' = [ver EXCEPT ![t] =
               IF root.current \in Version THEN root.current + 1 ELSE 1]
  /\ Goto(t, "exists")
  /\ UNCHANGED <<disk, mutex, op, row, base, fd, victims, acked>>

-----------------------------------------------------------------------------
(* LocalEpochRepository::Publish.                                          *)

\* A published version is never published again (AlreadyExists).
CheckExists(t) ==
  /\ pc[t] = "exists"
  /\ Goto(t, IF root.epochs[ver[t]] # NoDir THEN "error" ELSE "mkdir")
  /\ UNCHANGED <<disk, mutex, locals, acked>>

\* remove_all(tmp), then CreateDir(tmp).
MakeStagingDir(t) ==
  /\ pc[t] = "mkdir"
  /\ staging' = [staging EXCEPT ![ver[t]] = EmptyDir]
  /\ Goto(t, "match")
  /\ UNCHANGED <<root, survivors, curTmp, mutex, locals, acked>>

\* The rows of the staging epoch: the copied ones and the new one.
StagedRows(t) == base[t] \cup {row[t]}

\* Writes one file of the staging directory durably.  If another process took
\* the directory away, the call fails.
WriteStaged(t, from, to, d) ==
  /\ pc[t] = from
  /\ IF staging[ver[t]] = NoDir
       THEN /\ Goto(t, "cleanup")
            /\ UNCHANGED staging
       ELSE /\ staging' = [staging EXCEPT ![ver[t]] = d]
            /\ Goto(t, to)
  /\ UNCHANGED <<root, survivors, curTmp, mutex, locals, acked>>

WriteMatchSegment(t) ==
  WriteStaged(t, "match", "payload", [staging[ver[t]] EXCEPT !.match = StagedRows(t)])

WritePayloadSegment(t) ==
  WriteStaged(t, "payload", "manifest", [staging[ver[t]] EXCEPT !.payload = StagedRows(t)])

WriteManifest(t) ==
  WriteStaged(t, "manifest", "sync", [staging[ver[t]] EXCEPT !.manifest = StagedRows(t)])

\* Mutant of SyncStagingDir: the staging directory is renamed unsynced.
SyncStagingDirSkipped(t) == WriteStaged(t, "sync", "rename", staging[ver[t]])

\* FsyncDir(tmp).
SyncStagingDir(t) ==
  WriteStaged(t, "sync", "rename", [staging[ver[t]] EXCEPT !.synced = TRUE])

\* rename(tmp, EpochDir): fails without a source or onto a non-empty directory.
RenameEpoch(t) ==
  /\ pc[t] = "rename"
  /\ IF \/ staging[ver[t]] = NoDir
        \/ root.epochs[ver[t]] # NoDir /\ HasFiles(root.epochs[ver[t]])
       THEN /\ Goto(t, "cleanup")
            /\ UNCHANGED <<root, survivors, staging>>
       ELSE /\ SetRoot([root EXCEPT !.epochs[ver[t]] = staging[ver[t]]])
            /\ staging' = [staging EXCEPT ![ver[t]] = NoDir]
            /\ Goto(t, "fsync")
  /\ UNCHANGED <<curTmp, mutex, locals, acked>>

\* FsyncDir(root), the second half of RenameDurably.
SyncEpoch(t) ==
  /\ pc[t] = "fsync"
  /\ FsyncRoot
  /\ Goto(t, "trunc")
  /\ UNCHANGED <<staging, curTmp, mutex, locals, acked>>

\* The error paths of Publish: remove_all(tmp) and return the status.
CleanUp(t) ==
  /\ pc[t] = "cleanup"
  /\ staging' = [staging EXCEPT ![ver[t]] = NoDir]
  /\ Goto(t, "error")
  /\ UNCHANGED <<root, survivors, curTmp, mutex, locals, acked>>

-----------------------------------------------------------------------------
(* SetCurrent: CURRENT.tmp is opened with O_TRUNC, written and renamed.    *)

TruncateCurrentTmp(t) ==
  /\ pc[t] = "trunc"
  /\ curTmp' = Empty
  /\ fd' = [fd EXCEPT ![t] = "tmp"]
  /\ Goto(t, "write")
  /\ UNCHANGED <<root, survivors, staging, mutex, op, row, base, ver, victims, acked>>

\* The bytes go to the file that was opened, wherever it has been renamed to.
WriteCurrentTmp(t) ==
  /\ pc[t] = "write"
  /\ curTmp' = IF fd[t] = "tmp" THEN ver[t] ELSE curTmp
  /\ IF fd[t] = "current"
       THEN SetRoot([root EXCEPT !.current = ver[t]])
       ELSE UNCHANGED <<root, survivors>>
  /\ fd' = [fd EXCEPT ![t] = "closed"]
  /\ Goto(t, "swap")
  /\ UNCHANGED <<staging, mutex, op, row, base, ver, victims, acked>>

\* What a descriptor refers to after CURRENT.tmp replaced CURRENT.
Renamed(file) ==
  CASE file = "tmp" -> "current"
    [] file = "current" -> "unlinked"
    [] OTHER -> file

\* rename(CURRENT.tmp, CURRENT): fails if another SetCurrent renamed it first.
SwapCurrent(t) ==
  /\ pc[t] = "swap"
  /\ IF curTmp = NoFile
       THEN /\ Goto(t, "error")
            /\ UNCHANGED <<root, survivors, curTmp, fd, acked>>
       ELSE /\ SetRoot([root EXCEPT !.current = curTmp])
            /\ curTmp' = NoFile
            /\ fd' = [u \in Thread |-> Renamed(fd[u])]
            /\ acked' = 0
            /\ Goto(t, "fsync2")
  /\ UNCHANGED <<staging, mutex, op, row, base, ver, victims>>

\* FsyncDir(root); an insert goes on to Prune.
SyncCurrent(t) ==
  /\ pc[t] = "fsync2"
  /\ FsyncRoot
  /\ Goto(t, IF op[t] = "insert" THEN "list" ELSE "ok")
  /\ UNCHANGED <<staging, curTmp, mutex, locals, acked>>

-----------------------------------------------------------------------------
(* Prune.                                                                  *)

\* Mutant of Superseded: one version too many is deleted.
SupersededTooMany(dirs) ==
  IF Keep = 0 THEN {} ELSE {v \in dirs : Cardinality({w \in dirs : w > v}) >= Keep - 1}

\* All versions but the Keep highest; none when Keep = 0.
Superseded(dirs) ==
  IF Keep = 0 THEN {} ELSE {v \in dirs : Cardinality({w \in dirs : w > v}) >= Keep}

ListVictims(t) ==
  /\ pc[t] = "list"
  /\ victims' = [victims EXCEPT ![t] = Superseded(EpochDirs(root))]
  /\ Goto(t, "prune")
  /\ UNCHANGED <<disk, mutex, op, row, base, ver, fd, acked>>

Lowest(S) == CHOOSE v \in S : \A w \in S : v <= w

\* remove_all, first half: the files of the lowest victim are unlinked.
RemoveFiles(t) ==
  /\ pc[t] = "prune"
  /\ victims[t] # {}
  /\ LET v == Lowest(victims[t]) IN
       IF root.epochs[v] = NoDir
         THEN UNCHANGED <<root, survivors>>
         ELSE SetRoot([root EXCEPT !.epochs[v] = EmptyDir])
  /\ Goto(t, "rmdir")
  /\ UNCHANGED <<staging, curTmp, mutex, locals, acked>>

\* remove_all, second half: the directory goes.
RemoveDir(t) ==
  /\ pc[t] = "rmdir"
  /\ LET v == Lowest(victims[t]) IN
       /\ SetRoot([root EXCEPT !.epochs[v] = NoDir])
       /\ victims' = [victims EXCEPT ![t] = @ \ {v}]
  /\ Goto(t, "prune")
  /\ UNCHANGED <<staging, curTmp, mutex, op, row, base, ver, fd, acked>>

PruneDone(t) ==
  /\ pc[t] = "prune"
  /\ victims[t] = {}
  /\ Goto(t, "ok")
  /\ UNCHANGED <<disk, mutex, locals, acked>>

\* The threads in S run no operation any more: their mutexes, descriptors and
\* locals are gone.
Leave(S) ==
  /\ pc' = [t \in Thread |-> IF t \in S THEN "idle" ELSE pc[t]]
  /\ mutex' = [p \in Process |-> IF mutex[p] \in S THEN None ELSE mutex[p]]
  /\ op' = [t \in Thread |-> IF t \in S THEN "none" ELSE op[t]]
  /\ row' = [t \in Thread |-> IF t \in S THEN NoRow ELSE row[t]]
  /\ fd' = [t \in Thread |-> IF t \in S THEN "closed" ELSE fd[t]]
  /\ base' = [t \in Thread |-> IF t \in S THEN {} ELSE base[t]]
  /\ ver' = [t \in Thread |-> IF t \in S THEN NoFile ELSE ver[t]]
  /\ victims' = [t \in Thread |-> IF t \in S THEN {} ELSE victims[t]]

\* The operation returns; the lock_guard releases the mutex.
Return(t) ==
  /\ pc[t] \in {"ok", "error"}
  /\ acked' = IF pc[t] = "ok" THEN ver[t] ELSE acked
  /\ Leave({t})
  /\ UNCHANGED disk

-----------------------------------------------------------------------------
(* Faults.                                                                 *)

\* A system call of a write path fails.  Publish removes its staging directory,
\* SetCurrent only reports, and the result of Prune is ignored.
WriteFault(t) ==
  /\ "write" \in Faults
  /\ \/ /\ pc[t] = "mkdir"
        /\ staging' = [staging EXCEPT ![ver[t]] = NoDir]
        /\ Goto(t, "error")
     \/ /\ pc[t] \in {"match", "payload", "manifest", "sync", "rename", "fsync"}
        /\ Goto(t, "cleanup")
        /\ UNCHANGED staging
     \/ /\ pc[t] \in {"trunc", "write", "swap", "fsync2"}
        /\ Goto(t, "error")
        /\ UNCHANGED staging
     \/ /\ pc[t] \in {"list", "prune", "rmdir"}
        /\ Goto(t, "ok")
        /\ UNCHANGED staging
  /\ fd' = [fd EXCEPT ![t] = "closed"]
  /\ UNCHANGED <<root, survivors, curTmp, mutex, op, row, base, ver, victims, acked>>

\* CURRENT or an epoch cannot be read (no descriptor left, an I/O error).  The
\* version to publish falls back to 1; the fault "misread" is that this happens
\* when epoch 1 is gone, so that the version is free.
ReadFault(t) ==
  /\ "read" \in Faults
  /\ \/ /\ pc[t] \in {"current", "open"}
        /\ Goto(t, "error")
        /\ UNCHANGED ver
     \/ /\ pc[t] = "next"
        /\ "misread" \in Faults \/ root.epochs[1] # NoDir
        /\ ver' = [ver EXCEPT ![t] = 1]
        /\ Goto(t, "exists")
  /\ UNCHANGED <<disk, mutex, op, row, base, fd, victims, acked>>

\* A process dies; the files stay as they are.
Crash(p) ==
  /\ "crash" \in Faults
  /\ Leave({t \in Thread : ProcOf[t] = p})
  /\ UNCHANGED <<disk, acked>>

\* A directory that was never synced loses its files.
AfterPowerLoss(r) ==
  [r EXCEPT !.epochs = [v \in Version |->
     IF r.epochs[v] = NoDir \/ r.epochs[v].synced THEN r.epochs[v] ELSE EmptyDir]]

\* The machine dies.  Changes to the root reach the disk in the order they were
\* made, so one of the roots since the last FsyncDir is found again.
PowerLoss ==
  /\ "power" \in Faults
  /\ \E r \in survivors :
       /\ root' = AfterPowerLoss(r)
       /\ survivors' = {AfterPowerLoss(r)}
  /\ Leave(Thread)
  /\ UNCHANGED <<staging, curTmp, acked>>

-----------------------------------------------------------------------------

Step(t) ==
  \/ Lock(t) \/ ReadCurrent(t) \/ OpenVersion(t) \/ NextVersion(t)
  \/ CheckExists(t) \/ MakeStagingDir(t) \/ WriteMatchSegment(t)
  \/ WritePayloadSegment(t) \/ WriteManifest(t) \/ SyncStagingDir(t)
  \/ RenameEpoch(t) \/ SyncEpoch(t) \/ CleanUp(t)
  \/ TruncateCurrentTmp(t) \/ WriteCurrentTmp(t) \/ SwapCurrent(t)
  \/ SyncCurrent(t) \/ ListVictims(t) \/ RemoveFiles(t) \/ RemoveDir(t)
  \/ PruneDone(t) \/ Return(t)

Next ==
  \/ \E t \in Thread : StartWrite(t) \/ StartRollback(t) \/ Step(t)
  \/ \E t \in Thread : WriteFault(t) \/ ReadFault(t)
  \/ \E p \in Process : Crash(p)
  \/ PowerLoss

Spec == Init /\ [][Next]_vars

-----------------------------------------------------------------------------
(* Properties.                                                             *)

Label ==
  {"idle", "lock", "current", "open", "next", "exists", "mkdir", "match",
   "payload", "manifest", "sync", "rename", "fsync", "trunc", "write", "swap",
   "fsync2", "list", "prune", "rmdir", "cleanup", "ok", "error"}

\* The type invariant.
TypeOK ==
  /\ root \in Root
  /\ survivors \subseteq Root
  /\ staging \in [Version -> Dir \cup {NoDir}]
  /\ curTmp \in Pointer
  /\ mutex \in [Process -> Thread \cup {None}]
  /\ pc \in [Thread -> Label]
  /\ op \in [Thread -> Operation \cup {"none"}]
  /\ row \in [Thread -> Row \cup {NoRow}]
  /\ base \in [Thread -> SUBSET Row]
  /\ ver \in [Thread -> 0 .. MaxVersion]
  /\ fd \in [Thread -> {"closed", "tmp", "current", "unlinked"}]
  /\ victims \in [Thread -> SUBSET Version]
  /\ acked \in 0 .. MaxVersion

\* CURRENT, once written, names an epoch that opens: Publish makes the epoch
\* durable before it swaps CURRENT, Rollback opens its target first, and Prune
\* "never" deletes CURRENT (storage/repository.h:80), crashes, failed calls and
\* losses of power included.
CurrentReadable ==
  root.current # NoFile =>
    root.current \in Version /\ Readable(root.epochs[root.current])

\* An operation that reported success stays done: until the next swap CURRENT
\* is the version it reported, also after a crash or a loss of power
\* (WriteFileDurably and RenameDurably in SetCurrent).
AckedIsCurrent ==
  acked # 0 => root.current = acked

\* The Keep highest versions of a root open.
Window(r) ==
  \A hi \in EpochDirs(r) :
    (\A w \in EpochDirs(r) : w <= hi) =>
      \A v \in Version : hi - Keep < v /\ v <= hi => Readable(r.epochs[v])

\* Prune leaves "a bounded rollback window" (storage/repository.h:79): the Keep
\* highest versions stay, and all of them open.
RollbackWindow == Window(root)

\* No lost update: the epoch an insert swaps in holds every row of the epoch it
\* replaces, although it was built from rows read many steps earlier
\* (server/ingest.cpp:176-179).
NoLostUpdate ==
  [][\A t \in Thread :
       pc[t] = "swap" /\ pc'[t] = "fsync2" /\ op[t] = "insert" =>
         RowsAt(root, root.current) \subseteq RowsAt(root', root'.current)]_vars

\* The repository implements the abstract store: an epoch is what its manifest
\* says if the directory opens, and nothing otherwise.
Abstract(r) ==
  [epochs |-> [v \in Version |->
                IF Readable(r.epochs[v]) THEN r.epochs[v].manifest ELSE Absent],
   current |-> r.current]

Store == INSTANCE EpochStore
           WITH NoVersion <- NoFile, NoEpoch <- Absent,
                state <- Abstract(root), possible <- {Abstract(r) : r \in survivors}

\* Every step of every operation, fault and crash is a step of EpochStore or
\* changes nothing there: epochs appear whole, never change, and are dropped
\* only while CURRENT names another (storage/repository.h:52-53, 78-80).
ImplementsStore == Store!Spec

\* "CURRENT is never deleted" (storage/repository.h:80): Prune removes no
\* directory that CURRENT names when it goes.
CurrentNeverDeleted ==
  [][\A v \in Version :
       root.epochs[v] # NoDir /\ root'.epochs[v] = NoDir => v # root.current]_vars

\* A writer that holds write_mutex finds its version free: the AlreadyExists that
\* storage/repository.h:90-92 describes is what happens "without" the mutex, and
\* Insert "publishes a new immutable epoch" (proto/opaquedb.proto:16).
WriterFindsVersionFree ==
  \A t \in Thread : pc[t] = "exists" => root.epochs[ver[t]] = NoDir
=============================================================================
