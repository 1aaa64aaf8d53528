----------------------- MODULE EpochRepositoryProofs -----------------------
(***************************************************************************)
(* Proofs about EpochRepository, for every number of threads, versions and *)
(* rows and every retention.                                               *)
(***************************************************************************)
EXTENDS EpochInvariant, TLAPS, FiniteSetTheorems, WellFoundedInduction

-----------------------------------------------------------------------------
(* Type correctness.                                                       *)

\* A directory without files is a directory.
LEMMA EmptyDirType == EmptyDir \in Dir /\ EmptyDir # NoDir
<1>1. Absent \in File
  BY DEF File
<1>2. EmptyDir \in Dir
  BY <1>1 DEF EmptyDir, Dir
<1> QED BY <1>2, ConstantsAssumption, Zenon

\* Versions and the retention are natural numbers.
LEMMA VersionType ==
  /\ Version \subseteq 0 .. MaxVersion
  /\ Version \subseteq Nat
  /\ 0 \notin Version
  /\ -1 \notin Version
  /\ 1 \in Version
BY ConstantsAssumption DEF Version

\* A readable directory holds a set of rows.
LEMMA ReadableRows ==
  ASSUME NEW d \in Dir \cup {NoDir}, Readable(d)
  PROVE  d \in Dir /\ d.manifest \in SUBSET Row
BY DEF Readable, Dir, File

\* The rows an operation stages make a file.
LEMMA StagedFile ==
  ASSUME TypeOK, Control, NEW t \in Thread, pc[t] \in WriterLabel
  PROVE  StagedRows(t) \in SUBSET Row
BY DEF TypeOK, Control, StagedRows

\* A non-empty set of versions has a lowest member.
LEMMA LowestIn ==
  ASSUME NEW S \in SUBSET Version, S # {}
  PROVE  Lowest(S) \in S /\ \A w \in S : Lowest(S) <= w
<1>1. S \subseteq Nat
  BY VersionType
<1> DEFINE Below == {ss \in Nat \X Nat : ss[1] < ss[2]}
<1>2. IsWellFoundedOn(Below, Nat)
  BY NatLessThanWellFounded, Zenon DEF OpToRel
<1> HIDE DEF Below
<1>3. PICK x \in S : \A y \in S : ~ (<<y, x>> \in Below)
  BY <1>1, <1>2, WFMin, Zenon
<1>4. ASSUME NEW i \in Nat, NEW j \in Nat, i < j PROVE <<i, j>> \in Below
  <2> DEFINE ij == <<i, j>>
  <2>1. ij \in Nat \X Nat /\ ij[1] = i /\ ij[2] = j
    OBVIOUS
  <2> HIDE DEF ij
  <2>2. ij \in Below
    BY <1>4, <2>1 DEF Below
  <2> QED BY <2>2 DEF ij
<1>5. ASSUME NEW y \in S PROVE x <= y
  <2>1. x \in Nat /\ y \in Nat
    BY <1>1
  <2>2. ~ (y < x)
    BY <1>3, <1>4, <2>1, Zenon
  <2> QED BY <2>1, <2>2
<1> QED BY <1>5 DEF Lowest

\* Every step keeps the control state.
LEMMA ControlStep ==
  ASSUME TypeOK, Control, [Next]_vars
  PROVE  Control'
<1> USE VersionType DEF Goto, disk, locals, Label, Operation, WriterLabel, VersionLabel
<1>1. ASSUME NEW t \in Thread, StartWrite(t) PROVE Control'
  BY <1>1 DEF StartWrite, Control, TypeOK
<1>2. ASSUME NEW t \in Thread, StartRollback(t) PROVE Control'
  BY <1>2 DEF StartRollback, Control, TypeOK
<1>3. ASSUME NEW t \in Thread, Lock(t) PROVE Control'
  BY <1>3, ZenonT(40) DEF Lock, Control, TypeOK
<1>4. ASSUME NEW t \in Thread, ReadCurrent(t) PROVE Control'
  BY <1>4 DEF ReadCurrent, Control, TypeOK
<1>5. ASSUME NEW t \in Thread, OpenVersion(t) PROVE Control'
  BY <1>5 DEF OpenVersion, Control, TypeOK
<1>6. ASSUME NEW t \in Thread, NextVersion(t) PROVE Control'
  BY <1>6, ConstantsAssumption DEF NextVersion, Control, TypeOK, Version
<1>7. ASSUME NEW t \in Thread, CheckExists(t) PROVE Control'
  BY <1>7, ZenonT(40) DEF CheckExists, Control, TypeOK
<1>8. ASSUME NEW t \in Thread, MakeStagingDir(t) PROVE Control'
  BY <1>8, ZenonT(40) DEF MakeStagingDir, Control, TypeOK
<1>9. ASSUME NEW t \in Thread, WriteMatchSegment(t) PROVE Control'
  BY <1>9 DEF WriteMatchSegment, WriteStaged, Control, TypeOK
<1>10. ASSUME NEW t \in Thread, WritePayloadSegment(t) PROVE Control'
  BY <1>10 DEF WritePayloadSegment, WriteStaged, Control, TypeOK
<1>11. ASSUME NEW t \in Thread, WriteManifest(t) PROVE Control'
  BY <1>11 DEF WriteManifest, WriteStaged, Control, TypeOK
<1>12. ASSUME NEW t \in Thread, SyncStagingDir(t) PROVE Control'
  BY <1>12 DEF SyncStagingDir, WriteStaged, Control, TypeOK
<1>13. ASSUME NEW t \in Thread, RenameEpoch(t) PROVE Control'
  BY <1>13 DEF RenameEpoch, Control, TypeOK
<1>14. ASSUME NEW t \in Thread, SyncEpoch(t) PROVE Control'
  BY <1>14, ZenonT(40) DEF SyncEpoch, Control, TypeOK
<1>15. ASSUME NEW t \in Thread, CleanUp(t) PROVE Control'
  BY <1>15, Zenon DEF CleanUp, Control, TypeOK
<1>16. ASSUME NEW t \in Thread, TruncateCurrentTmp(t) PROVE Control'
  BY <1>16, ZenonT(40) DEF TruncateCurrentTmp, Control, TypeOK
<1>17. ASSUME NEW t \in Thread, WriteCurrentTmp(t) PROVE Control'
  BY <1>17, ZenonT(40) DEF WriteCurrentTmp, Control, TypeOK
<1>18. ASSUME NEW t \in Thread, SwapCurrent(t) PROVE Control'
  BY <1>18 DEF SwapCurrent, Control, TypeOK
<1>19. ASSUME NEW t \in Thread, SyncCurrent(t) PROVE Control'
  BY <1>19, ZenonT(40) DEF SyncCurrent, Control, TypeOK
<1>20. ASSUME NEW t \in Thread, ListVictims(t) PROVE Control'
  BY <1>20, Zenon DEF ListVictims, Control, TypeOK
<1>21. ASSUME NEW t \in Thread, RemoveFiles(t) PROVE Control'
  BY <1>21, Zenon DEF RemoveFiles, Control, TypeOK
<1>22. ASSUME NEW t \in Thread, RemoveDir(t) PROVE Control'
  BY <1>22 DEF RemoveDir, Control, TypeOK
<1>23. ASSUME NEW t \in Thread, PruneDone(t) PROVE Control'
  BY <1>23, Zenon DEF PruneDone, Control, TypeOK
<1>24. ASSUME NEW t \in Thread, Return(t) PROVE Control'
  BY <1>24, Zenon DEF Return, Leave, Control, TypeOK
<1>25. ASSUME NEW t \in Thread, WriteFault(t) PROVE Control'
  BY <1>25, SMTT(30) DEF WriteFault, Control, TypeOK
<1>26. ASSUME NEW t \in Thread, ReadFault(t) PROVE Control'
  BY <1>26, SMTT(30) DEF ReadFault, Control, TypeOK
<1>27. ASSUME NEW p \in Process, Crash(p) PROVE Control'
  BY <1>27, Zenon DEF Crash, Leave, Control, TypeOK
<1>28. CASE PowerLoss
  BY <1>28, Zenon DEF PowerLoss, Leave, Control, TypeOK
<1>29. CASE UNCHANGED vars
  BY <1>29 DEF vars, Control
<1> QED
  BY <1>1, <1>2, <1>3, <1>4, <1>5, <1>6, <1>7, <1>8, <1>9, <1>10, <1>11, <1>12, <1>13, <1>14, <1>15, <1>16, <1>17, <1>18, <1>19, <1>20, <1>21, <1>22, <1>23, <1>24, <1>25, <1>26, <1>27, <1>28, <1>29, ZenonT(40) DEF Next, Step

\* The roots the steps build are roots.
LEMMA RootUpdates ==
  ASSUME NEW r \in Root
  PROVE  /\ \A v \in Version, d \in Dir \cup {NoDir} : [r EXCEPT !.epochs[v] = d] \in Root
         /\ \A x \in Pointer : [r EXCEPT !.current = x] \in Root
         /\ AfterPowerLoss(r) \in Root
<1>1. \A v \in Version, d \in Dir \cup {NoDir} : [r EXCEPT !.epochs[v] = d] \in Root
  BY DEF Root
<1>2. \A x \in Pointer : [r EXCEPT !.current = x] \in Root
  BY DEF Root
<1>3. AfterPowerLoss(r) \in Root
  BY EmptyDirType DEF Root, AfterPowerLoss
<1> QED BY <1>1, <1>2, <1>3

\* A step that sets the root keeps the survivors' type.
LEMMA SetRootType ==
  ASSUME TypeOK, NEW r \in Root, SetRoot(r)
  PROVE  root' \in Root /\ survivors' \subseteq Root
BY DEF SetRoot, TypeOK

\* Every step keeps the types.
LEMMA TypeStep ==
  ASSUME TypeOK, Control, [Next]_vars
  PROVE  TypeOK'
<1> USE DEF Goto, disk, locals, Label, Operation
<1>1. ASSUME NEW t \in Thread, StartWrite(t) PROVE TypeOK'
  BY <1>1 DEF StartWrite, TypeOK
<1>2. ASSUME NEW t \in Thread, StartRollback(t) PROVE TypeOK'
  BY <1>2, VersionType DEF StartRollback, TypeOK
<1>3. ASSUME NEW t \in Thread, Lock(t) PROVE TypeOK'
  BY <1>3, ConstantsAssumption, Zenon DEF Lock, TypeOK
<1>4. ASSUME NEW t \in Thread, ReadCurrent(t) PROVE TypeOK'
  BY <1>4, VersionType, ZenonT(40) DEF ReadCurrent, TypeOK
<1>5. ASSUME NEW t \in Thread, OpenVersion(t) PROVE TypeOK'
  <2>1. CASE Readable(root.epochs[ver[t]])
    <3>1. ver[t] \in Version
      BY <1>5 DEF OpenVersion, Control, VersionLabel
    <3>2. root.epochs[ver[t]] \in Dir \cup {NoDir}
      BY <3>1 DEF TypeOK, Root
    <3>3. root.epochs[ver[t]].manifest \in SUBSET Row
      BY <2>1, <3>2, ReadableRows, Zenon
    <3> QED BY <1>5, <2>1, <3>3, Zenon DEF OpenVersion, TypeOK
  <2>2. CASE ~Readable(root.epochs[ver[t]])
    BY <1>5, <2>2, Zenon DEF OpenVersion, TypeOK
  <2> QED BY <2>1, <2>2, Zenon
<1>6. ASSUME NEW t \in Thread, NextVersion(t) PROVE TypeOK'
  BY <1>6, ConstantsAssumption, SMTT(30) DEF NextVersion, TypeOK, Version
<1>7. ASSUME NEW t \in Thread, CheckExists(t) PROVE TypeOK'
  BY <1>7 DEF CheckExists, TypeOK
<1>8. ASSUME NEW t \in Thread, MakeStagingDir(t) PROVE TypeOK'
  BY <1>8, EmptyDirType, Zenon DEF MakeStagingDir, TypeOK
<1>9. ASSUME NEW t \in Thread, WriteMatchSegment(t) PROVE TypeOK'
  <2>1. CASE staging[ver[t]] = NoDir
    BY <1>9, <2>1, Zenon DEF WriteMatchSegment, WriteStaged, TypeOK
  <2>2. CASE staging[ver[t]] # NoDir
    <3>1. ver[t] \in Version /\ staging[ver[t]] \in Dir
      BY <1>9, <2>2, ZenonT(40) DEF WriteMatchSegment, WriteStaged, Control, VersionLabel, TypeOK
    <3>2. StagedRows(t) \in File
      BY <1>9, StagedFile DEF WriteMatchSegment, WriteStaged, WriterLabel, File
    <3>3. [staging[ver[t]] EXCEPT !.match = StagedRows(t)] \in Dir
      BY <3>1, <3>2, Zenon DEF Dir
    <3> QED BY <1>9, <2>2, <3>1, <3>3, ZenonT(40) DEF WriteMatchSegment, WriteStaged, TypeOK
  <2> QED BY <2>1, <2>2
<1>10. ASSUME NEW t \in Thread, WritePayloadSegment(t) PROVE TypeOK'
  <2>1. CASE staging[ver[t]] = NoDir
    BY <1>10, <2>1 DEF WritePayloadSegment, WriteStaged, TypeOK
  <2>2. CASE staging[ver[t]] # NoDir
    <3>1. ver[t] \in Version /\ staging[ver[t]] \in Dir
      BY <1>10, <2>2, ZenonT(40) DEF WritePayloadSegment, WriteStaged, Control, VersionLabel, TypeOK
    <3>2. StagedRows(t) \in File
      BY <1>10, StagedFile, Zenon DEF WritePayloadSegment, WriteStaged, WriterLabel, File
    <3>3. [staging[ver[t]] EXCEPT !.payload = StagedRows(t)] \in Dir
      BY <3>1, <3>2 DEF Dir
    <3> QED BY <1>10, <2>2, <3>1, <3>3, ZenonT(40) DEF WritePayloadSegment, WriteStaged, TypeOK
  <2> QED BY <2>1, <2>2, Zenon
<1>11. ASSUME NEW t \in Thread, WriteManifest(t) PROVE TypeOK'
  <2>1. CASE staging[ver[t]] = NoDir
    BY <1>11, <2>1, Zenon DEF WriteManifest, WriteStaged, TypeOK
  <2>2. CASE staging[ver[t]] # NoDir
    <3>1. ver[t] \in Version /\ staging[ver[t]] \in Dir
      BY <1>11, <2>2, ZenonT(40) DEF WriteManifest, WriteStaged, Control, VersionLabel, TypeOK
    <3>2. StagedRows(t) \in File
      BY <1>11, StagedFile, Zenon DEF WriteManifest, WriteStaged, WriterLabel, File
    <3>3. [staging[ver[t]] EXCEPT !.manifest = StagedRows(t)] \in Dir
      BY <3>1, <3>2 DEF Dir
    <3> QED BY <1>11, <2>2, <3>1, <3>3, ZenonT(40) DEF WriteManifest, WriteStaged, TypeOK
  <2> QED BY <2>1, <2>2, Zenon
<1>12. ASSUME NEW t \in Thread, SyncStagingDir(t) PROVE TypeOK'
  <2>1. CASE staging[ver[t]] = NoDir
    BY <1>12, <2>1, Zenon DEF SyncStagingDir, WriteStaged, TypeOK
  <2>2. CASE staging[ver[t]] # NoDir
    <3>1. ver[t] \in Version /\ staging[ver[t]] \in Dir
      BY <1>12, <2>2 DEF SyncStagingDir, WriteStaged, Control, VersionLabel, TypeOK
    <3>3. [staging[ver[t]] EXCEPT !.synced = TRUE] \in Dir
      BY <3>1, Zenon DEF Dir
    <3>4. staging' = [staging EXCEPT ![ver[t]] = [@ EXCEPT !.synced = TRUE]]
          /\ Goto(t, "rename")
          /\ UNCHANGED <<root, survivors, curTmp, mutex, locals, acked>>
      BY <1>12, <2>2, Zenon DEF SyncStagingDir, WriteStaged
    <3>5. staging' \in [Version -> Dir \cup {NoDir}]
      BY <3>1, <3>3, <3>4, Zenon DEF TypeOK
    <3> QED BY <3>4, <3>5, Zenon DEF TypeOK, Goto, Label, locals
  <2> QED BY <2>1, <2>2, Zenon
<1>13. ASSUME NEW t \in Thread, RenameEpoch(t) PROVE TypeOK'
  <2>1. ver[t] \in Version
    BY <1>13 DEF RenameEpoch, Control, VersionLabel
  <2>2. [root EXCEPT !.epochs[ver[t]] = staging[ver[t]]] \in Root
    BY <2>1, RootUpdates, Zenon DEF TypeOK
  <2>3. root' \in Root /\ survivors' \subseteq Root
    BY <1>13, <2>2, SetRootType, Zenon DEF RenameEpoch, TypeOK
  <2> QED BY <1>13, <2>3, Zenon DEF RenameEpoch, TypeOK
<1>14. ASSUME NEW t \in Thread, SyncEpoch(t) PROVE TypeOK'
  BY <1>14 DEF SyncEpoch, FsyncRoot, TypeOK
<1>15. ASSUME NEW t \in Thread, CleanUp(t) PROVE TypeOK'
  BY <1>15, Zenon DEF CleanUp, TypeOK
<1>16. ASSUME NEW t \in Thread, TruncateCurrentTmp(t) PROVE TypeOK'
  BY <1>16, Zenon DEF TruncateCurrentTmp, TypeOK, Pointer
<1>17. ASSUME NEW t \in Thread, WriteCurrentTmp(t) PROVE TypeOK'
  <2>1. ver[t] \in Pointer
    BY <1>17, Zenon DEF WriteCurrentTmp, Control, VersionLabel, Pointer
  <2>2. root' \in Root /\ survivors' \subseteq Root
    BY <1>17, <2>1, RootUpdates, SetRootType, Zenon DEF WriteCurrentTmp, TypeOK
  <2> QED BY <1>17, <2>1, <2>2, Zenon DEF WriteCurrentTmp, TypeOK
<1>18. ASSUME NEW t \in Thread, SwapCurrent(t) PROVE TypeOK'
  <2>1. root' \in Root /\ survivors' \subseteq Root
    BY <1>18, RootUpdates, SetRootType, Zenon DEF SwapCurrent, TypeOK
  <2>2. fd' \in [Thread -> {"closed", "tmp", "current", "unlinked"}]
    BY <1>18, ZenonT(40) DEF SwapCurrent, Renamed, TypeOK
  <2>3. curTmp' \in Pointer /\ acked' \in 0 .. MaxVersion
    BY <1>18, ConstantsAssumption, SMTT(30) DEF SwapCurrent, TypeOK, Pointer
  <2> QED BY <1>18, <2>1, <2>2, <2>3, Zenon DEF SwapCurrent, TypeOK
<1>19. ASSUME NEW t \in Thread, SyncCurrent(t) PROVE TypeOK'
  BY <1>19, Zenon DEF SyncCurrent, FsyncRoot, TypeOK
<1>20. ASSUME NEW t \in Thread, ListVictims(t) PROVE TypeOK'
  BY <1>20 DEF ListVictims, Superseded, EpochDirs, TypeOK
<1>21. ASSUME NEW t \in Thread, RemoveFiles(t) PROVE TypeOK'
  <2> DEFINE v == Lowest(victims[t])
  <2>1. v \in Version
    BY <1>21, LowestIn, VersionType, Zenon DEF RemoveFiles, TypeOK
  <2>2. root' \in Root /\ survivors' \subseteq Root
    BY <1>21, <2>1, RootUpdates, SetRootType, EmptyDirType, Zenon DEF RemoveFiles, TypeOK
  <2> QED BY <1>21, <2>2, Zenon DEF RemoveFiles, TypeOK
<1>22. ASSUME NEW t \in Thread, RemoveDir(t) PROVE TypeOK'
  <2> DEFINE v == Lowest(victims[t])
  <2>1. v \in Version
    BY <1>22, LowestIn, VersionType, Zenon DEF RemoveDir, TypeOK, Control
  <2>2. root' \in Root /\ survivors' \subseteq Root
    BY <1>22, <2>1, RootUpdates, SetRootType, Zenon DEF RemoveDir, TypeOK
  <2> QED BY <1>22, <2>2, Zenon DEF RemoveDir, TypeOK
<1>23. ASSUME NEW t \in Thread, PruneDone(t) PROVE TypeOK'
  BY <1>23, Zenon DEF PruneDone, TypeOK
<1>24. ASSUME NEW t \in Thread, Return(t) PROVE TypeOK'
  BY <1>24, VersionType, ConstantsAssumption DEF Return, Leave, TypeOK, NoFile
<1>25. ASSUME NEW t \in Thread, WriteFault(t) PROVE TypeOK'
  BY <1>25, Zenon DEF WriteFault, TypeOK
<1>26. ASSUME NEW t \in Thread, ReadFault(t) PROVE TypeOK'
  BY <1>26, ConstantsAssumption, SMTT(30) DEF ReadFault, TypeOK
<1>27. ASSUME NEW p \in Process, Crash(p) PROVE TypeOK'
  BY <1>27, ConstantsAssumption, SMTT(30) DEF Crash, Leave, TypeOK, NoFile
<1>28. CASE PowerLoss
  <2>1. root' \in Root /\ survivors' \subseteq Root
    BY <1>28, RootUpdates, Zenon DEF PowerLoss, TypeOK
  <2> QED BY <1>28, <2>1, ConstantsAssumption, SMTT(30) DEF PowerLoss, Leave, TypeOK, NoFile
<1>29. CASE UNCHANGED vars
  BY <1>29 DEF vars, TypeOK
<1> QED
  BY <1>1, <1>2, <1>3, <1>4, <1>5, <1>6, <1>7, <1>8, <1>9, <1>10, <1>11, <1>12, <1>13, <1>14, <1>15, <1>16, <1>17, <1>18, <1>19, <1>20, <1>21, <1>22, <1>23, <1>24, <1>25, <1>26, <1>27, <1>28, <1>29, ZenonT(40) DEF Next, Step

\* The initial state has the types.
LEMMA TypeInit == Init => TypeOK /\ Control
<1> SUFFICES ASSUME Init PROVE TypeOK /\ Control
  OBVIOUS
<1>1. root \in Root
  BY DEF Init, Root, Pointer
<1>2. TypeOK
  BY <1>1, ConstantsAssumption DEF Init, TypeOK, Pointer, Label, NoFile
<1>3. Control
  BY DEF Init, Control, WriterLabel, VersionLabel
<1> QED BY <1>2, <1>3

\* Type correctness, whatever the threads, processes and faults are.
THEOREM TypeCorrect == Spec => []TypeOK
<1>1. Init => TypeOK /\ Control
  BY TypeInit
<1>2. TypeOK /\ Control /\ [Next]_vars => (TypeOK /\ Control)'
  BY TypeStep, ControlStep, Zenon
<1> QED BY <1>1, <1>2, PTL DEF Spec

-----------------------------------------------------------------------------
(* One thread at a time works on the directory.                            *)

\* Under the discipline two threads are never busy at once.
LEMMA Exclusive ==
  ASSUME Discipline, TypeOK, Control, Locks,
         NEW t \in Thread, NEW u \in Thread, t # u, Busy(t)
  PROVE  pc[u] \in {"idle", "lock"}
BY Zenon DEF Discipline, Locks, Busy

\* A step of the thread at work that keeps the mutex and the descriptors as the
\* step it moves to wants them.
LEMMA LocksKept ==
  ASSUME Locks, TypeOK, NEW t \in Thread, Busy(t),
         NEW l \in Label \ {"idle"}, Goto(t, l), UNCHANGED <<mutex, op>>,
         fd' \in [Thread -> {"closed", "tmp", "current", "unlinked"}],
         fd'[t] = IF l = "write" THEN "tmp" ELSE "closed",
         \A u \in Thread \ {t} : fd'[u] = fd[u]
  PROVE  Locks'
<1>1. \A u \in Thread : pc'[u] = IF u = t THEN l ELSE pc[u]
  BY Zenon DEF TypeOK, Goto
<1>2. \A u \in Thread : Busy(u)' => Busy(u)
  BY <1>1, Zenon DEF Busy
<1> QED BY <1>1, <1>2 DEF Locks, Busy

\* Every step keeps the mutual exclusion.
LEMMA LocksStep ==
  ASSUME Discipline, TypeOK, Control, Locks, [Next]_vars
  PROVE  Locks'
<1> USE DEF disk, locals
<1>1. ASSUME NEW t \in Thread, StartWrite(t) PROVE Locks'
  BY <1>1, SMTT(30) DEF StartWrite, MayStart, Discipline, Locks, Busy, TypeOK, Goto
<1>2. ASSUME NEW t \in Thread, StartRollback(t) PROVE Locks'
  BY <1>2, SMTT(30) DEF StartRollback, MayStart, Discipline, Locks, Busy, TypeOK, Goto
<1>3. ASSUME NEW t \in Thread, Lock(t) PROVE Locks'
  <2>1. op[t] # "rollback"
    BY <1>3, Zenon DEF Lock, Control, WriterLabel, Label
  <2>2. ASSUME NEW u \in Thread \ {t} PROVE ~ Busy(u)
    BY <1>3, ConstantsAssumption, Zenon DEF Lock, Discipline, Locks, Busy
  <2>3. \A u \in Thread \ {t} : pc'[u] = pc[u] /\ fd'[u] = fd[u] /\ op'[u] = op[u]
    BY <1>3, Zenon DEF Lock, Goto, TypeOK
  <2>4. pc'[t] \in {"current", "next"} /\ fd'[t] = fd[t] /\ op'[t] = op[t]
    BY <1>3, Zenon DEF Lock, Goto, TypeOK
  <2>5. mutex'[ProcOf[t]] = t
    BY <1>3, ConstantsAssumption, Zenon DEF Lock, TypeOK
  <2> QED BY <1>3, <2>1, <2>2, <2>3, <2>4, <2>5, ZenonT(40) DEF Lock, Locks, Busy
<1>4. ASSUME NEW t \in Thread, ReadCurrent(t) PROVE Locks'
  BY <1>4, LocksKept, Zenon DEF ReadCurrent, Busy, Label, Locks, TypeOK
<1>5. ASSUME NEW t \in Thread, OpenVersion(t) PROVE Locks'
  BY <1>5, LocksKept, Zenon DEF OpenVersion, Busy, Label, Locks, TypeOK
<1>6. ASSUME NEW t \in Thread, NextVersion(t) PROVE Locks'
  BY <1>6, LocksKept, Zenon DEF NextVersion, Busy, Label, Locks, TypeOK
<1>7. ASSUME NEW t \in Thread, CheckExists(t) PROVE Locks'
  BY <1>7, LocksKept, Zenon DEF CheckExists, Busy, Label, Locks, TypeOK
<1>8. ASSUME NEW t \in Thread, MakeStagingDir(t) PROVE Locks'
  BY <1>8, LocksKept, Zenon DEF MakeStagingDir, Busy, Label, Locks, TypeOK
<1>9. ASSUME NEW t \in Thread, WriteMatchSegment(t) PROVE Locks'
  BY <1>9, LocksKept, Zenon DEF WriteMatchSegment, WriteStaged, Busy, Label, Locks, TypeOK
<1>10. ASSUME NEW t \in Thread, WritePayloadSegment(t) PROVE Locks'
  BY <1>10, LocksKept, Zenon DEF WritePayloadSegment, WriteStaged, Busy, Label, Locks, TypeOK
<1>11. ASSUME NEW t \in Thread, WriteManifest(t) PROVE Locks'
  BY <1>11, LocksKept, Zenon DEF WriteManifest, WriteStaged, Busy, Label, Locks, TypeOK
<1>12. ASSUME NEW t \in Thread, SyncStagingDir(t) PROVE Locks'
  BY <1>12, LocksKept, Zenon DEF SyncStagingDir, WriteStaged, Busy, Label, Locks, TypeOK
<1>13. ASSUME NEW t \in Thread, RenameEpoch(t) PROVE Locks'
  BY <1>13, LocksKept, Zenon DEF RenameEpoch, Busy, Label, Locks, TypeOK
<1>14. ASSUME NEW t \in Thread, SyncEpoch(t) PROVE Locks'
  BY <1>14, LocksKept, Zenon DEF SyncEpoch, Busy, Label, Locks, TypeOK
<1>15. ASSUME NEW t \in Thread, CleanUp(t) PROVE Locks'
  BY <1>15, LocksKept, Zenon DEF CleanUp, Busy, Label, Locks, TypeOK
<1>16. ASSUME NEW t \in Thread, TruncateCurrentTmp(t) PROVE Locks'
  <2>1. Busy(t) /\ Goto(t, "write") /\ UNCHANGED <<mutex, op>>
    BY <1>16 DEF TruncateCurrentTmp, Busy
  <2>2. fd' = [fd EXCEPT ![t] = "tmp"]
    BY <1>16 DEF TruncateCurrentTmp
  <2>3. /\ fd' \in [Thread -> {"closed", "tmp", "current", "unlinked"}] /\ fd'[t] = "tmp"
        /\ \A u \in Thread \ {t} : fd'[u] = fd[u]
    BY <2>2, Zenon DEF TypeOK
  <2> QED BY <2>1, <2>3, LocksKept, Zenon DEF Label
<1>17. ASSUME NEW t \in Thread, WriteCurrentTmp(t) PROVE Locks'
  BY <1>17, LocksKept DEF WriteCurrentTmp, Busy, Label, Locks, TypeOK
<1>18. ASSUME NEW t \in Thread, SwapCurrent(t) PROVE Locks'
  <2>1. Busy(t)
    BY <1>18 DEF SwapCurrent, Busy
  <2>2. ASSUME NEW u \in Thread PROVE fd[u] = "closed"
    BY <1>18, <2>1, Exclusive, Zenon DEF SwapCurrent, Locks
  <2>3. \A u \in Thread : fd'[u] = "closed"
    BY <1>18, <2>2 DEF SwapCurrent, Renamed
  <2>4. fd' \in [Thread -> {"closed", "tmp", "current", "unlinked"}]
    BY <1>18, Zenon DEF SwapCurrent, Renamed, TypeOK
  <2> QED BY <1>18, <2>1, <2>2, <2>3, <2>4, LocksKept, Zenon DEF SwapCurrent, Label
<1>19. ASSUME NEW t \in Thread, SyncCurrent(t) PROVE Locks'
  BY <1>19, LocksKept, Zenon DEF SyncCurrent, Busy, Label, Locks, TypeOK
<1>20. ASSUME NEW t \in Thread, ListVictims(t) PROVE Locks'
  BY <1>20, LocksKept, Zenon DEF ListVictims, Busy, Label, Locks, TypeOK
<1>21. ASSUME NEW t \in Thread, RemoveFiles(t) PROVE Locks'
  BY <1>21, LocksKept, Zenon DEF RemoveFiles, Busy, Label, Locks, TypeOK
<1>22. ASSUME NEW t \in Thread, RemoveDir(t) PROVE Locks'
  BY <1>22, LocksKept, Zenon DEF RemoveDir, Busy, Label, Locks, TypeOK
<1>23. ASSUME NEW t \in Thread, PruneDone(t) PROVE Locks'
  BY <1>23, LocksKept, Zenon DEF PruneDone, Busy, Label, Locks, TypeOK
<1>24. ASSUME NEW t \in Thread, Return(t) PROVE Locks'
  BY <1>24, ConstantsAssumption, Zenon DEF Return, Leave, Locks, Busy, TypeOK
<1>25. ASSUME NEW t \in Thread, WriteFault(t) PROVE Locks'
  <2>1. PICK l \in {"error", "cleanup", "ok"} : Goto(t, l)
    BY <1>25, Zenon DEF WriteFault
  <2>2. Busy(t) /\ UNCHANGED <<mutex, op>> /\ fd' = [fd EXCEPT ![t] = "closed"]
    BY <1>25 DEF WriteFault, Busy
  <2>3. /\ fd' \in [Thread -> {"closed", "tmp", "current", "unlinked"}] /\ fd'[t] = "closed"
        /\ \A u \in Thread \ {t} : fd'[u] = fd[u]
    BY <2>2, Zenon DEF TypeOK
  <2> QED BY <2>1, <2>2, <2>3, LocksKept, Zenon DEF Label
<1>26. ASSUME NEW t \in Thread, ReadFault(t) PROVE Locks'
  BY <1>26, LocksKept, Zenon DEF ReadFault, Busy, Label, Locks, TypeOK
<1>27. ASSUME NEW p \in Process, Crash(p) PROVE Locks'
  BY <1>27, ConstantsAssumption, Zenon DEF Crash, Leave, Locks, Busy, TypeOK
<1>28. CASE PowerLoss
  BY <1>28, Zenon DEF PowerLoss, Leave, Locks, Busy, TypeOK
<1>29. CASE UNCHANGED vars
  BY <1>29, Zenon DEF vars, Locks, Busy
<1> QED
  BY <1>1, <1>2, <1>3, <1>4, <1>5, <1>6, <1>7, <1>8, <1>9, <1>10, <1>11, <1>12, <1>13, <1>14, <1>15, <1>16, <1>17, <1>18, <1>19, <1>20, <1>21, <1>22, <1>23, <1>24, <1>25, <1>26, <1>27, <1>28, <1>29, ZenonT(40) DEF Next, Step

-----------------------------------------------------------------------------
(* Every root that may survive is a good one.                              *)

\* In a good root CURRENT names a directory that is there.
LEMMA CurrentIsThere ==
  ASSUME NEW r \in Root, GoodRoot(r)
  PROVE  r.current = NoFile \/ r.current \in EpochDirs(r)
BY DEF GoodRoot, EpochDirs, Readable

\* The rename of a complete epoch onto the version after CURRENT.
LEMMA RenamedRoot ==
  ASSUME NEW r \in Root, GoodRoot(r), NEW v \in Version, v = Succ(r),
         r.epochs[v] = NoDir, \A w \in EpochDirs(r) : w <= v,
         NEW d \in Dir, Readable(d), d.synced
  PROVE  GoodRoot([r EXCEPT !.epochs[v] = d])
<1> DEFINE s == [r EXCEPT !.epochs[v] = d]
<1>1. s.current = r.current /\ s.epochs[v] = d
       /\ \A w \in Version \ {v} : s.epochs[w] = r.epochs[w]
  BY DEF Root
<1>2. EpochDirs(s) = EpochDirs(r) \cup {v}
  BY <1>1, ConstantsAssumption, Zenon DEF EpochDirs
<1>3. r.current # NoFile => r.current \in EpochDirs(r) /\ v = r.current + 1
  BY CurrentIsThere, Zenon DEF Succ, GoodRoot
<1>4. r.current = NoFile => EpochDirs(r) = {} /\ v = 1
  BY VersionType, Zenon DEF GoodRoot, EpochDirs, Succ, NoFile
<1>5. \A w \in EpochDirs(r) : w < v
  BY VersionType DEF EpochDirs
<1> HIDE DEF s
<1>6. ASSUME NEW a \in EpochDirs(s), NEW b \in EpochDirs(s), NEW c \in Version, a <= c, c <= b
      PROVE  c \in EpochDirs(s)
  <2>1. CASE c = v
    BY <2>1, <1>2, Zenon
  <2>2. CASE c # v
    <3>1. c < v /\ a < v /\ a \in EpochDirs(r)
      BY <2>2, <1>2, <1>5, <1>6, VersionType, SMTT(30) DEF EpochDirs
    <3>2. r.current \in EpochDirs(r) /\ v = r.current + 1
      BY <1>3, <1>4, <3>1, Zenon
    <3>3. r.current \in Nat /\ c \in Nat
      BY <3>2, VersionType, Zenon DEF EpochDirs
    <3>4. c <= r.current
      BY <3>1, <3>2, <3>3, SMTT(30)
    <3> QED BY <1>2, <1>6, <3>1, <3>2, <3>4, Zenon DEF GoodRoot
  <2> QED BY <2>1, <2>2, Zenon
<1>7. s.current = NoFile => EpochDirs(s) \subseteq {1}
  BY <1>1, <1>2, <1>4, Zenon
<1>8. s.current # NoFile => s.current \in Version /\ Readable(s.epochs[s.current])
  BY <1>1, Zenon DEF GoodRoot
<1>9. \A w \in Version : Readable(s.epochs[w]) => s.epochs[w].synced
  BY <1>1, Zenon DEF GoodRoot
<1>10. Window(s)
  <2> SUFFICES ASSUME NEW hi \in EpochDirs(s), \A w \in EpochDirs(s) : w <= hi,
                      NEW x \in Version, hi - Keep < x, x <= hi
               PROVE  Readable(s.epochs[x])
    BY DEF Window
  <2>1. hi = v
    BY <1>2, <1>5, VersionType, SMTT(30) DEF EpochDirs
  <2>2. CASE x = v
    BY <2>2, <1>1, Zenon
  <2>3. CASE x # v
    <3>1. x < v
      BY <2>1, <2>3, VersionType, SMTT(30)
    <3>2. r.current \in EpochDirs(r) /\ v = r.current + 1
      BY <3>1, <1>3, <1>4, VersionType, SMTT(30)
    <3> r.current \in Nat /\ x \in Nat /\ Keep \in Nat /\ EpochDirs(r) \subseteq Nat
      BY <3>2, VersionType, ConstantsAssumption, Zenon DEF EpochDirs
    <3>3. \A w \in EpochDirs(r) : w <= r.current
      BY <1>5, <3>2
    <3>4. r.current - Keep < x /\ x <= r.current
      BY <2>1, <3>1, <3>2
    <3>5. Readable(r.epochs[x])
      BY <3>2, <3>3, <3>4, Zenon DEF GoodRoot, Window
    <3> QED BY <3>5, <2>3, <1>1, Zenon
  <2> QED BY <2>2, <2>3, Zenon
<1> QED BY <1>6, <1>7, <1>8, <1>9, <1>10, Zenon DEF GoodRoot, s

\* The swap of CURRENT to an epoch that opens.
LEMMA SwappedRoot ==
  ASSUME NEW r \in Root, GoodRoot(r), NEW v \in Version, Readable(r.epochs[v])
  PROVE  GoodRoot([r EXCEPT !.current = v])
<1> DEFINE s == [r EXCEPT !.current = v]
<1>1. s.current = v /\ s.epochs = r.epochs
  BY DEF Root
<1> HIDE DEF s
<1>2. EpochDirs(s) = EpochDirs(r)
  BY <1>1, Zenon DEF EpochDirs
<1>3. Window(s)
  BY <1>1, <1>2, Zenon DEF GoodRoot, Window
<1>4. v # NoFile
  BY VersionType, Zenon DEF NoFile
<1> QED BY <1>1, <1>2, <1>3, <1>4, Zenon DEF GoodRoot, s

\* A version below the rollback window loses its files.
LEMMA EmptiedRoot ==
  ASSUME NEW r \in Root, GoodRoot(r), NEW v \in Version, r.epochs[v] # NoDir,
         r.current \in Version, v < r.current, v + Keep <= r.current
  PROVE  GoodRoot([r EXCEPT !.epochs[v] = EmptyDir])
<1> DEFINE s == [r EXCEPT !.epochs[v] = EmptyDir]
<1>1. s.current = r.current /\ s.epochs[v] = EmptyDir
       /\ \A w \in Version \ {v} : s.epochs[w] = r.epochs[w]
  BY DEF Root
<1> HIDE DEF s
<1>2. EpochDirs(s) = EpochDirs(r)
  BY <1>1, EmptyDirType, Zenon DEF EpochDirs
<1>3. ~ Readable(EmptyDir)
  BY DEF Readable, EmptyDir
<1>4. r.current \in EpochDirs(r)
  BY CurrentIsThere, VersionType, Zenon DEF NoFile
<1>5. Window(s)
  <2> SUFFICES ASSUME NEW hi \in EpochDirs(s), \A w \in EpochDirs(s) : w <= hi,
                      NEW x \in Version, hi - Keep < x, x <= hi
               PROVE  Readable(s.epochs[x])
    BY DEF Window
  <2>1. r.current <= hi
    BY <1>2, <1>4
  <2> hi \in Nat /\ r.current \in Nat /\ v \in Nat /\ Keep \in Nat
    BY VersionType, ConstantsAssumption, ZenonT(40) DEF EpochDirs
  <2>2. x # v
    BY <2>1
  <2>3. Readable(r.epochs[x])
    BY <1>2 DEF GoodRoot, Window
  <2> QED BY <1>1, <2>2, <2>3, Zenon
<1> r.current # NoFile /\ r.current # v
  BY VersionType DEF NoFile
<1>6. s.current # NoFile => s.current \in Version /\ Readable(s.epochs[s.current])
  BY <1>1 DEF GoodRoot
<1>7. \A w \in Version : Readable(s.epochs[w]) => s.epochs[w].synced
  BY <1>1, <1>3, Zenon DEF GoodRoot
<1>8. \A a, b \in EpochDirs(s), c \in Version : a <= c /\ c <= b => c \in EpochDirs(s)
  BY <1>2, Zenon DEF GoodRoot
<1>9. s.current = NoFile => EpochDirs(s) \subseteq {1}
  BY <1>1, VersionType, Zenon DEF NoFile
<1> QED BY <1>5, <1>6, <1>7, <1>8, <1>9, Zenon DEF GoodRoot, s

\* The lowest directory, below the rollback window, goes.
LEMMA DroppedRoot ==
  ASSUME NEW r \in Root, GoodRoot(r), NEW v \in Version,
         \A w \in EpochDirs(r) : v <= w,
         r.current \in Version, v < r.current, v + Keep <= r.current
  PROVE  GoodRoot([r EXCEPT !.epochs[v] = NoDir])
<1> DEFINE s == [r EXCEPT !.epochs[v] = NoDir]
<1>1. s.current = r.current /\ s.epochs[v] = NoDir
       /\ \A w \in Version \ {v} : s.epochs[w] = r.epochs[w]
  BY DEF Root
<1> HIDE DEF s
<1>2. EpochDirs(s) = EpochDirs(r) \ {v}
  BY <1>1 DEF EpochDirs
<1>3. r.current \in EpochDirs(s)
  BY <1>2, CurrentIsThere, VersionType, SMTT(30) DEF NoFile
<1>4. \A a, b \in EpochDirs(s), c \in Version : a <= c /\ c <= b => c \in EpochDirs(s)
  <2> SUFFICES ASSUME NEW a \in EpochDirs(s), NEW b \in EpochDirs(s), NEW c \in Version,
                      a <= c, c <= b
               PROVE  c \in EpochDirs(s)
    OBVIOUS
  <2>1. v < a
    BY <1>2, VersionType DEF EpochDirs
  <2>2. c # v
    BY <2>1, VersionType, <1>2, SMTT(30) DEF EpochDirs
  <2> QED BY <1>2, <2>2, Zenon DEF GoodRoot
<1>5. Window(s)
  <2> SUFFICES ASSUME NEW hi \in EpochDirs(s), \A w \in EpochDirs(s) : w <= hi,
                      NEW x \in Version, hi - Keep < x, x <= hi
               PROVE  Readable(s.epochs[x])
    BY DEF Window
  <2>1. r.current <= hi /\ hi \in Version
    BY <1>2, <1>3, Zenon DEF EpochDirs
  <2>2. \A w \in EpochDirs(r) : w <= hi
    BY <1>2, <2>1, VersionType, Zenon DEF EpochDirs
  <2>3. Readable(r.epochs[x])
    BY <1>2, <2>2, Zenon DEF GoodRoot, Window
  <2> hi \in Nat /\ r.current \in Nat /\ v \in Nat /\ Keep \in Nat
    BY <2>1, VersionType, ConstantsAssumption, ZenonT(40)
  <2>4. x # v
    BY <2>1
  <2> QED BY <1>1, <2>3, <2>4, Zenon
<1> r.current # NoFile /\ r.current # v
  BY VersionType DEF NoFile
<1>6. s.current # NoFile => s.current \in Version /\ Readable(s.epochs[s.current])
  BY <1>1, Zenon DEF GoodRoot
<1>7. \A w \in Version : Readable(s.epochs[w]) => s.epochs[w].synced
  BY <1>1, Zenon DEF GoodRoot, Readable
<1>8. s.current = NoFile => EpochDirs(s) \subseteq {1}
  BY <1>1, VersionType, Zenon DEF NoFile
<1> QED BY <1>4, <1>5, <1>6, <1>7, <1>8, Zenon DEF GoodRoot, s

\* A loss of power takes only directories that do not open.
LEMMA RootAfterPowerLoss ==
  ASSUME NEW r \in Root, GoodRoot(r)
  PROVE  GoodRoot(AfterPowerLoss(r))
<1> DEFINE s == AfterPowerLoss(r)
<1>1. s.current = r.current
  BY DEF AfterPowerLoss, Root
<1>2. \A v \in Version : s.epochs[v] =
        IF r.epochs[v] = NoDir \/ r.epochs[v].synced THEN r.epochs[v] ELSE EmptyDir
  BY Zenon DEF AfterPowerLoss, Root
<1> HIDE DEF s
<1>3. EpochDirs(s) = EpochDirs(r)
  BY <1>2, EmptyDirType DEF EpochDirs
<1>4. ~ Readable(EmptyDir)
  BY Zenon DEF Readable, EmptyDir
<1>5. \A v \in Version : Readable(r.epochs[v]) => s.epochs[v] = r.epochs[v]
  BY <1>2, Zenon DEF GoodRoot
<1>6. \A v \in Version : Readable(s.epochs[v]) => s.epochs[v] = r.epochs[v]
  BY <1>2, <1>4, Zenon
<1>7. Window(s)
  BY <1>3, <1>5, Zenon DEF GoodRoot, Window
<1> QED BY <1>1, <1>3, <1>5, <1>6, <1>7, Zenon DEF GoodRoot, s

-----------------------------------------------------------------------------
(* The roots that may survive stay good.                                   *)

\* What is renamed into place is a complete, synced epoch.
LEMMA StagedComplete ==
  ASSUME IInv, NEW t \in Thread, pc[t] = "rename"
  PROVE  /\ ver[t] \in Version
         /\ staging[ver[t]] \in Dir
         /\ Readable(staging[ver[t]])
         /\ staging[ver[t]].synced
         /\ staging[ver[t]].manifest = StagedRows(t)
<1>1. ver[t] \in Version
  BY Zenon DEF IInv, Control, VersionLabel, Label
<1>2. staging[ver[t]] # NoDir /\ staging[ver[t]].synced
      /\ staging[ver[t]].match = StagedRows(t) /\ staging[ver[t]].payload = StagedRows(t)
      /\ staging[ver[t]].manifest = StagedRows(t)
  BY Zenon DEF IInv, Progress, ThreadProgress, Publishing, Staging
<1>3. staging[ver[t]] \in Dir
  BY <1>1, <1>2, Zenon DEF IInv, TypeOK
<1>4. StagedRows(t) # Absent
  BY StagedFile, ConstantsAssumption DEF IInv, WriterLabel, Label, Absent
<1> QED BY <1>1, <1>2, <1>3, <1>4, Zenon DEF Readable

\* The rename gives a good root.
LEMMA RenameGood ==
  ASSUME IInv, NEW t \in Thread, pc[t] = "rename"
  PROVE  /\ root.epochs[ver[t]] = NoDir
         /\ GoodRoot([root EXCEPT !.epochs[ver[t]] = staging[ver[t]]])
<1>1. op[t] # "rollback"
  BY Zenon DEF IInv, Control, WriterLabel, Label
<1>2. ver[t] = Succ(root) /\ root.epochs[ver[t]] = NoDir /\ \A w \in EpochDirs(root) : w <= ver[t]
  BY <1>1, Zenon DEF IInv, Progress, ThreadProgress, Publishing, Staging
<1>3. root \in Root /\ GoodRoot(root)
  BY DEF IInv, TypeOK, Files
<1> QED BY <1>2, <1>3, StagedComplete, RenamedRoot, Zenon

\* The version CURRENT is swapped to opens.
LEMMA SwapGood ==
  ASSUME IInv, NEW t \in Thread, pc[t] = "swap"
  PROVE  /\ curTmp = ver[t]
         /\ ver[t] \in Version
         /\ GoodRoot([root EXCEPT !.current = curTmp])
<1>1. curTmp = ver[t] /\ Readable(root.epochs[ver[t]])
  BY Zenon DEF IInv, Progress, ThreadProgress, Pointing, Swapping
<1>2. ver[t] \in Version
  BY DEF IInv, Control, VersionLabel, Label
<1>3. root \in Root /\ GoodRoot(root)
  BY Zenon DEF IInv, TypeOK, Files
<1> QED BY <1>1, <1>2, <1>3, SwappedRoot, Zenon

\* The victim is the lowest directory or below it, and outside the window.
LEMMA VictimFacts ==
  ASSUME IInv, NEW t \in Thread, pc[t] \in {"prune", "rmdir"}, victims[t] # {},
         NEW v, v = Lowest(victims[t])
  PROVE  /\ v \in Version /\ v \in victims[t]
         /\ root \in Root /\ GoodRoot(root)
         /\ root.current = ver[t]
         /\ root.current \in Version
         /\ v < root.current
         /\ v + Keep <= root.current
         /\ \A w \in EpochDirs(root) : v <= w
<1>1. v \in victims[t] /\ \A w \in victims[t] : v <= w
  BY LowestIn, Zenon DEF IInv, TypeOK
<1>2. v \in Version
  BY <1>1, Zenon DEF IInv, TypeOK
<1>3. root \in Root /\ GoodRoot(root) /\ root.current = ver[t]
  BY Zenon DEF IInv, TypeOK, Files, Progress, ThreadProgress, Pointing, Pruning
<1>4. ver[t] \in Version
  BY Zenon DEF IInv, Control, VersionLabel, Label
<1>5. v < ver[t] /\ v + Keep <= ver[t] /\ \A u \in EpochDirs(root) : u < v => u \in victims[t]
  BY <1>1, Zenon DEF IInv, Progress, ThreadProgress, Removing
<1>6. ASSUME NEW w \in EpochDirs(root) PROVE v <= w
  <2>1. w \in Nat /\ v \in Nat
    BY <1>2, VersionType, Zenon DEF EpochDirs
  <2>2. CASE w < v
    BY <1>1, <1>5, <2>1, <2>2, Zenon
  <2> QED BY <2>1, <2>2, SMTT(30)
<1> QED BY <1>1, <1>2, <1>3, <1>4, <1>5, <1>6, Zenon

\* What a good root is does not depend on the state.
LEMMA FilesAfter ==
  ASSUME root' \in survivors', \A r \in survivors' : GoodRoot(r)
  PROVE  Files'
BY Zenon DEF Files, GoodRoot, EpochDirs, Window

\* A good root in place of the last one keeps Files.
LEMMA SetGood ==
  ASSUME Files, NEW r, SetRoot(r), GoodRoot(r)
  PROVE  Files'
BY FilesAfter DEF Files, SetRoot

\* A sync of the root keeps Files.
LEMMA SyncGood ==
  ASSUME Files, FsyncRoot
  PROVE  Files'
BY FilesAfter DEF Files, FsyncRoot

\* A step that leaves the root alone keeps Files.
LEMMA KeepGood ==
  ASSUME Files, UNCHANGED <<root, survivors>>
  PROVE  Files'
BY FilesAfter DEF Files

\* Steps that leave the root alone.
Elsewhere(t) ==
  \/ StartWrite(t) \/ StartRollback(t) \/ Lock(t) \/ ReadCurrent(t) \/ OpenVersion(t)
  \/ NextVersion(t) \/ CheckExists(t) \/ MakeStagingDir(t) \/ WriteMatchSegment(t)
  \/ WritePayloadSegment(t) \/ WriteManifest(t) \/ SyncStagingDir(t) \/ CleanUp(t)
  \/ TruncateCurrentTmp(t) \/ WriteCurrentTmp(t) \/ ListVictims(t) \/ PruneDone(t)
  \/ Return(t) \/ WriteFault(t) \/ ReadFault(t)

\* Steps outside the directories leave the root alone.
LEMMA ElsewhereKeeps ==
  ASSUME IInv, NEW t \in Thread, Elsewhere(t)
  PROVE  UNCHANGED <<root, survivors>>
<1>1. CASE WriteCurrentTmp(t)
  BY <1>1, Zenon DEF WriteCurrentTmp, IInv, Locks
<1>2. CASE ~ WriteCurrentTmp(t)
  BY <1>2, Zenon DEF Elsewhere, disk, StartWrite, StartRollback, Lock, ReadCurrent, OpenVersion,
     NextVersion, CheckExists, MakeStagingDir, WriteMatchSegment, WritePayloadSegment,
     WriteManifest, SyncStagingDir, WriteStaged, CleanUp, TruncateCurrentTmp, ListVictims,
     PruneDone, Return, WriteFault, ReadFault
<1> QED BY <1>1, <1>2

\* Every step keeps the roots good.
LEMMA FilesStep ==
  ASSUME IInv, [Next]_vars
  PROVE  Files'
<1> Files
  BY DEF IInv
<1>1. ASSUME NEW t \in Thread, Elsewhere(t) PROVE Files'
  BY <1>1, ElsewhereKeeps, KeepGood, Zenon
<1>2. ASSUME NEW t \in Thread, RenameEpoch(t) PROVE Files'
  BY <1>2, RenameGood, SetGood, KeepGood, Zenon DEF RenameEpoch
<1>3. ASSUME NEW t \in Thread, SyncEpoch(t) PROVE Files'
  BY <1>3, SyncGood DEF SyncEpoch
<1>4. ASSUME NEW t \in Thread, SwapCurrent(t) PROVE Files'
  BY <1>4, SwapGood, SetGood, KeepGood, Zenon DEF SwapCurrent
<1>5. ASSUME NEW t \in Thread, SyncCurrent(t) PROVE Files'
  BY <1>5, SyncGood, Zenon DEF SyncCurrent
<1>6. ASSUME NEW t \in Thread, RemoveFiles(t) PROVE Files'
  <2> DEFINE v == Lowest(victims[t])
  <2>1. v \in Version /\ root \in Root /\ GoodRoot(root) /\ root.current \in Version
        /\ v < root.current /\ v + Keep <= root.current
    BY <1>6, VictimFacts, Zenon DEF RemoveFiles
  <2>2. CASE root.epochs[v] = NoDir
    BY <1>6, <2>2, KeepGood, Zenon DEF RemoveFiles
  <2>3. CASE root.epochs[v] # NoDir
    <3>1. SetRoot([root EXCEPT !.epochs[v] = EmptyDir])
      BY <1>6, <2>3, Zenon DEF RemoveFiles
    <3> HIDE DEF v
    <3> QED BY <2>1, <2>3, <3>1, EmptiedRoot, SetGood, Zenon
  <2> QED BY <2>2, <2>3, Zenon
<1>7. ASSUME NEW t \in Thread, RemoveDir(t) PROVE Files'
  <2> DEFINE v == Lowest(victims[t])
  <2>1. victims[t] # {}
    BY <1>7 DEF RemoveDir, IInv, Control
  <2>2. v \in Version /\ root \in Root /\ GoodRoot(root) /\ root.current \in Version
        /\ v < root.current /\ v + Keep <= root.current /\ \A w \in EpochDirs(root) : v <= w
    BY <1>7, <2>1, VictimFacts, Zenon DEF RemoveDir
  <2>3. SetRoot([root EXCEPT !.epochs[v] = NoDir])
    BY <1>7 DEF RemoveDir
  <2> HIDE DEF v
  <2> QED BY <2>2, <2>3, DroppedRoot, SetGood, Zenon
<1>8. ASSUME NEW p \in Process, Crash(p) PROVE Files'
  BY <1>8, KeepGood, Zenon DEF Crash, disk
<1>9. CASE PowerLoss
  <2>1. PICK r \in survivors : root' = AfterPowerLoss(r) /\ survivors' = {AfterPowerLoss(r)}
    BY <1>9, Zenon DEF PowerLoss
  <2>2. GoodRoot(AfterPowerLoss(r))
    BY RootAfterPowerLoss, Zenon DEF IInv, TypeOK, Files
  <2>3. GoodRoot(root')
    BY <2>1, <2>2
  <2>4. root' \in survivors' /\ \A s \in survivors' : s = root'
    BY <2>1
  <2> QED BY <2>3, <2>4, FilesAfter, Zenon
<1>10. CASE UNCHANGED vars
  BY <1>10, KeepGood, Zenon DEF vars, disk
<1> QED
  BY <1>1, <1>2, <1>3, <1>4, <1>5, <1>6, <1>7, <1>8, <1>9, <1>10, Zenon DEF Next, Step, Elsewhere

-----------------------------------------------------------------------------
(* What was reported stays true of every root that may survive.            *)

\* Every step keeps what was reported.
LEMMA ReportedStep ==
  ASSUME IInv, [Next]_vars
  PROVE  Reported'
<1> root \in Root /\ survivors \subseteq Root /\ root \in survivors
  BY DEF IInv, TypeOK, Files
<1>1. ASSUME NEW t \in Thread, Elsewhere(t), ~ Return(t) PROVE Reported'
  <2>1. acked' = acked
    BY <1>1, Zenon DEF Elsewhere, StartWrite, StartRollback, Lock, ReadCurrent, OpenVersion,
       NextVersion, CheckExists, MakeStagingDir, WriteMatchSegment, WritePayloadSegment,
       WriteManifest, SyncStagingDir, WriteStaged, CleanUp, TruncateCurrentTmp,
       WriteCurrentTmp, ListVictims, PruneDone, WriteFault, ReadFault
  <2> QED BY <1>1, <2>1, ElsewhereKeeps, Zenon DEF IInv, Reported
<1>2. ASSUME NEW t \in Thread, Return(t) PROVE Reported'
  <2>1. pc[t] = "ok" => \A r \in survivors : r.current = ver[t]
    BY Zenon DEF IInv, Progress, ThreadProgress, Pointing
  <2> QED BY <1>2, <2>1, Zenon DEF Return, disk, IInv, Reported
<1>3. ASSUME NEW t \in Thread, RenameEpoch(t) PROVE Reported'
  BY <1>3 DEF RenameEpoch, SetRoot, IInv, Reported, Root
<1>4. ASSUME NEW t \in Thread, SyncEpoch(t) PROVE Reported'
  BY <1>4 DEF SyncEpoch, FsyncRoot, IInv, Reported
<1>5. ASSUME NEW t \in Thread, SwapCurrent(t) PROVE Reported'
  BY <1>5, Zenon DEF SwapCurrent, IInv, Reported
<1>6. ASSUME NEW t \in Thread, SyncCurrent(t) PROVE Reported'
  BY <1>6 DEF SyncCurrent, FsyncRoot, IInv, Reported
<1>7. ASSUME NEW t \in Thread, RemoveFiles(t) PROVE Reported'
  BY <1>7, ZenonT(40) DEF RemoveFiles, SetRoot, IInv, Reported, Root
<1>8. ASSUME NEW t \in Thread, RemoveDir(t) PROVE Reported'
  BY <1>8, Zenon DEF RemoveDir, SetRoot, IInv, Reported, Root
<1>9. ASSUME NEW p \in Process, Crash(p) PROVE Reported'
  BY <1>9, Zenon DEF Crash, disk, IInv, Reported
<1>10. CASE PowerLoss
  BY <1>10 DEF PowerLoss, AfterPowerLoss, IInv, Reported, Root
<1>11. CASE UNCHANGED vars
  BY <1>11, Zenon DEF vars, disk, IInv, Reported
<1> QED
  BY <1>1, <1>2, <1>3, <1>4, <1>5, <1>6, <1>7, <1>8, <1>9, <1>10, <1>11, Zenon DEF Next, Step, Elsewhere

-----------------------------------------------------------------------------
(* Each thread achieves what its next step relies on.                      *)

\* A thread that runs nothing, or waits for the mutex, relies on nothing.
LEMMA AtRest ==
  ASSUME NEW t \in Thread, pc'[t] \in {"idle", "lock"}
  PROVE  ThreadProgress(t)'
BY Zenon DEF ThreadProgress, Publishing, Pointing, Removing, Building, Staging, Swapping, Pruning

\* A thread that does not move keeps what it has while the files stay.
LEMMA NotMoving ==
  ASSUME NEW t \in Thread, ThreadProgress(t), UNCHANGED disk,
         pc'[t] = pc[t], op'[t] = op[t], row'[t] = row[t], base'[t] = base[t],
         ver'[t] = ver[t], victims'[t] = victims[t]
  PROVE  ThreadProgress(t)'
<1> USE DEF disk, StagedRows, EpochDirs
<1>1. Publishing(t)'
  BY ZenonT(40) DEF ThreadProgress, Publishing, Succ
<1>2. Pointing(t)'
  BY ZenonT(40) DEF ThreadProgress, Pointing
<1>3. Removing(t)'
  BY ZenonT(40) DEF ThreadProgress, Removing
<1>4. Building(t)'
  BY ZenonT(40) DEF ThreadProgress, Building, RowsAt
<1> QED BY <1>1, <1>2, <1>3, <1>4, ZenonT(40) DEF ThreadProgress

\* While a thread works the others are at rest, so only its own progress counts.
LEMMA OneMoves ==
  ASSUME Discipline, IInv, NEW t \in Thread, Busy(t),
         \A u \in Thread \ {t} : pc'[u] = pc[u],
         ThreadProgress(t)'
  PROVE  Progress'
<1> SUFFICES ASSUME NEW u \in Thread \ {t} PROVE ThreadProgress(u)'
  BY Zenon DEF Progress
<1> QED BY Exclusive, AtRest, Zenon DEF IInv

\* The progress a thread has to show at the label it moves to.
LEMMA Moves ==
  ASSUME Discipline, IInv, NEW t \in Thread, Busy(t), NEW l, Goto(t, l),
         pc'[t] = l => ThreadProgress(t)'
  PROVE  Progress'
<1>1. pc'[t] = l /\ \A u \in Thread \ {t} : pc'[u] = pc[u]
  BY Zenon DEF IInv, TypeOK, Goto
<1> QED BY <1>1, OneMoves, Zenon

\* How many members a set of numbers up to b has above a.
LEMMA AboveInterval ==
  ASSUME NEW S \in SUBSET Nat, NEW a \in Nat, NEW b \in Nat, a <= b, \A w \in S : w <= b
  PROVE  /\ IsFiniteSet({w \in S : w > a})
         /\ Cardinality({w \in S : w > a}) \in Nat
         /\ Cardinality({w \in S : w > a}) <= b - a
<1> DEFINE c == a + 1
<1>1. c \in Int /\ b \in Int /\ (IF c > b THEN 0 ELSE b - c + 1) = b - a
  OBVIOUS
<1>2. {w \in S : w > a} \subseteq c .. b
  <2> SUFFICES ASSUME NEW w \in S, w > a PROVE w \in c .. b
    BY Zenon
  <2>1. w \in Nat /\ w <= b
    OBVIOUS
  <2> QED BY <2>1
<1> HIDE DEF c
<1>3. IsFiniteSet(c .. b) /\ Cardinality(c .. b) = b - a
  BY <1>1, FS_Interval, Zenon
<1> QED BY <1>2, <1>3, FS_Subset, FS_CardinalityType, ZenonT(40)

\* All versions Prune deletes are below the window, and the lowest ones.
LEMMA SupersededOld ==
  ASSUME NEW dirs \in SUBSET Version, NEW top \in Version, \A w \in dirs : w <= top,
         NEW v \in Superseded(dirs)
  PROVE  /\ v < top
         /\ v + Keep <= top
         /\ \A u \in dirs : u < v => u \in Superseded(dirs)
<1> DEFINE Above(x) == {w \in dirs : w > x}
<1>1. Keep \in Nat /\ Keep # 0 /\ v \in dirs /\ Cardinality(Above(v)) >= Keep
  BY ConstantsAssumption, Zenon DEF Superseded
<1>2. v \in Nat /\ top \in Nat /\ v <= top /\ dirs \subseteq Nat
  BY <1>1, VersionType
<1>5. Cardinality(Above(v)) <= top - v /\ Cardinality(Above(v)) \in Nat
  BY <1>2, AboveInterval, Zenon
<1>6. v < top /\ v + Keep <= top
  <2> HIDE DEF Above
  <2> QED BY <1>1, <1>2, <1>5, SMTT(30)
<1>7. ASSUME NEW u \in dirs, u < v PROVE u \in Superseded(dirs)
  <2>1. u \in Nat
    BY <1>2, Zenon
  <2>2. Above(v) \subseteq Above(u)
    <3> SUFFICES ASSUME NEW w \in dirs, w > v PROVE w > u
      OBVIOUS
    <3>1. w \in Nat /\ u \in Nat /\ v \in Nat
      BY <1>2, <2>1, Zenon
    <3> QED BY <1>7, <3>1
  <2>3. u <= top
    OBVIOUS
  <2>4. IsFiniteSet(Above(u))
    BY <1>2, <2>1, <2>3, AboveInterval, ZenonT(40)
  <2>5. Cardinality(Above(v)) <= Cardinality(Above(u)) /\ Cardinality(Above(u)) \in Nat
    BY <2>2, <2>4, FS_Subset, FS_CardinalityType, Zenon
  <2>6. Cardinality(Above(u)) >= Keep
    <3> HIDE DEF Above
    <3> QED BY <1>1, <1>5, <2>5
  <2> QED BY <1>1, <2>6, Zenon DEF Superseded
<1> QED BY <1>6, <1>7, Zenon

\* CURRENT + 1, if it is free, is above all versions.
LEMMA NextIsTop ==
  ASSUME NEW r \in Root, GoodRoot(r), NEW v \in Version, v = Succ(r), r.epochs[v] = NoDir
  PROVE  \A w \in EpochDirs(r) : w <= v
<1> SUFFICES ASSUME NEW w \in EpochDirs(r), ~ (w <= v) PROVE FALSE
  OBVIOUS
<1>1. w \in Nat /\ v \in Nat /\ w # 0
  BY VersionType, Zenon DEF EpochDirs
<1>2. CASE r.current = NoFile
  <2>1. w \in {1}
    BY <1>2, Zenon DEF GoodRoot
  <2>2. v = 1
    BY <1>2, VersionType, Zenon DEF Succ, NoFile
  <2> QED BY <2>1, <2>2, SMTT(30)
<1>3. CASE r.current # NoFile
  <2>1. r.current \in EpochDirs(r) /\ r.current \in Nat /\ v = r.current + 1
    BY <1>3, CurrentIsThere, VersionType, ZenonT(40) DEF EpochDirs, Succ
  <2>2. r.current <= v /\ v <= w
    BY <1>1, <2>1
  <2>3. v \in EpochDirs(r)
    BY <2>1, <2>2, Zenon DEF GoodRoot
  <2> QED BY <2>3, Zenon DEF EpochDirs
<1> QED BY <1>2, <1>3, Zenon

\* Every step keeps the progress of the threads.
LEMMA ProgressStep ==
  ASSUME Discipline, IInv, [Next]_vars
  PROVE  Progress'
<1> USE DEF Staging, Swapping, Pruning
<1>0. ASSUME NEW t \in Thread PROVE ThreadProgress(t)
  BY Zenon DEF IInv, Progress
<1>1. ASSUME NEW t \in Thread, StartWrite(t) PROVE Progress'
  <2> SUFFICES ASSUME NEW u \in Thread PROVE ThreadProgress(u)'
    BY Zenon DEF Progress
  <2>1. CASE u = t
    BY <1>1, <2>1, AtRest, Zenon DEF StartWrite, Goto, IInv, TypeOK
  <2>2. CASE u # t
    BY <1>0, <1>1, <2>2, NotMoving, Zenon DEF StartWrite, Goto, IInv, TypeOK, disk
  <2> QED BY <2>1, <2>2, Zenon
<1>2. ASSUME NEW t \in Thread, StartRollback(t) PROVE Progress'
  <2> SUFFICES ASSUME NEW u \in Thread PROVE ThreadProgress(u)'
    BY DEF Progress
  <2>1. CASE u = t
    <3>1. pc'[t] = "open" /\ op'[t] = "rollback"
      BY <1>2, Zenon DEF StartRollback, Goto, IInv, TypeOK
    <3> QED BY <2>1, <3>1, ZenonT(40) DEF ThreadProgress, Publishing, Pointing, Removing, Building
  <2>2. CASE u # t
    BY <1>0, <1>2, <2>2, NotMoving, Zenon DEF StartRollback, Goto, IInv, TypeOK, disk
  <2> QED BY <2>1, <2>2, Zenon
<1>3. ASSUME NEW t \in Thread, Lock(t) PROVE Progress'
  <2> SUFFICES ASSUME NEW u \in Thread PROVE ThreadProgress(u)'
    BY Zenon DEF Progress
  <2>1. CASE u = t
    <3>1. pc'[t] = (IF op[t] = "insert" THEN "current" ELSE "next") /\ op'[t] = op[t]
      BY <1>3, Zenon DEF Lock, Goto, IInv, TypeOK, locals
    <3> QED BY <2>1, <3>1, ZenonT(40) DEF ThreadProgress, Publishing, Pointing, Removing, Building
  <2>2. CASE u # t
    BY <1>0, <1>3, <2>2, NotMoving, Zenon DEF Lock, Goto, IInv, TypeOK, disk, locals
  <2> QED BY <2>1, <2>2, Zenon
<1>4. ASSUME NEW t \in Thread, ReadCurrent(t) PROVE Progress'
  <2>1. (pc'[t] = "open" /\ ver'[t] = root'.current) \/ pc'[t] = "error"
    BY <1>4, Zenon DEF ReadCurrent, Goto, IInv, TypeOK, disk
  <2>2. ThreadProgress(t)'
    BY <2>1, Zenon DEF ThreadProgress, Publishing, Pointing, Removing, Building
  <2> QED BY <1>4, <2>2, Moves, ZenonT(40) DEF ReadCurrent, Busy
<1>5. ASSUME NEW t \in Thread, OpenVersion(t) PROVE Progress'
  <2>1. UNCHANGED <<root, op, ver>>
    BY <1>5, ZenonT(40) DEF OpenVersion, disk
  <2>2. CASE ~ Readable(root.epochs[ver[t]])
    <3>1. pc'[t] = "error"
      BY <1>5, <2>2, Zenon DEF OpenVersion, Goto, IInv, TypeOK
    <3>2. ThreadProgress(t)'
      BY <3>1, Zenon DEF ThreadProgress, Publishing, Pointing, Removing, Building
    <3> QED BY <1>5, <2>2, <3>2, Moves, ZenonT(40) DEF OpenVersion, Busy
  <2>3. CASE Readable(root.epochs[ver[t]]) /\ op[t] = "insert"
    <3>1. pc'[t] = "next" /\ base'[t] = root.epochs[ver[t]].manifest
      BY <1>5, <2>3, Zenon DEF OpenVersion, Goto, IInv, TypeOK
    <3>2. ver[t] = root.current /\ ver[t] \in Version
      BY <1>0, <1>5, <2>3, ZenonT(40) DEF OpenVersion, ThreadProgress, Building, IInv, Control, VersionLabel, Label
    <3>3. ThreadProgress(t)'
      BY <2>1, <2>3, <3>1, <3>2, ZenonT(40) DEF ThreadProgress, Publishing, Pointing, Removing, Building, RowsAt
    <3> QED BY <1>5, <2>3, <3>3, Moves, ZenonT(40) DEF OpenVersion, Busy
  <2>4. CASE Readable(root.epochs[ver[t]]) /\ op[t] # "insert"
    <3>1. pc'[t] = "trunc" /\ op[t] = "rollback"
      BY <1>5, <2>4, ZenonT(40) DEF OpenVersion, Goto, IInv, TypeOK, Control, Operation
    <3>3. ThreadProgress(t)'
      BY <2>1, <2>4, <3>1, ZenonT(40) DEF ThreadProgress, Publishing, Pointing, Removing, Building
    <3> QED BY <1>5, <2>4, <3>3, Moves, ZenonT(40) DEF OpenVersion, Busy
  <2> QED BY <2>2, <2>3, <2>4, Zenon
<1>6. ASSUME NEW t \in Thread, NextVersion(t) PROVE Progress'
  <2>1. pc'[t] = "exists" /\ ver'[t] = Succ(root) /\ UNCHANGED <<root, op, base>>
    BY <1>6, Zenon DEF NextVersion, Goto, IInv, TypeOK, disk, Succ
  <2>2. op[t] = "insert" => base[t] = RowsAt(root, root.current)
    BY <1>0, <1>6, ZenonT(40) DEF NextVersion, ThreadProgress, Building
  <2>3. ThreadProgress(t)'
    BY <2>1, <2>2, ZenonT(40) DEF ThreadProgress, Publishing, Pointing, Removing, Building, RowsAt, Succ
  <2> QED BY <1>6, <2>3, Moves, Zenon DEF NextVersion, Busy
<1>7. ASSUME NEW t \in Thread, CheckExists(t) PROVE Progress'
  <2>1. UNCHANGED <<root, op, base, ver>>
    BY <1>7, ZenonT(40) DEF CheckExists, disk, locals
  <2>2. CASE root.epochs[ver[t]] # NoDir
    <3>1. pc'[t] = "error"
      BY <1>7, <2>2, Zenon DEF CheckExists, Goto, IInv, TypeOK
    <3>2. ThreadProgress(t)'
      BY <3>1 DEF ThreadProgress, Publishing, Pointing, Removing, Building
    <3> QED BY <1>7, <2>2, <3>2, Moves, Zenon DEF CheckExists, Busy
  <2>3. CASE root.epochs[ver[t]] = NoDir
    <3>1. pc'[t] = "mkdir"
      BY <1>7, <2>3, Zenon DEF CheckExists, Goto, IInv, TypeOK
    <3>2. ver[t] = Succ(root) /\ ver[t] \in Version
      BY <1>0, <1>7, <2>3, ZenonT(40) DEF CheckExists, ThreadProgress, Publishing, IInv, Control, VersionLabel, Label
    <3>3. \A w \in EpochDirs(root) : w <= ver[t]
      BY <2>3, <3>2, NextIsTop, ZenonT(40) DEF IInv, TypeOK, Files
    <3>4. op[t] = "insert" => base[t] = RowsAt(root, root.current)
      BY <1>0, <1>7, ZenonT(40) DEF CheckExists, ThreadProgress, Building
    <3>5. Publishing(t)'
      BY <2>1, <2>3, <3>1, <3>2, <3>3, ZenonT(40) DEF Publishing, Succ, EpochDirs
    <3>6. ThreadProgress(t)'
      BY <2>1, <3>1, <3>4, <3>5, Zenon DEF ThreadProgress, Pointing, Removing, Building, RowsAt
    <3> QED BY <1>7, <2>3, <3>6, Moves, Zenon DEF CheckExists, Busy
  <2> QED BY <2>2, <2>3, Zenon
<1>8. ASSUME NEW t \in Thread, MakeStagingDir(t) PROVE Progress'
  <2>1. pc[t] = "mkdir" /\ UNCHANGED <<root, op, row, base, ver>> /\ ver[t] \in Version
    BY <1>8, Zenon DEF MakeStagingDir, locals, IInv, Control, VersionLabel, Label
  <2>2. pc'[t] = "match" /\ staging'[ver[t]] # NoDir
    BY <1>8, <2>1, EmptyDirType, Zenon DEF MakeStagingDir, Goto, IInv, TypeOK
  <2>3. Publishing(t)'
    BY <1>0, <2>1, <2>2, ZenonT(40) DEF ThreadProgress, Publishing, Succ, EpochDirs
  <2>4. ThreadProgress(t)'
    BY <1>0, <2>1, <2>2, <2>3, ZenonT(40) DEF ThreadProgress, Pointing, Removing, Building, RowsAt
  <2> QED BY <1>8, <2>4, Moves, Zenon DEF MakeStagingDir, Busy
<1>9. ASSUME NEW t \in Thread, WriteMatchSegment(t) PROVE Progress'
  <2>1. pc[t] = "match" /\ UNCHANGED <<root, op, row, base, ver>> /\ ver[t] \in Version
    BY <1>9, Zenon DEF WriteMatchSegment, WriteStaged, locals, IInv, Control, VersionLabel, Label
  <2>2. staging[ver[t]] \in Dir /\ staging[ver[t]] # NoDir
    BY <1>0, <2>1, ZenonT(40) DEF ThreadProgress, Publishing, IInv, TypeOK
  <2>3. Goto(t, "payload") /\ staging' = [staging EXCEPT ![ver[t]] = [@ EXCEPT !.match = StagedRows(t)]]
    BY <1>9, <2>2, Zenon DEF WriteMatchSegment, WriteStaged
  <2>4. pc'[t] = "payload" /\ staging'[ver[t]] = [staging[ver[t]] EXCEPT !.match = StagedRows(t)]
    BY <2>1, <2>3, Zenon DEF Goto, IInv, TypeOK
  <2>5. staging'[ver[t]] # NoDir
    BY <2>2, <2>4, StagedFile, ConstantsAssumption, <2>1, SMTT(30) DEF Dir, File, IInv, WriterLabel, Label
  <2>6. Publishing(t)'
    BY <1>0, <2>1, <2>2, <2>4, <2>5, Zenon DEF ThreadProgress, Publishing, StagedRows, Succ, EpochDirs, Dir
  <2>7. ThreadProgress(t)'
    BY <1>0, <2>1, <2>4, <2>6, Zenon DEF ThreadProgress, Pointing, Removing, Building, RowsAt, StagedRows
  <2> QED BY <2>1, <2>3, <2>7, Moves, Zenon DEF Busy
<1>10. ASSUME NEW t \in Thread, WritePayloadSegment(t) PROVE Progress'
  <2>1. pc[t] = "payload" /\ UNCHANGED <<root, op, row, base, ver>> /\ ver[t] \in Version
    BY <1>10, Zenon DEF WritePayloadSegment, WriteStaged, locals, IInv, Control, VersionLabel, Label
  <2>2. staging[ver[t]] \in Dir /\ staging[ver[t]] # NoDir
    BY <1>0, <2>1, Zenon DEF ThreadProgress, Publishing, IInv, TypeOK
  <2>3. Goto(t, "manifest") /\ staging' = [staging EXCEPT ![ver[t]] = [@ EXCEPT !.payload = StagedRows(t)]]
    BY <1>10, <2>2, Zenon DEF WritePayloadSegment, WriteStaged
  <2>4. pc'[t] = "manifest" /\ staging'[ver[t]] = [staging[ver[t]] EXCEPT !.payload = StagedRows(t)]
    BY <2>1, <2>3, Zenon DEF Goto, IInv, TypeOK
  <2>5. staging'[ver[t]] # NoDir
    BY <2>2, <2>4, StagedFile, ConstantsAssumption, <2>1, SMTT(30) DEF Dir, File, IInv, WriterLabel, Label
  <2>6. Publishing(t)'
    BY <1>0, <2>1, <2>2, <2>4, <2>5, Zenon DEF ThreadProgress, Publishing, StagedRows, Succ, EpochDirs, Dir
  <2>7. ThreadProgress(t)'
    BY <1>0, <2>1, <2>4, <2>6, Zenon DEF ThreadProgress, Pointing, Removing, Building, RowsAt, StagedRows
  <2> QED BY <2>1, <2>3, <2>7, Moves, Zenon DEF Busy
<1>11. ASSUME NEW t \in Thread, WriteManifest(t) PROVE Progress'
  <2>1. pc[t] = "manifest" /\ UNCHANGED <<root, op, row, base, ver>> /\ ver[t] \in Version
    BY <1>11, Zenon DEF WriteManifest, WriteStaged, locals, IInv, Control, VersionLabel, Label
  <2>2. staging[ver[t]] \in Dir /\ staging[ver[t]] # NoDir
    BY <1>0, <2>1, ZenonT(40) DEF ThreadProgress, Publishing, IInv, TypeOK
  <2>3. Goto(t, "sync") /\ staging' = [staging EXCEPT ![ver[t]] = [@ EXCEPT !.manifest = StagedRows(t)]]
    BY <1>11, <2>2, Zenon DEF WriteManifest, WriteStaged
  <2>4. pc'[t] = "sync" /\ staging'[ver[t]] = [staging[ver[t]] EXCEPT !.manifest = StagedRows(t)]
    BY <2>1, <2>3, Zenon DEF Goto, IInv, TypeOK
  <2>5. staging'[ver[t]] # NoDir
    BY <2>2, <2>4, StagedFile, ConstantsAssumption, <2>1, SMTT(30) DEF Dir, File, IInv, WriterLabel, Label
  <2>6. Publishing(t)'
    BY <1>0, <2>1, <2>2, <2>4, <2>5, Zenon DEF ThreadProgress, Publishing, StagedRows, Succ, EpochDirs, Dir
  <2>7. ThreadProgress(t)'
    BY <1>0, <2>1, <2>4, <2>6, Zenon DEF ThreadProgress, Pointing, Removing, Building, RowsAt, StagedRows
  <2> QED BY <2>1, <2>3, <2>7, Moves, Zenon DEF Busy
<1>12. ASSUME NEW t \in Thread, SyncStagingDir(t) PROVE Progress'
  <2>1. pc[t] = "sync" /\ UNCHANGED <<root, op, row, base, ver>> /\ ver[t] \in Version
    BY <1>12, Zenon DEF SyncStagingDir, WriteStaged, locals, IInv, Control, VersionLabel, Label
  <2>2. staging[ver[t]] \in Dir /\ staging[ver[t]] # NoDir
    BY <1>0, <2>1, ZenonT(40) DEF ThreadProgress, Publishing, IInv, TypeOK
  <2>3. Goto(t, "rename") /\ staging' = [staging EXCEPT ![ver[t]] = [@ EXCEPT !.synced = TRUE]]
    BY <1>12, <2>2, Zenon DEF SyncStagingDir, WriteStaged
  <2>4. pc'[t] = "rename" /\ staging'[ver[t]] = [staging[ver[t]] EXCEPT !.synced = TRUE]
    BY <2>1, <2>3, Zenon DEF Goto, IInv, TypeOK
  <2>5. staging'[ver[t]] # NoDir
    BY <2>2, <2>4, StagedFile, ConstantsAssumption, <2>1, ZenonT(40) DEF Dir, File, IInv, WriterLabel, Label
  <2>6. Publishing(t)'
    BY <1>0, <2>1, <2>2, <2>4, <2>5, Zenon DEF ThreadProgress, Publishing, StagedRows, Succ, EpochDirs, Dir
  <2>7. ThreadProgress(t)'
    BY <1>0, <2>1, <2>4, <2>6, Zenon DEF ThreadProgress, Pointing, Removing, Building, RowsAt, StagedRows
  <2> QED BY <2>1, <2>3, <2>7, Moves, Zenon DEF Busy
<1>13. ASSUME NEW t \in Thread, RenameEpoch(t) PROVE Progress'
  <2>1. pc[t] = "rename" /\ UNCHANGED <<op, row, base, ver>> /\ ver[t] \in Version
    BY <1>13 DEF RenameEpoch, locals, IInv, Control, VersionLabel, Label
  <2>2. root.epochs[ver[t]] = NoDir /\ staging[ver[t]] \in Dir /\ Readable(staging[ver[t]])
        /\ staging[ver[t]].manifest = StagedRows(t)
    BY <2>1, RenameGood, StagedComplete, ZenonT(40)
  <2>3. Goto(t, "fsync") /\ root' = [root EXCEPT !.epochs[ver[t]] = staging[ver[t]]]
    BY <1>13, <2>2, Zenon DEF RenameEpoch, SetRoot, Readable
  <2>4. pc'[t] = "fsync" /\ root'.current = root.current /\ root'.epochs[ver[t]] = staging[ver[t]]
        /\ \A w \in Version \ {ver[t]} : root'.epochs[w] = root.epochs[w]
    BY <2>1, <2>3, Zenon DEF Goto, IInv, TypeOK, Root
  <2>5. \A w \in EpochDirs(root)' : w <= ver[t] \/ op[t] = "rollback"
    <3>1. \A w \in EpochDirs(root)' : w \in EpochDirs(root) \/ w = ver[t]
      BY <2>4, Zenon DEF EpochDirs
    <3>2. op[t] # "rollback" => \A w \in EpochDirs(root) : w <= ver[t]
      BY <1>0, <2>1, Zenon DEF ThreadProgress, Publishing
    <3>3. ver[t] \in Nat
      BY <2>1, VersionType, Zenon
    <3>4. ver[t] <= ver[t]
      BY <3>3, SMTT(30)
    <3> QED BY <3>1, <3>2, <3>4, Zenon
  <2>6. RowsAt(root, root.current)' = RowsAt(root, root.current)
    <3>1. root.current \in Version => root.current # ver[t]
      BY <2>2, VersionType, ZenonT(40) DEF IInv, Files, GoodRoot, Readable, NoFile
    <3> QED BY <2>4, <3>1, Zenon DEF RowsAt
  <2>7. Publishing(t)'
    BY <2>1, <2>4, <2>5, Zenon DEF Publishing
  <2>8. ThreadProgress(t)'
    BY <1>0, <2>1, <2>2, <2>4, <2>6, <2>7, Zenon DEF ThreadProgress, Pointing, Removing, Building, StagedRows
  <2> QED BY <2>1, <2>3, <2>8, Moves, Zenon DEF Busy
<1>14. ASSUME NEW t \in Thread, SyncEpoch(t) PROVE Progress'
  <2>1. pc[t] = "fsync" /\ pc'[t] = "trunc" /\ UNCHANGED <<root, op, row, base, ver>>
    BY <1>14, Zenon DEF SyncEpoch, FsyncRoot, locals, Goto, IInv, TypeOK
  <2>2. ThreadProgress(t)'
    BY <1>0, <2>1, ZenonT(40) DEF ThreadProgress, Publishing, Pointing, Removing, Building, EpochDirs, RowsAt, StagedRows
  <2> QED BY <1>14, <2>2, Moves, Zenon DEF SyncEpoch, Busy
<1>15. ASSUME NEW t \in Thread, CleanUp(t) PROVE Progress'
  <2>1. pc'[t] = "error"
    BY <1>15, Zenon DEF CleanUp, Goto, IInv, TypeOK
  <2>2. ThreadProgress(t)'
    BY <2>1, Zenon DEF ThreadProgress, Publishing, Pointing, Removing, Building
  <2> QED BY <1>15, <2>2, Moves, ZenonT(40) DEF CleanUp, Busy
<1>16. ASSUME NEW t \in Thread, TruncateCurrentTmp(t) PROVE Progress'
  <2>1. pc[t] = "trunc" /\ pc'[t] = "write" /\ UNCHANGED <<root, op, row, base, ver>>
    BY <1>16, Zenon DEF TruncateCurrentTmp, Goto, IInv, TypeOK
  <2>2. ThreadProgress(t)'
    BY <1>0, <2>1, ZenonT(40) DEF ThreadProgress, Publishing, Pointing, Removing, Building, EpochDirs, RowsAt, StagedRows
  <2> QED BY <1>16, <2>2, Moves, Zenon DEF TruncateCurrentTmp, Busy
<1>17. ASSUME NEW t \in Thread, WriteCurrentTmp(t) PROVE Progress'
  <2>1. fd[t] = "tmp"
    BY <1>17, Zenon DEF WriteCurrentTmp, IInv, Locks
  <2>2. pc[t] = "write" /\ pc'[t] = "swap" /\ UNCHANGED <<root, op, row, base, ver>> /\ curTmp' = ver[t]
    BY <1>17, <2>1, Zenon DEF WriteCurrentTmp, Goto, IInv, TypeOK
  <2>3. ThreadProgress(t)'
    BY <1>0, <2>2, ZenonT(40) DEF ThreadProgress, Publishing, Pointing, Removing, Building, EpochDirs, RowsAt, StagedRows
  <2> QED BY <1>17, <2>3, Moves, Zenon DEF WriteCurrentTmp, Busy
<1>18. ASSUME NEW t \in Thread, SwapCurrent(t) PROVE Progress'
  <2>1. pc[t] = "swap" /\ curTmp = ver[t] /\ ver[t] \in Version /\ UNCHANGED <<op, ver>>
    BY <1>18, SwapGood, Zenon DEF SwapCurrent
  <2>2. Goto(t, "fsync2") /\ root' = [root EXCEPT !.current = ver[t]]
    BY <1>18, <2>1, VersionType, Zenon DEF SwapCurrent, SetRoot, NoFile
  <2>3. pc'[t] = "fsync2" /\ root'.current = ver[t] /\ root'.epochs = root.epochs
    BY <2>2, Zenon DEF Goto, IInv, TypeOK, Root
  <2>4. ThreadProgress(t)'
    BY <1>0, <2>1, <2>3, ZenonT(40) DEF ThreadProgress, Publishing, Pointing, Removing, Building, EpochDirs
  <2> QED BY <2>1, <2>2, <2>4, Moves, Zenon DEF Busy
<1>19. ASSUME NEW t \in Thread, SyncCurrent(t) PROVE Progress'
  <2>1. pc[t] = "fsync2" /\ pc'[t] = (IF op[t] = "insert" THEN "list" ELSE "ok")
        /\ UNCHANGED <<root, op, ver>> /\ survivors' = {root}
    BY <1>19, Zenon DEF SyncCurrent, FsyncRoot, locals, Goto, IInv, TypeOK
  <2>2. ThreadProgress(t)'
    BY <1>0, <2>1, ZenonT(40) DEF ThreadProgress, Publishing, Pointing, Removing, Building, EpochDirs
  <2> QED BY <1>19, <2>2, Moves, Zenon DEF SyncCurrent, Busy
<1>20. ASSUME NEW t \in Thread, ListVictims(t) PROVE Progress'
  <2>1. pc[t] = "list" /\ pc'[t] = "prune" /\ UNCHANGED <<root, survivors, op, ver>>
        /\ victims'[t] = Superseded(EpochDirs(root))
    BY <1>20, Zenon DEF ListVictims, disk, Goto, IInv, TypeOK
  <2>2. op[t] = "insert" /\ ver[t] \in Version
    BY <2>1, Zenon DEF IInv, Control, VersionLabel, Label
  <2>3. \A w \in EpochDirs(root) : w <= ver[t]
    BY <1>0, <2>1, <2>2, ZenonT(40) DEF ThreadProgress, Publishing
  <2>4. EpochDirs(root) \in SUBSET Version /\ EpochDirs(root)' = EpochDirs(root)
    BY <2>1, Zenon DEF EpochDirs
  <2>5. Removing(t)'
    BY <2>1, <2>2, <2>3, <2>4, SupersededOld, Zenon DEF Removing
  <2>6. ThreadProgress(t)'
    BY <1>0, <2>1, <2>3, <2>4, <2>5, ZenonT(40) DEF ThreadProgress, Publishing, Pointing, Building
  <2> QED BY <1>20, <2>6, Moves, ZenonT(40) DEF ListVictims, Busy
<1>21. ASSUME NEW t \in Thread, RemoveFiles(t) PROVE Progress'
  <2> DEFINE v == Lowest(victims[t])
  <2>1. pc[t] = "prune" /\ pc'[t] = "rmdir" /\ UNCHANGED <<op, ver, victims>>
    BY <1>21, Zenon DEF RemoveFiles, locals, Goto, IInv, TypeOK
  <2>2. v \in Version /\ root \in Root
    BY <1>21, <2>1, VictimFacts, Zenon DEF RemoveFiles
  <2>3. \/ UNCHANGED <<root, survivors>>
        \/ root.epochs[v] # NoDir /\ SetRoot([root EXCEPT !.epochs[v] = EmptyDir])
    BY <1>21 DEF RemoveFiles
  <2> HIDE DEF v
  <2>4. EpochDirs(root)' = EpochDirs(root) /\ root'.current = root.current
    BY <2>2, <2>3, EmptyDirType, Zenon DEF EpochDirs, SetRoot, Root
  <2>5. \A r \in survivors' : r.current = ver[t]
    BY <1>0, <2>1, <2>3, <2>4, Zenon DEF ThreadProgress, Pointing, SetRoot, IInv, Files
  <2>6. ThreadProgress(t)'
    BY <1>0, <2>1, <2>4, <2>5, ZenonT(40) DEF ThreadProgress, Publishing, Pointing, Removing, Building
  <2> QED BY <1>21, <2>6, Moves, Zenon DEF RemoveFiles, Busy
<1>22. ASSUME NEW t \in Thread, RemoveDir(t) PROVE Progress'
  <2> DEFINE v == Lowest(victims[t])
  <2>1. pc[t] = "rmdir" /\ pc'[t] = "prune" /\ UNCHANGED <<op, ver>> /\ victims'[t] = victims[t] \ {v}
    BY <1>22, Zenon DEF RemoveDir, Goto, IInv, TypeOK
  <2>2. victims[t] # {}
    BY <2>1, ZenonT(40) DEF IInv, Control
  <2>3. v \in Version /\ root \in Root
    BY <2>1, <2>2, VictimFacts, Zenon
  <2>4. SetRoot([root EXCEPT !.epochs[v] = NoDir])
    BY <1>22 DEF RemoveDir
  <2> HIDE DEF v
  <2>5. EpochDirs(root)' = EpochDirs(root) \ {v} /\ root'.current = root.current
    BY <2>3, <2>4, Zenon DEF EpochDirs, SetRoot, Root
  <2>6. \A r \in survivors' : r.current = ver[t]
    BY <1>0, <2>1, <2>4, <2>5, ZenonT(40) DEF ThreadProgress, Pointing, SetRoot, IInv, Files
  <2>7. ThreadProgress(t)'
    BY <1>0, <2>1, <2>5, <2>6, Zenon DEF ThreadProgress, Publishing, Pointing, Removing, Building
  <2> QED BY <1>22, <2>7, Moves, Zenon DEF RemoveDir, Busy
<1>23. ASSUME NEW t \in Thread, PruneDone(t) PROVE Progress'
  <2>1. pc[t] = "prune" /\ pc'[t] = "ok" /\ UNCHANGED <<survivors, ver>>
    BY <1>23, Zenon DEF PruneDone, disk, locals, Goto, IInv, TypeOK
  <2>2. ThreadProgress(t)'
    BY <1>0, <2>1, ZenonT(40) DEF ThreadProgress, Publishing, Pointing, Removing, Building
  <2> QED BY <1>23, <2>2, Moves, Zenon DEF PruneDone, Busy
<1>24. ASSUME NEW t \in Thread, Return(t) PROVE Progress'
  <2>1. Busy(t) /\ pc'[t] = "idle" /\ \A u \in Thread \ {t} : pc'[u] = pc[u]
    BY <1>24, Zenon DEF Return, Leave, Busy
  <2> QED BY <2>1, AtRest, OneMoves, ZenonT(40)
<1>25. ASSUME NEW t \in Thread, WriteFault(t) PROVE Progress'
  <2>1. PICK l \in {"error", "cleanup", "ok"} : Goto(t, l)
    BY <1>25, Zenon DEF WriteFault
  <2>2. pc'[t] = l /\ UNCHANGED <<survivors, ver>> /\ Busy(t)
    BY <1>25, <2>1, Zenon DEF WriteFault, Goto, IInv, TypeOK, Busy
  <2>3. l = "ok" => pc[t] \in Pruning
    BY <1>25, <2>2, Zenon DEF WriteFault, Goto, IInv, TypeOK
  <2>4. ThreadProgress(t)'
    BY <1>0, <2>2, <2>3, ZenonT(40) DEF ThreadProgress, Publishing, Pointing, Removing, Building
  <2> QED BY <2>1, <2>2, <2>4, Moves, Zenon
<1>26. ASSUME NEW t \in Thread, ReadFault(t) PROVE Progress'
  <2>1. CASE pc[t] \in {"current", "open"}
    <3>1. pc'[t] = "error" /\ Goto(t, "error") /\ Busy(t)
      BY <1>26, <2>1, Zenon DEF ReadFault, Goto, IInv, TypeOK, Busy
    <3>2. ThreadProgress(t)'
      BY <3>1, Zenon DEF ThreadProgress, Publishing, Pointing, Removing, Building
    <3> QED BY <1>26, <2>1, <3>1, <3>2, Moves, Zenon DEF ReadFault
  <2>2. CASE pc[t] = "next"
    <3>1. pc'[t] = "exists" /\ ver'[t] = 1 /\ UNCHANGED <<root, op, base>>
      BY <1>26, <2>2, ZenonT(40) DEF ReadFault, Goto, IInv, TypeOK, disk
    <3>2. root.epochs[1] # NoDir
      BY <1>26, <2>2, Zenon DEF ReadFault, Discipline
    <3>3. op[t] = "insert" => base[t] = RowsAt(root, root.current)
      BY <1>0, <2>2, Zenon DEF ThreadProgress, Building
    <3>4. ThreadProgress(t)'
      BY <3>1, <3>2, <3>3, ZenonT(40) DEF ThreadProgress, Publishing, Pointing, Removing, Building, RowsAt
    <3> QED BY <1>26, <2>2, <3>4, Moves, Zenon DEF ReadFault, Busy
  <2> QED BY <1>26, <2>1, <2>2, ZenonT(40) DEF ReadFault
<1>27. ASSUME NEW p \in Process, Crash(p) PROVE Progress'
  <2> SUFFICES ASSUME NEW u \in Thread PROVE ThreadProgress(u)'
    BY Zenon DEF Progress
  <2>1. CASE ProcOf[u] = p
    BY <1>27, <2>1, AtRest, ZenonT(40) DEF Crash, Leave
  <2>2. CASE ProcOf[u] # p
    BY <1>0, <1>27, <2>2, NotMoving, ZenonT(40) DEF Crash, Leave
  <2> QED BY <2>1, <2>2, Zenon
<1>28. CASE PowerLoss
  BY <1>28, AtRest, ZenonT(40) DEF PowerLoss, Leave, Progress
<1>29. CASE UNCHANGED vars
  <2> SUFFICES ASSUME NEW u \in Thread PROVE ThreadProgress(u)'
    BY DEF Progress
  <2> QED BY <1>0, <1>29, NotMoving, ZenonT(40) DEF vars, disk, locals
<1> QED
  BY <1>1, <1>2, <1>3, <1>4, <1>5, <1>6, <1>7, <1>8, <1>9, <1>10, <1>11, <1>12, <1>13, <1>14, <1>15, <1>16, <1>17, <1>18, <1>19, <1>20, <1>21, <1>22, <1>23, <1>24, <1>25, <1>26, <1>27, <1>28, <1>29, ZenonT(40) DEF Next, Step

-----------------------------------------------------------------------------
(* The theorems.                                                           *)

\* The inductive invariant holds at first.
LEMMA IInvInit == Init => IInv
<1> SUFFICES ASSUME Init PROVE IInv
  OBVIOUS
<1>1. Locks
  BY Zenon DEF Init, Locks, Busy
<1>2. EpochDirs(root) = {} /\ root.current = NoFile /\ survivors = {root}
      /\ \A v \in Version : root.epochs[v] = NoDir
  BY Zenon DEF Init, EpochDirs
<1>3. Files
  BY <1>2, Zenon DEF Files, GoodRoot, Window, Readable
<1>4. Progress
  BY ZenonT(40) DEF Init, Progress, ThreadProgress, Publishing, Pointing, Removing, Building, Staging, Swapping, Pruning
<1>5. Reported
  BY DEF Init, Reported
<1> QED BY <1>1, <1>3, <1>4, <1>5, TypeInit, Zenon DEF IInv

\* Every step keeps the inductive invariant.
LEMMA IInvStep ==
  ASSUME Discipline
  PROVE  IInv /\ [Next]_vars => IInv'
<1> SUFFICES ASSUME IInv, [Next]_vars PROVE IInv'
  OBVIOUS
<1>1. TypeOK' /\ Control'
  BY TypeStep, ControlStep, Zenon DEF IInv
<1>2. Locks'
  BY LocksStep DEF IInv
<1>3. Files' /\ Reported' /\ Progress'
  BY FilesStep, ReportedStep, ProgressStep, Zenon
<1> QED BY <1>1, <1>2, <1>3, Zenon DEF IInv

\* Under the discipline the inductive invariant always holds.
THEOREM Invariance == ASSUME Discipline PROVE Spec => []IInv
<1>1. Init => IInv
  BY IInvInit
<1>2. IInv /\ [Next]_vars => IInv'
  BY IInvStep
<1> QED BY <1>1, <1>2, PTL DEF Spec

\* CURRENT always names an epoch that opens, for any number of threads, faults,
\* crashes and losses of power.
THEOREM CurrentAlwaysReadable == ASSUME Discipline PROVE Spec => []CurrentReadable
<1>1. IInv => CurrentReadable
  BY Zenon DEF IInv, Files, GoodRoot, CurrentReadable
<1> QED BY <1>1, Invariance, PTL

\* A reported version stays CURRENT until the next swap, losses of power included.
THEOREM ReportsAreDurable == ASSUME Discipline PROVE Spec => []AckedIsCurrent
<1>1. IInv => AckedIsCurrent
  BY Zenon DEF IInv, Files, Reported, AckedIsCurrent
<1> QED BY <1>1, Invariance, PTL

\* The Keep highest versions always open, for every retention Keep.
THEOREM WindowIsKept == ASSUME Discipline PROVE Spec => []RollbackWindow
<1>1. IInv => RollbackWindow
  BY Zenon DEF IInv, Files, GoodRoot, RollbackWindow
<1> QED BY <1>1, Invariance, PTL

\* Only SwapCurrent moves a thread from the swap to the sync after it.
LEMMA OnlySwapSwaps ==
  ASSUME TypeOK, [Next]_vars, NEW t \in Thread, pc[t] = "swap", pc'[t] = "fsync2"
  PROVE  SwapCurrent(t)
<1> USE DEF TypeOK, Goto
<1>1. ASSUME NEW u \in Thread, Step(u) PROVE u = t
  <2>1. CASE \/ Lock(u) \/ ReadCurrent(u) \/ OpenVersion(u) \/ NextVersion(u)
             \/ CheckExists(u) \/ MakeStagingDir(u) \/ CleanUp(u)
    BY <2>1, ZenonT(40) DEF Lock, ReadCurrent, OpenVersion, NextVersion, CheckExists, MakeStagingDir, CleanUp
  <2>2. CASE \/ WriteMatchSegment(u) \/ WritePayloadSegment(u) \/ WriteManifest(u)
             \/ SyncStagingDir(u) \/ RenameEpoch(u) \/ SyncEpoch(u)
    BY <2>2, Zenon DEF WriteMatchSegment, WritePayloadSegment, WriteManifest, SyncStagingDir,
                WriteStaged, RenameEpoch, SyncEpoch
  <2>3. CASE \/ TruncateCurrentTmp(u) \/ WriteCurrentTmp(u) \/ SwapCurrent(u) \/ SyncCurrent(u)
    BY <2>3, Zenon DEF TruncateCurrentTmp, WriteCurrentTmp, SwapCurrent, SyncCurrent
  <2>4. CASE \/ ListVictims(u) \/ RemoveFiles(u) \/ RemoveDir(u) \/ PruneDone(u) \/ Return(u)
    BY <2>4, ZenonT(40) DEF ListVictims, RemoveFiles, RemoveDir, PruneDone, Return, Leave
  <2> QED BY <1>1, <2>1, <2>2, <2>3, <2>4, Zenon DEF Step
<1>2. Step(t) => SwapCurrent(t)
  BY Zenon DEF Step, Lock, ReadCurrent, OpenVersion, NextVersion, CheckExists, MakeStagingDir,
     CleanUp, WriteMatchSegment, WritePayloadSegment, WriteManifest, SyncStagingDir,
     WriteStaged, RenameEpoch, SyncEpoch, TruncateCurrentTmp, WriteCurrentTmp,
     SyncCurrent, ListVictims, RemoveFiles, RemoveDir, PruneDone, Return
<1>3. ASSUME NEW u \in Thread PROVE ~ (StartWrite(u) \/ StartRollback(u))
  BY Zenon DEF StartWrite, StartRollback
<1>4. ASSUME NEW u \in Thread PROVE ~ (WriteFault(u) \/ ReadFault(u))
  BY Zenon DEF WriteFault, ReadFault
<1>5. ASSUME NEW S, Leave(S) PROVE FALSE
  <2>1. pc'[t] = IF t \in S THEN "idle" ELSE pc[t]
    BY <1>5, Zenon DEF Leave
  <2> QED BY <2>1, Zenon
<1>6. ~ PowerLoss /\ \A p \in Process : ~ Crash(p)
  BY <1>5, Zenon DEF PowerLoss, Crash
<1>7. ~ UNCHANGED vars
  BY DEF vars
<1> QED BY <1>1, <1>2, <1>3, <1>4, <1>5, <1>6, <1>7, Zenon DEF Next

\* An insert never loses a row that was there when it swaps CURRENT.
THEOREM NoUpdateIsLost == ASSUME Discipline PROVE Spec => NoLostUpdate
<1> DEFINE Kept ==
      \A t \in Thread :
        pc[t] = "swap" /\ pc'[t] = "fsync2" /\ op[t] = "insert" =>
          RowsAt(root, root.current) \subseteq RowsAt(root', root'.current)
<1>1. IInv /\ [Next]_vars => [Kept]_vars
  <2> SUFFICES ASSUME IInv, [Next]_vars, NEW t \in Thread,
                      pc[t] = "swap", pc'[t] = "fsync2", op[t] = "insert"
               PROVE  RowsAt(root, root.current) \subseteq RowsAt(root', root'.current)
    OBVIOUS
  <2>1. curTmp = ver[t] /\ ver[t] \in Version /\ Readable(root.epochs[ver[t]])
        /\ base[t] = RowsAt(root, root.current) /\ root.epochs[ver[t]].manifest = StagedRows(t)
    BY SwapGood, Zenon DEF IInv, Progress, ThreadProgress, Pointing, Building, Swapping
  <2>2. root'.current = ver[t] /\ root'.epochs = root.epochs
    <3>1. SwapCurrent(t) => root' = [root EXCEPT !.current = curTmp]
      BY <2>1, VersionType, Zenon DEF SwapCurrent, SetRoot, NoFile
    <3>2. SwapCurrent(t)
      BY OnlySwapSwaps DEF IInv
    <3> QED BY <2>1, <3>1, <3>2, Zenon DEF IInv, TypeOK, Root
  <2> QED BY <2>1, <2>2, Zenon DEF RowsAt, StagedRows
<1> QED BY <1>1, Invariance, PTL DEF NoLostUpdate, Spec
-----------------------------------------------------------------------------
(* Under the discipline of EpochInvariant the directory of epochs          *)
(* implements EpochStore: the invariant rules out every step of the        *)
(* threads, faults and losses of power that the abstract store forbids.    *)

\* The fields of an abstract state.
LEMMA AbstractFields ==
  ASSUME NEW r \in Root
  PROVE  /\ Abstract(r).current = r.current
         /\ DOMAIN Abstract(r).epochs = Version
         /\ \A v \in Version : Abstract(r).epochs[v] =
              IF Readable(r.epochs[v]) THEN r.epochs[v].manifest ELSE Absent
BY DEF Abstract

\* A root changed in one directory, seen abstractly.
LEMMA AbstractDir ==
  ASSUME NEW r \in Root, NEW v \in Version, NEW d \in Dir \cup {NoDir}
  PROVE  Abstract([r EXCEPT !.epochs[v] = d]) =
           [Abstract(r) EXCEPT !.epochs[v] = IF Readable(d) THEN d.manifest ELSE Absent]
<1> DEFINE s == [r EXCEPT !.epochs[v] = d]
<1>1. s.current = r.current /\ s.epochs[v] = d
      /\ \A w \in Version \ {v} : s.epochs[w] = r.epochs[w]
  BY DEF Root
<1> HIDE DEF s
<1> DEFINE e == [w \in Version |-> IF Readable(r.epochs[w]) THEN r.epochs[w].manifest ELSE Absent]
           f == [w \in Version |-> IF Readable(s.epochs[w]) THEN s.epochs[w].manifest ELSE Absent]
           x == IF Readable(d) THEN d.manifest ELSE Absent
<1>2. f = [e EXCEPT ![v] = x]
  BY <1>1, Zenon
<1>3. Abstract(s) = [epochs |-> f, current |-> r.current]
  BY <1>1 DEF Abstract
<1>4. Abstract(r) = [epochs |-> e, current |-> r.current]
  BY DEF Abstract
<1> HIDE DEF e, f, x
<1>5. [Abstract(r) EXCEPT !.epochs[v] = x] = [epochs |-> [e EXCEPT ![v] = x], current |-> r.current]
  BY <1>4
<1> QED BY <1>2, <1>3, <1>5 DEF s, x

\* A root with another CURRENT, seen abstractly.
LEMMA AbstractCurrent ==
  ASSUME NEW r \in Root, NEW v \in Version
  PROVE  Abstract([r EXCEPT !.current = v]) = [Abstract(r) EXCEPT !.current = v]
<1> DEFINE s == [r EXCEPT !.current = v]
<1>1. s.current = v /\ s.epochs = r.epochs
  BY DEF Root
<1> HIDE DEF s
<1> DEFINE e == [w \in Version |-> IF Readable(r.epochs[w]) THEN r.epochs[w].manifest ELSE Absent]
<1>2. Abstract(s) = [epochs |-> e, current |-> v]
  BY <1>1 DEF Abstract
<1>3. Abstract(r) = [epochs |-> e, current |-> r.current]
  BY DEF Abstract
<1> HIDE DEF e
<1> QED BY <1>2, <1>3 DEF s

\* A loss of power takes nothing that the abstract store sees of a good root.
LEMMA AbstractPowerLoss ==
  ASSUME NEW r \in Root, GoodRoot(r)
  PROVE  Abstract(AfterPowerLoss(r)) = Abstract(r)
<1> DEFINE s == AfterPowerLoss(r)
<1>1. s.current = r.current
  BY DEF AfterPowerLoss, Root
<1>2. \A v \in Version : s.epochs[v] =
        IF r.epochs[v] = NoDir \/ r.epochs[v].synced THEN r.epochs[v] ELSE EmptyDir
  BY DEF AfterPowerLoss, Root
<1> HIDE DEF s
<1>3. ~ Readable(EmptyDir) /\ ~ Readable(NoDir)
  BY DEF Readable, EmptyDir
<1>4. \A v \in Version :
        (IF Readable(s.epochs[v]) THEN s.epochs[v].manifest ELSE Absent) =
        (IF Readable(r.epochs[v]) THEN r.epochs[v].manifest ELSE Absent)
  BY <1>2, <1>3 DEF GoodRoot
<1> QED BY <1>1, <1>4 DEF Abstract, s

\* A change of the root is a Become of the abstract store.
LEMMA SetRootBecomes ==
  ASSUME NEW r, SetRoot(r)
  PROVE  Store!Become(Abstract(r))
<1>1. Abstract(root)' = Abstract(r)
  BY DEF SetRoot, Abstract
<1>2. {Abstract(x) : x \in survivors}' = {Abstract(x) : x \in survivors} \cup {Abstract(r)}
  BY DEF SetRoot, Abstract
<1> QED BY <1>1, <1>2 DEF Store!Become

\* A step that leaves the root alone is a stutter of the abstract store.
LEMMA KeepRootStutters ==
  ASSUME UNCHANGED <<root, survivors>>
  PROVE  UNCHANGED Store!vars
BY DEF Store!vars, Abstract

\* A sync of the root is a sync of the abstract store.
LEMMA FsyncSynchronises ==
  ASSUME FsyncRoot
  PROVE  Store!Synchronise
BY DEF FsyncRoot, Store!Synchronise, Abstract

\* An initial repository is an initial store.
LEMMA StoreInit == Init => Store!Init
<1> SUFFICES ASSUME Init PROVE Store!Init
  OBVIOUS
<1>1. ~ Readable(NoDir)
  BY DEF Readable
<1>2. Abstract(root) = [epochs |-> [v \in Version |-> Absent], current |-> NoFile]
  BY <1>1 DEF Init, Abstract
<1>3. {Abstract(r) : r \in survivors} = {Abstract(root)}
  BY DEF Init
<1> QED BY <1>2, <1>3 DEF Store!Init

\* Every step of the repository is a step or a stutter of the store.
LEMMA StoreStep ==
  ASSUME IInv, [Next]_vars
  PROVE  [Store!Next]_(Store!vars)
<1> root \in Root /\ survivors \subseteq Root
  BY DEF IInv, TypeOK
<1>1. ASSUME NEW t \in Thread, Elsewhere(t) PROVE UNCHANGED Store!vars
  BY <1>1, ElsewhereKeeps, KeepRootStutters, Zenon
<1>2. ASSUME NEW t \in Thread, RenameEpoch(t) PROVE Store!Next
  <2>1. pc[t] = "rename"
    BY <1>2 DEF RenameEpoch
  <2>2. ver[t] \in Version /\ root.epochs[ver[t]] = NoDir
        /\ staging[ver[t]] \in Dir /\ Readable(staging[ver[t]])
    BY <2>1, StagedComplete, RenameGood, Zenon
  <2>3. SetRoot([root EXCEPT !.epochs[ver[t]] = staging[ver[t]]])
    BY <1>2, <2>2 DEF RenameEpoch, Readable
  <2>4. staging[ver[t]].manifest \in SUBSET Row
    BY <2>2, ReadableRows
  <2>5. Abstract(root).epochs[ver[t]] = Absent
    BY <2>2, AbstractFields DEF Readable
  <2>6. Store!Become([Abstract(root) EXCEPT !.epochs[ver[t]] = staging[ver[t]].manifest])
    BY <2>2, <2>3, SetRootBecomes, AbstractDir
  <2>7. Store!Publish(ver[t])
    BY <2>4, <2>5, <2>6, Zenon DEF Store!Publish
  <2> QED BY <2>2, <2>7 DEF Store!Next
<1>3. ASSUME NEW t \in Thread, SyncEpoch(t) PROVE Store!Next
  BY <1>3, FsyncSynchronises DEF SyncEpoch, Store!Next
<1>4. ASSUME NEW t \in Thread, SwapCurrent(t) PROVE Store!Next
  <2>1. curTmp = ver[t] /\ ver[t] \in Version /\ Readable(root.epochs[ver[t]])
    BY <1>4, SwapGood DEF SwapCurrent, IInv, Progress, ThreadProgress, Pointing, Swapping
  <2>2. SetRoot([root EXCEPT !.current = ver[t]])
    BY <1>4, <2>1, VersionType DEF SwapCurrent, NoFile
  <2>3. Store!Become([Abstract(root) EXCEPT !.current = ver[t]])
    BY <2>1, <2>2, SetRootBecomes, AbstractCurrent
  <2>4. Abstract(root).epochs[ver[t]] # Absent
    BY <2>1, AbstractFields DEF Readable
  <2>5. Store!PointAt(ver[t])
    BY <2>3, <2>4 DEF Store!PointAt
  <2> QED BY <2>1, <2>5 DEF Store!Next
<1>5. ASSUME NEW t \in Thread, SyncCurrent(t) PROVE Store!Next
  BY <1>5, FsyncSynchronises DEF SyncCurrent, Store!Next
<1>6. ASSUME NEW t \in Thread, RemoveFiles(t) PROVE Store!Next \/ UNCHANGED Store!vars
  <2> DEFINE v == Lowest(victims[t])
  <2>1. v \in Version /\ v # root.current
    <3>1. v \in Version /\ root.current \in Version /\ v < root.current
      BY <1>6, VictimFacts DEF RemoveFiles
    <3> HIDE DEF v
    <3> QED BY <3>1, VersionType
  <2>2. UNCHANGED <<root, survivors>> \/ SetRoot([root EXCEPT !.epochs[v] = EmptyDir])
    BY <1>6 DEF RemoveFiles
  <2> HIDE DEF v
  <2>3. CASE UNCHANGED <<root, survivors>>
    BY <2>3, KeepRootStutters
  <2>4. CASE SetRoot([root EXCEPT !.epochs[v] = EmptyDir])
    <3>1. ~ Readable(EmptyDir)
      BY DEF Readable, EmptyDir
    <3>2. Store!Become([Abstract(root) EXCEPT !.epochs[v] = Absent])
      BY <2>1, <2>4, <3>1, SetRootBecomes, AbstractDir, EmptyDirType, SMTT(30)
    <3>3. Store!Drop(v)
      BY <2>1, <3>2, AbstractFields DEF Store!Drop
    <3> QED BY <2>1, <3>3 DEF Store!Next
  <2> QED BY <2>2, <2>3, <2>4
<1>7. ASSUME NEW t \in Thread, RemoveDir(t) PROVE Store!Next
  <2> DEFINE v == Lowest(victims[t])
  <2>1. v \in Version /\ v # root.current
    <3>1. v \in Version /\ root.current \in Version /\ v < root.current
      BY <1>7, VictimFacts DEF RemoveDir, IInv, Control
    <3> HIDE DEF v
    <3> QED BY <3>1, VersionType
  <2>2. SetRoot([root EXCEPT !.epochs[v] = NoDir])
    BY <1>7 DEF RemoveDir
  <2> HIDE DEF v
  <2>3. ~ Readable(NoDir)
    BY DEF Readable
  <2>4. Store!Become([Abstract(root) EXCEPT !.epochs[v] = Absent])
    BY <2>1, <2>2, <2>3, SetRootBecomes, AbstractDir, SMTT(30)
  <2>5. Store!Drop(v)
    BY <2>1, <2>4, AbstractFields DEF Store!Drop
  <2> QED BY <2>1, <2>5, Zenon DEF Store!Next
<1>8. ASSUME NEW p \in Process, Crash(p) PROVE UNCHANGED Store!vars
  BY <1>8, KeepRootStutters DEF Crash, disk
<1>9. CASE PowerLoss
  <2>1. PICK r \in survivors : root' = AfterPowerLoss(r) /\ survivors' = {AfterPowerLoss(r)}
    BY <1>9 DEF PowerLoss
  <2>2. Abstract(AfterPowerLoss(r)) = Abstract(r)
    BY AbstractPowerLoss DEF IInv, Files
  <2>3. Abstract(root)' = Abstract(r) /\ {Abstract(x) : x \in survivors}' = {Abstract(r)}
    BY <2>1, <2>2 DEF Abstract
  <2>4. Store!Recover
    BY <2>3 DEF Store!Recover
  <2> QED BY <2>4 DEF Store!Next
<1>10. CASE UNCHANGED vars
  BY <1>10, KeepRootStutters DEF vars, disk
<1> QED
  BY <1>1, <1>2, <1>3, <1>4, <1>5, <1>6, <1>7, <1>8, <1>9, <1>10, ZenonT(40) DEF Next, Step, Elsewhere

\* Every behaviour of the repository is one of the abstract store, whatever the
\* number of threads, versions and rows, with write faults, crashes and losses of power.
THEOREM RepositoryImplementsStore == ASSUME Discipline PROVE Spec => ImplementsStore
<1>1. Init => Store!Init
  BY StoreInit
<1>2. IInv /\ [Next]_vars => [Store!Next]_(Store!vars)
  BY StoreStep
<1> QED BY <1>1, <1>2, Invariance, PTL DEF Spec, ImplementsStore, Store!Spec
=============================================================================
