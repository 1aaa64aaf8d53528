--------------------------- MODULE EpochInvariant ---------------------------
(***************************************************************************)
(* The inductive invariant behind the safety properties of                 *)
(* EpochRepository.  It holds when all writers share one process (and so   *)
(* one write_mutex), rollbacks happen between writes, and a failure to     *)
(* read CURRENT does not make a writer publish version 1 again.            *)
(***************************************************************************)
EXTENDS EpochRepository

\* The discipline under which the repository keeps its promises.
Discipline ==
  /\ \A t, u \in Thread : ProcOf[t] = ProcOf[u]
  /\ QuiescentRollback
  /\ "misread" \notin Faults

-----------------------------------------------------------------------------
(* Which operation, row and version a thread has at each step.             *)

WriterLabel ==
  Label \ {"idle", "open", "trunc", "write", "swap", "fsync2", "ok", "error"}

VersionLabel == Label \ {"idle", "lock", "current", "next", "error"}

Control ==
  \A t \in Thread :
    /\ pc[t] # "idle" => op[t] \in Operation
    /\ op[t] \in {"insert", "load"} => row[t] \in Row
    /\ pc[t] \in WriterLabel => op[t] \in {"insert", "load"}
    /\ pc[t] \in {"current", "list", "prune", "rmdir"} => op[t] = "insert"
    /\ pc[t] \in VersionLabel => ver[t] \in Version
    /\ pc[t] = "open" => op[t] # "load"
    /\ pc[t] = "rmdir" => victims[t] # {}

-----------------------------------------------------------------------------
(* The mutex and the quiet rollback leave one thread at work.              *)

Busy(t) == pc[t] \notin {"idle", "lock"}

Locks ==
  \A t \in Thread :
    /\ Busy(t) /\ op[t] # "rollback" => mutex[ProcOf[t]] = t
    /\ fd[t] = IF pc[t] = "write" THEN "tmp" ELSE "closed"
    /\ pc[t] # "idle" /\ op[t] = "rollback" =>
         \A u \in Thread \ {t} : pc[u] = "idle"

-----------------------------------------------------------------------------
(* What every root that a loss of power may leave looks like.              *)

GoodRoot(r) ==
  /\ \A u, w \in EpochDirs(r), v \in Version :
       u <= v /\ v <= w => v \in EpochDirs(r)
  /\ r.current = NoFile => EpochDirs(r) \subseteq {1}
  /\ r.current # NoFile => r.current \in Version /\ Readable(r.epochs[r.current])
  /\ \A v \in Version : Readable(r.epochs[v]) => r.epochs[v].synced
  /\ Window(r)

Files ==
  /\ root \in survivors
  /\ \A r \in survivors : GoodRoot(r)

-----------------------------------------------------------------------------
(* What a thread has achieved when it is about to take a step.             *)

Staging == {"match", "payload", "manifest", "sync", "rename"}
Swapping == {"trunc", "write", "swap"}
Pruning == {"list", "prune", "rmdir"}

Succ(r) == IF r.current \in Version THEN r.current + 1 ELSE 1

\* Publish: the version is free and above all others, the staging directory
\* fills up, and the epoch that appears is whole.
Publishing(t) ==
  /\ pc[t] = "exists" => ver[t] = Succ(root) \/ root.epochs[ver[t]] # NoDir
  /\ pc[t] \in {"mkdir"} \cup Staging => ver[t] = Succ(root)
  /\ pc[t] \in {"mkdir"} \cup Staging => root.epochs[ver[t]] = NoDir
  /\ pc[t] \in {"mkdir", "fsync", "fsync2"} \cup Staging \cup Swapping \cup Pruning
       /\ op[t] # "rollback"
       => \A w \in EpochDirs(root) : w <= ver[t]
  /\ pc[t] \in Staging => staging[ver[t]] # NoDir
  /\ pc[t] \in Staging \ {"match"} => staging[ver[t]].match = StagedRows(t)
  /\ pc[t] \in {"manifest", "sync", "rename"} => staging[ver[t]].payload = StagedRows(t)
  /\ pc[t] \in {"sync", "rename"} => staging[ver[t]].manifest = StagedRows(t)
  /\ pc[t] = "rename" => staging[ver[t]].synced

\* SetCurrent: the version CURRENT will name opens.
Pointing(t) ==
  /\ pc[t] \in {"fsync"} \cup Swapping => Readable(root.epochs[ver[t]])
  /\ pc[t] = "swap" => curTmp = ver[t]
  /\ pc[t] = "fsync2" => root.current = ver[t]
  /\ pc[t] \in {"ok"} \cup Pruning => \A r \in survivors : r.current = ver[t]

\* Prune: the victims are the lowest versions, outside the rollback window.
Removing(t) ==
  pc[t] \in {"prune", "rmdir"} =>
    \A v \in victims[t] :
      /\ v < ver[t]
      /\ v + Keep <= ver[t]
      /\ \A u \in EpochDirs(root) : u < v => u \in victims[t]

\* An insert builds on the epoch that CURRENT names until it swaps CURRENT.
Building(t) ==
  op[t] = "insert" =>
    /\ pc[t] = "open" => ver[t] = root.current
    /\ pc[t] \in {"next", "exists", "mkdir", "fsync"} \cup Staging \cup Swapping
         => base[t] = RowsAt(root, root.current)
    /\ pc[t] \in {"fsync"} \cup Swapping
         => root.epochs[ver[t]].manifest = StagedRows(t)

ThreadProgress(t) == Publishing(t) /\ Pointing(t) /\ Removing(t) /\ Building(t)

Progress == \A t \in Thread : ThreadProgress(t)

\* A success that was reported survives every loss of power.
Reported == acked # 0 => \A r \in survivors : r.current = acked

-----------------------------------------------------------------------------

\* The invariant: the control state, the mutual exclusion of the operations, the
\* shape of every root that may survive, and what each operation has done so far.
IInv == TypeOK /\ Control /\ Locks /\ Files /\ Progress /\ Reported
=============================================================================
