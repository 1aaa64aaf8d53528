------------------------- MODULE MCEpochRepository -------------------------
(* Instances of EpochRepository for TLC.                                   *)
EXTENDS EpochInvariant, TLC

CONSTANTS t1, t2, t3, server, cli

\* All threads in the server.
OneProcess == [t \in Thread |-> server]

\* t1 serves in the server, the other threads are CLI commands.
ServerAndCli == [t \in Thread |-> IF t = t1 THEN server ELSE cli]

AllOps == [t \in Thread |-> Operation]

Writers == [t \in Thread |-> {"insert", "load"}]

\* The server inserts, the CLI loads.
InsertAndLoad == [t \in Thread |-> IF t = t1 THEN {"insert", "load"} ELSE {"load"}]

\* The server inserts, the CLI rolls back.
InsertAndRollback ==
  [t \in Thread |-> IF t = t1 THEN {"insert", "load"} ELSE {"rollback"}]

\* The Admin service loads and rolls back.
LoadAndRollback == [t \in Thread |-> IF t = t1 THEN {"load"} ELSE {"rollback"}]

Symmetry == Permutations(Row)
FullSymmetry == Permutations(Row) \cup Permutations(Thread)

\* The state without what nothing reads: a staging directory that no operation is
\* filling is removed before it is used again (MakeStagingDir), and a CURRENT.tmp that
\* no operation is writing is truncated (TruncateCurrentTmp).
LiveStaging ==
  [v \in Version |->
     IF \E t \in Thread : ver[t] = v /\ pc[t] \in Staging THEN staging[v] ELSE NoDir]

LiveCurTmp == IF \E t \in Thread : pc[t] \in {"write", "swap"} THEN curTmp ELSE NoFile

LiveState == <<root, survivors, LiveStaging, LiveCurTmp, mutex, pc, locals, acked>>
=============================================================================
