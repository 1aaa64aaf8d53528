--------------------------- MODULE ClusterManager ---------------------------
(***************************************************************************)
(* Membership, leadership, the shard map and the cluster epoch             *)
(* (cluster/manager.cpp) over etcd's keys and leases, as the EtcdClient    *)
(* interface gives them (cluster/etcd_client.h; cluster/fake_etcd.cpp and  *)
(* cluster/real_etcd_client.cpp implement it).                             *)
(*                                                                         *)
(* Every node runs Tick on a thread of its own; each call of etcd in it is *)
(* a step.  AdvanceEpoch runs on the thread that published an epoch.       *)
(* Leases lapse whether or not their holder notices.                       *)
(***************************************************************************)
EXTENDS Integers, FiniteSets

CONSTANTS
  Node,          \* the ids of the nodes
  MaxLeases,     \* bound on the leases that exist at the same time
  MaxEpoch,      \* bound on the epoch versions
  MaxFaults,     \* bound on the faults, of the kinds in FaultKind
  NoOne          \* no node

Lease == 1 .. MaxLeases

\* "call": a call fails without effect.  "rift": what a node knows and what etcd
\* holds part, because an answer is lost, a lease lapses while it is held, the
\* renewal of a live lease is reported as failed, or a node restarts while the
\* leader key of its earlier process exists.
FaultKind == {"call", "rift"}

ASSUME ConstantsAssumption ==
  /\ MaxLeases \in Nat /\ MaxEpoch \in Nat /\ MaxFaults \in Nat
  /\ NoOne \notin Node

VARIABLES
  live,       \* etcd: the leases that have not lapsed
  member,     \* etcd: per node, the lease of its membership key, 0 if absent
  leader,     \* etcd: the leader key, [id, lease]
  shardMap,   \* etcd: the published shard map as {its nodes}, {} if absent
  epoch,      \* etcd: the cluster epoch, 0 if absent
  up,         \* which nodes run
  lease,      \* per node: lease_
  isLeader,   \* per node: is_leader_
  ground,     \* history: per node, the lease of the leader key isLeader rests on, 0 if none
  published,  \* per node: published_shard_map_
  pc,         \* per node: the next call of its Tick
  seen,       \* per node: the members Tick has read
  advancing,  \* per node: the version AdvanceEpoch is about to put, 0 if none
  faults      \* how many faults of each kind there were

etcd == <<live, member, leader, shardMap, epoch>>
vars == <<etcd, up, lease, isLeader, ground, published, pc, seen, advancing, faults>>

NoLeader == [id |-> NoOne, lease |-> 0]

-----------------------------------------------------------------------------
(* etcd.                                                                   *)

Members == {n \in Node : member[n] # 0}

\* Lease ids nobody refers to; etcd never reuses an id that somebody does.
FreeLeases == Lease \ (live \cup {lease[n] : n \in Node} \cup {ground[n] : n \in Node})

\* Lease l is gone, and every key that was put with it.
Drop(l) ==
  /\ live' = live \ {l}
  /\ member' = [n \in Node |-> IF member[n] = l THEN 0 ELSE member[n]]
  /\ leader' = IF leader.lease = l THEN NoLeader ELSE leader
  /\ UNCHANGED <<shardMap, epoch>>

Held(l) == \E n \in Node : up[n] /\ lease[n] = l

Fault(kind) ==
  /\ faults.call + faults.rift < MaxFaults  \* bound
  /\ faults' = [faults EXCEPT ![kind] = @ + 1]

\* The time of a lease runs out.  Tick renews every ttl / 3 seconds, so for a
\* lease that is held it is a fault (a stalled process, a lost connection).
Expire(l) ==
  /\ l \in live
  /\ IF Held(l) THEN Fault("rift") ELSE UNCHANGED faults
  /\ Drop(l)
  /\ UNCHANGED <<up, lease, isLeader, ground, published, pc, seen, advancing>>

-----------------------------------------------------------------------------

Init ==
  /\ live = {}
  /\ member = [n \in Node |-> 0]
  /\ leader = NoLeader
  /\ shardMap = {}
  /\ epoch = 0
  /\ up = [n \in Node |-> FALSE]
  /\ lease = [n \in Node |-> 0]
  /\ isLeader = [n \in Node |-> FALSE]
  /\ ground = [n \in Node |-> 0]
  /\ published = [n \in Node |-> {}]
  /\ pc = [n \in Node |-> "idle"]
  /\ seen = [n \in Node |-> {}]
  /\ advancing = [n \in Node |-> 0]
  /\ faults = [kind \in FaultKind |-> 0]

Goto(n, label) == pc' = [pc EXCEPT ![n] = label]

\* is_leader_ is set, because of a leader key put with lease l, or cleared.
Lead(n, l) ==
  /\ isLeader' = [isLeader EXCEPT ![n] = TRUE]
  /\ ground' = [ground EXCEPT ![n] = l]

StepDown(n) ==
  /\ isLeader' = [isLeader EXCEPT ![n] = FALSE]
  /\ ground' = [ground EXCEPT ![n] = 0]

\* The process of a node ends; a new one starts from nothing.
Exit(n) ==
  /\ up' = [up EXCEPT ![n] = FALSE]
  /\ lease' = [lease EXCEPT ![n] = 0]
  /\ StepDown(n)
  /\ published' = [published EXCEPT ![n] = {}]
  /\ Goto(n, "idle")
  /\ seen' = [seen EXCEPT ![n] = {}]
  /\ advancing' = [advancing EXCEPT ![n] = 0]
  /\ UNCHANGED faults

\* ClusterManager::Start.  Restarting within the lease of the earlier process is
\* legal, and counted.
Start(n) ==
  /\ ~ up[n]
  /\ IF leader.id = n THEN Fault("rift") ELSE UNCHANGED faults
  /\ up' = [up EXCEPT ![n] = TRUE]
  /\ UNCHANGED <<etcd, lease, isLeader, ground, published, pc, seen, advancing>>

\* ClusterManager::Stop: the worker has ended its Tick, the lease is revoked.
Stop(n) ==
  /\ up[n]
  /\ pc[n] = "idle"
  /\ IF lease[n] # 0 THEN Drop(lease[n]) ELSE UNCHANGED etcd
  /\ Exit(n)

\* The process dies; its lease is left to lapse.
Crash(n) ==
  /\ up[n]
  /\ Exit(n)
  /\ UNCHANGED etcd

-----------------------------------------------------------------------------
(* Tick, under mutex_.                                                     *)

\* EnsureLease: a lease whose renewal is not confirmed is given up with the
\* leadership.  The renewal fails when the lease has lapsed, and it may fail while
\* the lease, and the keys put with it, live on in etcd.
KeepAlive(n) ==
  /\ up[n] /\ pc[n] = "idle"
  /\ \/ /\ lease[n] \in live
        /\ Goto(n, "member")
        /\ UNCHANGED <<lease, isLeader, ground, faults>>
     \/ /\ IF lease[n] \in live THEN Fault("rift") ELSE UNCHANGED faults
        /\ lease' = [lease EXCEPT ![n] = 0]
        /\ StepDown(n)
        /\ Goto(n, "grant")
  /\ UNCHANGED <<etcd, up, published, seen, advancing>>

LeaseGrant(n) ==
  /\ pc[n] = "grant"
  /\ \E l \in FreeLeases :
       /\ \A k \in FreeLeases : l <= k
       /\ live' = live \cup {l}
       /\ lease' = [lease EXCEPT ![n] = l]
  /\ Goto(n, "member")
  /\ UNCHANGED <<member, leader, shardMap, epoch, up, isLeader, ground, published, seen, advancing, faults>>

\* Mutant of PutMember: a key that exists is left as it is.
PutMemberOnce(n) ==
  /\ pc[n] = "member"
  /\ IF lease[n] \in live
       THEN /\ member' = [member EXCEPT ![n] = IF @ = 0 THEN lease[n] ELSE @]
            /\ Goto(n, "leader")
       ELSE /\ Goto(n, "idle")
            /\ UNCHANGED member
  /\ UNCHANGED <<live, leader, shardMap, epoch, up, lease, isLeader, ground, published, seen, advancing, faults>>

\* The membership key is put with the lease; etcd refuses one that has lapsed.
PutMember(n) ==
  /\ pc[n] = "member"
  /\ IF lease[n] \in live
       THEN /\ member' = [member EXCEPT ![n] = lease[n]]
            /\ Goto(n, "leader")
       ELSE /\ Goto(n, "idle")
            /\ UNCHANGED member
  /\ UNCHANGED <<live, leader, shardMap, epoch, up, lease, isLeader, ground, published, seen, advancing, faults>>

\* Mutant of GetLeader: the key of another node does not end the leadership.
GetLeaderKeeps(n) ==
  /\ pc[n] = "leader"
  /\ IF leader.id = n THEN Lead(n, leader.lease) ELSE UNCHANGED <<isLeader, ground>>
  /\ Goto(n, IF leader.id = NoOne THEN "create" ELSE IF isLeader'[n] THEN "list" ELSE "idle")
  /\ UNCHANGED <<etcd, up, lease, published, seen, advancing, faults>>

\* We are leader if the key holds our id, whatever lease it was put with; a free
\* key is contended for.
GetLeader(n) ==
  /\ pc[n] = "leader"
  /\ \/ /\ leader.id = NoOne
        /\ Goto(n, "create")
        /\ UNCHANGED <<isLeader, ground>>
     \/ /\ leader.id = n
        /\ Lead(n, leader.lease)
        /\ Goto(n, "list")
     \/ /\ leader.id \notin {n, NoOne}
        /\ StepDown(n)
        /\ Goto(n, "idle")
  /\ UNCHANGED <<etcd, up, lease, published, seen, advancing, faults>>

\* Mutant of CreateLeader: the key is not tied to the lease.
CreateLeaderUnleased(n) ==
  /\ pc[n] = "create"
  /\ leader' = IF leader.id = NoOne THEN [id |-> n, lease |-> 0] ELSE leader
  /\ IF leader.id = NoOne THEN Lead(n, 0) ELSE StepDown(n)
  /\ Goto(n, IF leader.id = NoOne THEN "list" ELSE "idle")
  /\ UNCHANGED <<live, member, shardMap, epoch, up, lease, published, seen, advancing, faults>>

\* Mutant of CreateLeader: the key is put, whoever holds it.
CreateLeaderPuts(n) ==
  /\ pc[n] = "create"
  /\ IF lease[n] \in live
       THEN /\ leader' = [id |-> n, lease |-> lease[n]]
            /\ Lead(n, lease[n])
            /\ Goto(n, "list")
       ELSE /\ StepDown(n)
            /\ Goto(n, "idle")
            /\ UNCHANGED leader
  /\ UNCHANGED <<live, member, shardMap, epoch, up, lease, published, seen, advancing, faults>>

\* CreateIfAbsent: the atomic create decides the winner.  With a lease that has
\* lapsed, FakeEtcd returns an error and RealEtcdClient that the create has lost.
CreateLeader(n) ==
  /\ pc[n] = "create"
  /\ \/ /\ leader.id = NoOne /\ lease[n] \in live
        /\ leader' = [id |-> n, lease |-> lease[n]]
        /\ Lead(n, lease[n])
        /\ Goto(n, "list")
     \/ /\ leader.id # NoOne \/ lease[n] \notin live
        /\ StepDown(n)
        /\ Goto(n, "idle")
        /\ UNCHANGED leader
     \/ /\ leader.id = NoOne /\ lease[n] \notin live
        /\ Goto(n, "idle")
        /\ UNCHANGED <<leader, isLeader, ground>>
  /\ UNCHANGED <<live, member, shardMap, epoch, up, lease, published, seen, advancing, faults>>

\* Mutant of ListMembers: a map is published once.
ListMembersOnce(n) ==
  /\ pc[n] = "list"
  /\ seen' = [seen EXCEPT ![n] = IF published[n] # {} THEN {} ELSE Members]
  /\ Goto(n, IF published[n] # {} THEN "idle" ELSE "publish")
  /\ UNCHANGED <<etcd, up, lease, isLeader, ground, published, advancing, faults>>

\* The leader reads the members; the map is put only if it differs from the one
\* this process put last.
ListMembers(n) ==
  /\ pc[n] = "list"
  /\ seen' = [seen EXCEPT ![n] = IF Members = published[n] THEN {} ELSE Members]
  /\ Goto(n, IF Members = published[n] THEN "idle" ELSE "publish")
  /\ UNCHANGED <<etcd, up, lease, isLeader, ground, published, advancing, faults>>

PutShardMap(n) ==
  /\ pc[n] = "publish"
  /\ shardMap' = {seen[n]}
  /\ published' = [published EXCEPT ![n] = seen[n]]
  /\ seen' = [seen EXCEPT ![n] = {}]
  /\ Goto(n, "idle")
  /\ UNCHANGED <<live, member, leader, epoch, up, lease, isLeader, ground, advancing, faults>>

\* etcd cannot be reached: Tick returns the error and the worker tries again.
CallFails(n) ==
  /\ pc[n] # "idle"
  /\ Fault("call")
  /\ seen' = [seen EXCEPT ![n] = {}]
  /\ Goto(n, "idle")
  /\ UNCHANGED <<etcd, up, lease, isLeader, ground, published, advancing>>

\* The answer of etcd is lost: the call has taken effect, and Tick returns the
\* error as if it had not.
ReplyLost(n) ==
  /\ Fault("rift")
  /\ \/ /\ pc[n] = "grant"
        /\ \E l \in FreeLeases : (\A k \in FreeLeases : l <= k) /\ live' = live \cup {l}
        /\ UNCHANGED <<member, leader, shardMap>>
     \/ /\ pc[n] = "member" /\ lease[n] \in live
        /\ member' = [member EXCEPT ![n] = lease[n]]
        /\ UNCHANGED <<live, leader, shardMap>>
     \/ /\ pc[n] = "create" /\ leader.id = NoOne /\ lease[n] \in live
        /\ leader' = [id |-> n, lease |-> lease[n]]
        /\ UNCHANGED <<live, member, shardMap>>
     \/ /\ pc[n] = "publish"
        /\ shardMap' = {seen[n]}
        /\ UNCHANGED <<live, member, leader>>
  /\ seen' = [seen EXCEPT ![n] = {}]
  /\ Goto(n, "idle")
  /\ UNCHANGED <<epoch, up, lease, isLeader, ground, published, advancing>>

Tick(n) ==
  \/ KeepAlive(n) \/ LeaseGrant(n) \/ PutMember(n) \/ GetLeader(n)
  \/ CreateLeader(n) \/ ListMembers(n) \/ PutShardMap(n)

-----------------------------------------------------------------------------
(* AdvanceEpoch, from the hook AdminService::Publish calls.                *)

\* A node that is not leader returns an error and changes nothing.
CheckLeader(n) ==
  /\ up[n] /\ advancing[n] = 0
  /\ isLeader[n]
  /\ \E version \in 1 .. MaxEpoch :
       advancing' = [advancing EXCEPT ![n] = version]
  /\ UNCHANGED <<etcd, up, lease, isLeader, ground, published, pc, seen, faults>>

PutEpoch(n) ==
  /\ advancing[n] # 0
  /\ epoch' = advancing[n]
  /\ advancing' = [advancing EXCEPT ![n] = 0]
  /\ UNCHANGED <<live, member, leader, shardMap, up, lease, isLeader, ground, published, pc, seen, faults>>

\* The put fails, and with it AdvanceEpoch.
AdvanceFails(n) ==
  /\ advancing[n] # 0
  /\ Fault("call")
  /\ advancing' = [advancing EXCEPT ![n] = 0]
  /\ UNCHANGED <<etcd, up, lease, isLeader, ground, published, pc, seen>>

Next ==
  \/ \E n \in Node : Start(n) \/ Stop(n) \/ Crash(n) \/ Tick(n) \/ CallFails(n)
                     \/ ReplyLost(n) \/ CheckLeader(n) \/ PutEpoch(n) \/ AdvanceFails(n)
  \/ \E l \in Lease : Expire(l)

Spec == Init /\ [][Next]_vars

\* The worker thread of a running node keeps calling Tick, and etcd drops the
\* leases nobody renews.
Fairness ==
  /\ \A n \in Node : WF_vars(Tick(n))
  /\ \A l \in Lease : WF_vars(Expire(l) /\ ~ Held(l))

FairSpec == Spec /\ Fairness

-----------------------------------------------------------------------------
(* Properties.                                                             *)

\* The type invariant.
TypeOK ==
  /\ live \subseteq Lease
  /\ member \in [Node -> Lease \cup {0}]
  /\ leader \in [id: Node \cup {NoOne}, lease: Lease \cup {0}]
  /\ shardMap \in SUBSET SUBSET Node
  /\ epoch \in 0 .. MaxEpoch
  /\ up \in [Node -> BOOLEAN]
  /\ lease \in [Node -> Lease \cup {0}]
  /\ isLeader \in [Node -> BOOLEAN]
  /\ ground \in [Node -> Lease \cup {0}]
  /\ published \in [Node -> SUBSET Node]
  /\ pc \in [Node -> {"idle", "grant", "member", "leader", "create", "list", "publish"}]
  /\ seen \in [Node -> SUBSET Node]
  /\ advancing \in [Node -> 0 .. MaxEpoch]
  /\ faults \in [FaultKind -> 0 .. MaxFaults]

\* A node that takes itself for the leader, and the key it takes it from has not
\* lapsed.
Leads(n) == isLeader[n] /\ ground[n] \in live

\* "exactly one caller wins" (cluster/etcd_client.h:54): of all nodes that take
\* themselves for the leader, at most one does so because of a key that is still
\* there, whatever calls fail, renewals fail, leases lapse and nodes restart.  The
\* lease of the node itself is no such ground: a node that has lost its lease, or
\* its process, adopts the key of the lost one (manager.cpp:85) and goes on leading
\* under a live lease when that key lapses and another node wins.
OneLiveLeader ==
  \A m, n \in Node : Leads(m) /\ Leads(n) => m = n

\* The same of nodes that hold a live lease, which is what a node can know of itself.
OneLeaderWithLease ==
  \A m, n \in Node : (\A k \in {m, n} : isLeader[k] /\ lease[k] \in live) => m = n

\* is_leader_ is a cached answer (manager.cpp:172 uses it): a node that takes itself
\* for the leader although the key is gone, or another node's, finds out, even
\* while nodes come and go.
StaleLeaderStepsDown ==
  \A n \in Node : (isLeader[n] /\ leader.id # n) ~> (~ isLeader[n] \/ leader.id = n)

\* A node that has registered stays a member as long as its lease lives, even if
\* the lease of an earlier process of the same node lapses afterwards.
RegisteredStays ==
  \A n \in Node :
    pc[n] \in {"leader", "create", "list", "publish"} /\ lease[n] \in live => member[n] = lease[n]

\* "any node reads the pinned global epoch; only the leader advances it"
\* (cluster/manager.h:57-58): whoever changes the epoch holds the leader key.
OnlyLeaderAdvances ==
  [][epoch' # epoch => \E n \in Node : leader.id = n /\ advancing[n] = epoch']_vars

\* The nodes stop coming and going, and some of them run.
Settled ==
  /\ \A n \in Node : <>[]up[n] \/ <>[]~up[n]
  /\ \E n \in Node : <>[]up[n]

\* Once the nodes stop coming and going, a running node is elected and stays the
\* leader, and no other node takes itself for one: the worker of every node goes on
\* contending for the key.
LeaderElected ==
  Settled => \E n \in Node : <>[](up[n] /\ Leads(n) /\ leader.id = n /\ \A m \in Node \ {n} : ~ isLeader[m])

\* "The leader keeps the shard map in step with membership"
\* (cluster/manager.cpp:95): once the nodes stop coming and going, the published map
\* is the membership, whatever calls failed, if no rift happened.
\* With one, a leader may be replaced and come back, and take the map of the other
\* for its own.
ShardMapFollows ==
  Settled /\ [](faults.rift = 0)
    => <>[](shardMap = {Members} /\ Members = {n \in Node : up[n]})
=============================================================================
