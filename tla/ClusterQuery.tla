---------------------------- MODULE ClusterQuery ----------------------------
(***************************************************************************)
(* A query or scan in a cluster: the cached view of the cluster            *)
(* (server/node_server.cpp, ClusterViewCached), the decision between one   *)
(* node and a fan-out (server/query_service.cpp), the shards evaluating at *)
(* the pinned epoch (server/engine.cpp, EvaluateShard) and the coordinator *)
(* joining their partials (server/query_coordinator.cpp).                  *)
(*                                                                         *)
(* A partial is the pair of the shard and the epoch version it was         *)
(* computed from.  Meanwhile nodes join and leave, shards publish, and the *)
(* leader advances the cluster epoch.  Time passes in ticks.               *)
(***************************************************************************)
EXTENDS Integers, FiniteSets

CONSTANTS
  Node,         \* the nodes; each holds one shard of the table
  Loaded,       \* the nodes whose shard has an epoch to begin with
  Front,        \* the nodes that clients send their queries to
  Churn,        \* the nodes that join and leave
  Thread,       \* handler threads of the nodes
  Ttl,          \* kTtl, in ticks
  MaxTime,      \* bound on the clock
  MaxVersion,   \* bound on the epoch versions of a shard
  Faults,       \* which faults happen: "read" (etcd), "call" (a shard)
  NoOne         \* no node

ASSUME ConstantsAssumption ==
  /\ Ttl \in Nat \ {0}
  /\ MaxTime \in Nat /\ MaxVersion \in Nat \ {0}
  /\ Loaded \subseteq Node /\ Front \subseteq Node /\ Churn \subseteq Node
  /\ NoOne \notin Node

VARIABLES
  clock,    \* the steady clock
  since,    \* etcd: per member, when it joined
  epoch,    \* etcd: the cluster epoch, 0 if unset
  version,  \* per node: the current epoch of its shard, 0 if none
  cache,    \* per front node: cluster_cache_, _at_ and _valid_
  call      \* per thread: the RPC it serves

vars == <<clock, since, epoch, version, cache, call>>

Members == DOMAIN since

\* A view of the cluster.  History: `missed` says that the read of the members failed.
NoView == [peers |-> {}, epoch |-> 0, missed |-> FALSE]

\* A call.  History: `start` is when it began, `missed` says that its peers come from a
\* read that failed.
Idle == [pc |-> "idle", op |-> "none", node |-> NoOne, start |-> 0, now |-> 0,
         want |-> "peers", view |-> NoView, peers |-> {}, pinned |-> 0,
         partials |-> {}, failed |-> {}, missed |-> FALSE]

Failed == [Idle EXCEPT !.pc = "error"]

Init ==
  /\ clock = 0
  /\ since = [n \in Node |-> 0]
  /\ epoch = 0
  /\ version = [n \in Node |-> IF n \in Loaded THEN 1 ELSE 0]
  /\ cache = [n \in Front |-> [valid |-> FALSE, at |-> 0, view |-> NoView]]
  /\ call = [t \in Thread |-> Idle]

-----------------------------------------------------------------------------
(* The cluster around the query.                                           *)

Tick ==
  /\ clock < MaxTime  \* bound
  /\ clock' = clock + 1
  /\ UNCHANGED <<since, epoch, version, cache, call>>

Join(n) ==
  /\ n \notin Members
  /\ since' = [m \in Members \cup {n} |-> IF m = n THEN clock ELSE since[m]]
  /\ UNCHANGED <<clock, epoch, version, cache, call>>

Leave(n) ==
  /\ n \in Members
  /\ since' = [m \in Members \ {n} |-> since[m]]
  /\ UNCHANGED <<clock, epoch, version, cache, call>>

\* A shard publishes: an insert, a load, a node that is not the leader.
Publish(n) ==
  /\ version[n] < MaxVersion  \* bound
  /\ version' = [version EXCEPT ![n] = @ + 1]
  /\ UNCHANGED <<clock, since, epoch, cache, call>>

\* The hook of AdminService::Publish on the leader.
AdvanceEpoch(n) ==
  /\ epoch # version[n]
  /\ epoch' = version[n]
  /\ UNCHANGED <<clock, since, version, cache, call>>

-----------------------------------------------------------------------------
(* Execute and Scan up to the view of the cluster.                         *)

Set(t, c) ==
  /\ call' = [call EXCEPT ![t] = c]
  /\ UNCHANGED <<clock, since, epoch, version>>

Begin(t) ==
  \E op \in {"query", "scan"}, n \in Front :
    /\ call[t].pc = "idle"
    /\ Set(t, [Idle EXCEPT !.pc = "lookup", !.op = op, !.node = n, !.start = clock, !.now = clock])
    /\ UNCHANGED cache

\* The call has taken what it needs from a view.
Taken(c) == [c EXCEPT !.now = 0, !.view = NoView]

\* Mutant of Use: a scan is answered by this node whatever peers it has.
UseScansLocally(c, view) ==
  IF c.want = "epoch"
    THEN [Taken(c) EXCEPT !.pc = "fan", !.pinned = view.epoch]
  ELSE IF view.peers = {} \/ c.op = "scan"
    THEN [Taken(c) EXCEPT !.pc = "alone", !.missed = view.missed]
  ELSE [Taken(c) EXCEPT !.pc = "lookup", !.want = "epoch", !.peers = view.peers, !.now = clock]

\* What the caller does with the view: peers_() decides between this node alone
\* and a fan-out, for which epoch_() asks for the view once more.
Use(c, view) ==
  IF c.want = "epoch"
    THEN [Taken(c) EXCEPT !.pc = "fan", !.pinned = view.epoch]
  ELSE IF view.peers = {}
    THEN [Taken(c) EXCEPT !.pc = "alone", !.missed = view.missed]
  ELSE IF c.op = "scan"
    THEN Failed
  ELSE [Taken(c) EXCEPT !.pc = "lookup", !.want = "epoch", !.peers = view.peers, !.now = clock]

\* The cached view is used while it is younger than Ttl.
Lookup(t) ==
  LET c == call[t]
      held == cache[c.node]
  IN  /\ c.pc = "lookup"
      /\ IF held.valid /\ c.now - held.at < Ttl
           THEN Set(t, Use(c, held.view))
           ELSE Set(t, [c EXCEPT !.pc = "members", !.view = NoView])
      /\ UNCHANGED cache

\* Members(): a read that fails leaves the peers empty.
ReadMembers(t) ==
  LET c == call[t] IN
  /\ c.pc = "members"
  /\ \/ Set(t, [c EXCEPT !.pc = "epoch", !.view.peers = Members \ {c.node}])
     \/ /\ "read" \in Faults
        /\ Set(t, [c EXCEPT !.pc = "epoch", !.view.missed = TRUE])
  /\ UNCHANGED cache

\* CurrentEpoch(): a read that fails leaves it 0.
ReadEpoch(t) ==
  LET c == call[t] IN
  /\ c.pc = "epoch"
  /\ \/ Set(t, [c EXCEPT !.pc = "store", !.view.epoch = epoch])
     \/ /\ "read" \in Faults
        /\ Set(t, [c EXCEPT !.pc = "store"])
  /\ UNCHANGED cache

\* The cache takes the view with the time from before the reads.
Store(t) ==
  LET c == call[t] IN
  /\ c.pc = "store"
  /\ cache' = [cache EXCEPT ![c.node] = [valid |-> TRUE, at |-> c.now, view |-> c.view]]
  /\ Set(t, Use(c, c.view))

-----------------------------------------------------------------------------
(* Evaluation.                                                             *)

\* Without peers: Engine::Execute or Engine::Scan on the node's own shard.
Alone(t) ==
  LET c == call[t] IN
  /\ c.pc = "alone"
  /\ Set(t, IF version[c.node] = 0
              THEN Failed
              ELSE [c EXCEPT !.pc = "ok", !.partials = {<<c.node, version[c.node]>>}])
  /\ UNCHANGED cache

Shards(c) == c.peers \cup {c.node}

Answered(c) == {p[1] : p \in c.partials} \cup c.failed

\* Mutant of EvaluateShard: the pinned epoch is not compared.
EvaluateUnpinned(t, s) ==
  LET c == call[t] IN
  /\ c.pc = "fan" /\ s \in Shards(c) \ Answered(c)
  /\ Set(t, [c EXCEPT !.partials = @ \cup {<<s, version[s]>>}])
  /\ UNCHANGED cache

\* A shard opens its current epoch and refuses if it is not the pinned one.
EvaluateShard(t, s) ==
  LET c == call[t]
      agrees == version[s] # 0 /\ c.pinned \in {0, version[s]}
  IN  /\ c.pc = "fan" /\ s \in Shards(c) \ Answered(c)
      /\ IF agrees
           THEN Set(t, [c EXCEPT !.partials = @ \cup {<<s, version[s]>>}])
           ELSE Set(t, [c EXCEPT !.failed = @ \cup {s}])
      /\ UNCHANGED cache

\* The call of a peer fails.
CallFails(t, s) ==
  LET c == call[t] IN
  /\ "call" \in Faults
  /\ c.pc = "fan" /\ s \in c.peers \ Answered(c)
  /\ Set(t, [c EXCEPT !.failed = @ \cup {s}])
  /\ UNCHANGED cache

\* All threads are joined; one failure fails the query.
JoinAll(t) ==
  LET c == call[t] IN
  /\ c.pc = "fan" /\ Shards(c) = Answered(c)
  /\ Set(t, IF c.failed = {} THEN [c EXCEPT !.pc = "ok"] ELSE Failed)
  /\ UNCHANGED cache

Return(t) ==
  /\ call[t].pc \in {"ok", "error"}
  /\ Set(t, Idle)
  /\ UNCHANGED cache

Step(t) ==
  \/ Lookup(t) \/ ReadMembers(t) \/ ReadEpoch(t) \/ Store(t) \/ Alone(t)
  \/ (\E s \in Node : EvaluateShard(t, s)) \/ JoinAll(t) \/ Return(t)

Next ==
  \/ Tick
  \/ \E n \in Churn : Join(n) \/ Leave(n)
  \/ \E n \in Node : Publish(n) \/ AdvanceEpoch(n)
  \/ \E t \in Thread : Begin(t) \/ Step(t) \/ \E s \in Node : CallFails(t, s)

Spec == Init /\ [][Next]_vars

-----------------------------------------------------------------------------
(* Properties.                                                             *)

View == [peers: SUBSET Node, epoch: 0 .. MaxVersion, missed: BOOLEAN]

\* The type invariant.
TypeOK ==
  /\ clock \in 0 .. MaxTime
  /\ Members \subseteq Node /\ \A n \in Members : since[n] \in 0 .. clock
  /\ epoch \in 0 .. MaxVersion
  /\ version \in [Node -> 0 .. MaxVersion]
  /\ cache \in [Front -> [valid: BOOLEAN, at: 0 .. MaxTime, view: View]]
  /\ \A t \in Thread :
       LET c == call[t] IN
       /\ c.pc \in {"idle", "lookup", "members", "epoch", "store", "alone", "fan", "ok", "error"}
       /\ c.op \in {"none", "query", "scan"}
       /\ c.node \in Node \cup {NoOne}
       /\ c.start <= clock /\ c.now <= clock /\ c.missed \in BOOLEAN
       /\ c.view \in View
       /\ c.peers \subseteq Node \ {c.node}
       /\ c.partials \subseteq Shards(c) \X (1 .. MaxVersion)
       /\ c.failed \subseteq Shards(c)

Succeeded(t) == call[t].pc = "ok"

Covered(c) == {p[1] : p \in c.partials}

\* "a shard error fails the whole query rather than returning a wrong answer"
\* (server/query_coordinator.cpp:81-82), and "a coordinator pins one epoch and every
\* shard must answer from it" (server/engine.cpp:248-249): a successful query
\* combines exactly one partial of every shard it was sent to, each from the epoch
\* pinned for it, however the shards publish meanwhile.
AllShardsOrNone ==
  \A t \in Thread : Succeeded(t) =>
    LET c == call[t] IN
    /\ Covered(c) = Shards(c)
    /\ \A p, q \in c.partials : p[1] = q[1] => p = q
    /\ c.pinned # 0 => \A p \in c.partials : p[2] = c.pinned

\* "a membership or epoch change propagates within a second"
\* (server/node_server.cpp:410-411): a node that joined Ttl or longer before a
\* query or scan began, and has not left since, is part of its answer, unless the
\* members could not be read.
MembersCovered ==
  \A t \in Thread : Succeeded(t) /\ ~ call[t].missed =>
    \A n \in Members : since[n] + Ttl <= call[t].start => n \in Covered(call[t])

\* "so one query sees one consistent snapshot across the cluster"
\* (proto/internal.proto:39-40): the shards of an answer are at one epoch.
OneSnapshot ==
  \A t \in Thread : Succeeded(t) =>
    \A p, q \in call[t].partials : p[2] = q[2]
=============================================================================
