---------------------------- MODULE ClusterProofs ---------------------------
(***************************************************************************)
(* What a query covers, for any number of nodes and threads and any        *)
(* lifetime of the cached view.  MembersCovered speaks of queries that     *)
(* have succeeded; QueryInv follows what a view knows from the read of the *)
(* members through the cache, that another thread may have filled, to the  *)
(* peers of a query.                                                       *)
(*                                                                         *)
(* Then the nodes that the queries reach: a listed node serves, and only   *)
(* nodes that have left refuse a call.  NodeInv says where in its life a   *)
(* process is when etcd lists it under a lease that is kept, and what a    *)
(* view may still hold of a node that it no longer lists.                  *)
(***************************************************************************)
EXTENDS ClusterQuery, NodeServer, TLAPS

ViewType == [peers: SUBSET Node, epoch: Nat, missed: BOOLEAN]

CacheType == [valid: BOOLEAN, at: Nat, view: ViewType]

CallType ==
  [pc: {"idle", "lookup", "members", "epoch", "store", "alone", "fan", "ok", "error"},
   op: {"none", "query", "scan"}, node: Node \cup {NoOne}, start: Nat, now: Nat,
   want: {"peers", "epoch"}, view: ViewType, peers: SUBSET Node, pinned: Nat,
   partials: SUBSET (Node \X Nat), failed: SUBSET Node, missed: BOOLEAN]

\* A view that node took after time `at` has every member that joined before.
Knows(view, node, at) ==
  /\ view.missed => view.peers = {}
  /\ ~ view.missed => \A n \in Members : since[n] < at => n \in view.peers \cup {node}

\* The nodes include every member for Ttl before the call.
Reaches(c, nodes) == \A n \in Members : since[n] + Ttl <= c.start => n \in nodes

\* The partials so far: one of each shard, from the pinned epoch.
OneEach(c) ==
  /\ Covered(c) \subseteq Shards(c)
  /\ \A p, q \in c.partials : p[1] = q[1] => p = q
  /\ c.pinned # 0 => \A p \in c.partials : p[2] = c.pinned

Asking == {"lookup", "members", "epoch", "store"}

CallInv(c) ==
  /\ c \in CallType /\ c.start <= clock
  /\ c.pc \in Asking \cup {"alone", "fan"} => c.node \in Front
  /\ c.pc \in Asking => /\ c.start <= c.now /\ c.now <= clock
                        /\ c.partials = {} /\ c.failed = {} /\ c.pinned = 0
  /\ c.pc \in Asking /\ c.want = "peers" => c.peers = {}
  /\ c.pc \in Asking /\ c.want = "epoch" => Reaches(c, Shards(c))
  /\ c.pc = "members" => c.view = NoView
  /\ c.pc \in {"epoch", "store"} => Knows(c.view, c.node, c.now)
  /\ c.pc = "alone" => /\ c.peers = {} /\ c.pinned = 0
                       /\ ~ c.missed => Reaches(c, {c.node})
  /\ c.pc = "fan" => Reaches(c, Shards(c)) /\ OneEach(c)
  /\ c.pc = "ok" => /\ OneEach(c) /\ Covered(c) = Shards(c)
                    /\ ~ c.missed => Reaches(c, Shards(c))

\* The cluster around the calls.
AroundInv ==
  /\ clock \in Nat /\ epoch \in Nat /\ version \in [Node -> Nat]
  /\ Members \subseteq Node /\ \A n \in Members : since[n] \in Nat /\ since[n] <= clock

CacheInv(f) ==
  /\ cache[f] \in CacheType /\ cache[f].at <= clock
  /\ cache[f].valid => Knows(cache[f].view, f, cache[f].at)

QueryInv ==
  /\ AroundInv
  /\ cache \in [Front -> CacheType] /\ \A f \in Front : CacheInv(f)
  /\ call \in [Thread -> CallType] /\ \A t \in Thread : CallInv(call[t])

-----------------------------------------------------------------------------

\* A call that has not begun or has failed.
LEMMA QuietCalls == ASSUME AroundInv PROVE CallInv(Idle) /\ CallInv(Failed)
<1>1. Idle \in CallType /\ Failed \in CallType
  BY Zenon DEF Idle, Failed, CallType, NoView, ViewType
<1> QED BY <1>1 DEF Idle, Failed, CallInv, Asking, AroundInv

\* The cluster at the start.
LEMMA InitQuery == Init => QueryInv
<1> SUFFICES ASSUME Init PROVE QueryInv
  OBVIOUS
<1>1. AroundInv
  BY ConstantsAssumption DEF Init, AroundInv, Members
<1>2. cache \in [Front -> CacheType] /\ \A f \in Front : CacheInv(f)
  BY <1>1 DEF Init, CacheInv, CacheType, NoView, ViewType, AroundInv
<1>3. \A t \in Thread : CallInv(call[t])
  BY <1>1, QuietCalls DEF Init
<1>4. call \in [Thread -> CallType]
  BY <1>3 DEF Init, CallInv
<1> QED BY <1>1, <1>2, <1>3, <1>4 DEF QueryInv

\* Time goes on and members come and go: who joins now joins after every view was
\* read and every call began.
LEMMA AroundSteps ==
  ASSUME QueryInv, UNCHANGED <<cache, call>>,
         AroundInv', clock <= clock',
         \A n \in Members' : \/ n \in Members /\ since'[n] = since[n]
                             \/ since'[n] = clock
  PROVE  QueryInv'
<1>1. ASSUME NEW view, NEW node, NEW at \in Nat, at <= clock, Knows(view, node, at)
      PROVE  Knows(view, node, at)'
  BY <1>1 DEF Knows, QueryInv, AroundInv
<1>2. ASSUME NEW c, c.start \in Nat, c.start <= clock, NEW nodes, Reaches(c, nodes)
      PROVE  Reaches(c, nodes)'
  BY <1>2, ConstantsAssumption DEF Reaches, QueryInv, AroundInv
<1>3. ASSUME NEW f \in Front PROVE CacheInv(f)'
  <2>1. CacheInv(f) /\ cache'[f] = cache[f] /\ cache[f].at \in Nat
    BY DEF QueryInv, CacheInv, CacheType
  <2>2. cache[f].at <= clock'
    BY <2>1 DEF CacheInv, QueryInv, AroundInv
  <2> QED BY <1>1, <2>1, <2>2 DEF CacheInv
<1>4. ASSUME NEW c, CallInv(c) PROVE CallInv(c)'
  <2>2. c.start \in Nat /\ c.now \in Nat /\ c.start <= clock
    BY <1>4 DEF CallInv, CallType
  <2>3. c.start <= clock' /\ (c.now <= clock => c.now <= clock')
    BY <2>2 DEF QueryInv, AroundInv
  <2>4. c.pc \in {"epoch", "store"} => Knows(c.view, c.node, c.now)'
    BY <1>1, <1>4, <2>2 DEF CallInv, Asking
  <2>5. \A nodes : Reaches(c, nodes) => Reaches(c, nodes)'
    BY <1>2, <2>2
  <2> QED BY <1>4, <2>3, <2>4, <2>5 DEF CallInv, Shards, OneEach, Covered
<1>5. \A t \in Thread : CallInv(call[t])'
  BY <1>4 DEF QueryInv
<1> QED BY <1>3, <1>5 DEF QueryInv

\* The actions of the cluster.
LEMMA AroundPreserves ==
  ASSUME QueryInv,
         \/ Tick
         \/ \E n \in Churn : Join(n) \/ Leave(n)
         \/ \E n \in Node : Publish(n) \/ AdvanceEpoch(n)
  PROVE  QueryInv'
<1>1. CASE Tick
  BY <1>1, AroundSteps DEF Tick, QueryInv, AroundInv, Members
<1>2. ASSUME NEW n \in Churn, Join(n) PROVE QueryInv'
  <2>1. Members' = Members \cup {n}
    BY <1>2 DEF Join, Members
  <2>2. \A m \in Members' : since'[m] = IF m = n THEN clock ELSE since[m]
    BY <1>2, <2>1 DEF Join
  <2>3. AroundInv'
    BY <1>2, <2>1, <2>2, ConstantsAssumption DEF Join, QueryInv, AroundInv
  <2> QED BY <1>2, <2>1, <2>2, <2>3, AroundSteps DEF Join, QueryInv, AroundInv
<1>3. ASSUME NEW n \in Churn, Leave(n) PROVE QueryInv'
  <2>1. Members' = Members \ {n}
    BY <1>3 DEF Leave, Members
  <2>2. \A m \in Members' : since'[m] = since[m]
    BY <1>3, <2>1 DEF Leave
  <2>3. AroundInv'
    BY <1>3, <2>1, <2>2 DEF Leave, QueryInv, AroundInv
  <2> QED BY <1>3, <2>1, <2>2, <2>3, AroundSteps DEF Leave, QueryInv, AroundInv
<1>4. ASSUME NEW n \in Node, Publish(n) PROVE QueryInv'
  <2>1. AroundInv'
    BY <1>4 DEF Publish, QueryInv, AroundInv, Members
  <2> QED BY <1>4, <2>1, AroundSteps DEF Publish, QueryInv, AroundInv, Members
<1>5. ASSUME NEW n \in Node, AdvanceEpoch(n) PROVE QueryInv'
  <2>1. AroundInv'
    BY <1>5 DEF AdvanceEpoch, QueryInv, AroundInv, Members
  <2> QED BY <1>5, <2>1, AroundSteps DEF AdvanceEpoch, QueryInv, AroundInv, Members
<1> QED BY <1>1, <1>2, <1>3, <1>4, <1>5

-----------------------------------------------------------------------------

\* What is known of a call depends on the members and the time.
LEMMA CallStays ==
  ASSUME Members' = Members, UNCHANGED <<since, clock>>
  PROVE  \A c : CallInv(c) => CallInv(c)'
<1> SUFFICES ASSUME NEW c, CallInv(c) PROVE CallInv(c)'
  OBVIOUS
<1>1. \A view, node, at : Knows(view, node, at)' <=> Knows(view, node, at)
  BY DEF Knows
<1>2. \A nodes : Reaches(c, nodes)' <=> Reaches(c, nodes)
  BY DEF Reaches
<1> QED BY <1>1, <1>2 DEF CallInv, Shards, OneEach, Covered

\* A thread's step keeps the invariant if the call it leaves and the cache have it.
LEMMA SetPreserves ==
  ASSUME QueryInv, NEW t \in Thread, NEW d, CallInv(d), Set(t, d),
         \/ UNCHANGED cache
         \/ \E f \in Front, e \in CacheType :
              /\ cache' = [cache EXCEPT ![f] = e]
              /\ e.at <= clock /\ Knows(e.view, f, e.at)
  PROVE  QueryInv'
<1> USE DEF Set
<1>1. AroundInv' /\ Members' = Members
  BY DEF QueryInv, AroundInv, Members
<1>2. \A c : CallInv(c) => CallInv(c)'
  BY <1>1, CallStays
<1>3. /\ call' \in [Thread -> CallType]
      /\ \A u \in Thread : call'[u] = IF u = t THEN d ELSE call[u]
  BY DEF QueryInv, CallInv
<1>4. \A u \in Thread : CallInv(call[u])'
  BY <1>2, <1>3 DEF QueryInv
<1>5. cache' \in [Front -> CacheType] /\ \A f \in Front : CacheInv(f)'
  <2>1. CASE UNCHANGED cache
    BY <1>1, <2>1 DEF QueryInv, CacheInv, Knows
  <2>2. ASSUME NEW f \in Front, NEW e \in CacheType, cache' = [cache EXCEPT ![f] = e],
               e.at <= clock, Knows(e.view, f, e.at)
        PROVE  cache' \in [Front -> CacheType] /\ \A g \in Front : CacheInv(g)'
    <3>1. /\ cache' \in [Front -> CacheType]
          /\ \A g \in Front : cache'[g] = IF g = f THEN e ELSE cache[g]
      BY <2>2 DEF QueryInv
    <3>2. Knows(e.view, f, e.at)'
      BY <1>1, <2>2 DEF Knows
    <3>3. \A g \in Front : CacheInv(g) /\ (Knows(cache[g].view, g, cache[g].at) =>
             \A w, a : w = cache[g].view /\ a = cache[g].at => Knows(w, g, a)')
      BY <1>1 DEF QueryInv, Knows
    <3> QED BY <2>2, <3>1, <3>2, <3>3 DEF CacheInv
  <2> QED BY <2>1, <2>2
<1> QED BY <1>1, <1>3, <1>4, <1>5 DEF QueryInv

\* What the caller makes of a view that is younger than Ttl.
LEMMA UseInv ==
  ASSUME QueryInv, NEW c, CallInv(c), c.pc \in {"lookup", "store"},
         NEW view \in ViewType, NEW at \in Nat, c.now - at < Ttl, Knows(view, c.node, at)
  PROVE  CallInv(Use(c, view))
<1> DEFINE d == Use(c, view)
<1>1. /\ c \in CallType /\ c.node \in Front /\ c.start <= c.now /\ c.start <= clock
      /\ clock \in Nat /\ c.start \in Nat /\ c.now \in Nat
      /\ c.partials = {} /\ c.failed = {} /\ c.pinned = 0
      /\ c.want = "epoch" => Reaches(c, Shards(c))
  BY Zenon DEF CallInv, CallType, Asking, QueryInv, AroundInv
<1>2. ~ view.missed => Reaches(c, view.peers \cup {c.node})
  <2> SUFFICES ASSUME ~ view.missed, NEW n \in Members, since[n] + Ttl <= c.start
               PROVE  n \in view.peers \cup {c.node}
    BY DEF Reaches
  <2>1. since[n] \in Nat /\ Ttl \in Nat
    BY ConstantsAssumption DEF QueryInv, AroundInv
  <2>2. since[n] < at
    BY <1>1, <2>1
  <2> QED BY <2>2 DEF Knows
<1> DEFINE e == Taken(c)
<1>3. /\ e \in CallType /\ e.node = c.node /\ e.start = c.start /\ e.peers = c.peers
      /\ e.partials = c.partials /\ e.failed = c.failed /\ e.pinned = c.pinned
  <2>1. NoView \in ViewType
    BY DEF ViewType, NoView
  <2>2. e \in CallType
    BY <1>1, <2>1, ZenonT(40) DEF Taken, CallType, ViewType, NoView
  <2> QED BY <1>1, <2>2 DEF Taken, CallType, ViewType, NoView
<1> HIDE DEF e
<1>4. CASE c.want = "epoch"
  <2>1. d = [e EXCEPT !.pc = "fan", !.pinned = view.epoch]
    BY <1>4 DEF Use, e
  <2>2. /\ d \in CallType /\ d.pc = "fan" /\ d.node = c.node /\ d.peers = c.peers
        /\ d.start = c.start /\ d.partials = {}
    <3>1. view.epoch \in Nat
      BY DEF ViewType
    <3>2. d \in CallType
      BY <1>3, <2>1, <3>1, ZenonT(40) DEF CallType, ViewType
    <3> QED BY <1>1, <1>3, <2>1, <3>2 DEF CallType, ViewType
  <2>3. Reaches(d, Shards(d)) /\ OneEach(d)
    BY <1>1, <1>4, <2>2 DEF Reaches, Shards, OneEach, Covered
  <2> QED BY <1>1, <2>2, <2>3 DEF CallInv, Asking
<1>5. CASE c.want # "epoch" /\ view.peers = {}
  <2>1. d = [e EXCEPT !.pc = "alone", !.missed = view.missed]
    BY <1>5 DEF Use, e
  <2>2. /\ d \in CallType /\ d.pc = "alone" /\ d.node = c.node /\ d.peers = c.peers
        /\ d.start = c.start /\ d.pinned = c.pinned /\ d.missed = view.missed
    <3>1. view.missed \in BOOLEAN
      BY DEF ViewType
    <3>2. d \in CallType
      BY <1>3, <2>1, <3>1, ZenonT(40) DEF CallType, ViewType
    <3> QED BY <1>1, <1>3, <2>1, <3>1, <3>2 DEF CallType, ViewType
  <2>3. c.peers = {}
    BY <1>1, <1>5 DEF CallInv, CallType, Asking
  <2>4. ~ view.missed => Reaches(d, {d.node})
    BY <1>2, <1>5, <2>2 DEF Reaches
  <2> QED BY <1>1, <2>2, <2>3, <2>4 DEF CallInv, Asking
<1>6. CASE c.want # "epoch" /\ view.peers # {} /\ c.op = "scan"
  BY <1>6, QuietCalls DEF Use, QueryInv
<1>7. CASE c.want # "epoch" /\ view.peers # {} /\ c.op # "scan"
  <2>1. d = [e EXCEPT !.pc = "lookup", !.want = "epoch", !.peers = view.peers, !.now = clock]
    BY <1>7 DEF Use, e
  <2>2. /\ d \in CallType /\ d.pc = "lookup" /\ d.want = "epoch" /\ d.node = c.node
        /\ d.peers = view.peers /\ d.start = c.start /\ d.now = clock
        /\ d.partials = {} /\ d.failed = {} /\ d.pinned = 0
    <3>1. view.peers \in SUBSET Node /\ clock \in Nat
      BY <1>1 DEF ViewType
    <3> DEFINE f == [e EXCEPT !.pc = "lookup", !.want = "epoch"]
    <3>2. f \in CallType
      BY <1>3, Zenon DEF CallType
    <3>3. d = [f EXCEPT !.peers = view.peers, !.now = clock]
      BY <2>1
    <3> HIDE DEF f
    <3>4. d \in CallType
      BY <3>1, <3>2, <3>3, ZenonT(40) DEF CallType
    <3> QED BY <1>1, <1>3, <2>1, <3>4 DEF CallType, ViewType
  <2>3. Reaches(d, Shards(d))
    BY <1>2, <1>7, <2>2 DEF Reaches, Shards, Knows
  <2>4. d.node \in Front /\ d.start <= clock /\ d.start <= d.now /\ d.now <= clock
    BY <1>1, <2>2
  <2>5. CallInv(d)
    <3> HIDE DEF d
    <3> QED BY <2>2, <2>3, <2>4 DEF CallInv, Asking
  <2> QED BY <2>5
<1> QED BY <1>4, <1>5, <1>6, <1>7

-----------------------------------------------------------------------------

\* A step of a thread up to the view.
LEMMA AskingPreserves ==
  ASSUME QueryInv, NEW t \in Thread,
         Begin(t) \/ Lookup(t) \/ ReadMembers(t) \/ ReadEpoch(t) \/ Store(t)
  PROVE  QueryInv'
<1> DEFINE c == call[t]
<1>1. /\ CallInv(c) /\ c \in CallType
      /\ c.pc \in Asking => /\ c.node \in Front /\ c.start <= c.now /\ c.now <= clock
                            /\ c.now \in Nat /\ c.view \in ViewType
  BY Zenon DEF QueryInv, CallInv, CallType
<1>2. CASE Begin(t)
  <2>1. PICK op \in {"query", "scan"}, n \in Front :
          /\ Set(t, [Idle EXCEPT !.pc = "lookup", !.op = op, !.node = n, !.start = clock, !.now = clock])
          /\ UNCHANGED cache
    BY <1>2, Zenon DEF Begin
  <2> DEFINE d == [Idle EXCEPT !.pc = "lookup", !.op = op, !.node = n, !.start = clock, !.now = clock]
  <2>2. /\ d \in CallType /\ d.pc = "lookup" /\ d.node = n /\ d.start = clock /\ d.now = clock
        /\ d.partials = {} /\ d.failed = {} /\ d.pinned = 0 /\ d.want = "peers" /\ d.peers = {}
    BY ConstantsAssumption, ZenonT(40) DEF Idle, CallType, NoView, ViewType, QueryInv, AroundInv
  <2>3. CallInv(d)
    BY <2>2 DEF CallInv, Asking, QueryInv, AroundInv
  <2> QED BY <2>1, <2>3, SetPreserves
<1>3. CASE Lookup(t)
  <2> DEFINE held == cache[c.node]
  <2>1. c.pc = "lookup" /\ c.node \in Front /\ UNCHANGED cache
    BY <1>1, <1>3 DEF Lookup, Asking
  <2>2. CacheInv(c.node) /\ held \in CacheType
    BY <2>1 DEF QueryInv
  <2>3. CASE held.valid /\ c.now - held.at < Ttl
    <3>1. Set(t, Use(c, held.view))
      BY <1>3, <2>3 DEF Lookup
    <3>2. held.view \in ViewType /\ held.at \in Nat /\ Knows(held.view, c.node, held.at)
      BY <2>2, <2>3 DEF CacheInv, CacheType
    <3>3. CallInv(Use(c, held.view))
      BY <1>1, <2>1, <2>3, <3>2, UseInv
    <3> QED BY <2>1, <3>1, <3>3, SetPreserves
  <2>4. CASE ~ (held.valid /\ c.now - held.at < Ttl)
    <3> DEFINE d == [c EXCEPT !.pc = "members", !.view = NoView]
    <3>1. Set(t, d)
      BY <1>3, <2>4 DEF Lookup
    <3>2. /\ d \in CallType /\ d.pc = "members" /\ d.view = NoView
          /\ d.node = c.node /\ d.start = c.start /\ d.now = c.now /\ d.want = c.want
          /\ d.peers = c.peers /\ d.partials = c.partials /\ d.failed = c.failed
          /\ d.pinned = c.pinned
      BY <1>1, Zenon DEF CallType, NoView, ViewType
    <3>3. Reaches(c, Shards(c)) => Reaches(d, Shards(d))
      BY <3>2 DEF Reaches, Shards
    <3>4. CallInv(d)
      BY <1>1, <2>1, <3>2, <3>3 DEF CallInv, Asking
    <3> QED BY <2>1, <3>1, <3>4, SetPreserves
  <2> QED BY <2>3, <2>4
<1>4. CASE ReadMembers(t)
  <2>1. c.pc = "members" /\ UNCHANGED cache /\ c.view = NoView
    BY <1>1, <1>4 DEF ReadMembers, CallInv
  <2> DEFINE Read(v) == [c EXCEPT !.pc = "epoch", !.view = v]
             seen == [NoView EXCEPT !.peers = Members \ {c.node}]
             unseen == [NoView EXCEPT !.missed = TRUE]
  <2>2. Set(t, Read(seen)) \/ Set(t, Read(unseen))
    BY <1>1, <1>4, <2>1, Zenon DEF ReadMembers, CallType
  <2>3. ASSUME NEW v \in ViewType, Knows(v, c.node, c.now) PROVE CallInv(Read(v))
    <3> DEFINE d == Read(v)
    <3>1. /\ d \in CallType /\ d.pc = "epoch" /\ d.view = v
          /\ d.node = c.node /\ d.start = c.start /\ d.now = c.now /\ d.want = c.want
          /\ d.peers = c.peers /\ d.partials = c.partials /\ d.failed = c.failed
          /\ d.pinned = c.pinned
      BY <1>1, Zenon DEF CallType
    <3>2. Reaches(c, Shards(c)) => Reaches(d, Shards(d))
      BY <3>1 DEF Reaches, Shards
    <3>3. Knows(d.view, d.node, d.now)
      BY <2>3, <3>1
    <3> QED BY <1>1, <2>1, <3>1, <3>2, <3>3 DEF CallInv, Asking
  <2>4. seen \in ViewType /\ Knows(seen, c.node, c.now)
    BY Zenon DEF ViewType, NoView, Knows, QueryInv, AroundInv
  <2>5. unseen \in ViewType /\ Knows(unseen, c.node, c.now)
    BY Zenon DEF ViewType, NoView, Knows
  <2>6. CallInv(Read(seen)) /\ CallInv(Read(unseen))
    BY <2>3, <2>4, <2>5, Zenon
  <2> QED BY <2>1, <2>2, <2>6, SetPreserves
<1>5. CASE ReadEpoch(t)
  <2>1. c.pc = "epoch" /\ UNCHANGED cache
    BY <1>5 DEF ReadEpoch
  <2> DEFINE Read(v) == [c EXCEPT !.pc = "store", !.view = v]
             seen == [c.view EXCEPT !.epoch = epoch]
  <2>2. Set(t, Read(seen)) \/ Set(t, Read(c.view))
    BY <1>1, <1>5, <2>1, Zenon DEF ReadEpoch, CallType
  <2>3. ASSUME NEW v \in ViewType, v.peers = c.view.peers, v.missed = c.view.missed
        PROVE  CallInv(Read(v))
    <3> DEFINE d == Read(v)
    <3>1. /\ d \in CallType /\ d.pc = "store" /\ d.view = v
          /\ d.node = c.node /\ d.start = c.start /\ d.now = c.now /\ d.want = c.want
          /\ d.peers = c.peers /\ d.partials = c.partials /\ d.failed = c.failed
          /\ d.pinned = c.pinned
      BY <1>1, ZenonT(40) DEF CallType
    <3>2. Reaches(c, Shards(c)) => Reaches(d, Shards(d))
      BY <3>1 DEF Reaches, Shards
    <3>3. Knows(c.view, c.node, c.now)
      BY <1>1, <2>1 DEF CallInv
    <3>4. Knows(d.view, d.node, d.now)
      BY <2>3, <3>1, <3>3 DEF Knows
    <3> QED BY <1>1, <2>1, <3>1, <3>2, <3>4 DEF CallInv, Asking
  <2>4. c.view \in ViewType
    BY <1>1, <2>1 DEF Asking
  <2>5. seen \in ViewType /\ seen.peers = c.view.peers /\ seen.missed = c.view.missed
    BY <2>4, Zenon DEF ViewType, QueryInv, AroundInv
  <2>6. CallInv(Read(seen)) /\ CallInv(Read(c.view))
    BY <2>3, <2>4, <2>5, Zenon
  <2> QED BY <2>1, <2>2, <2>6, SetPreserves
<1>6. CASE Store(t)
  <2> DEFINE e == [valid |-> TRUE, at |-> c.now, view |-> c.view]
  <2>1. c.pc = "store" /\ cache' = [cache EXCEPT ![c.node] = e] /\ Set(t, Use(c, c.view))
    BY <1>6 DEF Store
  <2>2. /\ c.node \in Front /\ c.now \in Nat /\ c.now <= clock /\ c.view \in ViewType
        /\ Knows(c.view, c.node, c.now)
    BY <1>1, <2>1 DEF CallInv, Asking
  <2>3. CallInv(Use(c, c.view))
    <3>1. c.now - c.now < Ttl
      <4>1. c.now \in Nat
        BY <2>2
      <4>2. Ttl \in Nat /\ Ttl > 0
        BY ConstantsAssumption
      <4> QED BY <4>1, <4>2
    <3> QED BY <1>1, <2>1, <2>2, <3>1, UseInv
  <2>4. e \in CacheType /\ e.at = c.now /\ e.view = c.view
    BY <2>2 DEF CacheType
  <2> QED BY <2>1, <2>2, <2>3, <2>4, SetPreserves, ZenonT(40)
<1> QED BY <1>2, <1>3, <1>4, <1>5, <1>6

\* A call of a running fan-out with one more answer, or with all.
LEMMA FanInv ==
  ASSUME NEW c, CallInv(c), c.pc = "fan", NEW d, d \in CallType, OneEach(d),
         d.node = c.node, d.start = c.start, d.peers = c.peers
  PROVE  /\ d.pc = "fan" => CallInv(d)
         /\ d.pc = "ok" /\ Covered(d) = Shards(d) => CallInv(d)
<1>1. Reaches(d, Shards(d))
  BY DEF CallInv, Reaches, Shards
<1>2. d.start <= clock /\ d.node \in Front
  BY DEF CallInv
<1> QED BY <1>1, <1>2, Zenon DEF CallInv, Asking

\* A step of a thread after the view.
LEMMA EvaluationPreserves ==
  ASSUME QueryInv, NEW t \in Thread,
         \/ Alone(t) \/ JoinAll(t) \/ Return(t)
         \/ \E s \in Node : EvaluateShard(t, s) \/ CallFails(t, s)
  PROVE  QueryInv'
<1> DEFINE c == call[t]
<1>1. CallInv(c) /\ c \in CallType
  BY DEF QueryInv
<1>2. CallInv(Idle) /\ CallInv(Failed)
  BY QuietCalls DEF QueryInv
<1>3. CASE Alone(t)
  <2> DEFINE d == [c EXCEPT !.pc = "ok", !.partials = {<<c.node, version[c.node]>>}]
  <2>1. c.pc = "alone" /\ UNCHANGED cache /\ (Set(t, Failed) \/ Set(t, d))
    BY <1>3 DEF Alone
  <2>2. c.node \in Node /\ version[c.node] \in Nat
    BY <1>1, <2>1, ConstantsAssumption DEF CallInv, QueryInv, AroundInv
  <2>3. /\ d \in CallType /\ d.pc = "ok" /\ d.partials = {<<c.node, version[c.node]>>}
        /\ d.node = c.node /\ d.start = c.start /\ d.peers = c.peers /\ d.pinned = c.pinned
        /\ d.missed = c.missed
    <3>1. {<<c.node, version[c.node]>>} \in SUBSET (Node \X Nat)
      BY <2>2
    <3> QED BY <1>1, <3>1, Zenon DEF CallType
  <2>4. c.peers = {} /\ c.pinned = 0 /\ (~ c.missed => Reaches(c, {c.node}))
    BY <1>1, <2>1 DEF CallInv
  <2>5. Shards(d) = {c.node} /\ Covered(d) = {c.node} /\ OneEach(d)
    BY <2>3, <2>4 DEF Shards, Covered, OneEach
  <2>6. ~ d.missed => Reaches(d, Shards(d))
    BY <2>3, <2>4, <2>5 DEF Reaches
  <2>7. d.start <= clock
    BY <1>1, <2>3 DEF CallInv
  <2>8. CallInv(d)
    BY <2>3, <2>5, <2>6, <2>7 DEF CallInv, Asking
  <2> QED BY <1>2, <2>1, <2>8, SetPreserves
<1>4. CASE JoinAll(t)
  <2> DEFINE d == [c EXCEPT !.pc = "ok"]
  <2>1. /\ c.pc = "fan" /\ Shards(c) = Answered(c) /\ UNCHANGED cache
        /\ Set(t, Failed) \/ (Set(t, d) /\ c.failed = {})
    BY <1>4 DEF JoinAll
  <2>2. CASE Set(t, d) /\ c.failed = {}
    <3>1. Covered(c) = Shards(c) /\ OneEach(c)
      BY <1>1, <2>1, <2>2 DEF Covered, Answered, CallInv
    <3>2. /\ d \in CallType /\ d.pc = "ok" /\ d.node = c.node /\ d.start = c.start
          /\ d.peers = c.peers /\ d.partials = c.partials /\ d.pinned = c.pinned
      BY <1>1 DEF CallType
    <3>3. OneEach(d) /\ Covered(d) = Shards(d)
      BY <3>1, <3>2 DEF OneEach, Covered, Shards
    <3>4. CallInv(d)
      BY <1>1, <2>1, <3>2, <3>3, FanInv, Zenon
    <3> QED BY <2>1, <2>2, <3>4, SetPreserves
  <2> QED BY <1>2, <2>1, <2>2, SetPreserves
<1>5. CASE Return(t)
  BY <1>2, <1>5, SetPreserves DEF Return
<1>6. ASSUME NEW s \in Node, c.pc = "fan", UNCHANGED cache,
             Set(t, [c EXCEPT !.failed = @ \cup {s}])
      PROVE  QueryInv'
  <2> DEFINE d == [c EXCEPT !.failed = @ \cup {s}]
  <2>1. /\ d \in CallType /\ d.pc = "fan" /\ d.node = c.node /\ d.start = c.start
        /\ d.peers = c.peers /\ d.partials = c.partials /\ d.pinned = c.pinned
    BY <1>1, <1>6 DEF CallType
  <2>2. Set(t, d)
    BY <1>6
  <2> HIDE DEF d
  <2>3. OneEach(d)
    BY <1>1, <1>6, <2>1 DEF CallInv, OneEach, Covered, Shards
  <2>4. CallInv(d)
    BY <1>1, <1>6, <2>1, <2>3, FanInv
  <2> QED BY <1>6, <2>2, <2>4, SetPreserves
<1>7. ASSUME NEW s \in Node, EvaluateShard(t, s) PROVE QueryInv'
  <2> DEFINE d == [c EXCEPT !.partials = @ \cup {<<s, version[s]>>}]
  <2>1. c.pc = "fan" /\ s \in Shards(c) \ Answered(c) /\ UNCHANGED cache
    BY <1>7 DEF EvaluateShard
  <2>2. CASE Set(t, d) /\ c.pinned \in {0, version[s]}
    <3>1. version[s] \in Nat
      BY DEF QueryInv, AroundInv
    <3>2. /\ d \in CallType /\ d.pc = "fan" /\ d.node = c.node /\ d.start = c.start
          /\ d.peers = c.peers /\ d.pinned = c.pinned
          /\ d.partials = c.partials \cup {<<s, version[s]>>}
      BY <1>1, <2>1, <3>1, SMTT(30) DEF CallType
    <3> HIDE DEF d
    <3>3. OneEach(c) /\ \A p \in c.partials : p[1] # s
      BY <1>1, <2>1, Zenon DEF CallInv, Answered
    <3>4. PICK x : x[1] = s /\ x[2] = version[s] /\ d.partials = c.partials \cup {x}
      BY <3>2, Zenon
    <3>5. OneEach(d)
      <4>1. Covered(d) = Covered(c) \cup {s} /\ Shards(d) = Shards(c)
        BY <3>2, <3>4, Zenon DEF Covered, Shards
      <4>2. Covered(d) \subseteq Shards(d)
        BY <2>1, <3>3, <4>1 DEF OneEach
      <4>3. \A p, q \in c.partials : p[1] = q[1] => p = q
        BY <3>3 DEF OneEach
      <4>4. \A p, q \in d.partials : p[1] = q[1] => p = q
        BY <3>3, <3>4, <4>3, Zenon
      <4>5. c.pinned # 0 => x[2] = c.pinned /\ \A p \in c.partials : p[2] = c.pinned
        BY <2>2, <3>3, <3>4 DEF OneEach
      <4>6. d.pinned # 0 => \A p \in d.partials : p[2] = d.pinned
        BY <3>2, <3>4, <4>5, Zenon
      <4> QED BY <4>2, <4>4, <4>6 DEF OneEach
    <3>6. CallInv(d)
      BY <1>1, <2>1, <3>2, <3>5, FanInv
    <3> QED BY <2>1, <2>2, <3>6, SetPreserves
  <2> QED BY <1>6, <1>7, <2>1, <2>2 DEF EvaluateShard
<1>8. ASSUME NEW s \in Node, CallFails(t, s) PROVE QueryInv'
  BY <1>6, <1>8 DEF CallFails
<1> QED BY <1>3, <1>4, <1>5, <1>7, <1>8

-----------------------------------------------------------------------------

\* QueryInv is an invariant.
LEMMA QueryInvariance == Spec => []QueryInv
<1>1. QueryInv /\ [Next]_vars => QueryInv'
  <2> SUFFICES ASSUME QueryInv, [Next]_vars PROVE QueryInv'
    OBVIOUS
  <2>1. CASE UNCHANGED vars
    <3>1. AroundInv' /\ Members' = Members /\ UNCHANGED <<since, clock, cache, call>>
      BY <2>1 DEF vars, QueryInv, AroundInv, Members
    <3>2. \A c : CallInv(c) => CallInv(c)'
      BY <3>1, CallStays
    <3>3. \A f \in Front : CacheInv(f)'
      BY <3>1 DEF QueryInv, CacheInv, Knows
    <3> QED BY <3>1, <3>2, <3>3 DEF QueryInv
  <2>2. CASE Next
    BY <2>2, AroundPreserves, AskingPreserves, EvaluationPreserves DEF Next, Step
  <2> QED BY <2>1, <2>2
<1> QED BY <1>1, InitQuery, PTL DEF Spec

\* A query that succeeds combines one partial of every shard it was sent to, each of
\* the pinned epoch (QueryCoordinator::Execute, Engine::EvaluateShard), with any number
\* of nodes, threads and publishes.
THEOREM AllShardsAnswer == Spec => []AllShardsOrNone
<1>1. QueryInv => AllShardsOrNone
  BY Zenon DEF QueryInv, CallInv, OneEach, AllShardsOrNone, Succeeded
<1> QED BY <1>1, QueryInvariance, PTL

\* Every node that has been a member for the lifetime of the cached view when a query
\* or scan begins is part of its answer (ClusterViewCached, one cache for all the
\* threads of a node), unless the members could not be read.
THEOREM MembersAreCovered == Spec => []MembersCovered
<1>1. QueryInv => MembersCovered
  <2> SUFFICES ASSUME QueryInv, NEW t \in Thread, Succeeded(t), ~ call[t].missed,
                      NEW n \in Members, since[n] + Ttl <= call[t].start
               PROVE  n \in Covered(call[t])
    BY DEF MembersCovered
  <2>1. CallInv(call[t]) /\ call[t].pc = "ok"
    BY DEF QueryInv, Succeeded
  <2> QED BY <2>1 DEF CallInv, Reaches, Succeeded
<1> QED BY <1>1, QueryInvariance, PTL

-----------------------------------------------------------------------------
(* The nodes that the queries reach.                                       *)

PcType ==
  {"down", "open", "listen", "cluster_listen", "join", "signals", "run", "drain"}

QueryType ==
  [step: {"ask"}, at: Server, left: SUBSET Server, running: SUBSET Server, refused: SUBSET Server]

Types ==
  /\ conf \in Configuration /\ Validate(conf)
  /\ pc \in [Server -> PcType] /\ DOMAIN dial = Server
  /\ up \in [Server -> BOOLEAN] /\ shardUp \in [Server -> BOOLEAN] /\ cluster \in [Server -> BOOLEAN]
  /\ member \in [Server -> BOOLEAN] /\ unrevoked \in [Server -> BOOLEAN] /\ stop \in [Server -> BOOLEAN]
  /\ listed \subseteq Server /\ departed \subseteq Server

\* Where a node is in its life.
LifeInv(n) ==
  /\ member[n] => unrevoked[n] \/ pc[n] \in {"signals", "run"}
  /\ unrevoked[n] => member[n] /\ n \in departed
  /\ pc[n] \in {"join", "signals", "run"} => shardUp[n]
  /\ pc[n] \in {"down", "open", "listen"} => ~ shardUp[n]
  /\ up[n] => pc[n] \notin {"down", "open"}
  /\ pc[n] = "drain" => n \in departed
  /\ n \in listed => shardUp[n] \/ n \in departed

\* A query runs in a process that has its credentials, and has yet to call nodes that
\* serve or have left; only nodes that have left refused it.
AskInv(a) ==
  /\ a = Free \/ a \in QueryType
  /\ a.step = "ask" =>
       /\ pc[a.at] \notin {"down", "open"}
       /\ \A m \in a.left : shardUp[m] \/ m \in departed
       /\ Coherent(conf) /\ dial[a.at] = PeerChannel(conf, CertFile) => a.refused \subseteq departed

NodeInv ==
  /\ Types
  /\ \A n \in Server : LifeInv(n)
  /\ DOMAIN query = Query /\ \A q \in Query : AskInv(query[q])

-----------------------------------------------------------------------------

\* Under a coherent configuration that Validate accepts, a node's dialler and a node's
\* listener accept each other's certificates.
LEMMA NodesConnect ==
  ASSUME NEW c \in Configuration, Validate(c), Coherent(c)
  PROVE  Connects(PeerChannel(c, CertFile), ShardListener(c))
<1>1. CASE c.clusterTls
  <2>1. c.separate
    BY <1>1 DEF Coherent
  <2> QED BY <1>1, <2>1 DEF Connects, PeerChannel, CertFile, ShardListener, ClusterServerCredentials
<1>2. CASE ~ c.clusterTls
  <2>1. ShardListener(c) = ServerCredentials(c)
    BY <1>2 DEF ShardListener, ClusterServerCredentials
  <2>2. c.signer \in {"auth", "system"}
    BY ConfigurationAssumption
  <2> QED BY <1>2, <2>1, <2>2
          DEF Connects, PeerChannel, CertFile, ServerCredentials, Plain, Validate, Coherent
<1> QED BY <1>1, <1>2

LEMMA InitNodes == ServerInit => NodeInv
<1> SUFFICES ASSUME ServerInit PROVE NodeInv
  OBVIOUS
<1>1. Types
  BY DEF ServerInit, Types, PcType
<1>2. \A n \in Server : LifeInv(n)
  BY DEF ServerInit, LifeInv
<1>3. DOMAIN query = Query /\ \A q \in Query : AskInv(query[q])
  BY DEF ServerInit, AskInv, Free
<1> QED BY <1>1, <1>2, <1>3 DEF NodeInv

LEMMA AskTypes ==
  ASSUME NodeInv, NEW q \in Query, query[q].step = "ask"
  PROVE  AskInv(query[q]) /\ query[q] \in QueryType
<1>1. AskInv(query[q])
  BY Zenon DEF NodeInv
<1>2. query[q] = Free \/ query[q] \in QueryType
  BY <1>1, Zenon DEF AskInv
<1> QED BY <1>1, <1>2 DEF Free

\* A query does not mind what nodes do, if its own goes on and a node that stops
\* serving is known to have left.
LEMMA QueriesStay ==
  ASSUME NodeInv, departed \subseteq departed', UNCHANGED conf,
         \A m \in Server : shardUp[m] => shardUp'[m] \/ m \in departed',
         NEW q \in Query,
         query[q].step = "ask" =>
           pc'[query[q].at] \notin {"down", "open"} /\ dial'[query[q].at] = dial[query[q].at],
         \/ query'[q] = query[q]
         \/ \E n \in Server \cap departed' :
              /\ query[q].step = "ask"
              /\ query'[q] = [query[q] EXCEPT !.running = @ \ {n}, !.refused = @ \cup {n}]
  PROVE  AskInv(query[q])'
<1>1. AskInv(query[q])
  BY DEF NodeInv
<1>2. query[q].step = "ask" => query[q] \in QueryType /\ query[q].left \subseteq Server
  BY AskTypes DEF QueryType
<1>3. CASE query'[q] = query[q]
  BY <1>1, <1>2, <1>3 DEF AskInv
<1>4. ASSUME NEW n \in Server, n \in departed', query[q].step = "ask",
             query'[q] = [query[q] EXCEPT !.running = @ \ {n}, !.refused = @ \cup {n}]
      PROVE  AskInv(query[q])'
  <2> DEFINE a == query[q]
             b == [a EXCEPT !.running = a.running \ {n}, !.refused = a.refused \cup {n}]
  <2>1. a \in QueryType /\ query'[q] = b
    BY <1>2, <1>4, Zenon
  <2>2. b \in QueryType /\ b.at = a.at /\ b.left = a.left /\ b.refused = a.refused \cup {n}
    BY <2>1 DEF QueryType
  <2> QED BY <1>1, <1>2, <1>4, <2>1, <2>2 DEF AskInv
<1> QED BY <1>3, <1>4

\* The end of a process.
LEMMA DieKeeps ==
  ASSUME NodeInv, NEW n \in Server, Die(n), UNCHANGED <<conf, member>>,
         unrevoked' = [unrevoked EXCEPT ![n] = member[n]]
  PROVE  NodeInv'
<1>1. Types'
  BY DEF NodeInv, Types, Die, PcType
<1>2. \A m \in Server : LifeInv(m)'
  BY DEF NodeInv, Types, Die, LifeInv
<1>3. departed \subseteq departed' /\ n \in departed'
      /\ \A m \in Server : shardUp[m] => shardUp'[m] \/ m \in departed'
  BY Zenon DEF NodeInv, Types, Die
<1>4. ASSUME NEW q \in Query PROVE AskInv(query[q])'
  <2>1. CASE query'[q] = Free
    BY <2>1 DEF AskInv, Free
  <2>2. CASE query'[q] # Free
    <3>1. query[q].step = "ask" => query[q].at \in Server
      BY AskTypes DEF QueryType
    <3>2. query[q].step = "ask" => query[q].at # n
      BY <2>2 DEF Die
    <3>3. query[q].step = "ask" =>
            pc'[query[q].at] \notin {"down", "open"} /\ dial'[query[q].at] = dial[query[q].at]
      BY <3>1, <3>2 DEF Die, NodeInv, Types, AskInv
    <3>4. \/ query'[q] = query[q]
          \/ /\ query[q].step = "ask"
             /\ query'[q] = [query[q] EXCEPT !.running = @ \ {n}, !.refused = @ \cup {n}]
      BY <2>2 DEF Die
    <3> QED BY <1>3, <3>3, <3>4, QueriesStay
  <2> QED BY <2>1, <2>2
<1>5. DOMAIN query' = Query
  BY DEF Die
<1> QED BY <1>1, <1>2, <1>4, <1>5 DEF NodeInv

\* The steps of a node.
LEMMA NodeSteps ==
  ASSUME NodeInv, NEW n \in Server,
         \/ Boot(n) \/ StartStep(n) \/ StartFails(n) \/ Register(n) \/ Expire(n)
         \/ Signal(n) \/ Crash(n) \/ ShutdownStep(n)
  PROVE  NodeInv'
<1>1. CASE StartFails(n) \/ Exit(n)
  <2>1. Die(n) /\ UNCHANGED <<conf, member, unrevoked>> /\ pc[n] \notin {"signals", "run"}
    BY <1>1 DEF StartFails, Exit
  <2>2. unrevoked[n] = member[n]
    BY <2>1 DEF NodeInv, Types, LifeInv
  <2>3. unrevoked' = [unrevoked EXCEPT ![n] = member[n]]
    BY <2>1, <2>2 DEF NodeInv, Types
  <2> QED BY <2>1, <2>3, DieKeeps, Zenon
<1>2. CASE Crash(n)
  BY <1>2, DieKeeps, Zenon DEF Crash
<1>3. ASSUME UNCHANGED <<conf, query>>, departed \subseteq departed', Types',
             \A m \in Server : LifeInv(m)',
             \A m \in Server : shardUp[m] => shardUp'[m] \/ m \in departed',
             \A m \in Server : pc[m] \notin {"down", "open"} =>
                                 pc'[m] \notin {"down", "open"} /\ dial'[m] = dial[m]
      PROVE  NodeInv'
  <2>1. ASSUME NEW q \in Query PROVE AskInv(query[q])'
    <3>1. query[q].step = "ask" => query[q].at \in Server /\ pc[query[q].at] \notin {"down", "open"}
      BY AskTypes DEF AskInv, QueryType
    <3> QED BY <1>3, <3>1, QueriesStay
  <2> QED BY <1>3, <2>1 DEF NodeInv
<1> USE DEF NodeInv, Types, PcType, LifeInv
<1>4. CASE Boot(n)
  BY <1>3, <1>4 DEF Boot
<1>5. CASE OpenStores(n)
  BY <1>3, <1>5 DEF OpenStores
<1>6. CASE Listen(n)
  <2>1. Types'
    <3>1. conf.separate \in BOOLEAN
      BY ConfigurationAssumption
    <3>2. shardUp' \in [Server -> BOOLEAN]
      BY <1>6, <3>1 DEF Listen
    <3>3. pc' \in [Server -> PcType]
      BY <1>6 DEF Listen
    <3>4. up' \in [Server -> BOOLEAN]
      BY <1>6 DEF Listen
    <3> QED BY <1>6, <3>2, <3>3, <3>4 DEF Listen
  <2>2. \A m \in Server : LifeInv(m)'
    BY <1>6, Zenon DEF Listen
  <2>3. \A m \in Server : shardUp[m] => shardUp'[m] \/ m \in departed'
    BY <1>6 DEF Listen
  <2> QED BY <1>3, <1>6, <2>1, <2>2, <2>3 DEF Listen
<1>7. CASE ListenCluster(n)
  BY <1>3, <1>7 DEF ListenCluster
<1>8. CASE JoinCluster(n)
  <2>1. Types'
    BY <1>8, ConfigurationAssumption DEF JoinCluster
  <2>2. \A m \in Server : LifeInv(m)'
    BY <1>8 DEF JoinCluster
  <2>3. \A m \in Server : shardUp[m] => shardUp'[m] \/ m \in departed'
    BY <1>8 DEF JoinCluster
  <2> QED BY <1>3, <1>8, <2>1, <2>2, <2>3 DEF JoinCluster
<1>9. CASE InstallHandlers(n)
  BY <1>3, <1>9 DEF InstallHandlers
<1>10. CASE Register(n)
  BY <1>3, <1>10 DEF Register
<1>11. CASE Expire(n)
  BY <1>3, <1>11 DEF Expire
<1>12. CASE Signal(n)
  BY <1>3, <1>12 DEF Signal
<1>13. CASE StopCluster(n)
  <2>1. Types'
    <3>1. pc' \in [Server -> PcType] /\ departed' \subseteq Server
      BY <1>13 DEF StopCluster
    <3>2. member' \in [Server -> BOOLEAN]
      BY <1>13, Zenon DEF StopCluster
    <3>3. unrevoked' \in [Server -> BOOLEAN]
      BY <1>13, Zenon DEF StopCluster
    <3> HIDE DEF PcType, LifeInv
    <3> QED BY <1>13, <3>1, <3>2, <3>3, Zenon DEF StopCluster
  <2>2. \A m \in Server : LifeInv(m)'
    BY <1>13 DEF StopCluster
  <2> QED BY <1>3, <1>13, <2>1, <2>2 DEF StopCluster
<1>14. CASE StopServer(n)
  <2>1. Types'
    BY <1>14, ConfigurationAssumption DEF StopServer
  <2>2. \A m \in Server : LifeInv(m)'
    BY <1>14 DEF StopServer
  <2>3. \A m \in Server : shardUp[m] => shardUp'[m] \/ m \in departed'
    BY <1>14 DEF StopServer
  <2> QED BY <1>3, <1>14, <2>1, <2>2, <2>3 DEF StopServer
<1>15. CASE StopClusterServer(n)
  BY <1>3, <1>15 DEF StopClusterServer
<1> QED BY <1>1, <1>2, <1>4, <1>5, <1>6, <1>7, <1>8, <1>9, <1>10, <1>11, <1>12, <1>13, <1>14, <1>15, Zenon
        DEF StartStep, ShutdownStep

\* The steps of a query.
LEMMA QuerySteps ==
  ASSUME NodeInv, NEW q \in Query,
         \/ (\E n \in Server : Ask(q, n))
         \/ EvaluatePeer(q) \/ PeerReturns(q) \/ Combine(q)
  PROVE  NodeInv'
<1>1. UNCHANGED <<conf, pc, dial, up, shardUp, cluster, member, unrevoked, stop, listed, departed>>
  BY DEF Ask, EvaluatePeer, PeerReturns, Combine
<1>2. ASSUME NEW a, AskInv(a), query' = [query EXCEPT ![q] = a] PROVE NodeInv'
  <2>1. Types' /\ \A n \in Server : LifeInv(n)'
    BY <1>1 DEF NodeInv, Types, LifeInv
  <2>2. \A b : AskInv(b) => AskInv(b)'
    BY <1>1 DEF AskInv
  <2>3. DOMAIN query' = Query /\ \A r \in Query : query'[r] = IF r = q THEN a ELSE query[r]
    BY <1>2 DEF NodeInv
  <2> QED BY <1>2, <2>1, <2>2, <2>3 DEF NodeInv
<1>3. ASSUME NEW n \in Server, Ask(q, n) PROVE NodeInv'
  <2>1. PICK peers \in Peers(n) :
          query' = [query EXCEPT ![q] = [step |-> "ask", at |-> n, left |-> peers,
                                         running |-> {}, refused |-> {}]]
    BY <1>3 DEF Ask
  <2>2. peers \subseteq listed
    BY DEF Peers
  <2>3. peers \subseteq Server /\ \A m \in peers : shardUp[m] \/ m \in departed
    BY <2>2 DEF NodeInv, Types, LifeInv
  <2>4. pc[n] \notin {"down", "open"}
    BY <1>3 DEF Ask, NodeInv, LifeInv
  <2>5. AskInv([step |-> "ask", at |-> n, left |-> peers, running |-> {}, refused |-> {}])
    BY <2>3, <2>4 DEF AskInv, QueryType
  <2> QED BY <1>2, <2>1, <2>5
<1>4. CASE EvaluatePeer(q)
  <2> DEFINE a == query[q]
  <2>1. a.step = "ask" /\ AskInv(a) /\ a \in QueryType
    BY <1>4, AskTypes DEF EvaluatePeer
  <2> DEFINE takes(m) == shardUp[m] /\ Connects(dial[a.at], ShardListener(conf))
             taken(m) == [a EXCEPT !.left = a.left \ {m}, !.running = a.running \cup {m}]
             refusal(m) == [a EXCEPT !.left = a.left \ {m}, !.refused = a.refused \cup {m}]
  <2>2. PICK m \in a.left : query' = IF takes(m) THEN [query EXCEPT ![q] = taken(m)]
                                     ELSE [query EXCEPT ![q] = refusal(m)]
    BY <1>4, Zenon DEF EvaluatePeer
  <2>3. m \in Server
    BY <2>1 DEF QueryType
  <2>4. AskInv(taken(m))
    BY <2>1, <2>3 DEF AskInv, QueryType
  <2>5. ASSUME ~ takes(m) PROVE AskInv(refusal(m))
    <3>1. Coherent(conf) /\ dial[a.at] = PeerChannel(conf, CertFile) => m \in departed
      BY <2>1, <2>5, NodesConnect DEF AskInv, NodeInv, Types
    <3> QED BY <2>1, <2>3, <3>1 DEF AskInv, QueryType
  <2> HIDE DEF a, takes, taken, refusal
  <2> QED BY <1>2, <2>2, <2>4, <2>5, Zenon
<1>5. CASE PeerReturns(q)
  <2> DEFINE a == query[q]
  <2>1. a.step = "ask" /\ AskInv(a) /\ a \in QueryType
    BY <1>5, AskTypes DEF PeerReturns
  <2>2. PICK m \in a.running :
          query' = [query EXCEPT ![q] = [a EXCEPT !.running = a.running \ {m}]]
    BY <1>5, Zenon DEF PeerReturns
  <2>3. AskInv([a EXCEPT !.running = a.running \ {m}])
    BY <2>1 DEF AskInv, QueryType
  <2> QED BY <1>2, <2>2, <2>3, Zenon
<1>6. CASE Combine(q)
  <2>1. AskInv(Free)
    BY DEF AskInv, Free
  <2> QED BY <1>2, <1>6, <2>1, Zenon DEF Combine
<1> QED BY <1>3, <1>4, <1>5, <1>6

-----------------------------------------------------------------------------

\* NodeInv is an invariant.
LEMMA NodeInvariance == ServerSpec => []NodeInv
<1>1. NodeInv /\ [ServerNext]_serverVars => NodeInv'
  <2> SUFFICES ASSUME NodeInv, [ServerNext]_serverVars PROVE NodeInv'
    OBVIOUS
  <2>1. CASE UNCHANGED serverVars
    BY <2>1 DEF serverVars, NodeInv, Types, LifeInv, AskInv
  <2>2. CASE ServerNext
    BY <2>2, NodeSteps, QuerySteps DEF ServerNext
  <2> QED BY <2>1, <2>2
<1> QED BY <1>1, InitNodes, PTL DEF ServerSpec

\* A node that etcd lists under a lease that is kept serves its shard: Start joins
\* after it listens, Shutdown leaves before it stops listening, for any number of nodes.
THEOREM ListedNodesServe == ServerSpec => []RegisteredServes
<1>1. NodeInv => RegisteredServes
  BY DEF NodeInv, LifeInv, RegisteredServes
<1> QED BY <1>1, NodeInvariance, PTL

\* In a coherent configuration a node whose certificate files could be read is refused
\* only by peers that have stopped or crashed, however old its view: for any number of
\* nodes and calls and every set of configurations.
THEOREM OnlyDepartedRefuse == ServerSpec => []RefusedOnlyByDeparted
<1>1. NodeInv => RefusedOnlyByDeparted
  BY DEF NodeInv, AskInv, RefusedOnlyByDeparted
<1> QED BY <1>1, NodeInvariance, PTL
=============================================================================
