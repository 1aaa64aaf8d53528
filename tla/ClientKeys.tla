----------------------------- MODULE ClientKeys -----------------------------
(***************************************************************************)
(* The evaluation keys of one client id in a cluster: registration at a    *)
(* coordinator (server/query_service.cpp, Register), their distribution to *)
(* the other nodes (server/shard_service.cpp, RegisterKeys), the keyring   *)
(* files (admin/file_keyring_store.cpp), and the cache of evaluation       *)
(* contexts that queries fill (server/engine.cpp, EvalContextFor).         *)
(*                                                                         *)
(* Every RPC runs on a handler thread of a node.  A handler receives a     *)
(* stream of chunks; a stream that breaks ends like one that is complete.  *)
(* All maps are keyed by the client id, so one id stands for all.          *)
(***************************************************************************)
EXTENDS Integers, FiniteSets

CONSTANTS
  Node,       \* the nodes of the cluster
  Handler,    \* RPC handler threads
  Keyset,     \* keysets a client may generate
  Principal,  \* authenticated callers
  Backend,    \* evaluation backends
  MaxCalls,   \* bound: calls of clients that run at the same time
  Faults,     \* which faults happen: "stream", "put", "crash"
  NoKeys,     \* nothing registered, nothing cached
  NoOne       \* no principal, no node, no handler

\* An upload is the public key, the relinearization keys and the Galois keys,
\* of which the first count arrived.  Galois keys cut in the middle do not load,
\* as missing relinearization keys do not: count = 1 stands for both.
NoGalois == 2
Full == 3
Material == [keys: Keyset, count: 1 .. Full]

ASSUME ConstantsAssumption ==
  /\ MaxCalls \in Nat
  /\ NoKeys \notin Material
  /\ NoOne \notin Principal \cup Node \cup Handler

VARIABLES
  file,     \* per node: the key file of the client
  cached,   \* per node: FileKeyringStore's cache_
  eval,     \* per node and backend: Engine's eval_cache_
  owner,    \* per node: client_owner_
  pc,       \* per handler: its next step
  op,       \* per handler: "register", "receive" (RegisterKeys) or "query"
  node,     \* per handler: where it runs
  who,      \* per handler: the caller of Register
  keys,     \* per handler: the keyset that is uploaded
  total,    \* per handler: how many chunks its caller has to send
  count,    \* per handler: how many chunks arrived
  peers,    \* per handler: the nodes it has still to send the keys to
  reach,    \* history: per handler, its node and the peers it has to send the keys to
  callee,   \* per handler: the handler that serves its call of RegisterKeys
  via,      \* per handler: the backend of a query
  read,     \* per handler: the material a query read
  agreed,   \* history: the last registration, if it was alone and reported: its keyset
            \* and the nodes it had to reach
  overlap   \* history: the handlers that ran while another call started

stores == <<file, cached, eval, owner>>
locals == <<op, node, who, keys, total, count, peers, reach, callee, via, read>>
history == <<agreed, overlap>>
vars == <<stores, pc, locals, history>>

-----------------------------------------------------------------------------

Init ==
  /\ file = [n \in Node |-> NoKeys]
  /\ cached = [n \in Node |-> NoKeys]
  /\ eval = [n \in Node |-> [b \in Backend |-> NoKeys]]
  /\ owner = [n \in Node |-> NoOne]
  /\ pc = [h \in Handler |-> "idle"]
  /\ op = [h \in Handler |-> "none"]
  /\ node = [h \in Handler |-> NoOne]
  /\ who = [h \in Handler |-> NoOne]
  /\ keys = [h \in Handler |-> NoKeys]
  /\ total = [h \in Handler |-> 0]
  /\ count = [h \in Handler |-> 0]
  /\ peers = [h \in Handler |-> {}]
  /\ reach = [h \in Handler |-> {}]
  /\ callee = [h \in Handler |-> NoOne]
  /\ via = [h \in Handler |-> NoOne]
  /\ read = [h \in Handler |-> NoKeys]
  /\ agreed = NoKeys
  /\ overlap = {}

Goto(h, label) == pc' = [pc EXCEPT ![h] = label]

Busy == {h \in Handler : pc[h] # "idle"}

\* A client's call starts on a free handler.
Begin(h) ==
  /\ pc[h] = "idle"
  /\ Cardinality({g \in Busy : op[g] \in {"register", "query"}}) < MaxCalls
  /\ overlap' = IF Busy = {} THEN {} ELSE overlap \cup Busy \cup {h}

\* A client opens a Register stream at a node.
StartRegister(h) ==
  \E n \in Node, k \in Keyset, p \in Principal :
    /\ Begin(h)
    /\ op' = [op EXCEPT ![h] = "register"]
    /\ node' = [node EXCEPT ![h] = n]
    /\ who' = [who EXCEPT ![h] = p]
    /\ keys' = [keys EXCEPT ![h] = k]
    /\ total' = [total EXCEPT ![h] = Full]
    /\ Goto(h, "receive")
    /\ agreed' = NoKeys
    /\ UNCHANGED <<stores, count, peers, reach, callee, via, read>>

\* Nobody waits for the reply of handler g.
Orphan(g) == op[g] = "receive" /\ \A h \in Handler : callee[h] # g

\* The chunks arrive until Read returns false: all of them, or fewer when the
\* sender is gone.  Nothing but locals changes meanwhile, so it is one step.
Receive(h) ==
  /\ pc[h] = "receive"
  /\ \E n \in 0 .. total[h] :
       /\ \/ n = total[h]
          \/ Orphan(h)
          \/ op[h] = "register" /\ "stream" \in Faults
       /\ count' = [count EXCEPT ![h] = n]
       /\ Goto(h, IF n = 0 THEN "error"
                  ELSE IF op[h] = "register" THEN "claim" ELSE "evict")
  /\ UNCHANGED <<stores, op, node, who, keys, total, peers, reach, callee, via, read, history>>

\* CheckClientOwnership with claim: the first principal owns the client id.
Claim(h) ==
  /\ pc[h] = "claim"
  /\ IF owner[node[h]] \in {NoOne, who[h]}
       THEN /\ owner' = [owner EXCEPT ![node[h]] = who[h]]
            /\ Goto(h, "evict")
       ELSE /\ Goto(h, "error")
            /\ UNCHANGED owner
  /\ UNCHANGED <<file, cached, eval, locals, history>>

-----------------------------------------------------------------------------
(* Engine::RegisterClient.                                                 *)

\* LoadKeyMaterial: only the Galois keys may be missing.
Loads(n) == n \in {NoGalois, Full}

\* Mutant of Evict: the cached contexts stay.
EvictForgotten(h) ==
  /\ pc[h] = "evict"
  /\ Goto(h, IF Loads(count[h]) THEN "put" ELSE "error")
  /\ UNCHANGED <<stores, locals, history>>

\* The upload is validated; then the client's cached contexts go, for every
\* backend.
Evict(h) ==
  /\ pc[h] = "evict"
  /\ IF Loads(count[h])
       THEN /\ eval' = [eval EXCEPT ![node[h]] = [b \in Backend |-> NoKeys]]
            /\ Goto(h, "put")
       ELSE /\ Goto(h, "error")
            /\ UNCHANGED eval
  /\ UNCHANGED <<file, cached, owner, locals, history>>

Uploaded(h) == [keys |-> keys[h], count |-> count[h]]

\* peers_(), which Register calls next: the cached view of the members
\* (NodeServer::ClusterViewCached, which ClusterQuery models).  It is any set of other
\* nodes: empty before the node has joined and after a read of etcd that failed, and
\* it may be a second old.
Views(h) == IF op[h] = "register" THEN SUBSET (Node \ {node[h]}) ELSE {{}}

\* The keys are stored, and have to reach the nodes of the view.
Stored(h, view) ==
  /\ peers' = [peers EXCEPT ![h] = view]
  /\ reach' = [reach EXCEPT ![h] = view \cup {node[h]}]
  /\ Goto(h, IF op[h] = "register" THEN "call" ELSE "ok")

\* Mutant of Put: the cache is filled before the file is in place.
PutCachesFirst(h) ==
  /\ pc[h] = "put"
  /\ cached' = [cached EXCEPT ![node[h]] = Uploaded(h)]
  /\ \/ /\ file' = [file EXCEPT ![node[h]] = Uploaded(h)]
        /\ \E view \in Views(h) : Stored(h, view)
     \/ /\ "put" \in Faults
        /\ Goto(h, "error")
        /\ UNCHANGED <<file, peers, reach>>
  /\ UNCHANGED <<eval, owner, op, node, who, keys, total, count, callee, via, read, history>>

\* FileKeyringStore::Put, under its mutex: write the temporary file, rename it,
\* fill the cache.
Put(h) ==
  /\ pc[h] = "put"
  /\ \/ /\ file' = [file EXCEPT ![node[h]] = Uploaded(h)]
        /\ cached' = [cached EXCEPT ![node[h]] = Uploaded(h)]
        /\ \E view \in Views(h) : Stored(h, view)
     \/ /\ "put" \in Faults
        /\ Goto(h, "error")
        /\ UNCHANGED <<file, cached, peers, reach>>
  /\ UNCHANGED <<eval, owner, op, node, who, keys, total, count, callee, via, read, history>>

-----------------------------------------------------------------------------
(* Distribution: one peer after the other.                                 *)

\* Handler g starts to receive from h the chunks that h received.
Connect(h, g, p) ==
  /\ pc' = [pc EXCEPT ![h] = "wait", ![g] = "receive"]
  /\ callee' = [callee EXCEPT ![h] = g]
  /\ op' = [op EXCEPT ![g] = "receive"]
  /\ node' = [node EXCEPT ![g] = p]
  /\ keys' = [keys EXCEPT ![g] = keys[h]]
  /\ total' = [total EXCEPT ![g] = count[h]]

\* RegisterKeys of the next peer is called; handler g serves the call.
Call(h, g) ==
  /\ pc[h] = "call" /\ pc[g] = "idle" /\ g # h
  /\ \E p \in peers[h] :
       /\ peers' = [peers EXCEPT ![h] = @ \ {p}]
       /\ Connect(h, g, p)
  /\ UNCHANGED <<stores, who, count, reach, via, read, history>>

AllCalled(h) ==
  /\ pc[h] = "call"
  /\ peers[h] = {}
  /\ Goto(h, "ok")
  /\ UNCHANGED <<stores, locals, history>>

\* The peer cannot be reached, or the call breaks: Register gives up.
CallFails(h) ==
  /\ "stream" \in Faults
  /\ \/ pc[h] = "call" /\ peers[h] # {}
     \/ pc[h] = "wait"
  /\ Goto(h, "error")
  /\ callee' = [callee EXCEPT ![h] = NoOne]
  /\ UNCHANGED <<stores, op, node, who, keys, total, count, peers, reach, via, read, history>>

-----------------------------------------------------------------------------
(* Engine::EvalContextFor, for a query on a node.                          *)

StartQuery(h) ==
  \E n \in Node, b \in Backend :
    /\ Begin(h)
    /\ op' = [op EXCEPT ![h] = "query"]
    /\ node' = [node EXCEPT ![h] = n]
    /\ via' = [via EXCEPT ![h] = b]
    /\ Goto(h, "lookup")
    /\ UNCHANGED <<stores, who, keys, total, count, peers, reach, callee, read, agreed>>

\* A cached context is used as it is.
Lookup(h) ==
  /\ pc[h] = "lookup"
  /\ Goto(h, IF eval[node[h]][via[h]] # NoKeys THEN "ok" ELSE "get")
  /\ UNCHANGED <<stores, locals, history>>

\* FileKeyringStore::Get, under its mutex: the cache, or else the file.
Get(h) ==
  /\ pc[h] = "get"
  /\ read' = [read EXCEPT ![h] = IF cached[node[h]] # NoKeys THEN cached[node[h]] ELSE file[node[h]]]
  /\ cached' = [cached EXCEPT ![node[h]] = read'[h]]
  /\ Goto(h, IF read'[h] = NoKeys THEN "error" ELSE "insert")
  /\ UNCHANGED <<file, eval, owner, op, node, who, keys, total, count, peers, reach, callee, via, history>>

\* load_keys: the reference backend insists on Galois keys.
LoadKeys(material) == material.count = Full

\* The context is built, without a lock, and put in the cache.
Insert(h) ==
  /\ pc[h] = "insert"
  /\ IF LoadKeys(read[h])
       THEN /\ eval' = [eval EXCEPT ![node[h]][via[h]] = read[h]]
            /\ Goto(h, "ok")
       ELSE /\ Goto(h, "error")
            /\ UNCHANGED eval
  /\ UNCHANGED <<file, cached, owner, locals, history>>

-----------------------------------------------------------------------------
(* Returning and dying.                                                    *)

\* The handlers in S are free again; the caller of one of them learns `label`.
Leave(S, label) ==
  /\ pc' = [h \in Handler |-> IF h \in S THEN "idle"
                              ELSE IF callee[h] \in S THEN label ELSE pc[h]]
  /\ op' = [h \in Handler |-> IF h \in S THEN "none" ELSE op[h]]
  /\ node' = [h \in Handler |-> IF h \in S THEN NoOne ELSE node[h]]
  /\ who' = [h \in Handler |-> IF h \in S THEN NoOne ELSE who[h]]
  /\ keys' = [h \in Handler |-> IF h \in S THEN NoKeys ELSE keys[h]]
  /\ total' = [h \in Handler |-> IF h \in S THEN 0 ELSE total[h]]
  /\ count' = [h \in Handler |-> IF h \in S THEN 0 ELSE count[h]]
  /\ peers' = [h \in Handler |-> IF h \in S THEN {} ELSE peers[h]]
  /\ reach' = [h \in Handler |-> IF h \in S THEN {} ELSE reach[h]]
  /\ callee' = [h \in Handler |-> IF h \in S \/ callee[h] \in S THEN NoOne ELSE callee[h]]
  /\ via' = [h \in Handler |-> IF h \in S THEN NoOne ELSE via[h]]
  /\ read' = [h \in Handler |-> IF h \in S THEN NoKeys ELSE read[h]]
  /\ overlap' = overlap \ S

\* A handler returns; a call of RegisterKeys that succeeded lets Register go on.
Return(h) ==
  /\ pc[h] \in {"ok", "error"}
  /\ Leave({h}, IF pc[h] = "ok" THEN "call" ELSE "error")
  /\ agreed' = IF op[h] = "register" /\ pc[h] = "ok" /\ count[h] = Full /\ h \notin overlap
                 THEN [keys |-> keys[h], nodes |-> reach[h]] ELSE agreed
  /\ UNCHANGED stores

\* A node's process dies and starts again: the key file is all that is left.
Crash(n) ==
  /\ "crash" \in Faults
  /\ Leave({h \in Handler : node[h] = n}, "error")
  /\ cached' = [cached EXCEPT ![n] = NoKeys]
  /\ eval' = [eval EXCEPT ![n] = [b \in Backend |-> NoKeys]]
  /\ owner' = [owner EXCEPT ![n] = NoOne]
  /\ UNCHANGED <<file, agreed>>

Step(h) ==
  \/ Receive(h) \/ Claim(h) \/ Evict(h) \/ Put(h)
  \/ (\E g \in Handler : Call(h, g)) \/ AllCalled(h)
  \/ Lookup(h) \/ Get(h) \/ Insert(h) \/ Return(h)

Next ==
  \/ \E h \in Handler : StartRegister(h) \/ StartQuery(h) \/ Step(h) \/ CallFails(h)
  \/ \E n \in Node : Crash(n)

Spec == Init /\ [][Next]_vars

-----------------------------------------------------------------------------
(* Properties.                                                             *)

Label ==
  {"idle", "receive", "claim", "evict", "put", "call", "wait",
   "lookup", "get", "insert", "ok", "error"}

\* The type invariant.
TypeOK ==
  /\ file \in [Node -> Material \cup {NoKeys}]
  /\ cached \in [Node -> Material \cup {NoKeys}]
  /\ eval \in [Node -> [Backend -> Material \cup {NoKeys}]]
  /\ owner \in [Node -> Principal \cup {NoOne}]
  /\ pc \in [Handler -> Label]
  /\ op \in [Handler -> {"none", "register", "receive", "query"}]
  /\ node \in [Handler -> Node \cup {NoOne}]
  /\ who \in [Handler -> Principal \cup {NoOne}]
  /\ keys \in [Handler -> Keyset \cup {NoKeys}]
  /\ total \in [Handler -> 0 .. Full]
  /\ count \in [Handler -> 0 .. Full]
  /\ peers \in [Handler -> SUBSET Node]
  /\ reach \in [Handler -> SUBSET Node]
  /\ callee \in [Handler -> Handler \cup {NoOne}]
  /\ via \in [Handler -> Backend \cup {NoOne}]
  /\ read \in [Handler -> Material \cup {NoKeys}]
  /\ agreed \in [keys: Keyset, nodes: SUBSET Node] \cup {NoKeys}
  /\ overlap \subseteq Busy

Quiet == Busy = {}

\* The read-through cache never differs from the file, however Put and Get of
\* concurrent handlers, failing writes and crashes interleave
\* (admin/file_keyring_store.h: "A read-through cache").
CacheIsFile ==
  \A n \in Node : cached[n] # NoKeys => cached[n] = file[n]

\* "now distributes them to every shard peer so each can evaluate this client's
\* query" (server/query_service.cpp:162-163), as far as the code goes: once a Register
\* of a complete upload that no other call overlapped has returned ok, its node and
\* every peer of the view it read hold that keyset, and none of them has a context of
\* an older one, whatever overlapped, broke off or was left half distributed before.
\* So registering again, alone, repairs what overlapping calls did.  A node that the
\* view does not name gets nothing (ReachesEveryNode).
RegisteredReachesView ==
  Quiet /\ agreed # NoKeys =>
    \A n \in agreed.nodes :
      /\ file[n] = [keys |-> agreed.keys, count |-> Full]
      /\ \A b \in Backend : eval[n][b] \in {NoKeys, file[n]}

\* The same of every node of the cluster: what the comment says, and the code does
\* not do when the view it reads is empty or old.
ReachesEveryNode ==
  Quiet /\ agreed # NoKeys =>
    \A n \in Node : file[n] = [keys |-> agreed.keys, count |-> Full]

\* "RegisterClient evicts a client's cached contexts when its keys change"
\* (server/engine.h:163-164): a context left in the cache is one of the keys the
\* node holds.
ContextsAreFresh ==
  Quiet => \A n \in Node, b \in Backend : eval[n][b] \in {NoKeys, file[n]}

\* "a bad upload is rejected at registration rather than at query time"
\* (server/engine.cpp:107-108): keys that were stored can be loaded by a query.
StoredKeysLoad ==
  \A n \in Node : file[n] # NoKeys => file[n].count = Full

\* "keeping the one-client-id-to-one-keyset rule" (server/query_service.cpp:171):
\* when registrations have been reported, the nodes agree.
OneKeyset ==
  Quiet /\ agreed # NoKeys => \A m, n \in Node : file[m] = file[n]
=============================================================================
