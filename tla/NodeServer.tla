----------------------------- MODULE NodeServer -----------------------------
(***************************************************************************)
(* The life of a node (server/node_server.cpp, cli run_command.cpp): Start *)
(* opens the stores, starts the client listener, then the node-to-node     *)
(* listener, then joins the cluster; a signal makes the main loop leave    *)
(* the cluster and stop the listeners.  Other nodes and clients see every  *)
(* point in between: a listener serves as soon as it is up.                *)
(*                                                                         *)
(* All nodes run one configuration that Validate (config/loader.cpp)       *)
(* accepts.  A certificate is known by the authority that signs it.  A     *)
(* certificate or key file may be unreadable whenever it is read: a        *)
(* listener then does not start (StartFails), a dialler does without it.   *)
(***************************************************************************)
EXTENDS Integers, FiniteSets

CONSTANTS
  Server,         \* the nodes, each with its NodeServer
  Query,          \* calls that clients have open at a time
  Configuration   \* [enabled, separate, serverTls, clusterTls, caCert, mtls, allowInsecure, signer]

\* "signer" says who signs server.tls_cert: auth.ca_cert or one of the system's
\* authorities.  cluster.ca_cert signs cluster.tls_cert.
ASSUME ConfigurationAssumption ==
  Configuration \subseteq
    [enabled: BOOLEAN, separate: BOOLEAN, serverTls: BOOLEAN, clusterTls: BOOLEAN,
     caCert: BOOLEAN, mtls: BOOLEAN, allowInsecure: BOOLEAN, signer: {"auth", "system"}]

VARIABLES
  conf,       \* the configuration
  pc,         \* where the process of each node is
  dial,       \* peer_creds_: what it dials its peers with
  up,         \* server_ accepts calls
  shardUp,    \* the Internal service accepts calls
  cluster,    \* cluster_ is set
  member,     \* etcd lists the node
  unrevoked,  \* ghost: its lease was left to expire
  stop,       \* the stop flag
  query,      \* the calls
  listed,     \* ghost: nodes that etcd has listed
  departed    \* ghost: nodes that have stopped or crashed

serverVars == <<conf, pc, dial, up, shardUp, cluster, member, unrevoked, stop, query, listed, departed>>

-----------------------------------------------------------------------------
(* Configuration and credentials.                                          *)

\* Validate, as far as it is about the cluster and certificates.
Validate(c) ==
  /\ c.enabled => c.clusterTls \/ c.serverTls \/ c.allowInsecure
  /\ c.mtls => c.serverTls /\ c.caCert

Plain == [tls |-> FALSE, cert |-> "none", trusts |-> "none"]

\* MakeServerCredentials: "trusts" is the authority of the client certificates
\* it requires.
ServerCredentials(c) ==
  IF c.serverTls
    THEN [tls |-> TRUE, cert |-> c.signer, trusts |-> IF c.mtls THEN "auth" ELSE "none"]
    ELSE Plain

\* MakeClusterServerCredentials.
ClusterServerCredentials(c) ==
  IF c.clusterTls THEN [tls |-> TRUE, cert |-> "cluster", trusts |-> "cluster"]
  ELSE ServerCredentials(c)

ShardListener(c) == IF c.separate THEN ClusterServerCredentials(c) ELSE ServerCredentials(c)

\* What MakePeerChannelCredentials reads: two certificates with their keys, and
\* two authorities.
CertFile == {"cluster.tls_cert", "cluster.ca_cert", "server.tls_cert", "auth.ca_cert"}

\* Mutant of PeerChannel: the cluster certificates are not used to dial.
PeerChannelServerOnly(c, readable) ==
  IF c.serverTls
    THEN [tls |-> TRUE, cert |-> c.signer, trusts |-> IF c.caCert THEN "auth" ELSE "system"]
    ELSE Plain

\* MakePeerChannelCredentials.  Without a readable authority gRPC trusts the
\* system's; without a readable certificate the node shows none.
PeerChannel(c, readable) ==
  IF c.clusterTls
    THEN [tls |-> TRUE,
          cert |-> IF "cluster.tls_cert" \in readable THEN "cluster" ELSE "none",
          trusts |-> IF "cluster.ca_cert" \in readable THEN "cluster" ELSE "system"]
  ELSE IF c.serverTls
    THEN [tls |-> TRUE,
          cert |-> IF "server.tls_cert" \in readable THEN c.signer ELSE "none",
          trusts |-> IF c.caCert /\ "auth.ca_cert" \in readable THEN "auth" ELSE "system"]
  ELSE Plain

\* gRPC: both ends speak TLS or neither does, and each accepts the other's
\* certificate; ShardService::AuthorizePeer then finds the one it requires.
Connects(client, server) ==
  /\ client.tls = server.tls
  /\ client.tls => client.trusts = server.cert
  /\ server.trusts # "none" => server.trusts = client.cert

-----------------------------------------------------------------------------

Free == [step |-> "free"]
Serving == {"cluster_listen", "join", "signals", "run", "drain"}

ServerInit ==
  /\ conf \in {c \in Configuration : Validate(c)}
  /\ pc = [n \in Server |-> "down"] /\ dial = [n \in Server |-> Plain]
  /\ up = [n \in Server |-> FALSE] /\ shardUp = [n \in Server |-> FALSE]
  /\ cluster = [n \in Server |-> FALSE] /\ member = [n \in Server |-> FALSE]
  /\ unrevoked = [n \in Server |-> FALSE] /\ stop = [n \in Server |-> FALSE]
  /\ query = [q \in Query |-> Free]
  /\ listed = {} /\ departed = {}

\* The process ends: its listeners close, the calls it answers for clients and for
\* other nodes are cut.
Die(n) ==
  /\ pc' = [pc EXCEPT ![n] = "down"]
  /\ up' = [up EXCEPT ![n] = FALSE] /\ shardUp' = [shardUp EXCEPT ![n] = FALSE]
  /\ cluster' = [cluster EXCEPT ![n] = FALSE] /\ stop' = [stop EXCEPT ![n] = FALSE]
  /\ dial' = [dial EXCEPT ![n] = Plain]
  /\ query' = [q \in Query |-> IF query[q].step # "ask" THEN query[q]
                               ELSE IF query[q].at = n THEN Free
                               ELSE IF n \in query[q].running
                                 THEN [query[q] EXCEPT !.running = @ \ {n}, !.refused = @ \cup {n}]
                               ELSE query[q]]
  /\ departed' = departed \cup {n}
  /\ UNCHANGED listed

\* The process starts.
Boot(n) ==
  /\ pc[n] = "down"
  /\ pc' = [pc EXCEPT ![n] = "open"]
  /\ UNCHANGED <<conf, dial, up, shardUp, cluster, member, unrevoked, stop, query, listed, departed>>

\* Start, up to the listeners: the credentials to dial with come from the files that
\* can be read now.
OpenStores(n) ==
  /\ pc[n] = "open"
  /\ pc' = [pc EXCEPT ![n] = "listen"]
  /\ \E readable \in SUBSET CertFile : dial' = [dial EXCEPT ![n] = PeerChannel(conf, readable)]
  /\ UNCHANGED <<conf, up, shardUp, cluster, member, unrevoked, stop, query, listed, departed>>

\* Start: the client listener, with the Internal service unless it has its own.
Listen(n) ==
  /\ pc[n] = "listen"
  /\ pc' = [pc EXCEPT ![n] = IF conf.separate THEN "cluster_listen" ELSE "join"]
  /\ up' = [up EXCEPT ![n] = TRUE]
  /\ shardUp' = [shardUp EXCEPT ![n] = ~conf.separate]
  /\ UNCHANGED <<conf, dial, cluster, member, unrevoked, stop, query, listed, departed>>

\* Start: the node-to-node listener.
ListenCluster(n) ==
  /\ pc[n] = "cluster_listen"
  /\ pc' = [pc EXCEPT ![n] = "join"]
  /\ shardUp' = [shardUp EXCEPT ![n] = TRUE]
  /\ UNCHANGED <<conf, dial, up, cluster, member, unrevoked, stop, query, listed, departed>>

\* Start: the etcd client, the cluster manager and the publish hook.
JoinCluster(n) ==
  /\ pc[n] = "join"
  /\ pc' = [pc EXCEPT ![n] = "signals"]
  /\ cluster' = [cluster EXCEPT ![n] = conf.enabled]
  /\ UNCHANGED <<conf, dial, up, shardUp, member, unrevoked, stop, query, listed, departed>>

\* RunCommand: Start has returned; the handlers are installed.
InstallHandlers(n) ==
  /\ pc[n] = "signals"
  /\ pc' = [pc EXCEPT ![n] = "run"]
  /\ UNCHANGED <<conf, dial, up, shardUp, cluster, member, unrevoked, stop, query, listed, departed>>

\* A step of Start fails: RunCommand returns and the node is destroyed.
StartFails(n) ==
  /\ pc[n] \in {"open", "listen", "cluster_listen", "join"}
  /\ Die(n)
  /\ UNCHANGED <<conf, member, unrevoked>>

\* The cluster manager's thread puts the node's key under its lease.
Register(n) ==
  /\ cluster[n] /\ pc[n] \in {"signals", "run"} /\ (~member[n] \/ unrevoked[n])
  /\ member' = [member EXCEPT ![n] = TRUE]
  /\ unrevoked' = [unrevoked EXCEPT ![n] = FALSE]
  /\ listed' = listed \cup {n}
  /\ UNCHANGED <<conf, pc, dial, up, shardUp, cluster, stop, query, departed>>

\* etcd: a lease that is not renewed in time runs out.
Expire(n) ==
  /\ member[n]
  /\ member' = [member EXCEPT ![n] = FALSE]
  /\ unrevoked' = [unrevoked EXCEPT ![n] = FALSE]
  /\ UNCHANGED <<conf, pc, dial, up, shardUp, cluster, stop, query, listed, departed>>

\* OnSignal, for SIGINT and SIGTERM.
Signal(n) ==
  /\ pc[n] = "run"
  /\ stop' = [stop EXCEPT ![n] = TRUE]
  /\ UNCHANGED <<conf, pc, dial, up, shardUp, cluster, member, unrevoked, query, listed, departed>>

\* The process is killed, also by a signal that comes before its handler.
Crash(n) ==
  /\ pc[n] # "down"
  /\ Die(n)
  /\ unrevoked' = [unrevoked EXCEPT ![n] = member[n]]
  /\ UNCHANGED <<conf, member>>

\* Mutant of StopCluster: the cluster is not left.
StopClusterStays(n) ==
  /\ pc[n] = "run" /\ stop[n]
  /\ pc' = [pc EXCEPT ![n] = "drain"]
  /\ departed' = departed \cup {n}
  /\ UNCHANGED <<conf, dial, up, shardUp, cluster, member, unrevoked, stop, query, listed>>

\* Shutdown: ClusterManager::Stop joins the thread and revokes the lease, if etcd
\* can be reached.  The key of an earlier lease stays.
StopCluster(n) ==
  /\ pc[n] = "run" /\ stop[n]
  /\ pc' = [pc EXCEPT ![n] = "drain"]
  /\ \/ ~unrevoked[n] /\ member' = [member EXCEPT ![n] = FALSE] /\ UNCHANGED unrevoked
     \/ member[n] /\ unrevoked' = [unrevoked EXCEPT ![n] = TRUE] /\ UNCHANGED member
  /\ departed' = departed \cup {n}
  /\ UNCHANGED <<conf, dial, up, shardUp, cluster, stop, query, listed>>

\* A call that the listeners of n have taken and not finished.
Open(q, n) == query[q].step = "ask" /\ (query[q].at = n \/ n \in query[q].running)

\* Mutant of StopServer: calls are accepted while the open ones finish.
StopServerLate(n) ==
  /\ pc[n] = "drain" /\ up[n]
  /\ \A q \in Query : ~Open(q, n)
  /\ up' = [up EXCEPT ![n] = FALSE]
  /\ shardUp' = [shardUp EXCEPT ![n] = conf.separate]
  /\ UNCHANGED <<conf, pc, dial, cluster, member, unrevoked, stop, query, listed, departed>>

\* Shutdown: server_->Shutdown() accepts no more calls.
StopServer(n) ==
  /\ pc[n] = "drain" /\ up[n]
  /\ up' = [up EXCEPT ![n] = FALSE]
  /\ shardUp' = [shardUp EXCEPT ![n] = conf.separate]
  /\ UNCHANGED <<conf, pc, dial, cluster, member, unrevoked, stop, query, listed, departed>>

\* Shutdown: the clients' calls are done, and the node-to-node server, which has its
\* own, stops too.
StopClusterServer(n) ==
  /\ pc[n] = "drain" /\ ~up[n] /\ shardUp[n]
  /\ \A q \in Query : ~(query[q].step = "ask" /\ query[q].at = n)
  /\ shardUp' = [shardUp EXCEPT ![n] = FALSE]
  /\ UNCHANGED <<conf, pc, dial, up, cluster, member, unrevoked, stop, query, listed, departed>>

\* Shutdown returns when no call is open, and the process ends.
Exit(n) ==
  /\ pc[n] = "drain" /\ ~up[n] /\ ~shardUp[n]
  /\ \A q \in Query : ~Open(q, n)
  /\ Die(n)
  /\ UNCHANGED <<conf, member, unrevoked>>

-----------------------------------------------------------------------------
(* Calls.  Nothing bounds how long one takes: neither the calls of peers   *)
(* nor Shutdown have a deadline, and a client keeps a stream open as long  *)
(* as it likes.                                                            *)

\* The peer resolver: the cached view when clustered, else the static list, empty here.
\* The view (ClusterQuery models it) may be empty or old: any nodes etcd has listed.
Peers(n) == IF cluster[n] THEN SUBSET (listed \ {n}) ELSE {{}}

\* A call arrives at a listener and takes its peers.
Ask(q, n) ==
  /\ query[q] = Free /\ up[n]
  /\ \E peers \in Peers(n) :
       query' = [query EXCEPT ![q] = [step |-> "ask", at |-> n, left |-> peers,
                                      running |-> {}, refused |-> {}]]
  /\ UNCHANGED <<conf, pc, dial, up, shardUp, cluster, member, unrevoked, stop, listed, departed>>

\* One peer is called: it takes the call, or the connection is refused.
EvaluatePeer(q) ==
  /\ query[q].step = "ask"
  /\ \E m \in query[q].left :
       query' = IF shardUp[m] /\ Connects(dial[query[q].at], ShardListener(conf))
                  THEN [query EXCEPT ![q].left = @ \ {m}, ![q].running = @ \cup {m}]
                  ELSE [query EXCEPT ![q].left = @ \ {m}, ![q].refused = @ \cup {m}]
  /\ UNCHANGED <<conf, pc, dial, up, shardUp, cluster, member, unrevoked, stop, listed, departed>>

\* The call of a peer ends: with its partial, with an error of its engine (another
\* epoch, unknown keys) or because the connection broke.  ClusterQuery follows which.
PeerReturns(q) ==
  /\ query[q].step = "ask"
  /\ \E m \in query[q].running : query' = [query EXCEPT ![q].running = @ \ {m}]
  /\ UNCHANGED <<conf, pc, dial, up, shardUp, cluster, member, unrevoked, stop, listed, departed>>

\* The threads of all peers are joined: the client gets the answer, or the first error.
Combine(q) ==
  /\ query[q].step = "ask" /\ query[q].left = {} /\ query[q].running = {}
  /\ query' = [query EXCEPT ![q] = Free]
  /\ UNCHANGED <<conf, pc, dial, up, shardUp, cluster, member, unrevoked, stop, listed, departed>>

StartStep(n) ==
  OpenStores(n) \/ Listen(n) \/ ListenCluster(n) \/ JoinCluster(n) \/ InstallHandlers(n)
ShutdownStep(n) == StopCluster(n) \/ StopServer(n) \/ StopClusterServer(n) \/ Exit(n)

ServerNext ==
  \/ \E n \in Server : \/ Boot(n) \/ StartStep(n) \/ StartFails(n) \/ Register(n) \/ Expire(n)
                     \/ Signal(n) \/ Crash(n) \/ ShutdownStep(n)
  \/ \E q \in Query : \/ (\E n \in Server : Ask(q, n))
                     \/ EvaluatePeer(q) \/ PeerReturns(q) \/ Combine(q)

ServerSpec == ServerInit /\ [][ServerNext]_serverVars

\* The main thread runs on, and the etcd calls it waits for return.  Calls need not end.
FairSpec ==
  /\ ServerSpec
  /\ \A n \in Server : /\ WF_serverVars(StopCluster(n)) /\ WF_serverVars(StopServer(n))
                       /\ WF_serverVars(StopClusterServer(n)) /\ WF_serverVars(Exit(n))

-----------------------------------------------------------------------------
(* Properties.                                                             *)

\* The type invariant: only a process that is running holds a listener.
ServerTypeOK ==
  /\ \A n \in Server : (up[n] \/ shardUp[n] \/ cluster[n]) => pc[n] \in Serving
  /\ \A n \in Server : unrevoked[n] => member[n]
  /\ \A q \in Query : query[q].step \in {"free", "ask"}

\* A node that etcd lists serves its shard, unless its lease was left to run out:
\* Start joins after it listens, and Shutdown leaves "first so the lease is revoked
\* and peers react promptly" (node_server.cpp).
RegisteredServes == \A n \in Server : member[n] /\ ~unrevoked[n] => shardUp[n]

\* The configurations in which dialler and listener show each other what they trust:
\* cluster certificates with the node-to-node listener that uses them, or a server
\* certificate that auth.ca_cert (the system's authorities without one) signs.  Validate
\* accepts others.
Coherent(c) ==
  IF c.clusterTls THEN c.separate ELSE c.serverTls => (c.caCert <=> c.signer = "auth")

\* In a coherent configuration a node is refused by a peer only if the peer has
\* stopped or crashed, or if a certificate file could not be read when the caller
\* started: no view, however old, sends it to a node that has yet to listen, and Shutdown
\* closes no listener before the node has left.  Queries fail for other reasons too.
RefusedOnlyByDeparted ==
  \A q \in Query :
    /\ query[q].step = "ask" /\ Coherent(conf)
    /\ dial[query[q].at] = PeerChannel(conf, CertFile)
    => query[q].refused \subseteq departed

\* After a stop signal the process ends if each call that it has taken ends some time,
\* whatever calls arrive meanwhile.
StopEnds ==
  \A n \in Server :
    (\A q \in Query : []<>~Open(q, n)) => (stop[n] ~> pc[n] = "down")

\* "graceful shutdown that drains in-flight requests" (run_command.h:9): a stop signal
\* ends the process.
StopAlwaysEnds == \A n \in Server : stop[n] ~> pc[n] = "down"

\* "Any node can be the target; each coordinates the query across all shards"
\* (README.md:395): a query asks all the nodes that etcd lists when it comes in.
AnswersAllShards ==
  [][\A q \in Query, n \in Server :
       Ask(q, n) => {m \in Server : member[m]} \subseteq query'[q].left \cup {n}]_serverVars
=============================================================================
