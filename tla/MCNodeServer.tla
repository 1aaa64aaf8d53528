--------------------------- MODULE MCNodeServer ----------------------------
(* Instances of NodeServer for TLC.                                        *)
EXTENDS NodeServer

CONSTANTS n1, n2, q1

Accepted ==
  {c \in [enabled: BOOLEAN, separate: BOOLEAN, serverTls: BOOLEAN, clusterTls: BOOLEAN,
          caCert: BOOLEAN, mtls: BOOLEAN, allowInsecure: BOOLEAN, signer: {"auth", "system"}] :
     Validate(c)}

\* What the behaviour depends on: whether credentials connect and are complete, not
\* which they are.
Quality(c, credentials) ==
  <<Connects(credentials, ShardListener(c)), credentials = PeerChannel(c, CertFile)>>

Class(c) ==
  <<c.enabled, c.separate, Coherent(c),
    {Quality(c, PeerChannel(c, readable)) : readable \in SUBSET CertFile}>>

\* One configuration of each class of those that Validate accepts, and one without a
\* cluster, where nobody dials.
Configurations ==
  LET first(c) == c = CHOOSE d \in Accepted : Class(d) = Class(c)
  IN  {c \in Accepted : first(c) /\ (c.enabled \/ (~c.serverTls /\ ~c.clusterTls))}

UpToCredentials ==
  <<conf, [n \in Server |-> IF pc[n] \in {"down", "open"} THEN <<>> ELSE Quality(conf, dial[n])],
    pc, up, shardUp, cluster, member, unrevoked, stop, query, listed, departed>>

OneConfiguration ==
  {c \in Accepted : c.enabled /\ c.separate /\ c.clusterTls /\ ~c.serverTls /\ ~c.caCert}
=============================================================================
