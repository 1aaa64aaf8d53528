-------------------------- MODULE MCClusterManager --------------------------
(* Instances of ClusterManager for TLC.                                    *)
EXTENDS ClusterManager

\* Everything but the cluster epoch, which is written and never read.
WithoutEpoch == <<live, member, leader, shardMap, up, lease, isLeader, ground, published,
                  pc, seen, advancing, faults>>
=============================================================================
