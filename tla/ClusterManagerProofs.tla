------------------------ MODULE ClusterManagerProofs ------------------------
(***************************************************************************)
(* Why at most one node leads on a leader key that still exists, whatever  *)
(* calls and renewals fail, leases lapse and nodes restart: the key a node *)
(* leads on names that node until its lease is gone.                       *)
(***************************************************************************)
EXTENDS ClusterManager, TLAPS

\* What is known of a node from where it is: a process that is down holds
\* nothing, and a lease is granted to a node that has none.
Local ==
  \A n \in Node :
    /\ ~ up[n] => lease[n] = 0 /\ pc[n] = "idle"
    /\ pc[n] = "grant" => lease[n] = 0 /\ ~ isLeader[n]

\* The leader key goes with its lease, and while the key on which a node leads has
\* not lapsed it names that node.
LeaderKeyHeld ==
  /\ leader # NoLeader => leader.id \in Node /\ leader.lease \in live
  /\ \A n \in Node : Leads(n) => leader = [id |-> n, lease |-> ground[n]]

IInv == TypeOK /\ Local /\ LeaderKeyHeld

\* Lease ids are positive, so 0 is never a live one.
LEMMA LeaseType == 0 \notin Lease /\ Lease \subseteq Nat
BY ConstantsAssumption DEF Lease

\* Nothing is known, held or granted in the beginning.
LEMMA InitIInv == Init => IInv
BY ConstantsAssumption, LeaseType
   DEF Init, IInv, TypeOK, Local, LeaderKeyHeld, NoLeader, Leads, FaultKind

\* A lease that goes takes the keys along that were put with it.
LEMMA DropTypes ==
  ASSUME NEW l \in Lease, TypeOK, Drop(l)
  PROVE  /\ live' \subseteq live
         /\ member' \in [Node -> Lease \cup {0}]
         /\ leader' \in [id: Node \cup {NoOne}, lease: Lease \cup {0}]
         /\ shardMap' = shardMap /\ epoch' = epoch
BY LeaseType DEF TypeOK, Drop, NoLeader

LEMMA DropKeeps ==
  ASSUME NEW l \in Lease, IInv, Drop(l)
  PROVE  /\ live' \subseteq live
         /\ leader' # NoLeader => leader' = leader /\ leader.lease \in live'
BY LeaseType DEF IInv, TypeOK, LeaderKeyHeld, Drop, NoLeader

\* One entry of a Boolean function is set.
LEMMA BooleanSet ==
  ASSUME NEW f \in [Node -> BOOLEAN], NEW n \in Node, NEW b \in BOOLEAN
  PROVE  [f EXCEPT ![n] = b] \in [Node -> BOOLEAN]
OBVIOUS

\* Taking and leaving the leadership.
LEMMA LeadTypes ==
  ASSUME TypeOK, NEW n \in Node, NEW l \in Lease \cup {0}, Lead(n, l) \/ StepDown(n)
  PROVE  /\ isLeader' \in [Node -> BOOLEAN]
         /\ ground' \in [Node -> Lease \cup {0}]
<1>1. isLeader' \in [Node -> BOOLEAN]
  <2>1. isLeader \in [Node -> BOOLEAN]
    BY DEF TypeOK
  <2>2. isLeader' = [isLeader EXCEPT ![n] = TRUE] \/ isLeader' = [isLeader EXCEPT ![n] = FALSE]
    BY Zenon DEF Lead, StepDown
  <2> QED BY <2>1, <2>2, BooleanSet, Zenon
<1>2. ground' \in [Node -> Lease \cup {0}]
  BY DEF TypeOK, Lead, StepDown
<1> QED BY <1>1, <1>2

\* A counted fault.
LEMMA FaultTypes ==
  ASSUME TypeOK, NEW kind \in FaultKind, Fault(kind)
  PROVE  faults' \in [FaultKind -> 0 .. MaxFaults]
BY ConstantsAssumption DEF TypeOK, Fault, FaultKind

\* Every step keeps the types and what is known of each node.
LEMMA LocalStep ==
  ASSUME TypeOK, Local, [Next]_vars
  PROVE  TypeOK' /\ Local'
<1> USE ConstantsAssumption DEF TypeOK, Local, etcd, Goto
<1>r. "rift" \in FaultKind /\ "call" \in FaultKind
  BY DEF FaultKind
<1>1. ASSUME NEW n \in Node, Start(n)
      PROVE  TypeOK' /\ Local'
  <2>1. faults' \in [FaultKind -> 0 .. MaxFaults]
    BY <1>1, <1>r, FaultTypes DEF Start
  <2> QED BY <1>1, <2>1 DEF Start
<1>2. ASSUME NEW n \in Node, Exit(n)
      PROVE  /\ isLeader' \in [Node -> BOOLEAN] /\ ground' \in [Node -> Lease \cup {0}]
             /\ faults' = faults /\ up' \in [Node -> BOOLEAN] /\ lease' \in [Node -> Lease \cup {0}]
             /\ published' \in [Node -> SUBSET Node] /\ seen' \in [Node -> SUBSET Node]
             /\ pc' \in [Node -> {"idle", "grant", "member", "leader", "create", "list", "publish"}]
             /\ advancing' \in [Node -> 0 .. MaxEpoch] /\ Local'
  <2>1. isLeader' \in [Node -> BOOLEAN] /\ ground' \in [Node -> Lease \cup {0}]
    BY <1>2, LeadTypes DEF Exit
  <2> QED BY <1>2, <2>1 DEF Exit, StepDown
<1>3. ASSUME NEW n \in Node, Stop(n) \/ Crash(n)
      PROVE  TypeOK' /\ Local'
  <2>1. Exit(n)
    BY <1>3, Zenon DEF Stop, Crash
  <2>2. CASE UNCHANGED etcd
    BY <1>2, <2>1, <2>2
  <2>3. CASE lease[n] # 0 /\ Drop(lease[n])
    <3>1. lease[n] \in Lease
      BY <2>3
    <3> QED BY <1>2, <2>1, <2>3, <3>1, DropTypes
  <2> QED BY <1>3, <2>2, <2>3 DEF Stop, Crash
<1>4. ASSUME NEW n \in Node, KeepAlive(n)
      PROVE  TypeOK' /\ Local'
  <2>1. CASE pc' = [pc EXCEPT ![n] = "member"] /\ UNCHANGED <<lease, isLeader, ground, faults>>
    BY <1>4, <2>1 DEF KeepAlive
  <2>2. CASE /\ IF lease[n] \in live THEN Fault("rift") ELSE UNCHANGED faults
             /\ lease' = [lease EXCEPT ![n] = 0]
             /\ StepDown(n)
             /\ pc' = [pc EXCEPT ![n] = "grant"]
    <3>1. faults' \in [FaultKind -> 0 .. MaxFaults]
      BY <2>2, <1>r, FaultTypes
    <3>2. isLeader' \in [Node -> BOOLEAN] /\ ground' \in [Node -> Lease \cup {0}]
      BY <2>2, LeadTypes
    <3> QED BY <1>4, <2>2, <3>1, <3>2 DEF KeepAlive, StepDown
  <2> QED
    BY <1>4, <2>1, <2>2 DEF KeepAlive
<1>5. ASSUME NEW n \in Node, LeaseGrant(n)
      PROVE  TypeOK' /\ Local'
  BY <1>5 DEF LeaseGrant, FreeLeases
<1>6. ASSUME NEW n \in Node, PutMember(n)
      PROVE  TypeOK' /\ Local'
  BY <1>6 DEF PutMember
<1>7. ASSUME NEW n \in Node, GetLeader(n) \/ CreateLeader(n)
      PROVE  TypeOK' /\ Local'
  <2>1. isLeader' \in [Node -> BOOLEAN] /\ ground' \in [Node -> Lease \cup {0}]
    <3>1. \/ UNCHANGED <<isLeader, ground>>
          \/ StepDown(n)
          \/ Lead(n, leader.lease)
          \/ Lead(n, lease[n])
      BY <1>7, Zenon DEF GetLeader, CreateLeader
    <3>2. leader.lease \in Lease \cup {0} /\ lease[n] \in Lease \cup {0}
      OBVIOUS
    <3> QED
      BY <3>1, <3>2, LeadTypes
  <2>2. /\ leader' \in [id: Node \cup {NoOne}, lease: Lease \cup {0}]
        /\ pc' \in [Node -> {"idle", "grant", "member", "leader", "create", "list", "publish"}]
    BY <1>7 DEF GetLeader, CreateLeader
  <2>3. /\ pc[n] # "idle" /\ UNCHANGED <<up, lease>>
        /\ \A m \in Node : pc'[m] = "grant" => pc[m] = "grant" /\ m # n
        /\ \A m \in Node \ {n} : isLeader'[m] = isLeader[m] /\ pc'[m] = pc[m]
    BY <1>7, SMTT(30) DEF GetLeader, CreateLeader, Lead, StepDown
  <2>4. Local'
    BY <2>1, <2>3
  <2> QED
    BY <1>7, <2>1, <2>2, <2>4 DEF GetLeader, CreateLeader
<1>9. ASSUME NEW n \in Node, ListMembers(n)
      PROVE  TypeOK' /\ Local'
  BY <1>9 DEF ListMembers, Members
<1>10. ASSUME NEW n \in Node, PutShardMap(n)
      PROVE  TypeOK' /\ Local'
  BY <1>10 DEF PutShardMap
<1>11. ASSUME NEW n \in Node, CallFails(n)
      PROVE  TypeOK' /\ Local'
  <2>1. faults' \in [FaultKind -> 0 .. MaxFaults]
    BY <1>11, <1>r, FaultTypes DEF CallFails
  <2> QED BY <1>11, <2>1 DEF CallFails
<1>12. ASSUME NEW n \in Node, CheckLeader(n)
      PROVE  TypeOK' /\ Local'
  BY <1>12, ConstantsAssumption DEF CheckLeader
<1>13. ASSUME NEW n \in Node, PutEpoch(n)
      PROVE  TypeOK' /\ Local'
  BY <1>13 DEF PutEpoch
<1>14. ASSUME NEW l \in Lease, Expire(l)
       PROVE  TypeOK' /\ Local'
  <2>1. faults' \in [FaultKind -> 0 .. MaxFaults]
    BY <1>14, <1>r, FaultTypes DEF Expire
  <2> QED
    BY <1>14, <2>1, DropTypes DEF Expire
<1>15. CASE UNCHANGED vars
  BY <1>15 DEF vars
<1>16. ASSUME NEW n \in Node, ReplyLost(n)
       PROVE  TypeOK' /\ Local'
  <2>0. faults' \in [FaultKind -> 0 .. MaxFaults]
    BY <1>16, <1>r, FaultTypes, Zenon DEF ReplyLost
  <2>1. /\ pc' \in [Node -> {"idle", "grant", "member", "leader", "create", "list", "publish"}]
        /\ seen' \in [Node -> SUBSET Node]
    BY <1>16, SMTT(30) DEF ReplyLost
  <2>2. live' \subseteq Lease
    BY <1>16 DEF ReplyLost, FreeLeases
  <2>3. member' \in [Node -> Lease \cup {0}]
    BY <1>16 DEF ReplyLost
  <2>4. leader' \in [id: Node \cup {NoOne}, lease: Lease \cup {0}]
    BY <1>16 DEF ReplyLost
  <2>5. shardMap' \in SUBSET SUBSET Node
    BY <1>16 DEF ReplyLost
  <2>6. Local'
    BY <1>16 DEF ReplyLost
  <2> QED
    BY <1>16, <2>0, <2>1, <2>2, <2>3, <2>4, <2>5, <2>6 DEF ReplyLost
<1>17. ASSUME NEW n \in Node, AdvanceFails(n)
       PROVE  TypeOK' /\ Local'
  <2>1. faults' \in [FaultKind -> 0 .. MaxFaults]
    BY <1>17, <1>r, FaultTypes DEF AdvanceFails
  <2> QED BY <1>17, <2>1, SMTT(30) DEF AdvanceFails
<1> QED
  BY <1>1, <1>3, <1>4, <1>5, <1>6, <1>7, <1>9, <1>10, <1>11, <1>12, Zenon,
     <1>13, <1>14, <1>15, <1>16, <1>17 DEF Next, Tick

\* Every step keeps the leader key with the node that leads on it.
LEMMA KeyStep ==
  ASSUME IInv, [Next]_vars
  PROVE  LeaderKeyHeld'
<1> USE DEF IInv, LeaderKeyHeld, Leads
<1>a. leader.id = NoOne => leader = NoLeader /\ \A m \in Node : ~ Leads(m)
  BY ConstantsAssumption DEF NoLeader
<1>b. \A n \in Node : leader.id = n => leader # NoLeader /\ leader = [id |-> n, lease |-> leader.lease]
  BY ConstantsAssumption DEF NoLeader, TypeOK
<1>d. isLeader \in [Node -> BOOLEAN] /\ ground \in [Node -> Lease \cup {0}]
  BY DEF TypeOK
\* A node leaves the leadership while etcd stays as it is.
<1>1. ASSUME NEW n \in Node, StepDown(n), UNCHANGED <<live, leader>>
      PROVE  LeaderKeyHeld'
  BY <1>1, <1>d, LeaseType DEF StepDown
<1>2. ASSUME NEW l \in Lease, Drop(l)
      PROVE  /\ leader' # NoLeader => leader'.id \in Node /\ leader'.lease \in live'
             /\ \A n \in Node : ground[n] \in live' /\ isLeader[n] => leader' = [id |-> n, lease |-> ground[n]]
  BY <1>2, <1>d, DropKeeps DEF Drop
<1>3. ASSUME NEW l \in Lease, Expire(l)
      PROVE  LeaderKeyHeld'
  BY <1>2, <1>3, Zenon DEF Expire
<1>4. ASSUME NEW n \in Node, Stop(n) \/ Crash(n)
      PROVE  LeaderKeyHeld'
  <2>1. StepDown(n)
    BY <1>4, Zenon DEF Stop, Crash, Exit
  <2>2. CASE UNCHANGED etcd
    BY <1>1, <2>1, <2>2 DEF etcd
  <2>3. CASE lease[n] # 0 /\ Drop(lease[n])
    <3>1. lease[n] \in Lease
      BY <2>3 DEF TypeOK
    <3> QED BY <1>2, <1>d, <2>1, <2>3, <3>1 DEF StepDown
  <2> QED BY <1>4, <2>2, <2>3 DEF Stop, Crash
<1>5. ASSUME NEW n \in Node, KeepAlive(n)
      PROVE  LeaderKeyHeld'
  <2>1. CASE UNCHANGED <<lease, isLeader, ground, faults>>
    BY <1>5, <2>1 DEF KeepAlive, etcd
  <2>2. CASE StepDown(n)
    BY <1>1, <1>5, <2>2 DEF KeepAlive, etcd
  <2> QED BY <1>5, <2>1, <2>2, Zenon DEF KeepAlive
\* A lease that is granted is no node's ground.
<1>6. ASSUME NEW n \in Node, LeaseGrant(n) \/ (ReplyLost(n) /\ pc[n] = "grant")
      PROVE  LeaderKeyHeld'
  <2>1. PICK l \in FreeLeases : live' = live \cup {l}
    BY <1>6, Zenon DEF LeaseGrant, ReplyLost
  <2>2. \A m \in Node : ground[m] # l
    BY <2>1 DEF FreeLeases
  <2>3. UNCHANGED <<leader, isLeader, ground>>
    BY <1>6 DEF LeaseGrant, ReplyLost
  <2> QED BY <2>1, <2>2, <2>3
<1>7. ASSUME NEW n \in Node, GetLeader(n)
      PROVE  LeaderKeyHeld'
  <2>1. CASE UNCHANGED <<isLeader, ground>>
    BY <1>7, <2>1 DEF GetLeader, etcd
  <2>2. CASE leader.id = n /\ Lead(n, leader.lease)
    BY <1>7, <1>b, <1>d, <2>2 DEF GetLeader, Lead, etcd
  <2>3. CASE StepDown(n)
    BY <1>1, <1>7, <2>3 DEF GetLeader, etcd
  <2> QED BY <1>7, <2>1, <2>2, <2>3, Zenon DEF GetLeader
\* The create succeeds only where no node leads on a key that exists.
<1>8. ASSUME NEW n \in Node, leader.id = NoOne, lease[n] \in live, live' = live,
             leader' = [id |-> n, lease |-> lease[n]],
             Lead(n, lease[n]) \/ UNCHANGED <<isLeader, ground>>
      PROVE  LeaderKeyHeld'
  BY <1>8, <1>a, <1>d DEF Lead
<1>9. ASSUME NEW n \in Node, CreateLeader(n)
      PROVE  LeaderKeyHeld'
  <2>1. CASE UNCHANGED <<leader, isLeader, ground>>
    BY <1>9, <2>1 DEF CreateLeader
  <2>2. CASE StepDown(n) /\ UNCHANGED leader
    BY <1>1, <1>9, <2>2 DEF CreateLeader
  <2>3. CASE /\ leader.id = NoOne /\ lease[n] \in live
             /\ leader' = [id |-> n, lease |-> lease[n]] /\ Lead(n, lease[n])
    BY <1>8, <1>9, <2>3, Zenon DEF CreateLeader
  <2> QED BY <1>9, <2>1, <2>2, <2>3, Zenon DEF CreateLeader
<1>10. ASSUME NEW n \in Node, ReplyLost(n)
       PROVE  LeaderKeyHeld'
  <2>1. CASE pc[n] = "create"
    <3>1. /\ leader.id = NoOne /\ lease[n] \in live /\ live' = live
          /\ leader' = [id |-> n, lease |-> lease[n]]
          /\ UNCHANGED <<isLeader, ground>>
      BY <1>10, <2>1 DEF ReplyLost
    <3> QED BY <1>8, <3>1, Zenon
  <2>2. CASE pc[n] \in {"member", "publish"}
    BY <1>10, <2>2 DEF ReplyLost
  <2> QED
    BY <1>6, <1>10, <2>1, <2>2 DEF ReplyLost
<1>11. ASSUME UNCHANGED <<live, leader, isLeader, ground>>
       PROVE  LeaderKeyHeld'
  BY <1>11
<1>12. ASSUME NEW n \in Node, Start(n) \/ PutMember(n) \/ ListMembers(n) \/ PutShardMap(n) \/ CallFails(n)
                              \/ CheckLeader(n) \/ PutEpoch(n) \/ AdvanceFails(n)
       PROVE  LeaderKeyHeld'
  <2>1. UNCHANGED <<live, leader, isLeader, ground>>
    BY <1>12, SMTT(30)
       DEF Start, PutMember, ListMembers, PutShardMap, CallFails, CheckLeader, PutEpoch, AdvanceFails, etcd
  <2> QED BY <1>11, <2>1, Zenon
<1>13. ASSUME UNCHANGED vars
       PROVE  LeaderKeyHeld'
  BY <1>11, <1>13 DEF vars, etcd
<1> HIDE DEF IInv, LeaderKeyHeld, Leads
<1>14. ASSUME NEW n \in Node, Tick(n)
       PROVE  LeaderKeyHeld'
  BY <1>5, <1>6, <1>7, <1>9, <1>12, <1>14, Zenon DEF Tick
<1>15. CASE Next
  BY <1>3, <1>4, <1>10, <1>12, <1>14, <1>15, Zenon DEF Next
<1> QED
  BY <1>13, <1>15, Zenon

\* Of all nodes that take themselves for the leader, at most one does so because of
\* a leader key that still exists, for any number of nodes, leases and faults, failed
\* renewals and quick restarts included (ClusterManager::Tick, EnsureLease).
THEOREM OneLeader == Spec => []OneLiveLeader
<1>1. IInv /\ [Next]_vars => IInv'
  BY LocalStep, KeyStep DEF IInv
<1>2. IInv => OneLiveLeader
  <2> SUFFICES ASSUME IInv, NEW m \in Node, NEW n \in Node, Leads(m), Leads(n)
               PROVE  m = n
    BY DEF OneLiveLeader
  <2>1. [id |-> m, lease |-> ground[m]] = [id |-> n, lease |-> ground[n]]
    BY DEF IInv, LeaderKeyHeld
  <2> QED BY <2>1
<1> QED
  BY <1>1, <1>2, InitIInv, PTL DEF Spec

-----------------------------------------------------------------------------
(* Membership.                                                             *)

LEMMA RegisteredStep ==
  ASSUME TypeOK, Local, RegisteredStays, [Next]_vars
  PROVE  RegisteredStays'
<1> USE DEF TypeOK, Local, RegisteredStays, etcd, Goto
<1>1. ASSUME NEW n \in Node, Start(n) \/ Crash(n) \/ KeepAlive(n) PROVE RegisteredStays'
  BY <1>1 DEF Start, Crash, Exit, KeepAlive
<1>2. ASSUME NEW l \in Lease, Drop(l), NEW m \in Node, pc'[m] \in {pc[m], "idle"},
             lease'[m] = lease[m] \/ pc'[m] = "idle",
             pc'[m] \in {"leader", "create", "list", "publish"}, lease'[m] \in live'
      PROVE  member'[m] = lease'[m]
  BY <1>2, Zenon DEF Drop
<1>3. ASSUME NEW n \in Node, Stop(n) PROVE RegisteredStays'
  <2>1. \A m \in Node : pc'[m] \in {pc[m], "idle"} /\ (lease'[m] = lease[m] \/ pc'[m] = "idle")
    BY <1>3, SMTT(30) DEF Stop, Exit
  <2>2. CASE lease[n] # 0
    BY <1>2, <1>3, <2>1, <2>2 DEF Stop
  <2>3. CASE lease[n] = 0
    BY <1>3, <2>3 DEF Stop, Exit
  <2> QED BY <2>2, <2>3
<1>4. ASSUME NEW l \in Lease, Expire(l) PROVE RegisteredStays'
  BY <1>2, <1>4, Zenon DEF Expire
<1>5. ASSUME NEW n \in Node, LeaseGrant(n) \/ ReplyLost(n) PROVE RegisteredStays'
  <2>1. CASE LeaseGrant(n)
    BY <2>1, SMTT(30) DEF LeaseGrant, FreeLeases
  <2>2. CASE ReplyLost(n)
    <3>1. \A m \in Node : lease[m] \in live' => lease[m] \in live
      BY <2>2, SMTT(30) DEF ReplyLost, FreeLeases
    <3>2. \A m \in Node : member'[m] = member[m] \/ (m = n /\ member'[m] = lease[m])
      BY <2>2 DEF ReplyLost
    <3> QED BY <2>2, <3>1, <3>2, SMTT(30) DEF ReplyLost
  <2> QED BY <1>5, <2>1, <2>2
<1>6. ASSUME NEW n \in Node, PutMember(n) PROVE RegisteredStays'
  BY <1>6, SMTT(30) DEF PutMember
<1>7. ASSUME NEW n \in Node, GetLeader(n) \/ CreateLeader(n) \/ ListMembers(n) \/ PutShardMap(n)
                             \/ CallFails(n)
      PROVE  RegisteredStays'
  BY <1>7 DEF GetLeader, CreateLeader, ListMembers, PutShardMap, CallFails
<1>8. CASE UNCHANGED <<live, member, lease, pc>>
  BY <1>8, Zenon
<1>9. ASSUME NEW n \in Node, CheckLeader(n) \/ PutEpoch(n) \/ AdvanceFails(n)
      PROVE  UNCHANGED <<live, member, lease, pc>>
  BY <1>9 DEF CheckLeader, PutEpoch, AdvanceFails
<1> QED
  BY <1>1, <1>3, <1>4, <1>5, <1>6, <1>7, <1>8, <1>9, Zenon DEF Next, Tick, vars

\* A node that has put its membership key stays a member as long as its lease lives,
\* however leases of its earlier processes lapse and calls of etcd fail
\* (ClusterManager::Tick puts the key again with every new lease).
THEOREM MembersStay == Spec => []RegisteredStays
<1>1. TypeOK /\ Local /\ RegisteredStays /\ [Next]_vars => (TypeOK /\ Local /\ RegisteredStays)'
  BY LocalStep, RegisteredStep
<1>2. Init => TypeOK /\ Local /\ RegisteredStays
  BY InitIInv DEF IInv, Init, RegisteredStays
<1> QED
  BY <1>1, <1>2, PTL DEF Spec
=============================================================================
