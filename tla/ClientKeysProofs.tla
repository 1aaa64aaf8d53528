-------------------------- MODULE ClientKeysProofs --------------------------
(***************************************************************************)
(* What a registration leaves behind, for any number of nodes, handlers,   *)
(* keysets and backends, and whatever view of its peers it reads.          *)
(* RegisteredReachesView speaks of the time when all is quiet; KeysInv     *)
(* says how far a registration that no other call overlapped has come, and *)
(* that afterwards only queries run, which read the keys it left.          *)
(***************************************************************************)
EXTENDS ClientKeys, TLAPS

\* No context of the client is cached at node n.
Clean(n) == \A b \in Backend : eval[n][b] = NoKeys

\* Node n has stored what handler h received, and used nothing older since.
Holds(n, h) == file[n] = Uploaded(h) /\ Clean(n)

\* A registration that no other call has overlapped so far, and that has not failed.
Solo(h) == op[h] = "register" /\ h \notin overlap /\ pc[h] \notin {"idle", "error"}

\* The handler g of a peer that a registration waits for.
Serves(g, h) ==
  /\ g \in Handler /\ g # h
  /\ pc[g] \in {"receive", "evict", "put", "ok", "error"} /\ op[g] = "receive"
  /\ keys[g] = keys[h] /\ total[g] = count[h]
  /\ pc[g] \in {"evict", "put", "ok"} => count[g] = count[h]
  /\ pc[g] = "put" => Clean(node[g])
  /\ pc[g] = "ok" => Holds(node[g], h)

\* How far a registration has come.
Progress(h) ==
  /\ \A x \in Busy : x = h \/ x = callee[h]
  /\ pc[h] \in {"receive", "claim", "evict", "put", "call", "wait", "ok"}
  /\ pc[h] = "wait" => Serves(callee[h], h)
  /\ pc[h] = "put" => Clean(node[h])
  /\ pc[h] \in {"call", "wait", "ok"} =>
       \A n \in reach[h] \ peers[h] : Holds(n, h) \/ (pc[h] = "wait" /\ n = node[callee[h]])
  /\ pc[h] = "ok" => peers[h] = {}

\* After such a registration: only queries run, and what they read is its keyset.
Settled ==
  /\ agreed.nodes \subseteq Node
  /\ \A n \in agreed.nodes : /\ file[n] = [keys |-> agreed.keys, count |-> Full]
                             /\ \A b \in Backend : eval[n][b] \in {NoKeys, file[n]}
  /\ \A x \in Busy : /\ pc[x] \in {"lookup", "get", "insert", "ok", "error"} /\ op[x] = "query"
                     /\ pc[x] = "insert" /\ node[x] \in agreed.nodes => read[x] = file[node[x]]

Shape ==
  /\ DOMAIN file = Node /\ DOMAIN cached = Node /\ DOMAIN owner = Node
  /\ DOMAIN eval = Node /\ \A n \in Node : DOMAIN eval[n] = Backend
  /\ DOMAIN pc = Handler /\ DOMAIN op = Handler /\ DOMAIN node = Handler /\ DOMAIN who = Handler
  /\ DOMAIN keys = Handler /\ DOMAIN total = Handler /\ DOMAIN count = Handler
  /\ DOMAIN peers = Handler /\ DOMAIN reach = Handler /\ DOMAIN callee = Handler /\ DOMAIN via = Handler
  /\ DOMAIN read = Handler
  /\ \A x \in Handler : /\ pc[x] # "idle" => node[x] \in Node
                        /\ peers[x] \subseteq Node
                        /\ reach[x] \subseteq Node
                        /\ callee[x] # NoOne <=> pc[x] = "wait"

KeysInv ==
  /\ Shape
  /\ CacheIsFile
  /\ \A h \in Handler : Solo(h) => Progress(h)
  /\ agreed # NoKeys => Settled

-----------------------------------------------------------------------------

LEMMA InitKeys == Init => KeysInv
BY DEF Init, KeysInv, Shape, CacheIsFile, Solo

\* What handlers leave when they return or die.
LEMMA LeaveShape ==
  ASSUME Shape, NEW S, S \subseteq Handler, NEW label, label # "wait", Leave(S, label)
  PROVE  /\ DOMAIN pc' = Handler /\ DOMAIN op' = Handler /\ DOMAIN node' = Handler
         /\ DOMAIN who' = Handler /\ DOMAIN keys' = Handler /\ DOMAIN total' = Handler
         /\ DOMAIN count' = Handler /\ DOMAIN peers' = Handler /\ DOMAIN reach' = Handler
         /\ DOMAIN callee' = Handler
         /\ DOMAIN via' = Handler /\ DOMAIN read' = Handler
         /\ \A x \in Handler : /\ pc'[x] # "idle" => node'[x] \in Node
                               /\ peers'[x] \subseteq Node
                               /\ reach'[x] \subseteq Node
                               /\ callee'[x] # NoOne <=> pc'[x] = "wait"
<1>1. NoOne \notin S
  BY ConstantsAssumption
<1> QED BY <1>1 DEF Leave, Shape

LEMMA ShapeStep == ASSUME KeysInv, [Next]_vars PROVE Shape'
<1> USE DEF KeysInv, stores, locals, history, Goto
<1>1. ASSUME NEW h \in Handler, StartRegister(h) PROVE Shape'
  BY <1>1 DEF StartRegister, Begin, Shape
<1>2. ASSUME NEW h \in Handler, StartQuery(h) PROVE Shape'
  BY <1>2 DEF StartQuery, Begin, Shape
<1>3. ASSUME NEW h \in Handler, Receive(h) PROVE Shape'
  BY <1>3 DEF Receive, Shape
<1>4. ASSUME NEW h \in Handler, Claim(h) PROVE Shape'
  BY <1>4 DEF Claim, Shape
<1>5. ASSUME NEW h \in Handler, Evict(h) PROVE Shape'
  BY <1>5 DEF Evict, Shape
<1>6. ASSUME NEW h \in Handler, Put(h) PROVE Shape'
  <2>1. CASE UNCHANGED <<peers, reach>>
    BY <1>6, <2>1 DEF Put, Stored, Shape
  <2>2. CASE \E view \in Views(h) : Stored(h, view)
    <3>1. PICK view \in Views(h) : Stored(h, view)
      BY <2>2
    <3>2. view \subseteq Node /\ node[h] \in Node
      BY <1>6, <3>1 DEF Views, Put, Shape
    <3> QED BY <1>6, <3>1, <3>2 DEF Put, Stored, Shape
  <2> QED BY <1>6, <2>1, <2>2, Zenon DEF Put
<1>7. ASSUME NEW h \in Handler, NEW g \in Handler, Call(h, g) PROVE Shape'
  BY <1>7, ConstantsAssumption DEF Call, Connect, Shape
<1>8. ASSUME NEW h \in Handler, AllCalled(h) PROVE Shape'
  BY <1>8 DEF AllCalled, Shape
<1>9. ASSUME NEW h \in Handler, CallFails(h) PROVE Shape'
  BY <1>9 DEF CallFails, Shape
<1>10. ASSUME NEW h \in Handler, Lookup(h) PROVE Shape'
  BY <1>10 DEF Lookup, Shape
<1>11. ASSUME NEW h \in Handler, Get(h) PROVE Shape'
  BY <1>11 DEF Get, Shape
<1>12. ASSUME NEW h \in Handler, Insert(h) PROVE Shape'
  BY <1>12 DEF Insert, Shape
<1>13. ASSUME NEW h \in Handler, Return(h) PROVE Shape'
  BY <1>13, LeaveShape, Zenon DEF Return, Shape
<1>14. ASSUME NEW n \in Node, Crash(n) PROVE Shape'
  <2>1. Leave({h \in Handler : node[h] = n}, "error")
    BY <1>14 DEF Crash
  <2>2. /\ DOMAIN file' = Node /\ DOMAIN cached' = Node /\ DOMAIN owner' = Node
        /\ DOMAIN eval' = Node /\ \A m \in Node : DOMAIN eval'[m] = Backend
    BY <1>14 DEF Crash, Shape
  <2> QED BY <2>1, <2>2, LeaveShape, ZenonT(40) DEF Shape
<1>15. CASE UNCHANGED vars
  BY <1>15, Zenon DEF vars, Shape
<1> QED BY <1>1, <1>2, <1>3, <1>4, <1>5, <1>6, <1>7, <1>8, <1>9, <1>10, <1>11, <1>12, <1>13,
           <1>14, <1>15 DEF Next, Step

\* The cache and the file change together, or the cache takes what the file has.
LEMMA CacheStep == ASSUME KeysInv, [Next]_vars PROVE CacheIsFile'
<1> USE DEF KeysInv, Shape, stores
<1>1. CASE UNCHANGED <<file, cached>>
  BY <1>1 DEF CacheIsFile
<1>2. ASSUME NEW h \in Handler, Put(h) PROVE CacheIsFile'
  BY <1>2 DEF Put, CacheIsFile
<1>3. ASSUME NEW h \in Handler, Get(h) PROVE CacheIsFile'
  BY <1>3 DEF Get, CacheIsFile
<1>4. ASSUME NEW n \in Node, Crash(n) PROVE CacheIsFile'
  BY <1>4, Zenon DEF Crash, CacheIsFile
<1>5. ASSUME NEW h \in Handler,
             StartRegister(h) \/ StartQuery(h) \/ Receive(h) \/ Claim(h) \/ Evict(h)
               \/ (\E g \in Handler : Call(h, g)) \/ AllCalled(h) \/ CallFails(h)
               \/ Lookup(h) \/ Insert(h) \/ Return(h)
      PROVE  UNCHANGED <<file, cached>>
  BY <1>5, Zenon DEF StartRegister, StartQuery, Receive, Claim, Evict, Call, AllCalled, CallFails,
              Lookup, Insert, Return
<1> QED BY <1>1, <1>2, <1>3, <1>4, <1>5 DEF Next, Step, vars

-----------------------------------------------------------------------------
(* A registration on its own.                                              *)

\* While it runs, only it and the handler it waits for do anything.
LEMMA SoloActor ==
  ASSUME KeysInv, NEW h \in Handler, Solo(h), NEW x \in Handler, pc[x] # "idle"
  PROVE  /\ Progress(h)
         /\ x = h \/ (x = callee[h] /\ pc[h] = "wait" /\ Serves(x, h))
BY ConstantsAssumption, SMTT(30) DEF KeysInv, Shape, Progress, Busy

\* A step of one handler, to another label and without a return.
LEMMA SoloBefore ==
  ASSUME KeysInv, NEW x \in Handler, pc[x] \notin {"idle", "error"}, NEW label,
         pc' = [pc EXCEPT ![x] = label], UNCHANGED <<op, overlap>>,
         NEW h \in Handler, Solo(h)'
  PROVE  Solo(h)
BY DEF KeysInv, Shape, Solo

LEMMA ReceiveSolo ==
  ASSUME KeysInv, NEW x \in Handler, Receive(x), NEW h \in Handler, Solo(h)'
  PROVE  Progress(h)'
<1> USE DEF locals, stores, history, Goto
<1>1. Solo(h)
  BY SoloBefore, ZenonT(40) DEF Receive
<1>2. pc[x] = "receive"
  BY DEF Receive
<1>3. Progress(h) /\ (x = h \/ (x = callee[h] /\ pc[h] = "wait" /\ Serves(x, h)))
  BY <1>1, <1>2, SoloActor
<1>4. Busy' \subseteq Busy
  BY <1>2, Zenon DEF Receive, Busy, KeysInv, Shape
<1>5. CASE x = h
  <2>1. pc'[h] = "claim"
    BY <1>1, <1>5, Zenon DEF Receive, Solo, KeysInv, Shape
  <2> QED BY <1>3, <1>4, <2>1, Zenon DEF Receive, Progress
<1>6. CASE x # h
  <2>1. ~ Orphan(x) /\ op[x] = "receive"
    BY <1>3, <1>6, Zenon DEF Orphan, Serves
  <2>2. count'[x] = total[x] /\ pc'[x] \in {"error", "evict"} /\ pc'[h] = pc[h] /\ count'[h] = count[h]
    BY <1>6, <2>1, ZenonT(40) DEF Receive, KeysInv, Shape
  <2>3. Serves(x, h)'
    BY <1>3, <1>6, <2>2, Zenon DEF Receive, Serves
  <2>4. \A n : Holds(n, h)' <=> Holds(n, h)
    BY <2>2, Zenon DEF Receive, Holds, Uploaded, Clean
  <2> QED BY <1>3, <1>4, <1>6, <2>2, <2>3, <2>4 DEF Receive, Progress
<1> QED BY <1>5, <1>6

LEMMA ClaimSolo ==
  ASSUME KeysInv, NEW x \in Handler, Claim(x), NEW h \in Handler, Solo(h)'
  PROVE  Progress(h)'
<1> USE DEF locals, stores, history, Goto
<1>1. pc[x] = "claim" /\ pc' \in {[pc EXCEPT ![x] = "evict"], [pc EXCEPT ![x] = "error"]}
  BY DEF Claim
<1>2. Solo(h)
  BY <1>1, SoloBefore DEF Claim
<1>3. Progress(h) /\ x = h
  BY <1>1, <1>2, SoloActor DEF Serves
<1>4. Busy' \subseteq Busy /\ pc'[h] = "evict"
  BY <1>1, <1>3 DEF Busy, KeysInv, Shape, Solo
<1> QED BY <1>3, <1>4, Zenon DEF Claim, Progress

LEMMA EvictSolo ==
  ASSUME KeysInv, NEW x \in Handler, Evict(x), NEW h \in Handler, Solo(h)'
  PROVE  Progress(h)'
<1> USE DEF locals, stores, history, Goto
<1>1. pc[x] = "evict" /\ pc' \in {[pc EXCEPT ![x] = "put"], [pc EXCEPT ![x] = "error"]}
  BY DEF Evict
<1>2. Solo(h)
  BY <1>1, SoloBefore DEF Evict
<1>3. Progress(h) /\ (x = h \/ (x = callee[h] /\ pc[h] = "wait" /\ Serves(x, h)))
  BY <1>1, <1>2, SoloActor
<1>4. Busy' \subseteq Busy
  BY <1>1, Zenon DEF Busy, KeysInv, Shape
<1>5. \A n \in Node : Clean(n) => Clean(n)'
  BY DEF Evict, Clean, KeysInv, Shape
<1>6. pc'[x] = "put" => Clean(node[x])'
  BY <1>1, SMTT(30) DEF Evict, Clean, KeysInv, Shape
<1>7. CASE x = h
  <2>1. pc'[h] = "put"
    BY <1>1, <1>7, Zenon DEF Solo, KeysInv, Shape
  <2> QED BY <1>3, <1>4, <1>6, <1>7, <2>1, Zenon DEF Evict, Progress
<1>8. CASE x # h
  <2>1. pc'[h] = pc[h] /\ pc'[x] \in {"error", "put"}
    BY <1>1, <1>8, Zenon DEF KeysInv, Shape
  <2>2. Serves(x, h)'
    BY <1>1, <1>3, <1>6, <1>8, <2>1, Zenon DEF Evict, Serves
  <2>3. \A n \in Node : Holds(n, h) => Holds(n, h)'
    BY <1>5 DEF Evict, Holds, Uploaded
  <2>4. \A n \in reach[h] : n \in Node
    BY Zenon DEF KeysInv, Shape
  <2> QED BY <1>3, <1>4, <1>8, <2>1, <2>2, <2>3, <2>4 DEF Evict, Progress
<1> QED BY <1>7, <1>8, Zenon

LEMMA PutSolo ==
  ASSUME KeysInv, NEW x \in Handler, Put(x), NEW h \in Handler, Solo(h)'
  PROVE  Progress(h)'
<1> USE DEF locals, stores, history, Goto
<1>1. /\ pc[x] = "put"
      /\ pc' \in {[pc EXCEPT ![x] = IF op[x] = "register" THEN "call" ELSE "ok"], [pc EXCEPT ![x] = "error"]}
  BY Zenon DEF Put, Stored
<1>2. Solo(h)
  BY <1>1, SoloBefore DEF Put
<1>3. Progress(h) /\ (x = h \/ (x = callee[h] /\ pc[h] = "wait" /\ Serves(x, h)))
  BY <1>1, <1>2, SoloActor
<1>4. Busy' \subseteq Busy /\ node[x] \in Node
  BY <1>1, Zenon DEF Busy, KeysInv, Shape
<1>5. pc'[x] # "error" =>
        /\ file' = [file EXCEPT ![node[x]] = Uploaded(x)]
        /\ \E view \in Views(x) : /\ peers' = [peers EXCEPT ![x] = view]
                                  /\ reach' = [reach EXCEPT ![x] = view \cup {node[x]}]
        /\ pc'[x] = IF op[x] = "register" THEN "call" ELSE "ok"
  BY <1>1, Zenon DEF Put, Stored, KeysInv, Shape
<1>6. CASE x = h
  <2>1. pc'[h] = "call" /\ file'[node[h]] = Uploaded(h) /\ reach'[h] = peers'[h] \cup {node[h]}
    BY <1>2, <1>4, <1>5, <1>6, ZenonT(40) DEF Solo, KeysInv, Shape
  <2>2. Holds(node[h], h)'
    BY <1>1, <1>3, <1>6, <2>1, Zenon DEF Put, Progress, Holds, Uploaded, Clean
  <2>3. \A n \in reach'[h] \ peers'[h] : n = node[h]
    BY <2>1, Zenon
  <2> QED BY <1>3, <1>4, <1>6, <2>1, <2>2, <2>3, ZenonT(40) DEF Put, Progress
<1>7. CASE x # h
  <2>1. /\ pc'[h] = pc[h] /\ pc'[x] \in {"error", "ok"}
        /\ peers'[h] = peers[h] /\ reach'[h] = reach[h]
    BY <1>1, <1>3, <1>7, ZenonT(40) DEF Put, KeysInv, Shape, Stored, Serves
  <2>2. Uploaded(x) = Uploaded(h)
    BY <1>1, <1>3, <1>7, Zenon DEF Serves, Uploaded
  <2>3. \A n \in Node : Holds(n, h) => Holds(n, h)'
    BY <2>2, Zenon DEF Put, Holds, Uploaded, Clean, KeysInv, Shape
  <2>4. pc'[x] = "ok" => Holds(node[x], h)'
    BY <1>1, <1>3, <1>4, <1>5, <1>7, <2>2, Zenon DEF Put, Serves, Holds, Uploaded, Clean, KeysInv, Shape
  <2>5. Serves(x, h)'
    BY <1>1, <1>3, <1>7, <2>1, <2>4, Zenon DEF Put, Serves
  <2>6. \A n \in reach[h] : n \in Node
    BY Zenon DEF KeysInv, Shape
  <2> QED BY <1>3, <1>4, <1>7, <2>1, <2>3, <2>5, <2>6, Zenon DEF Put, Progress
<1> QED BY <1>6, <1>7, Zenon

LEMMA CallSolo ==
  ASSUME KeysInv, NEW x \in Handler, NEW g \in Handler, Call(x, g), NEW h \in Handler, Solo(h)'
  PROVE  Progress(h)'
<1> USE DEF locals, stores, history
<1>1. PICK p \in peers[x] : peers' = [peers EXCEPT ![x] = @ \ {p}] /\ Connect(x, g, p)
  BY ZenonT(40) DEF Call
<1>2. /\ pc[x] = "call" /\ pc[g] = "idle" /\ g # x
      /\ \A y \in Handler : pc'[y] = IF y = g THEN "receive" ELSE IF y = x THEN "wait" ELSE pc[y]
      /\ \A y \in Handler : op'[y] = IF y = g THEN "receive" ELSE op[y]
  BY <1>1, Zenon DEF Call, Connect, KeysInv, Shape
<1>3. Solo(h)
  BY <1>2 DEF Solo, Call
<1>4. Progress(h) /\ x = h
  BY <1>2, <1>3, SoloActor DEF Serves
<1>5. /\ callee'[h] = g /\ node'[g] = p /\ keys'[g] = keys[h] /\ total'[g] = count[h]
      /\ keys'[h] = keys[h] /\ peers'[h] = peers[h] \ {p} /\ reach' = reach
  BY <1>1, <1>2, <1>4 DEF Call, Connect, KeysInv, Shape
<1>6. UNCHANGED <<file, eval, count>>
  BY Zenon DEF Call
<1>7. Serves(g, h)'
  BY <1>2, <1>4, <1>5, <1>6, Zenon DEF Serves
<1>8. \A n : Holds(n, h) => Holds(n, h)'
  BY <1>5, <1>6 DEF Holds, Uploaded, Clean
<1>9. \A y \in Busy' : y = h \/ y = g
  <2>1. callee[h] = NoOne
    BY <1>2, <1>4, Zenon DEF KeysInv, Shape
  <2>2. \A y \in Busy : y = h
    BY <1>4, <2>1, ConstantsAssumption, Zenon DEF Progress, Busy
  <2> QED BY <1>2, <2>2 DEF Busy
<1>10. \A n \in reach'[h] \ peers'[h] : Holds(n, h)' \/ n = node'[callee'[h]]
  BY <1>2, <1>4, <1>5, <1>8, Zenon DEF Progress
<1> QED BY <1>2, <1>4, <1>5, <1>7, <1>9, <1>10, Zenon DEF Progress

LEMMA AllCalledSolo ==
  ASSUME KeysInv, NEW x \in Handler, AllCalled(x), NEW h \in Handler, Solo(h)'
  PROVE  Progress(h)'
<1> USE DEF locals, stores, history, Goto
<1>1. pc[x] = "call" /\ pc' = [pc EXCEPT ![x] = "ok"] /\ peers[x] = {}
  BY DEF AllCalled
<1>2. Solo(h)
  BY <1>1, SoloBefore, Zenon DEF AllCalled
<1>3. Progress(h) /\ x = h
  BY <1>1, <1>2, SoloActor DEF Serves
<1>4. Busy' \subseteq Busy /\ pc'[h] = "ok"
  BY <1>1, <1>3 DEF Busy, KeysInv, Shape
<1>5. \A n : Holds(n, h) => Holds(n, h)'
  BY DEF AllCalled, Holds, Uploaded, Clean
<1> QED BY <1>1, <1>3, <1>4, <1>5, Zenon DEF AllCalled, Progress

LEMMA CallFailsSolo ==
  ASSUME KeysInv, NEW x \in Handler, CallFails(x), NEW h \in Handler, Solo(h)'
  PROVE  Progress(h)'
<1>1. pc[x] \in {"call", "wait"} /\ pc' = [pc EXCEPT ![x] = "error"] /\ UNCHANGED <<op, overlap>>
  BY Zenon DEF CallFails, Goto, history
<1>2. Solo(h) /\ x # h
  BY <1>1, SoloBefore DEF Solo, KeysInv, Shape
<1> QED BY <1>1, <1>2, SoloActor DEF Serves

\* A query does not run beside it.
LEMMA QuerySolo ==
  ASSUME KeysInv, NEW x \in Handler, Lookup(x) \/ Get(x) \/ Insert(x), NEW h \in Handler, Solo(h)'
  PROVE  Progress(h)'
<1>1. /\ pc[x] \in {"lookup", "get", "insert"} /\ UNCHANGED <<op, overlap>>
      /\ \E label : pc' = [pc EXCEPT ![x] = label]
  BY DEF Lookup, Get, Insert, Goto, history, locals
<1>2. Solo(h)
  BY <1>1, SoloBefore, Zenon
<1>3. Progress(h) /\ (x = h \/ Serves(x, h))
  BY <1>1, <1>2, SoloActor, Zenon
<1>4. pc[x] \in {"receive", "claim", "evict", "put", "call", "wait", "ok", "error"}
  BY <1>3, Zenon DEF Serves, Progress
<1> QED BY <1>1, <1>4

\* It begins when nothing runs, and ends being alone when another call begins.
LEMMA StartSolo ==
  ASSUME KeysInv, NEW x \in Handler, StartRegister(x) \/ StartQuery(x), NEW h \in Handler, Solo(h)'
  PROVE  Progress(h)'
<1>1. /\ pc[x] = "idle" /\ overlap' = IF Busy = {} THEN {} ELSE overlap \cup Busy \cup {x}
      /\ pc' \in {[pc EXCEPT ![x] = "receive"], [pc EXCEPT ![x] = "lookup"]}
      /\ op' \in {[op EXCEPT ![x] = "register"], [op EXCEPT ![x] = "query"]}
  BY Zenon DEF StartRegister, StartQuery, Begin, Goto
<1>2. h \in Busy \cup {x}
  BY <1>1 DEF Solo, Busy, KeysInv, Shape
<1>3. Busy = {} /\ h = x
  BY <1>1, <1>2 DEF Solo
<1>4. op'[h] = "register"
  BY Zenon DEF Solo
<1>5. pc'[h] = "receive"
  <2>1. StartRegister(x)
    <3>1. DOMAIN op = Handler
      BY DEF KeysInv, Shape
    <3>2. StartQuery(x) => op' = [op EXCEPT ![x] = "query"]
      BY Zenon DEF StartQuery
    <3> QED BY <1>3, <1>4, <3>1, <3>2, Zenon
  <2> QED BY <1>3, <2>1 DEF StartRegister, Goto, KeysInv, Shape
<1>6. \A y \in Busy' : y = h
  BY <1>1, <1>3, Zenon DEF Busy, KeysInv, Shape
<1> QED BY <1>5, <1>6 DEF Progress

\* The peer's handler returns, and the registration goes on.
LEMMA ReturnSolo ==
  ASSUME KeysInv, NEW x \in Handler, Return(x), NEW h \in Handler, Solo(h)'
  PROVE  Progress(h)'
<1>1. /\ pc[x] \in {"ok", "error"} /\ UNCHANGED stores
      /\ Leave({x}, IF pc[x] = "ok" THEN "call" ELSE "error")
  BY Zenon DEF Return
<1>2. x # h /\ pc[h] # "idle" /\ pc[h] # "error"
  <2>1. x # h
    BY <1>1, Zenon DEF Leave, Solo
  <2>2. callee[h] = x => pc[h] = "wait"
    BY ConstantsAssumption, Zenon DEF KeysInv, Shape
  <2> QED BY <1>1, <2>1, <2>2, Zenon DEF Leave, Solo
<1>3. /\ op'[h] = op[h] /\ node'[h] = node[h] /\ keys'[h] = keys[h] /\ count'[h] = count[h]
      /\ peers'[h] = peers[h] /\ reach'[h] = reach[h] /\ overlap' = overlap \ {x}
  BY <1>1, <1>2, Zenon DEF Leave
<1>4. Solo(h)
  BY <1>2, <1>3, Zenon DEF Solo
<1>5. Progress(h) /\ x = callee[h] /\ pc[h] = "wait" /\ Serves(x, h)
  BY <1>1, <1>2, <1>4, SoloActor, Zenon
<1>6. pc[x] = "ok" /\ pc'[h] = "call" /\ callee'[h] = NoOne
  BY <1>1, <1>2, <1>5, Zenon DEF Leave, Solo
<1>7. \A n : Holds(n, h) => Holds(n, h)'
  BY <1>1, <1>3, Zenon DEF stores, Holds, Uploaded, Clean
<1>8. \A y \in Busy' : y = h
  <2>1. \A y \in Handler : callee[y] = x => y \in Busy
    BY ConstantsAssumption, Zenon DEF KeysInv, Shape, Busy
  <2> QED BY <1>1, <1>5, <2>1, Zenon DEF Leave, Busy, Progress
<1>9. \A n \in reach[h] \ peers[h] : Holds(n, h)
  BY <1>5, <1>6, ZenonT(40) DEF Progress, Serves
<1> QED BY <1>3, <1>6, <1>7, <1>8, <1>9, Zenon DEF Progress

\* A crash keeps the files; the registration goes on if its node and the peer
\* that it waits for did not die.
LEMMA CrashSolo ==
  ASSUME KeysInv, NEW m \in Node, Crash(m), NEW h \in Handler, Solo(h)'
  PROVE  Progress(h)'
<1> DEFINE S == {x \in Handler : node[x] = m}
<1>1. Leave(S, "error") /\ file' = file /\ eval' = [eval EXCEPT ![m] = [b \in Backend |-> NoKeys]]
  BY Zenon DEF Crash
<1>2. h \notin S /\ callee[h] \notin S /\ pc'[h] = pc[h]
  BY <1>1, Zenon DEF Leave, Solo
<1>3. /\ op'[h] = op[h] /\ node'[h] = node[h] /\ keys'[h] = keys[h] /\ count'[h] = count[h]
      /\ peers'[h] = peers[h] /\ reach'[h] = reach[h] /\ overlap' = overlap \ S /\ callee'[h] = callee[h]
  BY <1>1, <1>2, ZenonT(40) DEF Leave
<1>4. Solo(h)
  BY <1>2, <1>3, Zenon DEF Solo
<1>5. Progress(h)
  BY <1>4 DEF KeysInv
<1>6. \A n \in Node : Clean(n) => Clean(n)'
  BY <1>1, Zenon DEF Clean, KeysInv, Shape
<1>7. \A n \in Node : Holds(n, h) => Holds(n, h)'
  BY <1>1, <1>3, <1>6, Zenon DEF Holds, Uploaded
<1>8. \A y \in Busy' : y = h \/ y = callee[h]
  <2>1. \A y \in Handler : callee[y] \in S => y \in Busy
    BY ConstantsAssumption, Zenon DEF KeysInv, Shape, Busy
  <2>2. Busy' \subseteq Busy
    BY <1>1, <2>1, ZenonT(40) DEF Leave, Busy
  <2> QED BY <1>5, <2>2, Zenon DEF Progress
<1>9. pc[h] = "wait" => Serves(callee[h], h)' /\ node'[callee[h]] = node[callee[h]]
  <2> SUFFICES ASSUME pc[h] = "wait"
               PROVE  Serves(callee[h], h)' /\ node'[callee[h]] = node[callee[h]]
    OBVIOUS
  <2>1. Serves(callee[h], h)
    BY <1>5, Zenon DEF Progress
  <2> DEFINE g == callee[h]
  <2>2. callee[g] \notin S
    BY <2>1, ConstantsAssumption, ZenonT(40) DEF Serves, KeysInv, Shape
  <2>3. /\ pc'[g] = pc[g] /\ op'[g] = op[g] /\ node'[g] = node[g] /\ keys'[g] = keys[g]
        /\ total'[g] = total[g] /\ count'[g] = count[g]
    BY <1>1, <1>2, <2>1, <2>2, ZenonT(40) DEF Leave, Serves
  <2>4. pc[g] # "idle" => node[g] \in Node
    BY <2>1, ZenonT(40) DEF Serves, KeysInv, Shape
  <2>5. Serves(g, h)'
    BY <1>3, <1>6, <1>7, <2>1, <2>3, <2>4, ZenonT(40) DEF Serves
  <2> QED BY <1>3, <2>3, <2>5, Zenon
<1>10. node[h] \in Node
  BY <1>5, ZenonT(40) DEF KeysInv, Shape, Progress
<1>11. pc[h] = "put" => Clean(node[h])'
  BY <1>3, <1>5, <1>6, <1>10, Zenon DEF Progress, Clean
<1>12. pc[h] \in {"call", "wait", "ok"} =>
         \A n \in reach[h] \ peers[h] : Holds(n, h)' \/ (pc[h] = "wait" /\ n = node[callee[h]])
  <2>1. \A n \in reach[h] : n \in Node
    BY Zenon DEF KeysInv, Shape
  <2> QED BY <1>5, <1>7, <2>1, Zenon DEF Progress
<1>13. \A n : (Clean(n))' <=> \A b \in Backend : eval'[n][b] = NoKeys
  BY Zenon DEF Clean
<1> HIDE DEF S
<1> QED BY <1>2, <1>3, <1>5, <1>8, <1>9, <1>11, <1>12, <1>13 DEF Progress, Clean

-----------------------------------------------------------------------------
(* After it.                                                               *)

\* Afterwards only queries take steps.
LEMMA SettledActor ==
  ASSUME KeysInv, agreed # NoKeys, NEW x \in Handler, pc[x] # "idle"
  PROVE  /\ pc[x] \in {"lookup", "get", "insert", "ok", "error"}
         /\ op[x] = "query" /\ callee[x] = NoOne /\ node[x] \in Node
BY Zenon DEF KeysInv, Shape, Settled, Busy

LEMMA QuerySettles ==
  ASSUME KeysInv, agreed # NoKeys, NEW x \in Handler, Lookup(x) \/ Get(x) \/ Insert(x)
  PROVE  Settled'
<1> USE DEF stores, locals, history, Goto, Settled, KeysInv, Shape, Busy
<1>1. node[x] \in Node /\ pc[x] # "idle" /\ x \in Busy
  BY SettledActor, Zenon DEF Lookup, Get, Insert
<1>2. CASE Lookup(x)
  BY <1>1, <1>2, ZenonT(40) DEF Lookup
<1>3. CASE Get(x)
  <2>1. read'[x] = file[node[x]]
    BY <1>1, <1>3, ZenonT(40) DEF Get, CacheIsFile
  <2> QED BY <1>1, <1>3, <2>1, Zenon DEF Get
<1>4. CASE Insert(x)
  <2>1. node[x] \in agreed.nodes => read[x] = file[node[x]]
    BY <1>1, <1>4, Zenon DEF Insert
  <2>2. \A n \in agreed.nodes, b \in Backend : eval'[n][b] \in {NoKeys, file[n]}
    BY <1>1, <1>4, <2>1, SMTT(30) DEF Insert
  <2>3. UNCHANGED <<file, agreed, op, node, read>>
    BY <1>4, Zenon DEF Insert
  <2>4. \A y \in Handler : (y # x => pc'[y] = pc[y]) /\ pc'[x] \in {"ok", "error"}
    BY <1>1, <1>4 DEF Insert
  <2> QED BY <1>1, <2>2, <2>3, <2>4, ZenonT(40)
<1> QED BY <1>2, <1>3, <1>4, Zenon

\* The registration that returns is what settles the keys.
LEMMA ReturnSettles ==
  ASSUME KeysInv, NEW x \in Handler, Return(x), agreed' # NoKeys
  PROVE  Settled'
<1> USE DEF stores
<1>1. /\ pc[x] \in {"ok", "error"} /\ UNCHANGED stores
      /\ Leave({x}, IF pc[x] = "ok" THEN "call" ELSE "error")
  BY Zenon DEF Return
<1>2. CASE op[x] = "register" /\ pc[x] = "ok" /\ count[x] = Full /\ x \notin overlap
  <2>1. Solo(x)
    BY <1>2, Zenon DEF Solo
  <2>2. Progress(x) /\ peers[x] = {} /\ callee[x] = NoOne
    BY <1>2, <2>1, Zenon DEF KeysInv, Shape, Progress
  <2>3. reach[x] \subseteq Node /\ \A n \in reach[x] : Holds(n, x)
    BY <1>2, <2>2 DEF Progress, KeysInv, Shape
  <2>4. \A y \in Handler : y # x => pc[y] = "idle" /\ callee[y] # x
    <3>1. \A y \in Handler : y # x => pc[y] = "idle"
      BY <2>2, ConstantsAssumption, Zenon DEF Progress, Busy
    <3>2. \A y \in Handler : pc[y] = "idle" => callee[y] = NoOne
      BY Zenon DEF KeysInv, Shape
    <3> QED BY <3>1, <3>2, ConstantsAssumption, Zenon
  <2>5. Busy' = {}
    BY <1>1, <2>4, Zenon DEF Leave, Busy
  <2>6. agreed'.keys = keys[x] /\ agreed'.nodes = reach[x]
    BY <1>2 DEF Return
  <2> QED BY <1>1, <1>2, <2>3, <2>5, <2>6, ZenonT(40) DEF Settled, Holds, Uploaded, Clean
<1>3. CASE ~ (op[x] = "register" /\ pc[x] = "ok" /\ count[x] = Full /\ x \notin overlap)
  <2>1. agreed' = agreed
    BY <1>3, Zenon DEF Return
  <2>2. \A y \in Handler : callee[y] # x
    BY <2>1, SettledActor, ConstantsAssumption, ZenonT(40) DEF KeysInv, Shape
  <2>3. \A y \in Handler : /\ y \in Busy' => y \in Busy /\ y # x
                           /\ y # x => pc'[y] = pc[y] /\ op'[y] = op[y] /\ read'[y] = read[y]
                                         /\ node'[y] = node[y]
    BY <1>1, <2>2, Zenon DEF Leave, Busy
  <2>4. Busy' \subseteq Handler
    BY Zenon DEF Busy
  <2> QED BY <1>1, <2>1, <2>3, <2>4 DEF Settled, KeysInv
<1> QED BY <1>2, <1>3, Zenon

LEMMA CrashSettles ==
  ASSUME KeysInv, NEW m \in Node, Crash(m), agreed' # NoKeys
  PROVE  Settled'
<1> DEFINE S == {x \in Handler : node[x] = m}
<1>1. /\ Leave(S, "error") /\ UNCHANGED <<file, agreed>>
      /\ eval' = [eval EXCEPT ![m] = [b \in Backend |-> NoKeys]]
  BY Zenon DEF Crash
<1>2. \A y \in Handler : callee[y] \notin S
  BY <1>1, SettledActor, ConstantsAssumption, Zenon DEF KeysInv, Shape
<1>3. Busy' \subseteq Busy /\ Busy \subseteq Handler
  BY <1>1, <1>2, ZenonT(40) DEF Leave, Busy
<1>4. \A y \in Busy' : pc'[y] = pc[y] /\ op'[y] = op[y] /\ read'[y] = read[y] /\ node'[y] = node[y]
  BY <1>1, <1>2, Zenon DEF Leave, Busy
<1>5. \A n \in Node, b \in Backend : eval'[n][b] \in {NoKeys, eval[n][b]}
  BY <1>1, Zenon DEF KeysInv, Shape
<1>6. /\ agreed'.nodes \subseteq Node
      /\ \A n \in agreed'.nodes : /\ file'[n] = [keys |-> agreed'.keys, count |-> Full]
                                  /\ \A b \in Backend : eval'[n][b] \in {NoKeys, file'[n]}
  <2>1. Settled /\ UNCHANGED <<file, agreed>>
    BY <1>1, Zenon DEF KeysInv
  <2>2. \A n \in agreed'.nodes : n \in Node /\ file'[n] = [keys |-> agreed'.keys, count |-> Full]
    BY <2>1, Zenon DEF Settled
  <2>3. \A n \in agreed.nodes, b \in Backend : eval[n][b] \in {NoKeys, file[n]}
    BY <2>1, Zenon DEF Settled
  <2> QED BY <1>5, <2>1, <2>2, <2>3
<1>7. \A y \in Busy' :
        /\ pc'[y] \in {"lookup", "get", "insert", "ok", "error"} /\ op'[y] = "query"
        /\ pc'[y] = "insert" /\ node'[y] \in agreed'.nodes => read'[y] = file'[node'[y]]
  BY <1>1, <1>3, <1>4, Zenon DEF Settled, KeysInv
<1> QED BY <1>6, <1>7 DEF Settled

LEMMA SettledStep == ASSUME KeysInv, [Next]_vars, agreed' # NoKeys PROVE Settled'
<1> USE DEF stores, locals, history, Goto
<1>1. ASSUME NEW x \in Handler, StartRegister(x) PROVE Settled'
  BY <1>1, Zenon DEF StartRegister
<1>2. ASSUME NEW x \in Handler, StartQuery(x) PROVE Settled'
  <2>1. Settled /\ UNCHANGED <<file, eval, agreed, read>>
    <3>1. UNCHANGED <<file, eval, agreed, read>>
      BY <1>2, Zenon DEF StartQuery
    <3> QED BY <3>1 DEF KeysInv
  <2>2. pc'[x] = "lookup" /\ op'[x] = "query"
    BY <1>2, SMTT(30) DEF StartQuery, KeysInv, Shape
  <2>3. \A y \in Handler : y # x => pc'[y] = pc[y] /\ op'[y] = op[y] /\ node'[y] = node[y]
    BY <1>2 DEF StartQuery, KeysInv, Shape
  <2> QED BY <2>1, <2>2, <2>3 DEF Settled, Busy
<1>3. ASSUME NEW x \in Handler, pc[x] \in {"receive", "claim", "evict", "put", "call", "wait"},
             agreed' = agreed
      PROVE  Settled'
  BY <1>3, SettledActor, Zenon
<1>4. ASSUME NEW x \in Handler,
             Receive(x) \/ Claim(x) \/ Evict(x) \/ Put(x) \/ (\E g \in Handler : Call(x, g))
               \/ AllCalled(x) \/ CallFails(x)
      PROVE  pc[x] \in {"receive", "claim", "evict", "put", "call", "wait"} /\ agreed' = agreed
  BY <1>4, Zenon DEF Receive, Claim, Evict, Put, Call, AllCalled, CallFails
<1>5. ASSUME NEW x \in Handler, Lookup(x) \/ Get(x) \/ Insert(x) PROVE Settled'
  <2>1. agreed' = agreed
    BY <1>5, Zenon DEF Lookup, Get, Insert
  <2> QED BY <1>5, <2>1, QuerySettles, Zenon
<1>6. CASE UNCHANGED vars
  BY <1>6, ZenonT(40) DEF vars, KeysInv, Settled, Busy
<1> QED BY <1>1, <1>2, <1>3, <1>4, <1>5, <1>6, ReturnSettles, CrashSettles, Zenon DEF Next, Step

-----------------------------------------------------------------------------

LEMMA SoloStep ==
  ASSUME KeysInv, [Next]_vars, NEW h \in Handler, Solo(h)' PROVE Progress(h)'
<1>1. CASE UNCHANGED vars
  <2>1. UNCHANGED <<file, eval, pc, op, node, keys, total, count, peers, reach, callee, overlap>>
    BY <1>1, Zenon DEF vars, stores, locals, history
  <2>2. Solo(h) /\ Progress(h)
    BY <2>1, Zenon DEF KeysInv, Solo
  <2>3. \A n : Holds(n, h)' <=> Holds(n, h)
    BY <2>1, Zenon DEF Holds, Uploaded, Clean
  <2>4. \A g : Serves(g, h) => Serves(g, h)'
    BY <2>1, <2>3 DEF Serves, Clean
  <2> QED BY <2>1, <2>2, <2>3, <2>4 DEF Progress, Clean, Busy
<1> QED BY <1>1, ReceiveSolo, ClaimSolo, EvictSolo, PutSolo, CallSolo, AllCalledSolo, Zenon,
           CallFailsSolo, QuerySolo, StartSolo, ReturnSolo, CrashSolo DEF Next, Step

LEMMA KeysInvariance == Spec => []KeysInv
<1>1. KeysInv /\ [Next]_vars => KeysInv'
  BY ShapeStep, CacheStep, SoloStep, SettledStep DEF KeysInv
<1> QED BY <1>1, InitKeys, PTL DEF Spec

\* FileKeyringStore's read-through cache and the key file of a client never differ,
\* at any number of nodes, however Put, Get, failing writes and crashes interleave.
THEOREM CacheMirrorsFile == Spec => []CacheIsFile
<1>1. KeysInv => CacheIsFile
  BY Zenon DEF KeysInv
<1> QED BY <1>1, KeysInvariance, PTL

\* A Register of a complete upload that no other call overlapped and that returned ok
\* has left its keyset on its node and on every peer of the view it read, however
\* large, old or empty the view was, and none of them evaluates with an older one.
THEOREM RegistrationReaches == Spec => []RegisteredReachesView
<1>1. KeysInv => RegisteredReachesView
  BY DEF KeysInv, Settled, RegisteredReachesView
<1> QED BY <1>1, KeysInvariance, PTL
=============================================================================
