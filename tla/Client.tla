------------------------------ MODULE Client ------------------------------
(***************************************************************************)
(* A node as a client: the connections of the driver (module Conn), the    *)
(* pools below their calls (module Pool), and the directory that tells     *)
(* where a pool has to dial (module Directory). A layer takes from the one *)
(* below it only that something returns or fails, so a behaviour exercises *)
(* one of the three: the scenario gives the work.                          *)
(***************************************************************************)
EXTENDS Conn, Pool, Directory

CONSTANT Scenarios   \* bounds: how many operations of a thread, and which, and failures;
                     \* the pool and its users; who does what in the directory

ASSUME ClientAssumption ==
  \A s \in Scenarios : s.members \union s.clients \union s.askers \union s.diallers \subseteq Nodes

VARIABLES scenario, ops

vars == <<scenario, ops, connVars, poolVars, dirVars>>

Init ==
  /\ scenario \in Scenarios
  /\ ops = scenario.ops
  /\ ConnInit /\ PoolInit /\ DirInit
  /\ faults = scenario.faults
  /\ pool = scenario.pool /\ role = scenario.role /\ troubles = scenario.troubles
  /\ order = scenario.order /\ spot = scenario.spot /\ upsets = scenario.upsets

--------------------------------------------------------------------------
(* The application *)

\* Thread t does something, if it has not done all of its scenario.
Operation(t) ==
  /\ ops[t] > 0 /\ ops' = [ops EXCEPT ![t] = @ - 1]
  /\ \/ "begin" \in scenario.does /\ BeginTx(t)
     \/ "write" \in scenario.does /\ ExecContext(t)
     \/ "read" \in scenario.does /\ QueryContext(t)

\* It can always end what it has begun.
Ending(t) ==
  /\ (newConn(t) /\ ops[t] > 0) \/ Commit(t) \/ Rollback(t) \/ Close(t)
  /\ UNCHANGED ops

ThreadStep(t) == CallFails(t) \/ CallReturns(t) \/ CloseEnds(t)
Leader(s) == Check(s) \/ recordSequence(s) \/ Execute(s) \/ Read(s)
Worker(t, p) == ackWorker(t, p) \/ AckEnds(t, p)

ConnStep ==
  \/ \E t \in Threads : ThreadStep(t) \/ \E p \in Peers : Worker(t, p)
  \/ \E s \in 1..Len(request) : Leader(s)

DirStep ==
  \/ \E b \in BPs : BPStep(b)
  \/ \E n \in scenario.members : Member(n)
  \/ \E n \in scenario.clients : DriverNode(n)
  \/ \E n \in scenario.askers, b \in BPs : GetCurrentBP(n, b)
  \/ \E n \in scenario.diallers : Dialler(n)

Next ==
  \/ /\ \E t \in Threads : Operation(t) \/ Ending(t)
     /\ UNCHANGED <<scenario, poolVars, dirVars>>
  \/ ConnStep /\ UNCHANGED <<scenario, ops, poolVars, dirVars>>
  \/ pool # "none" /\ PoolNext /\ UNCHANGED <<scenario, ops, connVars, dirVars>>
  \/ DirStep /\ UNCHANGED <<scenario, ops, connVars, poolVars>>

\* Callers call again and again, a call ends, and smux finds out that a connection is
\* broken, at the latest by its keepalive. The goroutines of RegisterNodeToBP go on, what a
\* block producer handles ends, and one that has crashed is started again.
Fairness ==
  /\ \A u \in Users :
       WF_poolVars(pool # "none" /\ (BeginCall(u) \/ CallOk(u) \/ CallEOF(u) \/ Reconnect(u)))
  /\ WF_poolVars(\E i \in Conns : Notice(i))
  /\ WF_dirVars(\E n \in scenario.members \union scenario.clients, b \in BPs :
                  Ping(n, b) \/ (PingFails(n, b) /\ ping[n][b] = "sleeping"))
  /\ WF_dirVars(\E b \in BPs : AddEnds(b) \/ InitConsistent(b))

Spec == Init /\ [][Next]_vars /\ Fairness

--------------------------------------------------------------------------
(* Properties *)

Calling == {t \in Threads : conn[t].at = "call"}

\* A batch of writes is executed at most once.
AtMostOnce(writes) ==
  \A i, j \in 1..Len(applied) : applied[i] = writes /\ applied[j] = writes => i = j

\* What the application is told is what happens to its writes: a unit that ended well was
\* executed once and as a whole, one that failed at most once, one rolled back never, and
\* nothing else is ever executed. When Close has returned, the ack of each unit that ended
\* well was sent, or dropped after an error.
Outcomes ==
  /\ \A t \in Threads : \A i \in 1..Len(units[t]) :
       LET u == units[t][i] IN
       /\ u.how = "ok" => u.writes \in Range(applied) /\ AtMostOnce(u.writes)
       /\ u.how = "error" => AtMostOnce(u.writes)
       /\ u.how = "rollback" => \A b \in Range(applied) : Range(b) \cap Range(u.writes) = {}
  /\ \A b \in Range(applied) :
       \/ \E t \in Threads : \E i \in 1..Len(units[t]) : units[t][i].writes = b
       \/ \E t \in Calling : request[conn[t].call].queries = b
  /\ \A t \in Threads : conn[t].at = "closed" =>
       \A i \in 1..Len(units[t]) : units[t][i].how = "ok" =>
         \E s \in acked : request[s].queries = units[t][i].writes

\* A write that is checked after a later write of its connection id was recorded is not
\* executed: unless the check of two writes of the id at once made the number go down.
LateRefused == \A s \in 1..Len(request) : ~(request[s].late /\ request[s].at = "done")

\* A connection of the free list has no user, and is there once; no two users share one.
\* No open connection is forgotten: it is in a pool, or has a user.
Exclusive ==
  /\ pool = "direct" =>
       /\ IsInjective(free) /\ Range(free) \cap InUse = {}
       /\ \A u, v \in Users : u # v /\ client[u].raw # 0 => client[u].raw # client[v].raw
  /\ \A i \in Conns : wire[i] \in {"up", "broken"} => i \in Known

\* The ids of a set clockwise from a hash, each once.
Clockwise(ids, key) ==
  LET k == key % Len(order)
      around == SelectSeq(SubSeq(order, k + 1, Len(order)) \o SubSeq(order, 1, k),
                          LAMBDA x : x \in ids)
  IN SelectSeq([i \in 1..Len(around) |-> IF \A j \in 1..(i - 1) : around[j] # around[i]
                                         THEN around[i] ELSE "again"],
               LAMBDA x : x # "again")

\* What a block producer has on its ring is what it has on disk, or is about to be. A node
\* whose ping was answered is there with its address, whatever crashes, and a node whose
\* registration succeeded is known to some block producer.
Registered ==
  /\ \A b \in up : circle[b] # store[b] => adding[b] # NoNode
  /\ \A n \in Nodes, b \in BPs :
       ping[n][b] = "done" => n \in DOMAIN store[b] /\ store[b][n] = addr[n]
  /\ \A n \in Nodes : reg[n] = "ok" => \E b \in BPs : ping[n][b] = "done"

\* Ring and table agree, and what is answered is there (Registered). Without a filter
\* GetNeighborsEx gives the nearest nodes of the ring, in order; and the chief block producer
\* of a node is the nearest, whichever it asked and whoever else was on the ring.
Ring ==
  /\ Registered
  /\ \A b \in up, n \in scenario.askers, k \in 1..3 :
       LET near == Clockwise(DOMAIN circle[b], spot[n]) IN
       GetNeighborsEx(circle[b], spot[n], k, {}) =
         SubSeq(near, 1, IF k < Len(near) THEN k ELSE Len(near))
  /\ \A n \in scenario.askers :
       currentBP[n] \in BPs => currentBP[n] = Clockwise(BPs, spot[n])[1]

\* A dial fails for want of a key or an address only if no block producer could have told
\* all the time it asked.
LookupFails ==
  [][\A n \in scenario.diallers :
       dial[n].at \in {"key", "addr", "accept"} /\ dial'[n].at = "failed"
         => dial'[n].able = {}]_vars

\* Failures are got over. When nothing breaks any more, the calls of a PersistentCaller that
\* is not closed succeed; and the goroutines of RegisterNodeToBP get through to their block
\* producers, but for those with a reader that holds the ring for ever.
Recovers ==
  /\ <>[](\A u \in Users : role[u] = "persistent" => user[u].at = "closed" \/ user[u].last = "ok")
  /\ []<>(\A n \in scenario.members, b \in BPs : ping[n][b] \in {"none", "done"} \/ b \in stuck)

\* Every call of GetNeighborsEx for the nearest block producer comes to an end.
NClosest == stuck = {}
=============================================================================
