----------------------------- MODULE AckIndex -----------------------------
(***************************************************************************)
(* The acknowledgements and the bills of a SQL chain. A miner keeps the    *)
(* responses it gave in an index by height, moves one to the acknowledged  *)
(* ones when the client acknowledges it, packs these into its blocks,      *)
(* takes those of every block it stores out of the index, and drops what   *)
(* is older than the TTL. The index is in memory only. In turns the miners *)
(* bill the queries of the blocks they have to the main chain.             *)
(*                                                                         *)
(* A query has one response and one ack, known by the query. A miner       *)
(* produces on top of the last block only: forks are the module SQLChain.  *)
(* So is a block that comes after the next turn has begun and is dropped:  *)
(* here it is stored late.                                                 *)
(* An index that a goroutine has loaded when advance detaches it can no    *)
(* longer be reached by anyone else, so load and its use are one step. The *)
(* counters of the index are statistics and left out. All queries are of   *)
(* one user, and each costs one row.                                       *)
(***************************************************************************)
EXTENDS Integers, Sequences, FiniteSets, Functions

CONSTANTS Servers,     \* the miners, in the order of their turns
          Queries,
          QueryTTL,    \* in block periods
          Scenarios    \* bounds: the queries sent, whether they are acknowledged, the last
                       \* block period queries are sent in and the last of all, the
                       \* restarts; the failed requests of a block with queries, and
                       \* updatePeriod, or 0 where bills are left out

Nodes == Range(Servers)

ASSUME AckIndexAssumption ==
  /\ Servers \in Seq(Nodes) /\ Servers # <<>> /\ IsInjective(Servers)
  /\ QueryTTL \in Nat
  /\ Scenarios \subseteq [queries : SUBSET Queries, acked : BOOLEAN, sends : Nat,
                          until : Nat, restarts : Nat, failed : SUBSET Nat, period : Nat]

VARIABLES
  scenario,   \* the scenario
  now,        \* the block period the clock is in
  query,      \* a query: where it is, the miner that serves it, and the heights of the
              \* timestamps of its request and its response
  ack,        \* its ack: "none" yet, "taken", "refused"
  nextTurn,   \* runtime.nextTurn
  barrier,    \* ackIndex.barrier
  responses,  \* the respIndex of all heights
  acks,       \* the ackIndex of all heights
  pool,       \* the queries executed since the last block
  unready,    \* those whose tracker never gets its response
  draft,      \* the block a miner produces
  mined,      \* the blocks, in the order of the chain
  pushed,     \* how many of them a miner has stored, and whether it is at the acks of
              \* the last
  heights,    \* the channel from the main cycle to the block processor: one height in its
              \* buffer, one that the main cycle waits to send
  billed,     \* runtime.lastBillingHeight
  sent,       \* the bills on their way
  bills,      \* the bills the main chain has accepted, in order
  restarts

vars == <<scenario, now, query, ack, nextTurn, barrier, responses, acks, pool, unready, draft,
          mined, pushed, heights, billed, sent, bills, restarts>>
billVars == <<heights, billed, sent, bills>>

NoDraft == [at |-> "none", queries |-> {}, acks |-> {}, failed |-> 0]

Init ==
  /\ scenario \in Scenarios /\ now = 1
  /\ query = [q \in Queries |-> [at |-> "new", node |-> Servers[1], height |-> 0,
                                   replied |-> 0]]
  /\ ack = [q \in Queries |-> "none"]
  /\ nextTurn = [n \in Nodes |-> 1] /\ barrier = [n \in Nodes |-> 0]
  /\ responses = [n \in Nodes |-> {}] /\ acks = [n \in Nodes |-> {}]
  /\ pool = [n \in Nodes |-> {}] /\ unready = {}
  /\ draft = [n \in Nodes |-> NoDraft]
  /\ mined = <<>>
  /\ pushed = [n \in Nodes |-> [count |-> 0, half |-> FALSE]]
  /\ heights = [n \in Nodes |-> <<>>] /\ billed = [n \in Nodes |-> 0]
  /\ sent = {} /\ bills = <<>>
  /\ restarts = 0

--------------------------------------------------------------------------
(* Heights *)

\* The index is by the time of the request (Chain.AddResponse, register and remove), an ack
\* expires by the time of the response.
Height(q) == query[q].height
ResponseHeight(q) == query[q].replied
getMinValidHeight(n) == nextTurn[n] - QueryTTL
queryTimeIsExpired(n, h) == h < getMinValidHeight(n)

\* load: an index below the barrier is gone.
load(n, h) == h >= barrier[n]

\* The next block period begins.
Tick ==
  /\ now < scenario.until /\ \A n \in Nodes : nextTurn[n] > now
  /\ now' = now + 1
  /\ UNCHANGED <<scenario, query, ack, nextTurn, barrier, responses, acks, pool, unready, draft,
                 mined, pushed, billVars, restarts>>

--------------------------------------------------------------------------
(* Queries *)

\* A client sends a query to a miner: its timestamp is the time of the client.
Send(q, n) ==
  /\ query[q].at = "new" /\ q \in scenario.queries /\ now <= scenario.sends
  /\ query' = [query EXCEPT ![q] = [@ EXCEPT !.at = "sent", !.node = n, !.height = now]]
  /\ UNCHANGED <<scenario, now, ack, nextTurn, barrier, responses, acks, pool, unready, draft,
                 mined, pushed, billVars, restarts>>

\* Database.Query: it is executed, which gives the response its timestamp, and waits for
\* its block.
Query(q) ==
  /\ query[q].at = "sent"
  /\ query' = [query EXCEPT ![q].at = "done", ![q].replied = now]
  /\ pool' = [pool EXCEPT ![query[q].node] = @ \union {q}]
  /\ UNCHANGED <<scenario, now, ack, nextTurn, barrier, responses, acks, unready, draft, mined,
                 pushed, billVars, restarts>>

\* addResponse at a height, to the responses S of a miner.
addResponse(n, q, S) == IF load(n, Height(q)) THEN S \union {q} ELSE S

\* The rest of it: the response is added to the index and given to the tracker and the
\* client. When it cannot be added the client gets an error, and the tracker nothing.
AddResponse(q) ==
  LET n == query[q].node IN
  /\ query[q].at = "done"
  /\ responses' = [responses EXCEPT ![n] = addResponse(n, q, @)]
  /\ IF load(n, Height(q))
     THEN /\ query' = [query EXCEPT ![q].at = "answered"] /\ UNCHANGED unready
     ELSE /\ query' = [query EXCEPT ![q].at = "failed"]
          /\ unready' = unready \union {q}
  /\ UNCHANGED <<scenario, now, ack, nextTurn, barrier, acks, pool, draft, mined, pushed,
                 billVars, restarts>>

\* register would take the ack of q.
Registers(n, q) == load(n, Height(q)) /\ q \in responses[n]

\* pushAckedQuery: the ack of a known response takes its place in the index. What is put
\* into txDB is never read into the index again.
pushAckedQuery(n, q) ==
  \/ /\ Registers(n, q)
     /\ ack' = [ack EXCEPT ![q] = "taken"]
     /\ responses' = [responses EXCEPT ![n] = @ \ {q}]
     /\ acks' = [acks EXCEPT ![n] = @ \union {q}]
  \/ /\ ~Registers(n, q)
     /\ ack' = [ack EXCEPT ![q] = "refused"]
     /\ UNCHANGED <<responses, acks>>

\* VerifyAndPushAckedQuery, when the ack of a client that has the response arrives: the ack
\* of an expired response, or one whose response is not in the index, is refused.
VerifyAndPushAckedQuery(q) ==
  LET n == query[q].node IN
  /\ query[q].at \in {"answered", "forgotten"} /\ ack[q] = "none" /\ scenario.acked
  /\ IF queryTimeIsExpired(n, ResponseHeight(q))
     THEN ack' = [ack EXCEPT ![q] = "refused"] /\ UNCHANGED <<responses, acks>>
     ELSE pushAckedQuery(n, q)
  /\ UNCHANGED <<scenario, now, query, nextTurn, barrier, pool, unready, draft, mined, pushed,
                 billVars, restarts>>

--------------------------------------------------------------------------
(* Blocks *)

\* It is the turn of the miner, and it stands on the last block.
MyTurn(n) ==
  /\ Servers[(nextTurn[n] % Len(Servers)) + 1] = n
  /\ pushed[n] = [count |-> Len(mined), half |-> FALSE]

\* produceBlock: CommitEx takes the pool. Without a query there is a block if a request
\* failed, which may be the case at any time.
CommitEx(n) ==
  /\ nextTurn[n] <= now /\ draft[n].at = "none" /\ Len(heights[n]) < 2
  /\ MyTurn(n)
  /\ \E f \in IF pool[n] = {} THEN {1} ELSE scenario.failed :
       draft' = [draft EXCEPT ![n] = [NoDraft EXCEPT !.at = "taken", !.queries = pool[n],
                                                     !.failed = f]]
  /\ pool' = [pool EXCEPT ![n] = {}]
  /\ UNCHANGED <<scenario, now, query, ack, nextTurn, barrier, responses, acks, unready, mined,
                 pushed, billVars, restarts>>

\* ackIndex.acks.
acksTo(n, h) == {q \in acks[n] : Height(q) \in barrier[n]..h}

\* The acks for the block are read.
ReadAcks(n) ==
  /\ draft[n].at = "taken"
  /\ draft' = [draft EXCEPT ![n].at = "packed", ![n].acks = acksTo(n, now)]
  /\ UNCHANGED <<scenario, now, query, ack, nextTurn, barrier, responses, acks, pool, unready,
                 mined, pushed, billVars, restarts>>

\* The rest of produceBlock: it waits for the responses of the queries, for ever if one
\* never comes. The block goes to the block processor and to the other miners.
produceBlock(n) ==
  /\ draft[n].at = "packed"
  /\ \A q \in draft[n].queries : query[q].at = "answered"
  /\ mined' = Append(mined, [queries |-> draft[n].queries, acks |-> draft[n].acks,
                             failed |-> draft[n].failed, by |-> n, height |-> nextTurn[n]])
  /\ draft' = [draft EXCEPT ![n] = [NoDraft EXCEPT !.at = "sent"]]
  /\ UNCHANGED <<scenario, now, query, ack, nextTurn, barrier, responses, acks, pool, unready,
                 pushed, billVars, restarts>>

advancePast(n, h) ==
  /\ barrier' = [barrier EXCEPT ![n] = h]
  /\ responses' = [responses EXCEPT ![n] = {q \in @ : Height(q) > h}]
  /\ acks' = [acks EXCEPT ![n] = {q \in @ : Height(q) > h}]

\* advance: the indexes below the new barrier are dropped.
advance(n, h) ==
  /\ barrier' = [barrier EXCEPT ![n] = h]
  /\ responses' = [responses EXCEPT ![n] = {q \in @ : Height(q) >= h}]
  /\ acks' = [acks EXCEPT ![n] = {q \in @ : Height(q) >= h}]

\* The end of runCurrentTurn, with a block or without one. The main cycle waits while the
\* channel is full.
runCurrentTurn(n) ==
  /\ nextTurn[n] <= now /\ draft[n].at \in {"none", "sent"} /\ Len(heights[n]) < 2
  /\ draft' = [draft EXCEPT ![n] = NoDraft]
  /\ nextTurn' = [nextTurn EXCEPT ![n] = @ + 1]
  /\ advance(n, nextTurn[n] + 1 - QueryTTL)
  /\ heights' = IF scenario.period = 0 THEN heights
                ELSE [heights EXCEPT ![n] = Append(@, nextTurn[n])]
  /\ UNCHANGED <<scenario, now, query, ack, pool, unready, mined, pushed, billed, sent, bills,
                 restarts>>

\* A block is stashed while its height is not over, and until the processor has read its
\* height; the block of another miner may also arrive after its height is over.
Stashed(n, b) ==
  \/ b.height >= nextTurn[n]
  \/ b.by = n /\ b.height \in Range(heights[n])

\* pushBlock: the block is stored, and the responses to its queries are added.
pushBlock(n) ==
  /\ pushed[n].count < Len(mined) /\ ~pushed[n].half
  /\ ~Stashed(n, mined[pushed[n].count + 1])
  /\ pushed' = [pushed EXCEPT ![n] = [count |-> @.count + 1, half |-> TRUE]]
  /\ responses' = [responses EXCEPT ![n] =
                     @ \union {q \in mined[pushed'[n].count].queries : load(n, Height(q))}]
  /\ UNCHANGED <<scenario, now, query, ack, nextTurn, barrier, acks, pool, unready, draft, mined,
                 billVars, restarts>>

removeHeights(n, S) ==
  LET gone == {q \in Queries : \E a \in S : Height(a) = Height(q)} IN
  /\ responses' = [responses EXCEPT ![n] = @ \ S]
  /\ acks' = [acks EXCEPT ![n] = @ \ gone]

\* multiAckIndex.remove: the response if there is one, and only otherwise the ack.
remove(n, S) ==
  /\ responses' = [responses EXCEPT ![n] = @ \ S]
  /\ acks' = [acks EXCEPT ![n] = @ \ (S \ responses[n])]

\* The rest of it: its acks are taken out of the index.
removeAcks(n) ==
  /\ pushed[n].half
  /\ pushed' = [pushed EXCEPT ![n].half = FALSE]
  /\ remove(n, mined[pushed[n].count].acks)
  /\ UNCHANGED <<scenario, now, query, ack, nextTurn, barrier, pool, unready, draft, mined,
                 billVars, restarts>>

--------------------------------------------------------------------------
(* Bills *)

\* The heights a bill covers.
getLastBillingHeight(n) == billed[n]
InRange(n, h, b) == getLastBillingHeight(n) < b.height /\ b.height <= h

\* The entries a block adds to those of newer ones. A failed request whose block is by a
\* miner without an entry clears the entries of all.
AddIncome(income, b) ==
  LET txs == [n \in Nodes |-> income[n] + Cardinality({q \in b.queries : query[q].node = n})]
  IN IF b.failed = 0 THEN txs
     ELSE IF txs[b.by] = 0 THEN [n \in Nodes |-> IF n = b.by THEN b.failed ELSE 0]
     ELSE [txs EXCEPT ![b.by] = @ + b.failed]

\* billing: from the head back to the last height billed.
billing(n, h) ==
  LET blocks == {i \in 1..pushed[n].count : InRange(n, h, mined[i])}
      queries == UNION {mined[i].queries : i \in blocks}
      oldest(S) == CHOOSE i \in S : \A j \in S : i <= j
  IN [by |-> n, from |-> getLastBillingHeight(n), to |-> h, queries |-> queries,
      cost |-> Cardinality(queries)
                 + MapThenFoldSet(+, 0, LAMBDA i : mined[i].failed, oldest, blocks),
      income |-> MapThenFoldSet(LAMBDA b, income : AddIncome(income, b), [m \in Nodes |-> 0],
                                LAMBDA i : mined[i], oldest, blocks)]

\* It is the turn of the miner to bill.
isMyTurnBilling(n, h) ==
  /\ h % scenario.period = 0
  /\ Servers[((h \div scenario.period) % Len(Servers)) + 1] = n

\* processBlocks reads a height, and bills in its turn. A bill that cannot be sent is lost.
ReadHeight(n) ==
  /\ heights[n] # <<>> /\ ~pushed[n].half
  /\ heights' = [heights EXCEPT ![n] = Tail(@)]
  /\ \/ UNCHANGED sent
     \/ isMyTurnBilling(n, Head(heights[n])) /\ sent' = sent \union {billing(n, Head(heights[n]))}
  /\ UNCHANGED <<scenario, now, query, ack, nextTurn, barrier, responses, acks, pool, unready,
                 draft, mined, pushed, billed, bills, restarts>>

\* The height up to which the first k bills accepted have billed.
LastUpdatedHeight(k) == IF k = 0 THEN 0 ELSE bills[k].to

ValidAnyRange(b) == b.from < b.to

\* The range of a bill begins where the last one ended.
ValidRange(b) == b.from < b.to /\ b.from = LastUpdatedHeight(Len(bills))

\* The main chain accepts a bill on its way, in any order.
updateBilling(b) ==
  /\ b \in sent /\ ValidRange(b)
  /\ sent' = sent \ {b} /\ bills' = Append(bills, b)
  /\ UNCHANGED <<scenario, now, query, ack, nextTurn, barrier, responses, acks, pool, unready,
                 draft, mined, pushed, heights, billed, restarts>>

\* A miner hears of a bill, and sets what the profile says by then.
SetLastBillingHeight(n) ==
  /\ \E k \in 1..Len(bills) : /\ LastUpdatedHeight(k) > billed[n]
                             /\ billed' = [billed EXCEPT ![n] = LastUpdatedHeight(k)]
  /\ UNCHANGED <<scenario, now, query, ack, nextTurn, barrier, responses, acks, pool, unready,
                 draft, mined, pushed, heights, sent, bills, restarts>>

--------------------------------------------------------------------------

\* A miner restarts: the index and the pool are empty, and the profile says what is billed.
Restart(n) ==
  /\ restarts < scenario.restarts /\ restarts' = restarts + 1
  /\ query' = [q \in Queries |->
                 CASE query[q].node = n /\ query[q].at = "done" ->
                        [query[q] EXCEPT !.at = "failed"]
                   [] query[q].node = n /\ query[q].at = "answered" ->
                        [query[q] EXCEPT !.at = "forgotten"]
                   [] OTHER -> query[q]]
  /\ barrier' = [barrier EXCEPT ![n] = 0]
  /\ responses' = [responses EXCEPT ![n] = {}] /\ acks' = [acks EXCEPT ![n] = {}]
  /\ pool' = [pool EXCEPT ![n] = {}] /\ draft' = [draft EXCEPT ![n] = NoDraft]
  /\ pushed' = [pushed EXCEPT ![n].half = FALSE]
  /\ heights' = [heights EXCEPT ![n] = <<>>]
  /\ \E k \in 0..Len(bills) : billed' = [billed EXCEPT ![n] = LastUpdatedHeight(k)]
  /\ UNCHANGED <<scenario, now, ack, nextTurn, unready, mined, sent, bills>>

Next ==
  \/ Tick
  \/ \E q \in Queries : \/ \E n \in Nodes : Send(q, n)
                        \/ Query(q) \/ AddResponse(q) \/ VerifyAndPushAckedQuery(q)
  \/ \E n \in Nodes : \/ CommitEx(n) \/ ReadAcks(n) \/ produceBlock(n)
                      \/ runCurrentTurn(n) \/ pushBlock(n) \/ removeAcks(n)
                      \/ ReadHeight(n) \/ SetLastBillingHeight(n) \/ Restart(n)
  \/ \E b \in sent : updateBilling(b)

Spec == Init /\ [][Next]_vars

--------------------------------------------------------------------------
(* Properties *)

SumSeq(s) == FoldFunction(+, 0, s)

\* An ack is taken, whatever blocks are pushed in the meantime, as long as the time of the
\* request is not expired and the miner has not restarted: it passes the check of the
\* response's time in VerifyAndPushAckedQuery, and the index still has the response. The
\* time of the response alone is no such promise: where it came in a later period, there
\* are turns in which it is not expired and advance has dropped it with its request.
AckWillFind ==
  \A q \in Queries : LET n == query[q].node IN
    /\ query[q].at = "answered" /\ ack[q] = "none"
    /\ ~queryTimeIsExpired(n, Height(q))
    => ~queryTimeIsExpired(n, ResponseHeight(q)) /\ Registers(n, q)

\* An ack leaves the index of the miner that took it only when a block with it is
\* stored, when it expires, or in a restart.
NoAckLost ==
  [][\A n \in Nodes : \A q \in acks[n] \ acks'[n] :
       \/ pushed[n].half /\ q \in mined[pushed[n].count].acks
       \/ Height(q) < barrier'[n]
       \/ restarts' # restarts]_vars

\* No query is charged by two of the bills that the main chain has accepted.
NoDoubleCharge ==
  \A i, j \in DOMAIN bills : i # j => bills[i].queries \cap bills[j].queries = {}

\* A query is charged by at most one of the bills that the main chain accepts, whoever sent
\* them, late or after another was lost, and whichever height the sender took for the last
\* one billed. What is charged was spent in blocks, and the miners are not credited with
\* more than is charged.
ChargedOnce ==
  /\ NoDoubleCharge
  /\ SumSeq([i \in DOMAIN bills |-> bills[i].cost])
       <= SumSeq([i \in DOMAIN mined |-> Cardinality(mined[i].queries) + mined[i].failed])
  /\ \A i \in DOMAIN bills : FoldFunction(+, 0, bills[i].income) <= bills[i].cost

=============================================================================
