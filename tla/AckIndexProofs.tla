--------------------------- MODULE AckIndexProofs ---------------------------
(***************************************************************************)
(* Proofs about AckIndex: the ack of an answered query finds its response, *)
(* the index loses no ack, and no query is charged twice.                  *)
(***************************************************************************)
EXTENDS AckIndex, TLAPS

-----------------------------------------------------------------------------
(***************************************************************************)
(* The inductive invariant.                                                *)
(***************************************************************************)
QueryStages == {"new", "sent", "done", "answered", "failed", "forgotten"}
QueryRecords == [at : QueryStages, node : Nodes, height : Nat, replied : Nat]
Drafts == [at : {"none", "taken", "packed", "sent"}, queries : SUBSET Queries,
           acks : SUBSET Queries, failed : Nat]
Blocks == [queries : SUBSET Queries, acks : SUBSET Queries, failed : Nat, by : Nodes,
           height : Nat]

\* Every variable has the type its Go counterpart has; of a bill the sums are left open.
TypeOK ==
  /\ scenario \in Scenarios
  /\ now \in Nat \ {0}
  /\ query \in [Queries -> QueryRecords]
  /\ ack \in [Queries -> {"none", "taken", "refused"}]
  /\ nextTurn \in [Nodes -> Nat]
  /\ barrier \in [Nodes -> Int]
  /\ responses \in [Nodes -> SUBSET Queries]
  /\ acks \in [Nodes -> SUBSET Queries]
  /\ pool \in [Nodes -> SUBSET Queries]
  /\ draft \in [Nodes -> Drafts]
  /\ mined \in Seq(Blocks)
  /\ pushed \in [Nodes -> [count : Nat, half : BOOLEAN]]
  /\ heights \in [Nodes -> Seq(Nat)]
  /\ billed \in [Nodes -> Nat]
  /\ restarts \in Nat

\* What the miners pack and take out of the index are acks that were taken.
TakenInv ==
  /\ \A n \in Nodes : \A q \in acks[n] \cup draft[n].acks : ack[q] = "taken"
  /\ \A i \in 1..Len(mined) : \A q \in mined[i].acks : ack[q] = "taken"

\* A miner has stored blocks of the chain, and at least the one whose acks it is at.
PushInv ==
  \A n \in Nodes : pushed[n].count <= Len(mined) /\ (pushed[n].half => pushed[n].count >= 1)

\* The barrier of the index is at most the oldest height that is not expired.
BarrierInv ==
  /\ \A n \in Nodes : barrier[n] <= 0 \/ barrier[n] <= getMinValidHeight(n)
  /\ \A q \in Queries : query[q].at # "new" => Height(q) > 0

\* A query is sent in the past, and its response comes after it.
TimeInv ==
  \A q \in Queries :
    /\ query[q].height <= now
    /\ query[q].at \notin {"new", "sent"} => query[q].height <= query[q].replied

\* A response that is not acknowledged stays until its request expires.
Waits(q) ==
  query[q].at = "answered" /\ ack[q] = "none" /\ ~queryTimeIsExpired(query[q].node, Height(q))
    => q \in responses[query[q].node]

FindInv == \A q \in Queries : Waits(q)

\* A query that was executed is in one place: the pool or the block of its miner, or one
\* block of the chain.
Executed(q) == query[q].at \notin {"new", "sent"}
InChain(q) == \E i \in 1..Len(mined) : q \in mined[i].queries

PlaceInv ==
  /\ \A n \in Nodes : \A q \in pool[n] :
       Executed(q) /\ query[q].node = n /\ q \notin draft[n].queries /\ ~InChain(q)
  /\ \A n \in Nodes : \A q \in draft[n].queries :
       Executed(q) /\ query[q].node = n /\ ~InChain(q)
  /\ \A i \in 1..Len(mined) : \A q \in mined[i].queries :
       Executed(q) /\ \A j \in 1..Len(mined) : q \in mined[j].queries => j = i

\* A bill charges queries of blocks in its range.
Charges(b) ==
  /\ b.from \in Nat /\ b.to \in Nat
  /\ \A q \in b.queries : \E i \in 1..Len(mined) :
       q \in mined[i].queries /\ b.from < mined[i].height /\ mined[i].height <= b.to

\* The ranges of the bills follow one another.
BillInv ==
  /\ \E S : bills \in Seq(S)
  /\ \A b \in sent : Charges(b)
  /\ \A i \in 1..Len(bills) : Charges(bills[i]) /\ bills[i].from < bills[i].to
  /\ \A i, j \in 1..Len(bills) : i < j => bills[i].to <= bills[j].from

IInv ==
  /\ TypeOK
  /\ TakenInv
  /\ PushInv
  /\ BarrierInv
  /\ TimeInv
  /\ FindInv
  /\ PlaceInv
  /\ BillInv

-----------------------------------------------------------------------------
(***************************************************************************)
(* Types.                                                                  *)
(***************************************************************************)
\* A query is known by its fields.
USE DEF QueryRecords

\* An update of a function by a value of its range.
LEMMA Update ==
  ASSUME NEW A, NEW T, NEW f \in [A -> T], NEW a \in A, NEW v \in T
  PROVE  [f EXCEPT ![a] = v] \in [A -> T]
  BY Zenon

\* A block that is not produced is empty.
LEMMA NoDraftFact == NoDraft \in Drafts /\ NoDraft.queries = {} /\ NoDraft.acks = {}
  BY Zenon DEF NoDraft, Drafts

\* There is a first miner.
LEMMA FirstServer == Servers[1] \in Nodes
<1>1. Servers \in Seq(Nodes) /\ Servers # <<>>
  BY AckIndexAssumption, Zenon
<1> QED
  BY <1>1

\* A scenario bounds the run.
LEMMA ScenarioFact == \A s \in Scenarios : s.failed \subseteq Nat
  BY AckIndexAssumption, Zenon

\* The initial values have their types.
LEMMA TypeInit == Init => TypeOK
<1> SUFFICES ASSUME Init PROVE TypeOK
  BY Zenon
<1>1. query \in [Queries -> QueryRecords]
  BY FirstServer, Zenon DEF Init, QueryStages
<1>2. draft \in [Nodes -> Drafts]
  BY NoDraftFact, Zenon DEF Init
<1>3. mined \in Seq(Blocks) /\ heights \in [Nodes -> Seq(Nat)]
  BY DEF Init
<1> QED
  BY <1>1, <1>2, <1>3 DEF Init, TypeOK

\* What a query becomes.
LEMMA QueryTypes ==
  ASSUME TypeOK, Next
  PROVE  query' \in [Queries -> QueryRecords]
<1>1. query \in [Queries -> QueryRecords] /\ now \in Nat
  BY Zenon DEF TypeOK
<1>2. ASSUME NEW q \in Queries, NEW n \in Nodes, Send(q, n)
      PROVE  query' \in [Queries -> QueryRecords]
  BY <1>1, <1>2, Zenon DEF Send, QueryStages
<1>3. ASSUME NEW q \in Queries, Query(q) \/ AddResponse(q) \/ VerifyAndPushAckedQuery(q)
      PROVE  query' \in [Queries -> QueryRecords]
  BY <1>1, <1>3 DEF Query, AddResponse, VerifyAndPushAckedQuery, QueryStages
<1>4. ASSUME NEW n \in Nodes, Restart(n)
      PROVE  query' \in [Queries -> QueryRecords]
  <2>1. ASSUME NEW q \in Queries
        PROVE  query'[q] \in QueryRecords
    BY <1>1, <1>4, Zenon DEF Restart, QueryStages
  <2>2. query' = [q \in Queries |-> query'[q]]
    BY <1>4, Zenon DEF Restart
  <2> QED
    BY <2>1, <2>2, Zenon
<1> QED
  BY <1>1, <1>2, <1>3, <1>4, Zenon DEF Next, Tick, CommitEx, ReadAcks, produceBlock,
     runCurrentTurn, pushBlock, removeAcks, ReadHeight, SetLastBillingHeight, updateBilling

\* What a restart leaves of the index.
LEMMA RestartFact ==
  ASSUME NEW n \in Nodes, Restart(n)
  PROVE  /\ barrier' = [barrier EXCEPT ![n] = 0]
         /\ responses' = [responses EXCEPT ![n] = {}] /\ acks' = [acks EXCEPT ![n] = {}]
         /\ pool' = [pool EXCEPT ![n] = {}] /\ draft' = [draft EXCEPT ![n] = NoDraft]
         /\ pushed' = [pushed EXCEPT ![n].half = FALSE]
         /\ UNCHANGED <<ack, nextTurn, mined, sent, bills>>
  BY Zenon DEF Restart

\* What the index becomes.
LEMMA IndexTypes ==
  ASSUME TypeOK, Next
  PROVE  /\ ack' \in [Queries -> {"none", "taken", "refused"}]
         /\ nextTurn' \in [Nodes -> Nat]
         /\ barrier' \in [Nodes -> Int]
         /\ responses' \in [Nodes -> SUBSET Queries]
         /\ acks' \in [Nodes -> SUBSET Queries]
<1> DEFINE Goal == /\ ack' \in [Queries -> {"none", "taken", "refused"}]
                   /\ nextTurn' \in [Nodes -> Nat]
                   /\ barrier' \in [Nodes -> Int]
                   /\ responses' \in [Nodes -> SUBSET Queries]
                   /\ acks' \in [Nodes -> SUBSET Queries]
<1>1. /\ ack \in [Queries -> {"none", "taken", "refused"}]
      /\ nextTurn \in [Nodes -> Nat]
      /\ barrier \in [Nodes -> Int]
      /\ responses \in [Nodes -> SUBSET Queries]
      /\ acks \in [Nodes -> SUBSET Queries]
      /\ mined \in Seq(Blocks)
      /\ pushed \in [Nodes -> [count : Nat, half : BOOLEAN]]
  BY Zenon DEF TypeOK
<1>2. ASSUME NEW q \in Queries, AddResponse(q) PROVE Goal
  <2>1. responses' = responses
          \/ responses' = [responses EXCEPT ![query[q].node] = @ \union {q}]
    BY <1>1, <1>2, Zenon DEF AddResponse, addResponse
  <2>2. UNCHANGED <<ack, nextTurn, barrier, acks>>
    BY <1>2, Zenon DEF AddResponse
  <2>3. query[q].node \in Nodes
    BY Zenon DEF TypeOK
  <2>4. responses[query[q].node] \union {q} \in SUBSET Queries
    BY <1>1, <2>3, Zenon
  <2>5. responses' \in [Nodes -> SUBSET Queries]
    BY <1>1, <2>1, <2>3, <2>4, Update, Zenon
  <2> QED
    BY <1>1, <2>2, <2>5, Zenon
<1>7. ASSUME NEW q \in Queries, VerifyAndPushAckedQuery(q) PROVE Goal
  <2> DEFINE n == query[q].node
  <2>1. n \in Nodes
    BY Zenon DEF TypeOK
  <2>2. ack' = [ack EXCEPT ![q] = "refused"] \/ ack' = [ack EXCEPT ![q] = "taken"]
    BY <1>7, Zenon DEF VerifyAndPushAckedQuery, pushAckedQuery
  <2>3. responses' = responses \/ responses' = [responses EXCEPT ![n] = @ \ {q}]
    BY <1>7, Zenon DEF VerifyAndPushAckedQuery, pushAckedQuery
  <2>4. acks' = acks \/ acks' = [acks EXCEPT ![n] = @ \union {q}]
    BY <1>7, Zenon DEF VerifyAndPushAckedQuery, pushAckedQuery
  <2>5. responses[n] \ {q} \in SUBSET Queries /\ acks[n] \union {q} \in SUBSET Queries
    BY <1>1, <2>1, Zenon
  <2>6. responses' \in [Nodes -> SUBSET Queries]
    BY <1>1, <2>1, <2>3, <2>5, Update, Zenon
  <2>7. acks' \in [Nodes -> SUBSET Queries]
    BY <1>1, <2>1, <2>4, <2>5, Update, Zenon
  <2>8. ack' \in [Queries -> {"none", "taken", "refused"}]
    BY <1>1, <2>2, Zenon
  <2>9. UNCHANGED <<nextTurn, barrier>>
    BY <1>7, Zenon DEF VerifyAndPushAckedQuery
  <2> QED
    BY <1>1, <2>6, <2>7, <2>8, <2>9, Zenon
<1>3. ASSUME NEW n \in Nodes, runCurrentTurn(n) PROVE Goal
  <2>1. nextTurn[n] \in Nat /\ nextTurn[n] + 1 - QueryTTL \in Int
    BY <1>1, AckIndexAssumption
  <2> QED
    BY <1>1, <1>3, <2>1 DEF runCurrentTurn, advance
<1>4. ASSUME NEW n \in Nodes, pushBlock(n) PROVE Goal
  <2>1. pushed'[n].count = pushed[n].count + 1 /\ pushed[n].count + 1 \in 1..Len(mined)
    BY <1>1, <1>4 DEF pushBlock
  <2>2. mined[pushed'[n].count] \in Blocks
    BY <1>1, <2>1
  <2>3. mined[pushed'[n].count].queries \subseteq Queries
    BY <2>2, Zenon DEF Blocks
  <2> QED
    BY <1>1, <1>4, <2>3, Zenon DEF pushBlock
<1>5. ASSUME NEW n \in Nodes, removeAcks(n) PROVE Goal
  BY <1>1, <1>5, Zenon DEF removeAcks, remove
<1>8. ASSUME NEW n \in Nodes, Restart(n) PROVE Goal
  <2>1. {} \in SUBSET Queries /\ 0 \in Int
    OBVIOUS
  <2>2. responses' \in [Nodes -> SUBSET Queries] /\ acks' \in [Nodes -> SUBSET Queries]
    BY <1>1, <1>8, <2>1, RestartFact, Update, Zenon
  <2>3. barrier' \in [Nodes -> Int]
    BY <1>1, <1>8, <2>1, RestartFact, Update, Zenon
  <2> QED
    BY <1>1, <1>8, <2>2, <2>3, RestartFact, Zenon
<1>6. CASE UNCHANGED <<ack, nextTurn, barrier, responses, acks>>
  BY <1>1, <1>6, Zenon
<1> QED
  BY <1>2, <1>3, <1>4, <1>5, <1>6, <1>7, <1>8, Zenon DEF Next, Tick, Send, Query, CommitEx,
     ReadAcks, produceBlock, ReadHeight, SetLastBillingHeight, updateBilling

\* What the pool and the block in production become.
LEMMA DraftTypes ==
  ASSUME TypeOK, Next
  PROVE  pool' \in [Nodes -> SUBSET Queries] /\ draft' \in [Nodes -> Drafts]
<1>1. /\ pool \in [Nodes -> SUBSET Queries] /\ draft \in [Nodes -> Drafts]
      /\ acks \in [Nodes -> SUBSET Queries] /\ scenario \in Scenarios
  BY Zenon DEF TypeOK
<1>2. ASSUME NEW q \in Queries, Query(q)
      PROVE  pool' \in [Nodes -> SUBSET Queries] /\ draft' \in [Nodes -> Drafts]
  BY <1>1, <1>2, Zenon DEF Query
<1>3. ASSUME NEW n \in Nodes, CommitEx(n)
      PROVE  pool' \in [Nodes -> SUBSET Queries] /\ draft' \in [Nodes -> Drafts]
  <2>1. PICK f \in Nat :
          draft' = [draft EXCEPT ![n] = [NoDraft EXCEPT !.at = "taken", !.queries = pool[n],
                                                        !.failed = f]]
    BY <1>1, <1>3, ScenarioFact, Zenon DEF CommitEx
  <2>2. [NoDraft EXCEPT !.at = "taken", !.queries = pool[n], !.failed = f] \in Drafts
    BY <1>1, Zenon DEF NoDraft, Drafts
  <2> QED
    BY <1>1, <1>3, <2>1, <2>2, Zenon DEF CommitEx
<1>4. ASSUME NEW n \in Nodes, ReadAcks(n)
      PROVE  pool' \in [Nodes -> SUBSET Queries] /\ draft' \in [Nodes -> Drafts]
  BY <1>1, <1>4, ZenonT(30) DEF ReadAcks, acksTo, Drafts
<1>5. ASSUME NEW n \in Nodes, produceBlock(n) \/ runCurrentTurn(n) \/ Restart(n)
      PROVE  pool' \in [Nodes -> SUBSET Queries] /\ draft' \in [Nodes -> Drafts]
  <2>1. NoDraft \in Drafts /\ [NoDraft EXCEPT !.at = "sent"] \in Drafts
    BY Zenon DEF NoDraft, Drafts
  <2> QED
    BY <1>1, <1>5, <2>1, SMTT(30) DEF produceBlock, runCurrentTurn, Restart
<1>6. CASE UNCHANGED <<pool, draft>>
  BY <1>1, <1>6, Zenon
<1> QED
  BY <1>2, <1>3, <1>4, <1>5, <1>6, Zenon DEF Next, Tick, Send, AddResponse,
     VerifyAndPushAckedQuery, pushBlock, removeAcks, ReadHeight, SetLastBillingHeight,
     updateBilling

\* A new block has the queries and acks of its draft.
LEMMA MinedFact ==
  ASSUME TypeOK, NEW n \in Nodes, produceBlock(n)
  PROVE  /\ mined' \in Seq(Blocks) /\ Len(mined) \in Nat /\ Len(mined') = Len(mined) + 1
         /\ \A i \in 1..Len(mined) : mined'[i] = mined[i]
         /\ mined'[Len(mined) + 1].queries = draft[n].queries
         /\ mined'[Len(mined) + 1].acks = draft[n].acks
<1>1. mined \in Seq(Blocks) /\ draft[n] \in Drafts /\ nextTurn[n] \in Nat
  BY Zenon DEF TypeOK
<1>2. PICK b \in Blocks : /\ mined' = Append(mined, b)
                          /\ b.queries = draft[n].queries /\ b.acks = draft[n].acks
  BY <1>1 DEF produceBlock, Blocks, Drafts
<1> QED
  BY <1>1, <1>2

\* A block of the chain.
LEMMA BlockFact ==
  ASSUME TypeOK, NEW i \in 1..Len(mined)
  PROVE  mined[i].queries \subseteq Queries /\ mined[i].height \in Nat
<1>1. mined[i] \in Blocks
  BY DEF TypeOK
<1> QED
  BY <1>1, Zenon DEF Blocks

\* What the chain and the bills' heights become.
LEMMA ChainTypes ==
  ASSUME TypeOK, BillInv, Next
  PROVE  /\ mined' \in Seq(Blocks)
         /\ pushed' \in [Nodes -> [count : Nat, half : BOOLEAN]]
         /\ heights' \in [Nodes -> Seq(Nat)]
         /\ billed' \in [Nodes -> Nat]
<1>1. /\ mined \in Seq(Blocks)
      /\ pushed \in [Nodes -> [count : Nat, half : BOOLEAN]]
      /\ heights \in [Nodes -> Seq(Nat)]
      /\ billed \in [Nodes -> Nat]
      /\ nextTurn \in [Nodes -> Nat]
  BY Zenon DEF TypeOK
<1>2. mined' \in Seq(Blocks)
  <2>1. CASE UNCHANGED mined
    BY <1>1, <2>1, Zenon
  <2>2. ASSUME NEW n \in Nodes, produceBlock(n) PROVE mined' \in Seq(Blocks)
    BY <2>2, MinedFact, Zenon
  <2> QED
    BY <2>1, <2>2, Zenon DEF Next, Tick, Send, Query, AddResponse, VerifyAndPushAckedQuery,
       CommitEx, ReadAcks, runCurrentTurn, pushBlock, removeAcks, ReadHeight,
       SetLastBillingHeight, updateBilling, Restart
<1>3. pushed' \in [Nodes -> [count : Nat, half : BOOLEAN]]
  <2>1. CASE UNCHANGED pushed
    BY <1>1, <2>1, Zenon
  <2>2. ASSUME NEW n \in Nodes, pushBlock(n) \/ removeAcks(n) \/ Restart(n)
        PROVE  pushed' \in [Nodes -> [count : Nat, half : BOOLEAN]]
    <3>1. pushed[n] \in [count : Nat, half : BOOLEAN]
      BY <1>1, Zenon
    <3>2. \/ pushed' = [pushed EXCEPT ![n] = [count |-> pushed[n].count + 1, half |-> TRUE]]
          \/ pushed' = [pushed EXCEPT ![n].half = FALSE]
      BY <2>2, Zenon DEF pushBlock, removeAcks, Restart
    <3>3. [count |-> pushed[n].count + 1, half |-> TRUE] \in [count : Nat, half : BOOLEAN]
      BY <3>1
    <3>4. [pushed[n] EXCEPT !.half = FALSE] \in [count : Nat, half : BOOLEAN]
      BY <3>1, Zenon
    <3>5. [pushed EXCEPT ![n].half = FALSE]
            = [pushed EXCEPT ![n] = [pushed[n] EXCEPT !.half = FALSE]]
      BY <1>1, Zenon
    <3>6. PICK v \in [count : Nat, half : BOOLEAN] : pushed' = [pushed EXCEPT ![n] = v]
      BY <3>2, <3>3, <3>4, <3>5, Zenon
    <3> QED
      BY <1>1, <3>6, Update, Zenon
  <2> QED
    BY <2>1, <2>2, Zenon DEF Next, Tick, Send, Query, AddResponse, VerifyAndPushAckedQuery,
       CommitEx, ReadAcks, produceBlock, runCurrentTurn, ReadHeight, SetLastBillingHeight,
       updateBilling
<1>4. heights' \in [Nodes -> Seq(Nat)]
  <2>1. CASE UNCHANGED heights
    BY <1>1, <2>1, Zenon
  <2>2. ASSUME NEW n \in Nodes, runCurrentTurn(n) \/ ReadHeight(n) \/ Restart(n)
        PROVE  heights' \in [Nodes -> Seq(Nat)]
    <3>1. Append(heights[n], nextTurn[n]) \in Seq(Nat) /\ <<>> \in Seq(Nat)
      BY <1>1
    <3>2. heights[n] # <<>> => Tail(heights[n]) \in Seq(Nat)
      BY <1>1
    <3> QED
      BY <1>1, <2>2, <3>1, <3>2, Zenon DEF runCurrentTurn, ReadHeight, Restart
  <2> QED
    BY <2>1, <2>2, Zenon DEF Next, Tick, Send, Query, AddResponse, VerifyAndPushAckedQuery,
       CommitEx, ReadAcks, produceBlock, pushBlock, removeAcks, SetLastBillingHeight,
       updateBilling, billVars
<1>5. billed' \in [Nodes -> Nat]
  <2>0. \A k \in 0..Len(bills) : LastUpdatedHeight(k) \in Nat
    <3>1. Len(bills) \in Nat
      BY DEF BillInv
    <3>2. \A k \in 1..Len(bills) : bills[k].to \in Nat
      BY Zenon DEF BillInv, Charges
    <3> QED
      BY <3>1, <3>2 DEF LastUpdatedHeight
  <2>1. CASE UNCHANGED billed
    BY <1>1, <2>1, Zenon
  <2>2. ASSUME NEW n \in Nodes, SetLastBillingHeight(n) \/ Restart(n)
        PROVE  billed' \in [Nodes -> Nat]
    <3>1. Len(bills) \in Nat
      BY DEF BillInv
    <3>2. PICK k \in 0..Len(bills) : billed' = [billed EXCEPT ![n] = LastUpdatedHeight(k)]
      BY <2>2, <3>1 DEF SetLastBillingHeight, Restart
    <3> QED
      BY <1>1, <2>0, <3>2, Zenon
  <2> QED
    BY <2>1, <2>2, Zenon DEF Next, Tick, Send, Query, AddResponse, VerifyAndPushAckedQuery,
       CommitEx, ReadAcks, produceBlock, runCurrentTurn, pushBlock, removeAcks, ReadHeight,
       updateBilling, billVars
<1> QED
  BY <1>2, <1>3, <1>4, <1>5, Zenon

\* Every step keeps the types.
LEMMA TypeNext ==
  ASSUME TypeOK, BillInv, [Next]_vars
  PROVE  TypeOK'
<1>1. CASE UNCHANGED vars
  BY <1>1, Zenon DEF TypeOK, vars
<1>2. CASE Next
  <2>1. scenario' = scenario
    BY <1>2, Zenon DEF Next, Tick, Send, Query, AddResponse, VerifyAndPushAckedQuery, CommitEx,
       ReadAcks, produceBlock, runCurrentTurn, pushBlock, removeAcks, ReadHeight,
       SetLastBillingHeight, updateBilling, Restart
  <2>2. now' = now \/ now' = now + 1
    BY <1>2, Zenon DEF Next, Tick, Send, Query, AddResponse, VerifyAndPushAckedQuery, CommitEx,
       ReadAcks, produceBlock, runCurrentTurn, pushBlock, removeAcks, ReadHeight,
       SetLastBillingHeight, updateBilling, Restart
  <2>3. restarts' = restarts \/ restarts' = restarts + 1
    BY <1>2, Zenon DEF Next, Tick, Send, Query, AddResponse, VerifyAndPushAckedQuery, CommitEx,
       ReadAcks, produceBlock, runCurrentTurn, pushBlock, removeAcks, ReadHeight,
       SetLastBillingHeight, updateBilling, Restart
  <2>4. scenario' \in Scenarios /\ now' \in Nat \ {0} /\ restarts' \in Nat
    BY <2>1, <2>2, <2>3 DEF TypeOK
  <2> QED
    BY <1>2, <2>4, QueryTypes, IndexTypes, DraftTypes, ChainTypes, Zenon DEF TypeOK
<1> QED
  BY <1>1, <1>2, Zenon

-----------------------------------------------------------------------------
(***************************************************************************)
(* The acks.                                                               *)
(***************************************************************************)
\* A query that was sent keeps its miner and its height, and one that was executed stays so.
LEMMA QueryKept ==
  ASSUME TypeOK, Next, NEW q \in Queries, query[q].at # "new"
  PROVE  /\ query'[q].node = query[q].node /\ query'[q].height = query[q].height
         /\ query'[q].at # "new" /\ (Executed(q) => Executed(q)')
<1> DEFINE Goal == /\ query'[q].node = query[q].node /\ query'[q].height = query[q].height
                   /\ query'[q].at # "new" /\ (query'[q].at = "sent" => query[q].at = "sent")
<1>1. query \in [Queries -> QueryRecords]
  BY Zenon DEF TypeOK
<1>2. ASSUME NEW p \in Queries, NEW n \in Nodes, Send(p, n) PROVE Goal
  BY <1>1, <1>2, Zenon DEF Send
<1>3. ASSUME NEW p \in Queries, Query(p) \/ AddResponse(p) PROVE Goal
  BY <1>1, <1>3 DEF Query, AddResponse
<1>4. ASSUME NEW n \in Nodes, Restart(n) PROVE Goal
  <2>1. query'[q] = query[q] \/ query'[q] = [query[q] EXCEPT !.at = "failed"]
          \/ query'[q] = [query[q] EXCEPT !.at = "forgotten"]
    BY <1>4, Zenon DEF Restart
  <2>2. query[q] \in QueryRecords
    BY <1>1, Zenon
  <2> QED
    BY <2>1, <2>2, Zenon
<1>5. ASSUME UNCHANGED query PROVE Goal
  BY <1>5, Zenon
<1>6. Goal
  BY <1>2, <1>3, <1>4, <1>5, Zenon DEF Next, Tick, VerifyAndPushAckedQuery, CommitEx, ReadAcks,
     produceBlock, runCurrentTurn, pushBlock, removeAcks, ReadHeight, SetLastBillingHeight,
     updateBilling
<1> QED
  BY <1>6, Zenon DEF Executed

\* An ack that is taken stays taken, one that is not was not, and the acks that come into
\* the index are taken.
LEMMA AckKept ==
  ASSUME TypeOK, Next
  PROVE  /\ \A q \in Queries : (ack[q] = "taken" => ack'[q] = "taken")
                               /\ (ack'[q] = "none" => ack[q] = "none")
         /\ \A n \in Nodes : \A q \in acks'[n] : q \in acks[n] \/ ack'[q] = "taken"
<1> DEFINE Goal == /\ \A q \in Queries : (ack[q] = "taken" => ack'[q] = "taken")
                                         /\ (ack'[q] = "none" => ack[q] = "none")
                   /\ \A n \in Nodes : \A q \in acks'[n] : q \in acks[n] \/ ack'[q] = "taken"
<1>1. /\ ack \in [Queries -> {"none", "taken", "refused"}]
      /\ acks \in [Nodes -> SUBSET Queries]
  BY Zenon DEF TypeOK
<1>2. ASSUME NEW p \in Queries, VerifyAndPushAckedQuery(p) PROVE Goal
  <2>1. ack[p] = "none"
    BY <1>2, Zenon DEF VerifyAndPushAckedQuery
  <2>2. \/ ack' = [ack EXCEPT ![p] = "refused"] /\ acks' = acks
        \/ /\ ack' = [ack EXCEPT ![p] = "taken"]
           /\ acks' = [acks EXCEPT ![query[p].node] = @ \union {p}]
    BY <1>2, Zenon DEF VerifyAndPushAckedQuery, pushAckedQuery
  <2>3. \A q \in Queries : q # p => ack'[q] = ack[q]
    BY <1>1, <2>2, Zenon
  <2>4. ack'[p] # "none"
    BY <1>1, <2>2, Zenon
  <2>5. ASSUME NEW n \in Nodes, NEW q \in acks'[n] PROVE q \in acks[n] \/ ack'[q] = "taken"
    BY <1>1, <2>2
  <2> QED
    BY <2>1, <2>3, <2>4, <2>5, Zenon
<1>3. ASSUME NEW m \in Nodes, runCurrentTurn(m) \/ removeAcks(m) PROVE Goal
  <2>1. ack' = ack
    BY <1>3, Zenon DEF runCurrentTurn, removeAcks
  <2>2. PICK S : acks' = [acks EXCEPT ![m] = acks[m] \ S]
    <3>1. CASE runCurrentTurn(m)
      <4> DEFINE h == nextTurn[m] + 1 - QueryTTL
      <4>1. acks' = [acks EXCEPT ![m] = {q \in acks[m] : Height(q) >= h}]
        BY <3>1, Zenon DEF runCurrentTurn, advance
      <4>2. {q \in acks[m] : Height(q) >= h} = acks[m] \ {q \in acks[m] : ~(Height(q) >= h)}
        BY Zenon
      <4> QED
        BY <4>1, <4>2, Zenon
    <3>2. CASE removeAcks(m)
      BY <3>2, Zenon DEF removeAcks, remove
    <3> QED
      BY <1>3, <3>1, <3>2, Zenon
  <2> QED
    BY <1>1, <2>1, <2>2, Zenon
<1>4. ASSUME NEW m \in Nodes, Restart(m) PROVE Goal
  BY <1>1, <1>4, RestartFact, Zenon
<1>5. CASE UNCHANGED <<ack, acks>>
  BY <1>5, Zenon
<1> QED
  BY <1>2, <1>3, <1>4, <1>5, Zenon DEF Next, Tick, Send, Query, AddResponse, CommitEx, ReadAcks,
     produceBlock, pushBlock, ReadHeight, SetLastBillingHeight, updateBilling

\* The acks of a block in production come from the index.
LEMMA DraftAcks ==
  ASSUME TypeOK, Next, NEW n \in Nodes
  PROVE  draft'[n].acks \subseteq draft[n].acks \cup acks[n]
<1> DEFINE Goal == draft'[n].acks \subseteq draft[n].acks \cup acks[n]
<1>1. draft \in [Nodes -> Drafts]
  BY Zenon DEF TypeOK
<1>2. ASSUME NEW m \in Nodes, CommitEx(m) PROVE Goal
  <2>1. PICK f : draft' = [draft EXCEPT ![m] = [NoDraft EXCEPT !.at = "taken",
                                                 !.queries = pool[m], !.failed = f]]
    BY <1>2, Zenon DEF CommitEx
  <2>2. [NoDraft EXCEPT !.at = "taken", !.queries = pool[m], !.failed = f].acks = {}
    BY Zenon DEF NoDraft
  <2> QED
    BY <1>1, <2>1, <2>2, Zenon
<1>3. ASSUME NEW m \in Nodes, ReadAcks(m) PROVE Goal
  <2>1. draft' = [draft EXCEPT ![m].at = "packed", ![m].acks = acksTo(m, now)]
    BY <1>3, Zenon DEF ReadAcks
  <2>2. n = m => draft'[n].acks = acksTo(n, now)
    BY <1>1, <2>1, Zenon DEF Drafts
  <2>3. n # m => draft'[n] = draft[n]
    BY <1>1, <2>1, Zenon
  <2> QED
    BY <2>2, <2>3, Zenon DEF acksTo
<1>4. ASSUME NEW m \in Nodes, produceBlock(m) PROVE Goal
  <2>1. [NoDraft EXCEPT !.at = "sent"].acks = {}
    BY Zenon DEF NoDraft
  <2> QED
    BY <1>1, <1>4, <2>1, Zenon DEF produceBlock
<1>5. ASSUME NEW m \in Nodes, runCurrentTurn(m) \/ Restart(m) PROVE Goal
  <2>1. draft' = [draft EXCEPT ![m] = NoDraft]
    BY <1>5, Zenon DEF runCurrentTurn, Restart
  <2> QED
    BY <1>1, <2>1, NoDraftFact, Zenon
<1>6. CASE UNCHANGED draft
  BY <1>6, Zenon
<1> QED
  BY <1>2, <1>3, <1>4, <1>5, <1>6, Zenon DEF Next, Tick, Send, Query, AddResponse,
     VerifyAndPushAckedQuery, pushBlock, removeAcks, ReadHeight, SetLastBillingHeight,
     updateBilling

\* Every step keeps TakenInv.
LEMMA TakenNext ==
  ASSUME TypeOK, TakenInv, Next
  PROVE  TakenInv'
<1>1. /\ acks \in [Nodes -> SUBSET Queries] /\ draft \in [Nodes -> Drafts]
      /\ mined \in Seq(Blocks)
  BY Zenon DEF TypeOK
<1>2. ASSUME NEW n \in Nodes, NEW q \in acks[n] \cup draft[n].acks PROVE ack'[q] = "taken"
  <2>1. q \in Queries
    BY <1>1, Zenon DEF Drafts
  <2> QED
    BY <2>1, AckKept, Zenon DEF TakenInv
<1>3. ASSUME NEW n \in Nodes, NEW q \in acks'[n] \cup draft'[n].acks PROVE ack'[q] = "taken"
  BY <1>2, AckKept, DraftAcks, Zenon
<1>4. ASSUME NEW i \in 1..Len(mined), NEW q \in mined[i].acks PROVE ack'[q] = "taken"
  <2>1. mined[i] \in Blocks
    BY <1>1
  <2>2. q \in Queries
    BY <2>1, Zenon DEF Blocks
  <2> QED
    BY <2>2, AckKept, Zenon DEF TakenInv
<1>5. CASE UNCHANGED mined
  BY <1>3, <1>4, <1>5, Zenon DEF TakenInv
<1>6. ASSUME NEW m \in Nodes, produceBlock(m) PROVE TakenInv'
  <2>1. ASSUME NEW i \in 1..Len(mined'), NEW q \in mined'[i].acks PROVE ack'[q] = "taken"
    BY <1>2, <1>4, <1>6, MinedFact
  <2> QED
    BY <1>3, <2>1, Zenon DEF TakenInv
<1> QED
  BY <1>5, <1>6, Zenon DEF Next, Tick, Send, Query, AddResponse, VerifyAndPushAckedQuery,
     CommitEx, ReadAcks, runCurrentTurn, pushBlock, removeAcks, ReadHeight,
     SetLastBillingHeight, updateBilling, Restart

\* The turns of a miner go on, and the barrier follows them.
LEMMA TurnFact ==
  ASSUME TypeOK, Next, NEW n \in Nodes
  PROVE  /\ nextTurn[n] <= nextTurn'[n]
         /\ \/ barrier'[n] = 0 
            \/ barrier'[n] = nextTurn'[n] - QueryTTL
            \/ barrier'[n] = barrier[n]
<1> DEFINE Goal == /\ nextTurn[n] <= nextTurn'[n]
                   /\ \/ barrier'[n] = 0
                      \/ barrier'[n] = nextTurn'[n] - QueryTTL
                      \/ barrier'[n] = barrier[n]
<1>1. /\ nextTurn \in [Nodes -> Nat] /\ barrier \in [Nodes -> Int] /\ QueryTTL \in Nat
  BY AckIndexAssumption, Zenon DEF TypeOK
<1>2. ASSUME NEW m \in Nodes, runCurrentTurn(m) PROVE Goal
  BY <1>1, <1>2 DEF runCurrentTurn, advance
<1>3. ASSUME NEW m \in Nodes, Restart(m) PROVE Goal
  BY <1>1, <1>3, RestartFact
<1>4. CASE UNCHANGED <<nextTurn, barrier>>
  BY <1>1, <1>4
<1> QED
  BY <1>2, <1>3, <1>4, Zenon DEF Next, Tick, Send, Query, AddResponse, VerifyAndPushAckedQuery,
     CommitEx, ReadAcks, produceBlock, pushBlock, removeAcks, ReadHeight, SetLastBillingHeight,
     updateBilling

\* Every step keeps BarrierInv.
LEMMA BarrierNext ==
  ASSUME TypeOK, BarrierInv, Next
  PROVE  BarrierInv'
<1>1. /\ nextTurn \in [Nodes -> Nat] /\ barrier \in [Nodes -> Int] /\ QueryTTL \in Nat
  BY AckIndexAssumption, Zenon DEF TypeOK
<1>2. nextTurn' \in [Nodes -> Nat]
  BY IndexTypes, Zenon
<1>3. ASSUME NEW n \in Nodes PROVE (barrier[n] <= 0 \/ barrier[n] <= getMinValidHeight(n))'
  <2>1. barrier[n] <= 0 \/ barrier[n] <= nextTurn[n] - QueryTTL
    BY Zenon DEF BarrierInv, getMinValidHeight
  <2>2. barrier'[n] <= 0 \/ barrier'[n] <= nextTurn'[n] - QueryTTL
    BY <1>1, <1>2, <2>1, TurnFact
  <2> QED
    BY <2>2, Zenon DEF getMinValidHeight
<1>4. ASSUME NEW q \in Queries, query'[q].at # "new" PROVE query'[q].height > 0
  <2>1. CASE query[q].at # "new"
    <3>1. query[q].height > 0
      BY <2>1, Zenon DEF BarrierInv, Height
    <3> QED
      BY <2>1, <3>1, QueryKept, Zenon
  <2>2. CASE query[q].at = "new"
    <3>1. query \in [Queries -> QueryRecords] /\ now \in Nat \ {0}
      BY Zenon DEF TypeOK
    <3>2. ASSUME NEW p \in Queries, NEW n \in Nodes, Send(p, n) PROVE query'[q].height > 0
      BY <1>4, <2>2, <3>1, <3>2 DEF Send
    <3>3. ASSUME NEW p \in Queries, Query(p) \/ AddResponse(p) PROVE FALSE
      BY <1>4, <2>2, <3>1, <3>3, Zenon DEF Query, AddResponse
    <3>4. ASSUME NEW n \in Nodes, Restart(n) PROVE FALSE
      <4>1. query'[q] = query[q]
        BY <2>2, <3>4 , Zenon DEF Restart
      <4> QED
        BY <1>4, <2>2, <4>1, Zenon
    <3>5. CASE UNCHANGED query
      BY <1>4, <2>2, <3>5, Zenon
    <3> QED
      BY <3>2, <3>3, <3>4, <3>5, Zenon DEF Next, Tick, VerifyAndPushAckedQuery, CommitEx,
         ReadAcks, produceBlock, runCurrentTurn, pushBlock, removeAcks, ReadHeight,
         SetLastBillingHeight, updateBilling
  <2> QED
    BY <2>1, <2>2, Zenon
<1> QED
  BY <1>3, <1>4, Zenon DEF BarrierInv, Height

\* Every step keeps TimeInv: a request has the time it was sent at, a response the time it
\* was executed at, and the clock goes on.
LEMMA TimeNext ==
  ASSUME TypeOK, TimeInv, Next
  PROVE  TimeInv'
<1>1. query \in [Queries -> QueryRecords] /\ now \in Nat
  BY Zenon DEF TypeOK
<1>2. CASE Tick
  BY <1>1, <1>2 DEF Tick, TimeInv
<1>3. ASSUME NEW p \in Queries, NEW n \in Nodes, Send(p, n) PROVE TimeInv'
  <2>1. now' = now /\ query' = [query EXCEPT ![p] = [@ EXCEPT !.at = "sent", !.node = n, !.height = now]]
    BY <1>3, Zenon DEF Send
  <2>2. query'[p].height = now /\ query'[p].at = "sent" /\ \A q \in Queries \ {p} : query'[q] = query[q]
    BY <1>1, <2>1, Zenon
  <2> QED
    BY <1>1, <2>1, <2>2 DEF TimeInv
<1>4. ASSUME NEW p \in Queries, Query(p) PROVE TimeInv'
  <2>1. now' = now /\ query' = [query EXCEPT ![p].at = "done", ![p].replied = now]
    BY <1>4, Zenon DEF Query
  <2>2. /\ query'[p].height = query[p].height /\ query'[p].replied = now
        /\ \A q \in Queries \ {p} : query'[q] = query[q]
    BY <1>1, <2>1
  <2> QED
    BY <1>1, <2>1, <2>2 DEF TimeInv
<1>5. ASSUME NEW p \in Queries, AddResponse(p) PROVE TimeInv'
  <2>1. now' = now /\ \E a \in QueryStages : query' = [query EXCEPT ![p].at = a]
    BY <1>5, Zenon DEF AddResponse, QueryStages
  <2>2. query[p].at \notin {"new", "sent"}
    BY <1>5, Zenon DEF AddResponse
  <2>3. \A q \in Queries : /\ query'[q].height = query[q].height
                           /\ query'[q].replied = query[q].replied
                           /\ q # p => query'[q] = query[q]
    BY <1>1, <2>1, Zenon
  <2> QED
    BY <2>1, <2>2, <2>3, Zenon DEF TimeInv
<1>6. ASSUME NEW n \in Nodes, Restart(n) PROVE TimeInv'
  <2>1. now' = now
    BY <1>6, Zenon DEF Restart
  <2>2. ASSUME NEW q \in Queries
        PROVE  /\ query'[q].height = query[q].height /\ query'[q].replied = query[q].replied
               /\ query'[q].at \notin {"new", "sent"} => query[q].at \notin {"new", "sent"}
    <3>1. \/ query'[q] = query[q]
          \/ query[q].at = "done" /\ query'[q] = [query[q] EXCEPT !.at = "failed"]
          \/ query[q].at = "answered" /\ query'[q] = [query[q] EXCEPT !.at = "forgotten"]
      BY <1>6, Zenon DEF Restart
    <3>2. query[q] \in QueryRecords
      BY <1>1, Zenon
    <3> QED
      BY <3>1, <3>2, Zenon
  <2> QED
    BY <2>1, <2>2, Zenon DEF TimeInv
<1>7. CASE UNCHANGED <<now, query>>
  BY <1>7, Zenon DEF TimeInv
<1> QED
  BY <1>2, <1>3, <1>4, <1>5, <1>6, <1>7, Zenon DEF Next, VerifyAndPushAckedQuery, CommitEx, ReadAcks,
     produceBlock, runCurrentTurn, pushBlock, removeAcks, ReadHeight, SetLastBillingHeight,
     updateBilling

\* Every step keeps PushInv.
LEMMA PushNext ==
  ASSUME TypeOK, PushInv, Next
  PROVE  PushInv'
<1>1. /\ mined \in Seq(Blocks)
      /\ pushed \in [Nodes -> [count : Nat, half : BOOLEAN]]
  BY Zenon DEF TypeOK
<1>2. ASSUME NEW m \in Nodes, produceBlock(m) PROVE PushInv'
  BY <1>1, <1>2, MinedFact DEF PushInv, produceBlock
<1>3. ASSUME NEW m \in Nodes, pushBlock(m) PROVE PushInv'
  BY <1>1, <1>3 DEF PushInv, pushBlock
<1>4. ASSUME NEW m \in Nodes, removeAcks(m) \/ Restart(m) PROVE PushInv'
  <2>1. pushed' = [pushed EXCEPT ![m].half = FALSE] /\ mined' = mined
    BY <1>4, Zenon DEF removeAcks, Restart
  <2> QED
    BY <1>1, <2>1, Zenon DEF PushInv
<1>5. CASE UNCHANGED <<mined, pushed>>
  BY <1>5, Zenon DEF PushInv
<1> QED
  BY <1>2, <1>3, <1>4, <1>5, Zenon DEF Next, Tick, Send, Query, AddResponse,
     VerifyAndPushAckedQuery, CommitEx, ReadAcks, runCurrentTurn, ReadHeight,
     SetLastBillingHeight, updateBilling

\* A response whose ack may come is not taken out of the index.
LEMMA ResponseKept ==
  ASSUME TypeOK, TakenInv, PushInv, Next, NEW q \in Queries,
         query[q].at = "answered", query'[q].at = "answered", ack'[q] = "none",
         ~queryTimeIsExpired(query[q].node, Height(q))', q \in responses[query[q].node]
  PROVE  q \in responses'[query[q].node]
<1> DEFINE n == query[q].node
<1>1. /\ query \in [Queries -> QueryRecords]
      /\ ack \in [Queries -> {"none", "taken", "refused"}]
      /\ nextTurn \in [Nodes -> Nat]
      /\ responses \in [Nodes -> SUBSET Queries]
      /\ QueryTTL \in Nat
  BY AckIndexAssumption, Zenon DEF TypeOK
<1>2. n \in Nodes /\ q \in responses[n]
  BY <1>1, Zenon
<1>3. query'[q].node = n /\ query'[q].height = query[q].height
  BY QueryKept, Zenon
<1>4. ~(query[q].height < nextTurn'[n] - QueryTTL)
  BY <1>3, Zenon DEF queryTimeIsExpired, getMinValidHeight, Height
<1>5. ack[q] = "none"
  BY AckKept, Zenon
<1> HIDE DEF n
<1>6. ASSUME NEW p \in Queries, AddResponse(p) PROVE q \in responses'[n]
  <2>1. responses' = responses \/ responses' = [responses EXCEPT ![query[p].node] = @ \union {p}]
    BY <1>1, <1>6, Zenon DEF AddResponse, addResponse
  <2> QED
    BY <1>1, <1>2, <2>1, Zenon
<1>7. ASSUME NEW p \in Queries, VerifyAndPushAckedQuery(p) PROVE q \in responses'[n]
  <2>1. ack'[p] # "none"
    BY <1>1, <1>7, Zenon DEF VerifyAndPushAckedQuery, pushAckedQuery
  <2>2. p # q
    BY <2>1, Zenon
  <2>3. responses' = responses \/ responses' = [responses EXCEPT ![query[p].node] = @ \ {p}]
    BY <1>7, Zenon DEF VerifyAndPushAckedQuery, pushAckedQuery
  <2> QED
    BY <1>1, <1>2, <2>2, <2>3, Zenon
<1>8. ASSUME NEW m \in Nodes, runCurrentTurn(m) PROVE q \in responses'[n]
  <2>1. /\ nextTurn' = [nextTurn EXCEPT ![m] = @ + 1]
        /\ responses' = [responses EXCEPT ![m] =
                           {p \in @ : Height(p) >= nextTurn[m] + 1 - QueryTTL}]
    BY <1>8, Zenon DEF runCurrentTurn, advance
  <2>2. CASE n = m
    <3>1. nextTurn'[n] = nextTurn[m] + 1 /\ nextTurn[m] \in Nat /\ query[q].height \in Nat
      BY <1>1, <2>1, <2>2, Zenon
    <3>2. query[q].height >= nextTurn[m] + 1 - QueryTTL
      BY <1>1, <1>4, <3>1
    <3> QED
      BY <1>1, <1>2, <2>1, <2>2, <3>2, Zenon DEF Height
  <2>3. CASE n # m
    BY <1>1, <1>2, <2>1, <2>3, Zenon
  <2> QED
    BY <2>2, <2>3, Zenon
<1>9. ASSUME NEW m \in Nodes, pushBlock(m) PROVE q \in responses'[n]
  BY <1>1, <1>2, <1>9, Zenon DEF pushBlock
<1>10. ASSUME NEW m \in Nodes, removeAcks(m) PROVE q \in responses'[n]
  <2> DEFINE S == mined[pushed[m].count].acks
  <2>1. responses' = [responses EXCEPT ![m] = @ \ S]
    BY <1>10, Zenon DEF removeAcks, remove
  <2>2. pushed[m].count \in 1..Len(mined)
    <3>1. Len(mined) \in Nat /\ pushed[m].count \in Nat
      BY DEF TypeOK
    <3>2. pushed[m].count <= Len(mined) /\ pushed[m].count >= 1
      BY <1>10, Zenon DEF PushInv, removeAcks
    <3> QED
      BY <3>1, <3>2
  <2>3. q \notin S
    BY <1>5, <2>2, Zenon DEF TakenInv
  <2> QED
    BY <1>1, <1>2, <2>1, <2>3, Zenon
<1>11. ASSUME NEW m \in Nodes, Restart(m) PROVE q \in responses'[n]
  <2>1. n # m
    <3>1. query'[q] = IF query[q].node = m THEN [query[q] EXCEPT !.at = "forgotten"] ELSE query[q]
      BY <1>11, Zenon DEF Restart
    <3> QED
      BY <1>1, <3>1, Zenon DEF n
  <2> QED
    BY <1>1, <1>2, <1>11, <2>1, RestartFact, Zenon
<1>12. ASSUME UNCHANGED responses PROVE q \in responses'[n]
  BY <1>2, <1>12, Zenon
<1>13. q \in responses'[n]
  BY <1>6, <1>7, <1>8, <1>9, <1>10, <1>11, <1>12, Zenon DEF Next, Tick, Send, Query, CommitEx,
     ReadAcks, produceBlock, ReadHeight, SetLastBillingHeight, updateBilling
<1> QED
  BY <1>13, Zenon DEF n

\* Every step keeps FindInv: a query is answered when its response comes into the index, and
\* from then on ResponseKept says that it is kept.
LEMMA FindNext ==
  ASSUME TypeOK, TakenInv, PushInv, FindInv, Next
  PROVE  FindInv'
<1> SUFFICES ASSUME NEW q \in Queries, query'[q].at = "answered", ack'[q] = "none",
                    ~queryTimeIsExpired(query[q].node, Height(q))'
             PROVE  q \in responses'[query'[q].node]
  BY Zenon DEF FindInv, Waits
<1>1. /\ query \in [Queries -> QueryRecords]
      /\ nextTurn \in [Nodes -> Nat] /\ responses \in [Nodes -> SUBSET Queries]
      /\ QueryTTL \in Nat
  BY AckIndexAssumption, Zenon DEF TypeOK
<1>2. nextTurn' \in [Nodes -> Nat]
  BY IndexTypes, Zenon
<1>3. CASE query[q].at = "answered"
  <2>1. query'[q].node = query[q].node /\ query'[q].height = query[q].height
    BY <1>3, QueryKept, Zenon
  <2>2. ~(query[q].height < nextTurn'[query[q].node] - QueryTTL)
    BY <2>1, Zenon DEF queryTimeIsExpired, getMinValidHeight, Height
  <2>3. query[q].node \in Nodes /\ query[q].height \in Nat
    BY <1>1, Zenon
  <2>4. ~(query[q].height < nextTurn[query[q].node] - QueryTTL)
    BY <1>1, <1>2, <2>2, <2>3, TurnFact
  <2>5. ack[q] = "none"
    BY AckKept, Zenon
  <2>6. q \in responses[query[q].node]
    BY <1>3, <2>4, <2>5, Zenon DEF FindInv, Waits, queryTimeIsExpired, getMinValidHeight, Height
  <2>7. q \in responses'[query[q].node]
    BY <1>3, <2>6, ResponseKept, Zenon
  <2> QED
    BY <2>1, <2>7, Zenon
<1>4. CASE query[q].at # "answered"
  <2>1. ASSUME NEW p \in Queries, NEW n \in Nodes, Send(p, n) PROVE FALSE
    BY <1>1, <1>4, <2>1, Zenon DEF Send
  <2>2. ASSUME NEW p \in Queries, Query(p) PROVE FALSE
    BY <1>1, <1>4, <2>2, Zenon DEF Query
  <2>3. ASSUME NEW p \in Queries, AddResponse(p) PROVE q \in responses'[query'[q].node]
    <3>1. p = q /\ load(query[q].node, Height(q))
      BY <1>1, <1>4, <2>3, Zenon DEF AddResponse
    <3>2. query'[q].node = query[q].node /\ query[q].node \in Nodes
      BY <1>1, <2>3, <3>1, Zenon DEF AddResponse
    <3>3. responses' = [responses EXCEPT ![query[q].node] = @ \union {q}]
      BY <2>3, <3>1, Zenon DEF AddResponse, addResponse
    <3> QED
      BY <1>1, <3>2, <3>3, Zenon
  <2>4. ASSUME NEW n \in Nodes, Restart(n) PROVE FALSE
    <3>1. query'[q] = query[q] \/ query'[q] = [query[q] EXCEPT !.at = "failed"]
            \/ query'[q] = [query[q] EXCEPT !.at = "forgotten"]
      BY <2>4, Zenon DEF Restart
    <3>2. query[q] \in QueryRecords
      BY <1>1, Zenon
    <3> QED
      BY <1>4, <3>1, <3>2, Zenon
  <2>5. CASE UNCHANGED query
    BY <1>4, <2>5, Zenon
  <2> QED
    BY <2>1, <2>2, <2>3, <2>4, <2>5, Zenon DEF Next, Tick, VerifyAndPushAckedQuery, CommitEx,
       ReadAcks, produceBlock, runCurrentTurn, pushBlock, removeAcks, ReadHeight,
       SetLastBillingHeight, updateBilling
<1> QED
  BY <1>3, <1>4, Zenon

\* An ack leaves the index with the block that has it, below the barrier, or in a restart.
LEMMA AckLeaves ==
  ASSUME TypeOK, Next, NEW n \in Nodes, NEW q \in acks[n] \ acks'[n]
  PROVE  \/ pushed[n].half /\ q \in mined[pushed[n].count].acks
         \/ Height(q) < barrier'[n]
         \/ restarts' # restarts
<1> DEFINE Goal == \/ pushed[n].half /\ q \in mined[pushed[n].count].acks
                   \/ Height(q) < barrier'[n]
                   \/ restarts' # restarts
<1>1. /\ acks \in [Nodes -> SUBSET Queries] /\ barrier \in [Nodes -> Int]
      /\ nextTurn \in [Nodes -> Nat] /\ QueryTTL \in Nat
  BY AckIndexAssumption, Zenon DEF TypeOK
<1>2. Height(q) \in Nat
  BY <1>1, Zenon DEF TypeOK, Height
<1>3. ASSUME NEW p \in Queries, VerifyAndPushAckedQuery(p) PROVE FALSE
  <2>1. acks' = acks \/ acks' = [acks EXCEPT ![query[p].node] = @ \union {p}]
    BY <1>3, Zenon DEF VerifyAndPushAckedQuery, pushAckedQuery
  <2> QED
    BY <1>1, <2>1, Zenon
<1>4. ASSUME NEW m \in Nodes, runCurrentTurn(m) PROVE Goal
  <2> DEFINE h == nextTurn[m] + 1 - QueryTTL
  <2>1. /\ acks' = [acks EXCEPT ![m] = {p \in @ : Height(p) >= h}]
        /\ barrier' = [barrier EXCEPT ![m] = h]
    BY <1>4, Zenon DEF runCurrentTurn, advance
  <2>2. h \in Int
    BY <1>1
  <2> HIDE DEF h
  <2>3. n = m /\ ~(Height(q) >= h)
    BY <1>1, <2>1, Zenon
  <2> QED
    BY <1>1, <1>2, <2>1, <2>2, <2>3
<1>5. ASSUME NEW m \in Nodes, removeAcks(m) PROVE Goal
  <2>1. /\ acks' = [acks EXCEPT ![m] = @ \ (mined[pushed[m].count].acks \ responses[m])]
        /\ pushed[m].half
    BY <1>5, Zenon DEF removeAcks, remove
  <2> QED
    BY <1>1, <2>1, Zenon
<1>6. ASSUME NEW m \in Nodes, Restart(m) PROVE Goal
  <2>1. restarts' = restarts + 1 /\ restarts \in Nat
    BY <1>6, Zenon DEF Restart, TypeOK
  <2> QED
    BY <2>1
<1>7. ASSUME UNCHANGED acks PROVE FALSE
  BY <1>7, Zenon
<1> QED
  BY <1>3, <1>4, <1>5, <1>6, <1>7, Zenon DEF Next, Tick, Send, Query, AddResponse, CommitEx,
     ReadAcks, produceBlock, pushBlock, ReadHeight, SetLastBillingHeight, updateBilling

-----------------------------------------------------------------------------
(***************************************************************************)
(* The bills.                                                              *)
(***************************************************************************)
\* PlaceInv holds after a step that only takes queries out of pools and blocks in production.
LEMMA PlaceStays ==
  ASSUME TypeOK, PlaceInv, Next, UNCHANGED mined,
         \A n \in Nodes : pool'[n] \subseteq pool[n] /\ draft'[n].queries \subseteq draft[n].queries
  PROVE  PlaceInv'
<1>1. /\ pool \in [Nodes -> SUBSET Queries] /\ draft \in [Nodes -> Drafts]
      /\ mined \in Seq(Blocks)
  BY Zenon DEF TypeOK
<1>2. \A n \in Nodes : pool[n] \subseteq Queries /\ draft[n].queries \subseteq Queries
  BY <1>1, Zenon DEF Drafts
<1>3. \A i \in 1..Len(mined) : mined[i].queries \subseteq Queries
  BY BlockFact, Zenon
<1>4. ASSUME NEW q \in Queries, Executed(q) PROVE Executed(q)' /\ query'[q].node = query[q].node
  BY <1>4, QueryKept, Zenon DEF Executed
<1>5. \A q : InChain(q)' <=> InChain(q)
  BY Zenon DEF InChain
<1>6. ASSUME NEW n \in Nodes, NEW q \in pool'[n]
      PROVE  (Executed(q) /\ query[q].node = n /\ q \notin draft[n].queries /\ ~InChain(q))'
  BY <1>2, <1>4, <1>5, Zenon DEF PlaceInv
<1>7. ASSUME NEW n \in Nodes, NEW q \in draft'[n].queries
      PROVE  (Executed(q) /\ query[q].node = n /\ ~InChain(q))'
  BY <1>2, <1>4, <1>5, Zenon DEF PlaceInv
<1>8. ASSUME NEW i \in 1..Len(mined), NEW q \in mined[i].queries
      PROVE  Executed(q)' /\ \A j \in 1..Len(mined) : q \in mined[j].queries => j = i
  BY <1>3, <1>4, Zenon DEF PlaceInv
<1> QED
  BY <1>6, <1>7, <1>8 DEF PlaceInv

\* A query comes into the pool of its miner when it is executed.
LEMMA PlaceQuery ==
  ASSUME TypeOK, PlaceInv, Next, NEW p \in Queries, Query(p)
  PROVE  PlaceInv'
<1> DEFINE m == query[p].node
<1>1. /\ pool \in [Nodes -> SUBSET Queries] /\ draft \in [Nodes -> Drafts]
      /\ mined \in Seq(Blocks)
      /\ query \in [Queries -> QueryRecords]
  BY Zenon DEF TypeOK
<1>2. \A n \in Nodes : pool[n] \subseteq Queries /\ draft[n].queries \subseteq Queries
  BY <1>1, Zenon DEF Drafts
<1>3. \A i \in 1..Len(mined) : mined[i].queries \subseteq Queries
  BY BlockFact, Zenon
<1>4. ASSUME NEW q \in Queries, Executed(q) PROVE Executed(q)' /\ query'[q].node = query[q].node
  BY <1>4, QueryKept, Zenon DEF Executed
<1>5. /\ UNCHANGED <<draft, mined>> /\ m \in Nodes
      /\ pool' = [pool EXCEPT ![m] = @ \union {p}]
      /\ query'[p].at = "done" /\ query'[p].node = m /\ query[p].at = "sent"
  BY <1>1, Zenon DEF Query
<1> HIDE DEF m
<1>6. \A q : InChain(q)' <=> InChain(q)
  BY <1>5, Zenon DEF InChain
<1>7. ~InChain(p) /\ \A n \in Nodes : p \notin draft[n].queries
  BY <1>5 DEF PlaceInv, Executed, InChain
<1>8. Executed(p)'
  BY <1>5, Zenon DEF Executed
<1>9. ASSUME NEW n \in Nodes, NEW q \in pool'[n]
      PROVE  (Executed(q) /\ query[q].node = n /\ q \notin draft[n].queries /\ ~InChain(q))'
  <2>1. CASE q \in pool[n]
    <3>1. Executed(q) /\ query[q].node = n /\ q \notin draft[n].queries /\ ~InChain(q)
      BY <2>1, Zenon DEF PlaceInv
    <3> QED
      BY <1>2, <1>4, <1>5, <1>6, <2>1, <3>1, Zenon
  <2>2. CASE q \notin pool[n]
    <3>1. q = p /\ n = m
      BY <1>1, <1>5, <2>2, Zenon
    <3> QED
      BY <1>5, <1>6, <1>7, <1>8, <3>1, Zenon
  <2> QED
    BY <2>1, <2>2, Zenon
<1>10. ASSUME NEW n \in Nodes, NEW q \in draft'[n].queries
      PROVE  (Executed(q) /\ query[q].node = n /\ ~InChain(q))'
  BY <1>2, <1>4, <1>5, <1>6 DEF PlaceInv
<1>11. ASSUME NEW i \in 1..Len(mined), NEW q \in mined[i].queries
      PROVE  Executed(q)' /\ \A j \in 1..Len(mined) : q \in mined[j].queries => j = i
  BY <1>3, <1>4, Zenon DEF PlaceInv
<1> QED
  BY <1>5, <1>9, <1>10, <1>11 DEF PlaceInv

\* CommitEx moves the pool of a miner to its block.
LEMMA PlaceCommit ==
  ASSUME TypeOK, PlaceInv, NEW m \in Nodes, CommitEx(m)
  PROVE  PlaceInv'
<1>1. /\ pool \in [Nodes -> SUBSET Queries] /\ draft \in [Nodes -> Drafts]
  BY Zenon DEF TypeOK
<1>2. UNCHANGED <<mined, query>> /\ pool' = [pool EXCEPT ![m] = {}]
  BY Zenon DEF CommitEx
<1>3. draft'[m].queries = pool[m] /\ \A n \in Nodes : n # m => draft'[n] = draft[n]
  <2>1. PICK f : draft' = [draft EXCEPT ![m] = [NoDraft EXCEPT !.at = "taken",
                                                 !.queries = pool[m], !.failed = f]]
    BY Zenon DEF CommitEx
  <2>2. [NoDraft EXCEPT !.at = "taken", !.queries = pool[m], !.failed = f].queries = pool[m]
    BY Zenon DEF NoDraft
  <2> QED
    BY <1>1, <2>1, <2>2, Zenon
<1>4. \A q : (InChain(q)' <=> InChain(q)) /\ (Executed(q)' <=> Executed(q))
  BY <1>2, Zenon DEF InChain, Executed
<1>5. ASSUME NEW n \in Nodes, NEW q \in pool'[n]
      PROVE  (Executed(q) /\ query[q].node = n /\ q \notin draft[n].queries /\ ~InChain(q))'
  BY <1>1, <1>2, <1>3, <1>4, Zenon DEF PlaceInv
<1>6. ASSUME NEW n \in Nodes, NEW q \in draft'[n].queries
      PROVE  (Executed(q) /\ query[q].node = n /\ ~InChain(q))'
  BY <1>1, <1>2, <1>3, <1>4, Zenon DEF PlaceInv
<1> QED
  BY <1>2, <1>4, <1>5, <1>6 DEF PlaceInv

\* produceBlock moves the queries of the block to the chain.
LEMMA PlaceProduce ==
  ASSUME TypeOK, PlaceInv, NEW m \in Nodes, produceBlock(m)
  PROVE  PlaceInv'
<1>1. /\ draft \in [Nodes -> Drafts] /\ Len(mined) \in Nat
  BY DEF TypeOK
<1>2. UNCHANGED <<pool, query>>
  BY Zenon DEF produceBlock
<1>3. draft'[m].queries = {} /\ \A n \in Nodes : n # m => draft'[n] = draft[n]
  <2>1. draft' = [draft EXCEPT ![m] = [NoDraft EXCEPT !.at = "sent"]]
    BY Zenon DEF produceBlock
  <2>2. [NoDraft EXCEPT !.at = "sent"].queries = {}
    BY Zenon DEF NoDraft
  <2> QED
    BY <1>1, <2>1, <2>2, Zenon
<1>4. ASSUME NEW q, InChain(q)' PROVE InChain(q) \/ q \in draft[m].queries
  BY <1>1, <1>4, MinedFact DEF InChain
<1>5. \A q : Executed(q)' <=> Executed(q)
  BY <1>2, Zenon DEF Executed
<1>6. ASSUME NEW n \in Nodes, NEW q \in pool'[n]
      PROVE  (Executed(q) /\ query[q].node = n /\ q \notin draft[n].queries /\ ~InChain(q))'
  <2>1. Executed(q) /\ query[q].node = n /\ q \notin draft[n].queries /\ ~InChain(q)
    BY <1>2, Zenon DEF PlaceInv
  <2>2. q \notin draft[m].queries
    BY <2>1, Zenon DEF PlaceInv
  <2> QED
    BY <1>2, <1>3, <1>4, <1>5, <2>1, <2>2, Zenon
<1>7. ASSUME NEW n \in Nodes, NEW q \in draft'[n].queries
      PROVE  (Executed(q) /\ query[q].node = n /\ ~InChain(q))'
  <2>1. n # m /\ q \in draft[n].queries
    BY <1>3, Zenon
  <2>2. Executed(q) /\ query[q].node = n /\ ~InChain(q)
    BY <2>1, Zenon DEF PlaceInv
  <2>3. q \notin draft[m].queries
    BY <2>1, <2>2, Zenon DEF PlaceInv
  <2> QED
    BY <1>2, <1>4, <1>5, <2>2, <2>3, Zenon
<1>8. ASSUME NEW i \in 1..Len(mined'), NEW q \in mined'[i].queries
      PROVE  Executed(q)' /\ \A j \in 1..Len(mined') : q \in mined'[j].queries => j = i
  <2>1. CASE i \in 1..Len(mined)
    <3>1. q \in mined[i].queries /\ InChain(q)
      BY <2>1, MinedFact, Zenon DEF InChain
    <3>2. q \notin draft[m].queries
      BY <3>1, Zenon DEF PlaceInv
    <3> QED
      BY <1>1, <1>5, <2>1, <3>1, <3>2, MinedFact, SMTT(30) DEF PlaceInv
  <2>2. CASE i = Len(mined) + 1
    <3>1. q \in draft[m].queries
      BY <2>2, MinedFact, Zenon
    <3>2. Executed(q) /\ ~InChain(q)
      BY <3>1, Zenon DEF PlaceInv
    <3>3. ASSUME NEW j \in 1..Len(mined'), q \in mined'[j].queries PROVE j = i
      BY <1>1, <2>2, <3>2, <3>3, MinedFact DEF InChain
    <3> QED
      BY <1>5, <3>2, <3>3, Zenon
  <2> QED
    BY <1>1, <2>1, <2>2, MinedFact
<1> QED
  BY <1>6, <1>7, <1>8, Zenon DEF PlaceInv

\* Every step keeps PlaceInv.
LEMMA PlaceNext ==
  ASSUME TypeOK, PlaceInv, Next
  PROVE  PlaceInv'
<1> DEFINE Taken == /\ UNCHANGED mined
                    /\ \A n \in Nodes : /\ pool'[n] \subseteq pool[n]
                                        /\ draft'[n].queries \subseteq draft[n].queries
<1>1. pool \in [Nodes -> SUBSET Queries] /\ draft \in [Nodes -> Drafts]
  BY Zenon DEF TypeOK
<1>2. ASSUME NEW m \in Nodes, ReadAcks(m) PROVE Taken
  <2>1. draft' = [draft EXCEPT ![m].at = "packed", ![m].acks = acksTo(m, now)]
    BY <1>2, Zenon DEF ReadAcks
  <2>2. \A n \in Nodes : draft'[n].queries = draft[n].queries
    BY <1>1, <2>1, Zenon DEF Drafts
  <2> QED
    BY <1>2, <2>2, Zenon DEF ReadAcks
<1>3. ASSUME NEW m \in Nodes, runCurrentTurn(m) \/ Restart(m) PROVE Taken
  <2>1. /\ draft' = [draft EXCEPT ![m] = NoDraft] /\ UNCHANGED mined
        /\ pool' = pool \/ pool' = [pool EXCEPT ![m] = {}]
    BY <1>3, Zenon DEF runCurrentTurn, Restart
  <2>2. \A n \in Nodes : draft'[n].queries \subseteq draft[n].queries
    BY <1>1, <2>1, NoDraftFact, Zenon
  <2>3. \A n \in Nodes : pool'[n] \subseteq pool[n]
    BY <1>1, <2>1, Zenon
  <2> QED
    BY <2>1, <2>2, <2>3, Zenon
<1>4. ASSUME UNCHANGED <<mined, pool, draft>> PROVE Taken
  BY <1>4, Zenon
<1>5. ASSUME Taken PROVE PlaceInv'
  BY <1>5, PlaceStays, Zenon
<1> HIDE DEF Taken
<1>6. Taken \/ (\E q \in Queries : Query(q))
        \/ (\E n \in Nodes : CommitEx(n) \/ produceBlock(n))
  BY <1>2, <1>3, <1>4, Zenon DEF Next, Tick, Send, AddResponse, VerifyAndPushAckedQuery,
     pushBlock, removeAcks, ReadHeight, SetLastBillingHeight, updateBilling
<1> QED
  BY <1>5, <1>6, PlaceQuery, PlaceCommit, PlaceProduce, Zenon

\* What a bill charges stays in the chain.
LEMMA ChargesStay ==
  ASSUME TypeOK, Next, NEW b, Charges(b)
  PROVE  Charges(b)'
<1>1. CASE UNCHANGED mined
  BY <1>1, Zenon DEF Charges
<1>2. ASSUME NEW n \in Nodes, produceBlock(n) PROVE Charges(b)'
  <2>1. ASSUME NEW q \in b.queries
        PROVE  \E i \in 1..Len(mined') :
                 q \in mined'[i].queries /\ b.from < mined'[i].height /\ mined'[i].height <= b.to
    <3>1. PICK i \in 1..Len(mined) :
             q \in mined[i].queries /\ b.from < mined[i].height /\ mined[i].height <= b.to
      BY Zenon DEF Charges
    <3>2. i \in 1..Len(mined') /\ mined'[i] = mined[i]
      BY <1>2, MinedFact
    <3> QED
      BY <3>1, <3>2, Zenon
  <2> QED
    BY <2>1, Zenon DEF Charges
<1> QED
  BY <1>1, <1>2, Zenon DEF Next, Tick, Send, Query, AddResponse, VerifyAndPushAckedQuery,
     CommitEx, ReadAcks, runCurrentTurn, pushBlock, removeAcks, ReadHeight,
     SetLastBillingHeight, updateBilling, Restart

\* A bill that is made charges the queries of the blocks in its range.
LEMMA BillingCharges ==
  ASSUME TypeOK, PushInv, NEW n \in Nodes, heights[n] # <<>>
  PROVE  Charges(billing(n, Head(heights[n])))
<1> DEFINE h == Head(heights[n])
<1>1. h \in Nat /\ billed[n] \in Nat /\ Len(mined) \in Nat /\ pushed[n].count \in Nat
  BY DEF TypeOK
<1> HIDE DEF h
<1>2. /\ billing(n, h).from = billed[n] /\ billing(n, h).to = h
      /\ billing(n, h).queries = UNION {mined[i].queries : i \in {i \in 1..pushed[n].count :
                                          InRange(n, h, mined[i])}}
  BY Zenon DEF billing, getLastBillingHeight
<1>3. ASSUME NEW q \in billing(n, h).queries
      PROVE  \E i \in 1..Len(mined) : q \in mined[i].queries /\ billed[n] < mined[i].height
                                     /\ mined[i].height <= h
  <2>1. PICK i \in 1..pushed[n].count : InRange(n, h, mined[i]) /\ q \in mined[i].queries
    BY <1>2, Zenon
  <2>2. i \in 1..Len(mined)
    <3>1. pushed[n].count <= Len(mined)
      BY Zenon DEF PushInv
    <3> QED
      BY <1>1, <3>1
  <2> QED
    BY <2>1, <2>2, Zenon DEF InRange, getLastBillingHeight
<1>4. Charges(billing(n, h))
  BY <1>1, <1>2, <1>3, Zenon DEF Charges
<1> QED
  BY <1>4, Zenon DEF h

\* Every step keeps BillInv: the bill that is accepted begins where the last one ended.
LEMMA BillNext ==
  ASSUME TypeOK, PushInv, BillInv, Next
  PROVE  BillInv'
<1>1. ASSUME NEW b \in sent, updateBilling(b) PROVE BillInv'
  <2>1. PICK S : bills \in Seq(S)
    BY Zenon DEF BillInv
  <2>2. bills \in Seq(S \cup {b}) /\ Len(bills) \in Nat
    BY <2>1
  <2>3. sent' = sent \ {b} /\ bills' = Append(bills, b)
    BY <1>1, Zenon DEF updateBilling
  <2>4. /\ bills' \in Seq(S \cup {b}) /\ Len(bills') = Len(bills) + 1
        /\ bills'[Len(bills) + 1] = b
        /\ \A i \in 1..Len(bills) : bills'[i] = bills[i]
    BY <2>2, <2>3
  <2>5. Charges(b) /\ b.from < b.to /\ b.from = LastUpdatedHeight(Len(bills))
    BY <1>1, Zenon DEF BillInv, updateBilling, ValidRange
  <2>6. \A c \in sent' : Charges(c)'
    BY <2>3, ChargesStay, Zenon DEF BillInv
  <2>7. ASSUME NEW i \in 1..Len(bills') PROVE Charges(bills[i])' /\ bills'[i].from < bills'[i].to
    <3>1. CASE i \in 1..Len(bills)
      <4>1. Charges(bills[i]) /\ bills[i].from < bills[i].to
        BY <3>1, Zenon DEF BillInv
      <4>2. PICK c : c = bills[i]
        BY Zenon
      <4>3. Charges(c)'
        BY <4>1, <4>2, ChargesStay, Zenon
      <4>4. bills'[i] = c
        BY <2>4, <3>1, <4>2, Zenon
      <4> QED
        BY <4>1, <4>2, <4>3, <4>4, Zenon
    <3>2. CASE i = Len(bills) + 1
      <4>1. Charges(b)'
        BY <2>5, ChargesStay, Zenon
      <4>2. bills'[i] = b
        BY <2>4, <3>2, Zenon
      <4> QED
        BY <2>5, <4>1, <4>2, Zenon
    <3> QED
      BY <2>2, <2>4, <3>1, <3>2
  <2>8. ASSUME NEW i \in 1..Len(bills) PROVE bills[i].to <= b.from
    <3>1. /\ b.from = bills[Len(bills)].to /\ Len(bills) \in 1..Len(bills)
      BY <2>2, <2>5 DEF LastUpdatedHeight
    <3>2. /\ bills[i].to \in Nat /\ bills[Len(bills)].to \in Nat
          /\ bills[Len(bills)].from \in Nat
          /\ bills[Len(bills)].from < bills[Len(bills)].to
      BY <3>1, Zenon DEF BillInv, Charges
    <3>3. i < Len(bills) => bills[i].to <= bills[Len(bills)].from
      BY <3>1, Zenon DEF BillInv
    <3> QED
      BY <2>2, <3>1, <3>2, <3>3
  <2>9. ASSUME NEW i \in 1..Len(bills'), NEW j \in 1..Len(bills'), i < j
        PROVE  bills'[i].to <= bills'[j].from
    <3>1. i \in 1..Len(bills) /\ bills'[i] = bills[i]
      BY <2>2, <2>4, <2>9
    <3>2. CASE j \in 1..Len(bills)
      <4>1. bills'[j] = bills[j] /\ bills[i].to <= bills[j].from
        BY <2>4, <2>9, <3>1, <3>2, Zenon DEF BillInv
      <4> QED
        BY <3>1, <4>1, Zenon
    <3>3. CASE j = Len(bills) + 1
      BY <2>4, <2>8, <3>1, <3>3, Zenon
    <3> QED
      BY <2>2, <2>4, <3>2, <3>3
  <2> QED
    BY <2>4, <2>6, <2>7, <2>9, Zenon DEF BillInv
<1>2. ASSUME NEW n \in Nodes, ReadHeight(n) PROVE BillInv'
  <2>1. UNCHANGED <<mined, bills>> /\ heights[n] # <<>>
    BY <1>2, Zenon DEF ReadHeight
  <2>2. ASSUME NEW b \in sent' PROVE Charges(b)'
    <3>1. b \in sent \/ b = billing(n, Head(heights[n]))
      BY <1>2, Zenon DEF ReadHeight
    <3>2. Charges(b)
      BY <2>1, <3>1, BillingCharges, Zenon DEF BillInv
    <3> QED
      BY <3>2, ChargesStay, Zenon
  <2>3. \A i \in 1..Len(bills) : Charges(bills[i])'
    BY <2>1, Zenon DEF BillInv, Charges
  <2> QED
    BY <2>1, <2>2, <2>3, Zenon DEF BillInv
<1>3. ASSUME UNCHANGED <<sent, bills>> PROVE BillInv'
  <2>1. \A b \in sent' : Charges(b)'
    BY <1>3, ChargesStay, Zenon DEF BillInv
  <2>2. ASSUME NEW i \in 1..Len(bills) PROVE Charges(bills[i])'
    <3>1. PICK c : c = bills[i]
      BY Zenon
    <3>2. Charges(c)'
      BY <3>1, ChargesStay, Zenon DEF BillInv
    <3>3. bills'[i] = c
      BY <1>3, <3>1, Zenon
    <3> QED
      BY <3>2, <3>3, Zenon
  <2> QED
    BY <1>3, <2>1, <2>2, Zenon DEF BillInv
<1> QED
  BY <1>1, <1>2, <1>3, Zenon DEF Next, Tick, Send, Query, AddResponse, VerifyAndPushAckedQuery,
     CommitEx, ReadAcks, produceBlock, runCurrentTurn, pushBlock, removeAcks,
     SetLastBillingHeight, Restart, billVars

-----------------------------------------------------------------------------
(***************************************************************************)
(* The theorems.                                                           *)
(***************************************************************************)
\* A miner begins with an empty index, and there is no block and no bill.
LEMMA InitInv == Init => IInv
<1> SUFFICES ASSUME Init PROVE IInv
  BY Zenon
<1>1. TakenInv /\ PushInv
  <2>1. /\ acks = [n \in Nodes |-> {}] /\ draft = [n \in Nodes |-> NoDraft] /\ mined = <<>>
        /\ pushed = [n \in Nodes |-> [count |-> 0, half |-> FALSE]]
    BY Zenon DEF Init
  <2> QED
    BY <2>1, NoDraftFact DEF TakenInv, PushInv
<1>2. BarrierInv /\ FindInv
  BY DEF Init, BarrierInv, FindInv, Waits
<1>5. TimeInv
  BY DEF Init, TimeInv
<1>3. PlaceInv
  <2>1. /\ pool = [n \in Nodes |-> {}] /\ draft = [n \in Nodes |-> NoDraft] /\ mined = <<>>
    BY Zenon DEF Init
  <2> QED
    BY <2>1, NoDraftFact DEF PlaceInv
<1>4. BillInv
  <2>1. bills = <<>> /\ sent = {}
    BY Zenon DEF Init
  <2>2. bills \in Seq({})
    BY <2>1
  <2> QED
    BY <2>1, <2>2 DEF BillInv
<1> QED
  BY <1>1, <1>2, <1>3, <1>4, <1>5, TypeInit, Zenon DEF IInv

\* The invariant is inductive.
LEMMA Inductive == IInv /\ [Next]_vars => IInv'
<1> SUFFICES ASSUME IInv, [Next]_vars PROVE IInv'
  BY Zenon
<1>1. TypeOK'
  BY TypeNext, Zenon DEF IInv
<1>2. CASE Next
  BY <1>1, <1>2, TakenNext, PushNext, BarrierNext, TimeNext, FindNext, PlaceNext, BillNext, Zenon DEF IInv
<1>3. CASE UNCHANGED vars
  <2>1. TakenInv' /\ PushInv'
    BY <1>3, Zenon DEF IInv, TakenInv, PushInv, vars
  <2>2. BarrierInv' /\ FindInv'
    BY <1>3, Zenon DEF IInv, BarrierInv, FindInv, Waits, queryTimeIsExpired, getMinValidHeight, Height,
       vars
  <2>5. TimeInv'
    BY <1>3, Zenon DEF IInv, TimeInv, vars
  <2>3. PlaceInv'
    BY <1>3 DEF IInv, PlaceInv, Executed, InChain, vars
  <2>4. BillInv'
    BY <1>3, Zenon DEF IInv, BillInv, Charges, vars
  <2> QED
    BY <1>1, <2>1, <2>2, <2>3, <2>4, <2>5, Zenon DEF IInv
<1> QED
  BY <1>2, <1>3, Zenon

\* The invariant holds throughout.
LEMMA Invariance == Spec => []IInv
  BY InitInv, Inductive, PTL DEF Spec

\* VerifyAndPushAckedQuery takes the ack of every query the miner answered and has no ack
\* of yet, as long as the time of the request is not expired and the miner has not
\* restarted, whatever blocks were pushed and whatever advance dropped in between: the
\* index, which is by the time of the request, has the response, and the time of the
\* response, which the ack is checked by, is not before that of the request.
THEOREM AckFindsResponse == Spec => []AckWillFind
<1>1. IInv => AckWillFind
  <2> SUFFICES ASSUME IInv, NEW q \in Queries, query[q].at = "answered", ack[q] = "none",
                      ~queryTimeIsExpired(query[q].node, Height(q))
               PROVE  /\ ~queryTimeIsExpired(query[q].node, ResponseHeight(q))
                      /\ Registers(query[q].node, q)
    BY Zenon DEF AckWillFind
  <2>1. q \in responses[query[q].node]
    BY Zenon DEF IInv, FindInv, Waits
  <2>2. /\ query[q].node \in Nodes /\ Height(q) \in Nat /\ ResponseHeight(q) \in Nat
        /\ barrier[query[q].node] \in Int
        /\ nextTurn[query[q].node] \in Nat /\ QueryTTL \in Nat
    BY AckIndexAssumption, Zenon DEF IInv, TypeOK, Height, ResponseHeight
  <2>3. ~(Height(q) < nextTurn[query[q].node] - QueryTTL)
    BY Zenon DEF queryTimeIsExpired, getMinValidHeight
  <2>4. barrier[query[q].node] <= 0 \/ barrier[query[q].node] <= nextTurn[query[q].node] - QueryTTL
    BY <2>2, Zenon DEF IInv, BarrierInv, getMinValidHeight
  <2>5. Height(q) >= barrier[query[q].node]
    BY <2>2, <2>3, <2>4
  <2>6. Height(q) <= ResponseHeight(q)
    BY Zenon DEF IInv, TimeInv, Height, ResponseHeight
  <2>7. ~(ResponseHeight(q) < nextTurn[query[q].node] - QueryTTL)
    BY <2>2, <2>3, <2>6
  <2> QED
    BY <2>1, <2>5, <2>7, Zenon DEF Registers, load, queryTimeIsExpired, getMinValidHeight
<1> QED
  BY <1>1, Invariance, PTL

\* An ack leaves the index of the miner that took it only when a block with it is stored,
\* when it expires, or in a restart: remove, advance and the restart are the only ways out.
THEOREM AcksStay == Spec => NoAckLost
<1>1. ASSUME IInv, [Next]_vars
      PROVE  [\A n \in Nodes : \A q \in acks[n] \ acks'[n] :
                \/ pushed[n].half /\ q \in mined[pushed[n].count].acks
                \/ Height(q) < barrier'[n]
                \/ restarts' # restarts]_vars
  <2>1. CASE Next
    <3>1. TypeOK
      BY <1>1, Zenon DEF IInv
    <3> QED
      BY <2>1, <3>1, AckLeaves, Zenon
  <2>2. CASE UNCHANGED vars
    BY <2>2, Zenon
  <2> QED
    BY <1>1, <2>1, <2>2, Zenon
<1> QED
  BY <1>1, Invariance, PTL DEF Spec, NoAckLost

\* No query is charged by two bills that the main chain accepted. A query is in one block,
\* and the ranges of heights of the accepted bills do not overlap, whoever made the bills and
\* whichever height the miner took for the last one billed.
THEOREM OneCharge == Spec => []NoDoubleCharge
<1>1. IInv => NoDoubleCharge
  <2> SUFFICES ASSUME IInv, NEW i \in DOMAIN bills, NEW j \in DOMAIN bills, i # j,
                      NEW q \in bills[i].queries, q \in bills[j].queries
               PROVE  FALSE
    BY Zenon DEF NoDoubleCharge
  <2>1. DOMAIN bills = 1..Len(bills) /\ Len(bills) \in Nat
    BY DEF IInv, BillInv
  <2>2. Charges(bills[i]) /\ Charges(bills[j])
    BY <2>1, Zenon DEF IInv, BillInv
  <2>3. PICK k \in 1..Len(mined) : /\ q \in mined[k].queries
                                  /\ bills[i].from < mined[k].height
                                  /\ mined[k].height <= bills[i].to
    BY <2>2, Zenon DEF Charges
  <2>4. PICK l \in 1..Len(mined) : /\ q \in mined[l].queries
                                  /\ bills[j].from < mined[l].height
                                  /\ mined[l].height <= bills[j].to
    BY <2>2, Zenon DEF Charges
  <2>5. k = l
    BY <2>3, <2>4, Zenon DEF IInv, PlaceInv
  <2>6. bills[i].to <= bills[j].from \/ bills[j].to <= bills[i].from
    BY <2>1 DEF IInv, BillInv
  <2>7. /\ bills[i].from \in Nat /\ bills[i].to \in Nat
        /\ bills[j].from \in Nat /\ bills[j].to \in Nat
    BY <2>2, Zenon DEF Charges
  <2>8. mined[k].height \in Nat
    BY BlockFact, Zenon DEF IInv
  <2> QED
    BY <2>3, <2>4, <2>5, <2>6, <2>7, <2>8, SMTT(30), Zenon
<1> QED
  BY <1>1, Invariance, PTL

=============================================================================
