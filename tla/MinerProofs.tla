---------------------------- MODULE MinerProofs ----------------------------
(***************************************************************************)
(* Proofs about Miner: the files of a database that clients wrote to are   *)
(* kept, queries follow the permissions of the main chain, and a bus that  *)
(* waits has handled all that the main chain announced.                    *)
(***************************************************************************)
EXTENDS Miner, TLAPS

-----------------------------------------------------------------------------
(***************************************************************************)
(* The inductive invariant.                                                *)
(***************************************************************************)
Stages == {"idle", "keep", "clean", "add", "range", "cut", "write"}
PollType == [at : {"off", "wait", "asked", "load", "txs"}, from : Nat, to : Counts,
             block : Nat, tx : Nat]
CreateType == [at : Stages, snap : SUBSET DBs]
ReqType == [at : {"idle", "checked"}, db : DBs \cup {""}, kind : Kinds \cup {""},
            seen : Counts]
Heights == {0} \cup {LastUpdatedHeight[n][d] : n \in Counts, d \in DBs}

\* Every variable has the type its Go counterpart has.
TypeOK ==
  /\ chain \in Counts
  /\ state \in {"down", "ask", "init", "up", "stop", "failed"}
  /\ bus \in [count : Counts, profiles : Counts, perms : Counts]
  /\ poll \in PollType
  /\ create \in [Writers -> CreateType]
  /\ dbMap \in SUBSET DBs
  /\ open \in SUBSET DBs
  /\ billing \in [DBs -> Heights]
  /\ meta \in (SUBSET DBs) \cup {Torn}
  /\ disk \in [DBs -> {"none", "fresh", "used"}]
  /\ req \in [Users -> ReqType]
  /\ local \in SUBSET DBs
  /\ missed \in SUBSET DBs
  /\ skipped \in SUBSET (1..Len(Blocks))

\* The DBMS has its databases and its bus only from Init to its end.
Runs == state \in {"init", "up", "stop"}
Polls == state \in {"up", "stop"}

\* What is empty outside, and which Creates run in Init and later: those of Init keep the
\* files, and later there is one at a time, while a block is read.
PhaseInv ==
  /\ ~Runs => /\ dbMap = {} /\ poll.at = "off"
              /\ \A w \in Writers : create[w].at = "idle" /\ create[w].snap = {}
              /\ \A u \in Users : req[u].at = "idle"
  /\ state = "ask" => poll.to <= chain
  /\ state = "init" => poll.at = "off" /\ \A d \in DBs : create[d].at # "clean"
  /\ Polls => /\ poll.at # "off"
              /\ \A d \in DBs : /\ create[d].at # "keep"
                                /\ create[d].at # "idle" => poll.at = "txs"
                                /\ \A e \in DBs : create[d].at # "idle" /\ create[e].at # "idle"
                                                    => d = e
  /\ create[Self].at \in {"idle", "range", "cut", "write"}
  /\ state # "stop" => create[Self].at = "idle"

\* The counts of the bus, and the block it is at.
BusInv ==
  Runs => /\ bus.count <= bus.profiles /\ bus.profiles <= chain /\ bus.perms = bus.profiles
          /\ poll.at = "asked" => poll.from = bus.count /\ poll.from < poll.to
                                    /\ poll.to <= chain
          /\ poll.at \in {"load", "txs"} => poll.to = bus.count /\ poll.block \in 1..poll.to
          /\ poll.at = "txs" => poll.tx >= 1

\* A checked query was permitted at a count the bus has reached.
PermInv ==
  \A u \in Users : req[u].at = "checked" =>
    \E n \in req[u].seen..chain : req[u].kind \in Permission[n][req[u].db][u]

\* The meta file, and what is about to be written to it, names databases of dbMap only;
\* in Init also databases that are not served, or whose Create has not come to the file.
FileInv ==
  Runs => /\ meta = Torn => \E w \in Writers : create[w].at = "write"
          /\ \A w \in Writers : create[w].snap \subseteq dbMap
          /\ \A d \in DBs : d \in meta /\ d \notin dbMap =>
               /\ state = "init"
               /\ \/ d \in local \ loadROSQLChains[bus.profiles]
                  \/ create[d].at \in {"keep", "add", "range", "cut"}

\* The databases of dbMap, and those about to be, have a profile and run.
MapInv ==
  /\ \A d \in DBs : d \in dbMap \/ create[d].at \in {"keep", "clean", "add"} =>
       Runs /\ d \in loadROSQLChains[bus.profiles]
  /\ \A d \in DBs : state # "stop" /\ (d \in dbMap \/ create[d].at = "add") => d \in open

\* The blocks that are done, and the transactions that were handled.
DoneTo == IF poll.at \in {"load", "txs"} THEN poll.block - 1 ELSE bus.count
Handled(p) ==
  p[1] <= DoneTo \/ (poll.at = "txs" /\ p[1] = poll.block /\ p[2] < poll.tx)

Coming(d) == d \in dbMap \/ create[d].at \in {"keep", "clean", "add"}

\* Every database announced in what is done is served, or its Create runs.
ServeInv ==
  Runs =>
    /\ \A d \in loadROSQLChains[DoneTo] \ (missed \cup Skipped) : Coming(d)
    /\ poll.at = "txs" =>
         \A j \in 1..Len(Blocks[poll.block]) :
           LET tx == Blocks[poll.block][j] IN
           j < poll.tx /\ tx.type = "CreateDatabase" /\ tx.mine
             => tx.db \in missed \/ Coming(tx.db)

\* The billing height of a database is the one at some count, and no later billing of it
\* was handled.
Follows(d, n) ==
  /\ billing[d] = LastUpdatedHeight[n][d]
  /\ skipped = {} => \A p \in Billings(Len(Blocks), d) : p[1] > n => ~Handled(p)

BillInv ==
  \A d \in DBs : d \in dbMap \/ create[d].at = "add" =>
    \E n \in 0..bus.profiles : Follows(d, n)

IInv ==
  /\ TypeOK /\ PhaseInv /\ BusInv /\ PermInv /\ FileInv /\ MapInv /\ ServeInv /\ BillInv

-----------------------------------------------------------------------------
(***************************************************************************)
(* The main chain, and functions.                                          *)
(***************************************************************************)

\* A function update stays in its type.
LEMMA Update ==
  ASSUME NEW S, NEW T, NEW f \in [S -> T], NEW x \in S, NEW v \in T
  PROVE  /\ [f EXCEPT ![x] = v] \in [S -> T]
         /\ [f EXCEPT ![x] = v][x] = v
         /\ \A y \in S : y # x => [f EXCEPT ![x] = v][y] = f[y]
  BY Zenon

\* The transactions of a block.
LEMMA TxFact ==
  ASSUME NEW i \in 1..Len(Blocks), NEW j \in 1..Len(Blocks[i])
  PROVE  Blocks[i][j] \in Tx
  <1>1. Blocks[i] \in Seq(Tx)
    BY MinerAssumption
  <1> QED
    BY <1>1

\* A block of the main chain has a length.
LEMMA BlockLength ==
  ASSUME NEW i \in 1..Len(Blocks)
  PROVE  Len(Blocks[i]) \in Nat
  <1>1. Blocks[i] \in Seq(Tx)
    BY MinerAssumption
  <1> QED
    BY <1>1

\* The main chain has a length.
LEMMA LengthFact == Len(Blocks) \in Nat
  BY MinerAssumption

\* The databases of this miner at a count are the ones announced up to it.
LEMMA LoadFact ==
  ASSUME NEW n \in Counts
  PROVE  /\ loadROSQLChains[n] \subseteq DBs
         /\ \A d : d \in loadROSQLChains[n] <=>
              \E i \in 1..n : \E j \in 1..Len(Blocks[i]) :
                /\ Blocks[i][j].type = "CreateDatabase"
                /\ Blocks[i][j].mine /\ Blocks[i][j].db = d
  <1>1. loadROSQLChains[n] =
          {At(p).db : p \in {q \in Txs(n) : At(q).type = "CreateDatabase" /\ At(q).mine}}
    BY Zenon DEF loadROSQLChains
  <1>2. ASSUME NEW d, d \in loadROSQLChains[n]
        PROVE  \E i \in 1..n : \E j \in 1..Len(Blocks[i]) :
                 /\ Blocks[i][j].type = "CreateDatabase"
                 /\ Blocks[i][j].mine /\ Blocks[i][j].db = d
    <2>1. PICK p \in Txs(n) : At(p).type = "CreateDatabase" /\ At(p).mine /\ At(p).db = d
      BY <1>1, <1>2, Zenon
    <2>2. PICK i \in 1..n : p \in {<<i, j>> : j \in 1..Len(Blocks[i])}
      BY <2>1, Zenon DEF Txs
    <2>3. PICK j \in 1..Len(Blocks[i]) : p = <<i, j>>
      BY <2>2, Zenon
    <2>4. p[1] = i /\ p[2] = j
      BY <2>3, Zenon
    <2> QED
      BY <2>1, <2>4, Zenon DEF At
  <1>3. ASSUME NEW i \in 1..n, NEW j \in 1..Len(Blocks[i]),
               Blocks[i][j].type = "CreateDatabase", Blocks[i][j].mine
        PROVE  Blocks[i][j].db \in loadROSQLChains[n]
    <2> DEFINE p == <<i, j>>
    <2>1. p \in Txs(n)
      BY DEF Txs
    <2>2. At(p) = Blocks[i][j]
      BY Zenon DEF At
    <2> QED
      BY <1>1, <1>3, <2>1, <2>2, Zenon
  <1>4. ASSUME NEW d, d \in loadROSQLChains[n]
        PROVE  d \in DBs
    <2>1. PICK i \in 1..n : \E j \in 1..Len(Blocks[i]) : Blocks[i][j].db = d
      BY <1>2, <1>4, Zenon
    <2>2. PICK j \in 1..Len(Blocks[i]) : Blocks[i][j].db = d
      BY <2>1, Zenon
    <2>3. i \in 1..Len(Blocks)
      BY LengthFact DEF Counts
    <2> QED
      BY <2>2, <2>3, TxFact, Zenon DEF Tx
  <1> QED
    BY <1>2, <1>3, <1>4, Zenon

\* They grow with the count.
LEMMA LoadGrows ==
  ASSUME NEW n \in Counts, NEW m \in Counts, n <= m
  PROVE  loadROSQLChains[n] \subseteq loadROSQLChains[m]
  <1>1. 1..n \subseteq 1..m
    BY LengthFact DEF Counts
  <1> QED
    BY <1>1, LoadFact

\* A database that is new at a count is announced in its block, and a database announced
\* in a block is there at its count.
LEMMA LoadStep ==
  ASSUME NEW n \in Counts, n > 0, NEW d
  PROVE  d \in loadROSQLChains[n] <=>
           \/ d \in loadROSQLChains[n - 1]
           \/ \E j \in 1..Len(Blocks[n]) :
                /\ Blocks[n][j].type = "CreateDatabase"
                /\ Blocks[n][j].mine /\ Blocks[n][j].db = d
  <1>1. n - 1 \in Counts /\ n \in 1..n
    BY LengthFact DEF Counts
  <1>2. \A i \in 1..n : i = n \/ i \in 1..(n - 1)
    BY <1>1, LengthFact DEF Counts
  <1>3. \A i \in 1..(n - 1) : i \in 1..n
    BY <1>1, LengthFact DEF Counts
  <1> QED
    BY <1>1, <1>2, <1>3, LoadFact, SMTT(30), Zenon

\* The billing height of a profile depends on the billings only.
LEMMA SameBillings ==
  ASSUME NEW n \in Counts, NEW m \in Counts, NEW d \in DBs, Billings(n, d) = Billings(m, d)
  PROVE  LastUpdatedHeight[n][d] = LastUpdatedHeight[m][d]
  <1> DEFINE height(S) == IF Latest(S) = {} THEN 0 ELSE At(CHOOSE p \in Latest(S) : TRUE).height
  <1>1. LastUpdatedHeight = [k \in Counts |-> [e \in DBs |-> height(Billings(k, e))]]
    BY Zenon DEF LastUpdatedHeight
  <1> HIDE DEF height
  <1>2. LastUpdatedHeight[n][d] = height(Billings(n, d))
    BY <1>1, Zenon
  <1>3. LastUpdatedHeight[m][d] = height(Billings(m, d))
    BY <1>1, Zenon
  <1> QED
    BY <1>2, <1>3, Zenon

\* The billings up to a count are those of its blocks.
LEMMA BillingFact ==
  ASSUME NEW n \in Counts, NEW d \in DBs
  PROVE  \A p : p \in Billings(n, d) <=> p \in Billings(Len(Blocks), d) /\ p[1] <= n
  <1>1. \A p : p \in Txs(n) <=> p \in Txs(Len(Blocks)) /\ p[1] <= n
    <2>1. ASSUME NEW p \in Txs(n)
          PROVE  p \in Txs(Len(Blocks)) /\ p[1] <= n
      <3>1. PICK i \in 1..n : p \in {<<i, j>> : j \in 1..Len(Blocks[i])}
        BY Zenon DEF Txs
      <3>2. i \in 1..Len(Blocks) /\ i <= n
        BY LengthFact DEF Counts
      <3>3. p[1] = i
        BY <3>1
      <3> QED
        BY <3>1, <3>2, <3>3 DEF Txs
    <2>2. ASSUME NEW p \in Txs(Len(Blocks)), p[1] <= n
          PROVE  p \in Txs(n)
      <3>1. PICK i \in 1..Len(Blocks) : p \in {<<i, j>> : j \in 1..Len(Blocks[i])}
        BY Zenon DEF Txs
      <3>2. p[1] = i
        BY <3>1
      <3>3. i \in 1..n
        BY <2>2, <3>2, LengthFact DEF Counts
      <3> QED
        BY <3>1, <3>3 DEF Txs
    <2> QED
      BY <2>1, <2>2, Zenon
  <1> QED
    BY <1>1, Zenon DEF Billings

-----------------------------------------------------------------------------
(***************************************************************************)
(* Types.                                                                  *)
(***************************************************************************)

\* What the process starts with has its type.
LEMMA EmptyTypes ==
  /\ NotPolling \in PollType /\ Waiting \in PollType
  /\ NoCreate \in CreateType /\ Creating("keep") \in CreateType /\ Creating("clean") \in CreateType
  /\ NoReq \in ReqType
  /\ 0 \in Counts /\ 0 \in Heights
  <1>1. 0 \in Counts
    BY LengthFact DEF Counts
  <1>2. NotPolling \in PollType /\ Waiting \in PollType
    BY <1>1, Zenon DEF NotPolling, Waiting, PollType
  <1>3. /\ NoCreate \in CreateType
        /\ Creating("keep") \in CreateType /\ Creating("clean") \in CreateType
    BY Zenon DEF NoCreate, Creating, CreateType, Stages
  <1> QED
    BY <1>1, <1>2, <1>3 DEF NoReq, ReqType, Heights

\* The billing height of a database at a count is one of Heights.
LEMMA HeightType ==
  ASSUME NEW n \in Counts, NEW d \in DBs
  PROVE  LastUpdatedHeight[n][d] \in Heights
  BY DEF Heights

\* The block that is read, and its next transaction.
LEMMA ReadFact ==
  ASSUME TypeOK, PhaseInv, BusInv, poll.at \in {"load", "txs"}
  PROVE  /\ Polls
         /\ poll.block \in 1..Len(Blocks) /\ poll.block \in Counts
         /\ poll.block <= bus.count /\ poll.to = bus.count /\ bus.count <= bus.profiles
         /\ poll.tx <= Len(Blocks[poll.block]) /\ poll.at = "txs"
              => /\ poll.tx \in 1..Len(Blocks[poll.block])
                 /\ Blocks[poll.block][poll.tx] \in Tx
  <1>1. Runs /\ state # "init"
    BY Zenon DEF PhaseInv
  <1>2. poll.block \in 1..Len(Blocks) /\ poll.block <= bus.count /\ poll.to = bus.count
        /\ bus.count <= bus.profiles
    BY <1>1, LengthFact DEF BusInv, Counts, TypeOK, PollType
  <1>3. poll.tx <= Len(Blocks[poll.block]) /\ poll.at = "txs"
          => poll.tx \in 1..Len(Blocks[poll.block])
    BY <1>1, <1>2, BlockLength DEF BusInv, TypeOK, PollType
  <1>4. Polls /\ poll.block \in Counts
    BY <1>1, <1>2, LengthFact DEF Runs, Polls, Counts
  <1> QED
    BY <1>2, <1>3, <1>4, TxFact, Zenon

\* Every step keeps the types.
LEMMA TypeNext ==
  ASSUME TypeOK, PhaseInv, BusInv, [Next]_vars
  PROVE  TypeOK'
  <1>e. ASSUME Ends
        PROVE  /\ poll' \in PollType /\ create' \in [Writers -> CreateType]
               /\ dbMap' \in SUBSET DBs /\ open' \in SUBSET DBs
               /\ billing' \in [DBs -> Heights]
               /\ req' \in [Users -> ReqType]
               /\ local' \in SUBSET DBs /\ missed' \in SUBSET DBs
               /\ skipped' \in SUBSET (1..Len(Blocks))
    BY <1>e, EmptyTypes, Zenon DEF Ends
  <1>1. CASE Mine
    <2>1. chain' \in Counts
      BY <1>1, LengthFact DEF Mine, Counts, TypeOK
    <2> QED
      BY <1>1, <2>1, Zenon DEF Mine, TypeOK
  <1>2. CASE NewBusService
    <2>1. chain' \in Counts
      BY <1>2, LengthFact DEF NewBusService, Counts, TypeOK
    <2>2. poll' \in PollType
      BY <1>2, <2>1, Zenon DEF NewBusService, NotPolling, PollType
    <2> QED
      BY <1>2, <2>1, <2>2, Zenon DEF NewBusService, TypeOK
  <1>3. CASE Answered
    <2>1. bus' \in [count : Counts, profiles : Counts, perms : Counts]
      BY <1>3, EmptyTypes
      DEF Answered, updateState, loadSQLChainProfiles, TypeOK, PollType
    <2>2. UNCHANGED <<chain, meta, disk>>
      BY <1>3, Zenon DEF Answered
    <2>3. CASE state' = "failed" /\ Ends
      BY <2>1, <2>2, <2>3, <1>e, Zenon DEF TypeOK
    <2>4. CASE state' # "failed"
      <3>1. poll' \in PollType
        BY <1>3, <2>4, EmptyTypes, Zenon DEF Answered
      <3>2. create' \in [Writers -> CreateType]
        BY <1>3, <2>4, EmptyTypes, Zenon DEF Answered
      <3>3. local' \in SUBSET DBs
        <4>1. meta # Torn /\ local' = meta
          BY <1>3, <2>4, Zenon DEF Answered, readMeta
        <4>2. meta \in SUBSET DBs \/ meta = Torn
          BY Zenon DEF TypeOK
        <4> QED
          BY <4>1, <4>2, Zenon
      <3> QED
        BY <1>3, <2>1, <2>2, <2>4, <3>1, <3>2, <3>3, Zenon DEF Answered, TypeOK
    <2> QED
      BY <1>3, <2>3, <2>4, Zenon DEF Answered
  <1>4. CASE initDatabases
    <2>1. UNCHANGED <<chain, bus, meta, disk>>
      BY <1>4, Zenon DEF initDatabases
    <2>2. CASE state' = "failed" /\ Ends
      BY <2>1, <2>2, <1>e, Zenon DEF TypeOK
    <2>3. CASE Started /\ UNCHANGED <<create, dbMap, open, billing, req, local, missed, skipped>>
      BY <2>1, <2>3, EmptyTypes, Zenon DEF Started, TypeOK
    <2> QED
      BY <1>4, <2>2, <2>3, Zenon DEF initDatabases
  <1>5. CASE Stopped
    BY <1>5, <1>e, Zenon DEF Stopped, TypeOK
  <1>6. CASE Crash
    BY <1>6, <1>e, Zenon DEF Crash, TypeOK
  <1>7. CASE Ask
    <2>1. poll' \in PollType
      BY <1>7, LengthFact DEF Ask, fetchLastIrreversibleBlock, Counts, TypeOK, PollType
    <2> QED
      BY <1>7, <2>1, Zenon DEF Ask, TypeOK
  <1>8. CASE UpdateState
    <2>1. bus' \in [count : Counts, profiles : Counts, perms : Counts]
      BY <1>8, Zenon DEF UpdateState, updateState, loadSQLChainProfiles, TypeOK, PollType
    <2>2. poll' \in PollType
      <3>1. poll.from + 1 \in Nat /\ poll \in PollType
        BY DEF TypeOK, PollType
      <3> QED
        BY <1>8, <3>1, Zenon DEF UpdateState, Loads, PollType
    <2> QED
      BY <1>8, <2>1, <2>2, Zenon DEF UpdateState, TypeOK
  <1>9. CASE fetchBlockByCount
    <2>1. poll' \in PollType
      <3>1. poll.block + 1 \in Nat /\ poll \in PollType
        BY DEF TypeOK, PollType
      <3> QED
        BY <1>9, <3>1 DEF fetchBlockByCount, Loads, Reads, PollType
    <2>2. skipped' \in SUBSET (1..Len(Blocks))
      BY <1>9, ReadFact, Zenon DEF fetchBlockByCount, TypeOK
    <2> QED
      BY <1>9, <2>1, <2>2, Zenon DEF fetchBlockByCount, TypeOK
  <1>10. CASE extractTxs
    <2> DEFINE tx == Blocks[poll.block][poll.tx]
    <2>1. tx \in Tx /\ tx.db \in DBs /\ tx.db \in Writers
      BY <1>10, ReadFact, Zenon DEF extractTxs, Tx, Writers
    <2>2. poll' \in PollType
      BY <1>10 DEF extractTxs, Reads, TypeOK, PollType
    <2>3. create' \in [Writers -> CreateType]
      <3>1. create' = create \/ create' = [create EXCEPT ![tx.db] = Creating("clean")]
        BY <1>10, Zenon DEF extractTxs, Publish, createDatabase, updateBilling
      <3> QED
        BY <2>1, <3>1, EmptyTypes, Update DEF TypeOK
    <2>4. billing' \in [DBs -> Heights]
      <3>1. LastUpdatedHeight[bus.profiles][tx.db] \in Heights
        BY <2>1, HeightType, Zenon DEF TypeOK
      <3>2. billing' = billing
              \/ billing' = [billing EXCEPT ![tx.db] = LastUpdatedHeight[bus.profiles][tx.db]]
        BY <1>10, Zenon DEF extractTxs, Publish, createDatabase, updateBilling
      <3>3. billing \in [DBs -> Heights]
        BY Zenon DEF TypeOK
      <3> QED
        BY <2>1, <3>1, <3>2, <3>3, Zenon
    <2> QED
      BY <1>10, <2>2, <2>3, <2>4, Zenon DEF extractTxs, TypeOK
  <1>11. CASE NextBlock
    <2>1. poll' \in PollType
      <3>1. poll.block + 1 \in Nat /\ poll \in PollType
        BY DEF TypeOK, PollType
      <3> QED
        BY <1>11, <3>1, EmptyTypes, Zenon DEF NextBlock, Loads, PollType
    <2> QED
      BY <1>11, <2>1, Zenon DEF NextBlock, TypeOK
  <1>12. ASSUME NEW d \in DBs, CreateStart(d)
         PROVE  TypeOK'
    <2>1. create' \in [Writers -> CreateType]
      <3>1. PICK c \in CreateType : create' = [create EXCEPT ![d] = c]
        BY <1>12, EmptyTypes, Zenon DEF CreateStart, TypeOK, CreateType, Stages, Writers
      <3> QED
        BY <3>1, Update, Zenon DEF TypeOK, Writers
    <2>2. disk' \in [DBs -> {"none", "fresh", "used"}]
      BY <1>12, Zenon DEF CreateStart, TypeOK
    <2>3. open' \in SUBSET DBs /\ missed' \in SUBSET DBs
      BY <1>12, Zenon DEF CreateStart, NewDatabase, TypeOK
    <2>4. billing' \in [DBs -> Heights]
      <3>1. LastUpdatedHeight[bus.profiles][d] \in Heights
        BY HeightType, Zenon DEF TypeOK
      <3>2. billing' = billing
              \/ billing' = [billing EXCEPT ![d] = LastUpdatedHeight[bus.profiles][d]]
        BY <1>12, Zenon DEF CreateStart, NewDatabase
      <3> QED
        BY <3>1, <3>2, Update DEF TypeOK
    <2> QED
      BY <1>12, <2>1, <2>2, <2>3, <2>4, Zenon DEF CreateStart, TypeOK
  <1>13. ASSUME NEW w \in Writers, PhaseInv, addMeta(w)
         PROVE  TypeOK'
    <2>1. PICK c \in CreateType : create' = [create EXCEPT ![w] = c]
      BY <1>13, Zenon DEF addMeta, TypeOK, CreateType, Stages
    <2>2. create' \in [Writers -> CreateType]
      BY <2>1, Update, Zenon DEF TypeOK
    <2>3. w \in DBs
      BY <1>13, Zenon DEF addMeta, PhaseInv, Writers
    <2> QED
      BY <1>13, <2>2, <2>3, Zenon DEF addMeta, TypeOK
  <1>14. ASSUME NEW w \in Writers, writeMeta(w)
         PROVE  TypeOK'
    <2>1. PICK c \in CreateType : create' = [create EXCEPT ![w] = c]
      BY <1>14, EmptyTypes, Zenon DEF writeMeta, TypeOK, CreateType, Stages
    <2>2. create' \in [Writers -> CreateType]
      BY <2>1, Update, Zenon DEF TypeOK
    <2>3. meta' \in (SUBSET DBs) \cup {Torn}
      <3>1. create[w].snap \in SUBSET DBs
        BY Zenon DEF TypeOK, CreateType
      <3>2. meta' = meta \/ meta' = Torn \/ meta' = create[w].snap
        BY <1>14, Zenon DEF writeMeta
      <3> QED
        BY <3>1, <3>2, Zenon DEF TypeOK
    <2> QED
      BY <1>14, <2>2, <2>3, Zenon DEF writeMeta, TypeOK
  <1>15. ASSUME NEW u \in Users, NEW d \in DBs, NEW k \in Asked, checkPermission(u, d, k)
         PROVE  TypeOK'
    <2>1. PICK c \in ReqType : req' = [req EXCEPT ![u] = c]
      BY <1>15, MinerAssumption, Zenon DEF checkPermission, TypeOK, ReqType
    <2>2. req' \in [Users -> ReqType]
      BY <2>1, Update, Zenon DEF TypeOK
    <2> QED
      BY <1>15, <2>2, Zenon DEF checkPermission, TypeOK
  <1>16. ASSUME NEW u \in Users, Query(u)
         PROVE  TypeOK'
    <2>1. req' \in [Users -> ReqType]
      BY <1>16, Update, EmptyTypes, Zenon DEF Query, TypeOK
    <2>2. disk' \in [DBs -> {"none", "fresh", "used"}]
      BY <1>16, Zenon DEF Query, TypeOK
    <2> QED
      BY <1>16, <2>1, <2>2, Zenon DEF Query, TypeOK
  <1>17. CASE Shutdown
    <2>1. PICK c \in CreateType : create' = [create EXCEPT ![Self] = c]
      <3>1. [create[Self] EXCEPT !.at = "range"] \in CreateType
        BY DEF TypeOK, CreateType, Stages, Writers
      <3> QED
        BY <1>17, <3>1, Zenon DEF Shutdown
    <2>2. create' \in [Writers -> CreateType]
      BY <2>1, Update, Zenon DEF TypeOK, Writers
    <2> QED
      BY <1>17, <2>2, Zenon DEF Shutdown, Close, TypeOK
  <1>18. CASE UNCHANGED vars
    BY <1>18, Zenon DEF vars, TypeOK
  <1> QED
    BY Zenon, <1>1, <1>2, <1>3, <1>4, <1>5, <1>6, <1>7, <1>8, <1>9, <1>10, <1>11, <1>12, <1>13,
       <1>14, <1>15, <1>16, <1>17, <1>18
    DEF Next, Run, subscribeBlock, Create, Writers

-----------------------------------------------------------------------------
(***************************************************************************)
(* What the steps do.                                                      *)
(***************************************************************************)

\* Shutdown is no database, and has none.
LEMMA SelfFact == Self \in Writers /\ Self \notin DBs /\ DBs \subseteq Writers
  BY MinerAssumption, Zenon DEF Self, Writers

\* The process holds nothing once it has ended.
LEMMA EndsFact ==
  ASSUME Ends
  PROVE  /\ poll'.at = "off" /\ dbMap' = {} /\ skipped' = {}
         /\ \A w \in Writers : create'[w].at = "idle" /\ create'[w].snap = {}
         /\ \A u \in Users : req'[u].at = "idle"
  BY Zenon DEF Ends, NotPolling, NoCreate, Creating, NoReq

Others(w) == \A v \in Writers : v # w => create'[v] = create[v]

\* The start of a Create.
LEMMA StartFact ==
  ASSUME TypeOK, NEW d \in DBs, CreateStart(d)
  PROVE  /\ create[d].at \in {"keep", "clean"} /\ Others(d)
         /\ create'[d].snap \in {{}, create[d].snap}
         /\ \/ /\ d \in dbMap /\ create'[d].at = "idle"
               /\ UNCHANGED <<open, disk, billing, missed>>
            \/ /\ d \notin dbMap /\ create'[d].at = "add" /\ open' = open \cup {d}
               /\ billing' = [billing EXCEPT ![d] = LastUpdatedHeight[bus.profiles][d]]
               /\ UNCHANGED missed
            \/ /\ d \notin dbMap /\ create'[d].at = "range" /\ missed' = missed \cup {d}
               /\ UNCHANGED <<open, billing>>
  <1>1. create[d].at \in {"keep", "clean"}
    BY Zenon DEF CreateStart
  <1>2. PICK c \in CreateType : create[d] = c
    BY SelfFact, Zenon DEF TypeOK
  <1>3. CASE d \in dbMap
    <2>1. create' = [create EXCEPT ![d] = NoCreate]
          /\ UNCHANGED <<open, disk, billing, missed>>
      BY <1>3, Zenon DEF CreateStart, getMeta
    <2>2. Others(d) /\ create'[d] = NoCreate
      BY <2>1, SelfFact, Zenon DEF TypeOK, Others
    <2> QED
      BY <1>1, <1>3, <2>1, <2>2 DEF NoCreate, Creating
  <1>4. CASE d \notin dbMap
    <2>1. PICK a \in {"add", "range"} :
            /\ create' = [create EXCEPT ![d].at = a]
            /\ a = "add" => /\ open' = open \cup {d}
                            /\ billing' = [billing EXCEPT ![d] = LastUpdatedHeight[bus.profiles][d]]
                            /\ UNCHANGED missed
            /\ a = "range" => missed' = missed \cup {d} /\ UNCHANGED <<open, billing>>
      BY <1>4, Zenon DEF CreateStart, getMeta, NewDatabase
    <2>2. Others(d) /\ create'[d].at = a /\ create'[d].snap = create[d].snap
      BY <1>2, <2>1, SelfFact DEF TypeOK, Others, CreateType
    <2> QED
      BY <1>1, <1>4, <2>1, <2>2, Zenon
  <1> QED
    BY <1>3, <1>4, Zenon

\* The rest of a Create.
LEMMA AddFact ==
  ASSUME TypeOK, PhaseInv, NEW w \in Writers, addMeta(w)
  PROVE  /\ w \in DBs /\ create[w].at = "add" /\ create'[w].at = "range" /\ Others(w)
         /\ create'[w].snap = create[w].snap /\ dbMap' = dbMap \cup {w}
  <1>1. create[w] \in CreateType /\ create[w].at = "add"
    BY Zenon DEF TypeOK, addMeta
  <1>2. w \in DBs
    BY <1>1, Zenon DEF PhaseInv, Writers
  <1> QED
    BY <1>1, <1>2, Zenon DEF addMeta, TypeOK, CreateType, Others

\* What writeMeta changes, at each of its three stages.
LEMMA WriteFact ==
  ASSUME TypeOK, NEW w \in Writers, writeMeta(w)
  PROVE  /\ Others(w)
         /\ \/ /\ create[w].at = "range" /\ create'[w].at = "cut"
               /\ create'[w].snap = dbMap /\ meta' = meta
            \/ /\ create[w].at = "cut" /\ create'[w].at = "write"
               /\ create'[w].snap = create[w].snap /\ meta' = Torn
            \/ /\ create[w].at = "write" /\ create'[w].at = "idle"
               /\ create'[w].snap = {} /\ meta' = create[w].snap
  <1>1. create[w] \in CreateType
    BY Zenon DEF TypeOK
  <1>2. Others(w)
    BY Zenon DEF writeMeta, TypeOK, Others
  <1>3. CASE create[w].at = "range"
    BY <1>2, <1>3 DEF writeMeta, TypeOK
  <1>4. CASE create[w].at = "cut"
    BY <1>1, <1>2, <1>4 DEF writeMeta, TypeOK, CreateType
  <1>5. CASE create[w].at = "write"
    BY <1>2, <1>5 DEF writeMeta, TypeOK, NoCreate, Creating
  <1> QED
    BY <1>3, <1>4, <1>5, Zenon DEF writeMeta

\* The answer to the first request, if the meta file is read.
LEMMA AnsweredFact ==
  ASSUME TypeOK, PhaseInv, Answered
  PROVE  /\ state = "ask" /\ UNCHANGED <<chain, meta>>
         /\ bus'.count <= bus'.profiles /\ bus'.profiles <= chain
         /\ bus'.perms = bus'.profiles /\ bus'.profiles \in Counts
         /\ \/ state' = "failed" /\ Ends
            \/ /\ state' = "init" /\ poll'.at = "off" /\ dbMap' = {}
               /\ UNCHANGED <<open, billing, req, missed, skipped>>
               /\ meta # Torn /\ local' = meta
               /\ create'[Self].at = "idle"
               /\ \A w \in Writers : create'[w].snap = {} /\ create'[w].at \in {"idle", "keep"}
               /\ \A d \in DBs : create'[d].at = "keep" <=> d \in loadROSQLChains[bus'.profiles]
  <1>1. state = "ask" /\ UNCHANGED <<chain, meta>>
    BY Zenon DEF Answered
  <1>2. poll.to <= chain /\ dbMap = {}
    BY <1>1, Zenon DEF PhaseInv, Runs
  <1>3. /\ bus'.count <= bus'.profiles /\ bus'.profiles <= chain
        /\ bus'.perms = bus'.profiles /\ bus'.profiles \in Counts
    <2>1. chain \in Counts /\ chain \in Int /\ 0 <= chain /\ poll.to \in Int
      BY LengthFact DEF TypeOK, Counts, PollType
    <2> QED
      BY <1>2, <2>1, EmptyTypes DEF Answered, updateState, loadSQLChainProfiles
  <1>4. CASE state' = "failed"
    BY <1>1, <1>3, <1>4, Zenon DEF Answered
  <1>5. CASE state' # "failed"
    <2>1. /\ state' = "init" /\ poll' = NotPolling /\ meta # Torn /\ local' = meta
          /\ create' = [d \in Writers |-> IF d \in loadROSQLChains[bus'.profiles]
                                          THEN Creating("keep") ELSE NoCreate]
          /\ UNCHANGED <<dbMap, open, billing, req, missed, skipped>>
      BY <1>5, Zenon DEF Answered, readMeta
    <2>2. \A w \in Writers : create'[w].snap = {} /\ create'[w].at \in {"idle", "keep"}
      BY <2>1, Zenon DEF NoCreate, Creating
    <2>3. \A d \in DBs : create'[d].at = "keep" <=> d \in loadROSQLChains[bus'.profiles]
      BY <2>1, SelfFact, Zenon DEF NoCreate, Creating
    <2>4. create'[Self].at = "idle"
      BY <1>3, <2>1, SelfFact, LoadFact, Zenon DEF NoCreate, Creating
    <2> QED
      BY <1>1, <1>2, <1>3, <2>1, <2>2, <2>3, <2>4, Zenon DEF NotPolling
  <1> QED
    BY <1>4, <1>5, Zenon

\* A transaction is published: a Create starts, a billing height is set, or nothing.
LEMMA PublishFact ==
  ASSUME TypeOK, PhaseInv, BusInv, extractTxs
  PROVE  LET tx == Blocks[poll.block][poll.tx] IN
         /\ tx \in Tx /\ tx.db \in DBs /\ poll.at = "txs" /\ poll.tx \in 1..Len(Blocks[poll.block])
         /\ Polls /\ poll.block \in Counts /\ poll.block <= bus.profiles
         /\ \A d \in DBs : create[d].at = "idle"
         /\ \/ /\ tx.type = "CreateDatabase" /\ billing' = billing
               /\ IF tx.db \in loadROSQLChains[bus.profiles]
                  THEN Others(tx.db) /\ create'[tx.db].at = "clean" /\ create'[tx.db].snap = {}
                  ELSE create' = create
            \/ /\ tx.type = "UpdateBilling" /\ create' = create
               /\ billing' = IF tx.db \in dbMap /\ tx.db \in loadROSQLChains[bus.profiles]
                             THEN [billing EXCEPT ![tx.db] = LastUpdatedHeight[bus.profiles][tx.db]]
                             ELSE billing
            \/ tx.type = "UpdatePermission" /\ create' = create /\ billing' = billing
  <1> DEFINE tx == Blocks[poll.block][poll.tx]
  <1>1. /\ tx \in Tx /\ poll.at = "txs" /\ poll.tx \in 1..Len(Blocks[poll.block])
        /\ Polls /\ poll.block \in Counts /\ poll.block <= bus.count /\ bus.count <= bus.profiles
    BY ReadFact, Zenon DEF extractTxs
  <1>2. \A d \in DBs : create[d].at = "idle"
    BY Zenon DEF extractTxs, Created
  <1>3. poll.block <= bus.profiles
    BY <1>1, LengthFact DEF TypeOK, Counts
  <1>4. tx.db \in DBs
    BY <1>1, Zenon DEF Tx
  <1>5. Publish(tx)
    BY Zenon DEF extractTxs
  <1> HIDE DEF tx
  <1>6. CASE tx.type = "CreateDatabase" /\ createDatabase(tx.db)
    <2>1. CASE tx.db \in loadROSQLChains[bus.profiles]
      <3>1. create' = [create EXCEPT ![tx.db] = Creating("clean")] /\ billing' = billing
        BY <1>6, <2>1, Zenon DEF createDatabase
      <3>2. Others(tx.db) /\ create'[tx.db] = Creating("clean")
        BY <1>4, <3>1, SelfFact, Zenon DEF TypeOK, Others
      <3>3. create'[tx.db].at = "clean" /\ create'[tx.db].snap = {}
        BY <3>2 DEF Creating
      <3> QED
        BY <1>1, <1>2, <1>3, <1>4, <1>6, <2>1, <3>1, <3>2, <3>3, Zenon DEF tx
    <2>2. CASE tx.db \notin loadROSQLChains[bus.profiles]
      BY <1>1, <1>2, <1>3, <1>4, <1>6, <2>2, Zenon DEF createDatabase, tx
    <2> QED
      BY <2>1, <2>2, Zenon
  <1>7. CASE tx.type = "UpdateBilling" /\ updateBilling(tx.db)
    BY <1>1, <1>2, <1>3, <1>4, <1>7, Zenon DEF updateBilling, tx
  <1>8. CASE tx.type = "UpdatePermission" /\ UNCHANGED <<create, billing>>
    BY <1>1, <1>2, <1>3, <1>4, <1>8, Zenon DEF tx
  <1> QED
    BY <1>5, <1>6, <1>7, <1>8, Zenon DEF Publish

-----------------------------------------------------------------------------
(***************************************************************************)
(* The process, the bus and the permissions.                               *)
(***************************************************************************)

\* Every step keeps what is empty outside a process, and one Create at a time.
LEMMA PhaseNext ==
  ASSUME TypeOK, PhaseInv, BusInv, [Next]_vars
  PROVE  PhaseInv'
  <1> USE DEF Runs, Polls
  <1>e. ASSUME Ends, state' \in {"down", "failed"}
        PROVE  PhaseInv'
    BY <1>e, EndsFact, SelfFact, Zenon DEF PhaseInv
  <1>1. CASE Mine
    <2>1. poll.to <= chain => poll.to <= chain'
      BY <1>1, LengthFact DEF Mine, TypeOK, Counts, PollType
    <2> QED
      BY <1>1, <2>1, Zenon DEF Mine, PhaseInv
  <1>2. CASE NewBusService
    <2>1. poll'.at = "off" /\ poll'.to <= chain'
      <3>1. chain' \in Counts
        BY <1>2, LengthFact DEF NewBusService, Counts, TypeOK
      <3> QED
        BY <1>2, <3>1, LengthFact DEF NewBusService, NotPolling, Counts
    <2>2. state' = "ask" /\ state \in {"down", "failed"} /\ UNCHANGED <<create, dbMap, req>>
      BY <1>2, Zenon DEF NewBusService
    <2> QED
      BY <2>1, <2>2, Zenon DEF PhaseInv
  <1>3. CASE Answered
    <2>1. CASE state' = "failed" /\ Ends
      BY <2>1, <1>e, Zenon
    <2>2. CASE state' # "failed"
      BY <1>3, <2>2, AnsweredFact, SelfFact, Zenon DEF PhaseInv
    <2> QED
      BY <1>3, <2>1, <2>2, AnsweredFact, Zenon
  <1>4. CASE initDatabases
    <2>1. CASE state' = "failed" /\ Ends
      BY <2>1, <1>e, Zenon
    <2>2. CASE Started /\ UNCHANGED <<create, dbMap, open, billing, req, local, missed, skipped>>
      <3>1. \A d \in DBs : create[d].at = "idle"
        BY <1>4, Zenon DEF initDatabases, Created
      <3>2. poll'.at = "wait" /\ state' = "up" /\ state = "init" /\ UNCHANGED <<create, req>>
        BY <1>4, <2>2, Zenon DEF initDatabases, Started, Waiting, NotPolling
      <3> QED
        BY <3>1, <3>2, Zenon DEF PhaseInv
    <2> QED
      BY <1>4, <2>1, <2>2, Zenon DEF initDatabases
  <1>5. CASE Stopped
    BY <1>5, <1>e, Zenon DEF Stopped
  <1>6. CASE Crash
    BY <1>6, <1>e, Zenon DEF Crash
  <1>7. CASE Ask
    <2>1. /\ poll.at = "wait" /\ poll'.at = "asked"
          /\ UNCHANGED <<state, create, dbMap, req>>
      BY <1>7, Zenon DEF Ask
    <2> QED
      BY <2>1, Zenon DEF PhaseInv
  <1>8. CASE UpdateState
    <2>1. poll.at = "asked" /\ poll'.at = "load" /\ UNCHANGED <<state, create, dbMap, req>>
      BY <1>8, Zenon DEF UpdateState, Loads
    <2> QED
      BY <2>1, Zenon DEF PhaseInv
  <1>9. CASE fetchBlockByCount
    <2>1. /\ poll.at = "load" /\ poll'.at \in {"load", "txs"}
          /\ UNCHANGED <<state, create, dbMap, req>>
      BY <1>9 DEF fetchBlockByCount, Loads, Reads
    <2> QED
      BY <2>1, Zenon DEF PhaseInv
  <1>10. CASE extractTxs
    <2>1. poll'.at = "txs" /\ UNCHANGED <<state, dbMap, req>>
      BY <1>10, Zenon DEF extractTxs, Reads
    <2>2. /\ poll.at = "txs" /\ Polls /\ \A d \in DBs : create[d].at = "idle"
          /\ \/ create' = create
             \/ \E e \in DBs : Others(e) /\ create'[e].at = "clean"
      BY <1>10, PublishFact, Zenon
    <2>3. CASE create' = create
      BY <2>1, <2>2, <2>3, Zenon DEF PhaseInv
    <2>4. ASSUME NEW e \in DBs, Others(e), create'[e].at = "clean"
          PROVE  PhaseInv'
      BY <2>1, <2>2, <2>4, SelfFact DEF PhaseInv, Others
    <2> QED
      BY <2>2, <2>3, <2>4, Zenon
  <1>11. CASE NextBlock
    <2>1. poll'.at \in {"load", "wait"} /\ UNCHANGED <<state, create, dbMap, req>>
      BY <1>11, Zenon DEF NextBlock, Loads, Waiting, NotPolling
    <2>2. poll.at = "txs" /\ \A d \in DBs : create[d].at = "idle"
      BY <1>11, Zenon DEF NextBlock, Created
    <2> QED
      BY <2>1, <2>2, Zenon DEF PhaseInv
  <1>12. ASSUME NEW w \in Writers, (w \in DBs /\ CreateStart(w)) \/ addMeta(w) \/ writeMeta(w)
         PROVE  PhaseInv'
    <2>1. UNCHANGED <<chain, state, poll, req>>
      BY <1>12, Zenon DEF CreateStart, addMeta, writeMeta
    <2>2. /\ Others(w) /\ create[w].at # "idle" /\ create'[w].at \notin {"keep", "clean"}
          /\ w = Self => create'[w].at \in {"idle", "cut", "write"}
      <3>1. CASE w \in DBs /\ CreateStart(w)
        BY <3>1, StartFact, SelfFact, Zenon
      <3>2. CASE addMeta(w)
        BY <3>2, AddFact, SelfFact, Zenon
      <3>3. CASE writeMeta(w)
        BY <3>3, WriteFact, Zenon
      <3> QED
        BY <1>12, <3>1, <3>2, <3>3, Zenon
    <2>3. Runs
      BY <2>2, Zenon DEF PhaseInv
    <2>4. /\ create'[Self].at \in {"idle", "range", "cut", "write"}
          /\ state # "stop" => create'[Self].at = "idle"
      BY <2>2, SelfFact, Zenon DEF PhaseInv, Others
    <2>5. \A d \in DBs : /\ create'[d].at \in {"keep", "clean"} => create'[d] = create[d]
                         /\ create'[d].at # "idle" => create[d].at # "idle"
      BY <2>2, SelfFact, Zenon DEF Others
    <2> QED
      BY <2>1, <2>3, <2>4, <2>5, Zenon DEF PhaseInv
  <1>13. ASSUME NEW u \in Users, NEW d \in DBs, NEW k \in Asked, checkPermission(u, d, k)
         PROVE  PhaseInv'
    BY <1>13, Zenon DEF checkPermission, PhaseInv
  <1>14. ASSUME NEW u \in Users, Query(u)
         PROVE  PhaseInv'
    <2>1. /\ UNCHANGED <<chain, state, poll, create, dbMap>>
          /\ \A v \in Users : req[v].at = "idle" => req'[v].at = "idle"
      BY <1>14, Zenon DEF Query, NoReq, TypeOK
    <2> QED
      BY <2>1, Zenon DEF PhaseInv
  <1>15. CASE Shutdown
    <2>1. state = "up" /\ state' = "stop" /\ UNCHANGED <<chain, poll, dbMap, req>>
      BY <1>15, Zenon DEF Shutdown
    <2>2. create'[Self].at = "range" /\ \A d \in DBs : create'[d] = create[d]
      BY <1>15, SelfFact DEF Shutdown, TypeOK, CreateType
    <2> QED
      BY <2>1, <2>2 DEF PhaseInv
  <1>16. CASE UNCHANGED vars
    BY <1>16, Zenon DEF vars, PhaseInv
  <1> QED
    BY Zenon, <1>1, <1>2, <1>3, <1>4, <1>5, <1>6, <1>7, <1>8, <1>9, <1>10, <1>11, <1>12, <1>13,
       <1>14, <1>15, <1>16
    DEF Next, Run, subscribeBlock, Create, Writers

\* Every step keeps the order of the counts of the bus.
LEMMA BusNext ==
  ASSUME TypeOK, PhaseInv, BusInv, [Next]_vars
  PROVE  BusInv'
  <1> USE DEF Runs, Polls
  <1>t. /\ chain \in Nat /\ chain \in Counts /\ bus.count \in Nat /\ bus.profiles \in Nat
        /\ poll \in PollType /\ poll.to \in Nat /\ poll.from \in Nat /\ poll.block \in Nat
        /\ poll.tx \in Nat
    BY LengthFact DEF TypeOK, Counts, PollType
  <1>1. CASE Mine
    BY <1>1, <1>t DEF Mine, BusInv
  <1>2. CASE NewBusService \/ Stopped \/ Crash
    BY <1>2, Zenon DEF NewBusService, Stopped, Crash, BusInv
  <1>3. CASE Answered
    BY <1>3, AnsweredFact, Zenon DEF BusInv
  <1>4. CASE initDatabases
    <2>1. \/ state' = "failed"
          \/ poll'.at = "wait" /\ state' = "up" /\ state = "init" /\ UNCHANGED <<chain, bus>>
      BY <1>4, Zenon DEF initDatabases, Started, Waiting, NotPolling
    <2> QED
      BY <2>1, Zenon DEF BusInv
  <1>5. CASE Ask
    <2>1. /\ poll.at = "wait" /\ UNCHANGED <<chain, state, bus>>
          /\ poll'.at = "asked" /\ poll'.from = bus.count /\ poll'.to = chain
          /\ bus.count < chain
      BY <1>5, <1>t, Zenon DEF Ask, fetchLastIrreversibleBlock
    <2> QED
      BY <2>1, <1>t DEF BusInv
  <1>6. CASE UpdateState
    <2>1. /\ poll.at = "asked" /\ UNCHANGED <<chain, state>>
          /\ bus'.count = poll.to /\ bus'.profiles = chain /\ bus'.perms = chain
          /\ poll'.at = "load" /\ poll'.to = poll.to /\ poll'.block = poll.from + 1
      BY <1>6, Zenon DEF UpdateState, updateState, loadSQLChainProfiles, Loads
    <2> QED
      BY <2>1, <1>t DEF BusInv
  <1>7. CASE fetchBlockByCount
    <2>1. /\ poll.at = "load" /\ UNCHANGED <<chain, state, bus>> /\ poll'.to = poll.to
          /\ \/ poll'.at = "txs" /\ poll'.tx = 1 /\ poll'.block = poll.block
             \/ poll'.at = "load" /\ poll.block < poll.to /\ poll'.block = poll.block + 1
      BY <1>7 DEF fetchBlockByCount, Loads, Reads
    <2> QED
      BY <2>1, <1>t DEF BusInv
  <1>8. CASE extractTxs
    <2>1. /\ poll.at = "txs" /\ UNCHANGED <<chain, state, bus>>
          /\ poll'.at = "txs" /\ poll'.tx = poll.tx + 1 /\ poll'.block = poll.block
          /\ poll'.to = poll.to
      BY <1>8, Zenon DEF extractTxs, Reads
    <2> QED
      BY <2>1, <1>t DEF BusInv
  <1>9. CASE NextBlock
    <2>1. /\ poll.at = "txs" /\ UNCHANGED <<chain, state, bus>>
          /\ \/ poll'.at = "wait"
             \/ /\ poll'.at = "load" /\ poll.block < poll.to
                /\ poll'.block = poll.block + 1 /\ poll'.to = poll.to
      BY <1>9, Zenon DEF NextBlock, Loads, Waiting, NotPolling
    <2> QED
      BY <2>1, <1>t DEF BusInv
  <1>10. CASE UNCHANGED <<chain, bus, poll>> /\ (state' = state \/ Shutdown)
    BY <1>10, Zenon DEF BusInv, Shutdown
  <1>11. ASSUME NEW w \in Writers, Create(w)
         PROVE  UNCHANGED <<chain, bus, poll>> /\ state' = state
    BY <1>11, Zenon DEF Create, CreateStart, addMeta, writeMeta
  <1>12. ASSUME NEW u \in Users,
                Query(u) \/ \E d \in DBs, k \in Asked : checkPermission(u, d, k)
         PROVE  UNCHANGED <<chain, bus, poll>> /\ state' = state
    BY <1>12, Zenon DEF Query, checkPermission
  <1>13. Shutdown => UNCHANGED <<chain, bus, poll>>
    BY Zenon DEF Shutdown
  <1>14. UNCHANGED vars => UNCHANGED <<chain, bus, poll>> /\ state' = state
    BY Zenon DEF vars
  <1> QED
    BY <1>1, <1>2, <1>3, <1>4, <1>5, <1>6, <1>7, <1>8, <1>9, <1>10, <1>11, <1>12, <1>13, <1>14, Zenon
    DEF Next, Run, subscribeBlock

\* A query that was checked keeps its witness: the main chain grows while it waits.
LEMMA PermNext ==
  ASSUME TypeOK, PhaseInv, BusInv, PermInv, [Next]_vars
  PROVE  PermInv'
  <1> USE DEF Runs
  <1>t. chain \in Nat /\ bus.count \in Nat /\ bus.perms \in Nat
        /\ \A u \in Users : req[u].seen \in Nat
    <2>1. Counts \subseteq Nat
      BY LengthFact DEF Counts
    <2>2. \A u \in Users : req[u].seen \in Counts
      BY Zenon DEF TypeOK, ReqType
    <2> QED
      BY <2>1, <2>2, Zenon DEF TypeOK
  <1>1. CASE Mine
    <2>1. chain' = chain + 1 /\ req' = req
      BY <1>1, Zenon DEF Mine
    <2>2. \A u \in Users : req[u].seen..chain \subseteq req[u].seen..chain'
      BY <2>1, <1>t
    <2> QED
      BY <2>1, <2>2, Zenon DEF PermInv
  <1>2. CASE NewBusService
    <2>1. req' = req /\ \A u \in Users : req[u].at = "idle"
      BY <1>2, Zenon DEF NewBusService, PhaseInv
    <2> QED
      BY <2>1, Zenon DEF PermInv
  <1>3. CASE Ends
    BY <1>3, EndsFact, Zenon DEF PermInv
  <1>4. ASSUME NEW u \in Users, NEW d \in DBs, NEW k \in Asked, checkPermission(u, d, k)
        PROVE  PermInv'
    <2>1. /\ chain' = chain /\ k \in Permission[bus.perms][d][u] /\ Runs
          /\ req' = [req EXCEPT ![u] = [at |-> "checked", db |-> d, kind |-> k,
                                        seen |-> bus.count]]
      BY <1>4, Zenon DEF checkPermission, RequestPermStat
    <2>2. bus.perms \in bus.count..chain
      BY <2>1, <1>t DEF BusInv, TypeOK
    <2>3. \A v \in Users : v # u => req'[v] = req[v]
      BY <2>1, Zenon DEF TypeOK
    <2>4. req'[u].db = d /\ req'[u].kind = k /\ req'[u].seen = bus.count
      BY <2>1, Zenon DEF TypeOK
    <2> QED
      BY <2>1, <2>2, <2>3, <2>4 DEF PermInv
  <1>5. ASSUME NEW u \in Users, Query(u)
        PROVE  PermInv'
    <2>1. /\ chain' = chain
          /\ \A v \in Users : req'[v] = req[v] \/ req'[v].at = "idle"
      BY <1>5, Zenon DEF Query, NoReq, TypeOK
    <2> QED
      BY <2>1, Zenon DEF PermInv
  <1>6. CASE UNCHANGED <<chain, req>>
    BY <1>6, Zenon DEF PermInv
  <1>7. Answered \/ initDatabases => Ends \/ UNCHANGED <<chain, req>>
    BY Zenon DEF Answered, initDatabases
  <1>8. Stopped \/ Crash => Ends
    BY Zenon DEF Stopped, Crash
  <1>9. subscribeBlock => UNCHANGED <<chain, req>>
    BY Zenon DEF subscribeBlock, Ask, UpdateState, fetchBlockByCount, extractTxs, NextBlock
  <1>10. ASSUME NEW w \in Writers, Create(w)
         PROVE  UNCHANGED <<chain, req>>
    BY <1>10, Zenon DEF Create, CreateStart, addMeta, writeMeta
  <1>11. Shutdown \/ UNCHANGED vars => UNCHANGED <<chain, req>>
    BY Zenon DEF Shutdown, vars
  <1> QED
    BY <1>1, <1>2, <1>3, <1>4, <1>5, <1>6, <1>7, <1>8, <1>9, <1>10, <1>11, Zenon
    DEF Next, Run

-----------------------------------------------------------------------------
(***************************************************************************)
(* The meta file and dbMap.                                                *)
(***************************************************************************)

\* Every step keeps the meta file within the databases of dbMap.
LEMMA FileNext ==
  ASSUME TypeOK, PhaseInv, BusInv, FileInv, [Next]_vars
  PROVE  FileInv'
  <1> USE DEF Runs, Polls
  <1>t. \A d \in DBs : d \notin Torn
    BY MinerAssumption, Zenon DEF Torn
  <1>1. CASE ~Runs'
    BY <1>1, Zenon DEF FileInv
  <1>2. CASE Answered /\ state' # "failed"
    BY <1>2, AnsweredFact, Zenon DEF FileInv
  <1>3. CASE initDatabases /\ state' # "failed"
    <2>1. /\ state = "init" /\ local \ loadROSQLChains[bus.profiles] = {}
          /\ UNCHANGED <<create, dbMap, local, meta, bus>>
          /\ \A d \in DBs : create[d].at = "idle"
      BY <1>3, Zenon DEF initDatabases, Created
    <2> QED
      BY <2>1, Zenon DEF FileInv
  <1>4. CASE UpdateState
    <2>1. Polls /\ UNCHANGED <<state, create, dbMap, local, meta>>
      BY <1>4, Zenon DEF UpdateState, PhaseInv
    <2> QED
      BY <2>1, Zenon DEF FileInv
  <1>5. CASE extractTxs
    <2>1. UNCHANGED <<state, bus, dbMap, local, meta>>
      BY <1>5, Zenon DEF extractTxs
    <2>2. CASE create' = create
      BY <2>1, <2>2, Zenon DEF FileInv
    <2>3. ASSUME NEW e \in DBs, Others(e), create'[e].snap = {}, create[e].at = "idle"
          PROVE  FileInv'
      <3>1. Polls
        BY <1>5, PublishFact, Zenon
      <3>2. \A w \in Writers : create[w].at = "write" => create'[w].at = "write"
        BY <2>3, Zenon DEF Others
      <3>3. \A w \in Writers : create'[w].snap = create[w].snap \/ create'[w].snap = {}
        BY <2>3, Zenon DEF Others
      <3> QED
        BY <2>1, <3>1, <3>2, <3>3, Zenon DEF FileInv
    <2> QED
      BY <1>5, <2>2, <2>3, PublishFact, Zenon
  <1>6. ASSUME NEW d \in DBs, CreateStart(d)
        PROVE  FileInv'
    <2>1. UNCHANGED <<state, bus, dbMap, local, meta>>
      BY <1>6, Zenon DEF CreateStart
    <2>2. /\ create[d].at \in {"keep", "clean"} /\ Others(d)
          /\ create'[d].snap \in {{}, create[d].snap}
          /\ d \in dbMap \/ create'[d].at \in {"add", "range"}
      BY <1>6, StartFact, Zenon
    <2>3. \A w \in Writers : create[w].at = "write" => create'[w].at = "write"
      BY <2>2, Zenon DEF Others
    <2>4. \A w \in Writers : create'[w].snap = create[w].snap \/ create'[w].snap = {}
      BY <2>2, Zenon DEF Others
    <2>5. \A e \in DBs : e = d \/ create'[e] = create[e]
      BY <2>2, SelfFact, Zenon DEF Others
    <2> QED
      BY <2>1, <2>2, <2>3, <2>4, <2>5, Zenon DEF FileInv
  <1>7. ASSUME NEW w \in Writers, addMeta(w)
        PROVE  FileInv'
    <2>1. UNCHANGED <<state, bus, local, meta>>
      BY <1>7, Zenon DEF addMeta
    <2>2. /\ w \in DBs /\ create[w].at = "add" /\ create'[w].at = "range" /\ Others(w)
          /\ create'[w].snap = create[w].snap /\ dbMap' = dbMap \cup {w}
      BY <1>7, AddFact, Zenon
    <2>3. \A v \in Writers : /\ create[v].at = "write" => create'[v].at = "write"
                             /\ create'[v].snap = create[v].snap
      BY <2>2, Zenon DEF Others
    <2>4. \A e \in DBs : e = w \/ create'[e] = create[e]
      BY <2>2, SelfFact, Zenon DEF Others
    <2> QED
      BY <2>1, <2>2, <2>3, <2>4, Zenon DEF FileInv
  <1>8. ASSUME NEW w \in Writers, writeMeta(w)
        PROVE  FileInv'
    <2>1. UNCHANGED <<state, bus, dbMap, local>>
      BY <1>8, Zenon DEF writeMeta
    <2>2. Runs
      <3>1. create[w].at # "idle"
        BY <1>8, WriteFact, Zenon
      <3> QED
        BY <3>1, Zenon DEF PhaseInv
    <2>3. Others(w) /\ \A e \in DBs : e = w \/ create'[e] = create[e]
      BY <1>8, WriteFact, SelfFact, Zenon DEF Others
    <2>4. CASE create[w].at = "range"
      <3>1. create'[w].at = "cut" /\ create'[w].snap = dbMap /\ meta' = meta
        BY <1>8, <2>4, WriteFact, Zenon
      <3>2. \A v \in Writers : /\ create[v].at = "write" => create'[v].at = "write"
                               /\ create'[v].snap \in {create[v].snap, dbMap}
        BY <2>3, <2>4, <3>1, Zenon DEF Others
      <3> QED
        BY <2>1, <2>2, <2>3, <2>4, <3>1, <3>2, Zenon DEF FileInv
    <2>5. CASE create[w].at = "cut"
      <3>1. create'[w].at = "write" /\ create'[w].snap = create[w].snap /\ meta' = Torn
        BY <1>8, <2>5, WriteFact, Zenon
      <3>2. \A v \in Writers : create'[v].snap = create[v].snap
        BY <2>3, <3>1, Zenon DEF Others
      <3> QED
        BY <2>1, <2>2, <3>1, <3>2, <1>t, Zenon DEF FileInv
    <2>6. CASE create[w].at = "write"
      <3>1. create'[w].snap = {} /\ meta' = create[w].snap
        BY <1>8, <2>6, WriteFact, Zenon
      <3>2. \A v \in Writers : create'[v].snap = create[v].snap \/ create'[v].snap = {}
        BY <2>3, <3>1, Zenon DEF Others
      <3>3. create[w].snap \subseteq dbMap
        BY <2>2, Zenon DEF FileInv
      <3>4. meta' # Torn
        BY <3>1, <3>3, <1>t, Zenon DEF TypeOK, Torn
      <3> QED
        BY <2>1, <2>2, <3>1, <3>2, <3>3, <3>4, Zenon DEF FileInv
    <2> QED
      BY <1>8, <2>4, <2>5, <2>6, WriteFact, Zenon
  <1>9. CASE Shutdown
    <2>1. state = "up" /\ state' = "stop" /\ UNCHANGED <<bus, dbMap, local, meta>>
      BY <1>9, Zenon DEF Shutdown
    <2>2. create[Self].at = "idle"
      BY <2>1, Zenon DEF PhaseInv
    <2>3. Others(Self) /\ create'[Self].snap = create[Self].snap
      BY <1>9, SelfFact DEF Shutdown, TypeOK, CreateType, Others
    <2>4. \A v \in Writers : /\ create[v].at = "write" => create'[v].at = "write"
                             /\ create'[v].snap = create[v].snap
      BY <2>2, <2>3, Zenon DEF Others
    <2> QED
      BY <2>1, <2>4, Zenon DEF FileInv
  <1>10. CASE UNCHANGED <<state, bus, create, dbMap, meta, local>>
    BY <1>10, Zenon DEF FileInv
  <1>11. NewBusService \/ Stopped \/ Crash => ~Runs'
    BY Zenon DEF NewBusService, Stopped, Crash
  <1>12. Mine \/ Ask \/ fetchBlockByCount \/ NextBlock \/ UNCHANGED vars
           => UNCHANGED <<state, bus, create, dbMap, meta, local>>
    BY Zenon DEF Mine, Ask, fetchBlockByCount, NextBlock, vars
  <1>13. ASSUME NEW u \in Users,
                Query(u) \/ \E d \in DBs, k \in Asked : checkPermission(u, d, k)
         PROVE  UNCHANGED <<state, bus, create, dbMap, meta, local>>
    BY <1>13, Zenon DEF Query, checkPermission
  <1> QED
    BY <1>1, <1>2, <1>3, <1>4, <1>5, <1>6, <1>7, <1>8, <1>9, <1>10, <1>11, <1>12, <1>13, Zenon
    DEF Next, Run, subscribeBlock, Create, Writers

\* Every step keeps the databases of dbMap profiled and open.
LEMMA MapNext ==
  ASSUME TypeOK, PhaseInv, BusInv, MapInv, [Next]_vars
  PROVE  MapInv'
  <1> USE DEF Runs, Polls
  <1>1. CASE Ends
    <2>1. \A d \in DBs : create'[d].at = "idle" /\ d \notin dbMap'
      BY <1>1, EndsFact, SelfFact, SMTT(30), Zenon
    <2> QED
      BY <2>1, Zenon DEF MapInv
  <1>2. CASE Answered /\ state' # "failed"
    <2>1. \A d \in DBs : d \notin dbMap' /\ create'[d].at \in {"idle", "keep"}
      BY <1>2, AnsweredFact, SelfFact, Zenon
    <2>2. state' = "init"
          /\ \A d \in DBs : create'[d].at = "keep" <=> d \in loadROSQLChains[bus'.profiles]
      BY <1>2, AnsweredFact, Zenon
    <2> QED
      BY <2>1, <2>2, Zenon DEF MapInv
  <1>3. CASE initDatabases /\ state' # "failed"
    <2>1. state' = "up" /\ state = "init" /\ UNCHANGED <<create, dbMap, bus, open>>
      BY <1>3, Zenon DEF initDatabases, Started
    <2> QED
      BY <2>1, Zenon DEF MapInv
  <1>4. CASE UpdateState
    <2>1. Runs /\ bus'.profiles = chain /\ UNCHANGED <<state, create, dbMap, open>>
      BY <1>4, Zenon DEF UpdateState, updateState, loadSQLChainProfiles, PhaseInv
    <2>2. loadROSQLChains[bus.profiles] \subseteq loadROSQLChains[bus'.profiles]
      BY <2>1, LoadGrows, Zenon DEF BusInv, TypeOK
    <2> QED
      BY <2>1, <2>2, Zenon DEF MapInv
  <1>5. CASE extractTxs
    <2>1. UNCHANGED <<state, bus, dbMap, open>>
      BY <1>5, Zenon DEF extractTxs
    <2>2. CASE create' = create
      BY <2>1, <2>2, Zenon DEF MapInv
    <2>3. ASSUME NEW e \in DBs, Others(e), create'[e].at = "clean",
                 e \in loadROSQLChains[bus.profiles], Polls
          PROVE  MapInv'
      <3>1. \A d \in DBs : d # e => create'[d] = create[d]
        BY <2>3, SelfFact, Zenon DEF Others
      <3> QED
        BY <2>1, <2>3, <3>1, Zenon DEF MapInv
    <2> QED
      BY <1>5, <2>2, <2>3, PublishFact, Zenon
  <1>6. ASSUME NEW d \in DBs, CreateStart(d)
        PROVE  MapInv'
    <2>1. UNCHANGED <<state, bus, dbMap>>
      BY <1>6, Zenon DEF CreateStart
    <2>2. \A e \in DBs : e # d => create'[e] = create[e]
      BY <1>6, StartFact, SelfFact, Zenon DEF Others
    <2>3. /\ create[d].at \in {"keep", "clean"} /\ create'[d].at \in {"idle", "add", "range"}
          /\ open \subseteq open' /\ (create'[d].at = "add" => d \in open')
      BY <1>6, StartFact, Zenon
    <2>4. Runs /\ d \in loadROSQLChains[bus.profiles]
      BY <2>3, Zenon DEF MapInv
    <2> QED
      BY <2>1, <2>2, <2>3, <2>4, Zenon DEF MapInv
  <1>7. ASSUME NEW w \in Writers, addMeta(w)
        PROVE  MapInv'
    <2>1. UNCHANGED <<state, bus, open>>
      BY <1>7, Zenon DEF addMeta
    <2>2. \A e \in DBs : e # w => create'[e] = create[e]
      BY <1>7, AddFact, SelfFact, Zenon DEF Others
    <2>3. w \in DBs /\ create[w].at = "add" /\ create'[w].at = "range" /\ dbMap' = dbMap \cup {w}
      BY <1>7, AddFact, Zenon
    <2> QED
      BY <2>1, <2>2, <2>3, Zenon DEF MapInv
  <1>8. ASSUME NEW w \in Writers, writeMeta(w)
        PROVE  MapInv'
    <2>1. UNCHANGED <<state, bus, open, dbMap>>
      BY <1>8, Zenon DEF writeMeta
    <2>2. \A e \in DBs : create'[e] = create[e] \/ create'[e].at \in {"cut", "write", "idle"}
      BY <1>8, WriteFact, SelfFact, Zenon DEF Others
    <2> QED
      BY <2>1, <2>2, Zenon DEF MapInv
  <1>9. CASE Shutdown
    <2>1. /\ state = "up" /\ state' = "stop" /\ UNCHANGED <<bus, dbMap>>
          /\ \A e \in DBs : create'[e] = create[e]
      BY <1>9, SelfFact, Zenon DEF Shutdown, TypeOK
    <2> QED
      BY <2>1, Zenon DEF MapInv
  <1>10. CASE UNCHANGED <<bus, create, dbMap, open>> /\ (state' = state \/ NewBusService)
    <2>1. NewBusService => ~Runs
      BY Zenon DEF NewBusService
    <2>2. NewBusService => \A d \in DBs : create[d].at = "idle" /\ d \notin dbMap
      BY <2>1, SelfFact, Zenon DEF PhaseInv
    <2> QED
      BY <1>10, <2>2, Zenon DEF MapInv
  <1>11. Stopped \/ Crash => Ends
    BY Zenon DEF Stopped, Crash
  <1>12. Mine \/ Ask \/ fetchBlockByCount \/ NextBlock \/ UNCHANGED vars
           => UNCHANGED <<state, bus, create, dbMap, open>>
    BY Zenon DEF Mine, Ask, fetchBlockByCount, NextBlock, vars
  <1>13. ASSUME NEW u \in Users,
                Query(u) \/ \E d \in DBs, k \in Asked : checkPermission(u, d, k)
         PROVE  UNCHANGED <<state, bus, create, dbMap, open>>
    BY <1>13, Zenon DEF Query, checkPermission
  <1>14. (Answered \/ initDatabases) /\ state' = "failed" => Ends
    BY Zenon DEF Answered, initDatabases, Started
  <1>15. NewBusService => UNCHANGED <<bus, create, dbMap, open>>
    BY Zenon DEF NewBusService
  <1> QED
    BY Zenon, <1>1, <1>2, <1>3, <1>4, <1>5, <1>6, <1>7, <1>8, <1>9, <1>10, <1>11, <1>12, <1>13,
       <1>14, <1>15
    DEF Next, Run, subscribeBlock, Create, Writers

-----------------------------------------------------------------------------
(***************************************************************************)
(* What the bus has handled.                                               *)
(***************************************************************************)

\* How the steps of the bus move what is done.
LEMMA DoneFact ==
  ASSUME TypeOK, PhaseInv, BusInv, Runs
  PROVE  /\ DoneTo \in Counts /\ DoneTo <= bus.count /\ DoneTo \in Int
         /\ bus.count \in Nat /\ bus.profiles \in Nat /\ bus.count <= bus.profiles
         /\ poll.at = "txs" => DoneTo = poll.block - 1 /\ poll.block \in Nat
                                 /\ poll.block <= bus.count
  <1>1. bus.count \in Nat /\ bus.profiles \in Nat /\ poll.block \in Nat /\ bus.count <= Len(Blocks)
    BY LengthFact DEF TypeOK, Counts, PollType
  <1> QED
    BY <1>1, LengthFact DEF BusInv, DoneTo, Counts

\* Every step keeps the announced databases served, or their Create running.
LEMMA ServeNext ==
  ASSUME TypeOK, PhaseInv, BusInv, MapInv, ServeInv, [Next]_vars, TypeOK', PhaseInv', BusInv'
  PROVE  ServeInv'
  <1> USE DEF Runs, Polls
  <1>1. CASE ~Runs'
    BY <1>1, Zenon DEF ServeInv
  <1>2. CASE Answered /\ state' # "failed"
    <2>1. /\ state' = "init" /\ poll'.at = "off" /\ bus'.count <= bus'.profiles
          /\ \A d \in DBs : create'[d].at = "keep" <=> d \in loadROSQLChains[bus'.profiles]
      BY <1>2, AnsweredFact, Zenon
    <2>2. DoneTo' = bus'.count
      BY <2>1, Zenon DEF DoneTo
    <2>3. loadROSQLChains[bus'.count] \subseteq loadROSQLChains[bus'.profiles]
          /\ loadROSQLChains[bus'.profiles] \subseteq DBs
      BY <2>1, LoadGrows, LoadFact DEF TypeOK
    <2> QED
      BY <2>1, <2>2, <2>3, Zenon DEF ServeInv, Coming
  <1>3. CASE initDatabases /\ state' # "failed"
    <2>1. /\ state = "init" /\ poll'.at = "wait" /\ poll.at = "off"
          /\ UNCHANGED <<create, dbMap, bus, missed, skipped>>
      BY <1>3, Zenon DEF initDatabases, Started, Waiting, NotPolling, PhaseInv
    <2>2. DoneTo' = DoneTo
      BY <2>1, Zenon DEF DoneTo
    <2> QED
      BY <2>1, <2>2, Zenon DEF ServeInv, Coming, Skipped
  <1>4. CASE UpdateState
    <2>1. /\ poll.at = "asked" /\ poll'.at = "load" /\ poll'.block = poll.from + 1
          /\ UNCHANGED <<state, create, dbMap, missed, skipped>>
      BY <1>4, Zenon DEF UpdateState, Loads
    <2>2. Runs /\ poll.from = bus.count /\ poll.from \in Nat
      BY <2>1, Zenon DEF PhaseInv, BusInv, TypeOK, PollType
    <2>3. DoneTo' = DoneTo
      BY <2>1, <2>2 DEF DoneTo
    <2> QED
      BY <2>1, <2>2, <2>3, Zenon DEF ServeInv, Coming, Skipped
  <1>5. CASE Ask
    <2>1. /\ poll.at = "wait" /\ poll'.at = "asked"
          /\ UNCHANGED <<state, bus, create, dbMap, missed, skipped>>
      BY <1>5, Zenon DEF Ask
    <2>2. DoneTo' = DoneTo
      BY <2>1, Zenon DEF DoneTo
    <2> QED
      BY <2>1, <2>2, Zenon DEF ServeInv, Coming, Skipped
  <1>6. CASE fetchBlockByCount
    <2>1. poll.at = "load" /\ UNCHANGED <<state, bus, create, dbMap, missed>>
      BY <1>6, Zenon DEF fetchBlockByCount
    <2>2. CASE poll' = Reads(1) /\ UNCHANGED skipped
      <3>1. DoneTo' = DoneTo /\ poll'.tx = 1
        BY <2>1, <2>2, Zenon DEF DoneTo, Reads
      <3>2. ~\E j \in 1..Len(Blocks[poll'.block]) : j < 1
        OBVIOUS
      <3> QED
        BY <2>1, <2>2, <3>1, <3>2, Zenon DEF ServeInv, Coming, Skipped
    <2>3. CASE poll' = Loads(poll.block + 1) /\ skipped' = skipped \cup {poll.block}
      <3>1. /\ DoneTo' = poll.block /\ DoneTo = poll.block - 1 /\ poll.block \in Counts
            /\ poll.block > 0 /\ poll'.at = "load"
        BY <2>1, <2>3, ReadFact, LengthFact DEF DoneTo, Loads, Counts
      <3>2. Skipped' = Skipped \cup (loadROSQLChains[poll.block] \ loadROSQLChains[poll.block - 1])
        BY <2>3, Zenon DEF Skipped
      <3> QED
        BY <2>1, <3>1, <3>2, Zenon DEF ServeInv, Coming
    <2> QED
      BY <1>6, <2>2, <2>3, Zenon DEF fetchBlockByCount
  <1>7. CASE extractTxs
    <2> DEFINE tx == Blocks[poll.block][poll.tx]
    <2>1. /\ UNCHANGED <<state, bus, dbMap, missed, skipped>> /\ poll' = Reads(poll.tx + 1)
      BY <1>7, Zenon DEF extractTxs
    <2>2. /\ poll.at = "txs" /\ tx.db \in DBs /\ poll.block \in Counts
          /\ poll.block <= bus.profiles /\ poll.tx \in 1..Len(Blocks[poll.block]) /\ Polls
          /\ create' = create \/ (Others(tx.db) /\ create'[tx.db].at = "clean")
          /\ (tx.type = "CreateDatabase" /\ tx.db \in loadROSQLChains[bus.profiles]
                => create'[tx.db].at = "clean")
      BY <1>7, PublishFact, Zenon
    <2>3. /\ poll'.at = "txs" /\ poll'.tx = poll.tx + 1 /\ poll'.block = poll.block
          /\ DoneTo' = DoneTo /\ Skipped' = Skipped
      BY <2>1, <2>2, Zenon DEF Reads, DoneTo, Skipped
    <2>4. \A d \in DBs : Coming(d) => Coming(d)'
      BY <2>1, <2>2, SelfFact, Zenon DEF Coming, Others
    <2>5. loadROSQLChains[DoneTo] \subseteq DBs
      BY <2>2, DoneFact, LoadFact, Zenon
    <2>6. \A e \in DBs : tx.type = "CreateDatabase" /\ tx.mine /\ tx.db = e => Coming(e)'
      <3>1. SUFFICES ASSUME NEW e \in DBs, tx.type = "CreateDatabase", tx.mine, tx.db = e
                     PROVE  Coming(e)'
        BY Zenon
      <3>2. poll.block \in 1..poll.block /\ poll.block \in 1..Len(Blocks)
        BY <2>2, ReadFact DEF Counts
      <3>3. tx.db \in loadROSQLChains[poll.block]
        BY <2>2, <3>1, <3>2, LoadFact, SMTT(30), Zenon
      <3>4. tx.db \in loadROSQLChains[bus.profiles]
        <4>1. bus.profiles \in Counts
          BY Zenon DEF TypeOK
        <4>2. loadROSQLChains[poll.block] \subseteq loadROSQLChains[bus.profiles]
          BY <2>2, <4>1, LoadGrows, Zenon
        <4> QED
          BY <3>3, <4>2, Zenon
      <3>5. create'[e].at = "clean"
        BY <2>2, <3>1, <3>4, Zenon
      <3> QED
        BY <3>5, Zenon DEF Coming
    <2>7. \A j \in 1..Len(Blocks[poll.block]) : Blocks[poll.block][j].db \in DBs
      <3>1. poll.block \in 1..Len(Blocks)
        BY <2>2, ReadFact, Zenon
      <3> QED
        BY <3>1, TxFact, Zenon DEF Tx
    <2>8. \A j \in 1..Len(Blocks[poll.block]) : j < poll.tx + 1 => j < poll.tx \/ j = poll.tx
      BY <2>2, SMTT(30), Zenon
    <2> HIDE DEF tx
    <2>9. ASSUME NEW j \in 1..Len(Blocks[poll.block]), j < poll.tx + 1, NEW e \in DBs,
                 Blocks[poll.block][j].type = "CreateDatabase",
                 Blocks[poll.block][j].mine, Blocks[poll.block][j].db = e
          PROVE  e \in missed \/ Coming(e)'
      <3>1. CASE j = poll.tx
        <4>1. Blocks[poll.block][j] = tx
          BY <3>1, Zenon DEF tx
        <4> QED
          BY <2>9, <4>1, <2>6, Zenon
      <3>2. CASE j < poll.tx
        <4>1. e \in missed \/ Coming(e)
          BY <2>9, <3>2, <2>2, Zenon DEF ServeInv
        <4> QED
          BY <4>1, <2>4, Zenon
      <3> QED
        BY <2>9, <3>1, <3>2, <2>8, Zenon
    <2> QED
      BY <2>1, <2>2, <2>3, <2>4, <2>5, <2>7, <2>9, Zenon DEF ServeInv
  <1>8. CASE NextBlock
    <2>1. /\ UNCHANGED <<state, bus, create, dbMap, missed, skipped>> /\ poll.at = "txs"
          /\ poll.tx > Len(Blocks[poll.block])
          /\ poll' = IF poll.block < poll.to THEN Loads(poll.block + 1) ELSE Waiting
      BY <1>8, Zenon DEF NextBlock
    <2>2. /\ poll.block \in Counts /\ poll.block > 0 /\ poll.to = bus.count
          /\ poll.block <= bus.count /\ Runs
      BY <2>1, ReadFact
    <2>3. DoneTo' = poll.block /\ poll'.at # "txs"
      <3>1. CASE poll.block < poll.to
        BY <2>1, <2>2, <3>1, LengthFact DEF DoneTo, Loads, Counts
      <3>2. CASE ~(poll.block < poll.to)
        BY <2>1, <2>2, <3>2, LengthFact DEF DoneTo, Waiting, NotPolling, Counts, TypeOK
      <3> QED
        BY <3>1, <3>2, Zenon
    <2>4. DoneTo = poll.block - 1
      BY <2>1, Zenon DEF DoneTo
    <2>5. ASSUME NEW d \in loadROSQLChains[poll.block] \ (missed \cup Skipped)
          PROVE  Coming(d)
      <3>1. CASE d \in loadROSQLChains[poll.block - 1]
        BY <2>2, <2>4, <3>1, Zenon DEF ServeInv
      <3>2. ASSUME NEW j \in 1..Len(Blocks[poll.block]),
                   Blocks[poll.block][j].type = "CreateDatabase",
                   Blocks[poll.block][j].mine, Blocks[poll.block][j].db = d
            PROVE  Coming(d)
        <4>1. j < poll.tx
          BY <2>1, <2>2, BlockLength, ReadFact DEF TypeOK, PollType
        <4> QED
          BY <2>1, <2>2, <3>2, <4>1, Zenon DEF ServeInv
      <3> QED
        BY <2>2, <3>1, <3>2, LoadStep, SMTT(30), Zenon
    <2> QED
      BY <2>1, <2>3, <2>5, Zenon DEF ServeInv, Coming, Skipped
  <1>9. ASSUME NEW w \in Writers, (w \in DBs /\ CreateStart(w)) \/ addMeta(w) \/ writeMeta(w)
        PROVE  ServeInv'
    <2>1. UNCHANGED <<state, bus, poll, skipped>>
      BY <1>9, Zenon DEF CreateStart, addMeta, writeMeta
    <2>2. missed \subseteq missed' /\ \A d \in DBs : Coming(d) => Coming(d)' \/ d \in missed'
      <3>1. CASE w \in DBs /\ CreateStart(w)
        <4>1. dbMap' = dbMap
          BY <3>1, Zenon DEF CreateStart
        <4>2. \A d \in DBs : d # w => create'[d] = create[d]
          BY <3>1, StartFact, SelfFact, Zenon DEF Others
        <4> QED
          BY <3>1, <4>1, <4>2, StartFact, Zenon DEF Coming
      <3>2. CASE addMeta(w)
        <4>1. \A d \in DBs : d # w => create'[d] = create[d]
          BY <3>2, AddFact, SelfFact, Zenon DEF Others
        <4> QED
          BY <3>2, <4>1, AddFact, Zenon DEF Coming, addMeta
      <3>3. CASE writeMeta(w)
        <4>1. \A d \in DBs : create'[d] = create[d] \/ create[d].at \in {"range", "cut", "write"}
          BY <3>3, WriteFact, SelfFact, Zenon DEF Others
        <4> QED
          BY <3>3, <4>1, Zenon DEF Coming, writeMeta
      <3> QED
        BY <1>9, <3>1, <3>2, <3>3, Zenon
    <2>3. DoneTo' = DoneTo /\ Skipped' = Skipped
      BY <2>1, Zenon DEF DoneTo, Skipped
    <2>4. Runs => loadROSQLChains[DoneTo] \subseteq DBs
      BY DoneFact, LoadFact, Zenon
    <2>5. Runs /\ poll.at = "txs" =>
            \A j \in 1..Len(Blocks[poll.block]) : Blocks[poll.block][j].db \in DBs
      BY ReadFact, TxFact, Zenon DEF Tx
    <2> QED
      BY <2>1, <2>2, <2>3, <2>4, <2>5, Zenon DEF ServeInv
  <1>10. CASE Shutdown
    <2>1. /\ state = "up" /\ UNCHANGED <<bus, poll, dbMap, missed, skipped>>
          /\ \A e \in DBs : create'[e] = create[e]
      BY <1>10, SelfFact, Zenon DEF Shutdown, TypeOK
    <2>2. DoneTo' = DoneTo /\ Skipped' = Skipped /\ \A e \in DBs : Coming(e)' <=> Coming(e)
      BY <2>1, Zenon DEF DoneTo, Skipped, Coming
    <2>3. loadROSQLChains[DoneTo] \subseteq DBs
      BY <2>1, DoneFact, LoadFact, Zenon
    <2>4. poll.at = "txs" =>
            \A j \in 1..Len(Blocks[poll.block]) : Blocks[poll.block][j].db \in DBs
      BY ReadFact, TxFact, Zenon DEF Tx
    <2> QED
      BY <2>1, <2>2, <2>3, <2>4, Zenon DEF ServeInv
  <1>11. CASE UNCHANGED <<state, bus, poll, create, dbMap, missed, skipped>>
    BY <1>11, Zenon DEF ServeInv, DoneTo, Coming, Skipped
  <1>12. NewBusService \/ Stopped \/ Crash => ~Runs'
    BY Zenon DEF NewBusService, Stopped, Crash
  <1>13. Mine \/ UNCHANGED vars
           => UNCHANGED <<state, bus, poll, create, dbMap, missed, skipped>>
    BY Zenon DEF Mine, vars
  <1>14. ASSUME NEW u \in Users,
                Query(u) \/ \E d \in DBs, k \in Asked : checkPermission(u, d, k)
         PROVE  UNCHANGED <<state, bus, poll, create, dbMap, missed, skipped>>
    BY <1>14, Zenon DEF Query, checkPermission
  <1> QED
    BY <1>1, <1>2, <1>3, <1>4, <1>5, <1>6, <1>7, <1>8, <1>9, <1>10, <1>11, <1>12, <1>13, <1>14, Zenon
    DEF Next, Run, subscribeBlock, Create, Writers

\* The position of a billing.
LEMMA BillingPlace ==
  ASSUME NEW d \in DBs, NEW p \in Billings(Len(Blocks), d)
  PROVE  /\ p[1] \in 1..Len(Blocks) /\ p[2] \in 1..Len(Blocks[p[1]]) /\ p[1] \in Nat /\ p[2] \in Nat
         /\ Blocks[p[1]][p[2]].type = "UpdateBilling" /\ Blocks[p[1]][p[2]].db = d
  <1>1. p \in Txs(Len(Blocks)) /\ At(p).type = "UpdateBilling" /\ At(p).db = d
    BY Zenon DEF Billings
  <1>2. PICK i \in 1..Len(Blocks) : p \in {<<i, j>> : j \in 1..Len(Blocks[i])}
    BY <1>1, Zenon DEF Txs
  <1>3. PICK j \in 1..Len(Blocks[i]) : p = <<i, j>>
    BY <1>2, Zenon
  <1>4. p[1] = i /\ p[2] = j
    BY <1>3, Zenon
  <1> QED
    BY <1>1, <1>4 DEF At

\* A billing height stays right while no later billing is handled.
LEMMA FollowsKept ==
  ASSUME NEW d \in DBs, NEW n \in Nat, Follows(d, n), billing'[d] = billing[d],
         skipped' = skipped \/ skipped' # {},
         \A p \in Billings(Len(Blocks), d) : Handled(p)' => Handled(p)
  PROVE  Follows(d, n)'
  BY Zenon DEF Follows

\* The billing height of the profiles is right.
LEMMA FollowsNew ==
  ASSUME TypeOK', PhaseInv', BusInv', Runs', NEW d \in DBs,
         billing'[d] = LastUpdatedHeight[bus'.profiles][d]
  PROVE  \E n \in 0..bus'.profiles : Follows(d, n)'
  <1>1. /\ bus'.profiles \in Nat /\ DoneTo' \in Int /\ DoneTo' <= bus'.profiles
        /\ (poll'.at = "txs" => poll'.block \in Nat /\ poll'.block <= bus'.profiles)
    <2>1. (/\ DoneTo \in Counts /\ DoneTo <= bus.count /\ DoneTo \in Int
           /\ bus.count \in Nat /\ bus.profiles \in Nat /\ bus.count <= bus.profiles
           /\ poll.at = "txs" => DoneTo = poll.block - 1 /\ poll.block \in Nat
                                   /\ poll.block <= bus.count)'
      BY DoneFact, PTL
    <2> QED
      BY <2>1
  <1>2. ASSUME NEW p \in Billings(Len(Blocks), d), p[1] > bus'.profiles
        PROVE  ~Handled(p)'
    BY <1>1, <1>2, BillingPlace DEF Handled
  <1>3. PICK n \in 0..bus'.profiles : n = bus'.profiles
    BY <1>1
  <1>4. Follows(d, n)'
    BY <1>2, <1>3, Zenon DEF Follows
  <1> QED
    BY <1>4, Zenon

\* Every step keeps the billing heights at a count of the bus.
LEMMA BillNext ==
  ASSUME TypeOK, PhaseInv, BusInv, MapInv, BillInv, [Next]_vars,
         TypeOK', PhaseInv', BusInv', MapInv'
  PROVE  BillInv'
  <1> USE DEF Runs, Polls
  <1>t. bus.profiles \in Nat /\ \A n \in 0..bus.profiles : n \in Nat
    BY LengthFact DEF TypeOK, Counts
  \* What is left of a step that neither opens a database nor bills.
  <1>k. ASSUME bus.profiles <= bus'.profiles, bus'.profiles \in Nat,
               skipped' = skipped \/ skipped' # {},
               NEW d \in DBs, d \in dbMap \/ create[d].at = "add", billing'[d] = billing[d],
               \A p \in Billings(Len(Blocks), d) : Handled(p)' => Handled(p)
        PROVE  \E n \in 0..bus'.profiles : Follows(d, n)'
    <2>1. PICK n \in 0..bus.profiles : Follows(d, n)
      BY <1>k, Zenon DEF BillInv
    <2>2. n \in 0..bus'.profiles
      BY <1>k, <1>t, SMTT(30), Zenon
    <2>3. Follows(d, n)'
      BY <1>k, <1>t, <2>1, FollowsKept, Zenon
    <2> QED
      BY <2>2, <2>3, Zenon
  <1>u. ASSUME bus' = bus, skipped' = skipped, UNCHANGED billing,
               \A d \in DBs : d \in dbMap' \/ create'[d].at = "add"
                                => d \in dbMap \/ create[d].at = "add",
               \A p : Handled(p)' => Handled(p)
        PROVE  BillInv'
    BY <1>u, <1>k, <1>t DEF BillInv
  <1>1. CASE ~Runs'
    BY <1>1, Zenon DEF BillInv, MapInv
  <1>2. CASE Answered /\ state' # "failed"
    <2>1. \A d \in DBs : d \notin dbMap' /\ create'[d].at \in {"idle", "keep"}
      BY <1>2, AnsweredFact, SelfFact, SMTT(30), Zenon
    <2> QED
      BY <2>1, Zenon DEF BillInv
  <1>3. CASE initDatabases /\ state' # "failed"
    <2>1. /\ state = "init" /\ poll'.at = "wait" /\ poll.at = "off"
          /\ UNCHANGED <<create, dbMap, bus, billing, skipped>>
      BY <1>3, Zenon DEF initDatabases, Started, Waiting, NotPolling, PhaseInv
    <2>2. \A p : Handled(p)' => Handled(p)
      BY <2>1, Zenon DEF Handled, DoneTo
    <2> QED
      BY <2>1, <2>2, <1>u, Zenon
  <1>4. CASE Ask
    <2>1. /\ poll.at = "wait" /\ poll'.at = "asked"
          /\ UNCHANGED <<create, dbMap, bus, billing, skipped>>
      BY <1>4, Zenon DEF Ask
    <2>2. \A p : Handled(p)' => Handled(p)
      BY <2>1, Zenon DEF Handled, DoneTo
    <2> QED
      BY <2>1, <2>2, <1>u, Zenon
  <1>5. CASE UpdateState
    <2>1. /\ poll.at = "asked" /\ poll'.at = "load" /\ poll'.block = poll.from + 1
          /\ bus'.profiles = chain /\ UNCHANGED <<create, dbMap, billing, skipped>>
      BY <1>5, Zenon DEF UpdateState, Loads, updateState, loadSQLChainProfiles
    <2>2. /\ poll.from = bus.count /\ poll.from \in Nat /\ bus.profiles <= chain
          /\ chain \in Nat
      BY <2>1, LengthFact DEF PhaseInv, BusInv, TypeOK, PollType, Counts
    <2>3. \A p : Handled(p)' => Handled(p)
      <3>1. DoneTo' = DoneTo
        BY <2>1, <2>2 DEF DoneTo
      <3> QED
        BY <2>1, <3>1, Zenon DEF Handled
    <2> QED
      BY <2>1, <2>2, <2>3, <1>k, Zenon DEF BillInv
  <1>6. CASE fetchBlockByCount
    <2>1. poll.at = "load" /\ UNCHANGED <<bus, create, dbMap, billing>>
      BY <1>6, Zenon DEF fetchBlockByCount
    <2>2. CASE poll' = Reads(1) /\ UNCHANGED skipped
      <3>1. DoneTo' = DoneTo /\ poll'.tx = 1
        BY <2>1, <2>2, Zenon DEF DoneTo, Reads
      <3>2. \A d \in DBs : \A p \in Billings(Len(Blocks), d) : Handled(p)' => Handled(p)
        BY <3>1, BillingPlace DEF Handled
      <3> QED
        BY <2>1, <2>2, <3>2, <1>k, <1>t DEF BillInv
    <2>3. CASE skipped' = skipped \cup {poll.block}
      <3>1. ASSUME NEW d \in DBs, d \in dbMap \/ create[d].at = "add"
            PROVE  \E n \in 0..bus.profiles : Follows(d, n)'
        <4>1. PICK n \in 0..bus.profiles : Follows(d, n)
          BY <3>1, Zenon DEF BillInv
        <4>2. Follows(d, n)'
          BY <2>1, <2>3, <4>1, Zenon DEF Follows
        <4> QED
          BY <4>2, Zenon
      <3> QED
        BY <2>1, <3>1, Zenon DEF BillInv
    <2> QED
      BY <1>6, <2>2, <2>3, Zenon DEF fetchBlockByCount
  <1>7. CASE extractTxs
    <2> DEFINE tx == Blocks[poll.block][poll.tx]
    <2>1. UNCHANGED <<state, bus, dbMap, skipped>> /\ poll' = Reads(poll.tx + 1)
      BY <1>7, Zenon DEF extractTxs
    <2>2. /\ poll.at = "txs" /\ tx.db \in DBs /\ poll.tx \in 1..Len(Blocks[poll.block]) /\ Polls
          /\ \A d \in DBs : create[d].at = "idle"
          /\ create' = create \/ (Others(tx.db) /\ create'[tx.db].at = "clean")
          /\ \/ tx.type # "UpdateBilling" /\ billing' = billing
             \/ /\ tx.type = "UpdateBilling"
                /\ billing' = IF tx.db \in dbMap /\ tx.db \in loadROSQLChains[bus.profiles]
                              THEN [billing EXCEPT ![tx.db] = LastUpdatedHeight[bus.profiles][tx.db]]
                              ELSE billing
      BY <1>7, PublishFact, Zenon
    <2>3. /\ poll'.at = "txs" /\ poll'.tx = poll.tx + 1 /\ poll'.block = poll.block
          /\ DoneTo' = DoneTo
      BY <2>1, <2>2, Zenon DEF Reads, DoneTo
    <2>4. \A d \in DBs : create'[d].at # "add"
      BY <2>2, SelfFact, Zenon DEF Others
    <2>5. ASSUME NEW d \in DBs, d \in dbMap, ~(tx.type = "UpdateBilling" /\ tx.db = d)
          PROVE  \E n \in 0..bus'.profiles : Follows(d, n)'
      <3>1. billing'[d] = billing[d]
        BY <2>2, <2>5, Zenon DEF TypeOK
      <3>2. ASSUME NEW p \in Billings(Len(Blocks), d), Handled(p)'
            PROVE  Handled(p)
        <4>1. p[1] = poll.block => p[2] # poll.tx
          BY <2>5, BillingPlace, Zenon
        <4>2. poll.tx \in Int /\ p[2] \in Int
          BY BillingPlace DEF TypeOK, PollType
        <4>3. p[2] < poll.tx + 1 /\ p[2] # poll.tx => p[2] < poll.tx
          BY <4>2
        <4> QED
          BY <2>2, <2>3, <3>2, <4>1, <4>3, Zenon DEF Handled
      <3> QED
        BY <2>1, <2>5, <3>1, <3>2, <1>k, <1>t, SMTT(30), Zenon
    <2>6. ASSUME NEW d \in DBs, d \in dbMap, tx.type = "UpdateBilling" /\ tx.db = d
          PROVE  \E n \in 0..bus'.profiles : Follows(d, n)'
      <3>1. d \in loadROSQLChains[bus.profiles]
        BY <2>6, Zenon DEF MapInv
      <3>2. billing' = [billing EXCEPT ![d] = LastUpdatedHeight[bus.profiles][d]]
        BY <2>2, <2>6, <3>1, SMTT(30), Zenon
      <3>3. billing'[d] = LastUpdatedHeight[bus'.profiles][d]
        BY <2>1, <3>2, Zenon DEF TypeOK
      <3>4. Runs'
        BY <2>1, <2>2, Zenon
      <3> QED
        BY <3>3, <3>4, FollowsNew, Zenon
    <2> HIDE DEF tx
    <2> QED
      BY <2>1, <2>4, <2>5, <2>6, Zenon DEF BillInv
  <1>8. CASE NextBlock
    <2>1. /\ UNCHANGED <<bus, create, dbMap, billing, skipped>> /\ poll.at = "txs"
          /\ poll.tx > Len(Blocks[poll.block])
          /\ poll' = IF poll.block < poll.to THEN Loads(poll.block + 1) ELSE Waiting
      BY <1>8, Zenon DEF NextBlock
    <2>2. /\ poll.block \in Counts /\ poll.block > 0 /\ poll.to = bus.count /\ poll.block \in Nat
          /\ poll.block <= bus.count /\ poll.block \in 1..Len(Blocks) /\ poll.tx \in Nat
      BY <2>1, ReadFact DEF TypeOK, PollType
    <2>3. DoneTo' = poll.block /\ poll'.at # "txs"
      <3>1. CASE poll.block < poll.to
        BY <2>1, <2>2, <3>1 DEF DoneTo, Loads
      <3>2. CASE ~(poll.block < poll.to)
        BY <2>1, <2>2, <3>2, LengthFact DEF DoneTo, Waiting, NotPolling, Counts, TypeOK
      <3> QED
        BY <3>1, <3>2, Zenon
    <2>4. ASSUME NEW d \in DBs, NEW p \in Billings(Len(Blocks), d), Handled(p)'
          PROVE  Handled(p)
      <3>1. p[1] <= poll.block /\ p[1] \in Nat /\ p[2] \in 1..Len(Blocks[p[1]])
        BY <2>3, <2>4, BillingPlace, Zenon DEF Handled
      <3>2. p[1] = poll.block => p[2] < poll.tx
        BY <2>1, <2>2, <3>1, BlockLength
      <3> QED
        BY <2>1, <2>2, <3>1, <3>2 DEF Handled, DoneTo
    <2> QED
      BY <2>1, <2>4, <1>k, <1>t DEF BillInv
  <1>9. ASSUME NEW d \in DBs, CreateStart(d)
        PROVE  BillInv'
    <2>1. UNCHANGED <<state, bus, poll, dbMap, skipped>>
      BY <1>9, Zenon DEF CreateStart
    <2>2. \A p : Handled(p)' <=> Handled(p)
      BY <2>1, Zenon DEF Handled, DoneTo
    <2>3. \A e \in DBs : e # d => create'[e] = create[e] /\ billing'[e] = billing[e]
      <3>1. /\ Others(d)
            /\ billing' = billing
                 \/ billing' = [billing EXCEPT ![d] = LastUpdatedHeight[bus.profiles][d]]
        BY <1>9, StartFact, Zenon
      <3>2. DOMAIN billing = DBs
        BY Zenon DEF TypeOK
      <3> QED
        BY <3>1, <3>2, SelfFact, Zenon DEF Others
    <2>4. ASSUME NEW e \in DBs, e \in dbMap \/ create[e].at = "add", billing'[e] = billing[e]
          PROVE  \E n \in 0..bus'.profiles : Follows(e, n)'
      BY <2>1, <2>2, <2>4, <1>k, <1>t, SMTT(30), Zenon
    <2>5. CASE create'[d].at = "add"
      <3>1. billing'[d] = LastUpdatedHeight[bus'.profiles][d]
        BY <1>9, <2>1, <2>5, StartFact, Zenon DEF TypeOK
      <3>2. Runs'
        BY <2>5, Zenon DEF MapInv
      <3>3. \E n \in 0..bus'.profiles : Follows(d, n)'
        BY <3>1, <3>2, FollowsNew, Zenon
      <3> QED
        BY <2>1, <2>3, <2>4, <3>3, Zenon DEF BillInv
    <2>6. CASE create'[d].at # "add"
      <3>1. billing'[d] = billing[d]
        BY <1>9, <2>6, StartFact, Zenon
      <3> QED
        BY <2>1, <2>3, <2>4, <2>6, <3>1, Zenon DEF BillInv
    <2> QED
      BY <2>5, <2>6, Zenon
  <1>10. ASSUME NEW w \in Writers, addMeta(w) \/ writeMeta(w)
         PROVE  BillInv'
    <2>1. UNCHANGED <<bus, poll, billing, skipped>>
      BY <1>10, Zenon DEF addMeta, writeMeta
    <2>2. \A p : Handled(p)' => Handled(p)
      BY <2>1, Zenon DEF Handled, DoneTo
    <2>3. \A d \in DBs : d \in dbMap' \/ create'[d].at = "add"
                            => d \in dbMap \/ create[d].at = "add"
      <3>1. CASE addMeta(w)
        BY <3>1, AddFact, SelfFact, Zenon DEF Others
      <3>2. CASE writeMeta(w)
        <4>1. dbMap' = dbMap
          BY <3>2, Zenon DEF writeMeta
        <4> QED
          BY <3>2, <4>1, WriteFact, SelfFact, Zenon DEF Others
      <3> QED
        BY <1>10, <3>1, <3>2, Zenon
    <2> QED
      BY <2>1, <2>2, <2>3, <1>u, Zenon
  <1>11. CASE Shutdown
    <2>1. /\ UNCHANGED <<bus, poll, dbMap, billing, skipped>>
          /\ \A e \in DBs : create'[e] = create[e]
      BY <1>11, SelfFact, Zenon DEF Shutdown, TypeOK
    <2>2. \A p : Handled(p)' => Handled(p)
      BY <2>1, Zenon DEF Handled, DoneTo
    <2> QED
      BY <2>1, <2>2, <1>u, Zenon
  <1>12. CASE UNCHANGED <<bus, poll, create, dbMap, billing, skipped>>
    <2>1. \A p : Handled(p)' => Handled(p)
      BY <1>12, Zenon DEF Handled, DoneTo
    <2> QED
      BY <1>12, <2>1, <1>u, Zenon
  <1>13. NewBusService \/ Stopped \/ Crash => ~Runs'
    BY Zenon DEF NewBusService, Stopped, Crash
  <1>14. Mine \/ UNCHANGED vars => UNCHANGED <<bus, poll, create, dbMap, billing, skipped>>
    BY Zenon DEF Mine, vars
  <1>15. ASSUME NEW u \in Users,
                Query(u) \/ \E d \in DBs, k \in Asked : checkPermission(u, d, k)
         PROVE  UNCHANGED <<bus, poll, create, dbMap, billing, skipped>>
    BY <1>15, Zenon DEF Query, checkPermission
  <1> QED
    BY Zenon, <1>1, <1>2, <1>3, <1>4, <1>5, <1>6, <1>7, <1>8, <1>9, <1>10, <1>11, <1>12, <1>13,
       <1>14, <1>15
    DEF Next, Run, subscribeBlock, Create, Writers

-----------------------------------------------------------------------------
(***************************************************************************)
(* The theorems.                                                           *)
(***************************************************************************)

\* The first process has not started.
LEMMA InitIInv == Init => IInv
  <1> SUFFICES ASSUME Init PROVE IInv
    BY Zenon
  <1>1. TypeOK
    <2>1. create \in [Writers -> CreateType] /\ req \in [Users -> ReqType] /\ poll \in PollType
      BY EmptyTypes, Zenon DEF Init
    <2>2. billing \in [DBs -> Heights] /\ disk \in [DBs -> {"none", "fresh", "used"}]
      BY EmptyTypes, Zenon DEF Init
    <2>3. bus \in [count : Counts, profiles : Counts, perms : Counts]
      BY EmptyTypes, Zenon DEF Init
    <2>4. meta \in (SUBSET DBs) \cup {Torn}
      BY Zenon DEF Init
    <2> QED
      BY <2>1, <2>2, <2>3, <2>4, EmptyTypes, Zenon DEF Init, TypeOK
  <1>2. /\ state = "down" /\ dbMap = {} /\ poll.at = "off"
        /\ \A w \in Writers : create[w].at = "idle" /\ create[w].snap = {}
        /\ \A u \in Users : req[u].at = "idle"
    BY Zenon DEF Init, NotPolling, NoCreate, Creating, NoReq
  <1>3. PhaseInv /\ BusInv /\ PermInv /\ FileInv /\ MapInv /\ ServeInv /\ BillInv
    BY <1>2, SelfFact, Zenon
    DEF PhaseInv, BusInv, PermInv, FileInv, MapInv, ServeInv, BillInv, Runs, Polls
  <1> QED
    BY <1>1, <1>3, Zenon DEF IInv

\* The invariant is inductive.
LEMMA NextIInv == IInv /\ [Next]_vars => IInv'
  <1> SUFFICES ASSUME IInv, [Next]_vars PROVE IInv'
    BY Zenon
  <1>1. TypeOK' /\ PhaseInv' /\ BusInv'
    BY TypeNext, PhaseNext, BusNext, Zenon DEF IInv
  <1>2. PermInv' /\ FileInv' /\ MapInv'
    BY PermNext, FileNext, MapNext, Zenon DEF IInv
  <1>3. ServeInv' /\ BillInv'
    BY <1>1, <1>2, ServeNext, BillNext, Zenon DEF IInv
  <1> QED
    BY <1>1, <1>2, <1>3, Zenon DEF IInv

\* The invariant holds in every reachable state.
LEMMA Invariant == Spec => []IInv
  BY InitIInv, NextIInv, PTL DEF Spec

\* A bus that waits for its next poll serves every database of the main chain up to its
\* count that opened and whose block loaded, with the billing height of a count it has
\* seen: updateState, subscribeBlock and Create, for every main chain.
THEOREM Served == Spec => []Serves
  <1>1. IInv => Serves
    <2> SUFFICES ASSUME IInv, Idle PROVE Serves
      BY Zenon DEF Serves
    <2>1. Runs /\ state # "stop" /\ DoneTo = bus.count /\ poll.at = "wait"
      BY Zenon DEF Idle, Runs, DoneTo
    <2>2. \A d \in DBs : create[d].at = "idle"
      BY <2>1, Zenon DEF IInv, PhaseInv, Idle, Polls
    <2>3. bus.count \in Counts /\ bus.profiles \in Counts /\ bus.count <= bus.profiles
          /\ bus.count \in Nat /\ bus.profiles \in Nat
      BY <2>1, LengthFact DEF IInv, TypeOK, BusInv, Counts
    <2>4. ASSUME NEW d \in loadROSQLChains[bus.count] \ (missed \cup Skipped)
          PROVE  d \in dbMap \cap open
      <3>1. d \in DBs
        BY <2>3, LoadFact, Zenon
      <3>2. d \in dbMap
        BY <2>1, <2>2, <3>1, Zenon DEF IInv, ServeInv, Coming
      <3> QED
        BY <2>1, <3>1, <3>2, Zenon DEF IInv, MapInv
    <2>5. ASSUME NEW d \in dbMap
          PROVE  \E n \in (IF skipped = {} THEN bus.count ELSE 0)..bus.profiles :
                   billing[d] = LastUpdatedHeight[n][d]
      <3>1. d \in DBs
        BY Zenon DEF IInv, TypeOK
      <3>2. PICK n \in 0..bus.profiles : Follows(d, n)
        BY <3>1, Zenon DEF IInv, BillInv
      <3>3. billing[d] = LastUpdatedHeight[n][d]
        BY <3>2, Zenon DEF Follows
      <3>4. n \in Nat /\ n \in Counts
        BY <2>3, LengthFact DEF Counts
      <3>5. CASE skipped # {}
        BY <3>3, <3>5, Zenon
      <3>6. CASE skipped = {} /\ n >= bus.count
        BY <2>3, <3>3, <3>4, <3>6
      <3>7. CASE skipped = {} /\ n < bus.count
        <4>1. \A p \in Billings(bus.count, d) : p[1] <= n
          <5>1. SUFFICES ASSUME NEW p \in Billings(bus.count, d), ~(p[1] <= n)
                         PROVE  FALSE
            BY Zenon
          <5>2. p \in Billings(Len(Blocks), d) /\ p[1] <= bus.count
            BY <2>3, <3>1, BillingFact, Zenon
          <5>3. p[1] > n
            BY <3>1, <3>4, <5>1, <5>2, BillingPlace
          <5>4. Handled(p)
            BY <2>1, <5>2, Zenon DEF Handled
          <5> QED
            BY <3>2, <3>7, <5>2, <5>3, <5>4, Zenon DEF Follows
        <4>2. Billings(n, d) = Billings(bus.count, d)
          <5>1. \A p : p \in Billings(n, d) <=> p \in Billings(Len(Blocks), d) /\ p[1] <= n
            BY <3>1, <3>4, BillingFact, Zenon
          <5>2. \A p : p \in Billings(bus.count, d)
                         <=> p \in Billings(Len(Blocks), d) /\ p[1] <= bus.count
            BY <2>3, <3>1, BillingFact, Zenon
          <5>3. \A i \in Nat : i <= n => i <= bus.count
            BY <2>3, <3>4, <3>7
          <5>4. \A p \in Billings(Len(Blocks), d) : p[1] \in Nat
            BY <3>1, BillingPlace, Zenon
          <5> QED
            BY <4>1, <5>1, <5>2, <5>3, <5>4, Zenon
        <4>3. LastUpdatedHeight[n][d] = LastUpdatedHeight[bus.count][d]
          BY <2>3, <3>1, <3>4, <4>2, SameBillings, Zenon
        <4>4. bus.count \in bus.count..bus.profiles
          BY <2>3
        <4> QED
          BY <3>3, <3>7, <4>3, <4>4, Zenon
      <3>8. n >= bus.count \/ n < bus.count
        BY <2>3, <3>4
      <3> QED
        BY <3>5, <3>6, <3>7, <3>8, Zenon
    <2> QED
      BY <2>4, <2>5, Zenon DEF Serves
  <1> QED
    BY <1>1, Invariant, PTL

\* Create removes the files of a database that clients wrote to only if the meta file,
\* as it is or as Shutdown is writing it, does not name the database.
THEOREM FilesKept == Spec => UsedIsKept
  <1>1. ASSUME IInv, [Next]_vars, NEW d \in DBs, disk[d] = "used", disk'[d] # "used"
        PROVE  d \notin Named /\ (meta = Torn => create[Self].at = "write")
    <2>1. PICK e \in DBs : CreateStart(e) /\ disk' # disk
      <3>1. disk' # disk
        BY <1>1, Zenon
      <3>2. ASSUME NEW u \in Users, Query(u)
            PROVE  FALSE
        BY <1>1, <3>2, Zenon DEF Query, IInv, TypeOK
      <3>3. ASSUME NEW w \in Writers, addMeta(w) \/ writeMeta(w)
            PROVE  disk' = disk
        BY <3>3, Zenon DEF addMeta, writeMeta
      <3>4. Mine \/ Run \/ subscribeBlock \/ Crash \/ Shutdown \/ UNCHANGED vars => disk' = disk
        BY Zenon DEF Mine, Run, NewBusService, Answered, initDatabases, Stopped, subscribeBlock, Ask,
               UpdateState, fetchBlockByCount, extractTxs, NextBlock, Crash, Shutdown, vars
      <3>5. ASSUME NEW u \in Users, NEW f \in DBs, NEW k \in Asked, checkPermission(u, f, k)
            PROVE  disk' = disk
        BY <3>5, Zenon DEF checkPermission
      <3> QED
        BY <1>1, <3>1, <3>2, <3>3, <3>4, <3>5, Zenon DEF Next, Create, Writers
    <2>2. /\ e = d /\ d \notin dbMap /\ create[d].at = "clean"
      <3>1. /\ e \notin dbMap
            /\ disk' = [disk EXCEPT ![e] = IF create[e].at = "clean" \/ @ = "none"
                                           THEN "fresh" ELSE @]
        BY <2>1, Zenon DEF CreateStart, getMeta
      <3> QED
        BY <1>1, <3>1, Zenon DEF IInv, TypeOK
    <2>3. Polls /\ Runs
      <3>1. Runs
        BY <1>1, <2>2, SelfFact, Zenon DEF IInv, PhaseInv
      <3>2. state # "init"
        BY <1>1, <2>2, Zenon DEF IInv, PhaseInv
      <3> QED
        BY <3>1, <3>2, Zenon DEF Runs, Polls
    <2>4. d \notin meta
      BY <1>1, <2>2, <2>3, Zenon DEF IInv, FileInv, Polls
    <2>5. \A w \in Writers : d \notin create[w].snap
      BY <1>1, <2>2, <2>3, Zenon DEF IInv, FileInv
    <2>6. meta = Torn => create[Self].at = "write"
      <3>1. \A f \in DBs : create[f].at # "idle" => f = d
        BY <1>1, <2>2, <2>3, Zenon DEF IInv, PhaseInv
      <3>2. \A w \in Writers : w = Self \/ w \in DBs
        BY Zenon DEF Writers
      <3> QED
        BY <1>1, <2>2, <2>3, <3>1, <3>2, Zenon DEF IInv, FileInv
    <2> QED
      BY <2>4, <2>5, <2>6, Zenon DEF Named
  <1>2. IInv /\ [Next]_vars =>
          [\A d \in DBs : disk[d] = "used" /\ disk'[d] # "used" =>
             d \notin Named /\ (meta = Torn => create[Self].at = "write")]_vars
    BY <1>1, Zenon
  <1> QED
    BY <1>2, Invariant, PTL DEF Spec, UsedIsKept

\* A query runs only with a permission the main chain gave between the count the bus had
\* reached when checkPermission looked and now.
THEOREM QueriesPermitted == Spec => PermissionFollows
  <1>1. IInv => \A u \in Users : req[u].at = "checked" =>
          \E n \in req[u].seen..chain : req[u].kind \in Permission[n][req[u].db][u]
    BY Zenon DEF IInv, PermInv
  <1>2. IInv /\ [Next]_vars =>
          [\A u \in Users : req[u].at = "checked" /\ disk' # disk /\ req'[u].at = "idle" =>
             \E n \in req[u].seen..chain : req[u].kind \in Permission[n][req[u].db][u]]_vars
    BY <1>1, Zenon
  <1> QED
    BY <1>2, Invariant, PTL DEF Spec, PermissionFollows

=============================================================================
