------------------------------- MODULE Miner -------------------------------
(***************************************************************************)
(* The DBMS of a miner and the bus service that feeds it. The bus polls a  *)
(* block producer for the last irreversible block and the profiles of the  *)
(* databases of this miner, and publishes the transactions of the blocks   *)
(* in between; the DBMS creates the databases they announce, checks        *)
(* permissions against the profiles and remembers its databases in a file. *)
(*                                                                         *)
(* The main chain is Blocks; what a block producer knows is the count of   *)
(* its last irreversible block, and a set of profiles is the count it was  *)
(* computed at. The life of an open database is the module SQLChain.       *)
(***************************************************************************)
EXTENDS Integers, Sequences

CONSTANTS Blocks,      \* the main chain: a sequence of sequences of transactions
          DBs, Users,
          Asked,       \* the kinds of queries that users send
          MaxFails,    \* bound: databases that fail to open, blocks that fail to
                       \* load, starts without an answer or with an old one
          MaxCrashes   \* bound: crashes and shutdowns

Kinds == {"read", "write"}
Tx == [type : {"CreateDatabase", "UpdatePermission", "UpdateBilling"}, db : DBs,
       user : Users, perm : SUBSET Kinds, mine : BOOLEAN, height : Nat]

ASSUME MinerAssumption ==
  /\ Blocks \in Seq(Seq(Tx)) /\ Asked \subseteq Kinds /\ MaxFails \in Nat /\ MaxCrashes \in Nat
  /\ DBs \intersect {"torn", "shutdown"} = {}

VARIABLES
  chain,    \* the count of the last irreversible block of the block producer asked
  state,    \* the process: "down", "ask", "init", "up", "stop", "failed"
  bus,      \* BusService: blockCount, and the counts of sqlChainProfiles and of
            \* sqlChainState
  poll,     \* subscribeBlock: where it is, the counts it works from and to, the next
            \* block and transaction
  create,   \* Create by database, and Shutdown: where it is, and what it writes to the meta file
  dbMap,    \* the databases of dbMap
  open,     \* the databases that run
  billing,  \* lastBillingHeight, by open database
  meta,     \* DBMSMeta in its file
  disk,     \* the files of a database: none, no write of a client yet, some
  req,      \* the query of a user
  local,    \* localMeta of Init
  missed,   \* databases that did not open since the start
  skipped,  \* counts of the blocks that did not load since the start
  fails, crashes

vars == <<chain, state, bus, poll, create, dbMap, open, billing, meta, disk, req,
          local, missed, skipped, fails, crashes>>

Torn == {"torn"}   \* a file cut short

Counts == 0..Len(Blocks)

\* The transactions of the main chain, as a sequence of blocks and positions.
Txs(n) == UNION {{<<i, j>> : j \in 1..Len(Blocks[i])} : i \in 1..n}
At(p) == Blocks[p[1]][p[2]]
Later(p, q) == p[1] > q[1] \/ (p[1] = q[1] /\ p[2] > q[2])

\* The last of some transactions, if any.
Latest(S) == {p \in S : \A q \in S : ~Later(q, p)}

--------------------------------------------------------------------------
(* What the block producer tells: metaState at a count *)

\* loadROSQLChains: the databases this miner serves.
loadROSQLChains ==
  [n \in Counts |->
     {At(p).db : p \in {q \in Txs(n) : At(q).type = "CreateDatabase" /\ At(q).mine}}]

\* The billings of a database up to a count.
Billings(n, d) == {p \in Txs(n) : At(p).type = "UpdateBilling" /\ At(p).db = d}

\* LastUpdatedHeight of a profile.
LastUpdatedHeight ==
  [n \in Counts |-> [d \in DBs |->
     LET last == Latest(Billings(n, d)) IN
     IF last = {} THEN 0 ELSE At(CHOOSE p \in last : TRUE).height]]

\* The users of a profile: the permission of the last transaction that sets it.
Permission ==
  [n \in Counts |-> [d \in DBs |-> [u \in Users |->
     LET last == Latest({p \in Txs(n) :
                           /\ At(p).type \in {"CreateDatabase", "UpdatePermission"}
                           /\ At(p).db = d /\ At(p).user = u}) IN
     IF last = {} \/ d \notin loadROSQLChains[n] THEN {}
     ELSE At(CHOOSE p \in last : TRUE).perm]]]

--------------------------------------------------------------------------
NotPolling == [at |-> "off", from |-> 0, to |-> 0, block |-> 0, tx |-> 0]
Waiting == [NotPolling EXCEPT !.at = "wait"]

\* Those who write the meta file: the Create of a database, and Shutdown.
Self == "shutdown"
Writers == DBs \union {Self}

Creating(at) == [at |-> at, snap |-> {}]
NoCreate == Creating("idle")
NoReq == [at |-> "idle", db |-> "", kind |-> "", seen |-> 0]

Init ==
  /\ chain = 0 /\ state = "down"
  /\ bus = [count |-> 0, profiles |-> 0, perms |-> 0]
  /\ poll = NotPolling
  /\ create = [d \in Writers |-> NoCreate]
  /\ dbMap = {} /\ open = {}
  /\ billing = [d \in DBs |-> 0]
  /\ meta = {} /\ disk = [d \in DBs |-> "none"]
  /\ req = [u \in Users |-> NoReq]
  /\ local = {} /\ missed = {} /\ skipped = {} /\ fails = 0 /\ crashes = 0

\* The main chain grows.
Mine ==
  /\ chain < Len(Blocks) /\ chain' = chain + 1
  /\ UNCHANGED <<state, bus, poll, create, dbMap, open, billing, meta, disk, req,
                 local, missed, skipped, fails, crashes>>

\* The count of the last irreversible block, and later in the same request the count of
\* the profiles: the producer may have moved on in between.
fetchLastIrreversibleBlock == chain
loadSQLChainProfiles == chain

\* Fewer failures than the bound, and this is one.
Fail == fails < MaxFails /\ fails' = fails + 1

\* Mutant: the permissions are not rebuilt once there are some.
updateProfiles(count, view) ==
  bus' = [count |-> count, profiles |-> view,
          perms |-> IF bus.perms = 0 THEN view ELSE bus.perms]

\* updateState.
updateState(count, view) == bus' = [count |-> count, profiles |-> view, perms |-> view]

--------------------------------------------------------------------------
(* Start: NewDBMS and Init *)

\* The process starts, and asks a block producer, perhaps one that is behind the one
\* it asked before. fetchLastIrreversibleBlock reads the block.
NewBusService ==
  /\ state \in {"down", "failed"} /\ state' = "ask"
  /\ \/ UNCHANGED <<chain, fails>>
     \/ Fail /\ chain' \in 0..(chain - 1)
  /\ poll' = [NotPolling EXCEPT !.to = chain']
  /\ UNCHANGED <<bus, create, dbMap, open, billing, meta, disk, req, local,
                 missed, skipped, crashes>>

\* The process ends: what it holds in memory is gone.
Ends ==
  /\ poll' = NotPolling /\ create' = [d \in Writers |-> NoCreate]
  /\ dbMap' = {} /\ open' = {} /\ req' = [u \in Users |-> NoReq]
  /\ billing' = [d \in DBs |-> 0] /\ local' = {}
  /\ missed' = {} /\ skipped' = {}

\* readMeta: the databases of the file, none if there is no file yet. A file that was cut
\* short does not decode.
readMeta == meta # Torn /\ local' = meta

\* The answer comes, with the profiles as they are now, or none comes: then there are
\* no profiles and the count is 0. Init reads the meta file and starts to create the
\* databases of the profiles.
Answered ==
  /\ state = "ask"
  /\ \/ updateState(poll.to, loadSQLChainProfiles) /\ UNCHANGED fails
     \/ updateState(0, 0) /\ Fail
  /\ \/ meta = Torn /\ state' = "failed" /\ Ends
     \/ /\ readMeta /\ state' = "init"
        /\ create' = [d \in Writers |-> IF d \in loadROSQLChains[bus'.profiles]
                                        THEN Creating("keep") ELSE NoCreate]
        /\ poll' = NotPolling
        /\ UNCHANGED <<dbMap, open, billing, req, missed, skipped>>
  /\ UNCHANGED <<chain, meta, disk, crashes>>

\* All Creates of Init have returned.
Created == \A d \in DBs : create[d].at = "idle"

\* The rest of Init: the handlers are subscribed, and the bus starts.
Started == state' = "up" /\ poll' = Waiting

\* The rest of initDatabases and of Init. A database of the meta file that has no
\* profile is to be dropped: it is not in dbMap, so Drop returns ErrNotExists and Init
\* fails. Otherwise the bus starts.
initDatabases ==
  /\ state = "init" /\ Created
  /\ IF local \ loadROSQLChains[bus.profiles] # {}
     THEN state' = "failed" /\ Ends
     ELSE Started /\ UNCHANGED <<create, dbMap, open, billing, req, local, missed, skipped>>
  /\ UNCHANGED <<chain, bus, meta, disk, fails, crashes>>

--------------------------------------------------------------------------
(* Create. "keep" and "clean" are its start, with cleanup false and true. *)

\* Mutant: Create does not look.
NeverThere(d) == FALSE

\* getMeta.
getMeta(d) == d \in dbMap

\* NewDatabase: chain and Kayak runtime run, and the runtime is registered.
NewDatabase(d, height) ==
  /\ open' = open \union {d}
  /\ billing' = [billing EXCEPT ![d] = height]

\* Up to NewDatabase. A database of dbMap is left alone; otherwise its files are
\* removed for cleanup, and it opens, with the billing height of its profile, or fails
\* to open: it is then removed from dbMap, and the meta file is written.
CreateStart(d) ==
  /\ create[d].at \in {"keep", "clean"}
  /\ IF getMeta(d)
     THEN /\ create' = [create EXCEPT ![d] = NoCreate]
          /\ UNCHANGED <<open, disk, billing, missed, fails>>
     ELSE /\ disk' = [disk EXCEPT ![d] =
                        IF create[d].at = "clean" \/ @ = "none" THEN "fresh" ELSE @]
          /\ \/ /\ NewDatabase(d, LastUpdatedHeight[bus.profiles][d])
                /\ create' = [create EXCEPT ![d].at = "add"]
                /\ UNCHANGED <<missed, fails>>
             \/ /\ Fail
                /\ create' = [create EXCEPT ![d].at = "range"]
                /\ missed' = missed \union {d}
                /\ UNCHANGED <<open, billing>>
  /\ UNCHANGED <<chain, state, bus, poll, dbMap, meta, req, local, skipped, crashes>>

\* addMeta: the database is served, and the meta file is to be written.
addMeta(d) ==
  /\ create[d].at = "add"
  /\ dbMap' = dbMap \union {d}
  /\ create' = [create EXCEPT ![d].at = "range"]
  /\ UNCHANGED <<chain, state, bus, poll, open, billing, meta, disk, req, local,
                 missed, skipped, fails, crashes>>

\* writeMeta: dbMap is read, the file is cut, and written.
writeMeta(d) ==
  /\ \/ /\ create[d].at = "range"
        /\ create' = [create EXCEPT ![d] = [at |-> "cut", snap |-> dbMap]]
        /\ UNCHANGED meta
     \/ /\ create[d].at = "cut"
        /\ create' = [create EXCEPT ![d].at = "write"]
        /\ meta' = Torn
     \/ /\ create[d].at = "write"
        /\ create' = [create EXCEPT ![d] = NoCreate]
        /\ meta' = create[d].snap
  /\ UNCHANGED <<chain, state, bus, poll, dbMap, open, billing, disk, req, local,
                 missed, skipped, fails, crashes>>

Create(w) == (w # Self /\ CreateStart(w)) \/ addMeta(w) \/ writeMeta(w)

--------------------------------------------------------------------------
(* subscribeBlock *)

\* A block is next, or a transaction of the block.
Loads(block) == [at |-> "load", from |-> poll.from, to |-> poll.to, block |-> block, tx |-> 0]
Reads(tx) == [at |-> "txs", from |-> poll.from, to |-> poll.to, block |-> poll.block, tx |-> tx]

\* Mutant: one new block is not enough.
AskLater ==
  /\ poll.at = "wait"
  /\ chain > bus.count + 1
  /\ poll' = [at |-> "asked", from |-> bus.count, to |-> chain, block |-> 0, tx |-> 0]
  /\ UNCHANGED <<chain, state, bus, create, dbMap, open, billing, meta, disk, req,
                 local, missed, skipped, fails, crashes>>

\* requestLastBlock is sent, and the producer reads its last irreversible block.
Ask ==
  /\ poll.at = "wait"
  /\ fetchLastIrreversibleBlock > bus.count
  /\ poll' = [at |-> "asked", from |-> bus.count, to |-> fetchLastIrreversibleBlock,
              block |-> 0, tx |-> 0]
  /\ UNCHANGED <<chain, state, bus, create, dbMap, open, billing, meta, disk, req,
                 local, missed, skipped, fails, crashes>>

\* The answer, with the profiles of now: the state first, then the events of the
\* blocks after the last one seen.
UpdateState ==
  /\ poll.at = "asked"
  /\ updateState(poll.to, loadSQLChainProfiles)
  /\ poll' = Loads(poll.from + 1)
  /\ UNCHANGED <<chain, state, create, dbMap, open, billing, meta, disk, req, local,
                 missed, skipped, fails, crashes>>

\* fetchBlockByCount: the events of a block that does not load are skipped. The last
\* block came with the answer.
fetchBlockByCount ==
  /\ poll.at = "load"
  /\ \/ /\ poll' = Reads(1) /\ UNCHANGED <<skipped, fails>>
     \/ /\ poll.block < poll.to /\ Fail
        /\ poll' = Loads(poll.block + 1)
        /\ skipped' = skipped \union {poll.block}
  /\ UNCHANGED <<chain, state, bus, create, dbMap, open, billing, meta, disk, req,
                 local, missed, crashes>>

\* createDatabase: a database with a profile is created, and its old files removed.
createDatabase(d) ==
  /\ create' = IF d \in loadROSQLChains[bus.profiles]
               THEN [create EXCEPT ![d] = Creating("clean")] ELSE create
  /\ UNCHANGED billing

\* updateBilling: SetLastBillingHeight of the chain of an open database.
updateBilling(d) ==
  /\ billing' = IF d \in dbMap /\ d \in loadROSQLChains[bus.profiles]
                THEN [billing EXCEPT ![d] = LastUpdatedHeight[bus.profiles][d]]
                ELSE billing
  /\ UNCHANGED create

\* Publish: the handlers of a topic run one after the other, before it returns; Init
\* subscribed one to each of two topics.
Publish(tx) ==
  \/ tx.type = "CreateDatabase" /\ createDatabase(tx.db)
  \/ tx.type = "UpdateBilling" /\ updateBilling(tx.db)
  \/ tx.type = "UpdatePermission" /\ UNCHANGED <<create, billing>>

\* extractTxs: the next transaction is published, once the handler of the one before
\* has returned.
extractTxs ==
  /\ poll.at = "txs" /\ Created /\ poll.tx <= Len(Blocks[poll.block])
  /\ Publish(Blocks[poll.block][poll.tx])
  /\ poll' = Reads(poll.tx + 1)
  /\ UNCHANGED <<chain, state, bus, dbMap, open, meta, disk, req, local, missed,
                 skipped, fails, crashes>>

\* Mutant: the last block is forgotten after others.
NextBlockShort ==
  /\ poll.at = "txs" /\ Created /\ poll.tx > Len(Blocks[poll.block])
  /\ poll' = IF poll.block + 1 < poll.to THEN Loads(poll.block + 1) ELSE Waiting
  /\ UNCHANGED <<chain, state, bus, create, dbMap, open, billing, meta, disk, req,
                 local, missed, skipped, fails, crashes>>

\* The block is done.
NextBlock ==
  /\ poll.at = "txs" /\ Created /\ poll.tx > Len(Blocks[poll.block])
  /\ poll' = IF poll.block < poll.to THEN Loads(poll.block + 1) ELSE Waiting
  /\ UNCHANGED <<chain, state, bus, create, dbMap, open, billing, meta, disk, req,
                 local, missed, skipped, fails, crashes>>

subscribeBlock == Ask \/ UpdateState \/ fetchBlockByCount \/ extractTxs \/ NextBlock

--------------------------------------------------------------------------
(* Queries *)

\* RequestPermStat.
RequestPermStat(d, u) == Permission[bus.perms][d][u]

\* checkPermission passes.
checkPermission(u, d, kind) ==
  /\ state \in {"init", "up", "stop"} /\ req[u].at = "idle"
  /\ kind \in RequestPermStat(d, u)
  /\ req' = [req EXCEPT ![u] = [at |-> "checked", db |-> d, kind |-> kind,
                                seen |-> bus.count]]
  /\ UNCHANGED <<chain, state, bus, poll, create, dbMap, open, billing, meta, disk,
                 local, missed, skipped, fails, crashes>>

\* The rest of Query: a database that is not there, or not open, is an error.
Query(u) ==
  /\ req[u].at = "checked"
  /\ disk' = IF req[u].kind = "write" /\ req[u].db \in dbMap \cap open
             THEN [disk EXCEPT ![req[u].db] = "used"] ELSE disk
  /\ req' = [req EXCEPT ![u] = NoReq]
  /\ UNCHANGED <<chain, state, bus, poll, create, dbMap, open, billing, meta, local,
                 missed, skipped, fails, crashes>>

--------------------------------------------------------------------------
(* End: a crash, or Shutdown *)

Crash ==
  /\ state \in {"ask", "init", "up", "stop"} /\ crashes < MaxCrashes
  /\ crashes' = crashes + 1
  /\ state' = "down" /\ Ends
  /\ UNCHANGED <<chain, bus, meta, disk, fails>>

\* Database.Shutdown: the Kayak runtime, its registration and the chain.
Close(S) == open' = open \ S

\* Shutdown: the databases of dbMap close, and stay there; then writeMeta.
Shutdown ==
  /\ state = "up" /\ crashes < MaxCrashes /\ crashes' = crashes + 1
  /\ state' = "stop" /\ Close(dbMap)
  /\ create' = [create EXCEPT ![Self].at = "range"]
  /\ UNCHANGED <<chain, bus, poll, dbMap, billing, meta, disk, req, local, missed,
                 skipped, fails>>

\* Its end: the bus stops at its next wait, and the process ends.
Stopped ==
  /\ state = "stop" /\ create[Self].at = "idle" /\ poll.at = "wait"
  /\ state' = "down" /\ Ends
  /\ UNCHANGED <<chain, bus, meta, disk, fails, crashes>>

--------------------------------------------------------------------------
Run == NewBusService \/ Answered \/ initDatabases \/ Stopped

Next ==
  \/ Mine \/ Run \/ subscribeBlock
  \/ \E w \in Writers : Create(w)
  \/ \E u \in Users : Query(u) \/ \E d \in DBs, k \in Asked : checkPermission(u, d, k)
  \/ Crash \/ Shutdown

\* The process is started again when it ends, its goroutines run, and blocks are mined.
Fairness ==
  /\ WF_vars(Mine) /\ WF_vars(Run) /\ WF_vars(subscribeBlock)
  /\ \A w \in Writers : WF_vars(Create(w))

Spec == Init /\ [][Next]_vars /\ Fairness

--------------------------------------------------------------------------
(* Properties *)

Idle == state = "up" /\ poll.at = "wait"

\* The databases a skipped block announces.
Skipped == UNION {loadROSQLChains[i] \ loadROSQLChains[i - 1] : i \in skipped}

\* When the bus waits for its next poll, every database the main chain gave to this
\* miner up to the last count is in dbMap and runs, unless it did not open or its
\* block did not load: updateState comes before the events and each block is read once.
\* The billing height of a database is the one of the main chain at some count: not
\* older than the block count of the bus, unless a block was skipped, and not ahead of
\* the profiles.
Serves ==
  Idle =>
    /\ \A d \in loadROSQLChains[bus.count] \ (missed \union Skipped) : d \in dbMap \cap open
    /\ \A d \in dbMap :
         \E n \in (IF skipped = {} THEN bus.count ELSE 0)..bus.profiles :
           billing[d] = LastUpdatedHeight[n][d]

\* The databases the meta file names, once the write that cut it is through.
Named ==
  IF meta # Torn THEN meta
  ELSE UNION {create[w].snap : w \in {v \in Writers : create[v].at = "write"}}

\* The files of a database with writes of clients are removed, by the event that
\* announces it read again, only if the meta file does not name it. A file that is cut
\* short at that time is one that Shutdown is writing, and what it writes does not name
\* the database either.
UsedIsKept ==
  [][\A d \in DBs : disk[d] = "used" /\ disk'[d] # "used" =>
       d \notin Named /\ (meta = Torn => create[Self].at = "write")]_vars

\* A query runs only if the main chain permitted it at some count from the one the
\* bus had reached when it was checked to now: the state of sqlChainState is replaced as a
\* whole.
PermissionFollows ==
  [][\A u \in Users : req[u].at = "checked" /\ disk' # disk /\ req'[u].at = "idle" =>
       \E n \in req[u].seen..chain : req[u].kind \in Permission[n][req[u].db][u]]_vars

\* A database of this miner is served in the end, unless it does not open, its block
\* is skipped, or a crash cuts the meta file short and no Init succeeds again.
ServesAll ==
  <>[](\/ meta = Torn
       \/ \A d \in loadROSQLChains[Len(Blocks)] \ (missed \union Skipped) : d \in dbMap)
=============================================================================
