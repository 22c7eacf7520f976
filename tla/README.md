# A verification project for SQLess

SQLess is a database service: miners keep replicated SQL databases, block
producers keep a main chain with accounts and database profiles, clients query
through a Go `sql` driver. This directory models it in TLA+, checks the models
with TLC on small instances and proves theorems about seven of them with TLAPS.
Every definition is translated from the source; `PROJECT.json` maps it to its
lines.

## The system

| Part | State | Operations | What is hard about it |
|---|---|---|---|
| Kayak (`src/kayak`) | WAL, `nextIndex`, `lastCommit`, `pendingPrepares`, wait items | `Apply`, `FollowerApply`, commit cycle, fetch, recovery | goroutines per request and per RPC, lost RPCs, timeouts, crash between two writes |
| Main chain (`src/blockproducer/chain.go`, `branch.go`, `storage.go`) | branches, pools, last irreversible block, SQLite | produce, apply, switch branch, add transaction, restart | forks, late blocks, competing transactions, restart |
| Gossip (`src/blockproducer/chain_gossip.go`, `rpc.go`) | blocks and transactions under way | advise, fetch, broadcast | late and lost calls, a clock that goes on |
| Meta state (`src/blockproducer/metastate.go`) | balances, providers, database profiles | seven transaction types | long sequences of valid transactions; rounding |
| SQL chain (`src/sqlchain`) | block index, acknowledgement index, turn | produce, push block, acknowledge, expire | turns by the clock, late blocks and acknowledgements |
| SQL state (`src/xenomint`) | one open SQLite transaction, savepoints, query pool | query, replay, commit | reads beside an uncommitted write, failed queries, replay against own queries |
| Miner (`src/worker`) | databases, their files, the meta file, permissions | create, query, shut down, chain events | crash between two files, events lost or old |
| Bus (`src/chainbus`, `src/worker/chainbusservice.go`) | last block seen, profiles | poll, publish | blocks that do not load, profiles ahead of the events |
| Observer (`src/sqlchain/observer`) | position, SQLite index | subscribe, pull, look up | a stop between two statements, a reset during a pull |
| Storage 2PC (`src/twopc`, `src/storage`) | prepared batch of a node | prepare, commit, rollback | timeouts, partial failure |
| RPC pools (`src/rpc`) | free list, sessions, clients | get, call, put back | connections that break while in use |
| Directory (`src/route`, `src/consistent`, `src/crypto/kms`, `src/naconn`) | key store, hash ring, caches | ping, find, dial | crash between store and ring, moved nodes |
| Client (`src/client`, `src/cmd/cql`) | queued queries, connection ids, acks, nonces | query, commit, close; create, transfer, grant, wallet | a failed call whose request still runs; confirmations read while the chain moves |

A client's write reaches the leading miner, which replicates it by Kayak or, with
eventual consistency, by its blocks alone; the commit handler runs it on the SQL
state; its request, response and acknowledgement go into SQL chain blocks, which
an observer may index. The cost is billed by a transaction on the main chain,
whose irreversible blocks tell the miners, through the bus, which databases and
users exist. Users reach the main chain through the driver and the command `cql`.
All nodes find each other through the directory of the block producers.

## Modules

| Module | Models |
|---|---|
| `Kayak` | the Kayak runtime of a leader and its followers |
| `CommitOrder` | what Kayak promises: one growing chain of requests, of which followers learn prefixes |
| `KayakInductive` | the inductive invariant of `Kayak`, that every step keeps it, and that a restart succeeds |
| `KayakProofs` | the other theorems about `Kayak`, extending `KayakInductive` |
| `BPChain` | the main chain of one block producer, with its storage |
| `Producers` | several block producers: clock, turns, gossip, transactions |
| `Wallet` | composes `Producers` with the users of an account: driver and `cql` |
| `MetaState` | what the transactions do to tokens, providers and databases |
| `SQLChain` | the SQL chain of a database with the SQL state of each of its miners |
| `AckIndex` | responses, acknowledgements and bills of a SQL chain |
| `Miner` | the DBMS of a miner with the bus service |
| `Observer` | the observer with its index and API |
| `TwoPC` | coordinator and storages |
| `BatchOrder` | what the two-phase commit promises: one order of batches on all storages |
| `Conn`, `Pool`, `Directory` | connections of the driver with the leader's sequence check; RPC pools and callers; node directory |
| `Client` | composes the last three |
| `SQLChainProofs`, `AckIndexProofs`, `MinerProofs`, `ObserverProofs`, `TwoPCProofs`, `ClientProofs` | the proofs about the module each is named after |
| `MC...` | instances for TLC |

**Kayak.** The contents of a log are written once, by the leader (`log`); `wal`
says which of them a follower stored. An `Apply` call, a handler of a follower
and the commit cycle of a node each have a program counter, and a step is what
happens between two points where another goroutine or a crash may come in.
Allocating an index and writing its prepare log are two steps, and so are the test
and the write of `LevelDBWal.Write` when a follower stores a prepare log: nothing is
locked between them. A crash loses
everything but the WALs, and `readLogs` then reads them log by log.

**BPChain.** One producer; the others are the environment, which builds on any
block and whose blocks arrive in any order, repeatedly or never. A height has one
producer and at most one block, so a block is named by its height. A change under
the chain's lock together with its SQLite transaction is one step. Of the meta
state it has the nonces.

**Producers.** The chain of each producer is a tree of blocks, a head and a last
irreversible block; storage and restart are left to `BPChain`. `mainCycle` asks
the others for the block of the height that ends, then enters the next height
and produces in its turn. A block that was fetched is handed to `processBlocks`
over an unbuffered channel, when the main cycle goes on. The clock ticks on its
own; `lag` bounds by how many heights a producer or a block may be late. A
producer is done with its block before the next height begins.

**Wallet.** A user is a process with a driver of its own; all use one account. A
transaction is a nonce, a kind and its sender; a database is named by the nonce.
Funds suffice, so only nonces make a transaction fail. `strays` and `aborts` are
history variables: blocks built beside a longest chain, and fetched blocks that
came too late to be handed on. A user may wait for the database straight after
`Create`, or for the confirmation first.

**MetaState.** The merged view of the dirty and the readonly index. A step is a
transaction that `apply` accepts. The cost of queries per block is a constant.
A transaction may name a target miner twice, and then the database has it twice. A
case, chosen in `Init`, gives accounts, tokens and inputs.

**SQLChain.** Each miner has the goroutine of the main cycle (`pc`), the block
processor (`box`) and the state with its lock. An operation under the lock of the
state is one step; the blocks channel is a rendezvous. The SQLite file is the
sequence of statements executed on it, of which `saved` are committed. A statement
either always fails or always succeeds. Writes go to the leader, through Kayak
with strong consistency: there the model has only the order Kayak commits in.
Advised blocks arrive in any order, late or never; a stopped miner restarts at
once, and a block of its own turn may be on the way. A configuration of the
database and its workload is a member of `Scenarios`, chosen in `Init`.

**AckIndex.** Miners that take turns and build on the last block only. A query has the
time of its request and that of its response, which may be later. A response is registered, acknowledged, packed, taken out by each miner that stores the
block, or dropped when `advance` moves the barrier. Storing a block and taking
its acknowledgements out are two steps. The index is lost in a restart. At the
end of a turn the height goes to the block processor, which bills the blocks it
has when it is the miner's turn (`ReadHeight`, `billing`); bills are late or lost,
the main chain accepts one whose range begins where the last ended
(`updateBilling`), and miners hear of it later. All queries are of one user and
cost one row; a block that comes a turn late is stored here, while the code drops
it (`SQLChain` has that).

**Miner.** The main chain is a constant; what a producer knows is the count of its
last irreversible block, and every set of profiles is the count it was computed
at. Creating a database opens its files, enters it in `dbMap` and writes the meta
file in separate steps; a crash during `writeMeta` leaves a torn file. Between
the check of a permission and the query the state may be replaced.

**Observer.** Every SQL statement is a step. The tables are functions from keys to
rows; lookups and pages are operators over them, and a page is what the two loops of
`formatBlockV3` collect. `subscribeWorker.start` reads the head in one step and saves
it in another.

**TwoPC.** A call of `Put` and its worker on each storage. A context may end at
any step, and then `database/sql` rolls its transaction back; the code holds no
lock while it waits. Queries of a batch may fail on one storage and not on
another, and SQLite may fail a COMMIT, which the code does not notice: `failed`
records where. A call may repeat an earlier one with the same id.

**Client.** Threads of an application share connection ids and the counter of
sequence numbers. A call may fail while its request is on the way or in work.
Physical connections break, which is noticed later. Block producers crash between
the two halves of `Consistent.add`, nodes move. A layer takes from the one below
only that it returns or fails, so a scenario exercises one layer.

## Runs

Passing runs (deadlock is not an error in any of them: bounded inputs run out):

| Run | Instance | Shows |
|---|---|---|
| `kayak_crash` | 1 follower, 2 requests, timeouts, a crash of each node | decisions agree, what is committed was prepared, a request is skipped only by a crash, recovery accepts the WAL and no undecided prepare is forgotten, what `Apply` returns is true, `CommitOrder` is implemented |
| `kayak_live` | 1 follower, 2 requests, one failed RPC, fairness | `Apply` returns and commits are repaired |
| `bp_restart` | 2 rival transactions, 5 heights, a restart at any moment | a restart gives back the state that replaying the blocks gives, own blocks are valid, nothing irreversible is undone |
| `meta` | 2 users, and 2 miners with 1 database and 2 billed blocks, or 3 miners with 2 databases | the supply grows by exactly what a payment of arrears and a miner named twice make, and shrinks by rounding only; blocks are billed once |
| `sqlchain` | 2 miners, 6 workloads of up to 3 requests, 2 or 3 periods, a crash of the follower | one block for a turn and chains that agree, nothing is packed or executed twice, a replica holds what its chain holds |
| `twopc` | 2 storages, 2 calls of `Put` that meet or a call and its repetition, a direct write | a prepared batch is kept until its storage has dealt with it and not longer, success means applied wherever SQLite committed, `BatchOrder` is implemented, `Put` returns |
| `observer` | genesis and 3 blocks, 2 requests that may both subscribe, 2 crashes or stops | nothing below the position is missing, lookups agree with blocks, the page loops partition a block, resets are kept, the newest block never goes back, the observer catches up |
| `miner` | 2 own databases and 1 other, 3 blocks, 2 crashes or shutdowns, 2 failures | databases of the chain are served with their billing height, used files are kept, a query was permitted, all databases are served in the end |
| `acks` | 2 miners; 1 query for 4 periods, 1 for 3 with a restart, or 2 of one period; 1 query with bills at each of 3 heights, or at 2 with a restart | an ack that comes before its request expires is taken, and leaves the index only in a stored block, by expiry or in a restart; no query is charged twice, and miners are not credited with more than is charged |
| `client` | 2 threads in 3 workloads with failing calls; 2 users of either pool with 3 troubles; 2 nodes and 2 producers with crashes and moves | outcomes told are what happened, late writes are refused, connections are neither shared nor leaked, callers get over broken ones, ring and store agree, the nearest producer is found, a lookup fails only when nobody knew, pings get through |
| `wallet` | 2 producers up to height 8 or 3 up to height 4 without users; 1 or 2 producers with up to 2 users | a producer builds on a longest chain, or one block behind it while a fetched block waits; heads become the same; who was told of a confirmation finds the transaction, and the database of a confirmed `Create` is one's own |

One run finds a violation; its property states what a comment says, quoted in
`PROJECT.json`:

| Run | What the code does |
|---|---|
| `neighbors` | `GetNeighborsEx` with a filter does not return when the first hit is at index 0 and another producer follows it |

**Bounds.** Two requests are the fewest for which commits have an order and may be
executed in the wrong one; indexes 0 to 3 are a prepare and a commit log for each.
Five heights let a branch grow, be overtaken and be pruned with two confirmations.
Two billed blocks let a user fall into arrears, pay, and fall into arrears again.
With two miners and three periods each miner has a turn and the first a second
one, so a block can be late by a turn, fetched, stashed and refused; `MaxTx` 1
makes a write flush or not, `QueryTTL` 2 lets a request of the third period be too
old. Four periods with `QueryTTL` 2 take a query past its expiry, with a response one or
more periods after the request, and with three bills two miners bill one block, one of
them from a height that is no longer the last (`acks`). Two
storages are the fewest that calls can meet on in different orders. Four blocks
with gaps between heights hold a query that is packed twice and an ack that comes
later than its query (`observer`). The databases of `miner` are created in
different blocks and one is billed and loses a permission in between; with two crashes
one may cut the file that another has yet to write. A free list
of one connection and two sessions make both pools full. Two replicas of a node on
the ring let the filter of a lookup skip and wrap around; the two orders of the
hashes have the producers apart and side by side. Two producers need two confirmations,
so six heights suffice for two branches of irreversible length and eight for a block on
each of them after that, three producers for a fork that a third one settles.

**What the passing runs leave out.** `Conservation` is an account
of the tokens, with what two flaws of the code make (see below) as terms of it, and
`BilledOnce` does not look at payments from stale lists. A prepare threshold below 1 and
several followers are covered by the theorem `PreparedQuorum`, not by a run. `ReplicaFollowsChain` and the
second half of `Once` are about eventual consistency: with strong consistency a follower
that replays a block before Kayak commits its write executes the write twice. In
`sqlchain` only the follower crashes, and a crash between replay and store may execute
a block twice (`torn`). `bp_restart` keeps the number of confirmations.
`BuildsOnLongest` ends when a fetched block is dropped and when the irreversible blocks
of two producers disagree: producers that never wait for `processBlocks` take their own
branches for irreversible at height 6, and then the fork is for good. `ReadYourWrites` is
about behaviours without strays, as a transaction is reported as confirmed once some block
with it was the head, and a stray may replace that head; and about users who asked for the
confirmation: one who calls `WaitDBCreation` right after `Create` may get the database of
another `Create` with the same nonce. `SuccessIsApplied` is about calls without hooks whose
context has not ended, and excepts the storages where SQLite failed the COMMIT,
`ServesAll` about a meta file that is not torn.

**Fairness.** Weak fairness for goroutines that can run, in all liveness runs; the
exceptions are these.
`kayak_live`: strong fairness for a sender on the commit channel, since Go queues
blocked senders in order; RPCs are answered or fail.
`observer`: strong fairness for noticing the stop signal between two pulls, which
`select` takes sooner or later when it is ready again and again; a stopped observer is started again.
`miner`: the main chain goes on, a miner that is down is started again.
`client`: a broken connection is noticed (keepalive of smux), a crashed producer is
started again.
`wallet`: the clock ticks, a call under way arrives unless it fails; users get no
fairness. There is no fairness for crashes, losses, timeouts or failures anywhere.

**Read in the code, without a run of its own** (modelled as it is, where the module has it):

Kayak
- `CommitTimeout` (`src/kayak/runtime.go:237`) is stored and never used.
- `doLeaderCommit` ignores failed commit RPCs (`src/kayak/processes.go:93`):
  `Apply` succeeds below `CommitThreshold`, "minimum rpc success node percent
  requirement for commit operation" (`src/kayak/types/config.go:31`).
- The apply RPC and the fetch of one commit log may both pass "check if prepare
  already processed" (`src/kayak/processes.go:211`); the slower one is then queued
  again for ever (`src/kayak/commit.go:190`).
- The RPC and the fetch of one prepare log may both pass the test of
  `LevelDBWal.Write` (`src/kayak/wal/leveldb_wal.go:81`) and both mark it pending, the
  second after the prepare was decided. It then stays in `pendingPrepares` until a
  restart; `lastCommit` and the WAL refuse its decision a second time.
- Recovery waits for ever for a log at index 0 that was never written
  (`waitForLog` without a deadline); lines 87 and 105 of `src/kayak/log.go` would
  report "node need full recovery".

Main chain
- A transaction of a head block is indexed (`src/blockproducer/chain.go:754`) and
  reported as confirmed (`chain_io.go:140`) though the block may be replaced; the
  diagram at `src/blockproducer/interfaces/transaction.go:114` has it confirmed when irreversible.
- A branch that becomes the head has only its last block indexed: transactions of
  its earlier blocks are unknown to `queryTxState` once they are irreversible.
- After a restart with a peer list that grew enough for two more confirmations,
  the last irreversible block moves back (`src/blockproducer/chain.go:766`).
- With up to five producers all of them have to confirm: the number is
  min(ceil(2n/3 + 1), n) (`chain.go:252`).
- A block whose parent is unknown is dropped (`chain.go:905`) and not asked for again.
- `NextAccountNonce` looks at the head only: two users of one account may be given
  the same nonce, and the same name for their databases. `WaitTxConfirmation` takes
  "not found" as final though `AddTx` returns before the transaction is processed.
  `WaitDBCreation` asks for the name only (`src/client/driver.go:276`): without a
  confirmation before, the user whose `Create` lost is given the other's database.

Meta state
- Paying arrears sets them to 0 before they are subtracted
  (`src/blockproducer/metastate.go:1084`), so that the tokens are made. The list of
  arrears without the paid ones is built and not assigned (`:1073`), so the next
  payment credits them again.
- A `CreateDatabase` that names a target twice gets it twice (`:587`): the database holds
  the provider's one deposit two times, and a bill credits its income at both places (`:963`).
- A `CreateDatabase` with as many targets as miners, the last of which matches and
  another not, is accepted without a database, as `errors.Wrapf` of a nil error is
  nil (`:610`).
- `updateKeys` changes a copy of the profile that it does not store (`:904`).

SQL chain
- A leader that gets its own block back after a crash reuses a log offset
  (`src/sqlchain/chain.go:968`), and other miners skip the write.
- A block of reads only truncates the pool at 0 (`src/xenomint/state.go:561`), so
  that no block holds the leader's first write.
- A read after a schema change that failed half way locks the state twice
  (`src/xenomint/state.go:259`) and stops the miner.
- A write that fails after its first statement moves the sequence
  (`src/xenomint/state.go:352`) and is in no block: followers with eventual
  consistency refuse every later write (`ErrMissingParent`).
- A block that `sync` or `syncHead` fetched is dropped if the turn moves on before
  the block processor looks at it (`src/sqlchain/chain.go:836`).
- A request that `AddResponse` refuses as too old (`src/worker/db.go:292`) stays in
  the pool without a response, and `produceBlock` waits for it for ever.
- An ack may be packed by two miners. The index counts a response by the time of the
  request, and an ack is checked by the time of the response
  (`src/sqlchain/chain.go:1005`, `:1037`): between the two expiries the check lets the ack
  pass and the index has dropped the response. The runs reach this; `AckWillFind` is about
  acks that come before the request expires. `register` keeps an ack
  whose response hash does not match (`src/sqlchain/ackindex.go:70`).
- A miner that produces the block of a billing height has it in its stash when it
  bills (`src/sqlchain/chain.go:788`), and the range it sends includes that height:
  once that bill is accepted, the queries of the block are charged by no other.
- A failed request of a block by a miner without an entry clears the entries of all
  miners for its user (`src/sqlchain/chain.go:1141`): the user is charged for queries
  that no miner is credited with.

Miner and observer
- The producer may answer with no block when it lags behind the count asked for, and
  `extractTxs` then uses a nil block. A database whose instance could not be built
  is created with a nil instance.
- A torn meta file makes every later `Init` fail. The event that announces a database
  again removes its files when the meta file does not name it; `chain.db` is kept.
- Removing a once-only handler while `Publish` goes through the handlers shifts them
  (`src/chainbus/bus.go:158`); the miner subscribes no such handler.
- The API reaches only the position "oldest"; "newest" would store the count -1
  (`src/sqlchain/observer/worker.go:107`).
- `start` reads the head and then saves it (`src/sqlchain/observer/worker.go:135`): a
  second request may write an older position over the one `pull` has saved. On an idle
  chain it stays behind, and a restart indexes the blocks above it again; `CatchesUp`
  is about the position in memory.

Storage, client and directory
- Every error of `tx.Commit` is dropped (`src/storage/storage.go:214`): a full disk, a
  locked file or a context that ends between the queries and the commit rolls the
  batch back, and `Put` reports success. `afterCommit` overwrites the error of the
  workers (`src/twopc/twopc.go:197`); a repetition may apply a batch twice.
- Two writes of one connection id that are checked at the same time may both pass
  and lower the recorded sequence number (`src/worker/db_storage.go:93`).
- A call that gets `EOF` reconnects and does not retry, where the comment says "if
  got EOF, retry once" (`src/rpc/pcaller.go:86`).
- An address learnt is never dropped from the cache (`src/route/dns.go:112`), and the
  nearest producer is asked for once.
- `driverInitialized` stays set after an `Init` that failed.

## Proofs

TLAPS checks these theorems for every value of the constants that the assumptions of
the modules admit: any finite set of followers, any miners, databases, requests, calls,
main chains, threads, pools, nodes, crashes and failures. Where a run checks the property
on a small instance, its name is the one of the run.

| Module | Theorem | Property |
|---|---|---|
| `KayakInductive` | `Restart` | `RecoveryAccepts`: `readLogs` refuses no WAL, and `pendingPrepares` lacks no undecided prepare |
| `KayakProofs` | `TypeCorrect` | `TypeOK` |
| | `Agreement` | `DecisionAgreement`: no prepare is committed and rolled back |
| | `NoGaps` | `CommitPrefix`: a follower's commits are a prefix |
| | `OrderedExecution` | `ExecutedInOrder`: every node executes in log order, nothing twice |
| | `Recovery` | `RecoveryComplete`: after `readLogs`, `lastCommit` is the newest commit |
| | `PreparedQuorum` | `CommittedIsPrepared` |
| | `Reports` | `OutcomeIsTrue`: what `Apply` reports happened |
| | `SkippedByCrash` | `SkippedOnlyByCrash`: at most one commit is never executed for each crash |
| | `Refinement` | `ImplementsOrder`: `Kayak` implements `CommitOrder` |
| `TwoPCProofs` | `TransactionsHeld` | `HeldUntilHandled` |
| | `SuccessApplied` | `SuccessIsApplied` |
| | `ImplementsBatchOrder` | `OneOrder`: `TwoPC` implements `BatchOrder` |
| `SQLChainProofs` | `ChainsAgree` | `ChainsMatch` |
| `AckIndexProofs` | `AckFindsResponse` | `AckWillFind` |
| | `AcksStay` | `NoAckLost` |
| | `OneCharge` | `NoDoubleCharge`, the first conjunct of `ChargedOnce` |
| `MinerProofs` | `Served` | `Serves` |
| | `FilesKept` | `UsedIsKept` |
| | `QueriesPermitted` | `PermissionFollows` |
| `ObserverProofs` | `Indexing` | `IndexedBelow`, for subscriptions from the oldest block |
| | `Forward` | `NeverBack`, for the same |
| `ClientProofs` | `Answers` | `Outcomes` |
| | `Sequences` | `LateRefused` |
| | `Pooled` | `Exclusive` |
| | `Registration` | `Registered`, the first conjunct of `Ring` |
| | `Lookups` | `LookupFails` |

None of these is inductive alone. Each module states its inductive invariant before the
proofs (`IInv`; in `ClientProofs` one for each layer), and has one step for each action in
the proof that a conjunct is kept. TLC checked every invariant on the instance of the module's
run before it was proved, but for the conjuncts that say only that a variable is some
sequence.

**Kayak.** That commits are a prefix needs that each
commit names the one before it (`ChainInv`) and that a follower's `lastCommit` is
the newest of its WAL (`PositionInv`), also half way through recovery. The chain
needs that indexes are allocated once (`AllocInv`), across restarts of the leader
too. Agreement needs that each log belongs to the call of its request, which is
past writing it (`DecisionInv`). What a follower may write needs what its handler
has already done (`HandlerInv`). `KayakInductive`
proves `Spec => []IInv`.

`SkippedByCrash` follows the commits between the newest executed one and `lastCommit`:
there is at most the one in the commit cycle, until a crash makes it a skipped one.
A restart succeeds because a follower stores a log after the logs it refers to
(`ClosedInv`), no two handlers are between the same two steps of one commit log
(`SoleInv`), and `pendingPrepares` has every prepare that no stored log decides, up to a
handler between writing a log and marking it (`PendingInv`); `readLogs` rebuilds that set
log by log (`ReadInv`).

**TwoPC.** A transaction of a storage belongs to one call that is under way, and is gone
only when its context is done (`OwnerInv`). A worker that voted yes holds it until the
batch was dealt with (`PhaseInv`), so a storage that deals with a batch
has dealt with all that were decided before: a later batch could not prepare there.

**SQLChain.** The states of the miners do not matter to the chains. A block has its
producer's turn as its height, and a miner past the start has no block at its next turn
or later (`TurnInv`): a restart passes all turns up to the clock before it produces. A
chain's block has the one before it as its parent (`LinkInv`), and this stays true
between replay and store because only the block processor extends the chain. So a
block that is stored and is already in another chain has the same blocks before it there.

**AckIndex.** The barrier of the index never passes the oldest height that is not
expired (`BarrierInv`), so `advance` drops no response a client may still acknowledge
(`FindInv`); a response is not older than its request (`TimeInv`), so the check by the time
of the response refuses no ack the index can take. An executed query is in one place,
pool, block under production or chain (`PlaceInv`), and the ranges of the accepted bills
follow one another (`BillInv`).

**Miner.** A bus that reads blocks has profiles at least as new (`BusInv`). Every database
announced in a block that is done is in `dbMap` or its `Create` runs (`ServeInv`), and its
billing height is the one at some count after which no billing of it was handled
(`BillInv`). The meta file, and what a `writeMeta` has collected for it, names databases of
`dbMap` only, once `Init` is over (`FileInv`), and a database that is created again is
not in `dbMap`.

**Observer.** A position has only finished blocks below it (`HeadInv`): the worker moves on
when all rows of its block are written (`PullInv`), and a reset during a pull only lowers
the position, so what a late `SavePosition` stores is still below what is finished. A row
that is there leads to a stored block (`IndexInv`). Both theorems assume that subscriptions
begin at the oldest block, as all of the API's do (`src/sqlchain/observer/api.go:365`, `:396`,
`:427`): with "newest" the blocks below the position are not indexed, and are not meant to be.

**Client.** The three layers have no variables in common, and an invariant each.
A write has its thread, unit and place in it, so batches of different units differ
(`BatchInv`); a request under way has the writes of the unit its thread is at, one
that was executed belongs to one unit or call (`CallInv`, `SentInv`, `AppliedInv`), and its
ack is in a channel, with a worker or done (`AcksInv`), which gives `Outcomes`. `LateRefused`
needs only that the number recorded for a connection id is the highest of its recorded
requests, unless two checks at once have lowered it (`SequenceInv`). In the pools a free
connection has no user and is in the list once (`FreeInv`), and an open one is kept
somewhere (`WireInv`). In the directory the table of a producer is its ring with the node
that is being added (`StoreInv`); of the producers that could have told all the time, those
not asked yet still include every one (`AbleInv`), so when none is left to ask there was none.

**Only model-checked.**
- All liveness properties: fairness and `ENABLED` are beyond the prover.
- `Once` and `ReplicaFollowsChain` (`SQLChain`): the replay of a block is a fold over its
  writes; `Conservation`, `BilledOnce` (`MetaState`) and the sums of `ChargedOnce`
  (`AckIndex`): sums over sets; the properties of `BPChain`: the chain of a block is a recursive function;
  `PagesPartition` (`Observer`): pages are filtered in a loop; the neighbors of `Ring`
  (`Directory`): `GetNeighborsEx` is a walk around the ring, a recursive function. What
  folds, filters and recursive functions compute needs induction over data, which the
  installed provers cannot do.
- `BuildsOnLongest` and `ReadYourWrites` (`Producers`, `Wallet`), for which no inductive
  invariant was worked out.

## Not modelled

Parts with status `not_modelled` in `PROJECT.json`: cryptography, encoding and data
types, the explorer front end, utilities. They are functions over bytes, generated
code or user interface.

Within the modelled parts:

- Kayak: `UpdatePeers` and the locks of the runtime. An `UpdatePeers` that waits for
  `peersLock` beside a reader that takes it twice would deadlock
  (`src/kayak/runtime.go:442`), which no run shows.
- Main chain: API node mode, a change of the peer list while running.
- Meta state: `BaseAccount` transactions, token types other than Particle, overflow
  of sums, the empty account a failed transfer leaves with the receiver.
- SQL chain: the block cache, changes of the peer list, bills for several users.
- Miner: the `Deploy` RPC (nothing under `src/` sends it), and with it `Drop` and
  `Update`; asynchronous and once-only subscriptions (used by tests only).
- Observer: the miner a database is pulled from is found once and cached.
- Storage: `Query`, and the index of open storages shared by `openDB` and `Close`.
- Pools: `Remove` and `Close` (tests only), the server side, the ciphers.
- Directory: `Remove`, `Set` and the other lookups of the ring (tests only); of the
  persistence only the one of the key store.
- Client: the peer list updater, the forms of a DSN, `Drop` (sends nothing), the
  console and the other commands of `cql`; what the meta state refuses for other
  reasons than nonces.
