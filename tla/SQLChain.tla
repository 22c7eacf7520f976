---------------------------- MODULE SQLChain ----------------------------
(***************************************************************************)
(* The SQL chain of one database: every miner of the database executes the *)
(* writes on its SQLite file (xenomint.State), pools the queries, and in   *)
(* its turn packs them into a block that the other miners replay           *)
(* (sqlchain.Chain).                                                       *)
(*                                                                         *)
(* A miner runs two goroutines: the main cycle (sync the head, wait for    *)
(* the next turn, produce) and the block processor, fed by the unbuffered  *)
(* channel `blocks' and by `heights'. Sending to `blocks' is a rendezvous. *)
(*                                                                         *)
(* Data: a write is a number of statements, one of which may fail for good *)
(* (FailsAt). The content of the SQLite file is the sequence of statements *)
(* executed on it. A block is known by its position in `mined'.            *)
(***************************************************************************)
EXTENDS Integers, Sequences, FiniteSets, SequencesExt

CONSTANTS Servers,     \* peers.Servers, in order
          Leader,      \* peers.Leader
          Reads, Writes,
          Stmts,       \* the number of statements of a write
          FailsAt,     \* the statement of a request that fails; 0 for none
          DDL,         \* the writes that change the schema
          MaxTx,       \* State.maxTx
          QueryTTL,    \* Config.QueryTTL, in block periods
          Scenarios,   \* configurations of the database, each with its bounds: the
                       \* requests sent, the last block period and the crashes
          Crashable    \* bound: the miners that may crash

Nodes == ToSet(Servers)
Requests == Reads \cup Writes

ASSUME SQLChainAssumption ==
  /\ IsInjective(Servers) /\ Leader \in Nodes
  /\ Reads \cap Writes = {} /\ DDL \subseteq Writes /\ Crashable \subseteq Nodes
  /\ Scenarios \subseteq [eventual : BOOLEAN, dirty : BOOLEAN,
                          requests : SUBSET Requests, until : Nat, crashes : Nat]
  /\ Stmts \in [Writes -> Nat \ {0}]
  /\ FailsAt \in [Requests -> Nat] /\ \A r \in Writes : FailsAt[r] <= Stmts[r]
  /\ {MaxTx, QueryTTL} \subseteq Nat

VARIABLES
  db,        \* the scenario: UseEventualConsistency, IsolationLevel = ReadUncommitted
  now,       \* the block period the clock is in
  issued,    \* the requests executed so far
  unready,   \* those whose tracker never gets its response
  st,        \* xenomint.State of a miner
  order,     \* strong consistency: the writes Kayak committed, in order
  applied,   \* ... and how many of them a miner has executed
  mined,     \* every block produced
  chain,     \* the blocks a miner has stored, from the first after genesis
  nextTurn,  \* runtime.nextTurn
  pc,        \* where the main goroutine of a miner is
  draft,     \* the block it produces
  box,       \* the block the block processor holds, and how far it is
  stash, returning, grown, \* processBlocks: stash, stashes sent back, heights
  net,       \* AdviseNewBlock calls on the way
  crashes, torn \* crashes so far; crashed between replaying and storing a block

stateVars == <<issued, unready, st, order, applied>>
procVars == <<box, stash, returning, grown>>
mainVars == <<nextTurn, pc, draft>>
chainVars == <<mined, chain, net>>
crashVars == <<crashes, torn>>
vars == <<db, now, stateVars, procVars, mainVars, chainVars, crashVars>>

Idle == [block |-> 0, at |-> "idle"]

--------------------------------------------------------------------------
(* xenomint.State *)

EmptyPool == [queries |-> <<>>, reads |-> {}, failed |-> {}]

\* NewState, and SetSeq after a restart: the uncommitted statements are lost.
NewState(file, id) ==
  [data |-> file, saved |-> Len(file), seq |-> id, point |-> 0, schema |-> FALSE,
   altered |-> FALSE, held |-> FALSE, pool |-> EmptyPool]

\* writeSingle for the first k statements of r. Without an open transaction
\* (another isolation level) SQLite commits each of them.
Exec(s, r, k) ==
  LET data == s.data \o [i \in 1..k |-> <<r, i>>] IN
  [s EXCEPT !.data = data,
            !.saved = IF db.dirty THEN @ ELSE Len(data),
            !.seq = @ + k,
            !.schema = @ \/ (k > 0 /\ r \in DDL),
            !.altered = @ \/ (k > 0 /\ r \in DDL)]

\* Mutant: the transaction stays open.
FlushNothing(s) == [s EXCEPT !.point = s.seq, !.schema = FALSE]

\* flushHandler: commitHandler and openHandler.
Flush(s) == [s EXCEPT !.saved = Len(s.data), !.point = s.seq, !.schema = FALSE]

enqueue(s, r, sp) == [s EXCEPT !.pool.queries = Append(@, [req |-> r, sp |-> sp])]

\* State.write. A failed request of several statements is rolled back to its
\* savepoint in an open transaction; the sequence keeps what it had counted.
write(s, r, isLeader) ==
  IF FailsAt[r] # 0
  THEN LET t == Exec(s, r, FailsAt[r] - 1)
       IN  [t EXCEPT !.data = IF db.dirty /\ Stmts[r] > 1 THEN s.data ELSE @,
                     !.pool.failed = @ \cup {r}]
  ELSE LET t == Exec(s, r, Stmts[r])
           u == IF t.seq - t.point > MaxTx \/ t.schema THEN Flush(t) ELSE t
       IN  IF isLeader THEN enqueue(u, r, s.seq) ELSE u

\* The values hasSchemaChange may have had when readTx loaded it, without the
\* lock: the present one, or the one a DDL statement set before its flush.
SchemaSeen(s) == {s.schema, s.altered}

\* State.readTx. With a schema change in the open transaction it takes the lock
\* of the state, and then takes it again to pool the request: nothing that needs
\* the lock goes on (held).
readTx(s, r, schema) ==
  IF db.dirty /\ schema THEN [s EXCEPT !.held = TRUE]
  ELSE IF FailsAt[r] # 0 THEN [s EXCEPT !.pool.failed = @ \cup {r}]
  ELSE [s EXCEPT !.pool.reads = @ \cup {r}]

\* The requests whose trackers are pooled.
Pooled(p) == p.reads \cup {q.req : q \in ToSet(p.queries)}

\* Mutant: the replayed queries stay in the pool.
truncateNothing(s, sp) == s

\* pool.truncate: drop the queries up to the one pooled at sp, if there is one.
truncate(s, sp) ==
  [s EXCEPT !.pool.queries =
     LET at == {i \in DOMAIN @ : @[i].sp = sp}
     IN  IF at = {} THEN @ ELSE SubSeq(@, (CHOOSE i \in at : TRUE) + 1, Len(@))]

\* ReplayBlockWithContext, one write q of the block: acc is the state, the
\* sequence before the last write looked at, and whether an error ended it.
ReplayOne(acc, q) ==
  LET sp == acc.s.seq IN
  IF acc.err THEN acc
  ELSE IF q.sp > sp THEN [acc EXCEPT !.err = TRUE]
  ELSE IF q.sp < sp THEN [acc EXCEPT !.last = sp]
  ELSE [acc EXCEPT !.s = enqueue(Exec(acc.s, q.req, Stmts[q.req]), q.req, sp),
                   !.last = sp]

\* ReplayBlockWithContext
ReplayBlock(s, b) ==
  LET acc == FoldLeft(ReplayOne, [s |-> s, last |-> 0, err |-> FALSE], b.writes)
  IN  IF acc.err THEN acc
      ELSE [acc EXCEPT !.s = truncate([Flush(acc.s) EXCEPT !.pool.failed = @ \ b.failed],
                                      acc.last)]

--------------------------------------------------------------------------
(* Chain and runtime: what a miner reads of its own and of other miners *)

Block(i) == mined[i]
HeadOf(n) == IF chain[n] = <<>> THEN 0 ELSE Last(chain[n])
HeightOf(i) == IF i = 0 THEN 0 ELSE mined[i].height
HeadHeight(n) == HeightOf(HeadOf(n))

\* isMyTurn, and `next' of CheckAndPushNewBlock.
Owner(h) == Servers[(h % Len(Servers)) + 1]

\* The writes of a sequence of blocks, and the id CalcNextID gives for it.
WritesOf(c) == FlattenSeq([i \in DOMAIN c |-> mined[c[i]].writes])
NextId(c) ==
  LET ids == {q.sp + Stmts[q.req] : q \in ToSet(WritesOf(c))}
  IN  IF ids = {} THEN 0 ELSE CHOOSE x \in ids : \A y \in ids : y <= x

\* The chain service answers once Start has returned.
Started(n) == pc[n] # "boot"

\* FetchBlock at p of the height before n's next turn.
Wanted(n) == nextTurn[n] - 1
Found(n, p) ==
  {i \in ToSet(chain[p]) : Started(p) /\ HeightOf(i) = Wanted(n)}
Ahead(n, p) == Started(p) /\ Found(n, p) = {} /\ HeadHeight(p) > Wanted(n)
Behind(n, p) == Found(n, p) = {} /\ ~Ahead(n, p)

\* syncHead: nothing to fetch or a peer went on without a block; a peer has
\* the block; every peer is itself not further (ErrInitiating).
HeadSynced(n) == HeadHeight(n) >= Wanted(n) \/ \E p \in Nodes \ {n} : Ahead(n, p)
Fetchable(n) == IF HeadHeight(n) >= Wanted(n) THEN {}
                ELSE UNION {Found(n, p) : p \in Nodes \ {n}}
Initiating(n) == HeadHeight(n) < Wanted(n) /\ \A p \in Nodes \ {n} : Behind(n, p)

\* The block processor receives block i from `blocks'.
Take(n, i) ==
  /\ box[n] = Idle
  /\ box' = [box EXCEPT ![n] = [block |-> i, at |-> "got"]]

Goto(n, where) == pc' = [pc EXCEPT ![n] = where]

\* An operation of the state, under its lock.
Unlocked(n) == ~st[n].held
SetState(n, s) == Unlocked(n) /\ st' = [st EXCEPT ![n] = s]

--------------------------------------------------------------------------
(* Requests *)

\* Database.Query: after the execution AddResponse refuses a request whose time
\* stamp is below the barrier of the ack index, and UpdateResp is not reached.
Issue(n, r, expired) ==
  /\ r \in db.requests \ issued /\ Started(n) /\ (expired => nextTurn[n] > QueryTTL)
  /\ issued' = issued \cup {r}
  /\ unready' = IF expired THEN unready \cup {r} ELSE unready

\* A write at the leader. With strong consistency Kayak has committed it and
\* the leader is the first to execute it.
Write(r, expired) ==
  /\ Issue(Leader, r, expired)
  /\ SetState(Leader, write(st[Leader], r, TRUE))
  /\ order' = IF db.eventual THEN order ELSE Append(order, r)
  /\ applied' = [applied EXCEPT ![Leader] = Len(order')]
  /\ UNCHANGED <<db, now, procVars, mainVars, chainVars, crashVars>>

\* Database.Commit at a follower of Kayak.
KayakCommit(n) ==
  /\ Started(n) /\ applied[n] < Len(order)
  /\ SetState(n, write(st[n], order[applied[n] + 1], FALSE))
  /\ applied' = [applied EXCEPT ![n] = @ + 1]
  /\ UNCHANGED <<db, now, issued, unready, order, procVars, mainVars, chainVars, crashVars>>

\* A read at any miner.
Read(n, r, expired) ==
  /\ Issue(n, r, expired)
  /\ \E schema \in SchemaSeen(st[n]) : SetState(n, readTx(st[n], r, schema))
  /\ UNCHANGED <<db, now, order, applied, procVars, mainVars, chainVars, crashVars>>

--------------------------------------------------------------------------
(* The main cycle *)

NoDraft == [pool |-> EmptyPool, parent |-> 0]

Tick ==
  /\ now < db.until /\ now' = now + 1
  /\ UNCHANGED <<db, stateVars, procVars, mainVars, chainVars, crashVars>>

\* mainCycle: syncHead has no block to fetch and the next turn has come. (When
\* it has not, the cycle sleeps and starts again.)
SyncHead(n) ==
  /\ pc[n] = "sync" /\ (HeadSynced(n) \/ Initiating(n)) /\ now >= nextTurn[n]
  /\ Goto(n, "turn")
  /\ UNCHANGED <<db, now, stateVars, procVars, nextTurn, draft, chainVars, crashVars>>

\* mainCycle: syncHead fetches the block of the turn before.
SyncBlock(n, i) ==
  /\ pc[n] = "sync" /\ i \in Fetchable(n)
  /\ Take(n, i)
  /\ Goto(n, IF now >= nextTurn[n] THEN "turn" ELSE "sync")
  /\ UNCHANGED <<db, now, stateVars, stash, returning, grown, nextTurn, draft, chainVars, crashVars>>

\* runCurrentTurn, produceBlock: CommitEx.
CommitEx(n) ==
  /\ pc[n] = "turn" /\ now = nextTurn[n] /\ Owner(nextTurn[n]) = n
  /\ SetState(n, [Flush(st[n]) EXCEPT !.pool = EmptyPool])
  /\ draft' = [draft EXCEPT ![n] = [NoDraft EXCEPT !.pool = st[n].pool]]
  /\ Goto(n, IF st[n].pool = EmptyPool THEN "turned" ELSE "pack")
  /\ UNCHANGED <<db, now, issued, unready, order, applied, procVars, nextTurn, chainVars, crashVars>>

\* produceBlock: the header is filled in.
Pack(n) ==
  /\ pc[n] = "pack"
  /\ draft' = [draft EXCEPT ![n].parent = HeadOf(n)]
  /\ Goto(n, "send")
  /\ UNCHANGED <<db, now, stateVars, procVars, nextTurn, chainVars, crashVars>>

\* produceBlock: every tracker is ready; the block goes to the own block
\* processor and is advised to the other miners.
SendBlock(n) ==
  LET d == draft[n] IN
  /\ pc[n] = "send" /\ Pooled(d.pool) \cap unready = {}
  /\ mined' = Append(mined, [height |-> nextTurn[n], producer |-> n, parent |-> d.parent,
                             writes |-> d.pool.queries, reads |-> d.pool.reads,
                             failed |-> d.pool.failed])
  /\ Take(n, Len(mined'))
  /\ net' = net \cup {<<p, Len(mined')>> : p \in Nodes \ {n}}
  /\ draft' = [draft EXCEPT ![n] = NoDraft]
  /\ Goto(n, "turned")
  /\ UNCHANGED <<db, now, stateVars, stash, returning, grown, nextTurn, chain, crashVars>>

\* runCurrentTurn, deferred: stat (which locks the state), IncNextTurn, and
\* heights <- h, which waits while the channel holds an element. The turn was another miner's, or it is too
\* late in the period, or the block is produced.
EndTurn(n) ==
  /\ pc[n] \in {"turn", "turned"} /\ Unlocked(n)
  /\ nextTurn' = [nextTurn EXCEPT ![n] = @ + 1]
  /\ grown' = [grown EXCEPT ![n] = TRUE]
  /\ Goto(n, IF grown[n] THEN "publish" ELSE "sync")
  /\ UNCHANGED <<db, now, stateVars, box, stash, returning, draft, chainVars, crashVars>>

\* heights <- h: there is room again.
Publish(n) ==
  /\ pc[n] = "publish" /\ ~grown[n]
  /\ grown' = [grown EXCEPT ![n] = TRUE]
  /\ Goto(n, "sync")
  /\ UNCHANGED <<db, now, stateVars, box, stash, returning, nextTurn, draft, chainVars, crashVars>>

--------------------------------------------------------------------------
(* processBlocks *)

\* A new height: the stashed blocks go back to `blocks'.
NewHeight(n) ==
  /\ box[n] = Idle /\ grown[n]
  /\ grown' = [grown EXCEPT ![n] = FALSE]
  /\ returning' = [returning EXCEPT ![n] = @ \cup ({stash[n]} \ {<<>>})]
  /\ stash' = [stash EXCEPT ![n] = <<>>]
  /\ UNCHANGED <<db, now, stateVars, box, mainVars, chainVars, crashVars>>

\* AdviseNewBlock reaches a miner.
Advise(n, i) ==
  /\ <<n, i>> \in net /\ Started(n)
  /\ Take(n, i)
  /\ net' = net \ {<<n, i>>}
  /\ UNCHANGED <<db, now, stateVars, stash, returning, grown, mainVars, mined, chain, crashVars>>

\* returnStash sends the next block of a stash.
ReturnStash(n, s) ==
  /\ s \in returning[n]
  /\ Take(n, s[1])
  /\ returning' = [returning EXCEPT ![n] = (@ \ {s}) \cup ({Tail(s)} \ {<<>>})]
  /\ UNCHANGED <<db, now, stateVars, stash, grown, mainVars, chainVars, crashVars>>

Done(n) == box' = [box EXCEPT ![n] = Idle]
Push(n, i) == chain' = [chain EXCEPT ![n] = Append(@, i)]

\* Mutant: the parent is not compared with the head.
ValidUnlinked(n, i) ==
  /\ HeadOf(n) # i
  /\ Block(i).producer \in {n, Owner(nextTurn[n] - 1)}

\* CheckAndPushNewBlock: the block is new, continues the head, and is the
\* miner's own or of the miner whose turn it was.
Valid(n, i) ==
  /\ HeadOf(n) # i
  /\ Block(i).parent = HeadOf(n)
  /\ Block(i).producer \in {n, Owner(nextTurn[n] - 1)}

\* A block of a later turn waits in the stash.
Stash(n) ==
  LET i == box[n].block IN
  /\ box[n].at = "got" /\ Block(i).height > nextTurn[n] - 1
  /\ stash' = [stash EXCEPT ![n] = Append(@, i)]
  /\ Done(n)
  /\ UNCHANGED <<db, now, stateVars, returning, grown, mainVars, chainVars, crashVars>>

\* A block of an earlier turn is dropped, a known or invalid one refused.
Refuse(n) ==
  LET i == box[n].block IN
  /\ box[n].at = "got"
  /\ \/ Block(i).height < nextTurn[n] - 1
     \/ Block(i).height = nextTurn[n] - 1 /\ ~Valid(n, i)
  /\ Done(n)
  /\ UNCHANGED <<db, now, stateVars, stash, returning, grown, mainVars, chainVars, crashVars>>

\* The miner's own block is stored as it is.
PushOwn(n) ==
  LET i == box[n].block IN
  /\ box[n].at = "got" /\ Block(i).height = nextTurn[n] - 1
  /\ Valid(n, i) /\ Block(i).producer = n
  /\ Push(n, i) /\ Done(n)
  /\ UNCHANGED <<db, now, stateVars, stash, returning, grown, mainVars, mined, net, crashVars>>

\* Another miner's block is replayed. What an error leaves executed stays.
Replay(n) ==
  LET i == box[n].block
      acc == ReplayBlock(st[n], Block(i)) IN
  /\ box[n].at = "got" /\ Block(i).height = nextTurn[n] - 1
  /\ Valid(n, i) /\ Block(i).producer # n
  /\ SetState(n, acc.s)
  /\ IF acc.err THEN Done(n) ELSE box' = [box EXCEPT ![n].at = "replayed"]
  /\ UNCHANGED <<db, now, issued, unready, order, applied, stash, returning, grown,
                 mainVars, chainVars, crashVars>>

\* pushBlock after the replay.
PushBlock(n) ==
  /\ box[n].at = "replayed"
  /\ Push(n, box[n].block) /\ Done(n)
  /\ UNCHANGED <<db, now, stateVars, stash, returning, grown, mainVars, mined, net, crashVars>>

--------------------------------------------------------------------------
(* Restart *)

\* NewChain: the sequence is the next id of the stored blocks.
Restarted(s, c) == NewState(SubSeq(s.data, 1, s.saved), NextId(c))

\* A miner crashes, or is stopped (Close does not commit), and NewChain runs.
Crash(n) ==
  /\ n \in Crashable /\ crashes < db.crashes /\ crashes' = crashes + 1
  /\ torn' = [torn EXCEPT ![n] = @ \/ box[n].at = "replayed"]
  /\ st' = [st EXCEPT ![n] = Restarted(@, chain[n])]
  /\ nextTurn' = [nextTurn EXCEPT ![n] = 1]
  /\ draft' = [draft EXCEPT ![n] = NoDraft]
  /\ Goto(n, "boot") /\ Done(n)
  /\ stash' = [stash EXCEPT ![n] = <<>>]
  /\ returning' = [returning EXCEPT ![n] = {}]
  /\ grown' = [grown EXCEPT ![n] = FALSE]
  /\ UNCHANGED <<db, now, issued, unready, order, applied, chainVars>>

\* sync: the turns up to the current period are synchronised one by one.
BehindClock(n) == nextTurn[n] <= now

\* sync: a turn without a block to fetch; all of them, if no peer is further.
BootSkip(n) ==
  /\ pc[n] = "boot" /\ BehindClock(n) /\ (HeadSynced(n) \/ Initiating(n))
  /\ nextTurn' = [nextTurn EXCEPT ![n] = IF Initiating(n) THEN now + 1 ELSE @ + 1]
  /\ UNCHANGED <<db, now, stateVars, procVars, pc, draft, chainVars, crashVars>>

\* sync: a turn whose block a peer has.
BootBlock(n, i) ==
  /\ pc[n] = "boot" /\ BehindClock(n) /\ i \in Fetchable(n)
  /\ Take(n, i)
  /\ nextTurn' = [nextTurn EXCEPT ![n] = @ + 1]
  /\ UNCHANGED <<db, now, stateVars, stash, returning, grown, pc, draft, chainVars, crashVars>>

\* Start: the main cycle and the service start.
Booted(n) ==
  /\ pc[n] = "boot" /\ ~BehindClock(n)
  /\ Goto(n, "sync")
  /\ UNCHANGED <<db, now, stateVars, procVars, nextTurn, draft, chainVars, crashVars>>

--------------------------------------------------------------------------
Init ==
  /\ db \in Scenarios
  /\ now = 0 /\ issued = {} /\ unready = {} /\ order = <<>>
  /\ st = [n \in Nodes |-> NewState(<<>>, 0)] /\ applied = [n \in Nodes |-> 0]
  /\ mined = <<>> /\ chain = [n \in Nodes |-> <<>>] /\ net = {}
  /\ nextTurn = [n \in Nodes |-> 1] /\ pc = [n \in Nodes |-> "sync"]
  /\ draft = [n \in Nodes |-> NoDraft]
  /\ box = [n \in Nodes |-> Idle] /\ stash = [n \in Nodes |-> <<>>]
  /\ returning = [n \in Nodes |-> {}] /\ grown = [n \in Nodes |-> FALSE]
  /\ crashes = 0 /\ torn = [n \in Nodes |-> FALSE]

RequestNext ==
  \E expired \in BOOLEAN :
    \/ \E r \in Writes : Write(r, expired)
    \/ \E n \in Nodes, r \in Reads : Read(n, r, expired)

MainNext(n) ==
  \/ SyncHead(n) \/ CommitEx(n) \/ Pack(n) \/ SendBlock(n) \/ EndTurn(n) \/ Publish(n)
  \/ \E i \in Fetchable(n) : SyncBlock(n, i)

ProcessNext(n) ==
  \/ NewHeight(n) \/ Stash(n) \/ Refuse(n) \/ PushOwn(n) \/ Replay(n) \/ PushBlock(n)
  \/ \E m \in net : Advise(n, m[2])
  \/ \E s \in returning[n] : ReturnStash(n, s)

RestartNext(n) ==
  \/ Crash(n) \/ BootSkip(n) \/ Booted(n)
  \/ \E i \in Fetchable(n) : BootBlock(n, i)

Next ==
  \/ RequestNext
  \/ Tick
  \/ \E n \in Nodes : KayakCommit(n) \/ MainNext(n) \/ ProcessNext(n) \/ RestartNext(n)

Spec == Init /\ [][Next]_vars

--------------------------------------------------------------------------
(* Properties *)

\* No two blocks have the same height: a miner does not produce a second block
\* in a turn, also when it restarts in the middle of it (sync). Two miners that
\* store the same block store the same blocks before it (CheckAndPushNewBlock).
ChainsMatch ==
  /\ \A i, j \in DOMAIN mined : mined[i].height = mined[j].height => i = j
  /\ \A n, m \in Nodes : \A i \in DOMAIN chain[n], j \in DOMAIN chain[m] :
       chain[n][i] = chain[m][j] => SubSeq(chain[n], 1, i) = SubSeq(chain[m], 1, j)

\* No chain holds a write twice: a replayed write leaves the pool of the miner
\* that replayed it (ReplayBlock), a packed one the pool of the producer. And
\* with eventual consistency and without a crash no miner executes a statement
\* twice, however often and in whatever order blocks reach it.
Once ==
  /\ \A n \in Nodes : LET w == WritesOf(chain[n])
                      IN  \A i, j \in DOMAIN w : w[i].req = w[j].req => i = j
  /\ db.eventual /\ crashes = 0 => \A n \in Nodes : IsInjective(st[n].data)

\* With eventual consistency the SQLite file of a miner other than the leader
\* begins with the writes of its chain, in order and committed, also after a
\* crash (ReplayBlock commits before the block is stored). A crash between
\* the two may execute a block twice.
ReplicaFollowsChain ==
  \A n \in Nodes \ {Leader} :
    LET w == WritesOf(chain[n])
        done == FlattenSeq([i \in DOMAIN w |-> [k \in 1..Stmts[w[i].req] |-> <<w[i].req, k>>]])
    IN  db.eventual /\ ~torn[n] => IsPrefix(done, SubSeq(st[n].data, 1, st[n].saved))

=============================================================================
