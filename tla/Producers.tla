----------------------------- MODULE Producers -----------------------------
(***************************************************************************)
(* Several block producers and what travels between them                   *)
(* (src/blockproducer/chain.go, chain_gossip.go, rpc.go).                  *)
(*                                                                         *)
(*   mainCycle      asks the others for the block of the height that ends, *)
(*                  then enters the next one and produces in its turn      *)
(*   processBlocks  applies the blocks that were advised or fetched        *)
(*   processTxs     checks, broadcasts and stores one transaction a time   *)
(*                                                                         *)
(* What one chain makes of a block is module BPChain's subject; here it is *)
(* the tree of blocks on the branches, the head and the last irreversible  *)
(* block. A block is named by its height, which belongs to one producer.   *)
(* All transactions are of one account, and only their nonces can make     *)
(* them fail.                                                              *)
(***************************************************************************)
EXTENDS Integers, FiniteSets, FiniteSetsExt

CONSTANT
  MaxPending   \* conf.MaxPendingTxsPerAccount

ASSUME ProducersAssumption == MaxPending \in Nat

VARIABLES
  total,    \* how many block producers there are
  last,     \* bound on the heights
  lag,      \* bound on the heights a producer or a block is late
  now,      \* the height of the current time
  made,     \* blocks produced by anyone: height -> [chain, txs]
  bp,       \* the chain of each producer, see Started
  advice,   \* AdviseNewBlock calls under way: [to, block]
  adding,   \* AddTx calls waiting in addTx: [to, tx, ttl, from]
  strays,   \* history: blocks whose producer did not build on a longest chain
  aborts,   \* history: fetched blocks that processBlocks did not take in time
  faults    \* calls that may still fail

bpVars == <<total, last, lag, now, made, bp, advice, adding, strays, aborts, faults>>

Genesis == 0
None == [none |-> TRUE]
Producer == 0..(total - 1)

--------------------------------------------------------------------------
(* Blocks, over the block table m *)

\* The block b and its ancestors, which a blockNode reaches by its parents.
Chain(m, b) == m[b].chain

Count(m, b) == Cardinality(Chain(m, b)) - 1

TxsOn(m, b) == UNION {m[x].txs : x \in Chain(m, b)}

\* The account's next nonce after block b.
NextNonce(m, b) == Cardinality(TxsOn(m, b))

\* The transactions txs carry the nonces from n on.
Applies(n, txs) ==
  {t.nonce : t \in txs} = n..(n + Cardinality(txs) - 1)

\* NewChain: the blocks that must follow one before it is irreversible, which
\* are also the producers that must be in reach (this one counted).
Confirms == Min({(2 * total + 2) \div 3 + 1, total})

\* The last irreversible block of the chain that ends in b.
lastIrreversible(m, b) ==
  LET k == Max({Count(m, b) - Confirms, 0})
  IN  CHOOSE x \in Chain(m, b) : Cardinality({y \in Chain(m, b) : y < x}) = k

--------------------------------------------------------------------------
(* One producer's chain *)

\* Start, with nothing stored. The height is that of the time already.
Started ==
  [next   |-> 1,           \* Chain.nextHeight
   synced |-> FALSE,       \* mainCycle has asked for the last block
   tree   |-> {Genesis},   \* the blocks on Chain.branches
   head   |-> Genesis,
   irre   |-> Genesis,     \* Chain.lastIrre
   pool   |-> {},          \* Chain.txPool
   index  |-> {},          \* indexed_transactions
   pushing |-> {},         \* the fetched block processBlocks has taken
   doing  |-> None]        \* the request processTxs works on

ProducersInit ==
  /\ now = 0
  /\ made = [b \in {Genesis} |-> [chain |-> {Genesis}, txs |-> {}]]
  /\ bp = [p \in Producer |-> Started]
  /\ advice = {} /\ adding = {} /\ strays = 0 /\ aborts = 0

\* getRemoteBPInfos: every producer but p.
Remotes(p) == Producer \ {p}

\* replaceAndSwitchToBranch: block b becomes the head of chain c. Transactions
\* that are irreversible now or whose nonce has passed leave the pool, and
\* branches without the new irreversible block are pruned.
Switched(m, c, b) ==
  LET irre == lastIrreversible(m, b)
  IN  [c EXCEPT
         !.head = b,
         !.irre = irre,
         !.tree = {x \in @ \union {b} :
                     irre \in Chain(m, x) \/ x \in Chain(m, irre)},
         !.pool = {t \in @ \ TxsOn(m, irre) : t.nonce >= NextNonce(m, irre)},
         !.index = @ \union m[b].txs]

\* applyBlock: a block that is known, that does not fit, or that has no parent
\* on a branch above the irreversible block changes nothing.
Applied(c, b) ==
  LET parent == Max(Chain(made, b) \ {b})
  IN  IF \/ b \in c.tree
         \/ parent \notin c.tree \/ c.irre \notin Chain(made, parent)
         \/ ~Applies(NextNonce(made, parent), made[b].txs)
      THEN c
      ELSE IF Count(made, b) > Count(made, c.head) THEN Switched(made, c, b)
      ELSE [c EXCEPT !.tree = @ \union {b}]

Unpacked(c) == c.pool \ TxsOn(made, c.head)

\* branch.produceBlock: what it may pack. Of two with the same nonce the first
\* in an order that is not fixed applies.
Packs(c) ==
  LET n == NextNonce(made, c.head)
  IN  {txs \in SUBSET Unpacked(c) :
         /\ Applies(n, txs)
         /\ ~\E t \in Unpacked(c) : t.nonce = n + Cardinality(txs)}

--------------------------------------------------------------------------
(* Blocks *)

\* pushBlock.
Pushed(c, b) == Applied(c, b)

\* AdviseNewBlock reaches its producer, waits for processBlocks, and is applied.
AdviseNewBlock ==
  \E a \in advice :
    /\ bp[a.to].pushing = {}
    /\ bp' = [bp EXCEPT ![a.to] = Pushed(@, a.block)]
    /\ advice' = advice \ {a}
    /\ UNCHANGED <<total, last, lag, now, made, adding, strays, aborts, faults>>

\* The call fails: a broadcast is not repeated.
AdviceLost ==
  \E a \in advice :
    /\ faults > 0 /\ faults' = faults - 1
    /\ advice' = advice \ {a}
    /\ UNCHANGED <<total, last, lag, now, made, bp, adding, strays, aborts>>

\* processBlocks applies the block that it was handed.
processBlocks(p) ==
  \E b \in bp[p].pushing :
    /\ bp' = [bp EXCEPT ![p] = Pushed([@ EXCEPT !.pushing = {}], b)]
    /\ UNCHANGED <<total, last, lag, now, made, advice, adding, strays, aborts, faults>>

\* Mutant: only irreversible blocks are given away.
FetchBlockOld(q, h) == h \in Chain(made, bp[q].irre)

\* FetchBlock at producer q: whether its head branch has a block of height h.
FetchBlock(q, h) == h \in Chain(made, bp[q].head)

\* Mutant: mainCycle goes on without those out of reach.
EnoughAlone(p, reach) == TRUE

\* Whether the answers of the producers reach are enough to go on with.
Enough(p, reach) == Cardinality(Remotes(p) \ reach) + Confirms <= total

\* What n copies of block h, handed to processBlocks one after the other, make
\* of chain c when the last one has been taken and not been applied yet.
Handed(c, h, n) ==
  IF n = 0 THEN c
  ELSE [IF n = 1 THEN c ELSE Pushed(c, h) EXCEPT !.pushing = {h}]

\* syncCurrentHead before the next height: unless the head is as high already,
\* blockingFetchBlock asks the others for the block of the height that ends. Each
\* answer is handed to processBlocks, or dropped when that is busy for a tick.
\* mainCycle asks again every tick until enough are in reach. Only what it
\* learns once the next height has come counts for entering it.
syncCurrentHead(p) ==
  LET c == bp[p]
      h == c.next - 1
  IN  \/ /\ c.head >= h /\ c.next <= now
         /\ bp' = [bp EXCEPT ![p].synced = TRUE]
         /\ UNCHANGED <<aborts, faults>>
      \/ /\ c.head < h
         /\ \E reach \in SUBSET Remotes(p) :
              LET found  == Cardinality({q \in reach : FetchBlock(q, h)})
                  missed == Cardinality(Remotes(p) \ reach)
              IN  \E taken \in 0..found :
                    /\ taken > 0 => c.pushing = {}
                    /\ faults' = faults - missed - (found - taken) /\ faults' >= 0
                    /\ aborts' = aborts + found - taken
                    /\ bp' = [bp EXCEPT ![p] =
                         [Handed(c, h, taken) EXCEPT
                            !.synced = Enough(p, reach) /\ c.next <= now]]

Sync(p) ==
  /\ ~bp[p].synced /\ syncCurrentHead(p)
  /\ UNCHANGED <<total, last, lag, now, made, advice, adding, strays>>

--------------------------------------------------------------------------
(* Heights *)

\* nextTick: the time of the next height comes.
Tick ==
  /\ now < last
  /\ \A p \in Producer :
       bp[p].next + lag > now /\ \A b \in bp[p].pushing : b + lag > now
  /\ \A a \in advice : a.block + lag > now
  /\ now' = now + 1
  /\ UNCHANGED <<total, last, lag, made, bp, advice, adding, strays, aborts, faults>>

isMyTurn(p) == bp[p].next % total = p

\* increaseNextHeight.
Entered(c) == [c EXCEPT !.next = @ + 1, !.synced = FALSE]

\* advanceNextHeight in this producer's turn: produceBlock on the head, and
\* nonblockingBroadcastBlock to the others.
Produce(p) ==
  LET c == bp[p]
      b == c.next
  IN  /\ c.synced /\ b = now /\ isMyTurn(p)
      /\ \E txs \in Packs(c) :
           LET m == [h \in DOMAIN made \union {b} |->
                       IF h # b THEN made[h]
                       ELSE [chain |-> Chain(made, c.head) \union {b}, txs |-> txs]]
           IN  /\ made' = m
               /\ bp' = [bp EXCEPT ![p] = Entered(Switched(m, c, b))]
      /\ advice' = advice \union {[to |-> q, block |-> b] : q \in Remotes(p)}
      /\ strays' = IF \E x \in DOMAIN made : Count(made, x) > Count(made, c.head)
                   THEN strays + 1 ELSE strays
      /\ UNCHANGED <<total, last, lag, now, adding, aborts, faults>>

\* advanceNextHeight without a block: the turn is another's, or it is too late.
Enter(p) ==
  /\ bp[p].synced
  /\ \/ ~isMyTurn(p)
     \/ bp[p].next < now
     \/ faults > 0
  /\ faults' = IF isMyTurn(p) /\ bp[p].next = now THEN faults - 1 ELSE faults
  /\ bp' = [bp EXCEPT ![p] = Entered(@)]
  /\ UNCHANGED <<total, last, lag, now, made, advice, adding, strays, aborts>>

--------------------------------------------------------------------------
(* Transactions *)

\* processTxs takes the request r: the AddTx call returns now, before the
\* request is looked at.
Take(r) ==
  /\ r \in adding
  /\ bp[r.to].doing = None
  /\ adding' = adding \ {r}
  /\ bp' = [bp EXCEPT ![r.to].doing = r]

\* processAddTxReq: a transaction that is new and whose nonce is in the window
\* above the immutable state's.
Acceptable(c, tx) ==
  LET base == NextNonce(made, c.irre)
  IN  tx \notin c.pool /\ tx.nonce \in base..(base + MaxPending - 1)

MaxTxBroadcastTTL == 1

\* It is broadcast, or refused.
processAddTxReq(p) ==
  LET r   == bp[p].doing
      ttl == Min({r.ttl, MaxTxBroadcastTTL})
  IN  /\ r # None /\ ~r.checked
      /\ IF Acceptable(bp[p], r.tx)
         THEN /\ bp' = [bp EXCEPT ![p].doing.checked = TRUE]
              /\ adding' = IF ttl = 0 THEN adding
                           ELSE adding \union
                                {[to |-> q, tx |-> r.tx, ttl |-> ttl - 1, from |-> "bp",
                                  checked |-> FALSE] : q \in Remotes(p)}
         ELSE bp' = [bp EXCEPT ![p].doing = None] /\ UNCHANGED adding
      /\ UNCHANGED <<total, last, lag, now, made, advice, strays, aborts, faults>>

\* storeTx, under another hold of the lock.
storeTx(p) ==
  /\ bp[p].doing # None /\ bp[p].doing.checked
  /\ bp' = [bp EXCEPT ![p].pool = @ \union {bp[p].doing.tx}, ![p].doing = None]
  /\ UNCHANGED <<total, last, lag, now, made, advice, adding, strays, aborts, faults>>

processTxs(p) == processAddTxReq(p) \/ storeTx(p)

\* A broadcast of a transaction fails, or reaches its producer.
TxLost ==
  \E r \in adding :
    /\ r.from = "bp"
    /\ faults > 0 /\ faults' = faults - 1
    /\ adding' = adding \ {r}
    /\ UNCHANGED <<total, last, lag, now, made, bp, advice, strays, aborts>>

TxArrives ==
  \E r \in adding :
    /\ r.from = "bp"
    /\ Take(r)
    /\ UNCHANGED <<total, last, lag, now, made, advice, strays, aborts, faults>>

--------------------------------------------------------------------------
(* What a producer answers *)

\* NextAccountNonce: of the head, transactions in the pool do not count.
NextAccountNonce(p) == NextNonce(made, bp[p].head)

\* Mutant: the index is asked before the head branch.
QueryTxStateIndex(p, tx) ==
  LET c == bp[p]
  IN  IF tx \in c.index THEN "confirmed"
      ELSE IF tx \in Unpacked(c) THEN "pending"
      ELSE IF tx \in TxsOn(made, c.head) \ TxsOn(made, c.irre) THEN "packed"
      ELSE "not found"

\* QueryTxState: the head branch is asked first, then the index.
QueryTxState(p, tx) ==
  LET c == bp[p]
  IN  IF tx \in Unpacked(c) THEN "pending"
      ELSE IF tx \in TxsOn(made, c.head) \ TxsOn(made, c.irre) THEN "packed"
      ELSE IF tx \in c.index THEN "confirmed"
      ELSE "not found"

\* The immutable state, which balances and profiles are read from.
Immutable(p) == TxsOn(made, bp[p].irre)

\* The databases of the account.
queryAccountSQLChainProfiles(p) == {t \in Immutable(p) : t.kind = "create"}

\* QuerySQLChainProfile: the transaction that created database n, if any.
QuerySQLChainProfile(p, n) ==
  {t \in queryAccountSQLChainProfiles(p) : t.nonce = n}

--------------------------------------------------------------------------
mainCycle(p) == Sync(p) \/ Produce(p) \/ Enter(p)

ProducerStep(p) == mainCycle(p) \/ processBlocks(p) \/ processTxs(p)

ProducersNext ==
  \/ Tick \/ AdviseNewBlock \/ AdviceLost \/ TxLost \/ TxArrives
  \/ \E p \in Producer : ProducerStep(p)
=============================================================================
