------------------------------- MODULE BPChain -------------------------------
(***************************************************************************)
(* One block producer's main chain (src/blockproducer): the branches above *)
(* the last irreversible block, the transaction pool, the SQLite storage   *)
(* and the rebuild of the former from the latter on a restart.             *)
(*                                                                         *)
(*   mainCycle      advances nextHeight and produces a block in its turn   *)
(*   processBlocks  applies the blocks other producers broadcast           *)
(*   processTxs     checks a transaction, then stores it in the pool       *)
(*                                                                         *)
(* A height belongs to one producer (isMyTurn), which produces at most one *)
(* block in it, so a block is named by its height.  The other producers    *)
(* are the environment: they build on any block and pack any transactions, *)
(* and their blocks arrive in any order, any number of times, or never.    *)
(* Of the meta state only the account nonces are kept.                     *)
(***************************************************************************)
EXTENDS Integers, FiniteSets, Sequences, SequencesExt

CONSTANTS
  Accounts,     \* account addresses, as numbers: produceBlock sorts by them
  Txs,          \* transactions: records [account, nonce, id]
  Confirms,     \* values Chain.confirms may have, one chosen at each start
  Total,        \* localBPInfo.total
  Rank,         \* localBPInfo.rank
  MaxPack,      \* conf.MaxTransactionsPerBlock
  MaxPending,   \* conf.MaxPendingTxsPerAccount
  MaxHeight,    \* bound on the heights
  MaxRestarts   \* bound on crashes followed by a restart

ASSUME BPChainAssumption ==
  /\ Accounts \subseteq Nat /\ IsFiniteSet(Accounts)
  /\ Txs \subseteq [account : Accounts, nonce : Nat, id : Nat]
  /\ IsFiniteSet(Txs)
  /\ Confirms \subseteq Nat \ {0} /\ Confirms # {}
  /\ Total \in Nat \ {0} /\ Rank \in 0..(Total - 1)
  /\ MaxPack \in Nat \ {0} /\ MaxPending \in Nat
  /\ MaxHeight \in Nat /\ MaxRestarts \in Nat

VARIABLES
  made,        \* blocks produced by anyone: height -> [parent, count, txs]
  fatal,       \* whether the process ended in log.Fatal
  confirms,    \* Chain.confirms
  nextHeight,  \* Chain.nextHeight, one above the height of the current time
  lastIrre,    \* Chain.lastIrre
  immutable,   \* Chain.immutable: next nonce of each account
  branches,    \* Chain.branches: head -> [packed, unpacked, preview]
  headBranch,  \* head of Chain.headBranch
  txPool,      \* Chain.txPool
  request,     \* transactions processTxs has checked and not yet stored
  disk,        \* storage: [blocks (by rowid), irre, accounts, pool, index]
  restarts

world  == <<made, nextHeight>>
config == <<confirms, restarts>>
memory == <<lastIrre, immutable, branches, headBranch, txPool>>
vars   == <<made, fatal, confirms, nextHeight, lastIrre, immutable,
            branches, headBranch, txPool, request, disk, restarts>>

Genesis == 0
Heights == 0..MaxHeight

-----------------------------------------------------------------------------
(***************************************************************************)
(* Block nodes, over the block table m.                                    *)
(***************************************************************************)
\* The block b and its ancestors.
Chain(m, b) ==
  LET chain[x \in Heights] ==
        IF x = Genesis THEN {x} ELSE {x} \cup chain[m[x].parent]
  IN  chain[b]

count(m, b) == m[b].count

hasAncestor(m, b, anc) == anc \in Chain(m, b)

\* The ancestor of b that has at most n blocks of b's chain above it.
lastIrreversible(m, b, n) ==
  LET c == count(m, b)
      k == IF c > n THEN c - n ELSE 0
  IN  CHOOSE x \in Chain(m, b) : count(m, x) = k

\* The blocks of b's chain counted from `from' on, lowest first.
fetchNodeList(m, b, from) ==
  SetToSortSeq({x \in Chain(m, b) : count(m, x) >= from}, <)

TxsOf(m, list) == FlattenSeq([i \in DOMAIN list |-> m[list[i]].txs])

\* The transactions of b's chain above block base, in order.
TxsAbove(m, b, base) == TxsOf(m, fetchNodeList(m, b, count(m, base) + 1))

-----------------------------------------------------------------------------
(***************************************************************************)
(* metaState.apply over a sequence of transactions: each must carry the    *)
(* next nonce of its account, which it increases.                          *)
(***************************************************************************)
Earlier(txs, i) == {j \in 1..(i - 1) : txs[j].account = txs[i].account}

Applies(state, txs) ==
  \A i \in DOMAIN txs :
    txs[i].nonce = state[txs[i].account] + Cardinality(Earlier(txs, i))

After(state, txs) ==
  [a \in Accounts |->
     state[a] + Cardinality({i \in DOMAIN txs : txs[i].account = a})]

Distinct(txs) == Cardinality(ToSet(txs)) = Len(txs)

\* branch.applyBlock: whether the block's transactions fit on branch br, and
\* the branch they make of it.
Fits(br, txs) ==
  /\ Len(txs) <= MaxPack
  /\ Distinct(txs)
  /\ ToSet(txs) \cap br.packed = {}
  /\ Applies(br.preview, txs)

\* Mutant: the preview is not advanced by the block.
GrownStale(br, txs) ==
  [packed   |-> br.packed \cup ToSet(txs),
   unpacked |-> br.unpacked \ ToSet(txs),
   preview  |-> br.preview]

Grown(br, txs) ==
  [packed   |-> br.packed \cup ToSet(txs),
   unpacked |-> br.unpacked \ ToSet(txs),
   preview  |-> After(br.preview, txs)]

\* newBranch(base, head, state, pool): whether it succeeds, and its result.
CanBranch(m, base, head, state) ==
  LET list == fetchNodeList(m, head, count(m, base) + 1)
      txs  == TxsOf(m, list)
  IN  /\ \A i \in DOMAIN list : Len(m[list[i]].txs) <= MaxPack
      /\ Distinct(txs)
      /\ Applies(state, txs)

newBranch(m, base, head, state, pool) ==
  Grown([packed |-> {}, unpacked |-> pool, preview |-> state],
        TxsAbove(m, head, base))

\* branch.produceBlock: the transactions it may pack from the set pool, walked
\* in the order of sortUnpackedTxs.  One that does not apply is skipped; the
\* order of two with the same account and nonce is not fixed.
Before(s, t) ==
  \/ s.account < t.account
  \/ s.account = t.account /\ s.nonce < t.nonce

Packs(state, pool) ==
  LET Full(txs, t) == /\ Len(txs) = MaxPack
                      /\ t.account >= txs[MaxPack].account
  IN  {txs \in {SetToSortSeq(S, Before) : S \in SUBSET pool} :
         /\ Applies(state, txs)
         /\ Len(txs) <= MaxPack
         /\ \A t \in pool \ ToSet(txs) :
              t.nonce = After(state, txs)[t.account] => Full(txs, t)}

-----------------------------------------------------------------------------
(***************************************************************************)
(* Storage: one SQL transaction per critical section of the chain lock, so *)
(* that a crash leaves all of its changes or none.                         *)
(***************************************************************************)
\* addBlock: INSERT OR REPLACE, a replaced row gets a new rowid.
addBlock(d, b) == [d EXCEPT !.blocks = Append(SelectSeq(@, LAMBDA x : x # b), b)]

\* loadBlocks reads the rows by rowid and needs every parent before its child.
Loadable(d) ==
  \A i \in DOMAIN d.blocks :
    \/ d.blocks[i] = Genesis
    \/ \E j \in 1..(i - 1) : d.blocks[j] = made[d.blocks[i]].parent

\* The heads loadBlocks finds: blocks that are the parent of no other.
Heads(d) ==
  {b \in ToSet(d.blocks) :
     ~\E x \in ToSet(d.blocks) \ {Genesis} : made[x].parent = b}

\* What else is loaded: the last irreversible block, the accounts of the immutable
\* state, and the pool.
loadIrreHash(d) == d.irre
loadAndCacheAccounts(d) == d.accounts
loadTxPool(d) == d.pool

loadDatabase(d) ==
  [irre |-> loadIrreHash(d), heads |-> Heads(d), immutable |-> loadAndCacheAccounts(d),
   txPool |-> loadTxPool(d)]

\* The branches NewChain rebuilds from storage.
Rebuilt(d) ==
  LET l == loadDatabase(d) IN
  [h \in {x \in l.heads : hasAncestor(made, x, l.irre)} |->
     newBranch(made, l.irre, h, l.immutable, l.txPool)]

Longest(brs) ==
  {h \in DOMAIN brs : \A x \in DOMAIN brs : count(made, x) <= count(made, h)}

NoNonce == [a \in Accounts |-> 0]

Init ==
  /\ made = [b \in {Genesis} |-> [parent |-> Genesis, count |-> 0, txs |-> <<>>]]
  /\ fatal = FALSE
  /\ confirms \in Confirms
  /\ nextHeight = 1
  /\ disk = [blocks |-> <<Genesis>>, irre |-> Genesis, accounts |-> NoNonce,
             pool |-> {}, index |-> {}]
  /\ lastIrre = Genesis
  /\ immutable = NoNonce
  /\ branches = Rebuilt(disk)
  /\ headBranch = Genesis
  /\ txPool = {}
  /\ request = {}
  /\ restarts = 0

-----------------------------------------------------------------------------
\* The block table with a new block of height b.
newBlock(b, parent, txs) ==
  [h \in DOMAIN made \cup {b} |->
     IF h = b
     THEN [parent |-> parent, count |-> count(made, parent) + 1, txs |-> txs]
     ELSE made[h]]

\* The branches that survive pruning.
Kept(m, origin, irre) ==
  {h \in DOMAIN branches \ {origin} : hasAncestor(m, h, irre)}

\* Mutant: the irreversible block is not stored.
SwitchedWithoutIrre(d, b, irre, state, gone) ==
  [addBlock(d, b) EXCEPT
     !.accounts = state, !.pool = @ \ gone, !.index = @ \cup {b}]

\* What the storage procedures of a branch switch make of d: the changes of the
\* immutable state, the block and its index, the transactions that are gone
\* from the pool, the irreversible block.
Switched(d, b, irre, state, gone) ==
  [addBlock(d, b) EXCEPT
     !.irre = irre, !.accounts = state, !.pool = @ \ gone, !.index = @ \cup {b}]

\* replaceAndSwitchToBranch: block b, the head of branch br, takes the place of
\* branch origin and br becomes the head branch.  Blocks of br that are now
\* irreversible go to the immutable state; their transactions and the ones
\* whose nonce has passed leave the pool; branches that do not hold the new
\* irreversible block are pruned.
replaceAndSwitchToBranch(m, b, origin, br) ==
  LET irre      == lastIrreversible(m, b, confirms)
      newIrres  == TxsAbove(m, irre, lastIrre)
      confirmed == ToSet(newIrres)
      state     == After(immutable, newIrres)
      expired   == {t \in txPool \ confirmed : t.nonce < state[t.account]}
      Clear(r)  == [r EXCEPT !.packed = @ \ confirmed, !.unpacked = @ \ expired]
  IN  IF Applies(immutable, newIrres)
      THEN /\ lastIrre' = irre
           /\ immutable' = state
           /\ branches' = [h \in Kept(m, origin, irre) \cup {b} |->
                             Clear(IF h = b THEN br ELSE branches[h])]
           /\ headBranch' = b
           /\ txPool' = (txPool \ confirmed) \ expired
           /\ disk' = Switched(disk, b, irre, state, confirmed \cup expired)
           /\ made' = m
           /\ UNCHANGED fatal
      ELSE /\ fatal' = TRUE  \* log.Fatal
           /\ UNCHANGED <<memory, disk, made>>

\* produceAndStoreBlock, called by advanceNextHeight in this producer's turn.
ProduceBlock ==
  /\ ~fatal /\ nextHeight <= MaxHeight
  /\ nextHeight % Total = Rank
  /\ \E txs \in Packs(branches[headBranch].preview,
                      branches[headBranch].unpacked) :
       replaceAndSwitchToBranch(newBlock(nextHeight, headBranch, txs), nextHeight,
                                headBranch, Grown(branches[headBranch], txs))
  /\ nextHeight' = nextHeight + 1
  /\ UNCHANGED <<request, config>>

\* advanceNextHeight without a block: not this producer's turn, too much time
\* elapsed, or the block could not be signed or stored.  A height that passes
\* while the process is down, or busy with blockingSyncCurrentHead, is skipped
\* too (syncHeads).
SkipHeight ==
  /\ nextHeight <= MaxHeight
  /\ nextHeight' = nextHeight + 1
  /\ UNCHANGED <<made, fatal, memory, request, disk, config>>

-----------------------------------------------------------------------------
(***************************************************************************)
(* applyBlock on a block another producer made.  A block that is known, or *)
(* that does not fit, or whose parent is on no branch, changes nothing.    *)
(***************************************************************************)
\* The branch that block b grows.
GrowBranch(b) ==
  LET parent == made[b].parent
      br     == Grown(branches[parent], made[b].txs)
  IN  /\ parent \in DOMAIN branches
      /\ Fits(branches[parent], made[b].txs)
      /\ IF count(made, b) <= count(made, headBranch)
         THEN /\ branches' = [h \in (DOMAIN branches \ {parent}) \cup {b} |->
                                IF h = b THEN br ELSE branches[h]]
              /\ disk' = addBlock(disk, b)
              /\ UNCHANGED <<made, fatal, lastIrre, immutable, headBranch, txPool>>
         ELSE replaceAndSwitchToBranch(made, b, parent, br)

\* The branch that block b makes beside an existing one.
ForkBranch(b) ==
  LET parent == made[b].parent
  IN  /\ parent \notin DOMAIN branches
      /\ \A h \in DOMAIN branches : b \notin Chain(made, h)
      /\ \E h \in DOMAIN branches :
           /\ parent \in Chain(made, h)
           /\ count(made, parent) >= count(made, lastIrre)
      /\ CanBranch(made, lastIrre, b, immutable)
      /\ branches' = [h \in DOMAIN branches \cup {b} |->
                        IF h = b
                        THEN newBranch(made, lastIrre, b, immutable, txPool)
                        ELSE branches[h]]
      /\ disk' = addBlock(disk, b)
      /\ UNCHANGED <<made, fatal, lastIrre, immutable, headBranch, txPool>>

ApplyBlock(b) ==
  /\ ~fatal
  /\ GrowBranch(b) \/ ForkBranch(b)
  /\ UNCHANGED <<nextHeight, request, config>>

-----------------------------------------------------------------------------
(***************************************************************************)
(* processAddTxReq: the checks and storeTx take the chain lock separately. *)
(***************************************************************************)
CheckTx(t) ==
  /\ ~fatal /\ request = {}
  /\ t \notin txPool
  /\ t.nonce >= immutable[t.account]
  /\ t.nonce < immutable[t.account] + MaxPending
  /\ request' = {t}
  /\ UNCHANGED <<world, fatal, memory, disk, config>>

\* Mutant: addTx does not look at the packed transactions.
StoreTxPackedToo(t) ==
  /\ ~fatal /\ t \in request
  /\ request' = {}
  /\ txPool' = txPool \cup {t}
  /\ branches' = [h \in DOMAIN branches |->
                    [branches[h] EXCEPT !.unpacked = @ \cup {t}]]
  /\ disk' = [disk EXCEPT !.pool = @ \cup {t}]
  /\ UNCHANGED <<world, fatal, lastIrre, immutable, headBranch, config>>

StoreTx(t) ==
  /\ ~fatal /\ t \in request
  /\ request' = {}
  /\ txPool' = txPool \cup {t}
  /\ branches' = [h \in DOMAIN branches |->
                    IF t \in branches[h].packed THEN branches[h]
                    ELSE [branches[h] EXCEPT !.unpacked = @ \cup {t}]]
  /\ disk' = [disk EXCEPT !.pool = @ \cup {t}]
  /\ UNCHANGED <<world, fatal, lastIrre, immutable, headBranch, config>>

-----------------------------------------------------------------------------
\* The process ends anywhere and NewChain starts it again from storage, with the
\* peer list of its configuration; syncHeads brings nextHeight to where it was.
Restart ==
  /\ restarts < MaxRestarts
  /\ Loadable(disk)
  /\ LET l == loadDatabase(disk) IN
     /\ \A h \in DOMAIN Rebuilt(disk) : CanBranch(made, l.irre, h, l.immutable)
     /\ lastIrre' = l.irre
     /\ immutable' = l.immutable
     /\ txPool' = l.txPool
  /\ branches' = Rebuilt(disk)
  /\ headBranch' \in Longest(Rebuilt(disk))
  /\ confirms' \in Confirms
  /\ request' = {}
  /\ fatal' = FALSE
  /\ restarts' = restarts + 1
  /\ UNCHANGED <<world, disk>>

\* Another producer makes the block of the current height, on any block, from
\* any transactions it may have in its pool.
RemoteProduce ==
  /\ (nextHeight - 1) % Total # Rank
  /\ nextHeight - 1 \notin DOMAIN made
  /\ \E parent \in DOMAIN made, pool \in SUBSET Txs :
     \E txs \in Packs(After(NoNonce, TxsAbove(made, parent, Genesis)), pool) :
       made' = newBlock(nextHeight - 1, parent, txs)
  /\ UNCHANGED <<fatal, nextHeight, memory, request, disk, config>>

Next ==
  \/ ProduceBlock
  \/ SkipHeight
  \/ \E b \in DOMAIN made \ {Genesis} : ApplyBlock(b)
  \/ \E t \in Txs : CheckTx(t) \/ StoreTx(t)
  \/ Restart
  \/ RemoteProduce

Spec == Init /\ [][Next]_vars

-----------------------------------------------------------------------------
(***************************************************************************)
(* Properties                                                              *)
(***************************************************************************)
\* A restart at any moment rebuilds from storage exactly the branches, the
\* previews, the pools and the irreversible state the running chain holds
\* (NewChain's newBranch against what applyBlock, storeTx and
\* replaceAndSwitchToBranch maintained step by step). The irreversible state is
\* the replay of all blocks up to the last irreversible one, so applying newIrres
\* to it never ends in log.Fatal.
RestartPreserves ==
  /\ ~fatal
  /\ immutable = After(NoNonce, TxsAbove(made, lastIrre, Genesis))
  /\ Loadable(disk)
  /\ lastIrre = loadIrreHash(disk)
  /\ immutable = loadAndCacheAccounts(disk)
  /\ txPool = loadTxPool(disk)
  /\ branches = Rebuilt(disk)

\* Every block this producer makes applies to its whole chain from genesis: all
\* other producers accept it, whatever forks, pool changes and restarts the
\* preview it was packed from went through.
OwnBlocksValid ==
  \A b \in DOMAIN made \ {Genesis} :
    b % Total = Rank => Applies(NoNonce, TxsAbove(made, b, Genesis))

\* A block that is irreversible stays irreversible: the last irreversible block
\* only moves to its own descendants, restarts included.
IrreversibleIsFinal == [][hasAncestor(made', lastIrre', lastIrre)]_vars

=============================================================================
