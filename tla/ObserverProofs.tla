-------------------------- MODULE ObserverProofs --------------------------
(***************************************************************************)
(* Proofs about Observer: with the subscriptions the API makes, which are  *)
(* from the oldest block on, everything below the position is indexed, and *)
(* neither the position nor the newest block given out goes back.          *)
(***************************************************************************)
EXTENDS Observer, TLAPS

-----------------------------------------------------------------------------
(***************************************************************************)
(* The inductive invariant.                                                *)
(***************************************************************************)
Heads == Nat \cup {NoPos}
Row == [block : Counts, count : Counts, height : Nat]
Pulls == [at : {"off", "tick", "add", "rows", "cas", "save"}, count : Nat, block : Nat,
          done : Nat]
Pulling == {"add", "rows", "cas", "save"}

\* Every variable has the type its Go counterpart or its table has.
TypeOK ==
  /\ tip \in Counts
  /\ service \in {"up", "stopping", "down"}
  /\ known \in BOOLEAN
  /\ head \in Heads /\ saved \in Heads /\ read \in Heads
  /\ pull \in Pulls
  /\ blocks \in Seq(Row)
  /\ DOMAIN index = Kinds
  /\ api \in [Callers -> {"idle", "miss", "start", "saving", "again"}]
  /\ served \in Heads

\* A block has one row, with its own count and height.
RowsInv ==
  /\ \A i \in 1..Len(blocks) :
       blocks[i].count = blocks[i].block /\ blocks[i].height = Block(blocks[i].block).height
  /\ \A i, j \in 1..Len(blocks) : blocks[i].block = blocks[j].block => i = j

Stored(c) == \E i \in 1..Len(blocks) : blocks[i].block = c

\* Item o of a kind in block c has hash h.
IsItem(c, k, o, h) ==
  o \in 1..Len(Items(k, Block(c))) /\ Items(k, Block(c))[o] = h

\* A row of another table points to a stored block, and to an item of it with its hash.
IndexInv ==
  \A k \in Kinds : \A h \in DOMAIN index[k] :
    \E c \in Counts : /\ Stored(c)
                      /\ index[k][h].height = Block(c).height
                      /\ IsItem(c, k, index[k][h].offset, h)

\* Block c is stored, and so are all of its items.
Done(c) ==
  /\ Stored(c)
  /\ \A k \in Kinds : \A h \in Range(Items(k, Block(c))) : h \in DOMAIN index[k]

\* The positions have something behind them.
HeadInv ==
  /\ \A c \in Counts : c < saved => Done(c)
  /\ \A c \in Counts : c < read => Done(c)
  /\ service # "down" => \A c \in Counts : c < head => Done(c)

\* How far the goroutine is with its block, and that it has a position to pull from.
PullInv ==
  /\ pull.at # "off" => head # NoPos
  /\ pull.at \in Pulling => pull.block \in Counts /\ pull.count = pull.block
  /\ pull.at = "add" => pull.done = 0
  /\ pull.at \in {"rows", "cas", "save"} => Stored(pull.block)
  /\ pull.at = "rows" =>
       /\ pull.done <= Len(Rows(Block(pull.block)))
       /\ \A i \in 1..pull.done : Rows(Block(pull.block))[i].hash
                                    \in DOMAIN index[Rows(Block(pull.block))[i].kind]
  /\ pull.at = "cas" => Done(pull.block)
  /\ pull.at = "save" => \A c \in Counts : c <= pull.block => Done(c)

\* A handler that starts the worker has given it a position; none is at work when the
\* service stops, and no goroutine when it is down.
ApiInv ==
  /\ \A c \in Callers : api[c] \in {"start", "saving"} => head # NoPos
  /\ service # "up" => \A c \in Callers : api[c] = "idle"
  /\ service = "down" => pull.at = "off"

\* There is a newest row, and what was served is not newer.
ServedInv ==
  /\ blocks # <<>> =>
       \E i \in 1..Len(blocks) : \A j \in 1..Len(blocks) : blocks[j].count <= blocks[i].count
  /\ served # NoPos => \E i \in 1..Len(blocks) : served <= blocks[i].count

IInv ==
  /\ TypeOK /\ RowsInv /\ IndexInv /\ HeadInv /\ PullInv /\ ApiInv /\ ServedInv

-----------------------------------------------------------------------------
(***************************************************************************)
(* Lemmas about the blocks and the rows addBlock writes.                   *)
(***************************************************************************)
\* The blocks of the ledger are blocks, each at a height of its own.
LEMMA Ledger1 ==
  /\ \A c \in Counts : c \in Nat /\ Block(c) \in BlockSet
  /\ \A c, d \in Counts : Block(c).height = Block(d).height => c = d
  <1>1. Len(Ledger) \in Nat /\ \A i \in 1..Len(Ledger) : Ledger[i] \in BlockSet
    <2>1. Ledger \in Seq(BlockSet)
      BY ObserverAssumption, Zenon
    <2> QED
      BY <2>1
  <1>2. \A c \in Counts : c \in Nat /\ c + 1 \in 1..Len(Ledger)
    BY <1>1 DEF Counts
  <1>3. \A c \in Counts : c \in Nat /\ Block(c) \in BlockSet
    BY <1>1, <1>2 DEF Block
  <1>4. ASSUME NEW c \in Counts, NEW d \in Counts, c < d
        PROVE  Block(c).height # Block(d).height
    <2>1. c + 1 \in 1..Len(Ledger) /\ d + 1 \in 1..Len(Ledger) /\ c + 1 < d + 1
      BY <1>2, <1>4
    <2>3. Ledger[c + 1].height < Ledger[d + 1].height
      BY <2>1, ObserverAssumption, Zenon
    <2>2. Ledger[c + 1].height \in Nat /\ Ledger[d + 1].height \in Nat
      BY <1>1, <1>2 DEF BlockSet
    <2> QED
      BY <2>2, <2>3 DEF Block
  <1> QED
    BY <1>2, <1>3, <1>4

\* The items of a block have a number.
LEMMA ItemsType ==
  ASSUME NEW b \in BlockSet, NEW k \in Kinds
  PROVE  /\ Len(Items(k, b)) \in Nat /\ DOMAIN Items(k, b) = 1..Len(Items(k, b))
         /\ k = "ack" => Items(k, b) = b.acks
         /\ k # "ack" => /\ Len(Items(k, b)) = Len(b.queries)
                         /\ \A i \in 1..Len(b.queries) : Items(k, b)[i] = b.queries[i].hash
  <1>1. b.acks \in Seq(STRING) /\ b.queries \in Seq(Query)
    BY DEF BlockSet
  <1>2. CASE k = "ack"
    BY <1>1, <1>2 DEF Items
  <1>3. CASE k # "ack"
    <2>1. Items(k, b) = [i \in 1..Len(b.queries) |-> b.queries[i].hash]
      BY <1>3 DEF Items
    <2>2. Len(b.queries) \in Nat
      BY <1>1
    <2>3. Items(k, b) \in Seq({b.queries[i].hash : i \in 1..Len(b.queries)})
      BY <2>1, <2>2
    <2> QED
      BY <1>3, <2>1, <2>2, <2>3
  <1> QED
    BY <1>2, <1>3

\* Row i of those for the queries: two for each.
QueryRow(b, i) ==
  [kind |-> IF i % 2 = 1 THEN "request" ELSE "response",
   hash |-> b.queries[(i + 1) \div 2].hash, offset |-> (i + 1) \div 2]

\* The rows of a block: first those of its acks, then two for each query.
LEMMA RowsAre ==
  ASSUME NEW b \in BlockSet
  PROVE  /\ Len(b.acks) \in Nat /\ Len(b.queries) \in Nat
         /\ Len(Rows(b)) = Len(b.acks) + 2 * Len(b.queries)
         /\ \A i \in 1..Len(b.acks) :
              Rows(b)[i] = [kind |-> "ack", hash |-> b.acks[i], offset |-> i]
         /\ \A i \in 1..(2 * Len(b.queries)) : Rows(b)[Len(b.acks) + i] = QueryRow(b, i)
  <1> DEFINE la == Len(b.acks)
             lq == 2 * Len(b.queries)
             A == [i \in 1..la |-> [kind |-> "ack", hash |-> b.acks[i], offset |-> i]]
             Q == [i \in 1..lq |-> QueryRow(b, i)]
             SA == {A[i] : i \in 1..la}
             SQ == {Q[i] : i \in 1..lq}
  <1>1. Len(b.acks) \in Nat /\ Len(b.queries) \in Nat
    BY DEF BlockSet
  <1>2. la \in Nat /\ lq \in Nat
    BY <1>1
  <1>3. Rows(b) = A \o Q
    BY Zenon DEF Rows, QueryRow
  <1> HIDE DEF la, lq
  <1>4. A \in Seq(SA) /\ Len(A) = la
    BY <1>2
  <1>5. Q \in Seq(SQ) /\ Len(Q) = lq
    BY <1>2
  <1>6. \A i \in 1..la : A[i] = [kind |-> "ack", hash |-> b.acks[i], offset |-> i]
    OBVIOUS
  <1>7. \A i \in 1..lq : Q[i] = QueryRow(b, i)
    OBVIOUS
  <1> HIDE DEF A, Q, SA, SQ
  <1>8. Len(A \o Q) = la + lq
    BY <1>4, <1>5
  <1>9. \A i \in 1..la : (A \o Q)[i] = A[i]
    BY <1>2, <1>4, <1>5
  <1>10. \A i \in 1..lq : (A \o Q)[la + i] = Q[i]
    BY <1>2, <1>4, <1>5
  <1> QED
    BY <1>1, <1>3, <1>6, <1>7, <1>8, <1>9, <1>10, Zenon DEF la, lq

\* A block has a number of rows.
LEMMA RowsLen ==
  ASSUME NEW c \in Counts
  PROVE  Block(c) \in BlockSet /\ Len(Rows(Block(c))) \in Nat
  <1>1. Block(c) \in BlockSet
    BY Ledger1, Zenon
  <1> DEFINE la == Len(Block(c).acks)
             lq == Len(Block(c).queries)
             n == Len(Rows(Block(c)))
  <1>2. la \in Nat /\ lq \in Nat /\ n = la + 2 * lq
    BY <1>1, RowsAre, Zenon
  <1> HIDE DEF la, lq, n
  <1>3. n \in Nat
    BY <1>2
  <1> QED
    BY <1>1, <1>3, Zenon DEF n

\* A row points to the item it was made for.
LEMMA RowsSound ==
  ASSUME NEW b \in BlockSet, NEW i \in 1..Len(Rows(b))
  PROVE  /\ Rows(b)[i].kind \in Kinds
         /\ Rows(b)[i].offset \in 1..Len(Items(Rows(b)[i].kind, b))
         /\ Items(Rows(b)[i].kind, b)[Rows(b)[i].offset] = Rows(b)[i].hash
  <1> DEFINE r == Rows(b)[i]
             la == Len(b.acks)
             lq == Len(b.queries)
             n == Len(Rows(b))
  <1>1. la \in Nat /\ lq \in Nat /\ n = la + 2 * lq /\ i \in 1..n
    BY RowsAre, Zenon
  <1> HIDE DEF la, lq, n
  <1>2. CASE i \in 1..la
    <2>1. r = [kind |-> "ack", hash |-> b.acks[i], offset |-> i]
      BY <1>2, RowsAre, Zenon DEF la
    <2>2. r.kind = "ack" /\ r.hash = b.acks[i] /\ r.offset = i
      BY <2>1
    <2>3. Items("ack", b) = b.acks
      BY Zenon DEF Items
    <2> QED
      BY <1>2, <2>2, <2>3, Zenon DEF Kinds, la
  <1>3. CASE i \notin 1..la
    <2> DEFINE j == i - la
               o == (j + 1) \div 2
    <2>1. j \in 1..(2 * lq) /\ i = la + j
      BY <1>1, <1>3
    <2>2. o \in 1..lq
      BY <1>1, <2>1
    <2>3. r = QueryRow(b, j)
      BY <2>1, RowsAre, Zenon DEF la, lq
    <2> HIDE DEF r
    <2>4. r.kind \in {"request", "response"} /\ r.hash = b.queries[o].hash /\ r.offset = o
      BY <2>3 DEF QueryRow
    <2> HIDE DEF o
    <2>5. r.kind \in Kinds /\ r.kind # "ack"
      BY <2>4 DEF Kinds
    <2>6. Len(Items(r.kind, b)) = lq /\ Items(r.kind, b)[o] = b.queries[o].hash
      BY <2>2, <2>5, ItemsType, Zenon DEF lq
    <2> QED
      BY <2>2, <2>4, <2>5, <2>6, Zenon DEF r
  <1> QED
    BY <1>2, <1>3

\* Every item of a block has a row.
LEMMA RowsComplete ==
  ASSUME NEW b \in BlockSet, NEW k \in Kinds, NEW h \in Range(Items(k, b))
  PROVE  \E i \in 1..Len(Rows(b)) : Rows(b)[i].kind = k /\ Rows(b)[i].hash = h
  <1> DEFINE la == Len(b.acks)
             lq == Len(b.queries)
             n == Len(Rows(b))
  <1>1. la \in Nat /\ lq \in Nat /\ n = la + 2 * lq
    BY RowsAre, Zenon
  <1> HIDE DEF la, lq, n
  <1>2. PICK o \in 1..Len(Items(k, b)) : Items(k, b)[o] = h
    BY ItemsType, Zenon DEF Range
  <1>3. CASE k = "ack"
    <2>1. o \in 1..la /\ b.acks[o] = h
      BY <1>2, <1>3, ItemsType, Zenon DEF la
    <2>2. Rows(b)[o] = [kind |-> "ack", hash |-> h, offset |-> o]
      BY <2>1, RowsAre, Zenon DEF la
    <2>3. o \in 1..n
      BY <1>1, <2>1
    <2>4. Rows(b)[o].kind = "ack" /\ Rows(b)[o].hash = h
      BY <2>2
    <2> QED
      BY <1>3, <2>3, <2>4, Zenon DEF n
  <1>4. CASE k # "ack"
    <2> DEFINE j == IF k = "request" THEN 2 * o - 1 ELSE 2 * o
    <2>1. o \in 1..lq /\ b.queries[o].hash = h
      BY <1>2, <1>4, ItemsType, Zenon DEF lq
    <2>2. /\ j \in 1..(2 * lq) /\ (j + 1) \div 2 = o
          /\ k = "request" <=> j % 2 = 1
      BY <1>1, <2>1
    <2> HIDE DEF j
    <2>3. Rows(b)[la + j] = QueryRow(b, j)
      BY <2>2, RowsAre, Zenon DEF la, lq
    <2>4. la + j \in 1..n
      BY <1>1, <2>2
    <2>5. QueryRow(b, j).kind = k
      BY <1>4, <2>2 DEF Kinds, QueryRow
    <2>6. QueryRow(b, j).hash = h
      BY <2>1, <2>2 DEF QueryRow
    <2> QED
      BY <2>3, <2>4, <2>5, <2>6, Zenon DEF n
  <1> QED
    BY <1>3, <1>4

-----------------------------------------------------------------------------
(***************************************************************************)
(* Lemmas about the table of the blocks.                                   *)
(***************************************************************************)
\* The smallest of one number.
LEMMA MinOne == \A x \in Int : Min({x}) = x
  BY DEF Min

\* What the rows are.
LEMMA RowTypes ==
  ASSUME TypeOK
  PROVE  /\ Len(blocks) \in Nat
         /\ \A i \in 1..Len(blocks) : blocks[i] \in Row
  BY DEF TypeOK

\* A stored block is found in its row, by each of its three columns.
LEMMA Firsts ==
  ASSUME TypeOK, RowsInv, NEW i \in 1..Len(blocks)
  PROVE  /\ getBlock(blocks[i].block) = i
         /\ getBlockByCount(blocks[i].block) = i
         /\ getBlockByHeight(Block(blocks[i].block).height) = i
  <1> DEFINE c == blocks[i].block
             n == Len(blocks)
  <1>1. n \in Nat /\ i \in Int /\ \A j \in 1..n : blocks[j] \in Row /\ blocks[j].block \in Counts
    BY RowTypes DEF Row
  <1>2. \A j \in 1..n : blocks[j].block = c => j = i
    BY Zenon DEF RowsInv
  <1>3. \A j \in 1..n : blocks[j].count = c => j = i
    BY <1>2, Zenon DEF RowsInv
  <1>4. \A j \in 1..n : blocks[j].height = Block(c).height => j = i
    <2>1. TAKE j \in 1..n
    <2>2. HAVE blocks[j].height = Block(c).height
    <2>3. Block(blocks[j].block).height = Block(c).height
      BY <2>2, Zenon DEF RowsInv
    <2>4. blocks[j].block \in Counts /\ c \in Counts
      BY <1>1, Zenon
    <2>5. blocks[j].block = c
      BY <2>3, <2>4, Ledger1, Zenon
    <2> QED
      BY <1>2, <2>5, Zenon
  <1>5. blocks[i].count = c /\ blocks[i].height = Block(c).height
    BY Zenon DEF RowsInv
  <1>6. {j \in 1..n : blocks[j]["block"] = c} = {i}
    BY <1>2
  <1>7. {j \in 1..n : blocks[j]["count"] = c} = {i}
    BY <1>3, <1>5
  <1>8. {j \in 1..n : blocks[j]["height"] = Block(c).height} = {i}
    BY <1>4, <1>5
  <1>9. Min({i}) = i
    BY <1>1, MinOne
  <1> QED
    BY <1>6, <1>7, <1>8, <1>9, Zenon
       DEF getBlock, getBlockByCount, getBlockByHeight, First

\* A block without a row is not found.
LEMMA NoFirst ==
  ASSUME NEW c, ~Stored(c)
  PROVE  getBlock(c) = NoRow
  <1>1. {i \in 1..Len(blocks) : blocks[i]["block"] = c} = {}
    BY DEF Stored
  <1> QED
    BY <1>1, Zenon DEF getBlock, First

\* The rows after addBlock has written that of block c, in the order they are in.
LEMMA SaveBlockRows ==
  ASSUME TypeOK, RowsInv, NEW c \in Counts, SaveBlock(c, c)
  PROVE  LET row == [block |-> c, count |-> c, height |-> Block(c).height] IN
         /\ blocks' \in Seq(Row)
         /\ \E j \in 1..Len(blocks') : blocks'[j] = row
         /\ \A j \in 1..Len(blocks') :
              blocks'[j] = row \/ \E i \in 1..Len(blocks) : blocks'[j] = blocks[i]
         /\ \A i \in 1..Len(blocks) : \E j \in 1..Len(blocks') : blocks'[j] = blocks[i]
         /\ \A i, j \in 1..Len(blocks') : blocks'[i].block = blocks'[j].block => i = j
  <1> DEFINE row == [block |-> c, count |-> c, height |-> Block(c).height]
             n == Len(blocks)
  <1>1. row \in Row /\ row.block = c
    <2>1. Block(c) \in BlockSet
      BY Ledger1, Zenon
    <2>2. Block(c).height \in Nat
      BY <2>1 DEF BlockSet
    <2> QED
      BY <2>2 DEF Row
  <1>2. blocks \in Seq(Row) /\ n \in Nat
    BY DEF TypeOK
  <1>3. \A i \in 1..n : blocks[i] \in Row
    BY RowTypes, Zenon
  <1>4. \A i, j \in 1..n : blocks[i].block = blocks[j].block => i = j
    BY Zenon DEF RowsInv
  <1> HIDE DEF row
  <1>5. CASE ~Stored(c)
    <2>1. blocks' = Append(blocks, row)
      BY <1>5, NoFirst, Zenon DEF SaveBlock, row
    <2>2. /\ blocks' \in Seq(Row) /\ Len(blocks') = n + 1
          /\ blocks'[n + 1] = row /\ \A i \in 1..n : blocks'[i] = blocks[i]
      BY <1>1, <1>2, <2>1
    <2>3. \A i \in 1..n : blocks[i].block # c
      BY <1>5, Zenon DEF Stored
    <2>4. \A j \in 1..(n + 1) : j = n + 1 \/ j \in 1..n
      BY <1>2
    <2>5. n + 1 \in 1..(n + 1) /\ \A j \in 1..n : j \in 1..(n + 1)
      BY <1>2
    <2>6. \A i, j \in 1..(n + 1) : blocks'[i].block = blocks'[j].block => i = j
      BY <1>1, <1>4, <2>2, <2>3, <2>4, Zenon
    <2> QED
      BY <2>2, <2>4, <2>5, <2>6, Zenon DEF row
  <1>6. CASE Stored(c)
    <2>1. PICK k \in 1..n : blocks[k].block = c
      BY <1>6, Zenon DEF Stored
    <2>2. getBlock(c) = k
      BY <2>1, Firsts, Zenon
    <2>3. k # NoRow
      BY <1>2 DEF NoRow
    <2> DEFINE others == SubSeq(blocks, 1, k - 1) \o SubSeq(blocks, k + 1, Len(blocks))
    <2>4. blocks' = Append(others, row)
      BY <2>2, <2>3, Zenon DEF SaveBlock, row
    <2>5. /\ others \in Seq(Row) /\ Len(others) = n - 1
          /\ \A i \in 1..(n - 1) : others[i] = IF i < k THEN blocks[i] ELSE blocks[i + 1]
      <3> DEFINE lo == SubSeq(blocks, 1, k - 1)
                 hi == SubSeq(blocks, k + 1, n)
      <3>1. lo \in Seq(Row) /\ Len(lo) = k - 1 /\ \A i \in 1..(k - 1) : lo[i] = blocks[i]
        BY <1>2, <2>1
      <3>2. hi \in Seq(Row) /\ Len(hi) = n - k /\ \A i \in 1..(n - k) : hi[i] = blocks[k + i]
        BY <1>2, <2>1
      <3>3. others = lo \o hi
        BY Zenon
      <3> HIDE DEF lo, hi, others
      <3>4. others \in Seq(Row) /\ Len(others) = n - 1
        BY <1>2, <2>1, <3>1, <3>2, <3>3
      <3>5. \A i \in 1..(n - 1) : i < k => others[i] = blocks[i]
        BY <1>2, <2>1, <3>1, <3>2, <3>3
      <3>6. ASSUME NEW i \in 1..(n - 1), ~(i < k)
            PROVE  others[i] = blocks[i + 1]
        <4>1. others[i] = hi[i - (k - 1)]
          BY <1>2, <2>1, <3>1, <3>2, <3>3, <3>6
        <4>2. i - (k - 1) \in 1..(n - k) /\ k + (i - (k - 1)) = i + 1
          BY <1>2, <2>1, <3>6
        <4> QED
          BY <3>2, <4>1, <4>2
      <3> QED
        BY <3>4, <3>5, <3>6
    <2> HIDE DEF others
    <2>6. /\ blocks' \in Seq(Row) /\ Len(blocks') = n /\ blocks'[n] = row
          /\ \A i \in 1..(n - 1) : blocks'[i] = others[i]
      BY <1>1, <1>2, <2>1, <2>4, <2>5
    <2>7. blocks[k] = row
      <3>1. blocks[k] \in Row /\ blocks[k].count = c /\ blocks[k].height = Block(c).height
        BY <1>3, <2>1, Zenon DEF RowsInv
      <3> QED
        BY <2>1, <3>1 DEF Row, row
    <2>8. \A j \in 1..n : j = n \/ j \in 1..(n - 1)
      BY <1>2
    <2>9. \A j \in 1..(n - 1) :
            \E i \in 1..n : i # k /\ others[j] = blocks[i] /\ i = IF j < k THEN j ELSE j + 1
      BY <1>2, <2>1, <2>5
    <2>10. \A i \in 1..n : i # k => \E j \in 1..(n - 1) : others[j] = blocks[i]
      <3>1. ASSUME NEW i \in 1..n, i < k
            PROVE  \E j \in 1..(n - 1) : others[j] = blocks[i]
        BY <1>2, <2>5, <3>1
      <3>2. ASSUME NEW i \in 1..n, i > k
            PROVE  \E j \in 1..(n - 1) : others[j] = blocks[i]
        <4>1. i - 1 \in 1..(n - 1) /\ ~(i - 1 < k) /\ (i - 1) + 1 = i
          BY <1>2, <2>1, <3>2
        <4>2. others[i - 1] = blocks[(i - 1) + 1]
          BY <2>5, <4>1, Zenon
        <4> QED
          BY <4>1, <4>2, Zenon
      <3> QED
        BY <1>2, <2>1, <3>1, <3>2
    <2>11. n \in 1..n /\ \A j \in 1..(n - 1) : j \in 1..n
      BY <1>2, <2>1
    <2>12. \A i \in 1..n : \E j \in 1..n : blocks'[j] = blocks[i]
      BY <2>6, <2>7, <2>10, <2>11, Zenon
    <2>13. \A j \in 1..n : blocks'[j] = row \/ \E i \in 1..n : blocks'[j] = blocks[i]
      BY <2>6, <2>8, <2>9, Zenon
    <2>14. \A i, j \in 1..(n - 1) : others[i].block = others[j].block => i = j
      <3>1. SUFFICES ASSUME NEW i \in 1..(n - 1), NEW j \in 1..(n - 1),
                            others[i].block = others[j].block
                     PROVE  i = j
        BY Zenon
      <3>2. PICK p \in 1..n : others[i] = blocks[p] /\ p = IF i < k THEN i ELSE i + 1
        BY <2>9, Zenon
      <3>3. PICK q \in 1..n : others[j] = blocks[q] /\ q = IF j < k THEN j ELSE j + 1
        BY <2>9, Zenon
      <3>4. p = q
        BY <1>4, <3>1, <3>2, <3>3, Zenon
      <3> QED
        BY <1>2, <2>1, <3>2, <3>3, <3>4
    <2>15. \A j \in 1..(n - 1) : others[j].block # c
      BY <1>4, <2>1, <2>9, Zenon
    <2>16. \A i, j \in 1..n : blocks'[i].block = blocks'[j].block => i = j
      BY <1>1, <2>6, <2>8, <2>14, <2>15, Zenon
    <2> QED
      BY <2>6, <2>11, <2>12, <2>13, <2>16, Zenon DEF row
  <1> QED
    BY <1>5, <1>6

\* The row of block c is written, and nothing is lost.
LEMMA SaveBlockStored ==
  ASSUME TypeOK, RowsInv, NEW c \in Counts, SaveBlock(c, c), UNCHANGED index
  PROVE  /\ RowsInv' /\ Stored(c)'
         /\ \A d : Stored(d) => Stored(d)'
         /\ \A d : Done(d) => Done(d)'
  <1> DEFINE row == [block |-> c, count |-> c, height |-> Block(c).height]
  <1>1. row.block = c /\ row.count = c /\ row.height = Block(c).height
    OBVIOUS
  <1> HIDE DEF row
  <1>2. /\ \E j \in 1..Len(blocks') : blocks'[j] = row
        /\ \A j \in 1..Len(blocks') :
             blocks'[j] = row \/ \E i \in 1..Len(blocks) : blocks'[j] = blocks[i]
        /\ \A i \in 1..Len(blocks) : \E j \in 1..Len(blocks') : blocks'[j] = blocks[i]
        /\ \A i, j \in 1..Len(blocks') : blocks'[i].block = blocks'[j].block => i = j
    BY SaveBlockRows, Zenon DEF row
  <1>3. \A j \in 1..Len(blocks') : /\ blocks'[j].count = blocks'[j].block
                                   /\ blocks'[j].height = Block(blocks'[j].block).height
    <2>1. TAKE j \in 1..Len(blocks')
    <2>2. CASE blocks'[j] = row
      BY <1>1, <2>2, Zenon
    <2>3. CASE \E i \in 1..Len(blocks) : blocks'[j] = blocks[i]
      BY <2>3, Zenon DEF RowsInv
    <2> QED
      BY <1>2, <2>2, <2>3, Zenon
  <1>4. RowsInv'
    BY <1>2, <1>3, Zenon DEF RowsInv
  <1>5. Stored(c)'
    BY <1>1, <1>2, Zenon DEF Stored
  <1>6. \A d : Stored(d) => Stored(d)'
    <2>1. \A i \in 1..Len(blocks) : \E j \in 1..Len(blocks') : blocks'[j] = blocks[i]
      BY <1>2, Zenon
    <2> QED
      BY <2>1, Zenon DEF Stored
  <1>7. \A d : Done(d) => Done(d)'
    BY <1>6, Zenon DEF Done, Items, Block
  <1> QED
    BY <1>4, <1>5, <1>6, <1>7

\* The tables do not change.
LEMMA Kept ==
  ASSUME TypeOK, RowsInv, IndexInv, UNCHANGED <<blocks, index>>
  PROVE  /\ blocks' \in Seq(Row) /\ DOMAIN index' = Kinds
         /\ RowsInv' /\ IndexInv'
         /\ \A c : Stored(c)' <=> Stored(c)
         /\ \A c : Done(c)' <=> Done(c)
  <1>1. blocks' = blocks /\ index' = index
    OBVIOUS
  <1>2. \A c : Stored(c)' <=> Stored(c)
    BY <1>1, Zenon DEF Stored
  <1>3. \A c : Done(c)' <=> Done(c)
    BY <1>1, <1>2, Zenon DEF Done, Items, Block
  <1>4. RowsInv'
    BY <1>1, Zenon DEF RowsInv, Block
  <1>5. IndexInv'
    BY <1>1, <1>2 DEF IndexInv, IsItem
  <1> QED
    BY <1>1, <1>2, <1>3, <1>4, <1>5, Zenon DEF TypeOK

\* A row of another table is written: the others stay.
LEMMA SaveRowIndex ==
  ASSUME DOMAIN index = Kinds, NEW row, NEW height, row.kind \in Kinds, SaveRow(row, height)
  PROVE  /\ DOMAIN index' = Kinds
         /\ row.hash \in DOMAIN index'[row.kind]
         /\ \A k \in Kinds : \A h \in DOMAIN index[k] : h \in DOMAIN index'[k]
         /\ \A k \in Kinds : \A h \in DOMAIN index'[k] :
              \/ /\ k = row.kind /\ h = row.hash
                 /\ index'[k][h] = [height |-> height, offset |-> row.offset]
              \/ h \in DOMAIN index[k] /\ index'[k][h] = index[k][h]
  <1> DEFINE kind == row.kind
             hash == row.hash
             new == [height |-> height, offset |-> row.offset]
             f == [h \in DOMAIN index[kind] \cup {hash} |->
                     IF h = hash THEN new ELSE index[kind][h]]
  <1>1. index' = [index EXCEPT ![kind] = f]
    BY Zenon DEF SaveRow
  <1>2. DOMAIN f = DOMAIN index[kind] \cup {hash} /\ f[hash] = new
    BY Zenon
  <1>3. \A h \in DOMAIN index[kind] : h # hash => f[h] = index[kind][h]
    BY Zenon
  <1>4. kind \in Kinds
    OBVIOUS
  <1> HIDE DEF f, kind, hash, new
  <1>5. DOMAIN index' = Kinds /\ index'[kind] = f
    BY <1>1, <1>4, Zenon
  <1>6. \A k \in Kinds : k # kind => index'[k] = index[k]
    BY <1>1, <1>4, Zenon
  <1>7. \A k \in Kinds : \A h \in DOMAIN index[k] : h \in DOMAIN index'[k]
    BY <1>2, <1>5, <1>6, Zenon
  <1>8. \A k \in Kinds : \A h \in DOMAIN index'[k] :
          \/ k = kind /\ h = hash /\ index'[k][h] = new
          \/ h \in DOMAIN index[k] /\ index'[k][h] = index[k][h]
    BY <1>2, <1>3, <1>5, <1>6, Zenon
  <1>9. hash \in DOMAIN index'[kind]
    BY <1>2, <1>5, Zenon
  <1> QED
    BY <1>5, <1>7, <1>8, <1>9, Zenon DEF kind, hash, new

-----------------------------------------------------------------------------
(***************************************************************************)
(* The invariant holds at first and is preserved by every action.          *)
(***************************************************************************)
\* The observer starts with empty tables and no subscription.
LEMMA InitInv == Init => IInv
  <1> SUFFICES ASSUME Init PROVE IInv
    OBVIOUS
  <1>1. 0 \in Counts /\ \A c \in Counts : c \in Nat
    BY ObserverAssumption DEF Counts
  <1>2. TypeOK
    <2>1. tip \in Counts /\ pull \in Pulls /\ head \in Heads
      BY <1>1 DEF Init, Pulls, Off, Heads
    <2>5. saved \in Heads /\ read \in Heads /\ served \in Heads
      BY <1>1 DEF Init, Pulls, Off, Heads
    <2>2. blocks \in Seq(Row)
      BY DEF Init
    <2>3. DOMAIN index = Kinds
      BY Zenon DEF Init
    <2>4. api \in [Callers -> {"idle", "miss", "start", "saving", "again"}]
      BY DEF Init
    <2> QED
      BY <2>1, <2>2, <2>3, <2>4, <2>5, Zenon DEF Init, TypeOK
  <1>3. Len(blocks) = 0
    BY DEF Init
  <1>4. RowsInv /\ ServedInv
    BY <1>3 DEF Init, RowsInv, ServedInv
  <1>5. IndexInv
    <2>1. \A k \in Kinds : DOMAIN index[k] = {}
      BY Zenon DEF Init
    <2> QED
      BY <2>1, Zenon DEF IndexInv
  <1>6. HeadInv
    BY <1>1 DEF Init, HeadInv, NoPos
  <1>7. PullInv /\ ApiInv
    BY DEF Init, PullInv, ApiInv, Off, Pulling
  <1> QED
    BY <1>2, <1>4, <1>5, <1>6, <1>7, Zenon DEF IInv

\* The parts of the invariant that hold of a step which leaves the tables alone.
LEMMA TablesKept ==
  ASSUME IInv, UNCHANGED <<blocks, index>>
  PROVE  /\ blocks' \in Seq(Row) /\ DOMAIN index' = Kinds
         /\ RowsInv' /\ IndexInv'
         /\ \A c : Stored(c)' <=> Stored(c)
         /\ \A c : Done(c)' <=> Done(c)
  BY Kept, Zenon DEF IInv

\* What was done stays done: the positions and the block of the goroutine keep what is
\* behind them when they do not change themselves.
LEMMA HeadKept ==
  ASSUME HeadInv, UNCHANGED <<saved, read, head, service>>, \A c : Done(c) => Done(c)'
  PROVE  HeadInv'
  <1>1. saved' = saved /\ read' = read /\ head' = head /\ service' = service
    OBVIOUS
  <1> QED
    BY <1>1, Zenon DEF HeadInv, Counts

\* The goroutine does not move, nor do the tables: its block is where it was.
LEMMA PullKept ==
  ASSUME IInv, UNCHANGED <<blocks, index, pull>>, pull.at = "off" \/ head' # NoPos
  PROVE  PullInv'
  <1>1. pull' = pull /\ index' = index
    OBVIOUS
  <1>2. /\ \A c : Stored(c)' <=> Stored(c)
        /\ \A c : Done(c)' <=> Done(c)
    BY TablesKept, Zenon
  <1> QED
    BY <1>1, <1>2, Zenon DEF IInv, PullInv, Pulling, Counts

\* The goroutine waits, or is not there.
LEMMA PullIdle ==
  ASSUME pull'.at = "off" \/ (pull'.at = "tick" /\ head' # NoPos)
  PROVE  PullInv'
  <1>1. pull'.at \notin Pulling /\ pull'.at \notin {"rows", "cas", "save"}
    BY DEF Pulling
  <1> QED
    BY <1>1, Zenon DEF PullInv, Pulling

\* Nothing is served and no block is stored.
LEMMA ServedKept ==
  ASSUME ServedInv, UNCHANGED <<blocks, served>>
  PROVE  ServedInv'
  <1>1. blocks' = blocks /\ served' = served
    OBVIOUS
  <1> QED
    BY <1>1, Zenon DEF ServedInv

\* The miner stores a block.
LEMMA MineInv == ASSUME IInv, Mine PROVE IInv'
  <1>1. /\ UNCHANGED <<blocks, index>> /\ UNCHANGED <<saved, read, head, service>>
        /\ UNCHANGED <<blocks, index, pull>> /\ UNCHANGED <<blocks, served>>
        /\ api' = api /\ known' = known
    BY Zenon DEF Mine
  <1>2. tip' \in Counts
    <2>1. tip \in Counts
      BY Zenon DEF IInv, TypeOK
    <2>2. Len(Ledger) \in Nat
      BY ObserverAssumption
    <2> QED
      BY <2>1, <2>2 DEF Mine, Counts
  <1>3. TypeOK'
    BY <1>1, <1>2, TablesKept, Zenon DEF IInv, TypeOK, Mine
  <1>4. HeadInv'
    BY <1>1, TablesKept, HeadKept, Zenon DEF IInv
  <1>5. PullInv'
    BY <1>1, PullKept, Zenon DEF IInv, PullInv
  <1>6. ApiInv'
    BY <1>1, Zenon DEF IInv, ApiInv
  <1>7. ServedInv'
    BY <1>1, ServedKept, Zenon DEF IInv
  <1> QED
    BY <1>1, <1>3, <1>4, <1>5, <1>6, <1>7, TablesKept, Zenon DEF IInv

\* The goroutine fetches the block at its head.
LEMMA FetchInv == ASSUME IInv, Fetch PROVE IInv'
  <1>1. /\ UNCHANGED <<blocks, index>> /\ UNCHANGED <<saved, read, head, service>>
        /\ UNCHANGED <<blocks, served>>
        /\ api' = api /\ known' = known /\ tip' = tip /\ pull.at = "tick"
    BY Zenon DEF Fetch
  <1>2. head \in Nat
    BY <1>1 DEF IInv, TypeOK, Heads, PullInv
  <1>3. pull' = [at |-> "add", count |-> head, block |-> head, done |-> 0] /\ head \in Counts
    <2>1. PICK c \in observerFetchBlock(head) \ {NoBlock} :
            pull' = [at |-> "add", count |-> head, block |-> c, done |-> 0]
      BY Zenon DEF Fetch
    <2>2. tip \in Counts /\ Len(Ledger) \in Nat
      BY ObserverAssumption DEF IInv, TypeOK
    <2>3. c = head /\ head <= tip
      BY <1>2 DEF observerFetchBlock, FetchBlockByCount
    <2> QED
      BY <1>2, <2>1, <2>2, <2>3 DEF Counts
  <1>4. pull' \in Pulls
    BY <1>2, <1>3 DEF Pulls
  <1>5. pull'.at = "add" /\ pull'.block = head /\ pull'.count = head /\ pull'.done = 0
    BY <1>3
  <1>6. TypeOK'
    BY <1>1, <1>4, TablesKept, Zenon DEF IInv, TypeOK
  <1>7. HeadInv'
    BY <1>1, TablesKept, HeadKept, Zenon DEF IInv
  <1>8. PullInv'
    <2>1. pull'.at # "rows" /\ pull'.at # "cas" /\ pull'.at # "save"
      BY <1>5
    <2>2. head' # NoPos
      BY <1>1, <1>2 DEF NoPos
    <2> QED
      BY <1>3, <1>5, <2>1, <2>2, Zenon DEF PullInv, Counts
  <1>9. ApiInv'
    <2>1. service # "down"
      BY <1>1, Zenon DEF IInv, ApiInv
    <2> QED
      BY <1>1, <2>1, Zenon DEF IInv, ApiInv
  <1>10. ServedInv'
    BY <1>1, ServedKept, Zenon DEF IInv
  <1> QED
    BY <1>1, <1>6, <1>7, <1>8, <1>9, <1>10, TablesKept, Zenon DEF IInv

\* addBlock writes the row of the block.
LEMMA AddFirst ==
  ASSUME IInv, pull.at = "add", SaveBlock(pull.block, pull.count),
         pull' = [pull EXCEPT !.at = "rows"], UNCHANGED index,
         UNCHANGED <<tip, service, known, head, saved, api, read, served, crashes>>
  PROVE  IInv'
  <1>1. PICK c \in Counts : /\ pull.block = c /\ pull.count = c /\ SaveBlock(c, c)
                            /\ pull.done = 0 /\ pull \in Pulls /\ TypeOK /\ RowsInv
    BY Zenon DEF IInv, TypeOK, PullInv, Pulling
  <1> DEFINE row == [block |-> c, count |-> c, height |-> Block(c).height]
  <1>2. pull' \in Pulls /\ pull'.at = "rows" /\ pull'.block = c /\ pull'.count = c
        /\ pull'.done = 0
    BY <1>1 DEF Pulls
  <1>3. /\ blocks' \in Seq(Row)
        /\ \E j \in 1..Len(blocks') : blocks'[j] = row
        /\ \A j \in 1..Len(blocks') :
             blocks'[j] = row \/ \E i \in 1..Len(blocks) : blocks'[j] = blocks[i]
        /\ \A i \in 1..Len(blocks) : \E j \in 1..Len(blocks') : blocks'[j] = blocks[i]
    BY <1>1, SaveBlockRows, Zenon
  <1>4. /\ RowsInv' /\ Stored(c)'
        /\ \A d : Stored(d) => Stored(d)'
        /\ \A d : Done(d) => Done(d)'
    BY <1>1, SaveBlockStored, Zenon
  <1>5. row.count = c
    OBVIOUS
  <1> HIDE DEF row
  <1>6. TypeOK'
    BY <1>2, <1>3, Zenon DEF IInv, TypeOK
  <1>7. IndexInv'
    <2>1. index' = index
      OBVIOUS
    <2> QED
      BY <1>4, <2>1 DEF IInv, IndexInv, IsItem
  <1>8. HeadInv'
    BY <1>4, HeadKept, Zenon DEF IInv
  <1>9. PullInv'
    <2>1. head' # NoPos
      BY Zenon DEF IInv, PullInv
    <2>2. pull'.done <= Len(Rows(Block(c)))
      <3>1. Len(Rows(Block(c))) \in Nat
        BY <1>1, RowsLen, Zenon
      <3> DEFINE n == Len(Rows(Block(c)))
      <3> HIDE DEF n
      <3>2. n \in Nat
        BY <3>1, Zenon DEF n
      <3>3. pull'.done <= n
        BY <1>2, <3>2
      <3> QED
        BY <3>3, Zenon DEF n
    <2>3. 1..pull'.done = {}
      BY <1>2
    <2>4. Stored(c)' /\ c \in Counts
      BY <1>1, <1>4, Zenon
    <2>5. pull'.at # "cas" /\ pull'.at # "save" /\ pull'.at # "add"
      BY <1>2
    <2> QED
      BY <1>2, <2>1, <2>2, <2>3, <2>4, <2>5, Zenon DEF PullInv, Counts
  <1>10. ApiInv'
    <2>1. service # "down"
      BY Zenon DEF IInv, ApiInv
    <2> QED
      BY <2>1, Zenon DEF IInv, ApiInv
  <1>11. ServedInv'
    <2>1. c \in Nat /\ \A i \in 1..Len(blocks) : blocks[i].count \in Nat
      <3>1. \A i \in 1..Len(blocks) : blocks[i] \in Row
        BY <1>1, RowTypes, Zenon
      <3>2. \A d \in Counts : d \in Nat
        BY Ledger1, Zenon
      <3> QED
        BY <1>1, <3>1, <3>2 DEF Row
    <2>2. \E i \in 1..Len(blocks') :
            \A j \in 1..Len(blocks') : blocks'[j].count <= blocks'[i].count
      <3>1. CASE blocks = <<>>
        <4>1. \A j \in 1..Len(blocks') : blocks'[j] = row
          BY <1>3, <3>1
        <4>2. c <= c /\ \A j \in 1..Len(blocks') : blocks'[j].count = c
          BY <1>5, <2>1, <4>1
        <4> QED
          BY <1>3, <4>2, Zenon
      <3>2. CASE blocks # <<>>
        <4>1. PICK i \in 1..Len(blocks) :
                \A j \in 1..Len(blocks) : blocks[j].count <= blocks[i].count
          BY <3>2, Zenon DEF IInv, ServedInv
        <4>2. PICK k \in 1..Len(blocks') : blocks'[k] = row
          BY <1>3, Zenon
        <4>3. PICK m \in 1..Len(blocks') : blocks'[m] = blocks[i]
          BY <1>3, Zenon
        <4>4. CASE blocks[i].count <= c
          <5>1. \A j \in 1..Len(blocks') : blocks'[j].count <= c
            <6>1. TAKE j \in 1..Len(blocks')
            <6>2. CASE blocks'[j] = row
              BY <1>5, <2>1, <6>2
            <6>3. CASE \E p \in 1..Len(blocks) : blocks'[j] = blocks[p]
              BY <2>1, <4>1, <4>4, <6>3
            <6> QED
              BY <1>3, <6>2, <6>3, Zenon
          <5> QED
            BY <1>5, <4>2, <5>1, Zenon
        <4>5. CASE c <= blocks[i].count
          <5>1. \A j \in 1..Len(blocks') : blocks'[j].count <= blocks'[m].count
            <6>1. TAKE j \in 1..Len(blocks')
            <6>2. CASE blocks'[j] = row
              BY <1>5, <4>3, <4>5, <6>2, Zenon
            <6>3. CASE \E p \in 1..Len(blocks) : blocks'[j] = blocks[p]
              BY <4>1, <4>3, <6>3, Zenon
            <6> QED
              BY <1>3, <6>2, <6>3, Zenon
          <5> QED
            BY <5>1, Zenon
        <4>6. blocks[i].count <= c \/ c <= blocks[i].count
          <5>1. \A x, y \in Nat : x <= y \/ y <= x
            OBVIOUS
          <5> QED
            BY <2>1, <5>1, Zenon
        <4> QED
          BY <4>4, <4>5, <4>6, Zenon
      <3> QED
        BY <3>1, <3>2
    <2>3. served' # NoPos => \E i \in 1..Len(blocks') : served' <= blocks'[i].count
      BY <1>3, Zenon DEF IInv, ServedInv
    <2> QED
      BY <2>2, <2>3, Zenon DEF ServedInv
  <1> QED
    BY <1>4, <1>6, <1>7, <1>8, <1>9, <1>10, <1>11, Zenon DEF IInv

\* addAck or addQueryTracker writes one more row of the block.
LEMMA AddRow ==
  ASSUME IInv, pull.at = "rows", pull.done < Len(Rows(Block(pull.block))),
         SaveRow(Rows(Block(pull.block))[pull.done + 1], Block(pull.block).height),
         pull' = [pull EXCEPT !.done = @ + 1], UNCHANGED blocks,
         UNCHANGED <<tip, service, known, head, saved, api, read, served, crashes>>
  PROVE  IInv'
  <1>1. PICK c \in Counts : pull.block = c /\ pull.count = c /\ Stored(c) /\ pull \in Pulls
    BY Zenon DEF IInv, TypeOK, PullInv, Pulling
  <1>2. PICK n \in Nat : n = Len(Rows(Block(c)))
    BY RowsLen, Zenon
  <1>3. PICK d \in Nat : pull.done = d /\ d < n /\ d + 1 \in 1..n
    BY <1>1, <1>2 DEF Pulls
  <1>4. PICK row : row = Rows(Block(c))[d + 1]
    BY Zenon
  <1>5. row.kind \in Kinds /\ IsItem(c, row.kind, row.offset, row.hash)
    <2>1. Block(c) \in BlockSet /\ d + 1 \in 1..Len(Rows(Block(c)))
      BY <1>2, <1>3, RowsLen, Zenon
    <2>2. /\ row.kind \in Kinds
          /\ row.offset \in 1..Len(Items(row.kind, Block(c)))
          /\ Items(row.kind, Block(c))[row.offset] = row.hash
      BY <1>4, <2>1, RowsSound
    <2> QED
      BY <2>2, Zenon DEF IsItem
  <1>6. SaveRow(row, Block(c).height) /\ DOMAIN index = Kinds
    BY <1>1, <1>3, <1>4, Zenon DEF IInv, TypeOK
  <1>7. /\ DOMAIN index' = Kinds
        /\ row.hash \in DOMAIN index'[row.kind]
        /\ \A k \in Kinds : \A h \in DOMAIN index[k] : h \in DOMAIN index'[k]
        /\ \A k \in Kinds : \A h \in DOMAIN index'[k] :
             \/ /\ k = row.kind /\ h = row.hash
                /\ index'[k][h] = [height |-> Block(c).height, offset |-> row.offset]
             \/ h \in DOMAIN index[k] /\ index'[k][h] = index[k][h]
    BY <1>5, <1>6, SaveRowIndex
  <1>8. /\ pull' \in Pulls /\ pull'.at = "rows" /\ pull'.block = c /\ pull'.count = c
        /\ pull'.done = d + 1
    BY <1>1, <1>3 DEF Pulls
  <1>9. blocks' = blocks /\ \A e : Stored(e)' <=> Stored(e)
    BY Zenon DEF Stored
  <1>10. \A e : Done(e) => Done(e)'
    BY <1>7, <1>9, Zenon DEF Done
  <1>11. TypeOK'
    BY <1>7, <1>8, Zenon DEF IInv, TypeOK
  <1>12. RowsInv'
    BY <1>9, Zenon DEF IInv, RowsInv
  <1>13. IndexInv'
    <2>1. SUFFICES ASSUME NEW k \in Kinds, NEW h \in DOMAIN index'[k]
                   PROVE  \E e \in Counts : /\ Stored(e)
                                            /\ index'[k][h].height = Block(e).height
                                            /\ IsItem(e, k, index'[k][h].offset, h)
      BY <1>9, Zenon DEF IndexInv, IsItem
    <2>2. CASE /\ k = row.kind /\ h = row.hash
               /\ index'[k][h] = [height |-> Block(c).height, offset |-> row.offset]
      <3>1. index'[k][h].height = Block(c).height /\ index'[k][h].offset = row.offset
        BY <2>2
      <3> QED
        BY <1>1, <1>5, <2>2, <3>1, Zenon
    <2>3. CASE h \in DOMAIN index[k] /\ index'[k][h] = index[k][h]
      BY <2>3, Zenon DEF IInv, IndexInv
    <2> QED
      BY <1>7, <2>2, <2>3, Zenon
  <1>14. HeadInv'
    BY <1>10, HeadKept, Zenon DEF IInv
  <1>15. PullInv'
    <2>1. head' # NoPos
      BY Zenon DEF IInv, PullInv
    <2>2. pull'.done <= Len(Rows(Block(c)))
      BY <1>2, <1>3, <1>8
    <2>3. \A i \in 1..(d + 1) : Rows(Block(c))[i].hash \in DOMAIN index'[Rows(Block(c))[i].kind]
      <3>1. TAKE i \in 1..(d + 1)
      <3>2. CASE i = d + 1
        BY <1>4, <1>7, <3>2, Zenon
      <3>3. CASE i \in 1..d
        <4>1. i \in 1..n
          BY <1>3, <3>3
        <4>2. Rows(Block(c))[i].kind \in Kinds
          BY <1>2, <4>1, RowsLen, RowsSound, Zenon
        <4>3. Rows(Block(c))[i].hash \in DOMAIN index[Rows(Block(c))[i].kind]
          BY <1>1, <1>3, <3>3, Zenon DEF IInv, PullInv
        <4> QED
          BY <1>7, <4>2, <4>3, Zenon
      <3> QED
        BY <1>3, <3>2, <3>3
    <2>4. Stored(c)' /\ c \in Counts
      BY <1>1, <1>9, Zenon
    <2>5. pull'.at # "cas" /\ pull'.at # "save" /\ pull'.at # "add"
      BY <1>8
    <2> QED
      BY <1>8, <2>1, <2>2, <2>3, <2>4, <2>5, Zenon DEF PullInv, Counts
  <1>16. ApiInv'
    <2>1. service # "down"
      BY Zenon DEF IInv, ApiInv
    <2> QED
      BY <2>1, Zenon DEF IInv, ApiInv
  <1>17. ServedInv'
    BY ServedKept, Zenon DEF IInv
  <1> QED
    BY <1>11, <1>12, <1>13, <1>14, <1>15, <1>16, <1>17, Zenon DEF IInv

\* addBlock ends, or gives up because the service stops.
LEMMA AddEnd ==
  ASSUME IInv, pull.at = "rows", UNCHANGED <<blocks, index>>,
         \/ pull' = [Off EXCEPT !.at = "tick"]
         \/ /\ pull.done = Len(Rows(Block(pull.block)))
            /\ pull' = [pull EXCEPT !.at = "cas"],
         UNCHANGED <<tip, service, known, head, saved, api, read, served, crashes>>
  PROVE  IInv'
  <1>1. PICK c \in Counts : pull.block = c /\ pull.count = c /\ Stored(c) /\ pull \in Pulls
    BY Zenon DEF IInv, TypeOK, PullInv, Pulling
  <1>2. pull' \in Pulls /\ pull'.at \in {"tick", "cas"}
    BY <1>1 DEF Pulls, Off
  <1>3. TypeOK'
    BY <1>2, TablesKept, Zenon DEF IInv, TypeOK
  <1>4. HeadInv'
    BY TablesKept, HeadKept, Zenon DEF IInv
  <1>5. head' # NoPos
    BY Zenon DEF IInv, PullInv
  <1>6. PullInv'
    <2>1. CASE pull' = [Off EXCEPT !.at = "tick"]
      <3>1. pull'.at = "tick"
        BY <2>1 DEF Off
      <3> QED
        BY <1>5, <3>1, PullIdle, Zenon
    <2>2. CASE /\ pull.done = Len(Rows(Block(pull.block)))
               /\ pull' = [pull EXCEPT !.at = "cas"]
      <3>1. pull'.at = "cas" /\ pull'.block = c /\ pull'.count = c
        BY <1>1, <2>2 DEF Pulls
      <3>2. Done(c)
        <4>1. SUFFICES ASSUME NEW k \in Kinds, NEW h \in Range(Items(k, Block(c)))
                       PROVE  h \in DOMAIN index[k]
          BY <1>1, Zenon DEF Done
        <4>2. PICK i \in 1..Len(Rows(Block(c))) :
                Rows(Block(c))[i].kind = k /\ Rows(Block(c))[i].hash = h
          <5>1. Block(c) \in BlockSet
            BY RowsLen, Zenon
          <5> QED
            BY <5>1, RowsComplete
        <4>3. i \in 1..pull.done
          BY <1>1, <2>2, <4>2, Zenon
        <4>4. Rows(Block(c))[i].hash \in DOMAIN index[Rows(Block(c))[i].kind]
          <5>1. \A j \in 1..pull.done :
                  Rows(Block(c))[j].hash \in DOMAIN index[Rows(Block(c))[j].kind]
            BY <1>1, Zenon DEF IInv, PullInv
          <5> QED
            BY <4>3, <5>1, Zenon
        <4> QED
          BY <4>2, <4>4, Zenon
      <3>3. Done(c)' /\ Stored(c)'
        BY <1>1, <3>2, TablesKept, Zenon
      <3>4. pull'.at # "rows" /\ pull'.at # "save" /\ pull'.at # "add"
        BY <3>1
      <3> QED
        BY <1>5, <3>1, <3>3, <3>4, Zenon DEF PullInv, Counts
    <2> QED
      BY <2>1, <2>2, Zenon
  <1>7. ApiInv'
    <2>1. service # "down"
      BY Zenon DEF IInv, ApiInv
    <2> QED
      BY <2>1, Zenon DEF IInv, ApiInv
  <1>8. ServedInv'
    BY ServedKept, Zenon DEF IInv
  <1> QED
    BY <1>3, <1>4, <1>6, <1>7, <1>8, TablesKept, Zenon DEF IInv

\* The steps of addBlock.
LEMMA AddBlockInv == ASSUME IInv, addBlock PROVE IInv'
  BY AddFirst, AddRow, AddEnd, Zenon DEF addBlock

\* The head moves on past a block that is done, unless it was reset.
LEMMA AdvanceInv == ASSUME IInv, Advance PROVE IInv'
  <1>1. /\ UNCHANGED <<blocks, index>> /\ UNCHANGED <<blocks, served>> /\ pull.at = "cas"
        /\ api' = api /\ known' = known /\ tip' = tip /\ service' = service
        /\ saved' = saved /\ read' = read
    BY Zenon DEF Advance
  <1>2. PICK c \in Counts : /\ pull.block = c /\ pull.count = c /\ Stored(c) /\ Done(c)
                            /\ pull \in Pulls /\ c \in Nat
    BY <1>1, Ledger1, Zenon DEF IInv, TypeOK, PullInv, Pulling
  <1>3. service # "down" /\ head # NoPos
    BY <1>1, Zenon DEF IInv, ApiInv, PullInv
  <1>4. CASE /\ head = pull.count /\ head' = NextHead
             /\ pull' = [pull EXCEPT !.at = "save"]
    <2>1. head' = c + 1 /\ head' \in Heads /\ head' # NoPos
      BY <1>2, <1>4 DEF NextHead, Heads, NoPos
    <2>2. pull' \in Pulls /\ pull'.at = "save" /\ pull'.block = c /\ pull'.count = c
      BY <1>2, <1>4 DEF Pulls
    <2>3. \A e \in Counts : e <= c => Done(e)
      <3>1. TAKE e \in Counts
      <3>2. e \in Nat
        BY Ledger1, Zenon
      <3>3. e < head => Done(e)
        BY <1>3, Zenon DEF IInv, HeadInv
      <3> QED
        BY <1>2, <1>4, <3>2, <3>3
    <2>4. \A e \in Counts : e < head' => e <= c
      BY <1>2, <2>1, Ledger1
    <2>5. \A e : Done(e)' <=> Done(e)
      BY <1>1, TablesKept, Zenon
    <2>6. TypeOK'
      BY <1>1, <2>1, <2>2, TablesKept, Zenon DEF IInv, TypeOK
    <2>7. HeadInv'
      BY <1>1, <2>3, <2>4, <2>5, Zenon DEF IInv, HeadInv, Counts
    <2>8. PullInv'
      <3>1. pull'.at # "rows" /\ pull'.at # "cas" /\ pull'.at # "add"
        BY <2>2
      <3>2. Stored(c)'
        BY <1>1, <1>2, TablesKept, Zenon
      <3> QED
        BY <2>1, <2>2, <2>3, <2>5, <3>1, <3>2, Zenon DEF PullInv, Counts
    <2>9. ApiInv'
      BY <1>1, <1>3, <2>1, Zenon DEF IInv, ApiInv
    <2>10. ServedInv'
      BY <1>1, ServedKept, Zenon DEF IInv
    <2> QED
      BY <1>1, <2>6, <2>7, <2>8, <2>9, <2>10, TablesKept, Zenon DEF IInv
  <1>5. CASE pull' = [Off EXCEPT !.at = "tick"] /\ head' = head
    <2>1. pull' \in Pulls /\ pull'.at = "tick"
      BY <1>5 DEF Pulls, Off
    <2>2. TypeOK'
      BY <1>1, <1>5, <2>1, TablesKept, Zenon DEF IInv, TypeOK
    <2>3. HeadInv'
      BY <1>1, <1>5, TablesKept, HeadKept, Zenon DEF IInv
    <2>4. PullInv'
      BY <1>3, <1>5, <2>1, PullIdle, Zenon
    <2>5. ApiInv'
      BY <1>1, <1>3, <1>5, Zenon DEF IInv, ApiInv
    <2>6. ServedInv'
      BY <1>1, ServedKept, Zenon DEF IInv
    <2> QED
      BY <1>1, <2>2, <2>3, <2>4, <2>5, <2>6, TablesKept, Zenon DEF IInv
  <1> QED
    BY <1>4, <1>5, Zenon DEF Advance

\* The position after the block is saved.
LEMMA SaveNextInv == ASSUME IInv, SaveNext PROVE IInv'
  <1>1. /\ UNCHANGED <<blocks, index>> /\ UNCHANGED <<blocks, served>> /\ pull.at = "save"
        /\ api' = api /\ known' = known /\ tip' = tip /\ service' = service /\ head' = head
        /\ pull' = [Off EXCEPT !.at = "tick"] /\ (saved' = saved \/ saved' = NextHead)
        /\ read' = read
    BY Zenon DEF SaveNext, SavePosition
  <1>2. PICK c \in Counts : pull.block = c /\ pull.count = c /\ c \in Nat
    BY <1>1, Ledger1, Zenon DEF IInv, PullInv, Pulling
  <1>3. service # "down" /\ head # NoPos
    BY <1>1, Zenon DEF IInv, ApiInv, PullInv
  <1>4. NextHead = c + 1 /\ NextHead \in Heads
    BY <1>2 DEF NextHead, Heads
  <1>5. pull' \in Pulls /\ pull'.at = "tick"
    BY <1>1 DEF Pulls, Off
  <1>6. \A e \in Counts : e <= c => Done(e)
    BY <1>1, <1>2, Zenon DEF IInv, PullInv
  <1>7. \A e \in Counts : e < NextHead => e <= c
    BY <1>2, <1>4, Ledger1
  <1>8. \A e : Done(e)' <=> Done(e)
    BY <1>1, TablesKept, Zenon
  <1>9. TypeOK'
    BY <1>1, <1>4, <1>5, TablesKept, Zenon DEF IInv, TypeOK
  <1>10. HeadInv'
    BY <1>1, <1>6, <1>7, <1>8, Zenon DEF IInv, HeadInv, Counts
  <1>11. PullInv'
    BY <1>1, <1>3, <1>5, PullIdle, Zenon
  <1>12. ApiInv'
    BY <1>1, <1>3, Zenon DEF IInv, ApiInv
  <1>13. ServedInv'
    BY <1>1, ServedKept, Zenon DEF IInv
  <1> QED
    BY <1>1, <1>9, <1>10, <1>11, <1>12, <1>13, TablesKept, Zenon DEF IInv

\* getHighestBlock gives the count of a row, and no other has a higher one.
LEMMA Highest ==
  ASSUME IInv, HighestBlock # NoPos
  PROVE  /\ HighestBlock \in Nat
         /\ \E i \in 1..Len(blocks) : HighestBlock = blocks[i].count
         /\ \A i \in 1..Len(blocks) : blocks[i].count <= HighestBlock
  <1> DEFINE counts == {blocks[i].count : i \in 1..Len(blocks)}
  <1>1. blocks # <<>> /\ HighestBlock = Max(counts)
    BY Zenon DEF HighestBlock
  <1>2. counts \subseteq Nat
    <2>1. \A i \in 1..Len(blocks) : blocks[i] \in Row
      BY RowTypes, Zenon DEF IInv
    <2>2. \A d \in Counts : d \in Nat
      BY Ledger1, Zenon
    <2> QED
      BY <2>1, <2>2 DEF Row
  <1>3. PICK x \in counts : \A y \in counts : y <= x
    BY <1>1, Zenon DEF IInv, ServedInv
  <1>4. \A i \in 1..Len(blocks) : blocks[i].count \in counts
    OBVIOUS
  <1>5. \A x1 \in counts : \E i \in 1..Len(blocks) : x1 = blocks[i].count
    OBVIOUS
  <1> HIDE DEF counts
  <1>6. \A y \in counts : x >= y
    BY <1>2, <1>3
  <1>7. Max(counts) \in counts /\ \A y \in counts : Max(counts) >= y
    BY <1>6, Zenon DEF Max
  <1>8. Max(counts) \in Nat /\ \A y \in counts : y <= Max(counts)
    BY <1>2, <1>7, Zenon
  <1> QED
    BY <1>1, <1>4, <1>5, <1>7, <1>8, Zenon

\* The API gives out the newest block.
LEMMA GetHighestInv ==
  ASSUME IInv, NEW c \in Callers, GetHighestBlock(c)
  PROVE  IInv'
  <1>1. /\ UNCHANGED <<blocks, index>> /\ UNCHANGED <<saved, read, head, service>>
        /\ UNCHANGED <<blocks, index, pull>>
        /\ known' = known /\ tip' = tip /\ service = "up" /\ blocks' = blocks
    BY Zenon DEF GetHighestBlock
  <1>2. PICK a \in {"idle", "miss"} : api' = [api EXCEPT ![c] = a]
    BY Zenon DEF GetHighestBlock
  <1>3. served' = served \/ (HighestBlock # NoPos /\ served' = HighestBlock)
    BY Zenon DEF GetHighestBlock
  <1>4. served' \in Heads
    BY <1>3, Highest, Zenon DEF IInv, TypeOK, Heads
  <1>5. api' \in [Callers -> {"idle", "miss", "start", "saving", "again"}]
    BY <1>2 DEF IInv, TypeOK
  <1>6. TypeOK'
    BY <1>1, <1>4, <1>5, TablesKept, Zenon DEF IInv, TypeOK
  <1>7. HeadInv'
    BY <1>1, TablesKept, HeadKept, Zenon DEF IInv
  <1>8. PullInv'
    BY <1>1, PullKept, Zenon DEF IInv, PullInv
  <1>9. ApiInv'
    <2>1. \A d \in Callers : api'[d] \in {"start", "saving"} => api'[d] = api[d]
      BY <1>2 DEF IInv, TypeOK
    <2> QED
      BY <1>1, <2>1, Zenon DEF IInv, ApiInv
  <1>10. ServedInv'
    <2>1. CASE served' = served
      BY <1>1, <2>1, ServedKept, Zenon DEF IInv
    <2>2. CASE HighestBlock # NoPos /\ served' = HighestBlock
      <3>1. HighestBlock \in Nat /\ \E i \in 1..Len(blocks) : HighestBlock = blocks[i].count
        BY <2>2, Highest, Zenon
      <3>2. HighestBlock <= HighestBlock
        BY <3>1
      <3> QED
        BY <1>1, <2>2, <3>1, <3>2, Zenon DEF IInv, ServedInv
    <2> QED
      BY <1>3, <2>1, <2>2, Zenon
  <1> QED
    BY <1>1, <1>6, <1>7, <1>8, <1>9, <1>10, TablesKept, Zenon DEF IInv

\* A subscription sets the head to the oldest block.
LEMMA SubscribeInv ==
  ASSUME Positions \subseteq {"oldest"}, IInv, NEW c \in Callers, subscribe(c)
  PROVE  IInv'
  <1>1. /\ UNCHANGED <<blocks, index>> /\ UNCHANGED <<blocks, index, pull>>
        /\ UNCHANGED <<blocks, served>> /\ service' = service /\ saved' = saved
        /\ read' = read /\ known' \in BOOLEAN /\ tip' = tip /\ api[c] = "miss"
        /\ api' = [api EXCEPT ![c] = "start"]
    BY Zenon DEF subscribe
  <1>2. head' = 0
    <2>1. PICK pos \in Positions : head' = FromPos(pos)
      BY Zenon DEF subscribe
    <2>2. pos = "oldest"
      BY Zenon
    <2> QED
      BY <2>1, <2>2, Zenon DEF FromPos
  <1>3. head' \in Heads /\ head' # NoPos
    BY <1>2 DEF Heads, NoPos
  <1>4. service = "up"
    BY <1>1, Zenon DEF IInv, ApiInv
  <1>5. api' \in [Callers -> {"idle", "miss", "start", "saving", "again"}]
    BY <1>1 DEF IInv, TypeOK
  <1>6. TypeOK'
    BY <1>1, <1>3, <1>5, TablesKept, Zenon DEF IInv, TypeOK
  <1>7. HeadInv'
    <2>1. \A e \in Counts : ~(e < head')
      BY <1>2, Ledger1
    <2>2. \A e : Done(e)' <=> Done(e)
      BY <1>1, TablesKept, Zenon
    <2> QED
      BY <1>1, <2>1, <2>2, Zenon DEF IInv, HeadInv, Counts
  <1>8. PullInv'
    BY <1>1, <1>3, PullKept, Zenon
  <1>9. ApiInv'
    BY <1>1, <1>3, <1>4, Zenon DEF IInv, ApiInv
  <1>10. ServedInv'
    BY <1>1, ServedKept, Zenon DEF IInv
  <1> QED
    BY <1>1, <1>6, <1>7, <1>8, <1>9, <1>10, TablesKept, Zenon DEF IInv

\* The head is read to be saved.
LEMMA StartInv == ASSUME IInv, NEW c \in Callers, start(c) PROVE IInv'
  <1>1. /\ UNCHANGED <<blocks, index>> /\ UNCHANGED <<blocks, index, pull>>
        /\ UNCHANGED <<blocks, served>> /\ service' = service /\ head' = head
        /\ saved' = saved /\ read' = head
        /\ known' = known /\ tip' = tip /\ api[c] = "start"
        /\ api' = [api EXCEPT ![c] = "saving"]
    BY Zenon DEF start
  <1>2. service = "up" /\ head # NoPos
    BY <1>1, Zenon DEF IInv, ApiInv
  <1>3. api' \in [Callers -> {"idle", "miss", "start", "saving", "again"}]
    BY <1>1 DEF IInv, TypeOK
  <1>4. TypeOK'
    BY <1>1, <1>3, TablesKept, Zenon DEF IInv, TypeOK
  <1>5. HeadInv'
    <2>1. \A e : Done(e)' <=> Done(e)
      BY <1>1, TablesKept, Zenon
    <2> QED
      BY <1>1, <1>2, <2>1, Zenon DEF IInv, HeadInv, Counts
  <1>6. PullInv'
    BY <1>1, <1>2, PullKept, Zenon
  <1>7. ApiInv'
    BY <1>1, <1>2, Zenon DEF IInv, ApiInv
  <1>8. ServedInv'
    BY <1>1, ServedKept, Zenon DEF IInv
  <1> QED
    BY <1>1, <1>4, <1>5, <1>6, <1>7, <1>8, TablesKept, Zenon DEF IInv

\* What was read is saved, and the worker started.
LEMMA StartSavedInv == ASSUME IInv, NEW c \in Callers, startSaved(c) PROVE IInv'
  <1>1. /\ UNCHANGED <<blocks, index>> /\ UNCHANGED <<blocks, served>>
        /\ service' = service /\ head' = head /\ read' = NoPos
        /\ known' = known /\ tip' = tip /\ api[c] = "saving"
        /\ api' = [api EXCEPT ![c] = "again"]
        /\ pull' = IF pull.at = "off" THEN [Off EXCEPT !.at = "tick"] ELSE pull
    BY Zenon DEF startSaved
  <1>2. service = "up" /\ head # NoPos
    BY <1>1, Zenon DEF IInv, ApiInv
  <1>3. saved' = read
    BY <1>2, Zenon DEF startSaved, SavePosition
  <1>4. api' \in [Callers -> {"idle", "miss", "start", "saving", "again"}]
    BY <1>1 DEF IInv, TypeOK
  <1>5. pull' \in Pulls /\ (pull'.at = "tick" \/ pull' = pull)
    BY <1>1 DEF IInv, TypeOK, Pulls, Off
  <1>6. TypeOK'
    BY <1>1, <1>3, <1>4, <1>5, TablesKept, Zenon DEF IInv, TypeOK, Heads
  <1>7. HeadInv'
    <2>1. \A e : Done(e)' <=> Done(e)
      BY <1>1, TablesKept, Zenon
    <2>2. \A e \in Counts : ~(e < NoPos)
      BY Ledger1 DEF NoPos
    <2> QED
      BY <1>1, <1>2, <1>3, <2>1, <2>2, Zenon DEF IInv, HeadInv, Counts
  <1>8. PullInv'
    BY <1>1, <1>2, <1>5, PullKept, PullIdle, Zenon
  <1>9. ApiInv'
    BY <1>1, <1>2, Zenon DEF IInv, ApiInv
  <1>10. ServedInv'
    BY <1>1, ServedKept, Zenon DEF IInv
  <1> QED
    BY <1>1, <1>6, <1>7, <1>8, <1>9, <1>10, TablesKept, Zenon DEF IInv

\* The observer is told to stop.
LEMMA StopInv == ASSUME IInv, Stop PROVE IInv'
  <1>1. /\ UNCHANGED <<blocks, index>> /\ UNCHANGED <<blocks, served>>
        /\ UNCHANGED <<blocks, index, pull>> /\ saved' = saved /\ head' = head
        /\ known' = known /\ tip' = tip /\ api' = api /\ read' = read
        /\ service = "up" /\ service' = "stopping" /\ \A c \in Callers : api[c] = "idle"
    BY Zenon DEF Stop
  <1>2. TypeOK'
    BY <1>1, TablesKept, Zenon DEF IInv, TypeOK
  <1>3. HeadInv'
    <2>1. \A e : Done(e)' <=> Done(e)
      BY <1>1, TablesKept, Zenon
    <2> QED
      BY <1>1, <2>1, Zenon DEF IInv, HeadInv, Counts
  <1>4. PullInv'
    BY <1>1, PullKept, Zenon DEF IInv, PullInv
  <1>5. ApiInv'
    BY <1>1, Zenon DEF IInv, ApiInv
  <1>6. ServedInv'
    BY <1>1, ServedKept, Zenon DEF IInv
  <1> QED
    BY <1>1, <1>2, <1>3, <1>4, <1>5, <1>6, TablesKept, Zenon DEF IInv

\* The observer ends, having been told to or not.
LEMMA DownInv == ASSUME IInv, Stopped \/ Crash PROVE IInv'
  <1>1. /\ UNCHANGED <<blocks, index>> /\ UNCHANGED <<blocks, served>>
        /\ saved' = saved /\ head' = head /\ known' = known /\ tip' = tip
        /\ service' = "down" /\ pull' = Off /\ (read' = read \/ read' = NoPos)
    BY Zenon DEF Stopped, Crash
  <1>2. \A c \in Callers : api'[c] = "idle"
    BY Zenon DEF IInv, ApiInv, Stopped, Crash
  <1>3. api' \in [Callers -> {"idle", "miss", "start", "saving", "again"}]
    BY DEF IInv, TypeOK, Stopped, Crash
  <1>4. pull' \in Pulls /\ pull'.at = "off"
    BY <1>1 DEF Pulls, Off
  <1>5. TypeOK'
    BY <1>1, <1>3, <1>4, TablesKept, Zenon DEF IInv, TypeOK, Heads
  <1>6. HeadInv'
    <2>1. \A e : Done(e)' <=> Done(e)
      BY <1>1, TablesKept, Zenon
    <2>2. \A e \in Counts : ~(e < NoPos)
      BY Ledger1 DEF NoPos
    <2> QED
      BY <1>1, <2>1, <2>2, Zenon DEF IInv, HeadInv, Counts
  <1>7. PullInv'
    BY <1>4, PullIdle, Zenon
  <1>8. ApiInv'
    BY <1>2, <1>4, Zenon DEF ApiInv
  <1>9. ServedInv'
    BY <1>1, ServedKept, Zenon DEF IInv
  <1> QED
    BY <1>1, <1>5, <1>6, <1>7, <1>8, <1>9, TablesKept, Zenon DEF IInv

\* The observer starts again at its saved position.
LEMMA NewServiceInv == ASSUME IInv, NewService PROVE IInv'
  <1>1. /\ UNCHANGED <<blocks, index>> /\ UNCHANGED <<blocks, served>>
        /\ saved' = saved /\ head' = saved /\ known' \in BOOLEAN /\ tip' = tip /\ api' = api
        /\ service = "down" /\ service' = "up" /\ read' = read
        /\ pull' = IF saved # NoPos THEN [Off EXCEPT !.at = "tick"] ELSE Off
    BY Zenon DEF NewService
  <1>2. \A c \in Callers : api[c] = "idle"
    BY <1>1, Zenon DEF IInv, ApiInv
  <1>3. pull' \in Pulls /\ (pull'.at = "off" \/ (pull'.at = "tick" /\ head' # NoPos))
    BY <1>1 DEF Pulls, Off
  <1>4. TypeOK'
    BY <1>1, <1>3, TablesKept, Zenon DEF IInv, TypeOK
  <1>5. HeadInv'
    <2>1. \A e : Done(e)' <=> Done(e)
      BY <1>1, TablesKept, Zenon
    <2> QED
      BY <1>1, <2>1, Zenon DEF IInv, HeadInv, Counts
  <1>6. PullInv'
    BY <1>3, PullIdle, Zenon
  <1>7. ApiInv'
    BY <1>1, <1>2, Zenon DEF ApiInv
  <1>8. ServedInv'
    BY <1>1, ServedKept, Zenon DEF IInv
  <1> QED
    BY <1>1, <1>4, <1>5, <1>6, <1>7, <1>8, TablesKept, Zenon DEF IInv

\* Every step preserves the invariant.
LEMMA NextInv ==
  ASSUME Positions \subseteq {"oldest"}
  PROVE  IInv /\ [Next]_vars => IInv'
  <1> SUFFICES ASSUME IInv, [Next]_vars PROVE IInv'
    OBVIOUS
  <1>1. CASE Next
    BY <1>1, MineInv, FetchInv, AddBlockInv, AdvanceInv, SaveNextInv, GetHighestInv,
       SubscribeInv, StartInv, StartSavedInv, StopInv, DownInv, NewServiceInv, Zenon DEF Next, Work, Handle
  <1>2. CASE UNCHANGED vars
    <2>1. /\ UNCHANGED <<blocks, index>> /\ UNCHANGED <<saved, read, head, service>>
          /\ UNCHANGED <<blocks, index, pull>> /\ UNCHANGED <<blocks, served>>
          /\ api' = api /\ known' = known /\ tip' = tip
      BY <1>2, Zenon DEF vars
    <2>2. TypeOK'
      BY <2>1, TablesKept, Zenon DEF IInv, TypeOK
    <2>3. HeadInv'
      BY <2>1, TablesKept, HeadKept, Zenon DEF IInv
    <2>4. PullInv'
      BY <2>1, PullKept, Zenon DEF IInv, PullInv
    <2>5. ApiInv'
      BY <2>1, Zenon DEF IInv, ApiInv
    <2>6. ServedInv'
      BY <2>1, ServedKept, Zenon DEF IInv
    <2> QED
      BY <2>1, <2>2, <2>3, <2>4, <2>5, <2>6, TablesKept, Zenon DEF IInv
  <1> QED
    BY <1>1, <1>2

-----------------------------------------------------------------------------
(***************************************************************************)
(* The theorems.                                                           *)
(***************************************************************************)
\* Whatever has a row in another table is found through it.
LEMMA ItemFound ==
  ASSUME IInv, NEW k \in Kinds, NEW h \in DOMAIN index[k]
  PROVE  GetItem(k, h) = 200
  <1>1. PICK c \in Counts : /\ Stored(c)
                            /\ index[k][h].height = Block(c).height
                            /\ IsItem(c, k, index[k][h].offset, h)
    BY Zenon DEF IInv, IndexInv
  <1>2. PICK i \in 1..Len(blocks) : blocks[i].block = c
    BY <1>1, Zenon DEF Stored
  <1>3. getBlockByHeight(index[k][h].height) = i
    BY <1>1, <1>2, Firsts, Zenon DEF IInv
  <1>4. i # NoRow
    <2>1. Len(blocks) \in Nat
      BY RowTypes, Zenon DEF IInv
    <2> QED
      BY <2>1 DEF NoRow
  <1>5. Lookup(k, h) = "found"
    BY <1>1, <1>2, <1>3, <1>4, Zenon DEF Lookup, IsItem
  <1> QED
    BY <1>5, Zenon DEF GetItem

\* A block that is done is found by the API, and all it holds.
LEMMA DoneIndexed ==
  ASSUME IInv, NEW c \in Counts, Done(c)
  PROVE  Indexed(c)
  <1> DEFINE row == [block |-> c, count |-> c, height |-> Block(c).height]
  <1>1. PICK i \in 1..Len(blocks) : blocks[i].block = c
    BY Zenon DEF Done, Stored
  <1>2. getBlock(c) = i /\ getBlockByCount(c) = i /\ getBlockByHeight(Block(c).height) = i
    BY <1>1, Firsts, Zenon DEF IInv
  <1>3. i # NoRow
    <2>1. Len(blocks) \in Nat
      BY RowTypes, Zenon DEF IInv
    <2> QED
      BY <2>1 DEF NoRow
  <1>4. blocks[i] = row
    <2>1. blocks[i] \in Row /\ blocks[i].count = c /\ blocks[i].height = Block(c).height
      BY <1>1, RowTypes, Zenon DEF IInv, RowsInv
    <2> QED
      BY <1>1, <2>1 DEF Row
  <1>5. row.height = Block(c).height
    OBVIOUS
  <1> HIDE DEF row
  <1>6. /\ GetBlock(c) = [code |-> 200, row |-> row]
        /\ GetBlockByCount(c) = [code |-> 200, row |-> row]
        /\ GetBlockByHeight(row.height) = [code |-> 200, row |-> row]
    <2>1. Served(i) = [code |-> 200, row |-> row]
      BY <1>3, <1>4, Zenon DEF Served
    <2>2. GetBlock(c) = Served(i) /\ GetBlockByCount(c) = Served(i)
      BY <1>2, Zenon DEF GetBlock, GetBlockByCount
    <2>3. GetBlockByHeight(row.height) = Served(i)
      BY <1>2, <1>5, Zenon DEF GetBlockByHeight
    <2> QED
      BY <2>1, <2>2, <2>3, Zenon
  <1>7. {GetBlock(c), GetBlockByCount(c), GetBlockByHeight(row.height)}
          = {[code |-> 200, row |-> row]}
    <2>1. PICK w : w = [code |-> 200, row |-> row]
      BY Zenon
    <2>2. GetBlock(c) = w /\ GetBlockByCount(c) = w /\ GetBlockByHeight(row.height) = w
      BY <1>6, <2>1, Zenon
    <2>3. {w, w, w} = {w}
      OBVIOUS
    <2> QED
      BY <2>1, <2>2, <2>3, Zenon
  <1>8. ASSUME NEW k \in Kinds, NEW h \in Range(Items(k, Block(c)))
        PROVE  GetItem(k, h) = 200
    <2>1. h \in DOMAIN index[k]
      BY Zenon DEF Done
    <2> QED
      BY <2>1, ItemFound, Zenon
  <1> QED
    BY <1>7, <1>8, Zenon DEF Indexed, row

\* The invariant gives IndexedBelow.
LEMMA InvIndexed == IInv => IndexedBelow
  BY DoneIndexed, ItemFound, Zenon DEF IInv, HeadInv, IndexedBelow

\* With subscriptions from the oldest block on, which are those the API makes, and
\* whatever the blocks, the number of callers, and how often the observer stops or crashes
\* between two statements of addBlock and pull: every block below the position in memory and
\* the saved one is found by hash, count and height, with all its acks, requests and
\* responses, and no row of the index leads to ErrInconsistentData.
THEOREM Indexing ==
  ASSUME Positions \subseteq {"oldest"}
  PROVE  Spec => []IndexedBelow
  <1>1. Init => IInv
    BY InitInv
  <1>2. IInv /\ [Next]_vars => IInv'
    BY NextInv
  <1>3. IInv => IndexedBelow
    BY InvIndexed
  <1> QED
    BY <1>1, <1>2, <1>3, PTL DEF Spec

\* What the API gives out as the newest block is not older than what it gave out before.
LEMMA ServedUp ==
  ASSUME IInv, Next
  PROVE  served' >= served
  <1>1. served \in Heads
    BY Zenon DEF IInv, TypeOK
  <1>2. CASE served' = served
    BY <1>1, <1>2 DEF Heads, NoPos
  <1>3. CASE HighestBlock # NoPos /\ served' = HighestBlock
    <2>1. HighestBlock \in Nat
      BY <1>3, Highest, Zenon
    <2>2. CASE served = NoPos
      BY <1>3, <2>1, <2>2 DEF NoPos
    <2>3. CASE served # NoPos
      <3>1. PICK i \in 1..Len(blocks) : served <= blocks[i].count
        BY <2>3, Zenon DEF IInv, ServedInv
      <3>2. PICK n : n = blocks[i].count
        BY Zenon
      <3>3. n <= HighestBlock
        BY <1>3, <3>2, Highest, Zenon
      <3>4. n \in Nat
        <4>1. blocks[i] \in Row
          BY RowTypes, Zenon DEF IInv
        <4>2. \A d \in Counts : d \in Nat
          BY Ledger1, Zenon
        <4> QED
          BY <3>2, <4>1, <4>2 DEF Row
      <3>5. served <= n /\ served \in Nat
        BY <1>1, <2>3, <3>1, <3>2, Zenon DEF Heads
      <3> QED
        BY <1>3, <2>1, <3>3, <3>4, <3>5
    <2> QED
      BY <2>2, <2>3
  <1>4. served' = served \/ (HighestBlock # NoPos /\ served' = HighestBlock)
    BY Zenon DEF Next, Mine, Work, Fetch, addBlock, Advance, SaveNext, Stop, Stopped, Crash,
       NewService, Handle, GetHighestBlock, subscribe, start, startSaved
  <1> QED
    BY <1>2, <1>3, <1>4

\* The head moves on by one, or is reset.
LEMMA HeadUp ==
  ASSUME IInv, Next, service = "up"
  PROVE  head' = head \/ head' = head + 1 \/ head' \in {FromPos(pos) : pos \in Positions}
  <1>1. CASE Advance
    <2>1. pull.at = "cas"
      BY <1>1, Zenon DEF Advance
    <2>2. PICK c \in Counts : pull.count = c /\ c \in Nat
      BY <2>1, Ledger1, Zenon DEF IInv, PullInv, Pulling
    <2>3. NextHead = pull.count + 1
      BY <2>2 DEF NextHead
    <2> QED
      BY <1>1, <2>3, Zenon DEF Advance
  <1>2. CASE \E c \in Callers : subscribe(c)
    BY <1>2, Zenon DEF subscribe
  <1>3. CASE ~Advance /\ ~\E c \in Callers : subscribe(c)
    <2>1. service # "down"
      BY Zenon
    <2> QED
      BY <1>3, <2>1, Zenon DEF Next, Mine, Work, Fetch, addBlock, SaveNext, Stop, Stopped,
         Crash, NewService, Handle, GetHighestBlock, start, startSaved
  <1> QED
    BY <1>1, <1>2, <1>3

\* With those subscriptions, while the observer runs, its position moves on by one block or
\* is reset by a subscription, and the API never gives out an older block as the newest one
\* than it did before.
THEOREM Forward ==
  ASSUME Positions \subseteq {"oldest"}
  PROVE  Spec => NeverBack
  <1>1. Init => IInv
    BY InitInv
  <1>2. IInv /\ [Next]_vars => IInv'
    BY NextInv
  <1>3. IInv /\ [Next]_vars =>
          [/\ served' >= served
           /\ (service = "up" /\ known /\ service' = "up" /\ head' # head)
                => head' = head + 1 \/ head' \in {FromPos(pos) : pos \in Positions}]_vars
    <2> SUFFICES ASSUME IInv, Next
                 PROVE  /\ served' >= served
                        /\ (service = "up" /\ known /\ service' = "up" /\ head' # head)
                             => \/ head' = head + 1
                                \/ head' \in {FromPos(pos) : pos \in Positions}
      BY Zenon
    <2>1. served' >= served
      BY ServedUp, Zenon
    <2> QED
      BY <2>1, HeadUp, Zenon
  <1> QED
    BY <1>1, <1>2, <1>3, PTL DEF Spec, NeverBack

=============================================================================
