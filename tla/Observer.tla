----------------------------- MODULE Observer -----------------------------
(***************************************************************************)
(* The observer of a SQL chain: a worker pulls the blocks of a database    *)
(* one by one from its leading miner, indexes them in SQLite and remembers *)
(* its position; an HTTP API serves the index and starts the subscription. *)
(*                                                                         *)
(* Every SQL statement is a step: the observer may crash, or be told to    *)
(* stop, between any two of them. The chain of the miner is the first      *)
(* `tip' blocks after the genesis block of Ledger; a block is known by its *)
(* position there.                                                         *)
(***************************************************************************)
EXTENDS Integers, Sequences, FiniteSets, FiniteSetsExt, Functions

CONSTANTS Ledger,     \* the blocks, genesis first: height, acks, queries and failed
                      \* requests; a query is its hash and its type
          Callers,    \* requests of the API for the newest block
          Positions,  \* the positions subscribe is called with
          MaxCrashes  \* bound

Kinds == {"ack", "request", "response"}
Query == [hash : STRING, type : {"read", "write"}]
BlockSet == [height : Nat, acks : Seq(STRING), queries : Seq(Query), failed : Seq(Query)]

ASSUME ObserverAssumption ==
  /\ Ledger \in Seq(BlockSet) /\ Ledger # <<>>
  \* a SQL chain has one block per height (ChainsMatch of SQLChain)
  /\ \A i, j \in 1..Len(Ledger) : i < j => Ledger[i].height < Ledger[j].height
  /\ Positions \subseteq {"oldest", "newest"} /\ MaxCrashes \in Nat

VARIABLES
  tip,       \* the count of the newest block of the miner
  service,   \* "up", "stopping", "down"
  known,     \* there is a subscribeWorker for the database
  head,      \* its head
  pull,      \* its goroutine: where it is, and the block it adds
  blocks,    \* table block, in the order of the rows
  index,     \* tables ack, request, response: hash -> height and offset
  saved,     \* table subscription: the last row
  api,       \* where the handler of a request is
  read,      \* the head that subscribeWorker.start has read and will save
  served,    \* the newest block the API has given out
  crashes

vars == <<tip, service, known, head, pull, blocks, index, saved, api, read, served,
          crashes>>

NoPos == -2
Off == [at |-> "off", count |-> 0, block |-> 0, done |-> 0]
Block(c) == Ledger[c + 1]

\* The rows a block gets besides its own, in the order addBlock writes them.
Rows(b) ==
  [i \in 1..Len(b.acks) |-> [kind |-> "ack", hash |-> b.acks[i], offset |-> i]]
    \o [i \in 1..(2 * Len(b.queries)) |->
          LET at == (i + 1) \div 2 IN
          [kind |-> IF i % 2 = 1 THEN "request" ELSE "response",
           hash |-> b.queries[at].hash, offset |-> at]]

--------------------------------------------------------------------------
(* What the service reads from its tables *)

\* The first row with a value in a column, as LIMIT 1 gives it; NoRow.
NoRow == 0
First(column, value) ==
  LET rows == {i \in 1..Len(blocks) : blocks[i][column] = value} IN
  IF rows = {} THEN NoRow ELSE Min(rows)

getBlockByHeight(h) == First("height", h)
getBlockByCount(n) == First("count", n)
getBlock(c) == First("block", c)

\* The hashes of the part of block b that a row of a kind points into.
Items(kind, b) ==
  IF kind = "ack" THEN b.acks ELSE [i \in 1..Len(b.queries) |-> b.queries[i].hash]

\* getAck, getRequest, getResponseHeader: the row, the block of its height, the
\* item at its offset, whose hash is compared.
Lookup(kind, hash) ==
  IF hash \notin DOMAIN index[kind] THEN "not found"
  ELSE LET row == index[kind][hash]
           at  == getBlockByHeight(row.height)
       IN  IF at = NoRow THEN "not found"
           ELSE LET items == Items(kind, Block(blocks[at].block)) IN
                IF row.offset \in 1..Len(items) /\ items[row.offset] = hash
                THEN "found" ELSE "inconsistent"

\* GetAck, GetRequest, GetResponse: the status of the answer.
GetItem(kind, hash) == IF Lookup(kind, hash) = "found" THEN 200 ELSE 500

\* GetBlock, GetBlockByCount, GetBlockByHeight and their later versions: count,
\* height and block of the row.
Served(at) == IF at = NoRow THEN [code |-> 500] ELSE [code |-> 200, row |-> blocks[at]]
GetBlock(c) == Served(getBlock(c))
GetBlockByCount(n) == Served(getBlockByCount(n))
GetBlockByHeight(h) == Served(getBlockByHeight(h))

\* getHighestBlock: ORDER BY count DESC.
HighestBlock == IF blocks = <<>> THEN NoPos ELSE Max({blocks[i].count : i \in 1..Len(blocks)})

\* newPaginationFromReq: the defaults for what is missing.
PageNo(page) == IF page <= 0 THEN 1 ELSE page
PageSize(size) == IF size <= 0 THEN 10 ELSE size

\* What the two loops of formatBlockV3 run over: the queries, then the failed requests.
Track(q, failed) == [hash |-> q.hash, type |-> q.type, failed |-> failed]
Tracks(b) ==
  [i \in 1..Len(b.queries) |-> Track(b.queries[i], FALSE)]
    \o [i \in 1..Len(b.failed) |-> Track(b.failed[i], TRUE)]

Wanted(t, type) == type \in {"read", "write"} => t.type = type

\* Mutant: a request of another type counts too.
VisitAll(at, t, type, offset, end) ==
  IF at.returned THEN at
  ELSE IF at.pos >= end THEN [at EXCEPT !.returned = TRUE]
  ELSE [at EXCEPT !.pos = @ + 1,
                  !.tracks = IF at.pos >= offset /\ Wanted(t, type) THEN Append(@, t) ELSE @]

\* The body of the loops, with pos and the tracks so far: a request of another type is
\* skipped, and the first one after the page ends both loops.
Visit(at, t, type, offset, end) ==
  IF at.returned \/ ~Wanted(t, type) THEN at
  ELSE IF at.pos >= end THEN [at EXCEPT !.returned = TRUE]
  ELSE [at EXCEPT !.pos = @ + 1,
                  !.tracks = IF at.pos >= offset THEN Append(@, t) ELSE @]

\* formatBlockV3: the tracks of a page ...
Page(b, type, page, size) ==
  LET offset == (PageNo(page) - 1) * PageSize(size)
      end == PageNo(page) * PageSize(size)
      loop[i \in 0..Len(Tracks(b))] ==
        IF i = 0 THEN [pos |-> 0, tracks |-> <<>>, returned |-> FALSE]
        ELSE Visit(loop[i - 1], Tracks(b)[i], type, offset, end)
  IN  loop[Len(Tracks(b))].tracks

\* ... and the total.
Total(b, type) ==
  IF type \notin {"read", "write"} THEN Len(b.queries) + Len(b.failed)
  ELSE Cardinality({i \in 1..Len(b.queries) : b.queries[i].type = type})
         + Cardinality({i \in 1..Len(b.failed) : b.failed[i].type = type})

--------------------------------------------------------------------------
(* The service and its database *)

Init ==
  /\ tip = 0 /\ service = "up" /\ known = FALSE /\ head = NoPos /\ pull = Off
  /\ blocks = <<>>
  /\ index = [k \in Kinds |-> [h \in {} |-> 0]]
  /\ saved = NoPos
  /\ api = [c \in Callers |-> "idle"] /\ read = NoPos
  /\ served = NoPos /\ crashes = 0

\* External: the miner stores another block of the SQL chain.
Mine ==
  /\ tip + 1 < Len(Ledger)
  /\ tip' = tip + 1
  /\ UNCHANGED <<service, known, head, pull, blocks, index, saved, api, read, served, crashes>>

\* INSERT OR REPLACE INTO block, whose key is the hash: a block stored before gets a new
\* row.
SaveBlock(c, count) ==
  LET at == getBlock(c)
      others == IF at = NoRow THEN blocks
                ELSE SubSeq(blocks, 1, at - 1) \o SubSeq(blocks, at + 1, Len(blocks))
  IN
  blocks' = Append(others, [block |-> c, count |-> count, height |-> Block(c).height])

\* INSERT OR REPLACE INTO ack, request or response.
SaveRow(row, height) ==
  index' = [index EXCEPT ![row.kind] =
              [h \in DOMAIN @ \cup {row.hash} |->
                 IF h = row.hash THEN [height |-> height, offset |-> row.offset]
                 ELSE @[h]]]

\* saveSubscriptionStatus.
SavePosition(pos) == saved' = IF service = "up" THEN pos ELSE saved

NoBlock == -1

\* Chain.FetchBlockByCount of the miner: the newest block for a negative count.
FetchBlockByCount(count) ==
  IF count < 0 THEN tip ELSE IF count <= tip THEN count ELSE NoBlock

\* DBMS.observerFetchBlock: the block, or an error: an unknown node, no permission to
\* read, a database the miner does not have.
observerFetchBlock(count) == {FetchBlockByCount(count), NoBlock}

\* Mutant: the position is saved before the block is added.
FetchAndSave ==
  /\ pull.at = "tick"
  /\ \E c \in observerFetchBlock(head) \ {NoBlock} :
       pull' = [at |-> "add", count |-> head, block |-> c, done |-> 0]
  /\ SavePosition(head + 1)
  /\ UNCHANGED <<tip, service, known, head, blocks, index, api, read, served, crashes>>

\* run and pull, up to the answer of the miner. An error, or no block, is retried a
\* period later.
Fetch ==
  /\ pull.at = "tick"
  /\ \E c \in observerFetchBlock(head) \ {NoBlock} :
       pull' = [at |-> "add", count |-> head, block |-> c, done |-> 0]
  /\ UNCHANGED <<tip, service, known, head, blocks, index, saved, api, read, served, crashes>>

\* addBlock, addAck, addQueryTracker: the block, then a row for each of its acks,
\* requests and responses. Only the latter look whether the service has stopped.
addBlock ==
  /\ \/ /\ pull.at = "add"
        /\ SaveBlock(pull.block, pull.count)
        /\ pull' = [pull EXCEPT !.at = "rows"] /\ UNCHANGED index
     \/ /\ pull.at = "rows" /\ pull.done < Len(Rows(Block(pull.block))) /\ service = "up"
        /\ SaveRow(Rows(Block(pull.block))[pull.done + 1], Block(pull.block).height)
        /\ pull' = [pull EXCEPT !.done = @ + 1]
        /\ UNCHANGED blocks
     \/ /\ pull.at = "rows" /\ pull.done < Len(Rows(Block(pull.block))) /\ service # "up"
        /\ pull' = [Off EXCEPT !.at = "tick"] /\ UNCHANGED <<blocks, index>>
     \/ /\ pull.at = "rows" /\ pull.done = Len(Rows(Block(pull.block)))
        /\ pull' = [pull EXCEPT !.at = "cas"] /\ UNCHANGED <<blocks, index>>
  /\ UNCHANGED <<tip, service, known, head, saved, api, read, served, crashes>>

NextHead == IF pull.count < 0 THEN pull.block + 1 ELSE pull.count + 1

\* Mutant: the head is stored, whatever it has become.
AdvanceAnyway ==
  /\ pull.at = "cas"
  /\ head' = NextHead /\ pull' = [pull EXCEPT !.at = "save"]
  /\ UNCHANGED <<tip, service, known, blocks, index, saved, api, read, served, crashes>>

\* The end of pull: the head moves on unless it was reset meanwhile ...
Advance ==
  /\ pull.at = "cas"
  /\ IF head = pull.count
     THEN head' = NextHead /\ pull' = [pull EXCEPT !.at = "save"]
     ELSE pull' = [Off EXCEPT !.at = "tick"] /\ UNCHANGED head
  /\ UNCHANGED <<tip, service, known, blocks, index, saved, api, read, served, crashes>>

\* ... and the new position is saved.
SaveNext ==
  /\ pull.at = "save"
  /\ SavePosition(NextHead)
  /\ pull' = [Off EXCEPT !.at = "tick"]
  /\ UNCHANGED <<tip, service, known, head, blocks, index, api, read, served, crashes>>

--------------------------------------------------------------------------
(* The API *)

\* GetHighestBlock, V2, V3: the newest block, or an attempt to subscribe.
GetHighestBlock(c) ==
  /\ service = "up" /\ api[c] \in {"idle", "again"}
  /\ IF HighestBlock # NoPos
     THEN served' = HighestBlock /\ api' = [api EXCEPT ![c] = "idle"]
     ELSE /\ api' = [api EXCEPT ![c] = IF api[c] = "idle" THEN "miss" ELSE "idle"]
          /\ UNCHANGED served
  /\ UNCHANGED <<tip, service, known, head, pull, blocks, index, saved, read, crashes>>

FromPos(pos) == IF pos = "oldest" THEN 0 ELSE -1

\* subscribe: a new worker, or the present one, is reset to the position ...
subscribe(c) ==
  /\ api[c] = "miss"
  /\ known' = TRUE
  /\ \E pos \in Positions : head' = FromPos(pos)
  /\ api' = [api EXCEPT ![c] = "start"]
  /\ UNCHANGED <<tip, service, pull, blocks, index, saved, read, served, crashes>>

\* ... and started: subscribeWorker.start takes its lock and reads the head ...
start(c) ==
  /\ api[c] = "start" /\ \A d \in Callers : api[d] # "saving"
  /\ read' = head
  /\ api' = [api EXCEPT ![c] = "saving"]
  /\ UNCHANGED <<tip, service, known, head, pull, blocks, index, saved, served, crashes>>

\* ... saves what it has read, whatever pull has saved meanwhile, and starts the
\* goroutine unless it runs.
startSaved(c) ==
  /\ api[c] = "saving"
  /\ SavePosition(read) /\ read' = NoPos
  /\ pull' = IF pull.at = "off" THEN [Off EXCEPT !.at = "tick"] ELSE pull
  /\ api' = [api EXCEPT ![c] = "again"]
  /\ UNCHANGED <<tip, service, known, head, blocks, index, served, crashes>>

--------------------------------------------------------------------------
(* Stop, crash, restart *)

\* StopObserver waits for the handlers of the API, then Service.stop.
Stop ==
  /\ service = "up" /\ \A c \in Callers : api[c] = "idle"
  /\ crashes < MaxCrashes /\ crashes' = crashes + 1
  /\ service' = "stopping"
  /\ UNCHANGED <<tip, known, head, pull, blocks, index, saved, api, read, served>>

\* subscribeWorker.stop waits for the goroutine; the database is closed.
Stopped ==
  /\ service = "stopping" /\ pull.at \in {"off", "tick"}
  /\ service' = "down" /\ pull' = Off
  /\ UNCHANGED <<tip, known, head, blocks, index, saved, api, read, served, crashes>>

Crash ==
  /\ service # "down" /\ crashes < MaxCrashes /\ crashes' = crashes + 1
  /\ service' = "down" /\ pull' = Off
  /\ api' = [c \in Callers |-> "idle"] /\ read' = NoPos
  /\ UNCHANGED <<tip, known, head, blocks, index, saved, served>>

\* Mutant: the loaded subscriptions are not started.
NewServiceIdle ==
  /\ service = "down" /\ service' = "up"
  /\ known' = (saved # NoPos) /\ head' = saved /\ pull' = Off
  /\ UNCHANGED <<tip, blocks, index, saved, api, read, served, crashes>>

\* NewService and Service.start: the subscriptions go on at their last row.
NewService ==
  /\ service = "down" /\ service' = "up"
  /\ known' = (saved # NoPos) /\ head' = saved
  /\ pull' = IF saved # NoPos THEN [Off EXCEPT !.at = "tick"] ELSE Off
  /\ UNCHANGED <<tip, blocks, index, saved, api, read, served, crashes>>

--------------------------------------------------------------------------

Work == Fetch \/ addBlock \/ Advance \/ SaveNext
Handle(c) == GetHighestBlock(c) \/ subscribe(c) \/ start(c) \/ startSaved(c)

Next ==
  \/ Mine \/ Work \/ Stop \/ Stopped \/ Crash \/ NewService
  \/ \E c \in Callers : Handle(c)

\* The goroutine of the worker goes on and the miner answers it again and again; a
\* handler that has begun goes on; the select of run sees the stop channel at last;
\* whoever stops the observer starts it again.
Fairness ==
  /\ WF_vars(Work) /\ SF_vars(Stopped) /\ WF_vars(NewService)
  /\ \A c \in Callers : WF_vars(api[c] # "idle" /\ Handle(c))

Spec == Init /\ [][Next]_vars /\ Fairness

--------------------------------------------------------------------------
(* Properties *)

Counts == 0..(Len(Ledger) - 1)
\* The API finds block c, by hash, count and height, and all it holds.
Indexed(c) ==
  /\ LET row == [block |-> c, count |-> c, height |-> Block(c).height] IN
     {GetBlock(c), GetBlockByCount(c), GetBlockByHeight(row.height)} = {[code |-> 200, row |-> row]}
  /\ \A k \in Kinds : \A h \in Range(Items(k, Block(c))) : GetItem(k, h) = 200

(* Every block below the position of the subscription, the one in memory and the one
   a restart resumes from, is indexed with all its acks, requests and responses:
   a crash or a stop between two statements of addBlock, or a reset during a pull,
   leaves no hole (pull, saveSubscriptionStatus). Whatever was written so far, a row
   of the ack, request or response table leads to a stored block that holds the item
   at that offset: getAck and its like never return ErrInconsistentData. *)
IndexedBelow ==
  /\ \A c \in Counts : (c < saved \/ (service # "down" /\ c < head)) => Indexed(c)
  /\ \A k \in Kinds : \A h \in DOMAIN index[k] : GetItem(k, h) = 200

(* While the observer runs, its position moves on by one block or is reset by a
   subscription: a pull that was under way does not undo the reset. And the API never
   gives out an older block as the newest one than it did before. *)
NeverBack ==
  [][/\ served' >= served
     /\ (service = "up" /\ known /\ service' = "up" /\ head' # head)
          => head' = head + 1 \/ head' \in {FromPos(pos) : pos \in Positions}]_vars

(* The pages of a block (looked at when it has been added) that the loops of formatBlockV3 give
   out, of any size, are its requests of the type asked for, each once, with their
   order and their outcome, and the total is their number: the loops skip, count and
   return early without losing or repeating a request at the border of two pages or
   between the queries and the failed requests. *)
PagesPartition ==
  \A size \in 1..3, type \in {"all", "read", "write"} : pull.at = "cas" =>
    LET b == Block(pull.block)
        all == SelectSeq(Tracks(b), LAMBDA t : type \in {"all", t.type})
    IN
    /\ \A p \in 1..(Len(all) + 1) :
         Page(b, type, p, size) = SubSeq(all, (p - 1) * size + 1, Min({p * size, Len(all)}))
    /\ Page(b, type, 0, 0) = SubSeq(all, 1, Min({10, Len(all)}))
    /\ Total(b, type) = Len(all)

(* Once a database is subscribed, the observer is up, sooner or later, with a position
   past the newest block of the miner, whatever resets, stops and crashes come between;
   IndexedBelow says that all blocks are indexed then. The saved position may stay
   behind: start can write the head it has read after pull has saved a newer one. *)
CatchesUp == saved # NoPos ~> (service = "up" /\ head > tip)

=============================================================================
