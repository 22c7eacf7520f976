--------------------------- MODULE ClientProofs ---------------------------
(***************************************************************************)
(* Proofs about Client: the connections of the driver, the pools below     *)
(* them, and the directory.                                                *)
(***************************************************************************)
EXTENDS Client, TLAPS

\* The backend of a leaf that names none.
USE Zenon

-----------------------------------------------------------------------------
(***************************************************************************)
(* Records and sequences that change in one place.                         *)
(***************************************************************************)
\* A sequence with another element at i.
LEMMA Replace ==
  ASSUME NEW T, NEW q \in Seq(T), NEW i \in 1..Len(q), NEW x \in T
  PROVE  /\ [q EXCEPT ![i] = x] \in Seq(T)
         /\ Len([q EXCEPT ![i] = x]) = Len(q)
         /\ [q EXCEPT ![i] = x][i] = x
         /\ \A j \in 1..Len(q) : j # i => [q EXCEPT ![i] = x][j] = q[j]
BY SMT

\* A sequence with one element more.
LEMMA Longer ==
  ASSUME NEW T, NEW q \in Seq(T), NEW x \in T
  PROVE  /\ Append(q, x) \in Seq(T)
         /\ Len(Append(q, x)) = Len(q) + 1
         /\ Append(q, x)[Len(q) + 1] = x
         /\ \A j \in 1..Len(q) : Append(q, x)[j] = q[j]
BY SMT

\* Head and Tail of a sequence that is not empty.
LEMMA Shorter ==
  ASSUME NEW T, NEW q \in Seq(T), q # <<>>
  PROVE  /\ Head(q) \in T /\ Tail(q) \in Seq(T)
         /\ Head(q) = q[1] /\ Len(Tail(q)) = Len(q) - 1
         /\ \A j \in 1..(Len(q) - 1) : Tail(q)[j] = q[j + 1]
BY SMT

\* The elements of a sequence.
LEMMA Elements ==
  ASSUME NEW T, NEW q \in Seq(T)
  PROVE  /\ \A i \in 1..Len(q) : q[i] \in Range(q)
         /\ \A x \in Range(q) : \E i \in 1..Len(q) : x = q[i]
BY SMT DEF Range

-----------------------------------------------------------------------------
(***************************************************************************)
(* The inductive invariant of the connections.                             *)
(***************************************************************************)
Write == Threads \X Nat \X Nat
Request == [id : Nat, type : {"read", "write"}, queries : Seq(Write), target : Peers,
            by : Threads, late : BOOLEAN,
            at : {"wire", "verified", "refused", "recorded", "done", "failed"}]
Unit == [writes : Seq(Write), how : {"ok", "error", "rollback"}]
ConnState == [at : {"none", "open", "call", "closing", "closed"}, inTransaction : BOOLEAN,
              queries : Seq(Write), call : Nat]

\* Every variable of Conn has the type its Go counterpart has.
ConnType ==
  /\ connIDAvail \in Seq(Nat) /\ drawn \in Nat
  /\ conn \in [Threads -> ConnState]
  /\ request \in Seq(Request)
  /\ \A id \in DOMAIN connSeqs : connSeqs[id] \in Nat
  /\ applied \in Seq(Seq(Write))
  /\ ackCh \in [Threads -> [Peers -> Seq(Nat)]]
  /\ working \in [Threads -> [Peers -> SUBSET Nat]]
  /\ acked \subseteq Nat
  /\ units \in [Threads -> Seq(Unit)]

\* The writes q are those of the unit of t after k others, in order.
Batch(q, t, k) == \A i \in 1..Len(q) : q[i] = <<t, k, i - 1>>

\* The writes kept in a transaction are those of the next unit of the thread, and a unit
\* that has ended has its own.
BatchInv ==
  /\ \A t \in Threads : /\ Batch(conn[t].queries, t, Len(units[t]))
                        /\ conn[t].inTransaction \/ conn[t].queries = <<>>
  /\ \A t \in Threads : \A i \in 1..Len(units[t]) : Batch(units[t][i].writes, t, i - 1)

\* A call is about a request of its thread, with the writes of its next unit.
CallInv ==
  \A t \in Threads : conn[t].at = "call" =>
    /\ conn[t].call \in 1..Len(request)
    /\ request[conn[t].call].by = t
    /\ request[conn[t].call].type = "write" =>
         Batch(request[conn[t].call].queries, t, Len(units[t]))

\* The request of a unit of t that was not rolled back, or of its call.
Owned(s, t) ==
  \/ \E i \in 1..Len(units[t]) : units[t][i].writes = request[s].queries
                                 /\ units[t][i].how # "rollback"
  \/ conn[t].at = "call" /\ conn[t].call = s

\* No two requests have the same writes.
SentInv ==
  /\ \A s \in 1..Len(request) : request[s].type = "write" =>
       request[s].queries # <<>> /\ Owned(s, request[s].by)
  /\ \A s, r \in 1..Len(request) :
       request[s].type = "write" /\ request[r].type = "write"
         /\ request[s].queries = request[r].queries => s = r

Executed(s) == request[s].type = "write" /\ request[s].at = "done"

\* What was executed are the writes of the requests that are done, each once.
AppliedInv ==
  /\ \A s \in 1..Len(request) :
       request[s].at \in {"verified", "recorded", "failed"} => request[s].type = "write"
  /\ \A i \in 1..Len(applied) :
       \E s \in 1..Len(request) : Executed(s) /\ request[s].queries = applied[i]
  /\ \A s \in 1..Len(request) : Executed(s) =>
       \E i \in 1..Len(applied) : request[s].queries = applied[i]
  /\ \A i, j \in 1..Len(applied) : applied[i] = applied[j] => i = j

\* The ack of request s was sent, or is on its way.
Acking(s, t) ==
  s \in acked \/ \E p \in Peers : s \in working[t][p] \/ s \in Range(ackCh[t][p])

\* A unit that ended well was executed, and has an ack; a closed connection has none left.
AcksInv ==
  /\ \A t \in Threads : \A i \in 1..Len(units[t]) : units[t][i].how = "ok" =>
       \E s \in 1..Len(request) :
         Executed(s) /\ request[s].queries = units[t][i].writes /\ Acking(s, t)
  /\ \A t \in Threads : conn[t].at = "closed" => \A p \in Peers : WorkersGone(t, p)

\* The number recorded for an id is the highest, unless it went down once.
SequenceInv ==
  \A s \in 1..Len(request) :
    /\ ~request[s].late
    /\ request[s].type = "write" /\ request[s].at \in {"recorded", "done", "failed"}
         /\ request[s].id \notin lowered => s <= Recorded(request[s].id)

ConnInv ==
  ConnType /\ BatchInv /\ CallInv /\ SentInv /\ AppliedInv /\ AcksInv /\ SequenceInv

-----------------------------------------------------------------------------
(***************************************************************************)
(* What the steps of a connection do.                                      *)
(***************************************************************************)
\* Request s goes on to another place, and the rest of what was sent is as it was.
Moved(s, at) ==
  /\ request' \in Seq(Request) /\ Len(request') = Len(request)
  /\ request'[s].at = at
  /\ \A r \in 1..Len(request) : /\ request'[r].id = request[r].id
                                /\ request'[r].type = request[r].type
                                /\ request'[r].queries = request[r].queries
                                /\ request'[r].by = request[r].by
                                /\ r # s => request'[r] = request[r]

\* The fields of a request.
LEMMA Fields ==
  ASSUME request \in Seq(Request), NEW s \in 1..Len(request)
  PROVE  /\ request[s] \in Request
         /\ request[s].id \in Nat /\ request[s].by \in Threads
         /\ request[s].queries \in Seq(Write) /\ request[s].target \in Peers
<1>1. request[s] \in Request
  BY SMT
<1> QED
  BY <1>1 DEF Request

\* Step of a request does.
LEMMA StepMoves ==
  ASSUME request \in Seq(Request), NEW s \in 1..Len(request),
         NEW at \in {"wire", "verified", "refused", "recorded", "done", "failed"},
         Step(s, at)
  PROVE  Moved(s, at) /\ request'[s].late = request[s].late
<1> DEFINE x == [request[s] EXCEPT !.at = at]
<1>1. request[s] \in Request
  BY SMT
<1>2. /\ x \in Request /\ x.at = at /\ x.id = request[s].id /\ x.type = request[s].type
      /\ x.queries = request[s].queries /\ x.by = request[s].by /\ x.late = request[s].late
  BY <1>1 DEF Request
<1>3. request' = [request EXCEPT ![s] = x]
  BY DEF Step
<1> HIDE DEF x
<1>4. /\ request' \in Seq(Request) /\ Len(request') = Len(request) /\ request'[s] = x
      /\ \A r \in 1..Len(request) : r # s => request'[r] = request[r]
  BY <1>2, <1>3, Replace, SMT
<1> QED
  BY <1>2, <1>4 DEF Moved

\* The check passes.
LEMMA PassMoves ==
  ASSUME request \in Seq(Request), NEW s \in 1..Len(request), NEW late \in BOOLEAN
  PROVE  request' = [request EXCEPT ![s].at = "verified", ![s].late = late]
           => Moved(s, "verified") /\ request'[s].late = late
<1> DEFINE x == [request[s] EXCEPT !.at = "verified", !.late = late]
           q == [request EXCEPT ![s] = x]
<1>1. request[s] \in Request
  BY SMT
<1>2. /\ x \in Request /\ x.at = "verified" /\ x.id = request[s].id /\ x.type = request[s].type
      /\ x.queries = request[s].queries /\ x.by = request[s].by /\ x.late = late
  BY <1>1 DEF Request
<1>3. q = [request EXCEPT ![s].at = "verified", ![s].late = late]
  OBVIOUS
<1> HIDE DEF x
<1>4. /\ q \in Seq(Request) /\ Len(q) = Len(request) /\ q[s] = x
      /\ \A r \in 1..Len(request) : r # s => q[r] = request[r]
  BY <1>2, Replace, SMT
<1> HIDE DEF q
<1>5. HAVE request' = [request EXCEPT ![s].at = "verified", ![s].late = late]
<1>6. request' = q
  BY <1>3, <1>5
<1> QED
  BY <1>2, <1>4, <1>6 DEF Moved

\* sendQuery appends a request and waits for it.
LEMMA Sending ==
  ASSUME ConnType, NEW t \in Threads, NEW type \in {"read", "write"}, NEW q \in Seq(Write),
         sendQuery(t, type, q)
  PROVE  /\ connIDAvail' \in Seq(Nat) /\ drawn' \in Nat
         /\ request' \in Seq(Request) /\ Len(request') = Len(request) + 1
         /\ \A r \in 1..Len(request) : request'[r] = request[r]
         /\ request'[Len(request) + 1].type = type
         /\ request'[Len(request) + 1].queries = q
         /\ request'[Len(request) + 1].by = t
         /\ request'[Len(request) + 1].at = "wire"
         /\ ~request'[Len(request) + 1].late
         /\ conn' \in [Threads -> ConnState]
         /\ conn'[t].at = "call" /\ conn'[t].call = Len(request) + 1
         /\ conn'[t].queries = conn[t].queries
         /\ conn'[t].inTransaction = conn[t].inTransaction
         /\ \A r \in Threads : r # t => conn'[r] = conn[r]
<1> DEFINE a == allocateConnAndSeq
           x == [id |-> a.id, type |-> type, queries |-> q, target |-> Target(type), by |-> t,
                 at |-> "wire", late |-> FALSE]
<1>1. a.id \in Nat /\ a.avail \in Seq(Nat) /\ a.drawn \in Nat
  <2>1. CASE connIDAvail = <<>>
    BY <2>1, SMT DEF ConnType, allocateConnAndSeq
  <2>2. CASE connIDAvail # <<>>
    <3>1. Head(connIDAvail) \in Nat /\ Tail(connIDAvail) \in Seq(Nat)
      BY <2>2, Shorter DEF ConnType
    <3> QED
      BY <2>2, <3>1 DEF ConnType, allocateConnAndSeq
  <2> QED
    BY <2>1, <2>2
<1>2. Target(type) \in Peers
  BY ConnAssumption DEF Target
<1>3. x \in Request /\ x.type = type /\ x.queries = q /\ x.by = t /\ x.at = "wire" /\ ~x.late
  <2> HIDE DEF a
  <2> QED
    BY <1>1, <1>2 DEF Request
<1>4. /\ connIDAvail' = a.avail /\ drawn' = a.drawn /\ request' = Append(request, x)
      /\ conn' = [conn EXCEPT ![t].at = "call", ![t].call = Len(request) + 1]
  BY DEF sendQuery
<1> HIDE DEF a, x
<1>5. /\ request' \in Seq(Request) /\ Len(request') = Len(request) + 1
      /\ request'[Len(request) + 1] = x
      /\ \A r \in 1..Len(request) : request'[r] = request[r]
  BY <1>3, <1>4, Longer, SMT DEF ConnType
<1>6. /\ conn' \in [Threads -> ConnState]
      /\ conn'[t].at = "call" /\ conn'[t].call = Len(request) + 1
      /\ conn'[t].queries = conn[t].queries
      /\ conn'[t].inTransaction = conn[t].inTransaction
      /\ \A r \in Threads : r # t => conn'[r] = conn[r]
  <2>1. Len(request) + 1 \in Nat /\ conn[t] \in ConnState
    BY SMT DEF ConnType
  <2> DEFINE n == Len(request) + 1
             y == [conn[t] EXCEPT !.at = "call", !.call = n]
  <2>2. conn' = [conn EXCEPT ![t] = y]
    BY <1>4
  <2> HIDE DEF n
  <2>3. /\ y \in ConnState /\ y.at = "call" /\ y.call = n /\ y.queries = conn[t].queries
        /\ y.inTransaction = conn[t].inTransaction
    BY <2>1 DEF ConnState, n
  <2> HIDE DEF y
  <2> QED
    BY <2>2, <2>3 DEF ConnType, n
<1> QED
  BY <1>1, <1>3, <1>4, <1>5, <1>6

\* A connection goes on to another place.
LEMMA Going ==
  ASSUME ConnType, NEW t \in Threads,
         NEW at \in {"none", "open", "call", "closing", "closed"},
         conn' = [conn EXCEPT ![t].at = at]
  PROVE  /\ conn' \in [Threads -> ConnState]
         /\ conn'[t].at = at /\ conn'[t].queries = conn[t].queries
         /\ conn'[t].inTransaction = conn[t].inTransaction
         /\ \A r \in Threads : r # t => conn'[r] = conn[r]
BY DEF ConnType, ConnState

\* The transaction of a connection is over.
LEMMA Ended ==
  ASSUME ConnType, NEW t \in Threads, conn' = [conn EXCEPT ![t] = Over(t)]
  PROVE  /\ conn' \in [Threads -> ConnState]
         /\ conn'[t].at = "open" /\ conn'[t].queries = <<>>
         /\ \A r \in Threads : r # t => conn'[r] = conn[r]
<1>1. conn[t] \in ConnState
  BY DEF ConnType
<1>2. Over(t) \in ConnState /\ Over(t).at = "open" /\ Over(t).queries = <<>>
  <2>1. <<>> \in Seq(Write) /\ 0 \in Nat
    BY SMT
  <2> QED
    BY <1>1, <2>1 DEF Over, ConnState
<1> QED
  BY <1>2 DEF ConnType

-----------------------------------------------------------------------------
(***************************************************************************)
(* A connection changes, with no call before or after.                     *)
(***************************************************************************)
Local(t) ==
  /\ conn' \in [Threads -> ConnState]
  /\ conn[t].at # "call" /\ conn'[t].at # "call"
  /\ \A r \in Threads : r # t => conn'[r] = conn[r]
  /\ Batch(conn'[t].queries, t, Len(units[t]))
  /\ conn'[t].inTransaction \/ conn'[t].queries = <<>>
  /\ conn'[t].at = "closed" => \A p \in Peers : WorkersGone(t, p)
  /\ UNCHANGED <<connIDAvail, drawn, request, netVars, ackVars, units>>

\* The steps of a thread outside its calls.
LEMMA LocalSteps ==
  ASSUME ConnType, BatchInv, NEW t \in Threads
  PROVE  /\ newConn(t) => Local(t)
         /\ BeginTx(t) => Local(t)
         /\ ExecContext(t) /\ conn[t].inTransaction => Local(t)
         /\ Commit(t) /\ conn[t].queries = <<>> => Local(t)
         /\ Close(t) => Local(t)
         /\ CloseEnds(t) => Local(t)
<1>1. /\ conn[t] \in ConnState /\ Batch(conn[t].queries, t, Len(units[t]))
      /\ conn[t].inTransaction \/ conn[t].queries = <<>>
  BY DEF ConnType, BatchInv
<1>2. Batch(<<>>, t, Len(units[t]))
  BY SMT DEF Batch
<1>3. newConn(t) => Local(t)
  <2>1. SUFFICES ASSUME newConn(t) PROVE Local(t)
    OBVIOUS
  <2>2. /\ conn[t].at = "none" /\ conn' = [conn EXCEPT ![t].at = "open"]
        /\ UNCHANGED <<connIDAvail, drawn, request, netVars, ackVars, units>>
    BY <2>1 DEF newConn
  <2>3. /\ conn' \in [Threads -> ConnState]
        /\ conn'[t].at = "open" /\ conn'[t].queries = conn[t].queries
        /\ conn'[t].inTransaction = conn[t].inTransaction
        /\ \A r \in Threads : r # t => conn'[r] = conn[r]
    BY <2>2, Going
  <2> QED
    BY <1>1, <2>2, <2>3 DEF Local
<1>4. BeginTx(t) => Local(t)
  <2>1. SUFFICES ASSUME BeginTx(t) PROVE Local(t)
    OBVIOUS
  <2> DEFINE y == [conn[t] EXCEPT !.inTransaction = TRUE, !.queries = <<>>]
  <2>2. /\ conn[t].at = "open" /\ conn' = [conn EXCEPT ![t] = y]
        /\ UNCHANGED <<connIDAvail, drawn, request, netVars, ackVars, units>>
    BY <2>1 DEF BeginTx, Idle
  <2>3. y \in ConnState /\ y.at = conn[t].at /\ y.queries = <<>> /\ y.inTransaction
    <3>1. <<>> \in Seq(Write)
      BY SMT
    <3> QED
      BY <1>1, <3>1 DEF ConnState
  <2> HIDE DEF y
  <2>4. /\ conn' \in [Threads -> ConnState] /\ conn'[t] = y
        /\ \A r \in Threads : r # t => conn'[r] = conn[r]
    BY <2>2, <2>3 DEF ConnType
  <2> QED
    BY <1>2, <2>2, <2>3, <2>4 DEF Local
<1>5. ExecContext(t) /\ conn[t].inTransaction => Local(t)
  <2>1. SUFFICES ASSUME ExecContext(t), conn[t].inTransaction PROVE Local(t)
    OBVIOUS
  <2> DEFINE q == conn[t].queries
             w == NewWrite(t)
             y == [conn[t] EXCEPT !.queries = Append(q, w)]
  <2>2. /\ conn[t].at = "open" /\ conn' = [conn EXCEPT ![t] = y]
        /\ UNCHANGED <<connIDAvail, drawn, request, netVars, ackVars, units>>
    BY <2>1 DEF ExecContext, Idle
  <2>3. q \in Seq(Write) /\ w = <<t, Len(units[t]), Len(q)>> /\ w \in Write
    BY <1>1, SMT DEF ConnType, ConnState, NewWrite, Write
  <2>4. Append(q, w) \in Seq(Write) /\ Batch(Append(q, w), t, Len(units[t]))
    <3>1. Batch(q, t, Len(units[t]))
      BY <1>1
    <3> HIDE DEF q, w
    <3> DEFINE m == Len(units[t])
    <3> HIDE DEF m
    <3> QED
      BY <2>3, <3>1, Longer, SMT DEF Batch, m
  <2>5. y \in ConnState /\ y.at = conn[t].at /\ y.queries = Append(q, w)
        /\ y.inTransaction = conn[t].inTransaction
    BY <1>1, <2>4 DEF ConnState
  <2> HIDE DEF y
  <2>6. /\ conn' \in [Threads -> ConnState] /\ conn'[t] = y
        /\ \A r \in Threads : r # t => conn'[r] = conn[r]
    BY <2>2, <2>5 DEF ConnType
  <2> QED
    BY <2>1, <2>2, <2>4, <2>5, <2>6 DEF Local
<1>6. Commit(t) /\ conn[t].queries = <<>> => Local(t)
  <2>1. SUFFICES ASSUME Commit(t), conn[t].queries = <<>> PROVE Local(t)
    OBVIOUS
  <2>2. /\ conn[t].at = "open" /\ conn' = [conn EXCEPT ![t] = Over(t)]
        /\ UNCHANGED <<connIDAvail, drawn, request, netVars, ackVars, units>>
    BY <2>1 DEF Commit, Idle
  <2>3. /\ conn' \in [Threads -> ConnState]
        /\ conn'[t].at = "open" /\ conn'[t].queries = <<>>
        /\ \A r \in Threads : r # t => conn'[r] = conn[r]
    BY <2>2, Ended
  <2> QED
    BY <1>2, <2>2, <2>3 DEF Local
<1>7. Close(t) => Local(t)
  <2>1. SUFFICES ASSUME Close(t) PROVE Local(t)
    OBVIOUS
  <2>2. /\ conn[t].at = "open" /\ conn' = [conn EXCEPT ![t].at = "closing"]
        /\ UNCHANGED <<connIDAvail, drawn, request, netVars, ackVars, units>>
    BY <2>1 DEF Close, Idle
  <2>3. /\ conn' \in [Threads -> ConnState]
        /\ conn'[t].at = "closing" /\ conn'[t].queries = conn[t].queries
        /\ conn'[t].inTransaction = conn[t].inTransaction
        /\ \A r \in Threads : r # t => conn'[r] = conn[r]
    BY <2>2, Going
  <2> QED
    BY <1>1, <2>2, <2>3 DEF Local
<1>8. CloseEnds(t) => Local(t)
  <2>1. SUFFICES ASSUME CloseEnds(t) PROVE Local(t)
    OBVIOUS
  <2>2. /\ conn[t].at = "closing" /\ conn' = [conn EXCEPT ![t].at = "closed"]
        /\ \A p \in Peers : WorkersGone(t, p)
        /\ UNCHANGED <<connIDAvail, drawn, request, netVars, ackVars, units>>
    BY <2>1 DEF CloseEnds
  <2>3. /\ conn' \in [Threads -> ConnState]
        /\ conn'[t].at = "closed" /\ conn'[t].queries = conn[t].queries
        /\ conn'[t].inTransaction = conn[t].inTransaction
        /\ \A r \in Threads : r # t => conn'[r] = conn[r]
    BY <2>2, Going
  <2> QED
    BY <1>1, <2>2, <2>3 DEF Local
<1> QED
  BY <1>3, <1>4, <1>5, <1>6, <1>7, <1>8

\* They keep the invariant.
LEMMA LocalKeeps ==
  ASSUME ConnInv, NEW t \in Threads, Local(t)
  PROVE  ConnInv'
<1>1. /\ conn' \in [Threads -> ConnState]
      /\ conn[t].at # "call" /\ conn'[t].at # "call"
      /\ \A r \in Threads : r # t => conn'[r] = conn[r]
      /\ connIDAvail' = connIDAvail /\ drawn' = drawn /\ request' = request
      /\ connSeqs' = connSeqs /\ applied' = applied /\ lowered' = lowered
      /\ ackCh' = ackCh /\ working' = working /\ acked' = acked /\ units' = units
  BY DEF Local, netVars, ackVars
<1>2. ConnType'
  BY <1>1 DEF ConnInv, ConnType
<1>3. BatchInv'
  BY <1>1 DEF ConnInv, BatchInv, Local
<1>4. CallInv'
  BY <1>1 DEF ConnInv, CallInv
<1>5. SentInv'
  <2>1. \A s \in 1..Len(request), r \in Threads : Owned(s, r) => Owned(s, r)'
    BY <1>1 DEF Owned
  <2>2. \A s \in 1..Len(request) : request[s].by \in Threads
    BY Fields DEF ConnInv, ConnType
  <2>3. SentInv
    BY DEF ConnInv
  <2> QED
    BY <1>1, <2>1, <2>2, <2>3 DEF SentInv
<1>6. AppliedInv'
  BY <1>1 DEF ConnInv, AppliedInv, Executed
<1>7. AcksInv'
  <2>1. \A s, r : Acking(s, r)' <=> Acking(s, r)
    BY <1>1 DEF Acking
  <2>2. \A s : Executed(s)' <=> Executed(s)
    BY <1>1 DEF Executed
  <2>3. \A r, p : WorkersGone(r, p)' <=> WorkersGone(r, p)
    BY <1>1 DEF WorkersGone
  <2> QED
    BY <1>1, <2>1, <2>2, <2>3 DEF ConnInv, AcksInv, Local
<1>8. SequenceInv'
  BY <1>1 DEF ConnInv, SequenceInv, Recorded
<1> QED
  BY <1>2, <1>3, <1>4, <1>5, <1>6, <1>7, <1>8 DEF ConnInv

-----------------------------------------------------------------------------
(***************************************************************************)
(* sendQuery, with the writes of the next unit.                            *)
(***************************************************************************)
\* The next unit of a thread that is not in a call has not been sent.
LEMMA NotSent ==
  ASSUME ConnInv, NEW t \in Threads, conn[t].at = "open",
         NEW q \in Seq(Write), q # <<>>, Batch(q, t, Len(units[t]))
  PROVE  \A r \in 1..Len(request) : request[r].type = "write" => request[r].queries # q
<1> SUFFICES ASSUME NEW r \in 1..Len(request), request[r].type = "write",
                    request[r].queries = q
             PROVE  FALSE
  OBVIOUS
<1> DEFINE b == request[r].by
           m == Len(units[t])
<1>1. b \in Threads /\ Owned(r, b)
  BY Fields DEF ConnInv, ConnType, SentInv
<1>2. 1 \in 1..Len(q) /\ q[1] = <<t, m, 0>>
  BY SMT DEF Batch
<1>3. CASE conn[b].at = "call" /\ conn[b].call = r
  <2>1. Batch(q, b, Len(units[b]))
    BY <1>1, <1>3 DEF ConnInv, CallInv
  <2>2. q[1] = <<b, Len(units[b]), 0>>
    BY <1>2, <2>1, SMT DEF Batch
  <2>3. b = t
    BY <1>2, <2>2, SMT
  <2> QED
    BY <1>3, <2>3
<1>4. CASE \E i \in 1..Len(units[b]) : units[b][i].writes = q
  <2>1. PICK i \in 1..Len(units[b]) : units[b][i].writes = q
    BY <1>4
  <2>2. Batch(q, b, i - 1)
    BY <1>1, <2>1 DEF ConnInv, BatchInv
  <2>3. q[1] = <<b, i - 1, 0>>
    BY <1>2, <2>2, SMT DEF Batch
  <2>4. b = t /\ i - 1 = Len(units[t])
    BY <1>2, <2>3, SMT
  <2>5. i \in 1..Len(units[t]) /\ Len(units[t]) \in Nat
    BY <2>1, <2>4, SMT DEF ConnInv, ConnType
  <2> QED
    BY <2>4, <2>5, SMT
<1> QED
  BY <1>1, <1>3, <1>4 DEF Owned

\* sendQuery keeps the invariant.
LEMMA SendKeeps ==
  ASSUME ConnInv, NEW t \in Threads, conn[t].at = "open",
         NEW type \in {"read", "write"}, NEW q \in Seq(Write),
         type = "write" => q # <<>> /\ Batch(q, t, Len(units[t])),
         sendQuery(t, type, q)
  PROVE  ConnInv'
<1>0. PICK n \in Nat : n = Len(request) + 1
  BY SMT DEF ConnInv, ConnType
<1>1. /\ connIDAvail' \in Seq(Nat) /\ drawn' \in Nat
      /\ request' \in Seq(Request) /\ Len(request') = n
      /\ \A r \in 1..Len(request) : request'[r] = request[r]
      /\ request'[n].type = type /\ request'[n].queries = q /\ request'[n].by = t
      /\ request'[n].at = "wire" /\ ~request'[n].late
      /\ conn' \in [Threads -> ConnState]
      /\ conn'[t].at = "call" /\ conn'[t].call = n
      /\ conn'[t].queries = conn[t].queries
      /\ conn'[t].inTransaction = conn[t].inTransaction
      /\ \A r \in Threads : r # t => conn'[r] = conn[r]
  BY <1>0, Sending, SMT DEF ConnInv
<1>2. /\ connSeqs' = connSeqs /\ applied' = applied /\ lowered' = lowered
      /\ ackCh' = ackCh /\ working' = working /\ acked' = acked /\ units' = units
  BY DEF sendQuery, netVars, ackVars
<1>3. /\ n \in Nat /\ n \in 1..n /\ 1..Len(request) \subseteq 1..n
      /\ \A r \in 1..n : r \in 1..Len(request) \/ r = n
      /\ n \notin 1..Len(request)
  BY <1>0, SMT DEF ConnInv, ConnType
<1>4. ConnType'
  BY <1>1, <1>2 DEF ConnInv, ConnType
<1>5. BatchInv'
  <2>1. BatchInv
    BY DEF ConnInv
  <2> QED
    BY <1>1, <1>2, <2>1 DEF BatchInv
<1>6. CallInv'
  <2> SUFFICES ASSUME NEW r \in Threads, conn'[r].at = "call"
               PROVE  /\ conn'[r].call \in 1..n /\ request'[conn'[r].call].by = r
                      /\ request'[conn'[r].call].type = "write" =>
                           Batch(request'[conn'[r].call].queries, r, Len(units[r]))
    BY <1>1, <1>2 DEF CallInv
  <2>1. CASE r = t
    BY <1>1, <1>3, <2>1
  <2>2. CASE r # t
    BY <1>1, <1>3, <2>2, SMT DEF ConnInv, CallInv
  <2> QED
    BY <2>1, <2>2
<1>7. SentInv'
  <2>1. SentInv /\ \A s \in 1..Len(request) : request[s].by \in Threads
    BY Fields DEF ConnInv, ConnType
  <2>2. \A s \in 1..Len(request), b \in Threads : Owned(s, b) => Owned(s, b)'
    BY <1>1, <1>2 DEF Owned
  <2>3. Owned(n, t)'
    BY <1>1 DEF Owned
  <2>4. ASSUME NEW s \in 1..n, request'[s].type = "write"
        PROVE  request'[s].queries # <<>> /\ Owned(s, request[s].by)'
    <3>1. CASE s = n
      BY <1>1, <2>3, <2>4, <3>1
    <3>2. CASE s \in 1..Len(request)
      <4>1. request'[s] = request[s]
        BY <1>1, <3>2
      <4> QED
        BY <2>1, <2>2, <2>4, <3>2, <4>1 DEF SentInv
    <3> QED
      BY <1>3, <3>1, <3>2
  <2>5. ASSUME NEW s \in 1..n, NEW r \in 1..n, request'[s].type = "write",
               request'[r].type = "write", request'[s].queries = request'[r].queries
        PROVE  s = r
    <3>1. type = "write" => \A j \in 1..Len(request) :
            request[j].type = "write" => request[j].queries # q
      BY NotSent
    <3> QED
      BY <1>1, <1>3, <2>1, <2>5, <3>1, SMTT(30) DEF SentInv
  <2> QED
    BY <1>1, <2>4, <2>5 DEF SentInv
<1>8. \A s \in 1..Len(request) : Executed(s)' <=> Executed(s)
  BY <1>1 DEF Executed
<1>9. \A s \in 1..n : \/ s \in 1..Len(request) /\ request'[s] = request[s]
                      \/ s = n /\ request'[s].at = "wire" /\ ~request'[s].late
  <2>1. \A s \in 1..n : s \in 1..Len(request) \/ s = n
    BY <1>3
  <2>2. ASSUME NEW s \in 1..Len(request) PROVE request'[s] = request[s]
    BY <1>1
  <2>3. ASSUME NEW s \in 1..n, s = n
        PROVE  request'[s].at = "wire" /\ ~request'[s].late
    <3>1. request'[s] = request'[n]
      BY <2>3
    <3> QED
      BY <1>1, <3>1
  <2> QED
    BY <2>1, <2>2, <2>3
<1>10. /\ Len(request') = n /\ \A s \in 1..Len(request) : s \in 1..n /\ request'[s] = request[s]
  BY <1>1, <1>3
<1>11. AppliedInv'
  <2>1. AppliedInv
    BY DEF ConnInv
  <2>2. \A s \in 1..n : request'[s].at \in {"verified", "recorded", "failed"} =>
          request'[s].type = "write"
    BY <1>9, <2>1 DEF AppliedInv
  <2>3. \A i \in 1..Len(applied) :
          \E s \in 1..n : Executed(s)' /\ request'[s].queries = applied[i]
    BY <1>8, <1>10, <2>1 DEF AppliedInv
  <2>4. ASSUME NEW s \in 1..n, Executed(s)'
        PROVE  \E i \in 1..Len(applied) : request'[s].queries = applied[i]
    <3>1. s \in 1..Len(request) /\ request'[s] = request[s]
      BY <1>9, <2>4 DEF Executed
    <3>2. Executed(s)
      BY <2>4, <3>1 DEF Executed
    <3>3. \E i \in 1..Len(applied) : request[s].queries = applied[i]
      BY <2>1, <3>1, <3>2 DEF AppliedInv
    <3> QED
      BY <3>1, <3>3
  <2>5. \A i, j \in 1..Len(applied) : applied[i] = applied[j] => i = j
    BY <2>1 DEF AppliedInv
  <2> QED
    BY <1>2, <1>10, <2>2, <2>3, <2>4, <2>5 DEF AppliedInv
<1>12. AcksInv'
  <2>1. AcksInv
    BY DEF ConnInv
  <2>2. \A s, r : Acking(s, r)' <=> Acking(s, r)
    BY <1>2 DEF Acking
  <2>3. \A r, p : WorkersGone(r, p)' <=> WorkersGone(r, p)
    BY <1>2 DEF WorkersGone
  <2>4. \A r \in Threads : \A i \in 1..Len(units[r]) : units[r][i].how = "ok" =>
          \E s \in 1..n :
            Executed(s)' /\ request'[s].queries = units[r][i].writes /\ Acking(s, r)'
    BY <1>8, <1>10, <2>1, <2>2 DEF AcksInv
  <2>5. \A r \in Threads : conn'[r].at = "closed" => \A p \in Peers : WorkersGone(r, p)'
    BY <1>1, <2>1, <2>3 DEF AcksInv
  <2> QED
    BY <1>2, <1>10, <2>4, <2>5 DEF AcksInv
<1>13. SequenceInv'
  <2>1. SequenceInv /\ \A id : Recorded(id)' = Recorded(id)
    BY <1>2 DEF ConnInv, Recorded
  <2> QED
    BY <1>2, <1>9, <1>10, <2>1 DEF SequenceInv
<1> QED
  BY <1>4, <1>5, <1>6, <1>7, <1>11, <1>12, <1>13 DEF ConnInv

\* The operations of a thread that send.
LEMMA SendingSteps ==
  ASSUME ConnInv, NEW t \in Threads,
         \/ ExecContext(t) /\ ~conn[t].inTransaction
         \/ QueryContext(t)
         \/ Commit(t) /\ conn[t].queries # <<>>
  PROVE  ConnInv'
<1>1. /\ conn[t] \in ConnState /\ conn[t].queries \in Seq(Write) /\ Len(units[t]) \in Nat
      /\ Batch(conn[t].queries, t, Len(units[t]))
      /\ conn[t].inTransaction \/ conn[t].queries = <<>>
  BY SMT DEF ConnInv, ConnType, ConnState, BatchInv
<1>2. CASE ExecContext(t) /\ ~conn[t].inTransaction
  <2> DEFINE m == Len(units[t])
             q == <<NewWrite(t)>>
  <2>1. conn[t].at = "open" /\ sendQuery(t, "write", q)
    BY <1>2 DEF ExecContext, Idle
  <2>2. NewWrite(t) = <<t, m, 0>>
    BY <1>1, <1>2 DEF NewWrite
  <2>3. NewWrite(t) \in Write
    BY <1>1, <2>2, SMT DEF Write
  <2>4. q \in Seq(Write) /\ q # <<>> /\ Batch(q, t, m)
    <3> HIDE DEF m
    <3> QED
      BY <2>2, <2>3, SMT DEF Batch
  <2> QED
    BY <2>1, <2>4, SendKeeps
<1>3. CASE QueryContext(t)
  <2>1. conn[t].at = "open" /\ sendQuery(t, "read", <<>>)
    BY <1>3 DEF QueryContext, Idle
  <2>2. <<>> \in Seq(Write)
    BY SMT
  <2> QED
    BY <2>1, <2>2, SendKeeps
<1>4. CASE Commit(t) /\ conn[t].queries # <<>>
  <2>1. conn[t].at = "open" /\ sendQuery(t, "write", conn[t].queries)
    BY <1>4 DEF Commit, Idle
  <2> QED
    BY <1>1, <1>4, <2>1, SendKeeps
<1> QED
  BY <1>2, <1>3, <1>4

-----------------------------------------------------------------------------
(***************************************************************************)
(* A call returns, or a transaction is rolled back.                        *)
(***************************************************************************)
\* The units of t have one more.
NewUnit(t, w, how) ==
  /\ units' \in [Threads -> Seq(Unit)]
  /\ \A r \in Threads : r # t => units'[r] = units[r]
  /\ Len(units'[t]) = Len(units[t]) + 1
  /\ \A i \in 1..Len(units[t]) : units'[t][i] = units[t][i]
  /\ units'[t][Len(units[t]) + 1].writes = w
  /\ units'[t][Len(units[t]) + 1].how = how

\* End makes it.
LEMMA EndAdds ==
  ASSUME ConnType, NEW t \in Threads, NEW w \in Seq(Write),
         NEW how \in {"ok", "error", "rollback"}, End(t, w, how)
  PROVE  NewUnit(t, w, how)
<1> DEFINE x == [writes |-> w, how |-> how]
<1>1. x \in Unit /\ x.writes = w /\ x.how = how /\ units[t] \in Seq(Unit)
  BY DEF Unit, ConnType
<1>2. units' = [units EXCEPT ![t] = Append(units[t], x)]
  BY DEF End
<1> HIDE DEF x
<1>3. /\ Append(units[t], x) \in Seq(Unit) /\ Len(Append(units[t], x)) = Len(units[t]) + 1
      /\ Append(units[t], x)[Len(units[t]) + 1] = x
      /\ \A i \in 1..Len(units[t]) : Append(units[t], x)[i] = units[t][i]
  BY <1>1, Longer, SMT
<1>4. /\ units' \in [Threads -> Seq(Unit)] /\ units'[t] = Append(units[t], x)
      /\ \A r \in Threads : r # t => units'[r] = units[r]
  BY <1>2, <1>3 DEF ConnType
<1> QED
  BY <1>1, <1>3, <1>4 DEF NewUnit

\* What the end of a call or of a transaction does.
Finished(t) ==
  /\ conn' \in [Threads -> ConnState] /\ connIDAvail' \in Seq(Nat)
  /\ conn'[t].at = "open" /\ conn'[t].queries = <<>>
  /\ \A r \in Threads : r # t => conn'[r] = conn[r]
  /\ UNCHANGED <<drawn, request, netVars, working, acked>>
  /\ ackCh' \in [Threads -> [Peers -> Seq(Nat)]]
  /\ \A r \in Threads : r # t => ackCh'[r] = ackCh[r]
  /\ \A p \in Peers : Range(ackCh[t][p]) \subseteq Range(ackCh'[t][p])
  /\ \/ /\ units' = units
        /\ conn[t].at = "call" => request[conn[t].call].type # "write"
     \/ \E w \in Seq(Write), how \in {"ok", "error", "rollback"} :
          /\ NewUnit(t, w, how) /\ Batch(w, t, Len(units[t]))
          /\ conn[t].at = "call" => request[conn[t].call].queries = w /\ how # "rollback"
          /\ how = "ok" => \E s \in 1..Len(request) :
                             Executed(s) /\ request[s].queries = w /\ Acking(s, t)'

\* It keeps the invariant.
LEMMA FinishedKeeps ==
  ASSUME ConnInv, NEW t \in Threads, Finished(t)
  PROVE  ConnInv'
<1>1. /\ conn' \in [Threads -> ConnState]
      /\ conn'[t].at = "open" /\ conn'[t].queries = <<>>
      /\ \A r \in Threads : r # t => conn'[r] = conn[r]
  BY DEF Finished
<1>2. /\ drawn' = drawn /\ request' = request /\ connSeqs' = connSeqs /\ applied' = applied
      /\ lowered' = lowered /\ working' = working /\ acked' = acked
      /\ connIDAvail' \in Seq(Nat) /\ ackCh' \in [Threads -> [Peers -> Seq(Nat)]]
  BY DEF Finished, netVars
<1>3. /\ \A r \in Threads : r # t => ackCh'[r] = ackCh[r]
      /\ \A p \in Peers : Range(ackCh[t][p]) \subseteq Range(ackCh'[t][p])
  BY DEF Finished
<1>4. /\ \A r \in Threads : r # t => units'[r] = units[r]
      /\ units' \in [Threads -> Seq(Unit)]
      /\ \A i \in 1..Len(units[t]) : i \in 1..Len(units'[t]) /\ units'[t][i] = units[t][i]
      /\ \A i \in 1..Len(units'[t]) :
           \/ i \in 1..Len(units[t])
           \/ /\ Batch(units'[t][i].writes, t, i - 1)
              /\ units'[t][i].how = "ok" => \E s \in 1..Len(request) :
                   Executed(s) /\ request[s].queries = units'[t][i].writes /\ Acking(s, t)'
      /\ conn[t].at = "call" /\ request[conn[t].call].type = "write" =>
           \E i \in 1..Len(units'[t]) : units'[t][i].writes = request[conn[t].call].queries
                                        /\ units'[t][i].how # "rollback"
  <2>0. units \in [Threads -> Seq(Unit)] /\ Len(units[t]) \in Nat
    BY SMT DEF ConnInv, ConnType
  <2>1. CASE /\ units' = units
             /\ conn[t].at = "call" => request[conn[t].call].type # "write"
    BY <2>0, <2>1
  <2>2. CASE \E w \in Seq(Write), how \in {"ok", "error", "rollback"} :
          /\ NewUnit(t, w, how) /\ Batch(w, t, Len(units[t]))
          /\ conn[t].at = "call" => request[conn[t].call].queries = w /\ how # "rollback"
          /\ how = "ok" => \E s \in 1..Len(request) :
                             Executed(s) /\ request[s].queries = w /\ Acking(s, t)'
    <3>1. PICK w \in Seq(Write), how \in {"ok", "error", "rollback"} :
          /\ NewUnit(t, w, how) /\ Batch(w, t, Len(units[t]))
          /\ conn[t].at = "call" => request[conn[t].call].queries = w /\ how # "rollback"
          /\ how = "ok" => \E s \in 1..Len(request) :
                             Executed(s) /\ request[s].queries = w /\ Acking(s, t)'
      BY <2>2
    <3>2. PICK m \in Nat : m = Len(units[t])
      BY <2>0
    <3>3. /\ units' \in [Threads -> Seq(Unit)]
          /\ \A r \in Threads : r # t => units'[r] = units[r]
          /\ Len(units'[t]) = m + 1
          /\ \A i \in 1..m : units'[t][i] = units[t][i]
          /\ units'[t][m + 1].writes = w /\ units'[t][m + 1].how = how
      BY <3>1, <3>2 DEF NewUnit
    <3>4. /\ \A i \in 1..m : i \in 1..(m + 1)
          /\ \A i \in 1..(m + 1) : i \in 1..m \/ i = m + 1
          /\ m + 1 \in 1..(m + 1) /\ (m + 1) - 1 = m
      BY SMT
    <3> QED
      BY <3>1, <3>2, <3>3, <3>4
  <2> QED
    BY <2>1, <2>2 DEF Finished
<1>5. ConnType'
  BY <1>1, <1>2, <1>4 DEF ConnInv, ConnType
<1>6. BatchInv'
  <2>1. BatchInv
    BY DEF ConnInv
  <2>2. \A k : Batch(<<>>, t, k)
    BY SMT DEF Batch
  <2>3. \A r \in Threads : /\ Batch(conn'[r].queries, r, Len(units'[r]))
                           /\ conn'[r].inTransaction \/ conn'[r].queries = <<>>
    BY <1>1, <1>4, <2>1, <2>2, ZenonT(30) DEF BatchInv
  <2>4. \A r \in Threads : \A i \in 1..Len(units'[r]) : Batch(units'[r][i].writes, r, i - 1)
    BY <1>4, <2>1 DEF BatchInv
  <2> QED
    BY <2>3, <2>4 DEF BatchInv
<1>7. CallInv'
  <2>1. CallInv
    BY DEF ConnInv
  <2>2. conn'[t].at # "call"
    BY <1>1
  <2> QED
    BY <1>1, <1>2, <1>4, <2>1, <2>2 DEF CallInv
<1>8. SentInv'
  <2>1. SentInv /\ \A s \in 1..Len(request) : request[s].by \in Threads
    BY Fields DEF ConnInv, ConnType
  <2>2. ASSUME NEW s \in 1..Len(request), NEW b \in Threads, request[s].type = "write", Owned(s, b)
        PROVE  Owned(s, b)'
    <3>1. CASE b # t
      BY <1>1, <1>2, <1>4, <2>2, <3>1 DEF Owned
    <3>2. CASE b = t
      BY <1>2, <1>4, <2>2, <3>2, ZenonT(30) DEF Owned
    <3> QED
      BY <3>1, <3>2
  <2> QED
    BY <1>2, <2>1, <2>2 DEF SentInv
<1>9. \A s : Executed(s)' <=> Executed(s)
  BY <1>2 DEF Executed
<1>10. AppliedInv'
  <2>1. AppliedInv
    BY DEF ConnInv
  <2> QED
    BY <1>2, <1>9, <2>1 DEF AppliedInv
<1>11. AcksInv'
  <2>1. AcksInv
    BY DEF ConnInv
  <2>2. \A s : \A r \in Threads : Acking(s, r) => Acking(s, r)'
    BY <1>2, <1>3 DEF Acking
  <2>3. ASSUME NEW r \in Threads, conn'[r].at = "closed", NEW p \in Peers
        PROVE  WorkersGone(r, p)'
    <3>1. r # t
      BY <1>1, <2>3
    <3>2. conn'[r] = conn[r]
      BY <1>1, <3>1
    <3>3. WorkersGone(r, p)
      BY <2>1, <2>3, <3>2 DEF AcksInv
    <3> QED
      BY <1>2, <1>3, <3>1, <3>3 DEF WorkersGone
  <2>4. ASSUME NEW r \in Threads, NEW i \in 1..Len(units'[r]), units'[r][i].how = "ok"
        PROVE  \E s \in 1..Len(request) :
                 Executed(s) /\ request[s].queries = units'[r][i].writes /\ Acking(s, r)'
    <3>1. CASE r = t /\ i \notin 1..Len(units[t])
      BY <1>4, <2>4, <3>1 DEF Acking
    <3>2. CASE r # t \/ i \in 1..Len(units[t])
      <4>1. i \in 1..Len(units[r]) /\ units'[r][i] = units[r][i]
        BY <1>4, <2>4, <3>2
      <4> QED
        BY <2>1, <2>2, <2>4, <4>1 DEF AcksInv
    <3> QED
      BY <3>1, <3>2
  <2> QED
    BY <1>2, <1>9, <2>3, <2>4 DEF AcksInv
<1>12. SequenceInv'
  BY <1>2 DEF ConnInv, SequenceInv, Recorded
<1> QED
  BY <1>5, <1>6, <1>7, <1>8, <1>10, <1>11, <1>12 DEF ConnInv

\* Rollback ends a unit of which nothing was sent.
LEMMA RollbackFinishes ==
  ASSUME ConnInv, NEW t \in Threads, Rollback(t)
  PROVE  Finished(t)
<1> DEFINE q == conn[t].queries
<1>1. /\ conn[t].at = "open" /\ End(t, q, "rollback") /\ conn' = [conn EXCEPT ![t] = Over(t)]
      /\ UNCHANGED <<connIDAvail, drawn, request, netVars, ackVars>>
  BY DEF Rollback, Idle
<1>2. ConnType /\ q \in Seq(Write) /\ Batch(q, t, Len(units[t]))
  BY DEF ConnInv, ConnType, ConnState, BatchInv
<1>3. NewUnit(t, q, "rollback")
  BY <1>1, <1>2, EndAdds
<1>4. /\ conn' \in [Threads -> ConnState]
      /\ conn'[t].at = "open" /\ conn'[t].queries = <<>>
      /\ \A r \in Threads : r # t => conn'[r] = conn[r]
  BY <1>1, <1>2, Ended
<1>5. /\ ackCh \in [Threads -> [Peers -> Seq(Nat)]] /\ connIDAvail \in Seq(Nat)
      /\ ackCh' = ackCh /\ connIDAvail' = connIDAvail
      /\ UNCHANGED <<drawn, request, netVars, working, acked>>
  BY <1>1, <1>2 DEF ConnType, ackVars
<1>6. \E w \in Seq(Write), how \in {"ok", "error", "rollback"} :
        /\ NewUnit(t, w, how) /\ Batch(w, t, Len(units[t]))
        /\ conn[t].at = "call" => request[conn[t].call].queries = w /\ how # "rollback"
        /\ how = "ok" => \E s \in 1..Len(request) :
                           Executed(s) /\ request[s].queries = w /\ Acking(s, t)'
  <2> HIDE DEF q
  <2>1. "rollback" # "ok" /\ "rollback" \in {"ok", "error", "rollback"} /\ conn[t].at # "call"
    BY <1>1
  <2> QED
    BY <1>2, <1>3, <2>1
<1> QED
  BY <1>4, <1>5, <1>6 DEF Finished

\* The end of a call, which goes well only with a response and its ack.
LEMMA ReturnFinishes ==
  ASSUME ConnInv, NEW t \in Threads, conn[t].at = "call",
         NEW how \in {"ok", "error"}, Return(t, how),
         UNCHANGED <<drawn, request, netVars, working, acked>>,
         ackCh' \in [Threads -> [Peers -> Seq(Nat)]],
         \A r \in Threads : r # t => ackCh'[r] = ackCh[r],
         \A p \in Peers : Range(ackCh[t][p]) \subseteq Range(ackCh'[t][p]),
         how = "ok" => /\ request[conn[t].call].at = "done"
                       /\ \E p \in Peers : conn[t].call \in Range(ackCh'[t][p])
  PROVE  Finished(t)
<1>0. PICK s \in Nat : s = conn[t].call
  BY DEF ConnInv, ConnType, ConnState
<1>1. /\ ConnType /\ s \in 1..Len(request)
      /\ request[s].type = "write" => Batch(request[s].queries, t, Len(units[t]))
  BY <1>0 DEF ConnInv, CallInv
<1>2. request[s].id \in Nat /\ request[s].queries \in Seq(Write)
  BY <1>1, Fields DEF ConnType
<1>3. /\ connIDAvail' = Append(connIDAvail, request[s].id)
      /\ conn' = [conn EXCEPT ![t] = Over(t)]
      /\ IF request[s].type = "write" THEN End(t, request[s].queries, how) ELSE UNCHANGED units
  BY <1>0 DEF Return
<1>4. connIDAvail' \in Seq(Nat)
  BY <1>1, <1>2, <1>3, Longer DEF ConnType
<1>5. /\ conn' \in [Threads -> ConnState]
      /\ conn'[t].at = "open" /\ conn'[t].queries = <<>>
      /\ \A r \in Threads : r # t => conn'[r] = conn[r]
  BY <1>1, <1>3, Ended
<1>6. CASE request[s].type # "write"
  BY <1>0, <1>3, <1>4, <1>5, <1>6 DEF Finished
<1>7. CASE request[s].type = "write"
  <2>1. NewUnit(t, request[s].queries, how)
    BY <1>1, <1>2, <1>3, <1>7, EndAdds
  <2>2. how # "rollback" /\ how \in {"ok", "error", "rollback"}
    OBVIOUS
  <2>3. how = "ok" => Executed(s) /\ Acking(s, t)'
    BY <1>0, <1>7 DEF Executed, Acking
  <2>4. \E w \in Seq(Write), h \in {"ok", "error", "rollback"} :
        /\ NewUnit(t, w, h) /\ Batch(w, t, Len(units[t]))
        /\ conn[t].at = "call" => request[conn[t].call].queries = w /\ h # "rollback"
        /\ h = "ok" => \E r \in 1..Len(request) :
                         Executed(r) /\ request[r].queries = w /\ Acking(r, t)'
    BY <1>0, <1>1, <1>2, <1>7, <2>1, <2>2, <2>3
  <2> QED
    BY <1>4, <1>5, <2>4 DEF Finished
<1> QED
  BY <1>6, <1>7

\* A call that fails ends so.
LEMMA CallFailsFinishes ==
  ASSUME ConnInv, NEW t \in Threads, CallFails(t)
  PROVE  Finished(t)
<1>1. /\ conn[t].at = "call" /\ Return(t, "error")
      /\ UNCHANGED <<drawn, request, netVars, working, acked>> /\ ackCh' = ackCh
      /\ ackCh \in [Threads -> [Peers -> Seq(Nat)]]
  BY DEF CallFails, ackVars, ConnInv, ConnType
<1>2. /\ ackCh' \in [Threads -> [Peers -> Seq(Nat)]]
      /\ \A r \in Threads : r # t => ackCh'[r] = ackCh[r]
      /\ \A p \in Peers : Range(ackCh[t][p]) \subseteq Range(ackCh'[t][p])
  BY <1>1
<1>3. "error" \in {"ok", "error"} /\ "error" # "ok"
  OBVIOUS
<1> QED
  BY <1>1, <1>2, <1>3, ReturnFinishes

\* A response, too, after its ack is in the channel.
LEMMA CallReturnsFinishes ==
  ASSUME ConnInv, NEW t \in Threads, CallReturns(t)
  PROVE  Finished(t)
<1>0. PICK s \in Nat : s = conn[t].call
  BY DEF ConnInv, ConnType, ConnState
<1>1. ConnType /\ conn[t].at = "call" /\ s \in 1..Len(request)
  BY <1>0 DEF CallReturns, ConnInv, CallInv
<1>2. PICK p \in Peers : p = request[s].target
  BY <1>1, Fields DEF ConnType
<1>3. /\ request[s].at = "done" /\ Return(t, "ok")
      /\ ackCh' = [ackCh EXCEPT ![t][p] = Append(@, s)]
      /\ UNCHANGED <<drawn, request, netVars, working, acked>>
  BY <1>0, <1>2 DEF CallReturns, Answered
<1>4. ackCh[t] \in [Peers -> Seq(Nat)] /\ ackCh[t][p] \in Seq(Nat)
  BY <1>1 DEF ConnType
<1> DEFINE c == Append(ackCh[t][p], s)
<1>5. /\ c \in Seq(Nat) /\ Len(c) = Len(ackCh[t][p]) + 1 /\ c[Len(ackCh[t][p]) + 1] = s
      /\ \A j \in 1..Len(ackCh[t][p]) : c[j] = ackCh[t][p][j]
  BY <1>4, Longer, SMT
<1>6. s \in Range(c) /\ Range(ackCh[t][p]) \subseteq Range(c)
  <2>1. Len(c) \in 1..Len(c) /\ \A j \in 1..Len(ackCh[t][p]) : j \in 1..Len(c)
    BY <1>4, <1>5, SMT
  <2>2. s \in Range(c)
    BY <1>4, <1>5, <2>1, Elements
  <2>3. ASSUME NEW x \in Range(ackCh[t][p]) PROVE x \in Range(c)
    <3>1. PICK j \in 1..Len(ackCh[t][p]) : x = ackCh[t][p][j]
      BY <1>4, Elements
    <3>2. j \in 1..Len(c) /\ c[j] = x
      BY <1>5, <2>1, <3>1
    <3> QED
      BY <1>5, <3>2, Elements
  <2> QED
    BY <2>2, <2>3
<1>7. ackCh' = [ackCh EXCEPT ![t] = [ackCh[t] EXCEPT ![p] = c]]
  BY <1>3
<1> HIDE DEF c
<1>8. /\ ackCh'[t] = [ackCh[t] EXCEPT ![p] = c] /\ ackCh'[t] \in [Peers -> Seq(Nat)]
      /\ ackCh' \in [Threads -> [Peers -> Seq(Nat)]]
      /\ \A r \in Threads : r # t => ackCh'[r] = ackCh[r]
  BY <1>1, <1>4, <1>5, <1>7 DEF ConnType
<1>9. /\ ackCh'[t][p] = c /\ \A r \in Peers : r # p => ackCh'[t][r] = ackCh[t][r]
  BY <1>4, <1>8
<1>10. /\ \A r \in Peers : Range(ackCh[t][r]) \subseteq Range(ackCh'[t][r])
       /\ \E r \in Peers : conn[t].call \in Range(ackCh'[t][r])
  BY <1>0, <1>6, <1>9
<1>11. "ok" \in {"ok", "error"}
  OBVIOUS
<1> QED
  BY <1>0, <1>1, <1>3, <1>8, <1>10, <1>11, ReturnFinishes

-----------------------------------------------------------------------------
(***************************************************************************)
(* The leader of the database.                                             *)
(***************************************************************************)
\* A request goes on, and no unit is executed: the invariant is kept, if its place and its
\* sequence number may be what they are.
LEMMA MovedKeeps ==
  ASSUME ConnInv, NEW s \in 1..Len(request),
         NEW at \in {"verified", "refused", "recorded", "done", "failed"}, Moved(s, at),
         UNCHANGED <<connIDAvail, drawn, conn, applied, ackVars, units>>,
         request[s].at # "done", at = "done" => request[s].type # "write",
         at \in {"verified", "recorded", "failed"} => request[s].type = "write",
         \A id \in DOMAIN connSeqs' : connSeqs'[id] \in Nat, SequenceInv'
  PROVE  ConnInv'
<1>1. /\ connIDAvail' = connIDAvail /\ drawn' = drawn /\ conn' = conn /\ applied' = applied
      /\ ackCh' = ackCh /\ working' = working /\ acked' = acked /\ units' = units
  BY DEF ackVars
<1>2. /\ request' \in Seq(Request) /\ Len(request') = Len(request)
      /\ \A r \in 1..Len(request) : /\ request'[r].type = request[r].type
                                    /\ request'[r].queries = request[r].queries
                                    /\ request'[r].by = request[r].by
  BY DEF Moved
<1>3. ConnType'
  BY <1>1, <1>2 DEF ConnInv, ConnType
<1>4. BatchInv'
  BY <1>1 DEF ConnInv, BatchInv
<1>5. CallInv'
  <2>1. CallInv
    BY DEF ConnInv
  <2>2. ASSUME NEW t \in Threads, conn[t].at = "call"
        PROVE  /\ conn[t].call \in 1..Len(request) /\ request'[conn[t].call].by = t
               /\ request'[conn[t].call].type = "write" =>
                    Batch(request'[conn[t].call].queries, t, Len(units[t]))
    BY <1>2, <2>1, <2>2 DEF CallInv
  <2> QED
    BY <1>1, <1>2, <2>2 DEF CallInv
<1>6. SentInv'
  <2>1. SentInv
    BY DEF ConnInv
  <2>2. \A r \in 1..Len(request) : \A b : Owned(r, b) => Owned(r, b)'
    BY <1>1, <1>2 DEF Owned
  <2> QED
    BY <1>2, <2>1, <2>2 DEF SentInv
<1>7. \A r \in 1..Len(request) : Executed(r)' <=> Executed(r)
  <2>1. \A r \in 1..Len(request) : r # s => request'[r] = request[r]
    BY DEF Moved
  <2>2. request'[s].at = at
    BY DEF Moved
  <2>3. ASSUME NEW r \in 1..Len(request) PROVE Executed(r)' <=> Executed(r)
    <3>1. CASE r = s
      BY <1>2, <2>2, <3>1 DEF Executed
    <3>2. CASE r # s
      BY <2>1, <3>2 DEF Executed
    <3> QED
      BY <3>1, <3>2
  <2> QED
    BY <2>3
<1>8. AppliedInv'
  <2>1. AppliedInv
    BY DEF ConnInv
  <2>2. \A r \in 1..Len(request) : request'[r].at \in {"verified", "recorded", "failed"} =>
          request'[r].type = "write"
    <3>1. \A r \in 1..Len(request) : r # s => request'[r] = request[r]
      BY DEF Moved
    <3>2. request'[s].at = at
      BY DEF Moved
    <3> QED
      BY <1>2, <2>1, <3>1, <3>2, ZenonT(30) DEF AppliedInv
  <2>3. ASSUME NEW i \in 1..Len(applied)
        PROVE  \E r \in 1..Len(request) : Executed(r)' /\ request'[r].queries = applied[i]
    <3>1. PICK r \in 1..Len(request) : Executed(r) /\ request[r].queries = applied[i]
      BY <2>1 DEF AppliedInv
    <3> QED
      BY <1>2, <1>7, <3>1
  <2>4. ASSUME NEW r \in 1..Len(request), Executed(r)'
        PROVE  \E i \in 1..Len(applied) : request'[r].queries = applied[i]
    <3>1. PICK i \in 1..Len(applied) : request[r].queries = applied[i]
      BY <1>7, <2>1, <2>4 DEF AppliedInv
    <3> QED
      BY <1>2, <3>1
  <2>5. \A i, j \in 1..Len(applied) : applied[i] = applied[j] => i = j
    BY <2>1 DEF AppliedInv
  <2>6. Len(request') = Len(request) /\ applied' = applied
    BY <1>1, <1>2
  <2> QED
    BY <2>2, <2>3, <2>4, <2>5, <2>6, SMT DEF AppliedInv
<1>9. AcksInv'
  <2>1. AcksInv
    BY DEF ConnInv
  <2>2. \A r, t : Acking(r, t)' <=> Acking(r, t)
    BY <1>1 DEF Acking
  <2>3. \A t, p : WorkersGone(t, p)' <=> WorkersGone(t, p)
    BY <1>1 DEF WorkersGone
  <2> QED
    BY <1>1, <1>2, <1>7, <2>1, <2>2, <2>3 DEF AcksInv
<1> QED
  BY <1>3, <1>4, <1>5, <1>6, <1>8, <1>9 DEF ConnInv

\* The sequence numbers, when none is recorded.
LEMMA SequenceKept ==
  ASSUME ConnInv, NEW s \in 1..Len(request),
         NEW at \in {"verified", "refused", "recorded", "done", "failed"}, Moved(s, at),
         connSeqs' = connSeqs, lowered' = lowered, ~request'[s].late,
         at \in {"recorded", "done", "failed"} =>
           request[s].type = "read" \/ request[s].at = "recorded"
  PROVE  SequenceInv'
<1>1. /\ Len(request') = Len(request) /\ request'[s].at = at
      /\ \A r \in 1..Len(request) : /\ request'[r].id = request[r].id
                                    /\ request'[r].type = request[r].type
                                    /\ r # s => request'[r] = request[r]
  BY DEF Moved
<1>2. SequenceInv /\ \A id : Recorded(id)' = Recorded(id)
  BY DEF ConnInv, Recorded
<1>3. ASSUME NEW r \in 1..Len(request)
      PROVE  /\ ~request'[r].late
             /\ request'[r].type = "write" /\ request'[r].at \in {"recorded", "done", "failed"}
                  /\ request'[r].id \notin lowered => r <= Recorded(request'[r].id)
  <2>1. CASE r # s
    BY <1>1, <1>2, <2>1 DEF SequenceInv
  <2>2. CASE r = s
    <3>1. ASSUME request'[s].type = "write", at \in {"recorded", "done", "failed"},
                 request'[s].id \notin lowered
          PROVE  s <= Recorded(request'[s].id)
      <4>1. request[s].type = "write" /\ request[s].id = request'[s].id
        BY <1>1, <3>1
      <4>2. request[s].at \in {"recorded", "done", "failed"}
        BY <3>1, <4>1
      <4> QED
        BY <1>2, <3>1, <4>1, <4>2 DEF SequenceInv
    <3> QED
      BY <1>1, <2>2, <3>1
  <2> QED
    BY <2>1, <2>2
<1> QED
  BY <1>1, <1>2, <1>3 DEF SequenceInv

\* Check: a write that is overtaken does not pass, unless the number of its id went down.
LEMMA CheckKeeps ==
  ASSUME ConnInv, NEW s \in 1..Len(request), Check(s)
  PROVE  ConnInv'
<1>1. /\ ConnType /\ request \in Seq(Request) /\ request[s].at = "wire"
      /\ request[s].type = "write" /\ ~request[s].late
      /\ UNCHANGED <<connIDAvail, drawn, conn, applied, ackVars, units>>
      /\ connSeqs' = connSeqs /\ lowered' = lowered
  BY DEF ConnInv, ConnType, SequenceInv, Check, netVars
<1>2. \A id \in DOMAIN connSeqs' : connSeqs'[id] \in Nat
  BY <1>1 DEF ConnType
<1>3. CASE Step(s, "refused")
  <2>1. "refused" \in {"wire", "verified", "refused", "recorded", "done", "failed"}
    OBVIOUS
  <2>2. Moved(s, "refused") /\ request'[s].late = request[s].late
    BY <1>1, <1>3, <2>1, StepMoves
  <2>3. /\ "refused" \in {"verified", "refused", "recorded", "done", "failed"}
        /\ "refused" \notin {"verified", "recorded", "done", "failed"}
        /\ "refused" # "done" /\ "wire" # "done" /\ ~request'[s].late
    BY <1>1, <2>2
  <2>4. SequenceInv'
    BY <1>1, <2>2, <2>3, SequenceKept
  <2> QED
    BY <1>1, <1>2, <2>2, <2>3, <2>4, MovedKeeps
<1>4. CASE /\ verifySequence(s)
           /\ request' = [request EXCEPT ![s].at = "verified",
                            ![s].late = Overtaken(s) /\ request[s].id \notin lowered]
  <2>1. ~(Overtaken(s) /\ request[s].id \notin lowered)
    <3> SUFFICES ASSUME Overtaken(s), request[s].id \notin lowered PROVE FALSE
      OBVIOUS
    <3>1. PICK r \in (s + 1)..Len(request) :
            /\ request[r].id = request[s].id /\ request[r].type = "write"
            /\ request[r].at \in {"recorded", "done", "failed"}
      BY DEF Overtaken
    <3>2. PICK m : m = Recorded(request[s].id)
      OBVIOUS
    <3>3. r \in 1..Len(request) /\ r > s
      BY <3>1, SMT
    <3>4. r <= m
      BY <3>1, <3>2, <3>3 DEF ConnInv, SequenceInv
    <3>5. s > m /\ m \in Nat
      <4>1. s > m
        BY <1>4, <3>2 DEF verifySequence
      <4>2. m \in Nat
        BY <1>1, <3>2 DEF ConnType, Recorded
      <4> QED
        BY <4>1, <4>2
    <3> QED
      BY <3>3, <3>4, <3>5, SMT
  <2>2. request' = [request EXCEPT ![s].at = "verified", ![s].late = FALSE]
    BY <1>4, <2>1
  <2>3. Moved(s, "verified") /\ request'[s].late = FALSE
    BY <1>1, <2>2, PassMoves
  <2>4. /\ "verified" \in {"verified", "refused", "recorded", "done", "failed"}
        /\ "verified" \notin {"recorded", "done", "failed"}
        /\ "verified" # "done" /\ "wire" # "done" /\ ~request'[s].late
    BY <2>3
  <2>5. SequenceInv'
    BY <1>1, <2>3, <2>4, SequenceKept
  <2> QED
    BY <1>1, <1>2, <2>3, <2>4, <2>5, MovedKeeps
<1> QED
  BY <1>3, <1>4 DEF Check

\* recordSequence: only an id whose number goes down can have a higher one behind it.
LEMMA RecordKeeps ==
  ASSUME ConnInv, NEW s \in 1..Len(request), recordSequence(s)
  PROVE  ConnInv'
<1>0. PICK id \in Nat : id = request[s].id
  BY Fields DEF ConnInv, ConnType
<1>1. /\ ConnType /\ request \in Seq(Request) /\ request[s].at = "verified"
      /\ request[s].type = "write" /\ ~request[s].late
      /\ UNCHANGED <<connIDAvail, drawn, conn, applied, ackVars, units>>
      /\ connSeqs' = [i \in DOMAIN connSeqs \union {id} |-> IF i = id THEN s ELSE connSeqs[i]]
      /\ lowered' = IF s < Recorded(id) THEN lowered \union {id} ELSE lowered
      /\ Step(s, "recorded")
  BY <1>0 DEF ConnInv, ConnType, AppliedInv, SequenceInv, recordSequence
<1>2. \A i \in DOMAIN connSeqs' : connSeqs'[i] \in Nat
  BY <1>1, SMT DEF ConnType
<1>3. Moved(s, "recorded") /\ request'[s].late = request[s].late
  <2>1. "recorded" \in {"wire", "verified", "refused", "recorded", "done", "failed"}
    OBVIOUS
  <2> QED
    BY <1>1, <2>1, StepMoves
<1>4. /\ Len(request') = Len(request)
      /\ \A r \in 1..Len(request) : /\ request'[r].id = request[r].id
                                    /\ request'[r].type = request[r].type
                                    /\ r # s => request'[r] = request[r]
  BY <1>3 DEF Moved
<1>5. \A i : /\ Recorded(i)' = IF i = id THEN s ELSE Recorded(i)
             /\ Recorded(i) \in Nat
  BY <1>1 DEF Recorded, ConnType
<1>6. SequenceInv'
  <2>1. SequenceInv
    BY DEF ConnInv
  <2>2. ASSUME NEW r \in 1..Len(request)
        PROVE  /\ ~request'[r].late
               /\ request'[r].type = "write" /\ request'[r].at \in {"recorded", "done", "failed"}
                    /\ request'[r].id \notin lowered' => r <= Recorded(request[r].id)'
    <3>1. CASE r = s
      <4>1. request'[s].id = id
        BY <1>0, <1>4
      <4>2. s <= Recorded(id)'
        BY <1>5, SMT
      <4> QED
        BY <1>1, <1>3, <3>1, <4>1, <4>2 DEF Recorded
    <3>2. CASE r # s
      <4>1. request'[r] = request[r]
        BY <1>4, <3>2
      <4>2. PICK i : i = request[r].id
        OBVIOUS
      <4>3. /\ ~request[r].late
            /\ request[r].type = "write" /\ request[r].at \in {"recorded", "done", "failed"}
                 /\ i \notin lowered => r <= Recorded(i)
        BY <2>1, <4>2 DEF SequenceInv
      <4>4. CASE i = id
        <5>1. i \notin lowered' => Recorded(i) <= s /\ i \notin lowered
          BY <1>1, <1>5, <4>4, SMT
        <5>2. r \in Nat /\ s \in Nat /\ Recorded(i) \in Nat /\ Recorded(i)' = s
          BY <1>5, <4>4, SMT
        <5>3. r <= Recorded(i) /\ Recorded(i) <= s => r <= Recorded(i)'
          BY <5>2, SMT
        <5> QED
          BY <4>1, <4>2, <4>3, <5>1, <5>3 DEF Recorded
      <4>5. CASE i # id
        <5>1. i \notin lowered' => i \notin lowered
          BY <1>1, <4>5
        <5>2. Recorded(i)' = Recorded(i)
          BY <1>5, <4>5
        <5> QED
          BY <4>1, <4>2, <4>3, <5>1, <5>2 DEF Recorded
      <4> QED
        BY <4>4, <4>5
    <3> QED
      BY <3>1, <3>2
  <2> QED
    BY <1>4, <2>2 DEF SequenceInv
<1>7. /\ "recorded" \in {"verified", "refused", "recorded", "done", "failed"}
      /\ "recorded" # "done" /\ "verified" # "done"
  OBVIOUS
<1> QED
  BY <1>1, <1>2, <1>3, <1>6, <1>7, MovedKeeps

\* Read.
LEMMA ReadKeeps ==
  ASSUME ConnInv, NEW s \in 1..Len(request), Read(s)
  PROVE  ConnInv'
<1>1. /\ ConnType /\ request \in Seq(Request) /\ request[s].at = "wire"
      /\ request[s].type = "read" /\ ~request[s].late /\ Step(s, "done")
      /\ UNCHANGED <<connIDAvail, drawn, conn, applied, ackVars, units>>
      /\ connSeqs' = connSeqs /\ lowered' = lowered
  BY DEF ConnInv, ConnType, SequenceInv, Read, netVars
<1>2. \A i \in DOMAIN connSeqs' : connSeqs'[i] \in Nat
  BY <1>1 DEF ConnType
<1>3. Moved(s, "done") /\ request'[s].late = request[s].late
  <2>1. "done" \in {"wire", "verified", "refused", "recorded", "done", "failed"}
    OBVIOUS
  <2> QED
    BY <1>1, <2>1, StepMoves
<1>4. /\ "done" \in {"verified", "refused", "recorded", "done", "failed"}
      /\ "done" \notin {"verified", "recorded", "failed"}
      /\ "wire" # "done" /\ "read" # "write" /\ ~request'[s].late
  BY <1>1, <1>3
<1>5. SequenceInv'
  BY <1>1, <1>3, <1>4, SequenceKept
<1> QED
  BY <1>1, <1>2, <1>3, <1>4, <1>5, MovedKeeps

\* Execute: a unit is executed with its request, which has not been before.
LEMMA ExecuteKeeps ==
  ASSUME ConnInv, NEW s \in 1..Len(request), Execute(s)
  PROVE  ConnInv'
<1>1. /\ ConnType /\ request \in Seq(Request) /\ request[s].at = "recorded"
      /\ request[s].type = "write" /\ ~request[s].late
      /\ connIDAvail' = connIDAvail /\ drawn' = drawn /\ conn' = conn
      /\ UNCHANGED ackVars /\ units' = units
      /\ connSeqs' = connSeqs /\ lowered' = lowered
  BY DEF ConnInv, ConnType, AppliedInv, SequenceInv, Execute
<1>2. \A i \in DOMAIN connSeqs' : connSeqs'[i] \in Nat
  BY <1>1 DEF ConnType
<1>3. CASE Step(s, "failed") /\ applied' = applied
  <2>1. "failed" \in {"wire", "verified", "refused", "recorded", "done", "failed"}
    OBVIOUS
  <2>2. Moved(s, "failed") /\ request'[s].late = request[s].late
    BY <1>1, <1>3, <2>1, StepMoves
  <2>3. /\ "failed" \in {"verified", "refused", "recorded", "done", "failed"}
        /\ "recorded" # "done" /\ "failed" # "done" /\ ~request'[s].late
    BY <1>1, <2>2
  <2>4. SequenceInv'
    BY <1>1, <2>2, <2>3, SequenceKept
  <2>5. UNCHANGED <<connIDAvail, drawn, conn, applied, ackVars, units>>
    BY <1>1, <1>3
  <2> QED
    BY <1>1, <1>2, <2>2, <2>3, <2>4, <2>5, MovedKeeps
<1>4. CASE Step(s, "done") /\ applied' = Append(applied, request[s].queries)
  <2>1. Moved(s, "done") /\ request'[s].late = request[s].late
    <3>1. "done" \in {"wire", "verified", "refused", "recorded", "done", "failed"}
      OBVIOUS
    <3> QED
      BY <1>1, <1>4, <3>1, StepMoves
  <2>2. /\ request' \in Seq(Request) /\ Len(request') = Len(request) /\ request'[s].at = "done"
        /\ \A r \in 1..Len(request) : /\ request'[r].type = request[r].type
                                      /\ request'[r].queries = request[r].queries
                                      /\ request'[r].by = request[r].by
                                      /\ r # s => request'[r] = request[r]
    BY <2>1 DEF Moved
  <2>3. PICK m \in Nat : m = Len(applied)
    BY <1>1, SMT DEF ConnType
  <2>4. /\ applied' \in Seq(Seq(Write)) /\ Len(applied') = m + 1
        /\ applied'[m + 1] = request[s].queries
        /\ \A i \in 1..m : applied'[i] = applied[i]
    <3>1. request[s].queries \in Seq(Write) /\ applied \in Seq(Seq(Write))
      BY <1>1, Fields DEF ConnType
    <3> QED
      BY <1>4, <2>3, <3>1, Longer, SMT
  <2>5. /\ \A i \in 1..m : i \in 1..(m + 1)
        /\ \A i \in 1..(m + 1) : i \in 1..m \/ i = m + 1
        /\ m + 1 \in 1..(m + 1)
    BY SMT
  <2>6. /\ Executed(s)' /\ ~Executed(s)
        /\ \A r \in 1..Len(request) : Executed(r) => Executed(r)'
        /\ \A r \in 1..Len(request) : Executed(r)' => r = s \/ Executed(r)
    <3>1. \A r \in 1..Len(request) : r # s => (Executed(r)' <=> Executed(r))
      BY <2>2 DEF Executed
    <3>2. ~Executed(s) /\ Executed(s)'
      BY <1>1, <2>2 DEF Executed
    <3> QED
      BY <3>1, <3>2 DEF Executed
  <2>7. ConnType'
    BY <1>1, <1>2, <2>2, <2>4 DEF ConnType, ackVars
  <2>8. BatchInv'
    BY <1>1 DEF ConnInv, BatchInv
  <2>9. CallInv'
    <3>1. CallInv
      BY DEF ConnInv
    <3>2. ASSUME NEW t \in Threads, conn[t].at = "call"
          PROVE  /\ conn[t].call \in 1..Len(request) /\ request'[conn[t].call].by = t
                 /\ request'[conn[t].call].type = "write" =>
                      Batch(request'[conn[t].call].queries, t, Len(units[t]))
      BY <2>2, <3>1, <3>2 DEF CallInv
    <3> QED
      BY <1>1, <2>2, <3>2 DEF CallInv
  <2>10. SentInv'
    <3>1. SentInv
      BY DEF ConnInv
    <3>2. \A r \in 1..Len(request) : \A b : Owned(r, b) => Owned(r, b)'
      BY <1>1, <2>2 DEF Owned
    <3> QED
      BY <2>2, <3>1, <3>2, SMTT(30) DEF SentInv
  <2>11. AppliedInv'
    <3>1. AppliedInv
      BY DEF ConnInv
    <3>2. \A r \in 1..Len(request) : request'[r].at \in {"verified", "recorded", "failed"} =>
            request'[r].type = "write"
      <4>1. \A r \in 1..Len(request) : request[r].at \in {"verified", "recorded", "failed"} =>
              request[r].type = "write"
        BY <3>1 DEF AppliedInv
      <4>2. request'[s].type = "write"
        BY <1>1, <2>2
      <4> QED
        BY <2>2, <4>1, <4>2
    <3>3. ASSUME NEW i \in 1..(m + 1)
          PROVE  \E r \in 1..Len(request) : Executed(r)' /\ request'[r].queries = applied'[i]
      <4>1. CASE i \in 1..m
        <5>1. PICK r \in 1..Len(request) : Executed(r) /\ request[r].queries = applied[i]
          BY <2>3, <3>1, <4>1 DEF AppliedInv
        <5> QED
          BY <2>2, <2>4, <2>6, <4>1, <5>1
      <4>2. CASE i = m + 1
        BY <2>2, <2>4, <2>6, <4>2
      <4> QED
        BY <2>5, <4>1, <4>2
    <3>4. ASSUME NEW r \in 1..Len(request), Executed(r)'
          PROVE  \E i \in 1..(m + 1) : request'[r].queries = applied'[i]
      <4>1. CASE r = s
        BY <2>2, <2>4, <2>5, <4>1
      <4>2. CASE Executed(r)
        <5>1. PICK i \in 1..m : request[r].queries = applied[i]
          BY <2>3, <3>1, <4>2 DEF AppliedInv
        <5> QED
          BY <2>2, <2>4, <2>5, <5>1
      <4> QED
        BY <2>6, <3>4, <4>1, <4>2
    <3>5. \A i \in 1..m : applied[i] # request[s].queries
      <4> SUFFICES ASSUME NEW i \in 1..m, applied[i] = request[s].queries PROVE FALSE
        OBVIOUS
      <4>1. PICK r \in 1..Len(request) : Executed(r) /\ request[r].queries = applied[i]
        BY <2>3, <3>1 DEF AppliedInv
      <4>2. r = s
        BY <1>1, <4>1 DEF ConnInv, SentInv, Executed
      <4> QED
        BY <2>6, <4>1, <4>2
    <3>6. ASSUME NEW i \in 1..(m + 1), NEW j \in 1..(m + 1), applied'[i] = applied'[j]
          PROVE  i = j
      <4>1. \A x, y \in 1..m : applied[x] = applied[y] => x = y
        BY <2>3, <3>1 DEF AppliedInv
      <4> QED
        BY <2>4, <2>5, <3>5, <3>6, <4>1
    <3> QED
      BY <2>2, <2>4, <3>2, <3>3, <3>4, <3>6 DEF AppliedInv
  <2>12. AcksInv'
    <3>1. AcksInv
      BY DEF ConnInv
    <3>2. \A r, t : Acking(r, t)' <=> Acking(r, t)
      BY <1>1 DEF Acking, ackVars
    <3>3. \A t, p : WorkersGone(t, p)' <=> WorkersGone(t, p)
      BY <1>1 DEF WorkersGone, ackVars
    <3> QED
      BY <1>1, <2>2, <2>6, <3>1, <3>2, <3>3 DEF AcksInv
  <2>13. SequenceInv'
    <3>1. "done" \in {"verified", "refused", "recorded", "done", "failed"} /\ ~request'[s].late
      BY <1>1, <2>1
    <3> QED
      BY <1>1, <2>1, <3>1, SequenceKept
  <2> QED
    BY <2>7, <2>8, <2>9, <2>10, <2>11, <2>12, <2>13 DEF ConnInv
<1> QED
  BY <1>3, <1>4 DEF Execute

-----------------------------------------------------------------------------
(***************************************************************************)
(* The acks.                                                               *)
(***************************************************************************)
\* Acks move on: none is lost, and a channel or worker that is empty stays so.
LEMMA AcksMove ==
  ASSUME ConnInv, UNCHANGED <<connIDAvail, drawn, conn, request, netVars, units>>,
         ackCh' \in [Threads -> [Peers -> Seq(Nat)]],
         working' \in [Threads -> [Peers -> SUBSET Nat]], acked' \subseteq Nat,
         \A s : \A t \in Threads : Acking(s, t) => Acking(s, t)',
         \A t \in Threads, p \in Peers : WorkersGone(t, p) => WorkersGone(t, p)'
  PROVE  ConnInv'
<1>1. /\ connIDAvail' = connIDAvail /\ drawn' = drawn /\ conn' = conn /\ request' = request
      /\ connSeqs' = connSeqs /\ applied' = applied /\ lowered' = lowered /\ units' = units
  BY DEF netVars
<1>2. ConnType'
  BY <1>1 DEF ConnInv, ConnType
<1>3. BatchInv'
  BY <1>1 DEF ConnInv, BatchInv
<1>4. CallInv'
  BY <1>1 DEF ConnInv, CallInv
<1>5. SentInv'
  <2>1. SentInv /\ \A s, b : Owned(s, b)' <=> Owned(s, b)
    BY <1>1 DEF ConnInv, Owned
  <2> QED
    BY <1>1, <2>1 DEF SentInv
<1>6. AppliedInv'
  <2>1. AppliedInv /\ \A s : Executed(s)' <=> Executed(s)
    BY <1>1 DEF ConnInv, Executed
  <2> QED
    BY <1>1, <2>1, SMT DEF AppliedInv
<1>7. AcksInv'
  <2>1. AcksInv /\ \A s : Executed(s)' <=> Executed(s)
    BY <1>1 DEF ConnInv, Executed
  <2> QED
    BY <1>1, <2>1 DEF AcksInv
<1>8. SequenceInv'
  BY <1>1 DEF ConnInv, SequenceInv, Recorded
<1> QED
  BY <1>2, <1>3, <1>4, <1>5, <1>6, <1>7, <1>8 DEF ConnInv

\* ackWorker.
LEMMA WorkerKeeps ==
  ASSUME ConnInv, NEW t \in Threads, NEW p \in Peers, ackWorker(t, p)
  PROVE  ConnInv'
<1> DEFINE q == ackCh[t][p]
           h == Head(q)
<1>1. /\ q # <<>> /\ ackCh' = [ackCh EXCEPT ![t][p] = Tail(q)]
      /\ working' = [working EXCEPT ![t][p] = working[t][p] \union {h}]
      /\ acked' = acked /\ UNCHANGED <<connIDAvail, drawn, conn, request, netVars, units>>
  BY DEF ackWorker
<1>2. /\ ackCh \in [Threads -> [Peers -> Seq(Nat)]] /\ q \in Seq(Nat)
      /\ working \in [Threads -> [Peers -> SUBSET Nat]] /\ working[t][p] \subseteq Nat
      /\ acked \subseteq Nat
  BY DEF ConnInv, ConnType
<1>3. /\ h \in Nat /\ Tail(q) \in Seq(Nat) /\ h = q[1] /\ Len(Tail(q)) = Len(q) - 1
      /\ \A j \in 1..(Len(q) - 1) : Tail(q)[j] = q[j + 1]
  BY <1>1, <1>2, Shorter
<1>4. Range(q) \subseteq Range(Tail(q)) \union {h}
  <2> SUFFICES ASSUME NEW x \in Range(q), x # h PROVE x \in Range(Tail(q))
    OBVIOUS
  <2>1. PICK j \in 1..Len(q) : x = q[j]
    BY <1>2, Elements
  <2>2. j - 1 \in 1..Len(Tail(q)) /\ Tail(q)[j - 1] = x
    BY <1>2, <1>3, <2>1, SMT
  <2> QED
    BY <1>3, <2>2, Elements
<1> DEFINE c == Tail(q)
           w == working[t][p] \union {h}
<1>5. /\ ackCh' = [ackCh EXCEPT ![t] = [ackCh[t] EXCEPT ![p] = c]]
      /\ working' = [working EXCEPT ![t] = [working[t] EXCEPT ![p] = w]]
  BY <1>1
<1>6. c \in Seq(Nat) /\ w \subseteq Nat
  BY <1>2, <1>3
<1> HIDE DEF c, w, q, h
<1>7. /\ ackCh' \in [Threads -> [Peers -> Seq(Nat)]]
      /\ \A r \in Threads : r # t => ackCh'[r] = ackCh[r]
      /\ ackCh'[t][p] = c /\ \A r \in Peers : r # p => ackCh'[t][r] = ackCh[t][r]
  BY <1>2, <1>5, <1>6
<1>8. /\ working' \in [Threads -> [Peers -> SUBSET Nat]]
      /\ \A r \in Threads : r # t => working'[r] = working[r]
      /\ working'[t][p] = w /\ \A r \in Peers : r # p => working'[t][r] = working[t][r]
  BY <1>2, <1>5, <1>6
<1>9. \A s : \A r \in Threads : Acking(s, r) => Acking(s, r)'
  <2>1. \A s : s \in Range(q) => s \in w \/ s \in Range(c)
    BY <1>4 DEF c, w
  <2>2. \A s : s \in working[t][p] => s \in w
    BY DEF w
  <2> SUFFICES ASSUME NEW s, NEW r \in Threads, Acking(s, r) PROVE Acking(s, r)'
    OBVIOUS
  <2>3. CASE s \in acked
    BY <1>1, <2>3 DEF Acking
  <2>4. CASE \E j \in Peers : s \in working[r][j] \/ s \in Range(ackCh[r][j])
    <3>1. PICK j \in Peers : s \in working[r][j] \/ s \in Range(ackCh[r][j])
      BY <2>4
    <3>2. CASE r = t /\ j = p
      BY <1>7, <1>8, <2>1, <2>2, <3>1, <3>2 DEF Acking, q
    <3>3. CASE r # t \/ j # p
      <4>1. working'[r][j] = working[r][j] /\ ackCh'[r][j] = ackCh[r][j]
        BY <1>7, <1>8, <3>3
      <4> QED
        BY <3>1, <4>1 DEF Acking
    <3> QED
      BY <3>2, <3>3
  <2> QED
    BY <2>3, <2>4 DEF Acking
<1>10. \A r \in Threads, j \in Peers : WorkersGone(r, j) => WorkersGone(r, j)'
  <2> SUFFICES ASSUME NEW r \in Threads, NEW j \in Peers, WorkersGone(r, j)
               PROVE  WorkersGone(r, j)'
    OBVIOUS
  <2>1. r # t \/ j # p
    BY <1>1 DEF WorkersGone, q
  <2>2. working'[r][j] = working[r][j] /\ ackCh'[r][j] = ackCh[r][j]
    BY <1>7, <1>8, <2>1
  <2> QED
    BY <2>2 DEF WorkersGone
<1>11. acked' \subseteq Nat
  BY <1>1, <1>2
<1> QED
  BY <1>1, <1>7, <1>8, <1>9, <1>10, <1>11, AcksMove

\* AckEnds.
LEMMA AckEndsKeeps ==
  ASSUME ConnInv, NEW t \in Threads, NEW p \in Peers, AckEnds(t, p)
  PROVE  ConnInv'
<1>1. PICK a \in working[t][p] :
        /\ working' = [working EXCEPT ![t][p] = working[t][p] \ {a}]
        /\ acked' = acked \union {a} /\ ackCh' = ackCh
        /\ UNCHANGED <<connIDAvail, drawn, conn, request, netVars, units>>
  BY DEF AckEnds
<1>2. /\ ackCh \in [Threads -> [Peers -> Seq(Nat)]]
      /\ working \in [Threads -> [Peers -> SUBSET Nat]] /\ working[t][p] \subseteq Nat
      /\ acked \subseteq Nat
  BY DEF ConnInv, ConnType
<1> DEFINE w == working[t][p] \ {a}
<1>3. working' = [working EXCEPT ![t] = [working[t] EXCEPT ![p] = w]] /\ w \subseteq Nat
  BY <1>1, <1>2
<1> HIDE DEF w
<1>4. /\ working' \in [Threads -> [Peers -> SUBSET Nat]]
      /\ \A r \in Threads : r # t => working'[r] = working[r]
      /\ working'[t][p] = w /\ \A r \in Peers : r # p => working'[t][r] = working[t][r]
  BY <1>2, <1>3
<1>5. \A s : \A r \in Threads : Acking(s, r) => Acking(s, r)'
  <2>1. \A s : s \in working[t][p] => s \in w \/ s \in acked'
    BY <1>1 DEF w
  <2>2. \A s \in acked : s \in acked'
    BY <1>1
  <2> SUFFICES ASSUME NEW s, NEW r \in Threads, Acking(s, r) PROVE Acking(s, r)'
    OBVIOUS
  <2>3. CASE s \in acked
    BY <2>2, <2>3 DEF Acking
  <2>4. CASE \E j \in Peers : s \in working[r][j] \/ s \in Range(ackCh[r][j])
    <3>1. PICK j \in Peers : s \in working[r][j] \/ s \in Range(ackCh[r][j])
      BY <2>4
    <3>2. CASE r = t /\ j = p
      BY <1>1, <1>4, <2>1, <3>1, <3>2 DEF Acking
    <3>3. CASE r # t \/ j # p
      <4>1. working'[r][j] = working[r][j] /\ ackCh'[r][j] = ackCh[r][j]
        BY <1>1, <1>4, <3>3
      <4> QED
        BY <3>1, <4>1 DEF Acking
    <3> QED
      BY <3>2, <3>3
  <2> QED
    BY <2>3, <2>4 DEF Acking
<1>6. \A r \in Threads, j \in Peers : WorkersGone(r, j) => WorkersGone(r, j)'
  <2> SUFFICES ASSUME NEW r \in Threads, NEW j \in Peers, WorkersGone(r, j)
               PROVE  WorkersGone(r, j)'
    OBVIOUS
  <2>1. r # t \/ j # p
    BY <1>1 DEF WorkersGone
  <2>2. working'[r][j] = working[r][j] /\ ackCh'[r][j] = ackCh[r][j]
    BY <1>1, <1>4, <2>1
  <2> QED
    BY <2>2 DEF WorkersGone
<1>7. acked' \subseteq Nat /\ ackCh' \in [Threads -> [Peers -> Seq(Nat)]]
  BY <1>1, <1>2
<1> QED
  BY <1>1, <1>4, <1>5, <1>6, <1>7, AcksMove

-----------------------------------------------------------------------------
(***************************************************************************)
(* Connections, for every scenario.                                        *)
(***************************************************************************)
\* It holds of the first state.
LEMMA ConnInitially ==
  ConnInit => ConnInv
<1> SUFFICES ASSUME ConnInit PROVE ConnInv
  OBVIOUS
<1>1. /\ connIDAvail = <<>> /\ drawn = 0 /\ conn = [t \in Threads |-> NoConn]
      /\ request = <<>> /\ connSeqs = <<>> /\ applied = <<>> /\ acked = {}
      /\ ackCh = [t \in Threads |-> [p \in Peers |-> <<>>]]
      /\ working = [t \in Threads |-> [p \in Peers |-> {}]]
      /\ units = [t \in Threads |-> <<>>]
  BY DEF ConnInit
<1>2. /\ \A T : <<>> \in Seq(T) /\ Len(<<>>) = 0 /\ 1..0 = {} /\ DOMAIN connSeqs = {}
      /\ NoConn \in ConnState
  <2>1. <<>> \in Seq(Write) /\ 0 \in Nat
    BY SMT
  <2>2. NoConn \in ConnState
    BY <2>1 DEF NoConn, ConnState
  <2> QED
    BY <1>1, <2>2, SMT
<1>3. /\ NoConn.at = "none" /\ ~NoConn.inTransaction /\ NoConn.queries = <<>>
      /\ \A t \in Threads : conn[t] = NoConn /\ units[t] = <<>>
  BY <1>1 DEF NoConn
<1>4. ConnType
  BY <1>1, <1>2 DEF ConnType
<1>5. BatchInv
  BY <1>2, <1>3 DEF BatchInv, Batch
<1>6. CallInv
  BY <1>3 DEF CallInv
<1>7. SentInv /\ AppliedInv /\ SequenceInv
  BY <1>1, <1>2 DEF SentInv, AppliedInv, SequenceInv
<1>8. AcksInv
  BY <1>2, <1>3 DEF AcksInv
<1> QED
  BY <1>4, <1>5, <1>6, <1>7, <1>8 DEF ConnInv

\* Every step of Client keeps the invariant of the connections.
LEMMA ConnAlways ==
  ConnInv /\ [Next]_vars => ConnInv'
<1> SUFFICES ASSUME ConnInv, [Next]_vars PROVE ConnInv'
  OBVIOUS
<1>1. ASSUME NEW t \in Threads, Operation(t) PROVE ConnInv'
  <2>1. BeginTx(t) \/ ExecContext(t) \/ QueryContext(t)
    BY <1>1 DEF Operation
  <2>2. ConnType /\ BatchInv
    BY DEF ConnInv
  <2>3. CASE BeginTx(t) \/ (ExecContext(t) /\ conn[t].inTransaction)
    BY <2>2, <2>3, LocalSteps, LocalKeeps
  <2>4. CASE (ExecContext(t) /\ ~conn[t].inTransaction) \/ QueryContext(t)
    BY <2>4, SendingSteps
  <2> QED
    BY <2>1, <2>3, <2>4
<1>2. ASSUME NEW t \in Threads, Ending(t) PROVE ConnInv'
  <2>1. newConn(t) \/ Commit(t) \/ Rollback(t) \/ Close(t)
    BY <1>2 DEF Ending
  <2>2. ConnType /\ BatchInv
    BY DEF ConnInv
  <2>3. CASE newConn(t) \/ Close(t) \/ (Commit(t) /\ conn[t].queries = <<>>)
    BY <2>2, <2>3, LocalSteps, LocalKeeps
  <2>4. CASE Commit(t) /\ conn[t].queries # <<>>
    BY <2>4, SendingSteps
  <2>5. CASE Rollback(t)
    BY <2>5, RollbackFinishes, FinishedKeeps
  <2> QED
    BY <2>1, <2>3, <2>4, <2>5
<1>3. ASSUME ConnStep PROVE ConnInv'
  <2>1. ASSUME NEW t \in Threads, ThreadStep(t) PROVE ConnInv'
    <3>1. CASE CallFails(t)
      BY <3>1, CallFailsFinishes, FinishedKeeps
    <3>2. CASE CallReturns(t)
      BY <3>2, CallReturnsFinishes, FinishedKeeps
    <3>3. CASE CloseEnds(t)
      <4>1. ConnType /\ BatchInv
        BY DEF ConnInv
      <4> QED
        BY <3>3, <4>1, LocalSteps, LocalKeeps
    <3> QED
      BY <2>1, <3>1, <3>2, <3>3 DEF ThreadStep
  <2>2. ASSUME NEW t \in Threads, NEW p \in Peers, Worker(t, p) PROVE ConnInv'
    BY <2>2, WorkerKeeps, AckEndsKeeps DEF Worker
  <2>3. ASSUME NEW s \in 1..Len(request), Leader(s) PROVE ConnInv'
    BY <2>3, CheckKeeps, RecordKeeps, ExecuteKeeps, ReadKeeps DEF Leader
  <2> QED
    BY <1>3, <2>1, <2>2, <2>3 DEF ConnStep
<1>4. ASSUME UNCHANGED connVars PROVE ConnInv'
  <2>1. /\ UNCHANGED <<connIDAvail, drawn, conn, request, netVars, units>>
        /\ ackCh' = ackCh /\ working' = working /\ acked' = acked
    BY <1>4 DEF connVars, netVars
  <2>2. /\ ackCh' \in [Threads -> [Peers -> Seq(Nat)]]
        /\ working' \in [Threads -> [Peers -> SUBSET Nat]] /\ acked' \subseteq Nat
    BY <2>1 DEF ConnInv, ConnType
  <2>3. /\ \A s : \A t \in Threads : Acking(s, t) => Acking(s, t)'
        /\ \A t \in Threads, p \in Peers : WorkersGone(t, p) => WorkersGone(t, p)'
    BY <2>1 DEF Acking, WorkersGone
  <2> QED
    BY <2>1, <2>2, <2>3, AcksMove
<1>5. CASE UNCHANGED vars
  BY <1>4, <1>5 DEF vars
<1> QED
  BY <1>1, <1>2, <1>3, <1>4, <1>5 DEF Next

\* The connections of every behaviour.
LEMMA ConnInvariant ==
  Spec => []ConnInv
<1>1. Init => ConnInv
  BY ConnInitially DEF Init
<1> QED
  BY <1>1, ConnAlways, PTL DEF Spec

\* No write is executed that was checked after a later write of its connection id had been
\* recorded, but for the ids whose number went down: verifySequence and recordSequence, for
\* all threads, calls, failures and orders.
THEOREM Sequences ==
  Spec => []LateRefused
<1>1. ConnInv => LateRefused
  BY DEF ConnInv, SequenceInv, LateRefused
<1> QED
  BY <1>1, ConnInvariant, PTL

\* Some unit of a thread, or its call, has the writes of a request that was executed.
LEMMA AppliedOwned ==
  ASSUME ConnInv, NEW b \in Range(applied)
  PROVE  \E t \in Threads :
           \/ \E i \in 1..Len(units[t]) : /\ units[t][i].writes = b /\ units[t][i].how # "rollback"
                                          /\ Batch(b, t, i - 1)
           \/ /\ conn[t].at = "call" /\ request[conn[t].call].queries = b
              /\ Batch(b, t, Len(units[t]))
<1>1. applied \in Seq(Seq(Write))
  BY DEF ConnInv, ConnType
<1>2. PICK i \in 1..Len(applied) : b = applied[i]
  BY <1>1, Elements
<1>3. PICK s \in 1..Len(request) : Executed(s) /\ request[s].queries = b
  BY <1>2 DEF ConnInv, AppliedInv
<1>4. request[s].type = "write"
  BY <1>3 DEF Executed
<1>5. PICK t \in Threads : t = request[s].by
  BY Fields DEF ConnInv, ConnType
<1>6. Owned(s, t)
  BY <1>4, <1>5 DEF ConnInv, SentInv
<1>7. CASE conn[t].at = "call" /\ conn[t].call = s
  <2>1. Batch(b, t, Len(units[t]))
    BY <1>3, <1>4, <1>7 DEF ConnInv, CallInv
  <2> QED
    BY <1>3, <1>7, <2>1
<1>8. CASE \E j \in 1..Len(units[t]) : units[t][j].writes = b /\ units[t][j].how # "rollback"
  BY <1>8 DEF ConnInv, BatchInv
<1> QED
  BY <1>3, <1>6, <1>7, <1>8 DEF Owned

\* What the application is told of its units is what happened to them, and their acks are
\* out when a connection is closed: whatever calls fail, and in whatever order requests
\* arrive.
THEOREM Answers ==
  Spec => []Outcomes
<1>1. ConnInv => Outcomes
  <2> SUFFICES ASSUME ConnInv PROVE Outcomes
    OBVIOUS
  <2>0. applied \in Seq(Seq(Write)) /\ units \in [Threads -> Seq(Unit)]
    BY DEF ConnInv, ConnType
  <2>1. ASSUME NEW t \in Threads, NEW i \in 1..Len(units[t]), units[t][i].how = "ok"
        PROVE  units[t][i].writes \in Range(applied)
    <3>1. PICK s \in 1..Len(request) : Executed(s) /\ request[s].queries = units[t][i].writes
      BY <2>1 DEF ConnInv, AcksInv
    <3>2. PICK j \in 1..Len(applied) : applied[j] = units[t][i].writes
      BY <3>1, SMTT(30) DEF ConnInv, AppliedInv
    <3> QED
      BY <2>0, <3>2, Elements
  <2>2. \A w : AtMostOnce(w)
    <3>1. \A i, j \in 1..Len(applied) : applied[i] = applied[j] => i = j
      BY DEF ConnInv, AppliedInv
    <3> QED
      BY <3>1 DEF AtMostOnce
  <2>3. ASSUME NEW t \in Threads, NEW i \in 1..Len(units[t]), units[t][i].how = "rollback",
               NEW b \in Range(applied)
        PROVE  Range(b) \cap Range(units[t][i].writes) = {}
    <3> SUFFICES ASSUME NEW x \in Range(b), x \in Range(units[t][i].writes) PROVE FALSE
      OBVIOUS
    <3>1. PICK w \in Seq(Write) : w = units[t][i].writes
      <4>1. units[t] \in Seq(Unit) /\ units[t][i] \in Unit
        BY <2>0, SMT
      <4> QED
        BY <4>1 DEF Unit
    <3>2. b \in Seq(Write)
      <4>1. PICK j \in 1..Len(applied) : b = applied[j]
        BY <2>0, Elements
      <4> QED
        BY <2>0, <4>1, SMT
    <3>3. PICK j \in 1..Len(b) : x = b[j]
      BY <3>2, Elements
    <3>4. PICK k \in 1..Len(w) : x = w[k]
      BY <3>1, Elements
    <3>5. x = <<t, i - 1, k - 1>>
      <4>1. Batch(w, t, i - 1)
        BY <3>1 DEF ConnInv, BatchInv
      <4> QED
        BY <3>4, <4>1 DEF Batch
    <3>6. PICK r \in Threads :
            \/ \E n \in 1..Len(units[r]) : /\ units[r][n].writes = b
                                           /\ units[r][n].how # "rollback"
                                           /\ Batch(b, r, n - 1)
            \/ Batch(b, r, Len(units[r]))
      BY AppliedOwned
    <3>7. Len(units[r]) \in Nat /\ Len(units[t]) \in Nat
      BY <2>0, SMT
    <3>8. CASE Batch(b, r, Len(units[r]))
      <4>1. x = <<r, Len(units[r]), j - 1>>
        BY <3>3, <3>8 DEF Batch
      <4>2. r = t /\ Len(units[r]) = i - 1
        BY <3>5, <4>1, SMT
      <4> QED
        BY <3>7, <4>2, SMT
    <3>9. CASE \E n \in 1..Len(units[r]) : /\ units[r][n].writes = b
                                           /\ units[r][n].how # "rollback"
                                           /\ Batch(b, r, n - 1)
      <4>1. PICK n \in 1..Len(units[r]) : units[r][n].how # "rollback" /\ Batch(b, r, n - 1)
        BY <3>9
      <4>2. x = <<r, n - 1, j - 1>>
        BY <3>3, <4>1 DEF Batch
      <4>3. r = t /\ n - 1 = i - 1
        BY <3>5, <4>2, SMT
      <4>4. n = i
        BY <4>3, SMT
      <4> QED
        BY <2>3, <4>1, <4>3, <4>4
    <3> QED
      BY <3>6, <3>8, <3>9
  <2>4. ASSUME NEW b \in Range(applied)
        PROVE  \/ \E t \in Threads : \E i \in 1..Len(units[t]) : units[t][i].writes = b
               \/ \E t \in Calling : request[conn[t].call].queries = b
    BY AppliedOwned DEF Calling
  <2>5. ASSUME NEW t \in Threads, conn[t].at = "closed", NEW i \in 1..Len(units[t]),
               units[t][i].how = "ok"
        PROVE  \E s \in acked : request[s].queries = units[t][i].writes
    <3>1. PICK s \in 1..Len(request) : request[s].queries = units[t][i].writes /\ Acking(s, t)
      BY <2>5 DEF ConnInv, AcksInv
    <3>2. \A p \in Peers : ackCh[t][p] = <<>> /\ working[t][p] = {}
      BY <2>5 DEF ConnInv, AcksInv, WorkersGone
    <3>3. Range(<<>>) = {}
      BY SMT DEF Range
    <3>4. s \in acked
      BY <3>1, <3>2, <3>3 DEF Acking
    <3> QED
      BY <3>1, <3>4
  <2> QED
    BY <2>1, <2>2, <2>3, <2>4, <2>5 DEF Outcomes
<1> QED
  BY <1>1, ConnInvariant, PTL

-----------------------------------------------------------------------------
(***************************************************************************)
(* The inductive invariant of the pools.                                   *)
(***************************************************************************)
ClientState == [raw : Conns \union {0}, lastErr : BOOLEAN, shutdown : BOOLEAN]
UserState == [at : {"idle", "call", "reset", "closed"}, last : {"none", "ok", "error"}]

\* The connections and the clients have the types their Go counterparts have.
PoolType ==
  /\ wire \in [Conns -> {"up", "broken", "noticed", "closed"}]
  /\ free \in Seq(Conns) /\ sess \in Seq(Conns) /\ offset \in Nat
  /\ client \in [Users -> ClientState]

\* A call has a connection, and a PersistentCaller that connects again has none.
UserInv ==
  /\ user \in [Users -> UserState]
  /\ \A u \in Users : /\ user[u].at = "call" => client[u].raw # 0
                      /\ user[u].at = "reset" => client[u].raw = 0

\* The free list of a ClientPool and the connections in use.
FreeInv ==
  pool = "direct" =>
    /\ \A i, j \in 1..Len(free) : free[i] = free[j] => i = j
    /\ \A u \in Users : client[u].raw \notin Range(free)
    /\ \A u, v \in Users : u # v /\ client[u].raw # 0 => client[u].raw # client[v].raw

\* Who has a connection that is not closed.
Kept(i) ==
  IF pool = "direct" THEN i \in Range(free) \/ \E u \in Users : client[u].raw = i
  ELSE i \in Range(sess) \/ \E u \in Users : role[u] = "anonymous" /\ client[u].raw = i
WireInv == \A i \in Conns : wire[i] \in {"up", "broken"} => Kept(i)

HoldInv == PoolType /\ FreeInv /\ WireInv
PoolInv == HoldInv /\ UserInv

-----------------------------------------------------------------------------
(***************************************************************************)
(* The steps of the pools.                                                 *)
(***************************************************************************)
\* A part of a sequence.
LEMMA Part ==
  ASSUME NEW T, NEW q \in Seq(T), NEW a \in Nat \ {0}, NEW b \in Nat, b <= Len(q)
  PROVE  /\ SubSeq(q, a, b) \in Seq(T)
         /\ Len(SubSeq(q, a, b)) = IF a <= b THEN (b - a) + 1 ELSE 0
         /\ \A j \in 1..Len(SubSeq(q, a, b)) : SubSeq(q, a, b)[j] = q[(a + j) - 1]
BY SMT

\* Two sequences, one after the other.
LEMMA Joined ==
  ASSUME NEW T, NEW p \in Seq(T), NEW q \in Seq(T)
  PROVE  /\ p \o q \in Seq(T)
         /\ \A x : x \in Range(p) \/ x \in Range(q) => x \in Range(p \o q)
<1>1. /\ p \o q \in Seq(T) /\ Len(p \o q) = Len(p) + Len(q)
      /\ \A j \in 1..Len(p) : (p \o q)[j] = p[j]
      /\ \A j \in 1..Len(q) : (p \o q)[Len(p) + j] = q[j]
  BY SMT
<1>2. ASSUME NEW x \in Range(p) PROVE x \in Range(p \o q)
  <2>1. PICK j \in 1..Len(p) : x = p[j]
    BY Elements
  <2>2. j \in 1..Len(p \o q) /\ (p \o q)[j] = x
    BY <1>1, <2>1, SMT
  <2> QED
    BY <1>1, <2>2, Elements
<1>3. ASSUME NEW x \in Range(q) PROVE x \in Range(p \o q)
  <2>1. PICK j \in 1..Len(q) : x = q[j]
    BY Elements
  <2>2. Len(p) + j \in 1..Len(p \o q) /\ (p \o q)[Len(p) + j] = x
    BY <1>1, <2>1, SMT
  <2> QED
    BY <1>1, <2>2, Elements
<1> QED
  BY <1>1, <1>2, <1>3

\* The elements of a sequence with one more.
LEMMA RangeAppend ==
  ASSUME NEW T, NEW q \in Seq(T), NEW x \in T
  PROVE  Range(Append(q, x)) = Range(q) \union {x}
<1>1. /\ Append(q, x) \in Seq(T) /\ Len(Append(q, x)) = Len(q) + 1
      /\ Append(q, x)[Len(q) + 1] = x /\ \A j \in 1..Len(q) : Append(q, x)[j] = q[j]
  BY Longer, SMT
<1>2. ASSUME NEW y \in Range(Append(q, x)) PROVE y \in Range(q) \/ y = x
  <2>1. PICK j \in 1..(Len(q) + 1) : y = Append(q, x)[j]
    BY <1>1, Elements, ZenonT(30)
  <2>2. CASE j = Len(q) + 1
    BY <1>1, <2>1, <2>2
  <2>3. CASE j \in 1..Len(q)
    BY <1>1, <2>1, <2>3, Elements
  <2> QED
    BY <2>2, <2>3, SMT
<1>3. ASSUME NEW y \in Range(q) PROVE y \in Range(Append(q, x))
  <2>1. PICK j \in 1..Len(q) : y = q[j]
    BY Elements
  <2>2. j \in 1..Len(Append(q, x)) /\ Append(q, x)[j] = y
    BY <1>1, <2>1, SMT
  <2> QED
    BY <1>1, <2>2, Elements
<1>4. x \in Range(Append(q, x))
  <2>1. Len(q) + 1 \in 1..Len(Append(q, x))
    BY <1>1, SMT
  <2> QED
    BY <1>1, <2>1, Elements
<1> QED
  BY <1>2, <1>3, <1>4

\* A new client on connection i, and its fields.
LEMMA OnConn ==
  ASSUME NEW i \in Conns
  PROVE  [None EXCEPT !.raw = i] \in ClientState /\ [None EXCEPT !.raw = i].raw = i
BY DEF None, ClientState

\* The client of u changes.
LEMMA ClientChanges ==
  ASSUME client \in [Users -> ClientState], NEW u \in Users, NEW c \in ClientState,
         client' = [client EXCEPT ![u] = c]
  PROVE  /\ client' \in [Users -> ClientState] /\ client'[u] = c
         /\ \A v \in Users : v # u => client'[v] = client[v]
OBVIOUS

\* A connection that is dialled is one nobody had.
LEMMA DialFresh ==
  ASSUME PoolType, NEW u \in Users, Dial(u)
  PROVE  /\ Fresh \in Conns /\ Fresh \notin Range(free) /\ Fresh \notin Range(sess)
         /\ \A v \in Users : client[v].raw # Fresh
         /\ wire' \in [Conns -> {"up", "broken", "noticed", "closed"}]
         /\ \A i \in Conns : i # Fresh => wire'[i] = wire[i]
         /\ client' \in [Users -> ClientState] /\ client'[u].raw = Fresh
         /\ \A v \in Users : v # u => client'[v] = client[v]
<1>1. /\ Spare # {} /\ wire' = [wire EXCEPT ![Fresh] = "up"]
      /\ client' = [client EXCEPT ![u] = [None EXCEPT !.raw = Fresh]]
  BY DEF Dial
<1>2. Fresh \in Spare
  BY <1>1 DEF Fresh
<1>3. Fresh \in Conns /\ Fresh \notin Known
  BY <1>2 DEF Spare
<1>4. /\ Fresh \notin Range(free) /\ Fresh \notin Range(sess)
      /\ \A v \in Users : client[v].raw # Fresh
  <2>1. Fresh # 0
    BY <1>3, PoolAssumption
  <2> QED
    BY <1>3, <2>1 DEF Known, InUse
<1> HIDE DEF Fresh
<1>5. /\ wire' \in [Conns -> {"up", "broken", "noticed", "closed"}]
      /\ \A i \in Conns : i # Fresh => wire'[i] = wire[i]
  BY <1>1, <1>3 DEF PoolType
<1>6. /\ client' \in [Users -> ClientState] /\ client'[u] = [None EXCEPT !.raw = Fresh]
      /\ \A v \in Users : v # u => client'[v] = client[v]
  BY <1>1, <1>3, OnConn, ClientChanges DEF PoolType
<1> QED
  BY <1>3, <1>4, <1>5, <1>6, OnConn

\* A client without a connection gets one, and nobody else's changes.
Gets(u) ==
  /\ HoldInv' /\ client'[u].raw # 0
  /\ \A v \in Users : v # u => client'[v] = client[v]

\* A new connection outside the pools, or when the free list is empty.
LEMMA OneOffGets ==
  ASSUME HoldInv, NEW u \in Users, client[u].raw = 0, OneOff(u), UNCHANGED <<pool, role>>,
         pool = "direct" \/ role[u] = "anonymous"
  PROVE  Gets(u)
<1>1. /\ PoolType /\ FreeInv /\ WireInv /\ Dial(u)
      /\ free' = free /\ sess' = sess /\ offset' = offset /\ pool' = pool /\ role' = role
  BY DEF HoldInv, OneOff
<1>2. PICK f \in Conns : f = Fresh
  BY <1>1, DialFresh
<1>3. /\ f \notin Range(free) /\ f \notin Range(sess)
      /\ \A v \in Users : client[v].raw # f
      /\ wire' \in [Conns -> {"up", "broken", "noticed", "closed"}]
      /\ \A i \in Conns : i # f => wire'[i] = wire[i]
      /\ client' \in [Users -> ClientState] /\ client'[u].raw = f
      /\ \A v \in Users : v # u => client'[v] = client[v]
  BY <1>1, <1>2, DialFresh
<1>4. PoolType'
  BY <1>1, <1>3 DEF PoolType
<1>5. FreeInv'
  <2> SUFFICES ASSUME pool = "direct"
               PROVE  /\ \A i, j \in 1..Len(free) : free[i] = free[j] => i = j
                      /\ \A v \in Users : client'[v].raw \notin Range(free)
                      /\ \A v, w \in Users : v # w /\ client'[v].raw # 0 =>
                                              client'[v].raw # client'[w].raw
    BY <1>1, ZenonT(30) DEF FreeInv
  <2>1. \A i, j \in 1..Len(free) : free[i] = free[j] => i = j
    BY <1>1 DEF FreeInv
  <2>2. \A v \in Users : client'[v].raw \notin Range(free)
    BY <1>1, <1>3 DEF FreeInv
  <2>3. \A v, w \in Users : v # w /\ client[v].raw # 0 => client[v].raw # client[w].raw
    BY <1>1 DEF FreeInv
  <2>4. \A v, w \in Users : v # w /\ client'[v].raw # 0 => client'[v].raw # client'[w].raw
    BY <1>3, <2>3, SMT
  <2> QED
    BY <2>1, <2>2, <2>4
<1>6. WireInv'
  <2> SUFFICES ASSUME NEW i \in Conns, wire'[i] \in {"up", "broken"} PROVE Kept(i)'
    BY DEF WireInv
  <2>1. CASE i = f
    BY <1>1, <1>3, <2>1 DEF Kept
  <2>2. CASE i # f
    <3>1. Kept(i) /\ i # 0
      BY <1>1, <1>3, <2>2, PoolAssumption DEF WireInv
    <3>2. \A v \in Users : client[v].raw = i => client'[v].raw = i
      BY <1>3, <3>1
    <3> QED
      BY <1>1, <3>1, <3>2 DEF Kept
  <2> QED
    BY <2>1, <2>2
<1>7. client'[u].raw # 0
  BY <1>3, PoolAssumption
<1> QED
  BY <1>3, <1>4, <1>5, <1>6, <1>7 DEF Gets, HoldInv

\* freelist.get.
LEMMA FreelistGets ==
  ASSUME HoldInv, NEW u \in Users, client[u].raw = 0, freelistGet(u), UNCHANGED <<pool, role>>,
         pool = "direct"
  PROVE  Gets(u)
<1>1. CASE free = <<>>
  BY <1>1, OneOffGets DEF freelistGet, OneOff
<1>2. CASE free # <<>>
  <2>1. /\ PoolType /\ FreeInv /\ WireInv /\ free' = Tail(free)
        /\ client' = [client EXCEPT ![u] = [None EXCEPT !.raw = Head(free)]]
        /\ wire' = wire /\ sess' = sess /\ offset' = offset /\ pool' = pool /\ role' = role
    BY <1>2 DEF HoldInv, freelistGet
  <2>2. free \in Seq(Conns)
    BY <2>1 DEF PoolType
  <2>3. /\ Head(free) \in Conns /\ Tail(free) \in Seq(Conns) /\ Head(free) = free[1]
        /\ Len(Tail(free)) = Len(free) - 1
        /\ \A j \in 1..(Len(free) - 1) : Tail(free)[j] = free[j + 1]
    BY <1>2, <2>2, Shorter
  <2>4. PICK h \in Conns : h = Head(free)
    BY <2>3
  <2>5. PICK c \in Seq(Conns) : c = Tail(free)
    BY <2>3
  <2>6. 1 \in 1..Len(free) /\ \A j \in 1..Len(c) : j + 1 \in 1..Len(free) /\ c[j] = free[j + 1]
                                                  /\ j + 1 # 1
    BY <1>2, <2>2, <2>3, <2>5, SMT
  <2>7. \A i, j \in 1..Len(free) : free[i] = free[j] => i = j
    BY <2>1 DEF FreeInv
  <2>8. h \in Range(free)
    BY <2>2, <2>3, <2>4, <2>6, Elements
  <2>9. \A x : x \in Range(c) => x \in Range(free) /\ x # h
    <3> SUFFICES ASSUME NEW x \in Range(c) PROVE x \in Range(free) /\ x # h
      OBVIOUS
    <3>1. PICK j \in 1..Len(c) : x = c[j]
      BY Elements
    <3>2. x = free[j + 1] /\ j + 1 \in 1..Len(free) /\ j + 1 # 1
      BY <2>6, <3>1
    <3> QED
      BY <2>2, <2>3, <2>4, <2>6, <2>7, <3>2, Elements
  <2>10. \A x : x \in Range(free) => x \in Range(c) \/ x = h
    <3> SUFFICES ASSUME NEW x \in Range(free), x # h PROVE x \in Range(c)
      OBVIOUS
    <3>1. PICK j \in 1..Len(free) : x = free[j]
      BY <2>2, Elements
    <3>2. j - 1 \in 1..Len(c) /\ c[j - 1] = x
      BY <2>2, <2>3, <2>4, <2>5, <3>1, SMTT(30)
    <3> QED
      BY <3>2, Elements
  <2>11. \A i, j \in 1..Len(c) : c[i] = c[j] => i = j
    <3> SUFFICES ASSUME NEW i \in 1..Len(c), NEW j \in 1..Len(c), c[i] = c[j] PROVE i = j
      OBVIOUS
    <3>1. i + 1 = j + 1
      BY <2>6, <2>7, SMT
    <3> QED
      BY <3>1, SMT
  <2>12. /\ client' \in [Users -> ClientState] /\ client'[u].raw = h
         /\ \A v \in Users : v # u => client'[v] = client[v]
    <3>1. [None EXCEPT !.raw = h] \in ClientState /\ [None EXCEPT !.raw = h].raw = h
      BY OnConn
    <3>2. PICK x \in ClientState : x = [None EXCEPT !.raw = h]
      BY <3>1
    <3>3. client' = [client EXCEPT ![u] = x]
      BY <2>1, <2>4, <3>2
    <3> QED
      BY <2>1, <3>1, <3>2, <3>3, ClientChanges DEF PoolType
  <2>13. PoolType'
    BY <2>1, <2>5, <2>12 DEF PoolType
  <2>14. FreeInv'
    <3>1. \A v \in Users : client[v].raw \notin Range(free)
      BY <2>1 DEF FreeInv
    <3>2. \A v, w \in Users : v # w /\ client[v].raw # 0 => client[v].raw # client[w].raw
      BY <2>1 DEF FreeInv
    <3>3. \A v \in Users : client'[v].raw \notin Range(c)
      BY <2>9, <2>12, <3>1
    <3>4. \A v, w \in Users : v # w /\ client'[v].raw # 0 => client'[v].raw # client'[w].raw
      BY <2>8, <2>12, <3>1, <3>2
    <3> QED
      BY <2>1, <2>5, <2>11, <3>3, <3>4, ZenonT(30) DEF FreeInv
  <2>15. WireInv'
    <3> SUFFICES ASSUME NEW i \in Conns, wire'[i] \in {"up", "broken"} PROVE Kept(i)'
      BY DEF WireInv
    <3>1. i \in Range(free) \/ \E v \in Users : client[v].raw = i
      BY <2>1 DEF WireInv, Kept
    <3>2. i \in Range(free') \/ \E v \in Users : client'[v].raw = i
      <4>1. i # 0
        BY PoolAssumption
      <4> QED
        BY <2>1, <2>5, <2>10, <2>12, <3>1, <4>1
    <3> QED
      BY <2>1, <3>2 DEF Kept
  <2>16. client'[u].raw # 0
    BY <2>12, PoolAssumption
  <2> QED
    BY <2>12, <2>13, <2>14, <2>15, <2>16 DEF Gets, HoldInv
<1> QED
  BY <1>1, <1>2

\* What Upto takes of a sequence.
LEMMA UptoPart ==
  ASSUME NEW q \in Seq(Conns), NEW n \in Nat
  PROVE  /\ Upto(q, n) \in Seq(Conns)
         /\ \A k \in 1..Len(q) : k <= n => q[k] \in Range(Upto(q, n))
<1> DEFINE b == IF n < Len(q) THEN n ELSE Len(q)
<1>1. b \in Nat /\ b <= Len(q) /\ 1 \in Nat \ {0}
  BY SMT
<1>2. Upto(q, n) = SubSeq(q, 1, b)
  BY DEF Upto
<1>3. \A k \in 1..Len(q) : k <= n => k \in 1..b
  BY SMTT(30)
<1> HIDE DEF b
<1>4. /\ SubSeq(q, 1, b) \in Seq(Conns)
      /\ Len(SubSeq(q, 1, b)) = IF 1 <= b THEN (b - 1) + 1 ELSE 0
      /\ \A j \in 1..Len(SubSeq(q, 1, b)) : SubSeq(q, 1, b)[j] = q[(1 + j) - 1]
  BY <1>1, Part, SMT
<1>5. ASSUME NEW k \in 1..Len(q), k <= n PROVE q[k] \in Range(Upto(q, n))
  <2>1. k \in 1..b
    BY <1>3, <1>5
  <2>2. k \in 1..Len(SubSeq(q, 1, b)) /\ SubSeq(q, 1, b)[k] = q[k]
    BY <1>1, <1>4, <2>1, SMTT(30)
  <2> QED
    BY <1>2, <1>4, <2>2, Elements
<1> QED
  BY <1>2, <1>4, <1>5

\* The sessions that stay when those at an offset, seen to be dead, go.
LEMMA SessKept ==
  ASSUME PoolType, NEW o \in Nat, NEW k \in 1..Len(sess), ~Dead(sess[k]),
         NEW rest, rest = SubSeq(sess, o + 1, Len(sess))
  PROVE  \/ sess[k] \in Range(Upto(sess, o))
         \/ \E i \in 1..Len(rest) : rest[i] = sess[k] /\ i = k - o
<1>1. sess \in Seq(Conns)
  BY DEF PoolType
<1>2. CASE k <= o
  BY <1>1, <1>2, UptoPart
<1>3. CASE k > o
  <2>1. Len(rest) = IF o + 1 <= Len(sess) THEN (Len(sess) - (o + 1)) + 1 ELSE 0
    BY <1>1, Part, SMTT(30)
  <2>2. \A j \in 1..Len(rest) : rest[j] = sess[((o + 1) + j) - 1]
    BY <1>1, Part, SMT
  <2>3. k - o \in 1..Len(rest) /\ ((o + 1) + (k - o)) - 1 = k
    BY <1>1, <1>3, <2>1, SMT
  <2> QED
    BY <2>2, <2>3
<1> QED
  BY <1>2, <1>3, SMT

\* Session.Get: what it takes out of the sessions is dead.
LEMMA SessionGets ==
  ASSUME HoldInv, NEW u \in Users, client[u].raw = 0, sessionGet(u), UNCHANGED <<pool, role>>,
         pool # "direct", role[u] # "anonymous"
  PROVE  Gets(u)
<1>1. PICK o \in Nat : o = NextOffset
  <2>1. offset \in Nat /\ MaxPhysical \in Nat \ {0}
    BY PoolAssumption DEF HoldInv, PoolType
  <2> QED
    BY <2>1, SMT DEF NextOffset
<1>2. PICK rest : rest = SubSeq(sess, o + 1, Len(sess))
  OBVIOUS
<1>3. PICK alive : alive = {i \in 1..Len(rest) : ~Dead(rest[i])}
  OBVIOUS
<1>4. /\ PoolType /\ FreeInv /\ WireInv /\ sess \in Seq(Conns) /\ pool' = pool /\ role' = role
  BY DEF HoldInv, PoolType
<1>5. PICK kept \in Seq(Conns) : kept = Upto(sess, o)
  BY <1>4, UptoPart
<1>6. rest \in Seq(Conns)
  BY <1>2, <1>4, Part, SMT
<1>7. ASSUME NEW i \in Conns, wire[i] \in {"up", "broken"}
      PROVE  \/ i \in Range(kept) \/ \E j \in alive : rest[j] = i
             \/ \E v \in Users : role[v] = "anonymous" /\ client[v].raw = i
  <2>1. CASE \E v \in Users : role[v] = "anonymous" /\ client[v].raw = i
    BY <2>1
  <2>2. CASE i \in Range(sess)
    <3>1. PICK k \in 1..Len(sess) : i = sess[k]
      BY <1>4, <2>2, Elements
    <3>2. ~Dead(i)
      BY <1>7 DEF Dead
    <3>3. \/ i \in Range(kept)
          \/ \E j \in 1..Len(rest) : rest[j] = i
      <4>1. ~Dead(sess[k])
        BY <3>1, <3>2
      <4>2. \/ sess[k] \in Range(Upto(sess, o))
            \/ \E j \in 1..Len(rest) : rest[j] = sess[k] /\ j = k - o
        BY <1>2, <1>4, <4>1, SessKept
      <4> QED
        BY <1>5, <3>1, <4>2
    <3> QED
      BY <1>3, <3>2, <3>3
  <2> QED
    BY <1>4, <1>7, <2>1, <2>2 DEF WireInv, Kept
<1>8. CASE \E i \in alive :
          /\ \A j \in alive : i <= j
          /\ sess' = kept \o SubSeq(rest, i, Len(rest))
          /\ offset' = o
          /\ client' = [client EXCEPT ![u] = [None EXCEPT !.raw = rest[i]]]
          /\ UNCHANGED <<wire, free>>
  <2>1. PICK i \in alive :
          /\ \A j \in alive : i <= j
          /\ sess' = kept \o SubSeq(rest, i, Len(rest))
          /\ offset' = o
          /\ client' = [client EXCEPT ![u] = [None EXCEPT !.raw = rest[i]]]
          /\ wire' = wire /\ free' = free
    BY <1>8
  <2>2. i \in 1..Len(rest) /\ rest[i] \in Conns
    BY <1>3, <1>6, <2>1, SMT
  <2>3. PICK tail \in Seq(Conns) :
          /\ tail = SubSeq(rest, i, Len(rest))
          /\ Len(tail) = (Len(rest) - i) + 1
          /\ \A j \in 1..Len(tail) : tail[j] = rest[(i + j) - 1]
    <3>1. i \in Nat \ {0} /\ Len(rest) \in Nat /\ i <= Len(rest)
      BY <1>6, <2>2, SMTT(30)
    <3>2. /\ SubSeq(rest, i, Len(rest)) \in Seq(Conns)
          /\ Len(SubSeq(rest, i, Len(rest))) =
               IF i <= Len(rest) THEN (Len(rest) - i) + 1 ELSE 0
          /\ \A j \in 1..Len(SubSeq(rest, i, Len(rest))) :
               SubSeq(rest, i, Len(rest))[j] = rest[(i + j) - 1]
      <4>1. Len(rest) <= Len(rest)
        BY <3>1, SMT
      <4> QED
        BY <1>6, <3>1, <4>1, Part, SMTT(30)
    <3> QED
      BY <3>1, <3>2
  <2>4. \A j \in alive : rest[j] \in Range(tail)
    <3> SUFFICES ASSUME NEW j \in alive PROVE rest[j] \in Range(tail)
      OBVIOUS
    <3>1. j \in 1..Len(rest) /\ i <= j
      BY <1>3, <2>1
    <3>2. (j - i) + 1 \in 1..Len(tail) /\ (i + ((j - i) + 1)) - 1 = j
      BY <1>6, <2>2, <2>3, <3>1, SMTT(30)
    <3>3. tail[(j - i) + 1] = rest[j]
      BY <2>3, <3>2
    <3> QED
      BY <3>2, <3>3, Elements
  <2>5. /\ sess' \in Seq(Conns)
        /\ \A x : x \in Range(kept) \/ x \in Range(tail) => x \in Range(sess')
    BY <2>1, <2>3, Joined
  <2>6. PICK h \in Conns : h = rest[i]
    BY <2>2
  <2>7. /\ client' \in [Users -> ClientState] /\ client'[u].raw = h
        /\ \A v \in Users : v # u => client'[v] = client[v]
    <3>1. [None EXCEPT !.raw = h] \in ClientState /\ [None EXCEPT !.raw = h].raw = h
      BY OnConn
    <3>2. PICK x \in ClientState : x = [None EXCEPT !.raw = h]
      BY <3>1
    <3>3. client' = [client EXCEPT ![u] = x]
      BY <2>1, <2>6, <3>2
    <3> QED
      BY <1>4, <3>1, <3>2, <3>3, ClientChanges DEF PoolType
  <2>8. PoolType'
    BY <1>4, <2>1, <2>5, <2>7 DEF PoolType
  <2>9. FreeInv'
    BY <1>4 DEF FreeInv
  <2>10. WireInv'
    <3> SUFFICES ASSUME NEW k \in Conns, wire'[k] \in {"up", "broken"} PROVE Kept(k)'
      BY DEF WireInv
    <3>1. \/ k \in Range(kept) \/ k \in Range(tail)
          \/ \E v \in Users : role[v] = "anonymous" /\ client[v].raw = k
      BY <1>7, <2>1, <2>4
    <3>2. \/ k \in Range(sess')
          \/ \E v \in Users : role[v] = "anonymous" /\ client'[v].raw = k
      BY <2>5, <2>7, <3>1
    <3> QED
      BY <1>4, <3>2 DEF Kept
  <2>11. client'[u].raw # 0
    BY <2>7, PoolAssumption
  <2> QED
    BY <2>7, <2>8, <2>9, <2>10, <2>11 DEF Gets, HoldInv
<1>9. CASE /\ alive = {}
           /\ sess' = Append(kept, Fresh)
           /\ offset' = Len(kept)
           /\ Dial(u) /\ UNCHANGED free
  <2>1. PICK f \in Conns : f = Fresh
    BY <1>4, <1>9, DialFresh
  <2>2. /\ wire' \in [Conns -> {"up", "broken", "noticed", "closed"}]
        /\ \A i \in Conns : i # f => wire'[i] = wire[i]
        /\ client' \in [Users -> ClientState] /\ client'[u].raw = f
        /\ \A v \in Users : v # u => client'[v] = client[v]
    BY <1>4, <1>9, <2>1, DialFresh
  <2>3. sess' \in Seq(Conns) /\ Range(sess') = Range(kept) \union {f} /\ offset' \in Nat
    BY <1>9, <2>1, Longer, RangeAppend, SMT
  <2>4. PoolType'
    BY <1>4, <1>9, <2>2, <2>3 DEF PoolType
  <2>5. FreeInv'
    BY <1>4 DEF FreeInv
  <2>6. WireInv'
    <3> SUFFICES ASSUME NEW k \in Conns, wire'[k] \in {"up", "broken"} PROVE Kept(k)'
      BY DEF WireInv
    <3>1. CASE k = f
      BY <1>4, <2>3, <3>1 DEF Kept
    <3>2. CASE k # f
      <4>1. \/ k \in Range(kept)
            \/ \E v \in Users : role[v] = "anonymous" /\ client[v].raw = k
        BY <1>7, <1>9, <2>2, <3>2
      <4>2. \/ k \in Range(sess')
            \/ \E v \in Users : role[v] = "anonymous" /\ client'[v].raw = k
        BY <2>2, <2>3, <4>1
      <4> QED
        BY <1>4, <4>2 DEF Kept
    <3> QED
      BY <3>1, <3>2
  <2>7. client'[u].raw # 0
    BY <2>2, PoolAssumption
  <2> QED
    BY <2>2, <2>4, <2>5, <2>6, <2>7 DEF Gets, HoldInv
<1> QED
  BY <1>1, <1>2, <1>3, <1>5, <1>8, <1>9, ZenonT(30) DEF sessionGet

\* DialToNodeWithPool.
LEMMA DialGets ==
  ASSUME HoldInv, NEW u \in Users, client[u].raw = 0, DialToNodeWithPool(u),
         UNCHANGED <<pool, role>>
  PROVE  Gets(u)
<1>1. CASE OneOff(u) /\ role[u] = "anonymous"
  BY <1>1, OneOffGets
<1>2. CASE freelistGet(u) /\ pool = "direct"
  BY <1>2, FreelistGets
<1>3. CASE sessionGet(u) /\ pool # "direct" /\ role[u] # "anonymous"
  BY <1>3, SessionGets
<1> QED
  BY <1>1, <1>2, <1>3 DEF DialToNodeWithPool, ClientPoolGetEx, SessionPoolGetEx

\* When dialling fails, the pool loses dead sessions at most.
LEMMA DialFailsKeeps ==
  ASSUME HoldInv, NEW u \in Users, DialFails(u), UNCHANGED <<pool, role, client>>
  PROVE  HoldInv'
<1>1. /\ PoolType /\ FreeInv /\ WireInv /\ wire' = wire /\ free' = free /\ pool' = pool
      /\ role' = role /\ client' = client
  BY DEF HoldInv, DialFails
<1>2. FreeInv'
  BY <1>1 DEF FreeInv
<1>3. CASE sess' = sess /\ offset' = offset
  <2>1. PoolType'
    BY <1>1, <1>3 DEF PoolType
  <2>2. \A i : Kept(i)' <=> Kept(i)
    BY <1>1, <1>3 DEF Kept
  <2>3. WireInv'
    BY <1>1, <2>2 DEF WireInv
  <2> QED
    BY <1>2, <2>1, <2>3 DEF HoldInv
<1>4. CASE /\ pool = "mux" /\ \A i \in (NextOffset + 1)..Len(sess) : Dead(sess[i])
           /\ sess' = Upto(sess, NextOffset) /\ offset' = NextOffset
  <2>1. PICK o \in Nat : o = NextOffset
    <3>1. offset \in Nat /\ MaxPhysical \in Nat \ {0}
      BY PoolAssumption DEF HoldInv, PoolType
    <3> QED
      BY <3>1, SMT DEF NextOffset
  <2>2. sess \in Seq(Conns)
    BY <1>1 DEF PoolType
  <2>3. /\ sess' \in Seq(Conns)
        /\ \A k \in 1..Len(sess) : k <= o => sess[k] \in Range(sess')
    BY <1>4, <2>1, <2>2, UptoPart
  <2>4. PoolType'
    BY <1>1, <1>4, <2>1, <2>3 DEF PoolType
  <2>5. ASSUME NEW i \in Range(sess), ~Dead(i) PROVE i \in Range(sess')
    <3>1. PICK k \in 1..Len(sess) : i = sess[k]
      BY <2>2, Elements
    <3>2. k \notin (o + 1)..Len(sess)
      BY <1>4, <2>1, <2>5, <3>1
    <3>3. k <= o
      BY <2>2, <3>2, SMT
    <3> QED
      BY <2>3, <3>1, <3>3
  <2>6. WireInv'
    <3> SUFFICES ASSUME NEW k \in Conns, wire'[k] \in {"up", "broken"} PROVE Kept(k)'
      BY DEF WireInv
    <3>1. ~Dead(k) /\ Kept(k)
      BY <1>1 DEF Dead, WireInv
    <3>2. pool # "direct"
      BY <1>4
    <3> QED
      BY <1>1, <2>5, <3>1, <3>2 DEF Kept
  <2> QED
    BY <1>2, <2>4, <2>6 DEF HoldInv
<1> QED
  BY <1>3, <1>4 DEF DialFails

\* Close of a client: its connection goes back, or is closed, or is one of the sessions.
LEMMA CloseClientKeeps ==
  ASSUME HoldInv, NEW u \in Users, client[u].raw # 0, NEW err \in BOOLEAN,
         CloseClient(u, err), client' = [client EXCEPT ![u] = None],
         UNCHANGED <<pool, role, sess, offset>>
  PROVE  /\ HoldInv' /\ client'[u].raw = 0
         /\ \A v \in Users : v # u => client'[v] = client[v]
<1>1. /\ PoolType /\ FreeInv /\ WireInv /\ pool' = pool /\ role' = role /\ sess' = sess
      /\ offset' = offset
  BY DEF HoldInv
<1>2. None \in ClientState /\ None.raw = 0
  BY DEF None, ClientState
<1>3. /\ client' \in [Users -> ClientState] /\ client'[u] = None /\ client'[u].raw = 0
      /\ \A v \in Users : v # u => client'[v] = client[v]
  BY <1>1, <1>2, ClientChanges DEF PoolType
<1>4. PICK i \in Conns : i = client[u].raw
  <2>1. client[u] \in ClientState
    BY <1>1 DEF PoolType
  <2> QED
    BY <2>1 DEF ClientState
<1>5. free \in Seq(Conns) /\ wire \in [Conns -> {"up", "broken", "noticed", "closed"}]
  BY <1>1 DEF PoolType
<1>6. pool = "direct" =>
        /\ \A j, k \in 1..Len(free) : free[j] = free[k] => j = k
        /\ \A v \in Users : client[v].raw \notin Range(free)
        /\ \A v, w \in Users : v # w /\ client[v].raw # 0 => client[v].raw # client[w].raw
  BY <1>1 DEF FreeInv
<1>7. 0 \notin Range(free) /\ i # 0
  <2>1. \A j \in 1..Len(free) : free[j] # 0
    BY <1>5, PoolAssumption, SMT
  <2> QED
    BY <1>4, <1>5, <2>1, PoolAssumption, Elements
<1>8. /\ \A v \in Users : client'[v].raw = 0 \/ client'[v].raw = client[v].raw
      /\ \A v \in Users : client[v].raw # i => client'[v].raw = client[v].raw
      /\ pool = "direct" => /\ \A v \in Users : client'[v].raw # i
                            /\ \A v, w \in Users : v # w /\ client'[v].raw # 0 =>
                                 client'[v].raw # client'[w].raw
  <2>1. /\ \A v \in Users : client'[v].raw = 0 \/ client'[v].raw = client[v].raw
        /\ \A v \in Users : client[v].raw # i => client'[v].raw = client[v].raw
    BY <1>3, <1>4
  <2>2. pool = "direct" => \A v \in Users : client'[v].raw # i
    BY <1>3, <1>4, <1>6, <1>7
  <2>3. pool = "direct" => \A v, w \in Users : v # w /\ client'[v].raw # 0 =>
          client'[v].raw # client'[w].raw
    <3> SUFFICES ASSUME pool = "direct", NEW v \in Users, NEW w \in Users, v # w,
                        client'[v].raw # 0, client'[v].raw = client'[w].raw
                 PROVE  FALSE
      OBVIOUS
    <3>1. client'[v].raw = client[v].raw /\ client'[w].raw = client[w].raw
      BY <2>1
    <3> QED
      BY <1>6, <3>1
  <2> QED
    BY <2>1, <2>2, <2>3
<1>9. CASE /\ role[u] = "anonymous" \/ pool = "direct" 
           /\ wire' = [wire EXCEPT ![i] = "closed"] /\ free' = free
  <2>1. /\ wire' \in [Conns -> {"up", "broken", "noticed", "closed"}]
        /\ wire'[i] = "closed" /\ \A k \in Conns : k # i => wire'[k] = wire[k]
    BY <1>5, <1>9
  <2>2. PoolType'
    BY <1>1, <1>3, <1>5, <1>9, <2>1 DEF PoolType
  <2>3. pool = "direct" => \A v \in Users : client'[v].raw \notin Range(free)
    BY <1>6, <1>7, <1>8
  <2>4. FreeInv'
    BY <1>1, <1>6, <1>8, <1>9, <2>3 DEF FreeInv
  <2>5. WireInv'
    <3> SUFFICES ASSUME NEW k \in Conns, wire'[k] \in {"up", "broken"} PROVE Kept(k)'
      BY DEF WireInv
    <3>1. k # i
      BY <2>1
    <3>2. Kept(k)
      BY <1>1, <2>1, <3>1 DEF WireInv
    <3>3. \A v \in Users : client[v].raw = k => client'[v].raw = k
      BY <1>8, <3>1
    <3> QED
      BY <1>1, <1>9, <3>2, <3>3 DEF Kept
  <2> QED
    BY <1>3, <2>2, <2>4, <2>5 DEF HoldInv
<1>10. CASE pool = "direct" /\ free' = Append(free, i) /\ wire' = wire
  <2>1. /\ free' \in Seq(Conns) /\ Len(free') = Len(free) + 1 /\ free'[Len(free) + 1] = i
        /\ \A j \in 1..Len(free) : free'[j] = free[j]
        /\ Range(free') = Range(free) \union {i}
    BY <1>5, <1>10, Longer, RangeAppend, SMT
  <2>2. PoolType'
    BY <1>1, <1>3, <1>5, <1>10, <2>1 DEF PoolType
  <2>3. i \notin Range(free)
    BY <1>4, <1>6, <1>10
  <2>4. \A j, k \in 1..Len(free') : free'[j] = free'[k] => j = k
    <3>1. \A j \in 1..Len(free) : free[j] # i
      BY <1>5, <2>3, Elements
    <3>2. \A j \in 1..Len(free') : j \in 1..Len(free) \/ j = Len(free) + 1
      BY <1>5, <2>1, SMT
    <3> QED
      BY <1>6, <1>10, <2>1, <3>1, <3>2, SMT
  <2>5. \A v \in Users : client'[v].raw \notin Range(free')
    BY <1>6, <1>7, <1>8, <1>10, <2>1
  <2>6. FreeInv'
    BY <1>1, <1>8, <1>10, <2>4, <2>5 DEF FreeInv
  <2>7. WireInv'
    <3> SUFFICES ASSUME NEW k \in Conns, wire'[k] \in {"up", "broken"} PROVE Kept(k)'
      BY DEF WireInv
    <3>1. k \in Range(free) \/ \E v \in Users : client[v].raw = k
      BY <1>1, <1>10 DEF WireInv, Kept
    <3>2. k \in Range(free') \/ \E v \in Users : client'[v].raw = k
      BY <1>8, <2>1, <3>1
    <3> QED
      BY <1>1, <1>10, <3>2 DEF Kept
  <2> QED
    BY <1>3, <2>2, <2>6, <2>7 DEF HoldInv
<1>11. CASE pool = "mux" /\ role[u] # "anonymous" /\ wire' = wire /\ free' = free
  <2>1. PoolType'
    BY <1>1, <1>3, <1>5, <1>11 DEF PoolType
  <2>2. pool # "direct"
    BY <1>11
  <2>3. FreeInv'
    BY <1>1, <2>2 DEF FreeInv
  <2>4. WireInv'
    <3> SUFFICES ASSUME NEW k \in Conns, wire'[k] \in {"up", "broken"} PROVE Kept(k)'
      BY DEF WireInv
    <3>1. \/ k \in Range(sess)
          \/ \E v \in Users : role[v] = "anonymous" /\ client[v].raw = k
      BY <1>1, <1>11, <2>2 DEF WireInv, Kept
    <3>2. \A v \in Users : role[v] = "anonymous" => client'[v] = client[v]
      BY <1>3, <1>11
    <3> QED
      BY <1>1, <2>2, <3>1, <3>2 DEF Kept
  <2> QED
    BY <1>3, <2>1, <2>3, <2>4 DEF HoldInv
<1>12. \/ (role[u] = "anonymous" \/ pool = "direct")
            /\ wire' = [wire EXCEPT ![i] = "closed"] /\ free' = free
       \/ pool = "direct" /\ free' = Append(free, i) /\ wire' = wire
       \/ pool = "mux" /\ role[u] # "anonymous" /\ wire' = wire /\ free' = free
  BY <1>4 DEF CloseClient, put
<1> QED
  BY <1>9, <1>10, <1>11, <1>12

\* The user of a client goes on.
LEMMA AtGoes ==
  ASSUME user \in [Users -> UserState], NEW u \in Users,
         NEW at \in {"idle", "call", "reset", "closed"}, NEW last \in {"none", "ok", "error"},
         At(u, at, last)
  PROVE  /\ user' \in [Users -> UserState] /\ user'[u].at = at
         /\ \A v \in Users : v # u => user'[v] = user[v]
BY DEF At, UserState

\* The invariant of the users, when u goes on with another client.
LEMMA UserKept ==
  ASSUME UserInv, NEW u \in Users,
         NEW at \in {"idle", "call", "reset", "closed"}, NEW last \in {"none", "ok", "error"},
         At(u, at, last), \A v \in Users : v # u => client'[v] = client[v],
         at = "call" => client'[u].raw # 0, at = "reset" => client'[u].raw = 0
  PROVE  UserInv'
<1>1. /\ user' \in [Users -> UserState] /\ user'[u].at = at
      /\ \A v \in Users : v # u => user'[v] = user[v]
  BY AtGoes DEF UserInv
<1>2. ASSUME NEW v \in Users
      PROVE  /\ user'[v].at = "call" => client'[v].raw # 0
             /\ user'[v].at = "reset" => client'[v].raw = 0
  <2>1. CASE v = u
    BY <1>1, <2>1
  <2>2. CASE v # u
    BY <1>1, <2>2 DEF UserInv
  <2> QED
    BY <2>1, <2>2
<1> QED
  BY <1>1, <1>2 DEF UserInv

\* The end of a call.
LEMMA FinishKeeps ==
  ASSUME PoolInv, NEW u \in Users, user[u].at = "call", NEW err \in BOOLEAN,
         NEW shutdown \in BOOLEAN, NEW last \in {"none", "ok", "error"},
         Finish(u, err, shutdown, last)
  PROVE  PoolInv'
<1>1. /\ HoldInv /\ UserInv /\ client[u].raw # 0 /\ At(u, "idle", last)
      /\ pool' = pool /\ role' = role /\ sess' = sess /\ offset' = offset
  BY DEF PoolInv, UserInv, Finish
<1>2. "idle" \in {"idle", "call", "reset", "closed"} /\ "idle" # "call" /\ "idle" # "reset"
  OBVIOUS
<1>3. CASE role[u] = "persistent"
  <2>1. client[u] \in ClientState /\ (client[u].lastErr \/ err) \in BOOLEAN
    BY <1>1 DEF HoldInv, PoolType, ClientState
  <2> DEFINE c == [client[u] EXCEPT !.lastErr = client[u].lastErr \/ err, !.shutdown = shutdown]
  <2>2. /\ client' = [client EXCEPT ![u] = c] /\ wire' = wire /\ free' = free
    BY <1>3 DEF Finish
  <2>3. c \in ClientState /\ c.raw = client[u].raw
    BY <2>1 DEF ClientState
  <2> HIDE DEF c
  <2>4. /\ client' \in [Users -> ClientState] /\ client'[u] = c
        /\ \A v \in Users : v # u => client'[v] = client[v]
    BY <1>1, <2>2, <2>3, ClientChanges DEF HoldInv, PoolType
  <2>5. \A v \in Users : client'[v].raw = client[v].raw
    BY <2>3, <2>4
  <2>6. PoolType'
    BY <1>1, <2>2, <2>4 DEF HoldInv, PoolType
  <2>7. FreeInv'
    <3>1. FreeInv
      BY <1>1 DEF HoldInv
    <3> QED
      BY <1>1, <2>2, <2>5, <3>1, ZenonT(30) DEF FreeInv
  <2>8. WireInv'
    <3>1. WireInv /\ \A i : Kept(i) => Kept(i)'
      BY <1>1, <2>2, <2>5 DEF HoldInv, Kept
    <3> QED
      BY <2>2, <3>1 DEF WireInv
  <2>9. UserInv'
    BY <1>1, <1>2, <2>4, UserKept
  <2> QED
    BY <2>6, <2>7, <2>8, <2>9 DEF PoolInv, HoldInv
<1>4. CASE role[u] # "persistent"
  <2>1. client' = [client EXCEPT ![u] = None] /\ CloseClient(u, client[u].lastErr \/ err)
    BY <1>4 DEF Finish
  <2>2. PICK e \in BOOLEAN : CloseClient(u, e)
    BY <2>1
  <2>3. /\ HoldInv' /\ client'[u].raw = 0
        /\ \A v \in Users : v # u => client'[v] = client[v]
    BY <1>1, <2>1, <2>2, CloseClientKeeps
  <2>4. UserInv'
    BY <1>1, <1>2, <2>3, UserKept
  <2> QED
    BY <2>3, <2>4 DEF PoolInv
<1> QED
  BY <1>3, <1>4

\* A connection changes that is not forgotten.
LEMMA WireKeeps ==
  ASSUME PoolInv, NEW i \in Conns, wire[i] \in {"up", "broken"},
         NEW w \in {"broken", "noticed"}, wire' = [wire EXCEPT ![i] = w],
         UNCHANGED <<pool, role, free, sess, offset, client, user>>
  PROVE  PoolInv'
<1>1. /\ PoolType /\ FreeInv /\ WireInv /\ UserInv
      /\ pool' = pool /\ role' = role /\ free' = free /\ sess' = sess /\ offset' = offset
      /\ client' = client /\ user' = user
  BY DEF PoolInv, HoldInv
<1>2. /\ wire' \in [Conns -> {"up", "broken", "noticed", "closed"}]
      /\ \A k \in Conns : k # i => wire'[k] = wire[k]
  BY <1>1 DEF PoolType
<1>3. PoolType'
  BY <1>1, <1>2 DEF PoolType
<1>4. FreeInv' /\ UserInv'
  BY <1>1 DEF FreeInv, UserInv
<1>5. WireInv'
  <2>1. \A k : Kept(k)' <=> Kept(k)
    BY <1>1 DEF Kept
  <2>2. ASSUME NEW k \in Conns, wire'[k] \in {"up", "broken"} PROVE wire[k] \in {"up", "broken"}
    <3>1. CASE k = i
      BY <3>1
    <3>2. CASE k # i
      BY <1>2, <2>2, <3>2
    <3> QED
      BY <3>1, <3>2
  <2> QED
    BY <1>1, <2>1, <2>2 DEF WireInv
<1> QED
  BY <1>3, <1>4, <1>5 DEF PoolInv, HoldInv

\* Every step of a user or of a connection keeps the invariant of the pools.
LEMMA PoolSteps ==
  ASSUME PoolInv, PoolNext
  PROVE  PoolInv'
<1>0. HoldInv /\ UserInv
  BY DEF PoolInv
<1>1. /\ "idle" # "call" /\ "idle" # "reset" /\ "closed" # "call" /\ "closed" # "reset"
      /\ "reset" # "call" /\ TRUE \in BOOLEAN /\ FALSE \in BOOLEAN
  OBVIOUS
<1>2. \A u \in Users : user[u].last \in {"none", "ok", "error"}
  <2>1. \A u \in Users : user[u] \in UserState
    BY <1>0 DEF UserInv
  <2> QED
    BY <2>1 DEF UserState
<1>3. ASSUME NEW u \in Users, BeginCall(u) PROVE PoolInv'
  <2>1. user[u].at = "idle" /\ pool' = pool /\ role' = role
    BY <1>3 DEF BeginCall
  <2>2. CASE /\ client[u].raw # 0 /\ At(u, "call", user[u].last)
             /\ UNCHANGED <<wire, free, sess, offset, client>>
    <3>1. HoldInv'
      <4>1. PoolType' /\ FreeInv'
        BY <1>0, <2>1, <2>2 DEF HoldInv, PoolType, FreeInv
      <4>2. WireInv /\ \A k : Kept(k)' <=> Kept(k)
        BY <1>0, <2>1, <2>2 DEF HoldInv, Kept
      <4>3. WireInv'
        BY <2>2, <4>2 DEF WireInv
      <4> QED
        BY <4>1, <4>3 DEF HoldInv
    <3>2. client'[u].raw # 0 /\ \A v \in Users : v # u => client'[v] = client[v]
      BY <2>2
    <3>3. UserInv'
      BY <1>0, <1>1, <1>2, <2>2, <3>2, UserKept
    <3> QED
      BY <3>1, <3>3 DEF PoolInv
  <2>3. CASE client[u].raw = 0 /\ DialToNodeWithPool(u) /\ At(u, "call", user[u].last)
    <3>1. Gets(u)
      BY <1>0, <2>1, <2>3, DialGets
    <3>2. UserInv'
      BY <1>0, <1>1, <1>2, <2>3, <3>1, UserKept DEF Gets
    <3> QED
      BY <3>1, <3>2 DEF PoolInv, Gets
  <2>4. CASE DialFails(u) /\ At(u, "idle", "error") /\ UNCHANGED client
    <3>1. HoldInv'
      BY <1>0, <2>1, <2>4, DialFailsKeeps
    <3>2. \A v \in Users : v # u => client'[v] = client[v]
      BY <2>4
    <3>3. UserInv'
      BY <1>0, <1>1, <2>4, <3>2, UserKept
    <3> QED
      BY <3>1, <3>3 DEF PoolInv
  <2> QED
    BY <1>3, <2>2, <2>3, <2>4 DEF BeginCall
<1>4. ASSUME NEW u \in Users, CallOk(u) \/ CallTimeout(u) \/ CallOther(u) PROVE PoolInv'
  BY <1>4, FinishKeeps DEF CallOk, CallTimeout, CallOther
<1>5. ASSUME NEW u \in Users, CallEOF(u) PROVE PoolInv'
  <2>1. CASE Finish(u, TRUE, TRUE, "error")
    BY <1>5, <2>1, FinishKeeps DEF CallEOF
  <2>2. CASE ResetClient(u) /\ UNCHANGED <<pool, role, sess, offset>>
    <3>1. /\ At(u, "reset", "error") /\ CloseClient(u, TRUE)
          /\ client' = [client EXCEPT ![u] = None] /\ client[u].raw # 0
      BY <1>0, <1>5, <2>2 DEF ResetClient, CallEOF, UserInv
    <3>2. /\ HoldInv' /\ client'[u].raw = 0
          /\ \A v \in Users : v # u => client'[v] = client[v]
      BY <1>0, <1>1, <2>2, <3>1, CloseClientKeeps
    <3>3. UserInv'
      BY <1>0, <1>1, <3>1, <3>2, UserKept
    <3> QED
      BY <3>2, <3>3 DEF PoolInv
  <2> QED
    BY <1>5, <2>1, <2>2 DEF CallEOF
<1>6. ASSUME NEW u \in Users, Reconnect(u) PROVE PoolInv'
  <2>1. /\ client[u].raw = 0 /\ At(u, "idle", "error") /\ pool' = pool /\ role' = role
    BY <1>0, <1>6 DEF Reconnect, UserInv
  <2>2. CASE DialToNodeWithPool(u)
    <3>1. Gets(u)
      BY <1>0, <2>1, <2>2, DialGets
    <3>2. UserInv'
      BY <1>0, <1>1, <2>1, <3>1, UserKept DEF Gets
    <3> QED
      BY <3>1, <3>2 DEF PoolInv, Gets
  <2>3. CASE DialFails(u) /\ UNCHANGED client
    <3>1. HoldInv'
      BY <1>0, <2>1, <2>3, DialFailsKeeps
    <3>2. \A v \in Users : v # u => client'[v] = client[v]
      BY <2>3
    <3>3. UserInv'
      BY <1>0, <1>1, <2>1, <3>2, UserKept
    <3> QED
      BY <3>1, <3>3 DEF PoolInv
  <2> QED
    BY <1>6, <2>2, <2>3 DEF Reconnect
<1>7. ASSUME NEW u \in Users, CloseCaller(u) PROVE PoolInv'
  <2>1. /\ client[u].raw # 0 /\ At(u, "closed", user[u].last)
        /\ CloseClient(u, client[u].lastErr) /\ client' = [client EXCEPT ![u] = None]
        /\ UNCHANGED <<pool, role, sess, offset>>
    BY <1>7 DEF CloseCaller
  <2>2. PICK e \in BOOLEAN : CloseClient(u, e)
    <3>1. client[u] \in ClientState
      BY <1>0 DEF HoldInv, PoolType
    <3>2. client[u].lastErr \in BOOLEAN
      BY <3>1 DEF ClientState
    <3> QED
      BY <2>1, <3>2
  <2>3. /\ HoldInv' /\ client'[u].raw = 0
        /\ \A v \in Users : v # u => client'[v] = client[v]
    BY <1>0, <2>1, <2>2, CloseClientKeeps
  <2>4. UserInv'
    BY <1>0, <1>1, <1>2, <2>1, <2>3, UserKept
  <2> QED
    BY <2>3, <2>4 DEF PoolInv
<1>8. ASSUME NEW i \in Conns, Break(i) \/ Notice(i) PROVE PoolInv'
  BY <1>8, WireKeeps DEF Break, Notice
<1> QED
  BY <1>3, <1>4, <1>5, <1>6, <1>7, <1>8 DEF PoolNext

\* The pools of every behaviour.
LEMMA PoolInvariant ==
  Spec => []PoolInv
<1>1. Init => PoolInv
  <2> SUFFICES ASSUME Init PROVE PoolInv
    OBVIOUS
  <2>1. /\ wire = [i \in Conns |-> "closed"] /\ free = <<>> /\ sess = <<>> /\ offset = 0
        /\ client = [u \in Users |-> None]
        /\ user = [u \in Users |-> [at |-> "idle", last |-> "none"]]
    BY DEF Init, PoolInit
  <2>2. None \in ClientState /\ None.raw = 0
    BY DEF None, ClientState
  <2>3. PoolType
    BY <2>1, <2>2, SMT DEF PoolType
  <2>4. Range(<<>>) = {}
    BY SMTT(30) DEF Range
  <2>5. FreeInv
    BY <2>1, <2>2, <2>4, SMTT(30) DEF FreeInv
  <2>6. WireInv
    BY <2>1 DEF WireInv
  <2>7. UserInv
    BY <2>1, <2>2 DEF UserInv, UserState
  <2> QED
    BY <2>3, <2>5, <2>6, <2>7 DEF PoolInv, HoldInv
<1>2. PoolInv /\ [Next]_vars => PoolInv'
  <2> SUFFICES ASSUME PoolInv, [Next]_vars PROVE PoolInv'
    OBVIOUS
  <2>1. CASE PoolNext
    BY <2>1, PoolSteps
  <2>2. CASE UNCHANGED poolVars
    <3>1. PoolType' /\ FreeInv' /\ UserInv'
      BY <2>2 DEF poolVars, PoolInv, HoldInv, PoolType, FreeInv, UserInv
    <3>2. WireInv /\ wire' = wire /\ \A k : Kept(k)' <=> Kept(k)
      BY <2>2 DEF poolVars, PoolInv, HoldInv, Kept
    <3>3. WireInv'
      BY <3>2 DEF WireInv
    <3> QED
      BY <3>1, <3>3 DEF PoolInv, HoldInv
  <2> QED
    BY <2>1, <2>2 DEF Next, vars
<1> QED
  BY <1>1, <1>2, PTL DEF Spec

\* The free list never gives a connection to two users, and no open connection is
\* forgotten, in either pool: whatever breaks, times out or is reset.
THEOREM Pooled ==
  Spec => []Exclusive
<1>1. PoolInv => Exclusive
  <2> SUFFICES ASSUME PoolInv PROVE Exclusive
    OBVIOUS
  <2>1. FreeInv /\ WireInv /\ free \in Seq(Conns)
    BY DEF PoolInv, HoldInv, PoolType
  <2>2. ASSUME pool = "direct"
        PROVE  /\ IsInjective(free) /\ Range(free) \cap InUse = {}
               /\ \A u, v \in Users : u # v /\ client[u].raw # 0 => client[u].raw # client[v].raw
    <3>1. /\ \A i, j \in 1..Len(free) : free[i] = free[j] => i = j
          /\ \A u \in Users : client[u].raw \notin Range(free)
          /\ \A u, v \in Users : u # v /\ client[u].raw # 0 => client[u].raw # client[v].raw
      BY <2>1, <2>2 DEF FreeInv
    <3>2. IsInjective(free)
      BY <2>1, <3>1, SMTT(30) DEF IsInjective
    <3>3. Range(free) \cap InUse = {}
      BY <3>1, SMT DEF InUse
    <3> QED
      BY <3>1, <3>2, <3>3
  <2>3. ASSUME NEW i \in Conns, wire[i] \in {"up", "broken"} PROVE i \in Known
    <3>1. Kept(i) /\ i # 0
      BY <2>1, <2>3, PoolAssumption DEF WireInv
    <3> QED
      BY <3>1 DEF Kept, Known, InUse
  <2> QED
    BY <2>2, <2>3 DEF Exclusive
<1> QED
  BY <1>1, PoolInvariant, PTL

-----------------------------------------------------------------------------
(***************************************************************************)
(* The directory: what its tables and rings keep.                          *)
(***************************************************************************)

\* The variables of the registration have the types their Go counterparts have.
RingType ==
  /\ scenario \in Scenarios /\ up \subseteq BPs
  /\ DOMAIN store = BPs /\ DOMAIN circle = BPs /\ DOMAIN adding = BPs /\ DOMAIN addr = Nodes
  /\ \A b \in BPs : adding[b] = NoNode \/ adding[b].node \in Nodes
  /\ ping \in [Nodes -> [BPs -> {"none", "calling", "sleeping", "failed", "done"}]]
  /\ reg \in [Nodes -> {"no", "started", "waiting", "ok", "timeout", "client"}]

\* Ring and table differ by the node that is being added, if there is one.
StoreInv ==
  /\ \A b \in up : IF adding[b] = NoNode THEN circle[b] = store[b]
                   ELSE store[b] = SetNode(circle[b], adding[b].node, adding[b].addr)
  /\ \A b \in BPs \ up : adding[b] = NoNode

\* A node whose ping was answered is stored, and one that is registered was answered.
PingInv ==
  /\ \A n \in Nodes, b \in BPs :
       ping[n][b] = "done" => n \in DOMAIN store[b] /\ store[b][n] = addr[n]
  /\ \A n \in Nodes : reg[n] = "ok" => \E b \in BPs : ping[n][b] = "done"

RingInv == RingType /\ StoreInv /\ PingInv

-----------------------------------------------------------------------------
(***************************************************************************)
(* The directory: registration.                                            *)
(***************************************************************************)

\* One cell of a table of tables is set.
LEMMA CellSet ==
  ASSUME NEW S, NEW T, NEW V, NEW f \in [S -> [T -> V]], NEW n \in S, NEW b \in T, NEW x \in V,
         NEW g, g = [f EXCEPT ![n][b] = x]
  PROVE  /\ g \in [S -> [T -> V]]
         /\ g[n][b] = x
         /\ \A m \in S, c \in T : m # n \/ c # b => g[m][c] = f[m][c]
OBVIOUS

\* A step that leaves ring and table alone.
LEMMA StoreUnchanged ==
  ASSUME StoreInv, UNCHANGED <<up, store, circle, adding>>
  PROVE  StoreInv'
BY DEF StoreInv, SetNode

\* What PingInv says of the next state.
LEMMA PingThen ==
  ASSUME \A m \in Nodes, b \in BPs :
           ping'[m][b] = "done" => m \in DOMAIN store'[b] /\ store'[b][m] = addr'[m],
         \A m \in Nodes : reg'[m] = "ok" => \E b \in BPs : ping'[m][b] = "done"
  PROVE  PingInv'
BY DEF PingInv

\* A step that leaves the registration alone.
LEMMA RingUnchanged ==
  ASSUME RingInv, UNCHANGED <<scenario, up, store, circle, adding, addr, ping, reg>>
  PROVE  RingInv'
<1>1. RingType'
  BY DEF RingInv, RingType
<1>2. StoreInv'
  BY StoreUnchanged DEF RingInv
<1>3. PingInv'
  BY DEF RingInv, PingInv
<1> QED
  BY <1>1, <1>2, <1>3 DEF RingInv

\* The first half of Consistent.add: the node is stored before it is on the ring.
LEMMA PingKeeps ==
  ASSUME RingInv, NEW n \in Nodes, NEW b \in BPs, Ping(n, b), scenario' = scenario
  PROVE  RingInv'
<1>1. /\ RingType /\ StoreInv /\ PingInv
      /\ b \in up /\ adding[b] = NoNode
      /\ store' = [store EXCEPT ![b] = SetNode(store[b], n, addr[n])]
      /\ adding' = [adding EXCEPT ![b] = [node |-> n, addr |-> addr[n]]]
      /\ up' = up /\ circle' = circle /\ addr' = addr /\ ping' = ping /\ reg' = reg
  BY DEF Ping, Unlocked, nodeVars, RingInv
<1>2. /\ DOMAIN store' = BPs /\ store'[b] = SetNode(store[b], n, addr[n])
      /\ \A c \in BPs : c # b => store'[c] = store[c]
  BY <1>1 DEF RingType
<1>3. /\ DOMAIN adding' = BPs /\ adding'[b] = [node |-> n, addr |-> addr[n]]
      /\ \A c \in BPs : c # b => adding'[c] = adding[c]
  BY <1>1 DEF RingType
<1>4. /\ adding'[b].node = n /\ adding'[b].addr = addr[n] /\ adding'[b] # NoNode
  <2>1. adding'[b].node = n /\ adding'[b].addr = addr[n] /\ NoNode.node = "none" /\ n # "none"
    BY <1>3, DirectoryAssumption, SMT DEF NoNode
  <2> QED
    BY <2>1
<1>5. RingType'
  BY <1>1, <1>2, <1>3, <1>4 DEF RingType
<1>6. StoreInv'
  <2>1. circle[b] = store[b]
    BY <1>1 DEF StoreInv
  <2>2. ASSUME NEW c \in up
        PROVE  IF adding'[c] = NoNode THEN circle[c] = store'[c]
               ELSE store'[c] = SetNode(circle[c], adding'[c].node, adding'[c].addr)
    <3>0. c \in BPs
      BY <1>1 DEF RingType
    <3>1. CASE c = b
      BY <3>1, <2>1, <1>2, <1>4
    <3>2. CASE c # b
      BY <3>0, <3>2, <1>1, <1>2, <1>3 DEF StoreInv
    <3> QED
      BY <3>1, <3>2
  <2>3. \A c \in BPs \ up : adding'[c] = NoNode
    BY <1>1, <1>3 DEF StoreInv
  <2>4. up' = up /\ circle' = circle
    BY <1>1
  <2> QED
    BY <2>2, <2>3, <2>4 DEF StoreInv, SetNode
<1>7. PingInv'
  <2>1. ASSUME NEW m \in Nodes, NEW c \in BPs, ping[m][c] = "done"
        PROVE  m \in DOMAIN store'[c] /\ store'[c][m] = addr[m]
    <3>1. m \in DOMAIN store[c] /\ store[c][m] = addr[m]
      BY <1>1, <2>1 DEF PingInv
    <3>2. CASE c = b
      <4>1. /\ DOMAIN store'[b] = DOMAIN store[b] \union {n} /\ store'[b][n] = addr[n]
            /\ \A x \in DOMAIN store[b] : x # n => store'[b][x] = store[b][x]
        BY <1>2 DEF SetNode
      <4> QED
        BY <3>1, <3>2, <4>1
    <3>3. CASE c # b
      BY <3>1, <3>3, <1>2
    <3> QED
      BY <3>2, <3>3
  <2>2. /\ ping' = ping /\ reg' = reg /\ addr' = addr
        /\ \A m \in Nodes : reg[m] = "ok" => \E c \in BPs : ping[m][c] = "done"
    BY <1>1 DEF PingInv
  <2> QED
    BY <2>1, <2>2 DEF PingInv
<1> QED
  BY <1>5, <1>6, <1>7 DEF RingInv

\* The second half, and the answer, which is heard or not.
LEMMA AddEndsKeeps ==
  ASSUME RingInv, NEW b \in BPs, AddEnds(b), scenario' = scenario
  PROVE  RingInv'
<1> DEFINE n == adding[b].node
<1>1. /\ RingType /\ StoreInv /\ PingInv
      /\ b \in up /\ adding[b] # NoNode
      /\ circle' = [circle EXCEPT ![b] = SetNode(circle[b], adding[b].node, adding[b].addr)]
      /\ adding' = [adding EXCEPT ![b] = NoNode]
      /\ up' = up /\ store' = store /\ addr' = addr
  BY DEF AddEnds, AddCache, RingInv
<1>2. n \in Nodes
  BY <1>1 DEF RingType
<1>3. /\ DOMAIN circle' = BPs
      /\ circle'[b] = SetNode(circle[b], adding[b].node, adding[b].addr)
      /\ \A c \in BPs : c # b => circle'[c] = circle[c]
  BY <1>1 DEF RingType
<1>4. /\ DOMAIN adding' = BPs /\ adding'[b] = NoNode
      /\ \A c \in BPs : c # b => adding'[c] = adding[c]
  BY <1>1 DEF RingType
<1>5. store[b] = SetNode(circle[b], adding[b].node, adding[b].addr)
  BY <1>1 DEF StoreInv
<1>6. StoreInv'
  <2>1. ASSUME NEW c \in up
        PROVE  IF adding'[c] = NoNode THEN circle'[c] = store[c]
               ELSE store[c] = SetNode(circle'[c], adding'[c].node, adding'[c].addr)
    <3>0. c \in BPs
      BY <1>1 DEF RingType
    <3>1. CASE c = b
      BY <3>1, <1>3, <1>4, <1>5
    <3>2. CASE c # b
      BY <3>0, <3>2, <1>1, <1>3, <1>4 DEF StoreInv
    <3> QED
      BY <3>1, <3>2
  <2>2. \A c \in BPs \ up : adding'[c] = NoNode
    BY <1>1, <1>4 DEF StoreInv
  <2> QED
    BY <1>1, <2>1, <2>2 DEF StoreInv, SetNode
<1>7. CASE ping[n][b] = "calling" /\ addr[n] = adding[b].addr
  <2>1. /\ ping' = [ping EXCEPT ![n][b] = "done"]
        /\ reg' = IF reg[n] = "waiting" THEN [reg EXCEPT ![n] = "ok"] ELSE reg
    BY <1>7 DEF AddEnds, Pinged
  <2>2. /\ ping \in [Nodes -> [BPs -> {"none", "calling", "sleeping", "failed", "done"}]]
        /\ reg \in [Nodes -> {"no", "started", "waiting", "ok", "timeout", "client"}]
    BY <1>1, ZenonT(30) DEF RingType
  <2> HIDE DEF n
  <2>3. /\ ping' \in [Nodes -> [BPs -> {"none", "calling", "sleeping", "failed", "done"}]]
        /\ ping'[n][b] = "done"
        /\ \A m \in Nodes, c \in BPs : m # n \/ c # b => ping'[m][c] = ping[m][c]
    <3> DEFINE V == {"none", "calling", "sleeping", "failed", "done"}
    <3>1. "done" \in V /\ ping \in [Nodes -> [BPs -> V]]
      BY <2>2, Zenon
    <3> HIDE DEF V
    <3>2. /\ ping' \in [Nodes -> [BPs -> V]]
          /\ ping'[n][b] = "done"
          /\ \A m \in Nodes, c \in BPs : m # n \/ c # b => ping'[m][c] = ping[m][c]
      BY <1>2, <2>1, <3>1, CellSet, SMTT(30)
    <3> QED
      BY <3>2, Zenon DEF V
  <2>4. /\ reg' \in [Nodes -> {"no", "started", "waiting", "ok", "timeout", "client"}]
        /\ \A m \in Nodes : m # n => reg'[m] = reg[m]
    BY <1>2, <2>1, <2>2
  <2>5. n \in DOMAIN store[b] /\ store[b][n] = addr[n]
    <3>1. /\ DOMAIN store[b] = DOMAIN circle[b] \union {n}
          /\ store[b][n] = adding[b].addr
      BY <1>5 DEF SetNode, n
    <3> QED
      BY <1>7, <3>1
  <2>6. PingInv'
    <3>1. ASSUME NEW m \in Nodes, NEW c \in BPs, ping'[m][c] = "done"
          PROVE  m \in DOMAIN store[c] /\ store[c][m] = addr[m]
      BY <3>1, <1>1, <2>3, <2>5 DEF PingInv
    <3>2. ASSUME NEW m \in Nodes, reg'[m] = "ok"
          PROVE  \E c \in BPs : ping'[m][c] = "done"
      BY <3>2, <1>1, <2>3, <2>4 DEF PingInv
    <3> QED
      BY <1>1, <3>1, <3>2 DEF PingInv
  <2>7. RingType'
    BY <1>1, <1>3, <1>4, <2>3, <2>4 DEF RingType
  <2> QED
    BY <1>6, <2>6, <2>7 DEF RingInv
<1>8. CASE ~(ping[n][b] = "calling" /\ addr[n] = adding[b].addr)
  <2>1. ping' = ping /\ reg' = reg
    BY <1>8 DEF AddEnds
  <2>2. PingInv'
    BY <1>1, <2>1 DEF PingInv
  <2>3. RingType'
    BY <1>1, <1>3, <1>4, <2>1 DEF RingType
  <2> QED
    BY <1>6, <2>2, <2>3 DEF RingInv
<1> QED
  BY <1>7, <1>8

\* A block producer crashes: what it stored stays.
LEMMA CrashKeeps ==
  ASSUME RingInv, NEW b \in BPs, CrashBP(b), scenario' = scenario
  PROVE  RingInv'
<1>1. /\ RingType /\ StoreInv /\ PingInv /\ up' = up \ {b}
      /\ circle' = [circle EXCEPT ![b] = <<>>] /\ adding' = [adding EXCEPT ![b] = NoNode]
      /\ store' = store /\ addr' = addr /\ ping' = ping /\ reg' = reg
  BY DEF CrashBP, RingInv
<1>2. /\ DOMAIN circle' = BPs /\ DOMAIN adding' = BPs /\ adding'[b] = NoNode
      /\ \A c \in BPs : c # b => circle'[c] = circle[c] /\ adding'[c] = adding[c]
  BY <1>1 DEF RingType
<1>3. up' \subseteq BPs /\ up \subseteq BPs
  BY <1>1 DEF RingType
<1>4. RingType'
  BY <1>1, <1>2, <1>3 DEF RingType
<1>5. StoreInv'
  <2>1. ASSUME NEW c \in up \ {b}
        PROVE  IF adding'[c] = NoNode THEN circle'[c] = store[c]
               ELSE store[c] = SetNode(circle'[c], adding'[c].node, adding'[c].addr)
    BY <1>1, <1>2, <1>3 DEF StoreInv
  <2>2. \A c \in BPs \ (up \ {b}) : adding'[c] = NoNode
    BY <1>1, <1>2 DEF StoreInv
  <2>3. up' = up \ {b} /\ store' = store
    BY <1>1
  <2> QED
    BY <2>1, <2>2, <2>3 DEF StoreInv, SetNode
<1>6. PingInv'
  BY <1>1 DEF PingInv
<1> QED
  BY <1>4, <1>5, <1>6 DEF RingInv

\* It starts again: the table gets the seeds, and the ring all of the table.
LEMMA InitConsistentKeeps ==
  ASSUME RingInv, NEW b \in BPs, InitConsistent(b), scenario' = scenario
  PROVE  RingInv'
<1>1. /\ RingType /\ StoreInv /\ PingInv /\ b \notin up /\ up' = up \union {b}
      /\ store' = [store EXCEPT ![b] = InitPublicKeyStore(b)]
      /\ circle' = [circle EXCEPT ![b] = InitPublicKeyStore(b)]
      /\ adding' = adding /\ addr' = addr /\ ping' = ping /\ reg' = reg
  BY DEF InitConsistent, nodeVars, RingInv
<1>2. /\ DOMAIN circle' = BPs /\ DOMAIN store' = BPs
      /\ circle'[b] = InitPublicKeyStore(b) /\ store'[b] = InitPublicKeyStore(b)
      /\ \A c \in BPs : c # b => circle'[c] = circle[c] /\ store'[c] = store[c]
  BY <1>1 DEF RingType
<1>3. up' \subseteq BPs /\ up \subseteq BPs
  BY <1>1 DEF RingType
<1>4. RingType'
  BY <1>1, <1>2, <1>3 DEF RingType
<1>5. StoreInv'
  <2>1. ASSUME NEW c \in up \union {b}
        PROVE  IF adding[c] = NoNode THEN circle'[c] = store'[c]
               ELSE store'[c] = SetNode(circle'[c], adding[c].node, adding[c].addr)
    <3>1. CASE c = b
      <4>1. adding[b] = NoNode
        BY <1>1 DEF StoreInv
      <4> QED
        BY <3>1, <4>1, <1>2
    <3>2. CASE c # b
      BY <3>2, <1>1, <1>2, <1>3 DEF StoreInv
    <3> QED
      BY <3>1, <3>2
  <2>2. \A c \in BPs \ (up \union {b}) : adding[c] = NoNode
    BY <1>1 DEF StoreInv
  <2>3. up' = up \union {b} /\ adding' = adding
    BY <1>1
  <2> QED
    BY <2>1, <2>2, <2>3 DEF StoreInv, SetNode
<1>6. PingInv'
  <2>1. ASSUME NEW m \in Nodes, NEW c \in BPs, ping[m][c] = "done"
        PROVE  m \in DOMAIN store'[c] /\ store'[c][m] = addr[m]
    <3>1. m \in DOMAIN store[c] /\ store[c][m] = addr[m]
      BY <1>1, <2>1 DEF PingInv
    <3>2. CASE c = b
      <4>1. m \notin BPs
        BY DirectoryAssumption
      <4>2. \A x \in DOMAIN store[b] \ BPs : x \in DOMAIN store'[b] /\ store'[b][x] = store[b][x]
        BY <1>2 DEF InitPublicKeyStore
      <4> QED
        BY <3>1, <3>2, <4>1, <4>2
    <3>3. CASE c # b
      BY <3>1, <3>3, <1>2
    <3> QED
      BY <3>2, <3>3
  <2>2. /\ ping' = ping /\ reg' = reg /\ addr' = addr
        /\ \A m \in Nodes : reg[m] = "ok" => \E c \in BPs : ping[m][c] = "done"
    BY <1>1 DEF PingInv
  <2> QED
    BY <2>1, <2>2 DEF PingInv
<1> QED
  BY <1>4, <1>5, <1>6 DEF RingInv

\* A step of a node itself: nothing it does makes a ping answered, and it registers anew
\* when it has moved.
LEMMA NodeKeeps ==
  ASSUME RingInv, NEW n \in Nodes, scenario' = scenario, UNCHANGED <<up, store, circle, adding>>,
         DOMAIN addr' = Nodes, \A m \in Nodes \ {n} : addr'[m] = addr[m],
         ping' \in [Nodes -> [BPs -> {"none", "calling", "sleeping", "failed", "done"}]],
         reg' \in [Nodes -> {"no", "started", "waiting", "ok", "timeout", "client"}],
         \A m \in Nodes \ {n} : ping'[m] = ping[m] /\ reg'[m] = reg[m],
         \A b \in BPs : ping'[n][b] = "done" => ping[n][b] = "done" /\ addr'[n] = addr[n],
         reg'[n] = "ok" => reg[n] = "ok" /\ \A b \in BPs : ping[n][b] = "done" => ping'[n][b] = "done"
  PROVE  RingInv'
<1>1. RingType'
  BY DEF RingInv, RingType
<1>2. StoreInv'
  BY StoreUnchanged DEF RingInv
<1>3. PingInv'
  <2>1. ASSUME NEW m \in Nodes, NEW b \in BPs, ping'[m][b] = "done"
        PROVE  m \in DOMAIN store'[b] /\ store'[b][m] = addr'[m]
    <3>1. ping[m][b] = "done" /\ addr'[m] = addr[m]
      BY <2>1
    <3>2. m \in DOMAIN store[b] /\ store[b][m] = addr[m]
      BY <3>1 DEF RingInv, PingInv
    <3> QED
      BY <3>1, <3>2
  <2>2. ASSUME NEW m \in Nodes, reg'[m] = "ok" PROVE \E b \in BPs : ping'[m][b] = "done"
    <3>1. reg[m] = "ok"
      BY <2>2
    <3>2. PICK b \in BPs : ping[m][b] = "done"
      BY <3>1 DEF RingInv, PingInv
    <3>3. ping'[m][b] = "done"
      BY <2>2, <3>2
    <3> QED
      BY <3>3
  <2> QED
    BY <2>1, <2>2, PingThen
<1> QED
  BY <1>1, <1>2, <1>3 DEF RingInv

\* RegisterNodeToBP, registerNode, a ping that fails, and a move.
LEMMA MemberKeeps ==
  ASSUME RingInv, NEW n \in Nodes, scenario' = scenario,
         \/ RegisterNodeToBP(n) \/ Move(n)
         \/ \E b \in BPs : registerNode(n, b) \/ PingFails(n, b)
  PROVE  RingInv'
<1>1. /\ ping \in [Nodes -> [BPs -> {"none", "calling", "sleeping", "failed", "done"}]]
      /\ reg \in [Nodes -> {"no", "started", "waiting", "ok", "timeout", "client"}]
      /\ DOMAIN addr = Nodes
  BY DEF RingInv, RingType
<1>2. CASE RegisterNodeToBP(n)
  <2>1. UNCHANGED <<up, store, circle, adding>> /\ addr' = addr
    BY <1>2 DEF RegisterNodeToBP, bpVars
  <2>2. /\ ping' = ping \/ ping' = [ping EXCEPT ![n] = [b \in BPs |-> "calling"]]
        /\ \E r \in {"started", "waiting", "timeout"} : reg' = [reg EXCEPT ![n] = r]
    BY <1>2 DEF RegisterNodeToBP
  <2>3. /\ ping' \in [Nodes -> [BPs -> {"none", "calling", "sleeping", "failed", "done"}]]
        /\ \A m \in Nodes \ {n} : ping'[m] = ping[m]
        /\ \A b \in BPs : ping'[n][b] = "done" => ping[n][b] = "done"
    BY <1>1, <2>2, SMT
  <2>4. /\ reg' \in [Nodes -> {"no", "started", "waiting", "ok", "timeout", "client"}]
        /\ \A m \in Nodes \ {n} : reg'[m] = reg[m]
        /\ reg'[n] # "ok"
    BY <1>1, <2>2
  <2> QED
    BY <1>1, <2>1, <2>3, <2>4, NodeKeeps, SMTT(30)
<1>3. CASE Move(n)
  <2>1. /\ UNCHANGED <<up, store, circle, adding>>
        /\ addr' = [addr EXCEPT ![n] = addr[n] + 1]
        /\ ping' = [ping EXCEPT ![n] = [b \in BPs |-> "none"]]
        /\ reg' = [reg EXCEPT ![n] = "no"]
    BY <1>3 DEF Move, bpVars
  <2>2. DOMAIN addr' = Nodes /\ \A m \in Nodes \ {n} : addr'[m] = addr[m]
    BY <1>1, <2>1
  <2>3. /\ ping' \in [Nodes -> [BPs -> {"none", "calling", "sleeping", "failed", "done"}]]
        /\ \A m \in Nodes \ {n} : ping'[m] = ping[m]
        /\ \A b \in BPs : ping'[n][b] # "done"
    BY <1>1, <2>1
  <2>4. /\ reg' \in [Nodes -> {"no", "started", "waiting", "ok", "timeout", "client"}]
        /\ \A m \in Nodes \ {n} : reg'[m] = reg[m]
        /\ reg'[n] # "ok"
    BY <1>1, <2>1
  <2> QED
    BY <1>1, <2>1, <2>2, <2>3, <2>4, NodeKeeps
<1>4. ASSUME NEW b \in BPs, registerNode(n, b) PROVE RingInv'
  <2>1. /\ UNCHANGED <<up, store, circle, adding>> /\ addr' = addr
        /\ ping' = [ping EXCEPT ![n][b] = "calling"] /\ reg' = [reg EXCEPT ![n] = "client"]
    BY <1>4 DEF registerNode, bpVars
  <2>2. /\ ping' \in [Nodes -> [BPs -> {"none", "calling", "sleeping", "failed", "done"}]]
        /\ \A m \in Nodes \ {n} : ping'[m] = ping[m]
        /\ \A c \in BPs : ping'[n][c] = "done" => ping[n][c] = "done"
    BY <1>1, <2>1
  <2>3. /\ reg' \in [Nodes -> {"no", "started", "waiting", "ok", "timeout", "client"}]
        /\ \A m \in Nodes \ {n} : reg'[m] = reg[m]
        /\ reg'[n] # "ok"
    BY <1>1, <2>1
  <2> QED
    BY <1>1, <2>1, <2>2, <2>3, NodeKeeps
<1>5. ASSUME NEW b \in BPs, PingFails(n, b) PROVE RingInv'
  <2>1. UNCHANGED <<up, store, circle, adding>> /\ addr' = addr /\ reg' = reg
    BY <1>5 DEF PingFails, bpVars
  <2>2. /\ ping[n][b] # "done"
        /\ \E x \in {"failed", "sleeping", "calling"} : ping' = [ping EXCEPT ![n][b] = x]
    BY <1>5 DEF PingFails, AfterFailure
  <2>3. /\ ping' \in [Nodes -> [BPs -> {"none", "calling", "sleeping", "failed", "done"}]]
        /\ \A m \in Nodes \ {n} : ping'[m] = ping[m]
        /\ \A c \in BPs : ping'[n][c] = "done" <=> ping[n][c] = "done"
    BY <1>1, <2>2, SMT
  <2> QED
    BY <1>1, <2>1, <2>3, NodeKeeps, ZenonT(30)
<1> QED
  BY <1>2, <1>3, <1>4, <1>5

\* A node of the scenario is a node.
LEMMA ScenarioNodes ==
  ASSUME RingInv
  PROVE  /\ scenario.members \subseteq Nodes /\ scenario.clients \subseteq Nodes
         /\ scenario.askers \subseteq Nodes /\ scenario.diallers \subseteq Nodes
<1>1. scenario \in Scenarios
  BY DEF RingInv, RingType
<1>2. scenario.members \union scenario.clients \union scenario.askers \union scenario.diallers
        \subseteq Nodes
  BY <1>1, ClientAssumption
<1> QED
  BY <1>2

\* The steps of the directory, with the nodes they are of.
LEMMA DirSteps ==
  ASSUME RingInv, DirStep
  PROVE  \/ \E b \in BPs : AddEnds(b) \/ CrashBP(b) \/ InitConsistent(b)
         \/ \E n \in Nodes : \/ RegisterNodeToBP(n) \/ Move(n) \/ Connect(n)
                             \/ \E t \in Nodes : DialEx(n, t)
                             \/ \E b \in BPs : \/ Ping(n, b) \/ PingFails(n, b)
                                               \/ registerNode(n, b) \/ GetCurrentBP(n, b)
                                               \/ FindNodeInBP(n, b)
<1>1. /\ scenario.members \subseteq Nodes /\ scenario.clients \subseteq Nodes
      /\ scenario.askers \subseteq Nodes /\ scenario.diallers \subseteq Nodes
  BY ScenarioNodes
<1>2. CASE \E b \in BPs : BPStep(b)
  BY <1>2 DEF BPStep
<1>3. CASE \E n \in scenario.members : Member(n)
  BY <1>1, <1>3 DEF Member
<1>4. CASE \E n \in scenario.clients : DriverNode(n)
  BY <1>1, <1>4 DEF DriverNode
<1>5. CASE \E n \in scenario.askers, b \in BPs : GetCurrentBP(n, b)
  BY <1>1, <1>5
<1>6. CASE \E n \in scenario.diallers : Dialler(n)
  BY <1>1, <1>6 DEF Dialler
<1> QED
  BY <1>2, <1>3, <1>4, <1>5, <1>6 DEF DirStep

\* The registration of every behaviour.
LEMMA RingInvariant ==
  Spec => []RingInv
<1>1. Init => RingInv
  <2> SUFFICES ASSUME Init PROVE RingInv
    OBVIOUS
  <2>1. /\ scenario \in Scenarios /\ up = BPs
        /\ store = [b \in BPs |-> Seeds] /\ circle = store
        /\ adding = [b \in BPs |-> NoNode] /\ addr = [n \in Nodes |-> 0]
        /\ ping = [n \in Nodes |-> [b \in BPs |-> "none"]]
        /\ reg = [n \in Nodes |-> "no"]
    BY DEF Init, DirInit
  <2>2. RingType
    BY <2>1 DEF RingType
  <2>3. StoreInv
    BY <2>1 DEF StoreInv
  <2>4. PingInv
    BY <2>1 DEF PingInv
  <2> QED
    BY <2>2, <2>3, <2>4 DEF RingInv
<1>2. RingInv /\ [Next]_vars => RingInv'
  <2> SUFFICES ASSUME RingInv, [Next]_vars PROVE RingInv'
    OBVIOUS
  <2>0. scenario' = scenario
    BY DEF Next, vars
  <2>1. CASE DirStep
    <3>1. ASSUME NEW b \in BPs, AddEnds(b) \/ CrashBP(b) \/ InitConsistent(b) PROVE RingInv'
      BY <3>1, <2>0, AddEndsKeeps, CrashKeeps, InitConsistentKeeps
    <3>2. ASSUME NEW n \in Nodes,
                 \/ RegisterNodeToBP(n) \/ Move(n)
                 \/ \E b \in BPs : registerNode(n, b) \/ PingFails(n, b)
          PROVE  RingInv'
      BY <3>2, <2>0, MemberKeeps
    <3>3. ASSUME NEW n \in Nodes, NEW b \in BPs, Ping(n, b) PROVE RingInv'
      BY <3>3, <2>0, PingKeeps
    <3>4. ASSUME NEW n, Connect(n) \/ \E t \in Nodes : DialEx(n, t) PROVE RingInv'
      BY <3>4, <2>0, RingUnchanged DEF Connect, DialEx, bpVars
    <3>5. ASSUME NEW n, NEW b, GetCurrentBP(n, b) \/ FindNodeInBP(n, b) PROVE RingInv'
      BY <3>5, <2>0, RingUnchanged DEF GetCurrentBP, FindNodeInBP, bpVars
    <3> QED
      BY <2>1, <3>1, <3>2, <3>3, <3>4, <3>5, DirSteps
  <2>2. CASE UNCHANGED dirVars
    BY <2>0, <2>2, RingUnchanged DEF dirVars
  <2> QED
    BY <2>1, <2>2 DEF Next, vars
<1> QED
  BY <1>1, <1>2, PTL DEF Spec

\* Ring and table of a block producer differ only while a node is being added; a node whose
\* ping was answered is stored with its address, whatever crashes afterwards; and a node
\* that RegisterNodeToBP reports as registered is stored somewhere.
THEOREM Registration ==
  Spec => []Registered
<1>1. RingInv => Registered
  BY DEF RingInv, StoreInv, PingInv, Registered
<1> QED
  BY <1>1, RingInvariant, PTL

-----------------------------------------------------------------------------
(***************************************************************************)
(* The directory: dialling.                                                *)
(***************************************************************************)
Asking == {"key", "addr", "accept"}
DialState == [to : Nodes \union {"none"}, left : SUBSET BPs, able : SUBSET BPs,
              at : Asking \union {"none", "connect", "connected", "failed"}]

\* The block producers that could have told all the time, for a dial d of n, still can and
\* are among those not asked yet.
AbleOf(n, d) ==
  d.at \in Asking =>
    /\ d.able \subseteq d.left
    /\ \A b \in d.able : FindNode(b, IF d.at = "accept" THEN d.to ELSE n,
                                     IF d.at = "accept" THEN n ELSE d.to)

AbleInv == \A n \in Nodes : AbleOf(n, dial[n])

DialInv == dial \in [Nodes -> DialState] /\ AbleInv


\* Of a step of n that dials: what the dial becomes.
Dialled(n) ==
  \E d \in DialState :
    /\ dial' = [dial EXCEPT ![n] = d]
    /\ AbleOf(n, d)
    /\ dial[n].at \in Asking /\ d.at = "failed" => d.able = {}

\* Who could tell can still tell when tables and rings have only grown.
LEMMA AbleGrows ==
  ASSUME NEW n, NEW d, AbleOf(n, d),
         \A b \in d.able \intersect up :
           b \in up' /\ DOMAIN store[b] \subseteq DOMAIN store'[b]
                     /\ DOMAIN circle[b] \subseteq DOMAIN circle'[b]
  PROVE  AbleOf(n, d)'
<1>1. ASSUME NEW b \in d.able, NEW m, NEW t, FindNode(b, m, t) PROVE FindNode(b, m, t)'
  <2>1. b \in up /\ m \in DOMAIN store[b] /\ t \in DOMAIN circle[b]
        /\ IsPermitted(m, "DHT.FindNode")
    BY <1>1 DEF FindNode, Accepts, Has
  <2>2. b \in up' /\ m \in DOMAIN store'[b] /\ t \in DOMAIN circle'[b]
    BY <2>1
  <2> QED
    BY <2>1, <2>2 DEF FindNode, Accepts, Has, IsPermitted
<1> QED
  BY <1>1 DEF AbleOf

\* A step that dials nobody.
LEMMA NobodyDials ==
  ASSUME DialInv, dial' = dial,
         \A b \in up : b \in up' /\ DOMAIN store[b] \subseteq DOMAIN store'[b]
                                 /\ DOMAIN circle[b] \subseteq DOMAIN circle'[b]
  PROVE  DialInv'
<1>1. ASSUME NEW n \in Nodes PROVE AbleOf(n, dial[n])'
  <2>1. PICK d : d = dial[n]
    OBVIOUS
  <2>2. AbleOf(n, d)
    BY <2>1 DEF DialInv, AbleInv
  <2>3. AbleOf(n, d)'
    BY <2>2, AbleGrows
  <2>4. d = dial'[n]
    BY <2>1
  <2> QED
    BY <2>3, <2>4 DEF AbleOf, FindNode, Accepts, Has
<1> QED
  BY <1>1 DEF DialInv, AbleInv

\* A step that dials.
LEMMA SomebodyDials ==
  ASSUME DialInv, NEW n \in Nodes, Dialled(n), UNCHANGED <<up, store, circle>>
  PROVE  /\ DialInv'
         /\ \A m \in Nodes : dial[m].at \in Asking /\ dial'[m].at = "failed"
                               => dial'[m].able = {}
<1>1. PICK d \in DialState : /\ dial' = [dial EXCEPT ![n] = d] /\ AbleOf(n, d)
                             /\ dial[n].at \in Asking /\ d.at = "failed" => d.able = {}
  BY DEF Dialled
<1>2. /\ dial' \in [Nodes -> DialState] /\ dial'[n] = d
      /\ \A m \in Nodes : m # n => dial'[m] = dial[m]
  BY <1>1 DEF DialInv
<1>3. ASSUME NEW m \in Nodes PROVE AbleOf(m, dial[m])'
  <2>1. PICK e : e = dial'[m]
    OBVIOUS
  <2>2. AbleOf(m, e)
    BY <1>1, <1>2, <2>1 DEF DialInv, AbleInv
  <2>3. AbleOf(m, e)'
    BY <2>2, AbleGrows
  <2> QED
    BY <2>1, <2>3 DEF AbleOf, FindNode, Accepts, Has
<1>4. "failed" \notin Asking
  BY DEF Asking
<1>5. ASSUME NEW m \in Nodes, dial[m].at \in Asking, dial'[m].at = "failed"
      PROVE  dial'[m].able = {}
  BY <1>1, <1>2, <1>4, <1>5
<1> QED
  BY <1>2, <1>3, <1>5 DEF DialInv, AbleInv

\* The dials there are of a node that has none.
LEMMA NoDialFacts ==
  /\ NoDial \in DialState /\ NoDial.at = "none"
  /\ \A t \in Nodes \union {"none"}, x \in {"connect", "connected", "failed"} :
       LET d == [NoDial EXCEPT !.to = t, !.at = x] IN
       d \in DialState /\ d.at = x /\ d.able = {}
<1>1. NoDial \in DialState /\ NoDial.at = "none"
  BY DEF NoDial, DialState
<1>2. ASSUME NEW t \in Nodes \union {"none"}, NEW x \in {"connect", "connected", "failed"}
      PROVE  /\ [NoDial EXCEPT !.to = t, !.at = x] \in DialState
             /\ [NoDial EXCEPT !.to = t, !.at = x].at = x
             /\ [NoDial EXCEPT !.to = t, !.at = x].able = {}
  BY DEF NoDial, DialState
<1> QED
  BY <1>1, <1>2

\* Asking: all block producers that can tell are among those to ask.
LEMMA AskFacts ==
  ASSUME NEW n \in Nodes, NEW t \in Nodes, NEW at \in {"key", "addr"}
  PROVE  Ask(n, t, at) \in DialState /\ AbleOf(n, Ask(n, t, at))
<1>1. PICK s : s = Able(n, t)
  OBVIOUS
<1>2. s \subseteq BPs /\ \A b \in s : FindNode(b, n, t)
  BY <1>1 DEF Able
<1>3. PICK d : d = [to |-> t, at |-> at, left |-> BPs, able |-> s]
  OBVIOUS
<1>4. d \in DialState
  BY <1>2, <1>3 DEF DialState, Asking
<1>5. d.to = t /\ d.at = at /\ d.left = BPs /\ d.able = s /\ at # "accept"
  BY <1>3
<1>6. AbleOf(n, d)
  BY <1>2, <1>5 DEF AbleOf
<1>7. Ask(n, t, at) = d
  BY <1>1, <1>3 DEF Ask
<1> QED
  BY <1>4, <1>6, <1>7

\* The same of the server that asks for the key of its client.
LEMMA AcceptFacts ==
  ASSUME NEW n \in Nodes, NEW t \in Nodes \union {"none"}
  PROVE  /\ [Ask(t, n, "accept") EXCEPT !.to = t] \in DialState
         /\ AbleOf(n, [Ask(t, n, "accept") EXCEPT !.to = t])
<1>1. PICK s : s = Able(t, n)
  OBVIOUS
<1>2. s \subseteq BPs /\ \A b \in s : FindNode(b, t, n)
  BY <1>1 DEF Able
<1>3. PICK d : d = [to |-> t, at |-> "accept", left |-> BPs, able |-> s]
  OBVIOUS
<1>4. d \in DialState
  BY <1>2, <1>3 DEF DialState, Asking
<1>5. d.to = t /\ d.at = "accept" /\ d.left = BPs /\ d.able = s
  BY <1>3
<1>6. AbleOf(n, d)
  BY <1>2, <1>5 DEF AbleOf
<1>7. [Ask(t, n, "accept") EXCEPT !.to = t] = d
  BY <1>1, <1>3, SMT DEF Ask
<1> QED
  BY <1>4, <1>6, <1>7

\* DialEx: with what is known already, or by asking.
LEMMA DialExDials ==
  ASSUME NEW n \in Nodes, NEW t \in Nodes, DialEx(n, t)
  PROVE  Dialled(n)
<1>1. dial[n].at \in {"none", "failed", "connected"}
      /\ dial' = [dial EXCEPT ![n] = GetSharedSecretWith(n, t)]
  BY DEF DialEx
<1>2. dial[n].at \notin Asking /\ "connect" \notin Asking
  BY <1>1 DEF Asking
<1>3. PICK d : d = GetSharedSecretWith(n, t)
  OBVIOUS
<1>4. \/ d = [NoDial EXCEPT !.to = t, !.at = "connect"]
      \/ d = Ask(n, t, "addr") \/ d = Ask(n, t, "key")
  BY <1>3 DEF GetSharedSecretWith, GetNodeAddr
<1>5. d \in DialState /\ AbleOf(n, d)
  <2>1. CASE d = [NoDial EXCEPT !.to = t, !.at = "connect"]
    <3>1. d \in DialState /\ d.at = "connect"
      BY <2>1, NoDialFacts
    <3> QED
      BY <3>1, <1>2 DEF AbleOf
  <2>2. CASE d = Ask(n, t, "addr") \/ d = Ask(n, t, "key")
    <3>1. PICK at \in {"key", "addr"} : d = Ask(n, t, at)
      BY <2>2
    <3>2. Ask(n, t, at) \in DialState /\ AbleOf(n, Ask(n, t, at))
      BY AskFacts
    <3> QED
      BY <3>1, <3>2
  <2> QED
    BY <1>4, <2>1, <2>2
<1>6. dial' = [dial EXCEPT ![n] = d]
  BY <1>1, <1>3
<1> QED
  BY <1>2, <1>5, <1>6 DEF Dialled

\* The handshakes: the server may have to ask for the key of its client.
LEMMA ConnectDials ==
  ASSUME DialInv, NEW n \in Nodes, Connect(n)
  PROVE  Dialled(n)
<1>0. PICK t : t = dial[n].to
  OBVIOUS
<1>1. /\ dial[n].at = "connect"
      /\ dial' = [dial EXCEPT ![n] =
           IF cache[n][t] # addr[t] THEN [NoDial EXCEPT !.to = t, !.at = "failed"]
           ELSE IF GetPublicKey(t, n) THEN [NoDial EXCEPT !.to = t, !.at = "connected"]
           ELSE [Ask(t, n, "accept") EXCEPT !.to = t]]
  BY <1>0 DEF Connect
<1>2. "connect" \notin Asking /\ "failed" \notin Asking /\ "connected" \notin Asking
  BY DEF Asking
<1>3. t \in Nodes \union {"none"}
  BY <1>0 DEF DialInv, DialState
<1>4. PICK d : /\ dial' = [dial EXCEPT ![n] = d]
               /\ \/ d = [NoDial EXCEPT !.to = t, !.at = "failed"]
                  \/ d = [NoDial EXCEPT !.to = t, !.at = "connected"]
                  \/ d = [Ask(t, n, "accept") EXCEPT !.to = t]
  BY <1>1
<1>5. d \in DialState /\ AbleOf(n, d)
  <2>1. CASE \/ d = [NoDial EXCEPT !.to = t, !.at = "failed"]
             \/ d = [NoDial EXCEPT !.to = t, !.at = "connected"]
    <3>1. d \in DialState /\ (d.at = "failed" \/ d.at = "connected")
      BY <2>1, <1>3, NoDialFacts
    <3> QED
      BY <3>1, <1>2 DEF AbleOf
  <2>2. CASE d = [Ask(t, n, "accept") EXCEPT !.to = t]
    BY <2>2, <1>3, AcceptFacts
  <2> QED
    BY <1>4, <2>1, <2>2
<1> QED
  BY <1>1, <1>2, <1>4, <1>5 DEF Dialled

\* FindNodeInBP: an answer ends the dial, and so does the last refusal. A block producer
\* that refuses is not one that could have told, or has just lost a call.
LEMMA FindDials ==
  ASSUME DialInv, NEW n \in Nodes, NEW b \in BPs, FindNodeInBP(n, b)
  PROVE  Dialled(n)
<1>0. PICK e : e = dial[n]
  OBVIOUS
<1>1. /\ e \in DialState /\ AbleOf(n, e)
  BY <1>0 DEF DialInv, AbleInv
<1>2. e.at \in Asking /\ b \in e.left
  BY <1>0 DEF FindNodeInBP, Asking
<1>3. "connect" \notin Asking /\ "connected" \notin Asking /\ "failed" \notin Asking
      /\ "connect" # "failed" /\ "connected" # "failed"
  BY DEF Asking
<1>4. /\ e.to \in Nodes \union {"none"} /\ e.left \subseteq BPs /\ e.able \subseteq BPs
      /\ e.able \subseteq e.left
  BY <1>1, <1>2 DEF DialState, AbleOf
<1>5. CASE \E x \in {"connect", "connected"} :
             dial' = [dial EXCEPT ![n] = [NoDial EXCEPT !.to = e.to, !.at = x]]
  <2>1. PICK x \in {"connect", "connected"} :
          dial' = [dial EXCEPT ![n] = [NoDial EXCEPT !.to = e.to, !.at = x]]
    BY <1>5
  <2>2. PICK d : d = [NoDial EXCEPT !.to = e.to, !.at = x]
    OBVIOUS
  <2>3. d \in DialState /\ d.at = x
    BY <1>4, <2>2, NoDialFacts
  <2>4. AbleOf(n, d) /\ d.at # "failed"
    BY <1>3, <2>3 DEF AbleOf
  <2>5. dial' = [dial EXCEPT ![n] = d]
    BY <2>1, <2>2
  <2> QED
    BY <2>3, <2>4, <2>5 DEF Dialled
<1>6. ASSUME NEW able \in {e.able, e.able \ {b}},
             dial' = [dial EXCEPT ![n].left = @ \ {b}, ![n].able = able,
                        ![n].at = IF GiveUp(e.left \ {b}) THEN "failed" ELSE e.at],
             Refused(n, b)
      PROVE  Dialled(n)
  <2>1. PICK x \in {"failed", e.at} : x = IF GiveUp(e.left \ {b}) THEN "failed" ELSE e.at
    OBVIOUS
  <2>2. PICK d : d = [e EXCEPT !.left = e.left \ {b}, !.able = able, !.at = x]
    OBVIOUS
  <2>3. dial' = [dial EXCEPT ![n] = d]
    BY <1>0, <1>6, <2>1, <2>2
  <2>4. d.left = e.left \ {b} /\ d.able = able /\ d.at = x /\ d.to = e.to
    BY <1>1, <2>2 DEF DialState
  <2>5. e.left \ {b} \subseteq BPs /\ able \subseteq BPs
    BY <1>4
  <2>6. d \in DialState
    BY <1>1, <1>2, <2>1, <2>2, <2>5 DEF DialState
  <2>7. able \subseteq e.able /\ b \notin able
    <3>1. dial'[n] = d
      BY <2>3 DEF DialInv
    <3>2. CASE ~FindNode(b, Asker(n), Asked(n)) /\ dial[n].able = dial'[n].able
      <4>1. able = e.able
        BY <1>0, <2>4, <3>1, <3>2
      <4>2. /\ Asker(n) = IF e.at = "accept" THEN e.to ELSE n
            /\ Asked(n) = IF e.at = "accept" THEN n ELSE e.to
        BY <1>0 DEF Asker, Asked
      <4>3. b \notin e.able
        BY <1>1, <1>2, <3>2, <4>2 DEF AbleOf
      <4> QED
        BY <4>1, <4>3
    <3>3. CASE dial'[n].able = dial[n].able \ {b}
      BY <1>0, <2>4, <3>1, <3>3
    <3> QED
      BY <1>6, <3>2, <3>3 DEF Refused
  <2>8. able \subseteq e.left \ {b}
    BY <1>4, <2>7
  <2>9. CASE GiveUp(e.left \ {b})
    <3>1. d.at = "failed" /\ d.able = {}
      BY <2>1, <2>4, <2>8, <2>9 DEF GiveUp
    <3>2. AbleOf(n, d)
      BY <1>3, <3>1 DEF AbleOf
    <3> QED
      BY <2>3, <2>6, <3>1, <3>2 DEF Dialled
  <2>10. CASE ~GiveUp(e.left \ {b})
    <3>1. d.at = e.at
      BY <2>1, <2>4, <2>10
    <3>2. AbleOf(n, d)
      BY <1>1, <1>2, <2>4, <2>7, <2>8, <3>1 DEF AbleOf
    <3>3. d.at # "failed"
      BY <1>2, <1>3, <3>1
    <3> QED
      BY <2>3, <2>6, <3>2, <3>3 DEF Dialled
  <2> QED
    BY <2>9, <2>10
<1> QED
  <2>1. CASE dial' = [dial EXCEPT ![n] =
               [NoDial EXCEPT !.to = e.to,
                              !.at = IF e.at = "accept" THEN "connected" ELSE "connect"]]
    BY <1>5, <2>1
  <2>2. CASE /\ \E able \in {e.able, e.able \ {b}} :
                  dial' = [dial EXCEPT ![n].left = @ \ {b}, ![n].able = able,
                             ![n].at = IF GiveUp(e.left \ {b}) THEN "failed" ELSE e.at]
             /\ Refused(n, b)
    BY <1>6, <2>2
  <2> QED
    BY <1>0, <2>1, <2>2 DEF FindNodeInBP

\* The steps of the directory: who could tell can tell, and a lookup fails only when nobody
\* could.
LEMMA DirStepDials ==
  ASSUME RingInv, DialInv, DirStep
  PROVE  /\ DialInv'
         /\ \A m \in Nodes : dial[m].at \in Asking /\ dial'[m].at = "failed"
                               => dial'[m].able = {}
<1>0. "failed" \notin Asking /\ "none" \notin Asking /\ "none" # "failed"
  BY DEF Asking
<1>1. up \subseteq BPs /\ DOMAIN store = BPs /\ DOMAIN circle = BPs
  BY DEF RingInv, RingType
<1> DEFINE Honest == \A m \in Nodes : dial[m].at \in Asking /\ dial'[m].at = "failed"
                                        => dial'[m].able = {}
<1>2. dial' = dial => Honest
  BY <1>0
<1>3. ASSUME NEW b \in BPs, AddEnds(b) PROVE DialInv' /\ Honest
  <2>1. /\ dial' = dial /\ up' = up /\ store' = store
        /\ circle' = [circle EXCEPT ![b] = SetNode(circle[b], adding[b].node, adding[b].addr)]
    BY <1>3 DEF AddEnds, AddCache
  <2>2. \A c \in BPs : DOMAIN circle[c] \subseteq DOMAIN circle'[c]
    BY <1>1, <2>1 DEF SetNode
  <2> QED
    BY <1>1, <1>2, <2>1, <2>2, NobodyDials
<1>4. ASSUME NEW b \in BPs, CrashBP(b) PROVE DialInv' /\ Honest
  <2>1. /\ dial' = [n \in Nodes |-> [dial[n] EXCEPT !.able = dial[n].able \ {b}]]
        /\ up' = up \ {b} /\ store' = store /\ circle' = [circle EXCEPT ![b] = <<>>]
    BY <1>4 DEF CrashBP, Unable
  <2>2. \A c \in BPs \ {b} : circle'[c] = circle[c]
    BY <1>1, <2>1
  <2>3. ASSUME NEW n \in Nodes
        PROVE  dial'[n] \in DialState /\ dial'[n].at = dial[n].at /\ AbleOf(n, dial[n])'
    <3>1. PICK d : d = dial[n]
      OBVIOUS
    <3>2. d \in DialState /\ AbleOf(n, d) /\ d.able \subseteq BPs
      BY <3>1 DEF DialInv, AbleInv, DialState
    <3>3. PICK e : e = [d EXCEPT !.able = d.able \ {b}]
      OBVIOUS
    <3>4. e \in DialState /\ e.to = d.to /\ e.at = d.at /\ e.left = d.left /\ e.able = d.able \ {b}
      BY <3>2, <3>3 DEF DialState
    <3>5. AbleOf(n, e)
      BY <3>2, <3>4 DEF AbleOf
    <3>6. \A c \in e.able \intersect up : c \in up' /\ circle'[c] = circle[c] /\ store'[c] = store[c]
      BY <2>1, <2>2, <3>2, <3>4
    <3>7. AbleOf(n, e)'
      BY <3>5, <3>6, AbleGrows
    <3>8. e = dial'[n]
      BY <2>1, <3>1, <3>3
    <3>9. AbleOf(n, dial[n])'
      BY <3>7, <3>8 DEF AbleOf, FindNode, Accepts, Has
    <3> QED
      BY <3>1, <3>4, <3>8, <3>9
  <2>4. dial' \in [Nodes -> DialState]
    BY <2>1, <2>3
  <2>5. Honest
    BY <1>0, <2>3
  <2> QED
    BY <2>3, <2>4, <2>5 DEF DialInv, AbleInv
<1>5. ASSUME NEW b \in BPs, InitConsistent(b) PROVE DialInv' /\ Honest
  <2>1. /\ dial' = dial /\ b \notin up /\ up' = up \union {b}
        /\ store' = [store EXCEPT ![b] = InitPublicKeyStore(b)]
        /\ circle' = [circle EXCEPT ![b] = InitPublicKeyStore(b)]
    BY <1>5 DEF InitConsistent, nodeVars
  <2>2. \A c \in BPs \ {b} : circle'[c] = circle[c] /\ store'[c] = store[c]
    BY <1>1, <2>1
  <2>3. \A c \in up : c \in up' /\ circle'[c] = circle[c] /\ store'[c] = store[c]
    BY <1>1, <2>1, <2>2
  <2> QED
    BY <1>2, <2>1, <2>3, NobodyDials
<1>6. ASSUME NEW n \in Nodes, NEW b \in BPs, Ping(n, b) PROVE DialInv' /\ Honest
  <2>1. /\ dial' = dial /\ up' = up /\ circle' = circle
        /\ store' = [store EXCEPT ![b] = SetNode(store[b], n, addr[n])]
    BY <1>6 DEF Ping, nodeVars
  <2>2. \A c \in BPs : DOMAIN store[c] \subseteq DOMAIN store'[c]
    BY <1>1, <2>1 DEF SetNode
  <2> QED
    BY <1>1, <1>2, <2>1, <2>2, NobodyDials
<1>7. ASSUME NEW n \in Nodes, NEW b \in BPs,
             RegisterNodeToBP(n) \/ PingFails(n, b) \/ registerNode(n, b) \/ GetCurrentBP(n, b)
      PROVE  DialInv' /\ Honest
  <2>1. dial' = dial /\ up' = up /\ circle' = circle /\ store' = store
    BY <1>7 DEF RegisterNodeToBP, PingFails, registerNode, GetCurrentBP, bpVars
  <2> QED
    BY <1>2, <2>1, NobodyDials
<1>8. ASSUME NEW n \in Nodes, Move(n) PROVE DialInv' /\ Honest
  <2>1. /\ dial' = [dial EXCEPT ![n] = NoDial] /\ UNCHANGED <<up, store, circle>>
    BY <1>8 DEF Move, bpVars
  <2>2. Dialled(n)
    BY <1>0, <2>1, NoDialFacts DEF Dialled, AbleOf
  <2> QED
    BY <2>1, <2>2, SomebodyDials
<1>9. ASSUME NEW n \in Nodes, NEW t \in Nodes, DialEx(n, t) PROVE DialInv' /\ Honest
  <2>1. UNCHANGED <<up, store, circle>>
    BY <1>9 DEF DialEx, bpVars
  <2> QED
    BY <1>9, <2>1, DialExDials, SomebodyDials
<1>10. ASSUME NEW n \in Nodes, Connect(n) PROVE DialInv' /\ Honest
  <2>1. UNCHANGED <<up, store, circle>>
    BY <1>10 DEF Connect, bpVars
  <2> QED
    BY <1>10, <2>1, ConnectDials, SomebodyDials
<1>11. ASSUME NEW n \in Nodes, NEW b \in BPs, FindNodeInBP(n, b) PROVE DialInv' /\ Honest
  <2>1. UNCHANGED <<up, store, circle>>
    BY <1>11 DEF FindNodeInBP, bpVars
  <2> QED
    BY <1>11, <2>1, FindDials, SomebodyDials
<1>12. \E b : b \in BPs
  BY DirectoryAssumption
<1> HIDE DEF Honest
<1>13. DialInv' /\ Honest
  BY <1>3, <1>4, <1>5, <1>6, <1>7, <1>8, <1>9, <1>10, <1>11, <1>12, DirSteps
<1> QED
  BY <1>13 DEF Honest

\* A step that is none of the directory.
LEMMA OtherStepDials ==
  ASSUME DialInv, UNCHANGED dirVars
  PROVE  /\ DialInv'
         /\ \A m \in Nodes : dial[m].at \in Asking /\ dial'[m].at = "failed"
                               => dial'[m].able = {}
<1>1. dial' = dial /\ up' = up /\ store' = store /\ circle' = circle
  BY DEF dirVars
<1>2. "failed" \notin Asking
  BY DEF Asking
<1> QED
  BY <1>1, <1>2, NobodyDials

\* The dials of every behaviour.
LEMMA DialInvariant ==
  Spec => []DialInv
<1>1. Init => DialInv
  <2> SUFFICES ASSUME Init PROVE DialInv
    OBVIOUS
  <2>1. dial = [n \in Nodes |-> NoDial]
    BY DEF Init, DirInit
  <2>2. NoDial \in DialState /\ NoDial.at \notin Asking
    BY NoDialFacts DEF Asking
  <2> QED
    BY <2>1, <2>2 DEF DialInv, AbleInv, AbleOf
<1>2. RingInv /\ DialInv /\ [Next]_vars => DialInv'
  BY DirStepDials, OtherStepDials DEF Next, vars
<1> QED
  BY <1>1, <1>2, RingInvariant, PTL DEF Spec

\* FindNodeInBP gives up only when none of the block producers could have told all the time
\* it asked, whatever is added, moves, crashes or is lost in between.
THEOREM Lookups ==
  Spec => LookupFails
<1>1. RingInv /\ DialInv /\ [Next]_vars =>
        [\A n \in scenario.diallers :
           dial[n].at \in {"key", "addr", "accept"} /\ dial'[n].at = "failed"
             => dial'[n].able = {}]_vars
  <2> SUFFICES ASSUME RingInv, DialInv, [Next]_vars
               PROVE  \A n \in scenario.diallers :
                        dial[n].at \in {"key", "addr", "accept"} /\ dial'[n].at = "failed"
                          => dial'[n].able = {}
    OBVIOUS
  <2>1. scenario.diallers \subseteq Nodes
    BY ScenarioNodes
  <2>2. \A m \in Nodes : dial[m].at \in Asking /\ dial'[m].at = "failed"
                           => dial'[m].able = {}
    BY DirStepDials, OtherStepDials DEF Next, vars
  <2> QED
    BY <2>1, <2>2 DEF Asking
<1> QED
  BY <1>1, RingInvariant, DialInvariant, PTL DEF Spec, LookupFails

=============================================================================
