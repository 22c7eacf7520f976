------------------------------- MODULE Conn -------------------------------
(***************************************************************************)
(* Connections of the client driver. A thread of the application opens a   *)
(* connection, writes and reads through it, inside transactions or not,    *)
(* and closes it. Every request takes a connection id and a sequence       *)
(* number shared by all threads; the miner that leads the database checks  *)
(* the sequence of an id before it executes a write. A call may fail while *)
(* its request is still on its way or in work.                             *)
(*                                                                         *)
(* A write is a value of its own, and a unit of work the writes that are   *)
(* to be executed as one. database/sql gives a connection to one thread at *)
(* a time and ends a transaction before it closes the connection.          *)
(***************************************************************************)
EXTENDS Integers, Sequences, FiniteSets, Functions

CONSTANTS Threads,
          Peers,      \* what newConn connects to, of {"leader", "follower"}
          Workers,    \* workerCount, of each peer connection
          AckCap      \* capacity of ackCh

ASSUME ConnAssumption ==
  /\ Peers # {} /\ Peers \subseteq {"leader", "follower"}
  /\ {Workers, AckCap} \subseteq Nat \ {0}

VARIABLES
  connIDAvail,  \* ids that can be used again
  drawn,        \* how many ids have been drawn
  conn,         \* the connection of a thread
  request,      \* the requests, by their sequence number
  connSeqs,     \* Database.connSeqs of the leader
  applied,      \* the units the leader executed, in order
  ackCh,        \* the acks in the channel of a peer connection
  working,      \* the acks its workers are sending
  acked,        \* the requests whose ack was sent, or dropped after an error
  units,        \* the units of a thread so far, and how they ended
  lowered,      \* the ids whose recorded sequence number went down
  faults        \* bound: how many more calls may fail, or be refused for their time

connVars == <<connIDAvail, drawn, conn, request, connSeqs, applied, ackCh, working, acked,
              units, lowered, faults>>
netVars == <<connSeqs, applied, lowered>>
ackVars == <<ackCh, working, acked>>

NoConn == [at |-> "none", inTransaction |-> FALSE, queries |-> <<>>, call |-> 0]

ConnInit ==
  /\ connIDAvail = <<>> /\ drawn = 0
  /\ conn = [t \in Threads |-> NoConn]
  /\ request = <<>>
  /\ connSeqs = <<>> /\ applied = <<>>
  /\ ackCh = [t \in Threads |-> [p \in Peers |-> <<>>]]
  /\ working = [t \in Threads |-> [p \in Peers |-> {}]]
  /\ acked = {}
  /\ units = [t \in Threads |-> <<>>]
  /\ lowered = {}

Idle(t) == conn[t].at = "open"
End(t, writes, how) == units' = [units EXCEPT ![t] = Append(@, [writes |-> writes, how |-> how])]

\* A write no thread has made before.
NewWrite(t) == <<t, Len(units[t]), Len(conn[t].queries)>>

--------------------------------------------------------------------------
(* Sending *)

\* newConn.
newConn(t) ==
  /\ conn[t].at = "none"
  /\ conn' = [conn EXCEPT ![t].at = "open"]
  /\ UNCHANGED <<connIDAvail, drawn, request, netVars, ackVars, units, faults>>

\* The peer connection sendQuery uses: the follower for reads, if there is one.
Target(queryType) ==
  IF "follower" \in Peers /\ (queryType = "read" \/ "leader" \notin Peers)
  THEN "follower" ELSE "leader"

\* allocateConnAndSeq: the first available id, or a new random one. The sequence number is
\* the next index of request.
allocateConnAndSeq ==
  IF connIDAvail = <<>>
  THEN [id |-> drawn + 1, avail |-> <<>>, drawn |-> drawn + 1]
  ELSE [id |-> Head(connIDAvail), avail |-> Tail(connIDAvail), drawn |-> drawn]

\* sendQuery up to the call.
sendQuery(t, queryType, queries) ==
  LET a == allocateConnAndSeq IN
  /\ connIDAvail' = a.avail /\ drawn' = a.drawn
  /\ request' = Append(request, [id |-> a.id, type |-> queryType, queries |-> queries,
                                 target |-> Target(queryType), by |-> t, at |-> "wire",
                                 late |-> FALSE])
  /\ conn' = [conn EXCEPT ![t].at = "call", ![t].call = Len(request) + 1]
  /\ UNCHANGED <<netVars, ackVars, units, faults>>

\* BeginTx.
BeginTx(t) ==
  /\ Idle(t) /\ ~conn[t].inTransaction
  /\ conn' = [conn EXCEPT ![t].inTransaction = TRUE, ![t].queries = <<>>]
  /\ UNCHANGED <<connIDAvail, drawn, request, netVars, ackVars, units, faults>>

\* ExecContext, on the connection or on a statement: in a transaction the write is kept.
ExecContext(t) ==
  /\ Idle(t)
  /\ IF conn[t].inTransaction
     THEN /\ conn' = [conn EXCEPT ![t].queries = Append(@, NewWrite(t))]
          /\ UNCHANGED <<connIDAvail, drawn, request, netVars, ackVars, units, faults>>
     ELSE sendQuery(t, "write", <<NewWrite(t)>>)

\* QueryContext: in a transaction it fails.
QueryContext(t) ==
  /\ Idle(t) /\ ~conn[t].inTransaction
  /\ sendQuery(t, "read", <<>>)

\* The end of a transaction, in Commit and Rollback.
Over(t) == [conn[t] EXCEPT !.at = "open", !.inTransaction = FALSE, !.queries = <<>>,
                           !.call = 0]

\* Commit of a transaction, which sends its writes if there are any.
Commit(t) ==
  /\ Idle(t) /\ conn[t].inTransaction
  /\ IF conn[t].queries # <<>> THEN sendQuery(t, "write", conn[t].queries)
     ELSE /\ conn' = [conn EXCEPT ![t] = Over(t)]
          /\ UNCHANGED <<connIDAvail, drawn, request, netVars, ackVars, units, faults>>

\* Rollback.
Rollback(t) ==
  /\ Idle(t) /\ conn[t].inTransaction
  /\ End(t, conn[t].queries, "rollback")
  /\ conn' = [conn EXCEPT ![t] = Over(t)]
  /\ UNCHANGED <<connIDAvail, drawn, request, netVars, ackVars, faults>>

--------------------------------------------------------------------------
(* The leader of the database *)

Recorded(id) == IF id \in DOMAIN connSeqs THEN connSeqs[id] ELSE 0

\* Another write of the id, with a higher number, has been recorded.
Overtaken(s) ==
  \E r \in (s + 1)..Len(request) : /\ request[r].id = request[s].id
                                   /\ request[r].type = "write"
                                   /\ request[r].at \in {"recorded", "done", "failed"}

Step(s, at) == request' = [request EXCEPT ![s].at = at]

\* Mutant: any number passes.
verifyNothing(s) == TRUE

\* verifySequence.
verifySequence(s) == s > Recorded(request[s].id)

\* Check: a write at the leader passes if its time and its sequence number are right. A
\* follower refuses it.
Check(s) ==
  /\ request[s].at = "wire" /\ request[s].type = "write"
  /\ \/ /\ request[s].target = "leader" /\ verifySequence(s)
        /\ request' = [request EXCEPT ![s].at = "verified",
                         ![s].late = Overtaken(s) /\ request[s].id \notin lowered]
        /\ UNCHANGED faults
     \/ /\ request[s].target # "leader" \/ ~verifySequence(s)
        /\ Step(s, "refused") /\ UNCHANGED faults
     \/ /\ faults > 0 /\ faults' = faults - 1
        /\ Step(s, "refused")
  /\ UNCHANGED <<connIDAvail, drawn, conn, netVars, ackVars, units>>

\* recordSequence, the rest of Check.
recordSequence(s) ==
  LET id == request[s].id IN
  /\ request[s].at = "verified"
  /\ connSeqs' = [i \in DOMAIN connSeqs \union {id} |-> IF i = id THEN s ELSE connSeqs[i]]
  /\ lowered' = IF s < Recorded(id) THEN lowered \union {id} ELSE lowered
  /\ Step(s, "recorded")
  /\ UNCHANGED <<connIDAvail, drawn, conn, applied, ackVars, units, faults>>

\* A write is executed as a whole, or fails (modules Kayak and SQLChain).
Execute(s) ==
  /\ request[s].at = "recorded"
  /\ \/ Step(s, "done") /\ applied' = Append(applied, request[s].queries)
     \/ Step(s, "failed") /\ UNCHANGED applied
  /\ UNCHANGED <<connIDAvail, drawn, conn, connSeqs, lowered, ackVars, units, faults>>

\* A read is answered.
Read(s) ==
  /\ request[s].at = "wire" /\ request[s].type = "read"
  /\ Step(s, "done")
  /\ UNCHANGED <<connIDAvail, drawn, conn, netVars, ackVars, units, faults>>

--------------------------------------------------------------------------
(* The end of a call *)

\* The call of t returns: its unit has ended, the id is put back, and a transaction is
\* over.
Return(t, how) ==
  LET r == request[conn[t].call] IN
  /\ connIDAvail' = Append(connIDAvail, r.id)
  /\ IF r.type = "write" THEN End(t, r.queries, how) ELSE UNCHANGED units
  /\ conn' = [conn EXCEPT ![t] = Over(t)]

\* Mutant: an error of the miner is taken for an answer.
AnsweredAny(s) == request[s].at \in {"done", "failed", "refused"}

\* The response is no error.
Answered(s) == request[s].at = "done"

\* The error of the miner, or of the call itself: then nobody knows of the request.
CallFails(t) ==
  /\ conn[t].at = "call"
  /\ \/ request[conn[t].call].at \in {"refused", "failed"} /\ ~Answered(conn[t].call)
        /\ UNCHANGED faults
     \/ faults > 0 /\ faults' = faults - 1
  /\ Return(t, "error")
  /\ UNCHANGED <<drawn, request, netVars, ackVars>>

\* The channel can take an ack.
Room(t, p) == Len(ackCh[t][p]) < AckCap

\* The response comes: its ack goes to the workers, and the call returns.
CallReturns(t) ==
  LET s == conn[t].call
      p == request[s].target IN
  /\ conn[t].at = "call" /\ Answered(s)
  /\ Room(t, p)
  /\ ackCh' = [ackCh EXCEPT ![t][p] = Append(@, s)]
  /\ Return(t, "ok")
  /\ UNCHANGED <<drawn, request, netVars, working, acked, faults>>

--------------------------------------------------------------------------
(* Acks *)

\* ackWorker: one of the workers takes an ack.
ackWorker(t, p) ==
  /\ ackCh[t][p] # <<>> /\ Cardinality(working[t][p]) < Workers
  /\ ackCh' = [ackCh EXCEPT ![t][p] = Tail(@)]
  /\ working' = [working EXCEPT ![t][p] = @ \union {Head(ackCh[t][p])}]
  /\ UNCHANGED <<connIDAvail, drawn, conn, request, netVars, acked, units, faults>>

\* Its call to the miner ends; an error is only logged.
AckEnds(t, p) ==
  \E s \in working[t][p] :
    /\ working' = [working EXCEPT ![t][p] = @ \ {s}]
    /\ acked' = acked \union {s}
    /\ UNCHANGED <<connIDAvail, drawn, conn, request, netVars, ackCh, units, faults>>

\* The workers of a closed channel have returned: it was empty.
WorkersGone(t, p) == ackCh[t][p] = <<>> /\ working[t][p] = {}

\* Close: pconn.close closes the channel of each peer and waits for its workers.
Close(t) ==
  /\ Idle(t) /\ ~conn[t].inTransaction
  /\ conn' = [conn EXCEPT ![t].at = "closing"]
  /\ UNCHANGED <<connIDAvail, drawn, request, netVars, ackVars, units, faults>>

CloseEnds(t) ==
  /\ conn[t].at = "closing" /\ \A p \in Peers : WorkersGone(t, p)
  /\ conn' = [conn EXCEPT ![t].at = "closed"]
  /\ UNCHANGED <<connIDAvail, drawn, request, netVars, ackVars, units, faults>>
=============================================================================
