------------------------------- MODULE Pool -------------------------------
(***************************************************************************)
(* Calls to one node, and the pools of physical connections they share:    *)
(* the free list of a ClientPool ("direct"), where a connection has one    *)
(* user at a time, or the Session of a SessionPool ("mux"), whose          *)
(* connections carry a stream for every user.                              *)
(*                                                                         *)
(* A user is a PersistentCaller, a Caller that takes a client for one call *)
(* ("once"), or a Caller of DHT.Ping, which connects anonymously and       *)
(* outside the pools. No two goroutines of the program share a             *)
(* PersistentCaller. Closing a stream has no effect on its connection.     *)
(***************************************************************************)
EXTENDS Integers, Sequences, FiniteSets, Functions

CONSTANTS Users,
          Conns,          \* bound: numbers for the connections in use at a time
          FreeCap,        \* MaxRPCPoolPhysicalConnection
          MaxPhysical     \* MaxRPCMuxPoolPhysicalConnection

ASSUME PoolAssumption == {FreeCap, MaxPhysical} \union Conns \subseteq Nat \ {0}

VARIABLES
  pool,     \* "direct" or "mux"
  role,     \* the kind of each user
  wire,     \* the state of a connection: "up", "broken", "noticed" as such, or "closed"
  free,     \* freelist.freeCh
  sess,     \* Session.sess
  offset,   \* Session.offset
  client,   \* the client of a user
  user,     \* where a user is, and how its last call ended
  troubles  \* bound: how many more things may go wrong

poolVars == <<pool, role, wire, free, sess, offset, client, user, troubles>>

None == [raw |-> 0, lastErr |-> FALSE, shutdown |-> FALSE]

PoolInit ==
  /\ wire = [i \in Conns |-> "closed"] /\ free = <<>> /\ sess = <<>> /\ offset = 0
  /\ client = [u \in Users |-> None]
  /\ user = [u \in Users |-> [at |-> "idle", last |-> "none"]]

Trouble == troubles > 0 /\ troubles' = troubles - 1
Fine == UNCHANGED troubles

Dead(i) == wire[i] \in {"noticed", "closed"}
InUse == {client[u].raw : u \in Users} \ {0}
Known == Range(free) \union Range(sess) \union InUse
At(u, at, last) == user' = [user EXCEPT ![u] = [at |-> at, last |-> last]]

--------------------------------------------------------------------------
(* The pools *)

\* The numbers nobody knows of any more, and that of the next connection.
Spare == {i \in Conns \ Known : Dead(i)}
Fresh == CHOOSE i \in Spare : TRUE

\* A client for u is on a new connection.
Dial(u) ==
  /\ Spare # {}
  /\ wire' = [wire EXCEPT ![Fresh] = "up"]
  /\ client' = [client EXCEPT ![u] = [None EXCEPT !.raw = Fresh]]

\* Mutant: a connection that is taken stays in the list.
freelistKeep(u) ==
  IF free # <<>>
  THEN /\ client' = [client EXCEPT ![u] = [None EXCEPT !.raw = Head(free)]]
       /\ UNCHANGED <<wire, free, sess, offset>>
  ELSE Dial(u) /\ UNCHANGED <<free, sess, offset>>

\* freelist.get: a free connection, whatever its state, or a new one.
freelistGet(u) ==
  IF free # <<>>
  THEN /\ free' = Tail(free)
       /\ client' = [client EXCEPT ![u] = [None EXCEPT !.raw = Head(free)]]
       /\ UNCHANGED <<wire, sess, offset>>
  ELSE Dial(u) /\ UNCHANGED <<free, sess, offset>>

\* The offset of the next session.
NextOffset == (offset + 1) % MaxPhysical

Upto(s, n) == SubSeq(s, 1, IF n < Len(s) THEN n ELSE Len(s))

\* Session.Get: the session at the next offset, after those there that are seen to be dead
\* are taken out, or a new one.
sessionGet(u) ==
  LET o     == NextOffset
      rest  == SubSeq(sess, o + 1, Len(sess))
      alive == {i \in 1..Len(rest) : ~Dead(rest[i])}
      kept  == Upto(sess, o)
  IN \/ \E i \in alive :
          /\ \A j \in alive : i <= j
          /\ sess' = kept \o SubSeq(rest, i, Len(rest))
          /\ offset' = o
          /\ client' = [client EXCEPT ![u] = [None EXCEPT !.raw = rest[i]]]
          /\ UNCHANGED <<wire, free>>
     \/ /\ alive = {}
        /\ sess' = Append(kept, Fresh)
        /\ offset' = Len(kept)
        /\ Dial(u) /\ UNCHANGED free

\* GetEx of either pool: an anonymous call has a connection of its own.
OneOff(u) == Dial(u) /\ UNCHANGED <<free, sess, offset>>
ClientPoolGetEx(u) == IF role[u] = "anonymous" THEN OneOff(u) ELSE freelistGet(u)
SessionPoolGetEx(u) == IF role[u] = "anonymous" THEN OneOff(u) ELSE sessionGet(u)

\* DialToNodeWithPool.
DialToNodeWithPool(u) ==
  IF pool = "direct" THEN ClientPoolGetEx(u) ELSE SessionPoolGetEx(u)

\* It has to dial, and that fails, or no stream opens because the new connection is dead
\* already; GetEx leaves that one open, and nobody has it. In a Session the dead ones are
\* gone all the same.
DialFails(u) ==
  LET o == NextOffset IN
  /\ Trouble
  /\ \/ role[u] = "anonymous" /\ UNCHANGED <<sess, offset>>
     \/ role[u] # "anonymous" /\ pool = "direct" /\ free = <<>> /\ UNCHANGED <<sess, offset>>
     \/ /\ role[u] # "anonymous" /\ pool = "mux"
        /\ \A i \in (o + 1)..Len(sess) : Dead(sess[i])
        /\ sess' = Upto(sess, o) /\ offset' = o
  /\ UNCHANGED <<wire, free>>

\* freelist.put: a full list closes the connection.
put(i) ==
  IF Len(free) < FreeCap THEN free' = Append(free, i) /\ UNCHANGED wire
  ELSE wire' = [wire EXCEPT ![i] = "closed"] /\ UNCHANGED free

\* Close of the client of u, which had an error or not. oneOffMuxConn.Close leaves a dead
\* connection open when it cannot close the stream; nobody has it then either.
CloseClient(u, err) ==
  LET i == client[u].raw IN
  \/ /\ role[u] = "anonymous" \/ (pool = "direct" /\ err)
     /\ wire' = [wire EXCEPT ![i] = "closed"] /\ UNCHANGED free
  \/ role[u] # "anonymous" /\ pool = "direct" /\ ~err /\ put(i)
  \/ role[u] # "anonymous" /\ pool = "mux" /\ UNCHANGED <<wire, free>>

--------------------------------------------------------------------------
(* Calls *)

\* A call begins: initClient of a PersistentCaller, or DialToNodeWithPool of a Caller.
BeginCall(u) ==
  /\ user[u].at = "idle"
  /\ \/ /\ client[u].raw # 0 /\ At(u, "call", user[u].last)
        /\ Fine /\ UNCHANGED <<wire, free, sess, offset, client>>
     \/ /\ client[u].raw = 0 /\ DialToNodeWithPool(u)
        /\ At(u, "call", user[u].last) /\ Fine
     \/ /\ client[u].raw = 0 /\ DialFails(u)
        /\ At(u, "idle", "error") /\ UNCHANGED client
  /\ UNCHANGED <<pool, role>>

\* The end of a call: a Caller closes its client, a PersistentCaller keeps it.
Finish(u, err, shutdown, last) ==
  /\ At(u, "idle", last)
  /\ IF role[u] = "persistent"
     THEN /\ client' = [client EXCEPT ![u].lastErr = @ \/ err, ![u].shutdown = shutdown]
          /\ UNCHANGED <<wire, free>>
     ELSE /\ client' = [client EXCEPT ![u] = None]
          /\ CloseClient(u, client[u].lastErr \/ err)
  /\ UNCHANGED <<pool, role, sess, offset>>

\* It returns, with an error of the node perhaps.
CallOk(u) ==
  /\ user[u].at = "call" /\ wire[client[u].raw] = "up"
  /\ \/ Finish(u, FALSE, FALSE, "ok") /\ Fine
     \/ Finish(u, TRUE, FALSE, "ok") /\ Trouble

\* The context of a CallNodeWithContext ends first.
CallTimeout(u) ==
  /\ user[u].at = "call" /\ role[u] = "once"
  /\ Finish(u, FALSE, FALSE, "error") /\ Trouble

\* The connection is broken, but the error of the pending call may not say so: the client is
\* kept, and its next call ends with rpc.ErrShutdown.
CallOther(u) ==
  /\ user[u].at = "call" /\ wire[client[u].raw] # "up" /\ ~client[u].shutdown
  /\ Finish(u, TRUE, TRUE, "error") /\ Fine

\* Mutant: the client is kept.
ResetNot(u) == At(u, "idle", "error") /\ UNCHANGED <<wire, free, client>>

\* ResetClient.
ResetClient(u) ==
  /\ At(u, "reset", "error")
  /\ CloseClient(u, TRUE) /\ client' = [client EXCEPT ![u] = None]

\* The error says so: a PersistentCaller resets its client.
CallEOF(u) ==
  /\ user[u].at = "call" /\ wire[client[u].raw] # "up"
  /\ IF role[u] = "persistent" THEN ResetClient(u) /\ UNCHANGED <<pool, role, sess, offset>>
     ELSE Finish(u, TRUE, TRUE, "error")
  /\ Fine

\* It connects again, or tries to, and returns the error.
Reconnect(u) ==
  /\ user[u].at = "reset" /\ At(u, "idle", "error")
  /\ \/ DialToNodeWithPool(u) /\ Fine
     \/ DialFails(u) /\ UNCHANGED client
  /\ UNCHANGED <<pool, role>>

\* Close of a PersistentCaller.
CloseCaller(u) ==
  /\ user[u].at = "idle" /\ role[u] = "persistent" /\ client[u].raw # 0
  /\ Trouble
  /\ At(u, "closed", user[u].last)
  /\ CloseClient(u, client[u].lastErr) /\ client' = [client EXCEPT ![u] = None]
  /\ UNCHANGED <<pool, role, sess, offset>>

\* A connection breaks, and later the session notices.
Break(i) ==
  /\ wire[i] = "up" /\ Trouble
  /\ wire' = [wire EXCEPT ![i] = "broken"]
  /\ UNCHANGED <<pool, role, free, sess, offset, client, user>>

Notice(i) ==
  /\ wire[i] = "broken" /\ Fine
  /\ wire' = [wire EXCEPT ![i] = "noticed"]
  /\ UNCHANGED <<pool, role, free, sess, offset, client, user>>

PoolNext ==
  \/ \E u \in Users : \/ BeginCall(u) \/ CallOk(u) \/ CallTimeout(u) \/ CallOther(u)
                      \/ CallEOF(u) \/ Reconnect(u) \/ CloseCaller(u)
  \/ \E i \in Conns : Break(i) \/ Notice(i)
=============================================================================
