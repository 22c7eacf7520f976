-------------------------------- MODULE Kayak --------------------------------
(***************************************************************************)
(* The kayak runtime (src/kayak): one leader replicates requests to its    *)
(* followers in two phases over a write-ahead log (WAL) on every node.     *)
(*                                                                         *)
(*   Apply          on the leader, one goroutine per request: prepare log, *)
(*                  apply RPCs, then commit log or rollback log            *)
(*   followerApply  on a follower, one goroutine per apply RPC and one per *)
(*                  log a waitItem fetches from the leader                 *)
(*   commitCycle    one goroutine per node, executes commits one by one    *)
(*   readLogs       rebuilds pendingPrepares and lastCommit on a restart   *)
(*                                                                         *)
(* A log is written once, by the leader, and never changes afterwards:     *)
(* `log' holds the contents, `wal' which of them a follower has stored.    *)
(***************************************************************************)
EXTENDS Integers, FiniteSets, Sequences

CONSTANTS
  Followers,          \* peers.Servers without the leader
  Leader,             \* peers.Leader
  Reqs,               \* client requests, each the argument of one Apply call
  PrepareThreshold,   \* RuntimeConfig.PrepareThreshold, in percent
  CommitThreshold,    \* RuntimeConfig.CommitThreshold, in percent
  Expiry,             \* whether the contexts of Apply calls may expire
  MaxIndex,           \* bound: log indexes 0..MaxIndex may be allocated
  MaxCrashes,         \* bound on the crashes of each node
  MaxDrops            \* bound on failed apply RPCs

ASSUME KayakAssumption ==
  /\ IsFiniteSet(Followers)
  /\ Leader \notin Followers
  /\ PrepareThreshold \in 0..100
  /\ CommitThreshold \in 0..100
  /\ Expiry \in BOOLEAN
  /\ MaxIndex \in Nat
  /\ MaxCrashes \in Nat
  /\ MaxDrops \in Nat

VARIABLES
  log,        \* the leader's WAL: index -> log
  wal,        \* wal[f]: indexes of the logs in follower f's WAL
  status,     \* status[n]: "up", "reading" (in readLogs), "failed", "hung"
  cursor,     \* cursor[n]: WAL position of readLogs
  nextIndex,  \* nextIndex[n]
  lastCommit, \* lastCommit[n]
  pending,    \* pending[n]: pendingPrepares
  apply,      \* apply[r]: progress of Apply, its prepare and commit index
  cycle,      \* cycle[n]: commit log commitCycle is executing, or <<>>
  result,     \* result[f][i]: what the rpcTracker of log i heard from f
  handler,    \* handler[f][<<s, i>>]: followerApply of log i, from source s
  item,       \* item[f][i]: the waitItem of log i
  executed,   \* executed[n]: commit logs handed to Handler.Commit, in order
  crashes,    \* crashes[n]: how often n crashed
  drops       \* how many apply RPCs failed

walVars  == <<log, wal>>
nodeVars == <<status, cursor, nextIndex, lastCommit, pending>>
rpcVars  == <<result, drops>>
vars     == <<log, wal, status, cursor, nextIndex, lastCommit, pending, apply,
              cycle, result, handler, item, executed, crashes, drops>>

Nodes   == Followers \cup {Leader}
Index   == 0..MaxIndex
Sources == {"rpc", "fetch"}
Calls   == Sources \X Index

PrepareLog(r)         == [type |-> "prepare", req |-> r, ref |-> 0, last |-> 0]
RollbackLog(r, p)     == [type |-> "rollback", req |-> r, ref |-> p, last |-> 0]
CommitLog(r, p, lst)  == [type |-> "commit", req |-> r, ref |-> p, last |-> lst]

\* ceil(threshold * servers), at least one, without the leader.
MinFollowers(threshold) ==
  LET servers == Cardinality(Followers) + 1
      quota   == (threshold * servers + 99) \div 100
  IN  (IF quota > 1 THEN quota ELSE 1) - 1

minPreparedFollowers == MinFollowers(PrepareThreshold)
minCommitFollowers   == MinFollowers(CommitThreshold)

Commits == {i \in DOMAIN log : log[i].type = "commit"}
Wal(n)  == IF n = Leader THEN DOMAIN log ELSE wal[n]
Up(n)   == status[n] = "up"

Init ==
  /\ log        = [i \in {} |-> {}]
  /\ wal        = [f \in Followers |-> {}]
  /\ status     = [n \in Nodes |-> "up"]
  /\ cursor     = [n \in Nodes |-> 0]
  /\ nextIndex  = [n \in Nodes |-> 0]
  /\ lastCommit = [n \in Nodes |-> 0]
  /\ pending    = [n \in Nodes |-> {}]
  /\ apply      = [r \in Reqs |-> [pc |-> "new", index |-> 0, commit |-> 0]]
  /\ cycle      = [n \in Nodes |-> <<>>]
  /\ result     = [f \in Followers |-> [i \in Index |-> "none"]]
  /\ handler    = [f \in Followers |-> [h \in Calls |-> "none"]]
  /\ item       = [f \in Followers |-> [i \in Index |-> "none"]]
  /\ executed   = [n \in Nodes |-> <<>>]
  /\ crashes    = [n \in Nodes |-> 0]
  /\ drops      = 0

-----------------------------------------------------------------------------
(***************************************************************************)
(* The leader: Apply, with doLeaderPrepare, doLeaderRollback and           *)
(* doLeaderCommit.                                                         *)
(***************************************************************************)
\* newLog allocates an index under nextIndexLock, then writes the WAL.  For a
\* prepare log the two are separate steps (AllocPrepare, LogPrepare): another
\* Apply, or a crash, may come between them.  For rollback and commit logs they
\* are one step: nobody knows of such an index before its log is written.
NewLog(i, l) ==
  log' = [j \in DOMAIN log \cup {i} |-> IF j = i THEN l ELSE log[j]]

\* applyRPC: one apply RPC of log i to every follower.
applyRPC(i) ==
  handler' = [f \in Followers |-> [handler[f] EXCEPT ![<<"rpc", i>>] = "sent"]]

\* The followers the tracker of log i heard from, and those that failed.
Complete(i) == {f \in Followers : result[f][i] # "none"}
Errors(i)   == {f \in Followers : result[f][i] \in {"err", "lost"}}

MarkPrepareFinished(n, i) ==
  pending' = [pending EXCEPT ![n] = @ \ {i}]

\* doLeaderPrepare, up to the allocation of the index of the prepare log.
AllocPrepare(r) ==
  /\ Up(Leader)
  /\ apply[r].pc = "new"
  /\ nextIndex[Leader] \in Index
  /\ apply' = [apply EXCEPT ![r].pc = "logging", ![r].index = nextIndex[Leader]]
  /\ nextIndex' = [nextIndex EXCEPT ![Leader] = @ + 1]
  /\ UNCHANGED <<walVars, status, cursor, lastCommit, pending, cycle, rpcVars,
                 handler, item, executed, crashes>>

\* doLeaderPrepare: the prepare log is written, marked pending and sent.
LogPrepare(r) ==
  LET i == apply[r].index IN
  /\ apply[r].pc = "logging"
  /\ NewLog(i, PrepareLog(r))
  /\ pending' = [pending EXCEPT ![Leader] = @ \cup {i}]
  /\ applyRPC(i)
  /\ apply' = [apply EXCEPT ![r].pc = "preparing"]
  /\ UNCHANGED <<wal, status, cursor, nextIndex, lastCommit, cycle, rpcVars,
                 item, executed, crashes>>

\* Mutant: the errors of the followers that answered are ignored.
PrepareOkDespiteErrors(r) ==
  /\ apply[r].pc = "preparing"
  /\ Cardinality(Complete(apply[r].index)) >= minPreparedFollowers
  /\ apply' = [apply EXCEPT ![r].pc = "enqueue"]
  /\ UNCHANGED <<walVars, nodeVars, cycle, rpcVars, handler, item, executed,
                 crashes>>

\* Enough followers answered and none of those that did reported an error.
PrepareOk(r) ==
  LET i == apply[r].index IN
  /\ apply[r].pc = "preparing"
  /\ Cardinality(Complete(i)) >= minPreparedFollowers
  /\ Errors(i) = {}
  /\ apply' = [apply EXCEPT ![r].pc = "enqueue"]
  /\ UNCHANGED <<walVars, nodeVars, cycle, rpcVars, handler, item, executed,
                 crashes>>

\* An error, or the prepare timeout: doLeaderRollback logs and sends a rollback.
PrepareFailed(r) ==
  LET i == apply[r].index
      k == nextIndex[Leader]
  IN
  /\ apply[r].pc = "preparing"
  /\ IF Cardinality(Complete(i)) >= minPreparedFollowers
     THEN Errors(i) # {}
     ELSE Expiry
  /\ k \in Index
  /\ NewLog(k, RollbackLog(r, i))
  /\ nextIndex' = [nextIndex EXCEPT ![Leader] = k + 1]
  /\ applyRPC(k)
  /\ MarkPrepareFinished(Leader, i)
  /\ apply' = [apply EXCEPT ![r].pc = "rolledback"]
  /\ UNCHANGED <<wal, status, cursor, lastCommit, cycle, rpcVars, item, executed,
                 crashes>>

\* Mutant: a commit that times out is rolled back.
CommitTimeoutRollsBack(r) ==
  LET k == nextIndex[Leader] IN
  /\ Expiry
  /\ apply[r].pc \in {"enqueue", "await"}
  /\ k \in Index
  /\ NewLog(k, RollbackLog(r, apply[r].index))
  /\ nextIndex' = [nextIndex EXCEPT ![Leader] = k + 1]
  /\ applyRPC(k)
  /\ MarkPrepareFinished(Leader, apply[r].index)
  /\ apply' = [apply EXCEPT ![r].pc = "timeout"]
  /\ UNCHANGED <<wal, status, cursor, lastCommit, cycle, rpcVars, item, executed,
                 crashes>>

\* Mutant: a commit that times out is reported as rolled back.
CommitTimeoutAsRollback(r) ==
  /\ Expiry
  /\ apply[r].pc \in {"enqueue", "await"}
  /\ MarkPrepareFinished(Leader, apply[r].index)
  /\ apply' = [apply EXCEPT ![r].pc = "rolledback"]
  /\ UNCHANGED <<walVars, status, cursor, nextIndex, lastCommit, cycle, rpcVars,
                 handler, item, executed, crashes>>

\* The context expires before commitCycle takes the request ("enqueue commit
\* timeout") or before it is executed ("get commit result timeout").
CommitTimeout(r) ==
  /\ Expiry
  /\ apply[r].pc \in {"enqueue", "await"}
  /\ MarkPrepareFinished(Leader, apply[r].index)
  /\ apply' = [apply EXCEPT ![r].pc = "timeout"]
  /\ UNCHANGED <<walVars, status, cursor, nextIndex, lastCommit, cycle, rpcVars,
                 handler, item, executed, crashes>>

\* Mutant: commits are not serialised by one commitCycle.
LeaderLogCommitConcurrent(r) ==
  LET k == nextIndex[Leader] IN
  /\ apply[r].pc = "enqueue"
  /\ k \in Index
  /\ NewLog(k, CommitLog(r, apply[r].index, lastCommit[Leader]))
  /\ nextIndex' = [nextIndex EXCEPT ![Leader] = k + 1]
  /\ cycle' = [cycle EXCEPT ![Leader] = <<k>>]
  /\ apply' = [apply EXCEPT ![r].pc = "await", ![r].commit = k]
  /\ UNCHANGED <<wal, status, cursor, lastCommit, pending, rpcVars, handler,
                 item, executed, crashes>>

\* leaderDoCommit, first half: commitCycle takes the request and logs the commit.
LeaderLogCommit(r) ==
  LET k == nextIndex[Leader] IN
  /\ apply[r].pc = "enqueue"
  /\ cycle[Leader] = <<>>
  /\ k \in Index
  /\ NewLog(k, CommitLog(r, apply[r].index, lastCommit[Leader]))
  /\ nextIndex' = [nextIndex EXCEPT ![Leader] = k + 1]
  /\ cycle' = [cycle EXCEPT ![Leader] = <<k>>]
  /\ apply' = [apply EXCEPT ![r].pc = "await", ![r].commit = k]
  /\ UNCHANGED <<wal, status, cursor, lastCommit, pending, rpcVars, handler,
                 item, executed, crashes>>

\* leaderDoCommit, second half: Handler.Commit, lastCommit, the commit RPCs, and
\* the result for doLeaderCommit if it still waits for it.
LeaderDoCommit ==
  /\ cycle[Leader] # <<>>
  /\ LET k == cycle[Leader][1]
         r == log[k].req
     IN
     /\ executed' = [executed EXCEPT ![Leader] = Append(@, k)]
     /\ lastCommit' = [lastCommit EXCEPT ![Leader] = k]
     /\ applyRPC(k)
     /\ apply' = [apply EXCEPT ![r].pc = IF @ = "await" THEN "committing" ELSE @]
  /\ cycle' = [cycle EXCEPT ![Leader] = <<>>]
  /\ UNCHANGED <<walVars, status, cursor, nextIndex, pending, rpcVars, item,
                 crashes>>

\* doLeaderCommit returns once minCommitFollowers followers answered, or when
\* the context expires; what they answered is not looked at.
ReturnCommitted(r) ==
  /\ apply[r].pc = "committing"
  /\ \/ Cardinality(Complete(apply[r].commit)) >= minCommitFollowers
     \/ Expiry
  /\ MarkPrepareFinished(Leader, apply[r].index)
  /\ apply' = [apply EXCEPT ![r].pc = "done"]
  /\ UNCHANGED <<walVars, status, cursor, nextIndex, lastCommit, cycle, rpcVars,
                 handler, item, executed, crashes>>

-----------------------------------------------------------------------------
(***************************************************************************)
(* Apply RPCs.  A lost call shows as an error to the leader; so does a     *)
(* connection that breaks while the follower goes on serving the request.  *)
(***************************************************************************)
\* The answer of an apply RPC; a call that already failed is not answered.
Reply(f, i, answer) ==
  result' = [result EXCEPT ![f][i] = IF @ = "none" THEN answer ELSE @]

\* The call fails before f serves it: for want of a server, or by chance.
Lose(f, i) ==
  /\ handler[f][<<"rpc", i>>] = "sent"
  /\ Up(f) => drops < MaxDrops
  /\ handler' = [handler EXCEPT ![f][<<"rpc", i>>] = "none"]
  /\ Reply(f, i, "lost")
  /\ drops' = IF Up(f) THEN drops + 1 ELSE drops
  /\ UNCHANGED <<walVars, nodeVars, apply, cycle, item, executed, crashes>>

\* The leader sees an error while f still serves the request.
Disconnect(f, i) ==
  /\ handler[f][<<"rpc", i>>] # "none"
  /\ result[f][i] = "none"
  /\ drops < MaxDrops
  /\ Reply(f, i, "lost")
  /\ drops' = drops + 1
  /\ UNCHANGED <<walVars, nodeVars, apply, cycle, handler, item, executed,
                 crashes>>

-----------------------------------------------------------------------------
(***************************************************************************)
(* A follower: followerApply of log h[2] for a call h.  Steps between which *)
(* other goroutines of the follower can run are separate actions.          *)
(***************************************************************************)
At(f, h, pc) == Up(f) /\ handler[f][h] = pc
Goto(f, h, pc) == handler' = [handler EXCEPT ![f][h] = pc]

\* Mutant: the error is not sent back.
FailSilently(f, h) ==
  /\ Goto(f, h, "none")
  /\ UNCHANGED result

\* followerApply returns an error: an apply RPC reports it, waitItem.run drops it.
Fail(f, h) ==
  /\ Goto(f, h, "none")
  /\ IF h[1] = "rpc" THEN Reply(f, h[2], "err") ELSE UNCHANGED result

\* Mutant: the goroutines that wait for the log are not triggered.
SucceedWithoutTrigger(f, h) ==
  /\ Goto(f, h, "none")
  /\ IF h[1] = "rpc" THEN Reply(f, h[2], "ok") ELSE UNCHANGED result
  /\ nextIndex' = [nextIndex EXCEPT ![f] = IF @ < h[2] + 1 THEN h[2] + 1 ELSE @]
  /\ UNCHANGED item

\* followerApply succeeds: updateNextIndex, triggerLogAwaits, the answer.
Succeed(f, h) ==
  /\ Goto(f, h, "none")
  /\ IF h[1] = "rpc" THEN Reply(f, h[2], "ok") ELSE UNCHANGED result
  /\ nextIndex' = [nextIndex EXCEPT ![f] = IF @ < h[2] + 1 THEN h[2] + 1 ELSE @]
  /\ item' = [item EXCEPT ![f][h[2]] = IF @ = "run" THEN "set" ELSE @]

\* waitForLog finds no log i in the WAL and starts to fetch it.
AwaitLog(f, i) == item' = [item EXCEPT ![f][i] = "run"]

\* followerPrepare: Handler.Check refuses the request (not called on a fetch).
FollowerRefuse(f, h) ==
  /\ h[1] = "rpc"
  /\ At(f, h, "sent")
  /\ log[h[2]].type = "prepare"
  /\ Fail(f, h)
  /\ UNCHANGED <<walVars, nodeVars, apply, cycle, drops, item, executed,
                 crashes>>

\* followerPrepare: LevelDBWal.Write refuses a log that is already there.  It
\* holds no lock between this test and the write: the handler of the RPC and that
\* of the fetch of one prepare log may both pass.
FollowerLogPrepare(f, h) ==
  /\ At(f, h, "sent")
  /\ log[h[2]].type = "prepare"
  /\ IF h[2] \in wal[f]
     THEN Fail(f, h)
     ELSE Goto(f, h, "write") /\ UNCHANGED result
  /\ UNCHANGED <<walVars, nodeVars, apply, cycle, drops, item, executed,
                 crashes>>

\* followerPrepare: LevelDBWal.Write stores the data and the header of the log.
FollowerWritePrepare(f, h) ==
  /\ At(f, h, "write")
  /\ wal' = [wal EXCEPT ![f] = @ \cup {h[2]}]
  /\ Goto(f, h, "mark")
  /\ UNCHANGED <<log, nodeVars, apply, cycle, rpcVars, item, executed, crashes>>

\* followerPrepare: markPendingPrepare and return.
FollowerMarkPrepare(f, h) ==
  /\ At(f, h, "mark")
  /\ pending' = [pending EXCEPT ![f] = @ \cup {h[2]}]
  /\ Succeed(f, h)
  /\ UNCHANGED <<walVars, status, cursor, lastCommit, apply, cycle, drops,
                 executed, crashes>>

\* getPrepareLog: waitForLog of the prepare log has to wait.
WaitPrepare(f, h) ==
  LET l == log[h[2]] IN
  /\ At(f, h, "sent")
  /\ l.type # "prepare"
  /\ l.ref \notin wal[f]
  /\ AwaitLog(f, l.ref)
  /\ Goto(f, h, "waitPrepare")
  /\ UNCHANGED <<walVars, nodeVars, apply, cycle, rpcVars, executed, crashes>>

\* waitForLog of the prepare log, and of the last commit log, returns.
HavePrepare(f, h) ==
  LET l == log[h[2]] IN
  \/ At(f, h, "sent") /\ l.type # "prepare" /\ l.ref \in wal[f]
  \/ At(f, h, "waitPrepare") /\ item[f][l.ref] = "set"

HaveLast(f, h) ==
  LET l == log[h[2]] IN
  \/ HavePrepare(f, h) /\ l.type = "commit" /\ l.last \in wal[f]
  \/ At(f, h, "waitLast") /\ item[f][l.last] = "set"

\* Mutant: the prepare is finished, but the rollback log is not written.
FollowerRollbackUnlogged(f, h) ==
  LET l == log[h[2]] IN
  /\ HavePrepare(f, h)
  /\ l.type = "rollback"
  /\ l.ref \in pending[f]
  /\ MarkPrepareFinished(f, l.ref)
  /\ Succeed(f, h)
  /\ UNCHANGED <<walVars, status, cursor, lastCommit, apply, cycle, drops,
                 executed, crashes>>

\* followerRollback, once it has the prepare log.  Nobody waits for a rollback
\* log, so only the handler of its RPC writes it.
FollowerRollback(f, h) ==
  LET l == log[h[2]] IN
  /\ HavePrepare(f, h)
  /\ l.type = "rollback"
  /\ IF l.ref \notin pending[f] \/ h[2] \in wal[f]
     THEN /\ Fail(f, h)
          /\ UNCHANGED <<wal, pending, nextIndex, item>>
     ELSE /\ wal' = [wal EXCEPT ![f] = @ \cup {h[2]}]
          /\ MarkPrepareFinished(f, l.ref)
          /\ Succeed(f, h)
  /\ UNCHANGED <<log, status, cursor, lastCommit, apply, cycle, drops,
                 executed, crashes>>

\* getPrepareLog of a commit log: waitForLog of the last commit has to wait.
WaitLast(f, h) ==
  LET l == log[h[2]] IN
  /\ HavePrepare(f, h)
  /\ l.type = "commit"
  /\ l.last \notin wal[f]
  /\ AwaitLog(f, l.last)
  /\ Goto(f, h, "waitLast")
  /\ UNCHANGED <<walVars, nodeVars, apply, cycle, rpcVars, executed, crashes>>

\* followerCommit and followerCommitResult: the checks before the commit queue.
CheckCommit(f, h) ==
  LET l == log[h[2]] IN
  /\ HaveLast(f, h)
  /\ IF l.ref \notin pending[f] \/ l.last < lastCommit[f]
     THEN Fail(f, h)
     ELSE Goto(f, h, "enqueue") /\ UNCHANGED result
  /\ UNCHANGED <<walVars, nodeVars, apply, cycle, drops, item, executed,
                 crashes>>

\* followerDoCommit: commitCycle takes the request and logs the commit.  If the
\* log is there already it returns without setting the result.
FollowerLogCommit(f, h) ==
  /\ At(f, h, "enqueue")
  /\ cycle[f] = <<>>
  /\ log[h[2]].last = lastCommit[f]
  /\ IF h[2] \in wal[f]
     THEN Goto(f, h, "stuck") /\ UNCHANGED <<wal, cycle>>
     ELSE /\ wal' = [wal EXCEPT ![f] = @ \cup {h[2]}]
          /\ cycle' = [cycle EXCEPT ![f] = <<h[2]>>]
          /\ Goto(f, h, "executing")
  /\ UNCHANGED <<log, nodeVars, apply, rpcVars, item, executed, crashes>>

\* followerDoCommit: the request does not continue the last commit, so a new
\* goroutine waits for the log it continues and queues the request again.
FollowerReorder(f, h) ==
  /\ At(f, h, "enqueue")
  /\ cycle[f] = <<>>
  /\ log[h[2]].last # lastCommit[f]
  /\ Goto(f, h, "reorder")
  /\ UNCHANGED <<walVars, nodeVars, apply, cycle, rpcVars, item, executed, crashes>>

\* The log was waited for before, so waitForLog finds it in the WAL.
Requeue(f, h) ==
  /\ At(f, h, "reorder")
  /\ log[h[2]].last \in wal[f]
  /\ Goto(f, h, "enqueue")
  /\ UNCHANGED <<walVars, nodeVars, apply, cycle, rpcVars, item, executed, crashes>>

\* followerDoCommit: Handler.Commit, lastCommit, the result.
FollowerDoCommit(f, h) ==
  /\ At(f, h, "executing")
  /\ executed' = [executed EXCEPT ![f] = Append(@, h[2])]
  /\ lastCommit' = [lastCommit EXCEPT ![f] = h[2]]
  /\ cycle' = [cycle EXCEPT ![f] = <<>>]
  /\ Goto(f, h, "committed")
  /\ UNCHANGED <<walVars, status, cursor, nextIndex, pending, apply, rpcVars, item,
                 crashes>>

\* followerCommit: markPrepareFinished and return.
FollowerReturnCommit(f, h) ==
  /\ At(f, h, "committed")
  /\ MarkPrepareFinished(f, log[h[2]].ref)
  /\ Succeed(f, h)
  /\ UNCHANGED <<walVars, status, cursor, lastCommit, apply, cycle, drops,
                 executed, crashes>>

\* waitItem.run: the log arrives from Runtime.Fetch on the leader; the loop tries
\* again, after logWaitTimeout, until followerApply succeeds.
Fetch(f, i) ==
  /\ item[f][i] = "run"
  /\ At(f, <<"fetch", i>>, "none")
  /\ Up(Leader)
  /\ i \in DOMAIN log
  /\ Goto(f, <<"fetch", i>>, "sent")
  /\ UNCHANGED <<walVars, nodeVars, apply, cycle, rpcVars, item, executed, crashes>>

-----------------------------------------------------------------------------
(***************************************************************************)
(* Crash and restart.  A node that is down and one that is in readLogs     *)
(* serve nothing alike, so a crash leads straight to the start of readLogs.*)
(***************************************************************************)
Unfinished == {"logging", "preparing", "enqueue", "await", "committing"}

\* Not an apply RPC that may still be on its way.
Arrived(f, h) == handler[f][h] # "sent" \/ h[1] = "fetch"

Crash(n) ==
  /\ Up(n)
  /\ crashes[n] < MaxCrashes
  /\ crashes' = [crashes EXCEPT ![n] = @ + 1]
  /\ status' = [status EXCEPT ![n] = "reading"]
  /\ cursor' = [cursor EXCEPT ![n] = 0]
  /\ nextIndex' = [nextIndex EXCEPT ![n] = 0]
  /\ lastCommit' = [lastCommit EXCEPT ![n] = 0]
  /\ pending' = [pending EXCEPT ![n] = {}]
  /\ cycle' = [cycle EXCEPT ![n] = <<>>]
  /\ IF n = Leader
     THEN /\ apply' = [r \in Reqs |-> IF apply[r].pc \in Unfinished
                                      THEN [apply[r] EXCEPT !.pc = "crashed"]
                                      ELSE apply[r]]
          /\ UNCHANGED <<result, handler, item>>
     ELSE /\ handler' = [handler EXCEPT ![n] =
                [h \in Calls |-> IF Arrived(n, h) THEN "none" ELSE handler[n][h]]]
          /\ item' = [item EXCEPT ![n] = [i \in Index |-> "none"]]
          /\ result' = [result EXCEPT ![n] =
                [i \in Index |-> IF /\ handler[n][<<"rpc", i>>] # "none"
                                    /\ Arrived(n, <<"rpc", i>>)
                                    /\ result[n][i] = "none"
                                 THEN "lost" ELSE result[n][i]]]
          /\ UNCHANGED apply
  /\ UNCHANGED <<walVars, drops, executed>>

\* readLogs, one record: logs come in index order.  waitForLog never returns if
\* the log it wants is missing; a last commit that does not match ends the loop
\* with a nil error (errors.Wrapf of a nil error), and the node goes on.
ReadLog(n) ==
  /\ status[n] = "reading"
  /\ \E i \in Wal(n) :
     LET l == log[i] IN
     /\ i >= cursor[n]
     /\ \A j \in Wal(n) : j >= cursor[n] => i <= j
     /\ status' = [status EXCEPT ![n] =
          IF l.type = "prepare" THEN "reading"
          ELSE IF l.ref \notin Wal(n) THEN "hung"
          ELSE IF l.type = "commit" /\ l.last \notin Wal(n) THEN "hung"
          ELSE IF l.type = "commit" /\ l.last # lastCommit[n] THEN "up"
          ELSE IF l.ref \notin pending[n] THEN "failed" ELSE "reading"]
     /\ IF status'[n] = "reading"
        THEN /\ cursor' = [cursor EXCEPT ![n] = i + 1]
             /\ nextIndex' = [nextIndex EXCEPT ![n] = i + 1]
             /\ pending' = [pending EXCEPT ![n] = IF l.type = "prepare"
                                                  THEN @ \cup {i} ELSE @ \ {l.ref}]
             /\ lastCommit' = [lastCommit EXCEPT ![n] =
                                 IF l.type = "commit" THEN i ELSE @]
        ELSE UNCHANGED <<cursor, nextIndex, pending, lastCommit>>
  /\ UNCHANGED <<walVars, apply, cycle, rpcVars, handler, item, executed, crashes>>

\* readLogs meets io.EOF; Start.
ReadEOF(n) ==
  /\ status[n] = "reading"
  /\ \A i \in Wal(n) : i < cursor[n]
  /\ status' = [status EXCEPT ![n] = "up"]
  /\ UNCHANGED <<walVars, cursor, nextIndex, lastCommit, pending, apply, cycle,
                 rpcVars, handler, item, executed, crashes>>

-----------------------------------------------------------------------------
LeaderNext ==
  \/ LeaderDoCommit
  \/ \E r \in Reqs : \/ AllocPrepare(r)
                     \/ LogPrepare(r)
                     \/ PrepareOk(r)
                     \/ PrepareFailed(r)
                     \/ CommitTimeout(r)
                     \/ LeaderLogCommit(r)
                     \/ ReturnCommitted(r)

RPCNext ==
  \E f \in Followers, i \in Index : \/ Lose(f, i)
                                    \/ Disconnect(f, i)
                                    \/ Fetch(f, i)

HandlerStep(f, h) ==
  \/ FollowerLogPrepare(f, h)
  \/ FollowerWritePrepare(f, h)
  \/ FollowerMarkPrepare(f, h)
  \/ WaitPrepare(f, h)
  \/ FollowerRollback(f, h)
  \/ WaitLast(f, h)
  \/ CheckCommit(f, h)
  \/ Requeue(f, h)
  \/ FollowerDoCommit(f, h)
  \/ FollowerReturnCommit(f, h)

CommitQueueStep(f, h) == FollowerLogCommit(f, h) \/ FollowerReorder(f, h)

FollowerNext ==
  \E f \in Followers, h \in Calls : \/ FollowerRefuse(f, h)
                                    \/ HandlerStep(f, h)
                                    \/ CommitQueueStep(f, h)

CrashNext == \E n \in Nodes : Crash(n) \/ ReadLog(n) \/ ReadEOF(n)

Next == LeaderNext \/ RPCNext \/ FollowerNext \/ CrashNext

Spec == Init /\ [][Next]_vars

(***************************************************************************)
(* Fairness.  Goroutines that can run do run: Apply, commitCycle, the       *)
(* handlers, an RPC is answered, a waitItem fetches again after its timer.  *)
(* A goroutine blocked on commitCh is served in turn (Go queues senders),   *)
(* so a request that is again and again acceptable is accepted.             *)
(***************************************************************************)
LeaderFairness ==
  /\ WF_vars(LeaderDoCommit)
  /\ \A r \in Reqs : /\ WF_vars(AllocPrepare(r))
                     /\ WF_vars(LogPrepare(r))
                     /\ WF_vars(PrepareOk(r) \/ PrepareFailed(r))
                     /\ SF_vars(LeaderLogCommit(r))
                     /\ WF_vars(ReturnCommitted(r))

FollowerFairness ==
  \A f \in Followers :
    /\ \A h \in Calls : WF_vars(HandlerStep(f, h)) /\ SF_vars(CommitQueueStep(f, h))
    /\ \A i \in Index : WF_vars(Fetch(f, i))

FairSpec == Spec /\ LeaderFairness /\ FollowerFairness

-----------------------------------------------------------------------------
Log == [type : {"prepare", "rollback", "commit"}, req : Reqs, ref : Index,
        last : Index]

ApplyPcs   == Unfinished \cup {"new", "rolledback", "timeout", "done", "crashed"}
ApplyCall  == [pc : ApplyPcs, index : Index, commit : Index]
HandlerPcs == {"none", "sent", "write", "mark", "waitPrepare", "waitLast",
               "enqueue", "reorder", "executing", "committed", "stuck"}

\* Every variable has the type its Go counterpart has: indexes are allocated
\* ones, a follower's WAL only holds logs the leader wrote.
TypeOK ==
  /\ DOMAIN log \subseteq Index
  /\ \A i \in DOMAIN log : log[i] \in Log
  /\ wal \in [Followers -> SUBSET DOMAIN log]
  /\ status \in [Nodes -> {"up", "reading", "failed", "hung"}]
  /\ cursor \in [Nodes -> 0..(MaxIndex + 1)]
  /\ nextIndex \in [Nodes -> 0..(MaxIndex + 1)]
  /\ lastCommit \in [Nodes -> Index]
  /\ pending \in [Nodes -> SUBSET Index]
  /\ apply \in [Reqs -> ApplyCall]
  /\ cycle \in [Nodes -> {<<>>} \cup {<<i>> : i \in DOMAIN log}]
  /\ result \in [Followers -> [Index -> {"none", "ok", "err", "lost"}]]
  /\ handler \in [Followers -> [Calls -> HandlerPcs]]
  /\ item \in [Followers -> [Index -> {"none", "run", "set"}]]
  /\ executed \in [Nodes -> Seq(Index)]
  /\ crashes \in [Nodes -> 0..MaxCrashes]
  /\ drops \in 0..MaxDrops

Decided(i, t) == \E k \in DOMAIN log : log[k].type = t /\ log[k].ref = i

\* A prepare log is never both committed and rolled back: doLeaderRollback and
\* leaderDoCommit exclude each other, timeouts, crashes and restarts included.
DecisionAgreement ==
  \A i \in DOMAIN log : ~ (Decided(i, "commit") /\ Decided(i, "rollback"))

\* A follower that logged a commit logged every earlier one: followerDoCommit
\* leaves no gap, whatever RPCs are lost, late, duplicated by a fetch or cut off
\* by a crash.
CommitPrefix ==
  \A f \in Followers : \A c \in wal[f] \cap Commits :
    \A d \in Commits : d < c => d \in wal[f]

\* What the leader commits is in the WAL of at least minPreparedFollowers
\* followers (PrepareThreshold), also after these crashed.
CommittedIsPrepared ==
  \A c \in Commits :
    Cardinality({f \in Followers : log[c].ref \in wal[f]}) >= minPreparedFollowers

\* Handler.Commit is called in the order of the commit logs and at most once for
\* each of them, on every node.
ExecutedInOrder ==
  \A n \in Nodes : \A j, k \in 1..Len(executed[n]) :
    j < k => executed[n][j] < executed[n][k]

CommitsOf(n) == Wal(n) \cap Commits

\* A commit log that a node holds but never handed to Handler.Commit was cut off
\* by a crash between writeWAL and doCommit: at most one for each crash.
SkippedOnlyByCrash ==
  \A n \in Nodes : Up(n) /\ cycle[n] = <<>> =>
    Cardinality(CommitsOf(n)) - Len(executed[n]) <= crashes[n]

\* readLogs restores the position the node had: when it serves again, lastCommit
\* is its newest commit log.
RecoveryComplete ==
  \A n \in Nodes : Up(n) /\ cycle[n] = <<>> =>
    /\ \A c \in CommitsOf(n) : c <= lastCommit[n]
    /\ lastCommit[n] # 0 => lastCommit[n] \in CommitsOf(n)

\* The prepare logs in a WAL, and those without a decision: what readLogs takes
\* for pending.
Prepares(f)  == {i \in wal[f] : log[i].type = "prepare"}
Undecided(f) == {i \in Prepares(f) : \A k \in wal[f] :
                                       log[k].type # "prepare" => log[k].ref # i}

\* readLogs never refuses a WAL ("previous prepare already committed/rollback"),
\* and only hangs on the leader, when log 0 was allocated and never written.
\* Between requests, the pendingPrepares of a follower hold every prepare without
\* a decision (its decision will be accepted) and only prepares of its WAL.  A
\* prepare that two handlers stored at once can stay pending after its decision,
\* until readLogs rebuilds the map; lastCommit and the WAL then refuse the
\* decision a second time.
RecoveryAccepts ==
  /\ \A n \in Nodes : /\ status[n] # "failed"
                      /\ status[n] = "hung" => n = Leader /\ 0 \notin DOMAIN log
  /\ \A f \in Followers : Up(f) /\ (\A h \in Calls : handler[f][h] \in {"none", "sent"}) =>
       Undecided(f) \subseteq pending[f] /\ pending[f] \subseteq Prepares(f)

\* What Apply reports is true: a rolled back request is never committed, and a
\* successful one was executed by the leader.
OutcomeIsTrue ==
  \A r \in Reqs :
    /\ apply[r].pc = "rolledback" => ~ Decided(apply[r].index, "commit")
    /\ apply[r].pc = "done" => \E j \in 1..Len(executed[Leader]) :
                                 executed[Leader][j] = apply[r].commit

-----------------------------------------------------------------------------
(***************************************************************************)
(* Kayak implements CommitOrder: the commit logs are the order, and a      *)
(* follower has learned the ones in its WAL.                               *)
(***************************************************************************)
Order == INSTANCE CommitOrder WITH
           chain   <- [c \in Commits |-> log[c].req],
           learned <- [f \in Followers |-> wal[f] \cap Commits]

\* Every step of the runtime extends the order at its end, lets a follower learn
\* the first commit it lacks, or changes neither.
ImplementsOrder == Order!Spec

-----------------------------------------------------------------------------
(***************************************************************************)
(* Liveness, without crashes.  Reqs is finite, so "each one eventually" can *)
(* be said of all of them at once.                                         *)
(***************************************************************************)
\* Every Apply call returns, whatever followers answer and whichever RPCs fail.
ApplyReturns ==
  <>[](\A r \in Reqs : apply[r].pc \in {"new", "done", "rolledback"})

\* Every commit whose RPC is not lost reaches the follower's WAL, and so does
\* every commit it has to wait for: these are fetched from the leader.
CommitsAreRepaired ==
  <>[](\A f \in Followers :
         /\ \A c \in Commits : c \in wal[f] \/ result[f][c] = "lost"
         /\ \A h \in Calls : handler[f][h] \notin {"waitPrepare", "waitLast"})

=============================================================================
