--------------------------- MODULE KayakInductive ---------------------------
(***************************************************************************)
(* The inductive invariant of Kayak, and the proofs that every step keeps  *)
(* it: first its type part and what the leader does to the log, and a node *)
(* that restarts makes of it (the chain of commits, the decisions and the  *)
(* allocation of indices); then handlers, positions and prefixes.          *)
(* Inductive puts it together. Restart, last, follows from it and from     *)
(* what a node keeps of the logs it has stored.                            *)
(***************************************************************************)
EXTENDS Kayak, TLAPS

\* The backend of a leaf that names none.
USE Zenon

-----------------------------------------------------------------------------
(***************************************************************************)
(* The inductive invariant.                                                *)
(***************************************************************************)
\* v is the greatest element of S, or 0 if there is none.
IsLast(v, S) == (\A c \in S : c <= v) /\ (v = 0 \/ v \in S)

\* The commit logs form a chain in index order, each pointing to the one before.
ChainInv ==
  /\ 0 \notin Commits
  /\ \A c \in Commits : /\ log[c].last < c
                        /\ log[c].last = 0 \/ log[c].last \in Commits
                        /\ \A d \in Commits : d < c => d <= log[c].last

\* A log belongs to the Apply call of its request, which is past writing it.
Owned(i) ==
  LET l == log[i]
      a == apply[l.req]
  IN  /\ a.pc \notin {"new", "logging"}
      /\ l.type = "prepare" => i = a.index
      /\ l.type # "prepare" => /\ l.ref = a.index
                               /\ l.ref \in DOMAIN log
                               /\ log[l.ref].type = "prepare"
                               /\ log[l.ref].req = l.req
      /\ l.type = "commit" =>
           a.pc \in {"await", "committing", "done", "timeout", "crashed"}
      /\ l.type = "rollback" => a.pc = "rolledback"

DecisionInv == \A i \in DOMAIN log : Owned(i)

\* Indexes are allocated once: the leader's nextIndex is beyond every log and
\* every index an Apply call holds; while it reads its WAL no Apply call runs.
CallInv(r) ==
  /\ apply[r].pc \in Unfinished => Up(Leader) /\ apply[r].index < nextIndex[Leader]
  /\ apply[r].pc = "logging" =>
       /\ apply[r].index \notin DOMAIN log
       /\ \A q \in Reqs : apply[q].pc = "logging" /\ apply[q].index = apply[r].index
                          => q = r
  /\ apply[r].pc \in {"preparing", "enqueue"} =>
       /\ apply[r].index \in DOMAIN log
       /\ log[apply[r].index] = PrepareLog(r)

AllocInv ==
  /\ Up(Leader) => \A i \in DOMAIN log : i < nextIndex[Leader]
  /\ \A r \in Reqs : CallInv(r)

\* lastCommit is the newest commit of the node's WAL, of the part it has read
\* during recovery, or the one before the commit commitCycle is executing.
Position(n) ==
  /\ cycle[n] # <<>> => Up(n)
  /\ \A k \in Index : cycle[n] = <<k>> =>
       /\ k \in CommitsOf(n)
       /\ \A c \in CommitsOf(n) : c <= k
       /\ \A j \in 1..Len(executed[n]) : executed[n][j] < k
  /\ Up(n) /\ cycle[n] = <<>> => IsLast(lastCommit[n], CommitsOf(n))
  /\ status[n] = "reading" =>
       /\ nextIndex[n] = cursor[n]
       /\ IsLast(lastCommit[n], {c \in CommitsOf(n) : c < cursor[n]})
  /\ \A j \in 1..Len(executed[n]) : executed[n][j] \in CommitsOf(n)

PositionInv == \A n \in Nodes : Position(n)

\* What a follower's handler has done so far.
Serves(f, h) ==
  /\ handler[f][h] # "none" => h[2] \in DOMAIN log
  /\ handler[f][h] \notin {"none", "sent"} => Up(f)
  /\ handler[f][h] = "write" => log[h[2]].type = "prepare"
  /\ handler[f][h] = "mark" => log[h[2]].type = "prepare" /\ h[2] \in wal[f]
  /\ handler[f][h] = "waitPrepare" => log[h[2]].type # "prepare"
  /\ handler[f][h] \in {"waitLast", "enqueue", "reorder"} => log[h[2]].type = "commit"
  /\ handler[f][h] = "executing" =>
       /\ cycle[f] = <<h[2]>>
       /\ \A g \in Calls : handler[f][g] = "executing" => g = h
  /\ handler[f][h] = "committed" => log[h[2]].type = "commit" /\ h[2] \in wal[f]

HandlerInv == \A f \in Followers : \A h \in Calls : Serves(f, h)

IInv ==
  /\ TypeOK
  /\ ChainInv
  /\ DecisionInv
  /\ AllocInv
  /\ PositionInv
  /\ HandlerInv
  /\ CommitPrefix
  /\ ExecutedInOrder

-----------------------------------------------------------------------------
(***************************************************************************)
(* Lemmas about the operators.                                             *)
(***************************************************************************)
\* A call is a source and an index.
LEMMA CallsFact == \A h \in Calls : h[1] \in Sources /\ h[2] \in Index
  BY DEF Calls

\* An index is a natural number.
LEMMA IndexFact ==
  Index \subseteq Nat /\ 0 \in Index /\ \A i \in Index : i + 1 \in 0..(MaxIndex + 1)
  BY KayakAssumption, SMT DEF Index

\* A commitCycle that executes a commit is not idle.
LEMMA BusyFact == \A k : <<k>> # <<>>
  OBVIOUS

\* What the type invariant says of the numbers.
LEMMA NatFacts ==
  ASSUME TypeOK
  PROVE  /\ \A n \in Nodes : /\ nextIndex[n] \in Nat
                             /\ lastCommit[n] \in Nat
                             /\ cursor[n] \in Nat
         /\ DOMAIN log \subseteq Nat
         /\ Commits \subseteq DOMAIN log
         /\ \A f \in Followers : wal[f] \subseteq DOMAIN log
<1>1. \A n \in Nodes : nextIndex[n] \in Nat /\ cursor[n] \in Nat
  BY KayakAssumption, SMT DEF TypeOK
<1>2. \A n \in Nodes : lastCommit[n] \in Nat
  BY IndexFact DEF TypeOK
<1>3. DOMAIN log \subseteq Nat /\ \A f \in Followers : wal[f] \subseteq DOMAIN log
  BY IndexFact DEF TypeOK
<1> QED
  BY <1>1, <1>2, <1>3 DEF Commits

\* The type invariant is preserved.
LEMMA TypeOKNext ==
  ASSUME TypeOK, HandlerInv, [Next]_vars
  PROVE  TypeOK'
<1> USE KayakAssumption, CallsFact, IndexFact DEF Nodes
<1>a. DOMAIN log \subseteq Index /\ \A i \in DOMAIN log : log[i] \in Log
  BY DEF TypeOK
<1>b. wal \in [Followers -> SUBSET DOMAIN log]
  BY DEF TypeOK
<1>c. status \in [Nodes -> {"up", "reading", "failed", "hung"}]
  BY DEF TypeOK
<1>d. cursor \in [Nodes -> 0..(MaxIndex + 1)]
  BY DEF TypeOK
<1>e. nextIndex \in [Nodes -> 0..(MaxIndex + 1)]
  BY DEF TypeOK
<1>f. lastCommit \in [Nodes -> Index]
  BY DEF TypeOK
<1>g. pending \in [Nodes -> SUBSET Index]
  BY DEF TypeOK
<1>h. apply \in [Reqs -> ApplyCall]
  BY DEF TypeOK
<1>i. cycle \in [Nodes -> {<<>>} \cup {<<i>> : i \in DOMAIN log}]
  BY DEF TypeOK
<1>j. result \in [Followers -> [Index -> {"none", "ok", "err", "lost"}]]
  BY DEF TypeOK
<1>k. handler \in [Followers -> [Calls -> HandlerPcs]]
  BY DEF TypeOK
<1>l. item \in [Followers -> [Index -> {"none", "run", "set"}]]
  BY DEF TypeOK
<1>m. executed \in [Nodes -> Seq(Index)]
  BY DEF TypeOK
<1>n. crashes \in [Nodes -> 0..MaxCrashes]
  BY DEF TypeOK
<1>o. drops \in 0..MaxDrops
  BY DEF TypeOK
<1>p. ASSUME NEW f \in Followers, NEW h \in Calls, handler[f][h] # "none"
      PROVE  h[2] \in DOMAIN log /\ log[h[2]] \in Log
  BY <1>p, <1>a DEF HandlerInv, Serves
<1>1. CASE UNCHANGED vars
  BY <1>1 DEF TypeOK, vars
<1>2. ASSUME NEW r \in Reqs, AllocPrepare(r) PROVE TypeOK'
  <2>1. apply' \in [Reqs -> ApplyCall]
    BY <1>2, <1>h, <1>e, ZenonT(40) DEF AllocPrepare, ApplyCall, ApplyPcs, Unfinished
  <2>2. nextIndex' \in [Nodes -> 0..(MaxIndex + 1)]
    BY <1>2, <1>h, <1>e DEF AllocPrepare
  <2> QED
    BY <1>2, <2>1, <2>2 DEF TypeOK, AllocPrepare, walVars, nodeVars, rpcVars
<1>3. ASSUME NEW r \in Reqs, LogPrepare(r) PROVE TypeOK'
  <2>1. apply' \in [Reqs -> ApplyCall]
    BY <1>3, <1>h DEF LogPrepare, ApplyCall, ApplyPcs, Unfinished
  <2>2. /\ DOMAIN log' \subseteq Index
        /\ DOMAIN log \subseteq DOMAIN log'
        /\ \A i \in DOMAIN log' : log'[i] \in Log
    BY <1>3, <1>a, <1>h, <1>f DEF LogPrepare, NewLog, PrepareLog, Log, ApplyCall
  <2>3. handler' \in [Followers -> [Calls -> HandlerPcs]]
    BY <1>3, <1>k, <1>h DEF LogPrepare, applyRPC, HandlerPcs, Calls, Sources, ApplyCall
  <2>4. pending' \in [Nodes -> SUBSET Index]
    BY <1>3, <1>g, <1>h DEF LogPrepare, ApplyCall
  <2>5. wal' \in [Followers -> SUBSET DOMAIN log']
    BY <1>3, <2>2, <1>b DEF LogPrepare
  <2>6. cycle' \in [Nodes -> {<<>>} \cup {<<i>> : i \in DOMAIN log'}]
    BY <1>3, <2>2, <1>i, SMT DEF LogPrepare
  <2> QED
    BY <1>3, <2>1, <2>2, <2>3, <2>4, <2>5, <2>6 DEF TypeOK, LogPrepare, walVars,
       nodeVars, rpcVars
<1>4. ASSUME NEW r \in Reqs, PrepareOk(r) PROVE TypeOK'
  <2>1. apply' \in [Reqs -> ApplyCall]
    BY <1>4, <1>h DEF PrepareOk, ApplyCall, ApplyPcs, Unfinished
  <2> QED
    BY <1>4, <2>1 DEF TypeOK, PrepareOk, walVars, nodeVars, rpcVars
<1>5. ASSUME NEW r \in Reqs, PrepareFailed(r) PROVE TypeOK'
  <2>1. apply' \in [Reqs -> ApplyCall]
    BY <1>5, <1>h, <1>e DEF PrepareFailed, ApplyCall, ApplyPcs, Unfinished
  <2>2. /\ DOMAIN log' \subseteq Index
        /\ DOMAIN log \subseteq DOMAIN log'
        /\ \A i \in DOMAIN log' : log'[i] \in Log
    BY <1>5, <1>a, <1>h, <1>f DEF PrepareFailed, NewLog, RollbackLog, Log, ApplyCall
  <2>3. handler' \in [Followers -> [Calls -> HandlerPcs]]
    BY <1>5, <1>k DEF PrepareFailed, applyRPC, HandlerPcs, Calls, Sources
  <2>4. pending' \in [Nodes -> SUBSET Index]
    BY <1>5, <1>g, <1>h DEF PrepareFailed, MarkPrepareFinished, ApplyCall
  <2>5. nextIndex' \in [Nodes -> 0..(MaxIndex + 1)]
    BY <1>5, <1>h, <1>e DEF PrepareFailed
  <2>6. wal' \in [Followers -> SUBSET DOMAIN log']
    BY <1>5, <2>2, <1>b DEF PrepareFailed
  <2>7. cycle' \in [Nodes -> {<<>>} \cup {<<i>> : i \in DOMAIN log'}]
    BY <1>5, <2>2, <1>i, SMT DEF PrepareFailed
  <2> QED
    BY <1>5, <2>1, <2>2, <2>3, <2>4, <2>5, <2>6, <2>7 DEF TypeOK, PrepareFailed, walVars,
       nodeVars, rpcVars
<1>6. ASSUME NEW r \in Reqs, CommitTimeout(r) PROVE TypeOK'
  <2>1. apply' \in [Reqs -> ApplyCall]
    BY <1>6, <1>h DEF CommitTimeout, ApplyCall, ApplyPcs, Unfinished
  <2>2. pending' \in [Nodes -> SUBSET Index]
    BY <1>6, <1>g, <1>h DEF CommitTimeout, MarkPrepareFinished, ApplyCall
  <2> QED
    BY <1>6, <2>1, <2>2 DEF TypeOK, CommitTimeout, walVars, nodeVars, rpcVars
<1>7. ASSUME NEW r \in Reqs, LeaderLogCommit(r) PROVE TypeOK'
  <2>1. apply' \in [Reqs -> ApplyCall]
    BY <1>7, <1>h, <1>e, ZenonT(40) DEF LeaderLogCommit, ApplyCall, ApplyPcs, Unfinished
  <2>2. /\ DOMAIN log' \subseteq Index
        /\ DOMAIN log \subseteq DOMAIN log'
        /\ \A i \in DOMAIN log' : log'[i] \in Log
    BY <1>7, <1>a, <1>h, <1>f DEF LeaderLogCommit, NewLog, CommitLog, Log, ApplyCall
  <2>3. nextIndex' \in [Nodes -> 0..(MaxIndex + 1)]
    BY <1>7, <1>h, <1>e DEF LeaderLogCommit
  <2>4. wal' \in [Followers -> SUBSET DOMAIN log']
    BY <1>7, <2>2, <1>b DEF LeaderLogCommit
  <2>5. cycle' \in [Nodes -> {<<>>} \cup {<<i>> : i \in DOMAIN log'}]
    BY <1>7, <2>2, <1>i, SMT DEF LeaderLogCommit, NewLog
  <2> QED
    BY <1>7, <2>1, <2>2, <2>3, <2>4, <2>5 DEF TypeOK, LeaderLogCommit, walVars, nodeVars,
       rpcVars
<1>8. ASSUME LeaderDoCommit PROVE TypeOK'
  <2>0. PICK k \in DOMAIN log : cycle[Leader] = <<k>>
    BY <1>8, <1>i DEF LeaderDoCommit
  <2>a. cycle[Leader][1] = k /\ k \in Index /\ log[k].req \in Reqs
    BY <2>0, <1>a, SMT DEF Log
  <2>b. apply' = [apply EXCEPT ![log[k].req].pc = IF @ = "await" THEN "committing" ELSE @]
    BY <1>8, <2>a DEF LeaderDoCommit
  <2>1. apply' \in [Reqs -> ApplyCall]
    BY <2>a, <2>b, <1>h, SMTT(30) DEF ApplyCall, ApplyPcs, Unfinished
  <2>2. executed' \in [Nodes -> Seq(Index)]
    BY <1>8, <1>m, <1>i, <1>a, SMTT(30) DEF LeaderDoCommit
  <2>3. lastCommit' \in [Nodes -> Index]
    BY <1>8, <1>f, <1>i, <1>a, SMT DEF LeaderDoCommit
  <2>4. handler' \in [Followers -> [Calls -> HandlerPcs]]
    BY <1>8, <1>k, <1>i, <1>a DEF LeaderDoCommit, applyRPC, HandlerPcs, Calls, Sources
  <2>5. cycle' \in [Nodes -> {<<>>} \cup {<<i>> : i \in DOMAIN log}]
    BY <1>8, <1>i DEF LeaderDoCommit
  <2> QED
    BY <1>8, <2>1, <2>2, <2>3, <2>4, <2>5, ZenonT(40) DEF TypeOK, LeaderDoCommit, walVars,
       nodeVars, rpcVars
<1>9. ASSUME NEW r \in Reqs, ReturnCommitted(r) PROVE TypeOK'
  <2>1. apply' \in [Reqs -> ApplyCall]
    BY <1>9, <1>h DEF ReturnCommitted, ApplyCall, ApplyPcs, Unfinished
  <2>2. pending' \in [Nodes -> SUBSET Index]
    BY <1>9, <1>g, <1>h DEF ReturnCommitted, MarkPrepareFinished, ApplyCall
  <2> QED
    BY <1>9, <2>1, <2>2 DEF TypeOK, ReturnCommitted, walVars, nodeVars, rpcVars
<1>10. ASSUME NEW f \in Followers, NEW i \in Index, Lose(f, i) PROVE TypeOK'
  <2>1. handler' \in [Followers -> [Calls -> HandlerPcs]]
    BY <1>10, <1>k DEF Lose, HandlerPcs, Calls, Sources
  <2>2. result' \in [Followers -> [Index -> {"none", "ok", "err", "lost"}]]
    BY <1>10, <1>j DEF Lose, Reply
  <2>3. drops' \in 0..MaxDrops
    BY <1>10, <1>o, SMT DEF Lose
  <2> QED
    BY <1>10, <2>1, <2>2, <2>3 DEF TypeOK, Lose, walVars, nodeVars, rpcVars
<1>11. ASSUME NEW f \in Followers, NEW i \in Index, Disconnect(f, i) PROVE TypeOK'
  <2>1. result' \in [Followers -> [Index -> {"none", "ok", "err", "lost"}]]
    BY <1>11, <1>j DEF Disconnect, Reply
  <2>2. drops' \in 0..MaxDrops
    BY <1>11, <1>o, SMT DEF Disconnect
  <2> QED
    BY <1>11, <2>1, <2>2 DEF TypeOK, Disconnect, walVars, nodeVars, rpcVars
<1>12. ASSUME NEW f \in Followers, NEW i \in Index, Fetch(f, i) PROVE TypeOK'
  <2>1. handler' \in [Followers -> [Calls -> HandlerPcs]]
    BY <1>12, <1>k DEF Fetch, Goto, HandlerPcs, Calls, Sources
  <2> QED
    BY <1>12, <2>1 DEF TypeOK, Fetch, walVars, nodeVars, rpcVars
<1>13. ASSUME NEW f \in Followers, NEW h \in Calls, FollowerRefuse(f, h) PROVE TypeOK'
  <2>1. handler' \in [Followers -> [Calls -> HandlerPcs]]
    BY <1>13, <1>k DEF FollowerRefuse, Fail, Goto, HandlerPcs
  <2>2. result' \in [Followers -> [Index -> {"none", "ok", "err", "lost"}]]
    BY <1>13, <1>j, SMT DEF FollowerRefuse, Fail, Reply
  <2> QED
    BY <1>13, <2>1, <2>2 DEF TypeOK, FollowerRefuse, walVars, nodeVars, rpcVars
<1>14. ASSUME NEW f \in Followers, NEW h \in Calls, FollowerLogPrepare(f, h) PROVE TypeOK'
  <2>1. handler' \in [Followers -> [Calls -> HandlerPcs]]
    BY <1>14, <1>k, SMTT(30) DEF FollowerLogPrepare, Fail, Goto, HandlerPcs
  <2>2. result' \in [Followers -> [Index -> {"none", "ok", "err", "lost"}]]
    BY <1>14, <1>j, SMT DEF FollowerLogPrepare, Fail, Reply
  <2> QED
    BY <1>14, <2>1, <2>2 DEF TypeOK, FollowerLogPrepare, walVars, nodeVars, rpcVars
<1>28. ASSUME NEW f \in Followers, NEW h \in Calls, FollowerWritePrepare(f, h) PROVE TypeOK'
  <2>1. wal' \in [Followers -> SUBSET DOMAIN log]
    BY <1>28, <1>b, <1>p, SMT DEF FollowerWritePrepare, At
  <2>2. handler' \in [Followers -> [Calls -> HandlerPcs]]
    BY <1>28, <1>k, SMTT(30) DEF FollowerWritePrepare, Goto, HandlerPcs
  <2> QED
    BY <1>28, <2>1, <2>2 DEF TypeOK, FollowerWritePrepare, walVars, nodeVars, rpcVars
<1>15. ASSUME NEW f \in Followers, NEW h \in Calls, FollowerMarkPrepare(f, h) PROVE TypeOK'
  <2>1. pending' \in [Nodes -> SUBSET Index]
    BY <1>15, <1>g DEF FollowerMarkPrepare
  <2>2. handler' \in [Followers -> [Calls -> HandlerPcs]]
    BY <1>15, <1>k DEF FollowerMarkPrepare, Succeed, Goto, HandlerPcs
  <2>3. result' \in [Followers -> [Index -> {"none", "ok", "err", "lost"}]]
    BY <1>15, <1>j, SMT DEF FollowerMarkPrepare, Succeed, Reply
  <2>4. nextIndex' \in [Nodes -> 0..(MaxIndex + 1)]
    BY <1>15, <1>e DEF FollowerMarkPrepare, Succeed
  <2>5. item' \in [Followers -> [Index -> {"none", "run", "set"}]]
    BY <1>15, <1>l, ZenonT(40) DEF FollowerMarkPrepare, Succeed
  <2> QED
    BY <1>15, <2>1, <2>2, <2>3, <2>4, <2>5 DEF TypeOK, FollowerMarkPrepare, walVars,
       nodeVars, rpcVars
<1>16. ASSUME NEW f \in Followers, NEW h \in Calls, WaitPrepare(f, h) PROVE TypeOK'
  <2>1. handler' \in [Followers -> [Calls -> HandlerPcs]]
    BY <1>16, <1>k DEF WaitPrepare, Goto, HandlerPcs
  <2>2. item' \in [Followers -> [Index -> {"none", "run", "set"}]]
    BY <1>16, <1>l, <1>p DEF WaitPrepare, At, AwaitLog, Log
  <2> QED
    BY <1>16, <2>1, <2>2 DEF TypeOK, WaitPrepare, walVars, nodeVars, rpcVars
<1>17. ASSUME NEW f \in Followers, NEW h \in Calls, FollowerRollback(f, h) PROVE TypeOK'
  <2>0. h[2] \in DOMAIN log
    BY <1>17, <1>p DEF FollowerRollback, HavePrepare, At
  <2>1. wal' \in [Followers -> SUBSET DOMAIN log]
    BY <1>17, <1>b, <2>0, SMT DEF FollowerRollback
  <2>2. pending' \in [Nodes -> SUBSET Index]
    BY <1>17, <1>g DEF FollowerRollback, MarkPrepareFinished
  <2>a. handler' = [handler EXCEPT ![f][h] = "none"]
    BY <1>17 DEF FollowerRollback, Fail, Succeed, Goto
  <2>3. handler' \in [Followers -> [Calls -> HandlerPcs]]
    BY <2>a, <1>k DEF HandlerPcs
  <2>4. result' \in [Followers -> [Index -> {"none", "ok", "err", "lost"}]]
    BY <1>17, <1>j, SMT DEF FollowerRollback, Fail, Succeed, Reply
  <2>5. nextIndex' \in [Nodes -> 0..(MaxIndex + 1)]
    BY <1>17, <1>e, SMT DEF FollowerRollback, Succeed
  <2>6. item' \in [Followers -> [Index -> {"none", "run", "set"}]]
    BY <1>17, <1>l, SMT DEF FollowerRollback, Succeed
  <2> QED
    BY <1>17, <2>1, <2>2, <2>3, <2>4, <2>5, <2>6, ZenonT(40) DEF TypeOK, FollowerRollback,
       walVars, nodeVars, rpcVars
<1>18. ASSUME NEW f \in Followers, NEW h \in Calls, WaitLast(f, h) PROVE TypeOK'
  <2>1. handler' \in [Followers -> [Calls -> HandlerPcs]]
    BY <1>18, <1>k DEF WaitLast, Goto, HandlerPcs
  <2>2. item' \in [Followers -> [Index -> {"none", "run", "set"}]]
    BY <1>18, <1>l, <1>p DEF WaitLast, HavePrepare, At, AwaitLog, Log
  <2> QED
    BY <1>18, <2>1, <2>2, ZenonT(40) DEF TypeOK, WaitLast, walVars, nodeVars, rpcVars
<1>19. ASSUME NEW f \in Followers, NEW h \in Calls, CheckCommit(f, h) PROVE TypeOK'
  <2>1. handler' \in [Followers -> [Calls -> HandlerPcs]]
    BY <1>19, <1>k, SMT DEF CheckCommit, Fail, Goto, HandlerPcs
  <2>2. result' \in [Followers -> [Index -> {"none", "ok", "err", "lost"}]]
    BY <1>19, <1>j, SMT DEF CheckCommit, Fail, Reply
  <2> QED
    BY <1>19, <2>1, <2>2 DEF TypeOK, CheckCommit, walVars, nodeVars, rpcVars
<1>20. ASSUME NEW f \in Followers, NEW h \in Calls, FollowerLogCommit(f, h) PROVE TypeOK'
  <2>1. wal' \in [Followers -> SUBSET DOMAIN log]
    BY <1>20, <1>b, <1>p, SMT DEF FollowerLogCommit, At
  <2>2. cycle' \in [Nodes -> {<<>>} \cup {<<i>> : i \in DOMAIN log}]
    BY <1>20, <1>i, <1>p, SMT DEF FollowerLogCommit, At
  <2>3. handler' \in [Followers -> [Calls -> HandlerPcs]]
    BY <1>20, <1>k, SMT DEF FollowerLogCommit, Goto, HandlerPcs
  <2> QED
    BY <1>20, <2>1, <2>2, <2>3 DEF TypeOK, FollowerLogCommit, walVars, nodeVars, rpcVars
<1>21. ASSUME NEW f \in Followers, NEW h \in Calls, FollowerReorder(f, h) PROVE TypeOK'
  <2>1. handler' \in [Followers -> [Calls -> HandlerPcs]]
    BY <1>21, <1>k DEF FollowerReorder, Goto, HandlerPcs
  <2> QED
    BY <1>21, <2>1, ZenonT(40) DEF TypeOK, FollowerReorder, walVars, nodeVars, rpcVars
<1>22. ASSUME NEW f \in Followers, NEW h \in Calls, Requeue(f, h) PROVE TypeOK'
  <2>1. handler' \in [Followers -> [Calls -> HandlerPcs]]
    BY <1>22, <1>k DEF Requeue, Goto, HandlerPcs
  <2> QED
    BY <1>22, <2>1 DEF TypeOK, Requeue, walVars, nodeVars, rpcVars
<1>23. ASSUME NEW f \in Followers, NEW h \in Calls, FollowerDoCommit(f, h) PROVE TypeOK'
  <2>1. executed' \in [Nodes -> Seq(Index)]
    BY <1>23, <1>m, SMT DEF FollowerDoCommit
  <2>2. lastCommit' \in [Nodes -> Index]
    BY <1>23, <1>f DEF FollowerDoCommit
  <2>3. cycle' \in [Nodes -> {<<>>} \cup {<<i>> : i \in DOMAIN log}]
    BY <1>23, <1>i, <1>p DEF FollowerDoCommit
  <2>4. handler' \in [Followers -> [Calls -> HandlerPcs]]
    BY <1>23, <1>k DEF FollowerDoCommit, Goto, HandlerPcs
  <2> QED
    BY <1>23, <2>1, <2>2, <2>3, <2>4 DEF TypeOK, FollowerDoCommit, walVars, nodeVars, rpcVars
<1>24. ASSUME NEW f \in Followers, NEW h \in Calls, FollowerReturnCommit(f, h) PROVE TypeOK'
  <2>1. pending' \in [Nodes -> SUBSET Index]
    BY <1>24, <1>g DEF FollowerReturnCommit, MarkPrepareFinished
  <2>2. handler' \in [Followers -> [Calls -> HandlerPcs]]
    BY <1>24, <1>k DEF FollowerReturnCommit, Succeed, Goto, HandlerPcs
  <2>3. result' \in [Followers -> [Index -> {"none", "ok", "err", "lost"}]]
    BY <1>24, <1>j, SMT DEF FollowerReturnCommit, Succeed, Reply
  <2>4. nextIndex' \in [Nodes -> 0..(MaxIndex + 1)]
    BY <1>24, <1>e DEF FollowerReturnCommit, Succeed
  <2>5. item' \in [Followers -> [Index -> {"none", "run", "set"}]]
    BY <1>24, <1>l DEF FollowerReturnCommit, Succeed
  <2> QED
    BY <1>24, <2>1, <2>2, <2>3, <2>4, <2>5 DEF TypeOK, FollowerReturnCommit, walVars,
       nodeVars, rpcVars
<1>25. ASSUME NEW n \in Nodes, Crash(n) PROVE TypeOK'
  <2>1. /\ crashes' \in [Nodes -> 0..MaxCrashes]
        /\ cursor' \in [Nodes -> 0..(MaxIndex + 1)]
        /\ nextIndex' \in [Nodes -> 0..(MaxIndex + 1)]
    BY <1>25, <1>d, <1>e, <1>n, SMTT(30) DEF Crash
  <2>2. /\ status' \in [Nodes -> {"up", "reading", "failed", "hung"}]
        /\ lastCommit' \in [Nodes -> Index]
        /\ pending' \in [Nodes -> SUBSET Index]
    BY <1>25, <1>c, <1>f, <1>g DEF Crash
  <2>3. cycle' \in [Nodes -> {<<>>} \cup {<<i>> : i \in DOMAIN log}]
    BY <1>25, <1>i DEF Crash
  <2>4. CASE n = Leader
    <3>0. apply' = [r \in Reqs |-> IF apply[r].pc \in Unfinished
                                  THEN [apply[r] EXCEPT !.pc = "crashed"]
                                  ELSE apply[r]]
      BY <1>25, <2>4 DEF Crash
    <3>1. apply' \in [Reqs -> ApplyCall]
      BY <3>0, <1>h, SMT DEF ApplyCall, ApplyPcs
    <3> QED
      BY <1>25, <2>1, <2>2, <2>3, <2>4, <3>1 DEF TypeOK, Crash, walVars
  <2>5. CASE n # Leader
    <3>1. n \in Followers
      BY <2>5
    <3>2. handler' \in [Followers -> [Calls -> HandlerPcs]]
      BY <1>25, <2>5, <3>1, <1>k, SMTT(30) DEF Crash, HandlerPcs
    <3>a. item' = [item EXCEPT ![n] = [i \in Index |-> "none"]]
      BY <1>25, <2>5 DEF Crash
    <3>3. item' \in [Followers -> [Index -> {"none", "run", "set"}]]
      BY <3>a, <3>1, <1>l
    <3>4. result' \in [Followers -> [Index -> {"none", "ok", "err", "lost"}]]
      <4>1. result' = [result EXCEPT ![n] =
                [i \in Index |-> IF /\ handler[n][<<"rpc", i>>] # "none"
                                    /\ Arrived(n, <<"rpc", i>>)
                                    /\ result[n][i] = "none"
                                 THEN "lost" ELSE result[n][i]]]
        BY <1>25, <2>5 DEF Crash
      <4> QED
        BY <4>1, <3>1, <1>j
    <3> QED
      BY <1>25, <2>1, <2>2, <2>3, <2>5, <3>2, <3>3, <3>4 DEF TypeOK, Crash, walVars
  <2> QED
    BY <2>4, <2>5
<1>26. ASSUME NEW n \in Nodes, ReadLog(n) PROVE TypeOK'
  <2>1. PICK i \in Wal(n) : ReadLog(n)!2!(i)
    BY <1>26 DEF ReadLog
  <2>2. i \in DOMAIN log /\ log[i] \in Log /\ i \in Index
    BY <1>a, <1>b DEF Wal
  <2>3. status' \in [Nodes -> {"up", "reading", "failed", "hung"}]
    BY <2>1, <1>c
  <2>4. /\ cursor' \in [Nodes -> 0..(MaxIndex + 1)]
        /\ nextIndex' \in [Nodes -> 0..(MaxIndex + 1)]
        /\ lastCommit' \in [Nodes -> Index]
        /\ pending' \in [Nodes -> SUBSET Index]
    <3>1. cursor' \in [Nodes -> 0..(MaxIndex + 1)]
      <4>1. cursor' = cursor \/ cursor' = [cursor EXCEPT ![n] = i + 1]
        BY <2>1
      <4> QED
        BY <2>2, <4>1, <1>d, IndexFact
    <3>2. nextIndex' \in [Nodes -> 0..(MaxIndex + 1)]
      <4>1. nextIndex' = nextIndex \/ nextIndex' = [nextIndex EXCEPT ![n] = i + 1]
        BY <2>1
      <4> QED
        BY <2>2, <4>1, <1>e, IndexFact
    <3>3. lastCommit' \in [Nodes -> Index]
      BY <2>1, <2>2, <1>f
    <3>4. pending' \in [Nodes -> SUBSET Index]
      BY <2>1, <2>2, <1>g, SMT
    <3> QED
      BY <3>1, <3>2, <3>3, <3>4
  <2> QED
    BY <1>26, <2>3, <2>4 DEF TypeOK, ReadLog, walVars, rpcVars
<1>27. ASSUME NEW n \in Nodes, ReadEOF(n) PROVE TypeOK'
  <2>1. status' \in [Nodes -> {"up", "reading", "failed", "hung"}]
    BY <1>27, <1>c DEF ReadEOF
  <2> QED
    BY <1>27, <2>1 DEF TypeOK, ReadEOF, walVars, rpcVars
<1> QED
  BY  <1>1, <1>2, <1>3, <1>4, <1>5, <1>6, <1>7, <1>8, <1>9, <1>10, <1>11, <1>12, <1>13, <1>14,
     <1>15, <1>16, <1>17, <1>18, <1>19, <1>20, <1>21, <1>22, <1>23, <1>24, <1>25, <1>26, <1>27,
     <1>28
  DEF Next, LeaderNext, RPCNext, FollowerNext, HandlerStep, CommitQueueStep, CrashNext

-----------------------------------------------------------------------------
(***************************************************************************)
(* What the steps of the parts leave alone.                                *)
(***************************************************************************)
SameNode(n) ==
  /\ nextIndex'[n] = nextIndex[n]
  /\ lastCommit'[n] = lastCommit[n]
  /\ cycle'[n] = cycle[n]
  /\ executed'[n] = executed[n]

SameLeader ==
  UNCHANGED <<log, status, cursor, apply, crashes>> /\ SameNode(Leader)

SameFollowers ==
  /\ UNCHANGED <<wal, status, cursor, result, item, crashes>>
  /\ \A f \in Followers : SameNode(f)

\* Followers and calls change nothing of the leader, and write no logs.
LEMMA LeaderFrame ==
  ASSUME TypeOK, RPCNext \/ FollowerNext
  PROVE  SameLeader
<1> USE KayakAssumption DEF TypeOK, Nodes, walVars, nodeVars, rpcVars, SameNode, SameLeader,
                            SameFollowers
<1>1. ASSUME NEW f \in Followers, NEW i \in Index,
             Lose(f, i) \/ Disconnect(f, i) \/ Fetch(f, i)
      PROVE  SameLeader
  BY <1>1 DEF Lose, Disconnect, Fetch
<1>2. ASSUME NEW f \in Followers, NEW h \in Calls,
             \/ FollowerRefuse(f, h) \/ FollowerLogPrepare(f, h) \/ WaitPrepare(f, h)
             \/ WaitLast(f, h) \/ CheckCommit(f, h) \/ FollowerReorder(f, h)
             \/ Requeue(f, h)
      PROVE  SameLeader
  BY <1>2 DEF FollowerRefuse, FollowerLogPrepare, WaitPrepare, WaitLast, CheckCommit,
              FollowerReorder, Requeue
<1>3. ASSUME NEW f \in Followers, NEW h \in Calls,
             \/ FollowerMarkPrepare(f, h) \/ FollowerRollback(f, h)
             \/ FollowerReturnCommit(f, h)
      PROVE  SameLeader
  BY <1>3 DEF FollowerMarkPrepare, FollowerRollback, FollowerReturnCommit, Succeed
<1>4. ASSUME NEW f \in Followers, NEW h \in Calls,
             \/ FollowerWritePrepare(f, h) \/ FollowerLogCommit(f, h)
             \/ FollowerDoCommit(f, h)
      PROVE  SameLeader
  BY <1>4 DEF FollowerWritePrepare, FollowerLogCommit, FollowerDoCommit
<1> HIDE DEF TypeOK, Nodes, walVars, nodeVars, rpcVars, SameNode, SameLeader, SameFollowers
<1> QED
  BY <1>1, <1>2, <1>3, <1>4
  DEF RPCNext, FollowerNext, HandlerStep, CommitQueueStep

\* The leader's steps change nothing of the followers but the calls they get.
LEMMA FollowerFrame ==
  ASSUME TypeOK, LeaderNext
  PROVE  SameFollowers
<1> USE KayakAssumption DEF TypeOK, Nodes, walVars, nodeVars, rpcVars, SameNode, SameLeader,
                            SameFollowers
<1>1. CASE LeaderDoCommit
  BY <1>1 DEF LeaderDoCommit
<1>2. ASSUME NEW r \in Reqs,
             AllocPrepare(r) \/ LogPrepare(r) \/ PrepareOk(r) \/ PrepareFailed(r)
      PROVE  SameFollowers
  BY <1>2 DEF AllocPrepare, LogPrepare, PrepareOk, PrepareFailed
<1>3. ASSUME NEW r \in Reqs,
             CommitTimeout(r) \/ LeaderLogCommit(r) \/ ReturnCommitted(r)
      PROVE  SameFollowers
  BY <1>3 DEF CommitTimeout, LeaderLogCommit, ReturnCommitted
<1> HIDE DEF TypeOK, Nodes, walVars, nodeVars, rpcVars, SameNode, SameLeader, SameFollowers
<1> QED
  BY <1>1, <1>2, <1>3 DEF LeaderNext

-----------------------------------------------------------------------------
(***************************************************************************)
(* The log of the leader.                                                  *)
(***************************************************************************)
\* Who writes logs.
LEMMA LogFrame ==
  ASSUME TypeOK, [Next]_vars
  PROVE  \/ UNCHANGED log
         \/ \E r \in Reqs : LogPrepare(r) \/ PrepareFailed(r) \/ LeaderLogCommit(r)
<1>1. CASE UNCHANGED vars
  BY <1>1 DEF vars
<1>2. CASE RPCNext \/ FollowerNext
  BY <1>2, LeaderFrame DEF SameLeader
<1>3. CASE CrashNext
  BY <1>3 DEF CrashNext, Crash, ReadLog, ReadEOF, walVars
<1>4. CASE LeaderNext
  BY <1>4 DEF LeaderNext, LeaderDoCommit, AllocPrepare, PrepareOk, CommitTimeout,
              ReturnCommitted, walVars
<1> QED
  BY <1>1, <1>2, <1>3, <1>4 DEF Next

\* newLog writes at a new index: where it does, and that it exceeds the others.
LEMMA FreshIndex ==
  ASSUME TypeOK, AllocInv, NEW r \in Reqs
  PROVE  /\ apply[r].pc = "logging" => apply[r].index \in Index \ DOMAIN log
         /\ apply[r].pc \in {"preparing", "enqueue"} =>
              /\ nextIndex[Leader] \notin DOMAIN log
              /\ nextIndex[Leader] # 0
              /\ \A i \in DOMAIN log : i < nextIndex[Leader]
  BY KayakAssumption, IndexFact, SMTT(30) DEF TypeOK, AllocInv, CallInv, Unfinished, ApplyCall, Nodes,
                                     Index

\* What a new log leaves alone.
LEMMA NewLogFact ==
  ASSUME NEW i, i \notin DOMAIN log, NEW l, NewLog(i, l)
  PROVE  /\ DOMAIN log' = DOMAIN log \cup {i}
         /\ log'[i] = l
         /\ \A j \in DOMAIN log : log'[j] = log[j]
         /\ \A c \in Commits : log'[c] = log[c]
         /\ Commits' = IF l.type = "commit" THEN Commits \cup {i} ELSE Commits
  BY DEF NewLog, Commits

\* The three steps that write a log.
LEMMA LogPrepareFact ==
  ASSUME TypeOK, AllocInv, NEW r \in Reqs, LogPrepare(r)
  PROVE  /\ apply[r].index \in Index \ DOMAIN log
         /\ DOMAIN log' = DOMAIN log \cup {apply[r].index}
         /\ log'[apply[r].index] = PrepareLog(r)
         /\ \A j \in DOMAIN log : log'[j] = log[j]
         /\ Commits' = Commits
<1>1. apply[r].index \in Index \ DOMAIN log
  BY FreshIndex DEF LogPrepare
<1>2. NewLog(apply[r].index, PrepareLog(r))
  BY DEF LogPrepare
<1>3. PrepareLog(r).type # "commit"
  BY DEF PrepareLog
<1> QED
  BY <1>1, <1>2, <1>3, NewLogFact

\* doLeaderRollback logs the rollback of its prepare at a fresh index.
LEMMA PrepareFailedFact ==
  ASSUME TypeOK, AllocInv, NEW r \in Reqs, PrepareFailed(r)
  PROVE  /\ nextIndex[Leader] \in Index \ DOMAIN log
         /\ DOMAIN log' = DOMAIN log \cup {nextIndex[Leader]}
         /\ log'[nextIndex[Leader]] = RollbackLog(r, apply[r].index)
         /\ \A j \in DOMAIN log : log'[j] = log[j]
         /\ Commits' = Commits
<1>1. nextIndex[Leader] \in Index \ DOMAIN log
  BY FreshIndex DEF PrepareFailed
<1>2. NewLog(nextIndex[Leader], RollbackLog(r, apply[r].index))
  BY DEF PrepareFailed
<1>3. RollbackLog(r, apply[r].index).type # "commit"
  BY DEF RollbackLog
<1> QED
  BY <1>1, <1>2, <1>3, NewLogFact

\* leaderDoCommit logs a commit at a fresh index, above every earlier commit.
LEMMA LeaderLogCommitFact ==
  ASSUME TypeOK, AllocInv, PositionInv, NEW r \in Reqs, LeaderLogCommit(r)
  PROVE  /\ nextIndex[Leader] \in Index \ DOMAIN log
         /\ DOMAIN log' = DOMAIN log \cup {nextIndex[Leader]}
         /\ log'[nextIndex[Leader]] =
              CommitLog(r, apply[r].index, lastCommit[Leader])
         /\ \A j \in DOMAIN log : log'[j] = log[j]
         /\ Commits' = Commits \cup {nextIndex[Leader]}
         /\ nextIndex[Leader] # 0
         /\ \A i \in DOMAIN log : i < nextIndex[Leader]
         /\ IsLast(lastCommit[Leader], Commits)
<1>1. /\ nextIndex[Leader] \in Index \ DOMAIN log
      /\ nextIndex[Leader] # 0
      /\ \A i \in DOMAIN log : i < nextIndex[Leader]
  BY FreshIndex DEF LeaderLogCommit
<1>2. NewLog(nextIndex[Leader], CommitLog(r, apply[r].index, lastCommit[Leader]))
  BY DEF LeaderLogCommit
<1>3. CommitLog(r, apply[r].index, lastCommit[Leader]).type = "commit"
  BY DEF CommitLog
<1>4. IsLast(lastCommit[Leader], CommitsOf(Leader))
  BY DEF LeaderLogCommit, PositionInv, Position, AllocInv, CallInv, Unfinished, Nodes
<1>5. CommitsOf(Leader) = Commits
  BY DEF CommitsOf, Wal, Commits
<1> QED
  BY <1>1, <1>2, <1>3, <1>4, <1>5, NewLogFact, ZenonT(40)

SameLogs ==
  /\ DOMAIN log \subseteq DOMAIN log'
  /\ \A i \in DOMAIN log : log'[i] = log[i]
  /\ Commits \subseteq Commits'

\* Logs are never changed or removed.
LEMMA LogGrows ==
  ASSUME TypeOK, AllocInv, PositionInv, [Next]_vars
  PROVE  SameLogs
<1>1. CASE UNCHANGED log
  BY <1>1 DEF SameLogs, Commits
<1> QED
  BY <1>1, LogFrame, LogPrepareFact, PrepareFailedFact, LeaderLogCommitFact DEF SameLogs

\* The chain of commit logs only grows at its end.
LEMMA ChainNext ==
  ASSUME TypeOK, ChainInv, AllocInv, PositionInv, [Next]_vars
  PROVE  ChainInv'
<1>1. CASE UNCHANGED log
  BY <1>1 DEF ChainInv, Commits
<1>2. ASSUME NEW r \in Reqs, LogPrepare(r) \/ PrepareFailed(r)
      PROVE  ChainInv'
  BY <1>2, NatFacts, LogPrepareFact, PrepareFailedFact DEF ChainInv
<1>3. ASSUME NEW r \in Reqs, LeaderLogCommit(r)
      PROVE  ChainInv'
  <2> DEFINE k == nextIndex[Leader]
             v == lastCommit[Leader]
  <2>1. /\ k # 0
        /\ log'[k] = CommitLog(r, apply[r].index, v)
        /\ Commits' = Commits \cup {k}
        /\ \A i \in DOMAIN log : i < k /\ log'[i] = log[i]
        /\ IsLast(v, Commits)
    BY <1>3, LeaderLogCommitFact
  <2>2. /\ k \in Nat /\ v \in Nat /\ Commits \subseteq Nat
        /\ Commits \subseteq DOMAIN log
    BY NatFacts DEF Nodes
  <2>3. log'[k].last = v
    BY <2>1, SMT DEF CommitLog
  <2> HIDE DEF k, v
  <2>4. v < k
    BY <2>1, <2>2, SMT DEF IsLast
  <2>5. 0 \notin Commits'
    BY <2>1 DEF ChainInv
  <2>6. ASSUME NEW c \in Commits'
        PROVE  /\ log'[c].last < c
               /\ log'[c].last = 0 \/ log'[c].last \in Commits'
               /\ \A d \in Commits' : d < c => d <= log'[c].last
    <3>1. CASE c = k
      <4>1. log'[c].last = v
        BY <3>1, <2>3
      <4>2. \A d \in Commits' : d < c => d \in Commits
        BY <3>1, <2>1, <2>2, SMT
      <4>3. (\A d \in Commits : d <= v) /\ (v = 0 \/ v \in Commits')
        BY <2>1 DEF IsLast
      <4> QED
        BY <3>1, <4>1, <4>2, <4>3, <2>4
    <3>2. CASE c \in Commits
      <4>1. log'[c] = log[c] /\ c < k
        BY <3>2, <2>1, <2>2
      <4>2. \A d \in Commits' : d < c => d \in Commits
        BY <3>2, <4>1, <2>1, <2>2, SMT
      <4> QED
        BY <3>2, <4>1, <4>2, <2>1 DEF ChainInv
    <3> QED
      BY <3>1, <3>2, <2>1
  <2> QED
    BY <2>5, <2>6 DEF ChainInv
<1> QED
  BY <1>1, <1>2, <1>3, LogFrame

-----------------------------------------------------------------------------
(***************************************************************************)
(* Apply calls.                                                            *)
(***************************************************************************)
\* What the steps of Apply do to the calls: one of them moves on.
Moves(r, pcs) ==
  /\ apply' \in [Reqs -> ApplyCall]
  /\ \A q \in Reqs \ {r} : apply'[q] = apply[q]
  /\ apply'[r].index = apply[r].index
  /\ apply'[r].pc \in pcs

\* Which state each step of Apply and of the commit cycle moves a call to.
LEMMA MoveFacts ==
  ASSUME TypeOK, TypeOK', NEW r \in Reqs
  PROVE  /\ LogPrepare(r) => Moves(r, {"preparing"})
         /\ PrepareOk(r) => Moves(r, {"enqueue"})
         /\ PrepareFailed(r) => Moves(r, {"rolledback"})
         /\ CommitTimeout(r) => Moves(r, {"timeout"})
         /\ LeaderLogCommit(r) => Moves(r, {"await"})
         /\ ReturnCommitted(r) => Moves(r, {"done"})
<1>1. apply \in [Reqs -> ApplyCall] /\ apply' \in [Reqs -> ApplyCall]
  BY DEF TypeOK
<1> QED
  BY <1>1, SMT DEF Moves, ApplyCall, LogPrepare, PrepareOk, PrepareFailed, CommitTimeout,
              LeaderLogCommit, ReturnCommitted

\* Every log keeps belonging to the Apply call that wrote it.
LEMMA DecisionNext ==
  ASSUME TypeOK, TypeOK', DecisionInv, AllocInv, PositionInv, [Next]_vars
  PROVE  DecisionInv'
<1>a. \A i \in DOMAIN log : log[i].req \in Reqs
  BY DEF TypeOK, Log
<1>1. CASE UNCHANGED <<log, apply>>
  BY <1>1 DEF DecisionInv, Owned
<1>2. ASSUME NEW r \in Reqs, AllocPrepare(r) PROVE DecisionInv'
  <2>1. /\ log' = log
        /\ apply[r].pc = "new"
        /\ \A q \in Reqs \ {r} : apply'[q] = apply[q]
    BY <1>2 DEF AllocPrepare, walVars, TypeOK
  <2>2. \A i \in DOMAIN log : log[i].req # r
    BY <2>1, SMT DEF DecisionInv, Owned
  <2> QED
    BY <1>a, <2>1, <2>2, SMT DEF DecisionInv, Owned
<1>3. ASSUME NEW r \in Reqs, LogPrepare(r) PROVE DecisionInv'
  <2>1. Moves(r, {"preparing"}) /\ apply[r].pc = "logging"
    BY <1>3, MoveFacts DEF LogPrepare
  <2>2. \A i \in DOMAIN log : log[i].req # r
    BY <2>1 DEF DecisionInv, Owned
  <2>0. PICK k \in Index : k = apply[r].index
    BY DEF TypeOK, ApplyCall
  <2>3. PrepareLog(r).type = "prepare" /\ PrepareLog(r).req = r
    BY DEF PrepareLog
  <2>4. /\ k \notin DOMAIN log
        /\ DOMAIN log' = DOMAIN log \cup {k}
        /\ log'[k] = PrepareLog(r)
        /\ \A j \in DOMAIN log : log'[j] = log[j]
    BY <1>3, <2>0, LogPrepareFact
  <2>5. Owned(k)'
    <3>1. apply'[r].index = k /\ apply'[r].pc = "preparing"
      BY <2>0, <2>1 DEF Moves
    <3> QED
      BY <2>3, <2>4, <3>1 DEF Owned
  <2>6. ASSUME NEW i \in DOMAIN log PROVE Owned(i)'
    <3>1. Owned(i) /\ log'[i] = log[i] /\ apply'[log[i].req] = apply[log[i].req]
      BY <1>a, <2>1, <2>2, <2>4 DEF DecisionInv, Moves
    <3>2. log[i].type # "prepare" => log'[log[i].ref] = log[log[i].ref]
      BY <2>4, <3>1 DEF Owned
    <3> QED
      BY <2>4, <3>1, <3>2 DEF Owned
  <2> QED
    BY <2>5, <2>6, <2>4 DEF DecisionInv
<1>4. ASSUME NEW r \in Reqs, PrepareOk(r) PROVE DecisionInv'
  <2>1. Moves(r, {"enqueue"}) /\ apply[r].pc = "preparing" /\ log' = log
    BY <1>4, MoveFacts DEF PrepareOk, walVars
  <2> QED
    BY <1>a, <2>1, SMT DEF DecisionInv, Owned, Moves
<1>5. ASSUME NEW r \in Reqs, PrepareFailed(r) PROVE DecisionInv'
  <2>0. PICK k \in Index : k = nextIndex[Leader]
    BY <1>5, PrepareFailedFact, LeaderLogCommitFact
  <2>a. PICK l : l = RollbackLog(r, apply[r].index)
    OBVIOUS
  <2>1. Moves(r, {"rolledback"}) /\ apply[r].pc = "preparing"
    BY <1>5, MoveFacts DEF PrepareFailed
  <2>2. /\ apply[r].index \in DOMAIN log
        /\ log[apply[r].index].type = "prepare"
        /\ log[apply[r].index].req = r
    <3>1. apply[r].index \in DOMAIN log /\ log[apply[r].index] = PrepareLog(r)
      BY <2>1 DEF AllocInv, CallInv
    <3> QED
      BY <3>1, SMT DEF PrepareLog
  <2>3. l.type = "rollback" /\ l.req = r /\ l.ref = apply[r].index
    BY <2>a DEF RollbackLog
  <2>4. /\ k \notin DOMAIN log
        /\ DOMAIN log' = DOMAIN log \cup {k}
        /\ log'[k] = l
        /\ \A j \in DOMAIN log : log'[j] = log[j]
    BY <1>5, <2>0, <2>a, PrepareFailedFact
  <2>5. /\ apply'[r].index = apply[r].index
        /\ apply'[r].pc \in {"rolledback", "await"}
        /\ l.type = "rollback" => apply'[r].pc = "rolledback"
        /\ l.type = "commit" => apply'[r].pc = "await"
        /\ \A q \in Reqs \ {r} : apply'[q] = apply[q]
    BY <2>1, <2>3 DEF Moves
  <2>6. \A j \in DOMAIN log : log[j].req = r => log[j].type = "prepare"
    BY <2>1 DEF DecisionInv, Owned, TypeOK, Log
  <2>7. log'[apply[r].index] = log[apply[r].index]
    BY <2>2, <2>4
  <2>8. Owned(k)'
    BY <2>2, <2>3, <2>4, <2>5, <2>7 DEF Owned
  <2>9. ASSUME NEW i \in DOMAIN log PROVE Owned(i)'
    <3>1. Owned(i) /\ log'[i] = log[i]
      BY <2>4 DEF DecisionInv
    <3>2. log[i].type # "prepare" => log'[log[i].ref] = log[log[i].ref]
      BY <2>4, <3>1 DEF Owned
    <3>3. CASE log[i].req = r
      BY <2>5, <2>6, <3>1, <3>3 DEF Owned
    <3>4. CASE log[i].req # r
      BY <1>a, <2>4, <2>5, <3>1, <3>2, <3>4, SMT DEF Owned
    <3> QED
      BY <3>3, <3>4
  <2> QED
    BY <2>4, <2>8, <2>9 DEF DecisionInv
<1>6. ASSUME NEW r \in Reqs, LeaderLogCommit(r) PROVE DecisionInv'
  <2>0. PICK k \in Index : k = nextIndex[Leader]
    BY <1>6, PrepareFailedFact, LeaderLogCommitFact
  <2>a. PICK l : l = CommitLog(r, apply[r].index, lastCommit[Leader])
    OBVIOUS
  <2>1. Moves(r, {"await"}) /\ apply[r].pc = "enqueue"
    BY <1>6, MoveFacts DEF LeaderLogCommit
  <2>2. /\ apply[r].index \in DOMAIN log
        /\ log[apply[r].index].type = "prepare"
        /\ log[apply[r].index].req = r
    <3>1. apply[r].index \in DOMAIN log /\ log[apply[r].index] = PrepareLog(r)
      BY <2>1 DEF AllocInv, CallInv
    <3> QED
      BY <3>1, SMT DEF PrepareLog
  <2>3. l.type = "commit" /\ l.req = r /\ l.ref = apply[r].index
    BY <2>a DEF CommitLog
  <2>4. /\ k \notin DOMAIN log
        /\ DOMAIN log' = DOMAIN log \cup {k}
        /\ log'[k] = l
        /\ \A j \in DOMAIN log : log'[j] = log[j]
    BY <1>6, <2>0, <2>a, LeaderLogCommitFact
  <2>5. /\ apply'[r].index = apply[r].index
        /\ apply'[r].pc \in {"rolledback", "await"}
        /\ l.type = "rollback" => apply'[r].pc = "rolledback"
        /\ l.type = "commit" => apply'[r].pc = "await"
        /\ \A q \in Reqs \ {r} : apply'[q] = apply[q]
    BY <2>1, <2>3 DEF Moves
  <2>6. \A j \in DOMAIN log : log[j].req = r => log[j].type = "prepare"
    BY <2>1, ZenonT(40) DEF DecisionInv, Owned, TypeOK, Log
  <2>7. log'[apply[r].index] = log[apply[r].index]
    BY <2>2, <2>4
  <2>8. Owned(k)'
    BY <2>2, <2>3, <2>4, <2>5, <2>7 DEF Owned
  <2>9. ASSUME NEW i \in DOMAIN log PROVE Owned(i)'
    <3>1. Owned(i) /\ log'[i] = log[i]
      BY <2>4 DEF DecisionInv
    <3>2. log[i].type # "prepare" => log'[log[i].ref] = log[log[i].ref]
      BY <2>4, <3>1 DEF Owned
    <3>3. CASE log[i].req = r
      BY <2>5, <2>6, <3>1, <3>3 DEF Owned
    <3>4. CASE log[i].req # r
      BY <1>a, <2>4, <2>5, <3>1, <3>2, <3>4, SMT DEF Owned
    <3> QED
      BY <3>3, <3>4
  <2> QED
    BY <2>4, <2>8, <2>9 DEF DecisionInv
<1>7. ASSUME NEW r \in Reqs, CommitTimeout(r) PROVE DecisionInv'
  <2>1. /\ Moves(r, {"timeout"}) /\ apply[r].pc \in {"enqueue", "await"}
        /\ log' = log
    BY <1>7, MoveFacts DEF CommitTimeout, walVars
  <2> QED
    BY <1>a, <2>1, SMT DEF DecisionInv, Owned, Moves
<1>8. ASSUME NEW r \in Reqs, ReturnCommitted(r) PROVE DecisionInv'
  <2>1. Moves(r, {"done"}) /\ apply[r].pc = "committing" /\ log' = log
    BY <1>8, MoveFacts, ZenonT(40) DEF ReturnCommitted, walVars
  <2> QED
    BY <1>a, <2>1, SMT DEF DecisionInv, Owned, Moves
<1>9. CASE LeaderDoCommit
  <2>1. /\ log' = log
        /\ \A q \in Reqs : /\ apply'[q].index = apply[q].index
                           /\ \/ apply'[q].pc = apply[q].pc
                              \/ apply[q].pc = "await" /\ apply'[q].pc = "committing"
    <3>1. apply \in [Reqs -> ApplyCall]
      BY DEF TypeOK
    <3> QED
      BY <1>9, <3>1 DEF LeaderDoCommit, walVars, ApplyCall
  <2> QED
    BY <1>a, <2>1, SMT DEF DecisionInv, Owned
<1>10. ASSUME NEW n \in Nodes, Crash(n) PROVE DecisionInv'
  <2>1. /\ log' = log
        /\ \A q \in Reqs : /\ apply'[q].index = apply[q].index
                           /\ \/ apply'[q].pc = apply[q].pc
                              \/ apply[q].pc \in Unfinished /\ apply'[q].pc = "crashed"
    BY <1>10, SMT DEF Crash, walVars, TypeOK, ApplyCall
  <2> QED
    BY <1>a, <2>1, SMT DEF DecisionInv, Owned, Unfinished
<1>11. CASE RPCNext \/ FollowerNext
  BY <1>11, <1>1, LeaderFrame DEF SameLeader
<1>12. ASSUME NEW n \in Nodes, ReadLog(n) \/ ReadEOF(n) PROVE DecisionInv'
  BY <1>12, <1>1 DEF ReadLog, ReadEOF, walVars
<1> QED
  BY <1>1, <1>2, <1>3, <1>4, <1>5, <1>6, <1>7, <1>8, <1>9, <1>10, <1>11, <1>12
  DEF Next, LeaderNext, CrashNext, vars

-----------------------------------------------------------------------------
(***************************************************************************)
(* Recovery.                                                               *)
(***************************************************************************)
\* The commit log readLogs meets next continues the last one it met: a node's WAL
\* holds a prefix of the commits.
LEMMA ReadMatches ==
  ASSUME TypeOK, ChainInv, PositionInv, CommitPrefix,
         NEW n \in Nodes, status[n] = "reading",
         NEW i \in CommitsOf(n), i >= cursor[n],
         \A j \in Wal(n) : j >= cursor[n] => i <= j
  PROVE  log[i].last = lastCommit[n]
<1> DEFINE S == {c \in CommitsOf(n) : c < cursor[n]}
           v == lastCommit[n]
           w == log[i].last
<1>1. IsLast(v, S)
  BY DEF PositionInv, Position
<1>2. /\ i \in Commits
      /\ CommitsOf(n) \subseteq Wal(n)
      /\ CommitsOf(n) \subseteq Commits
  BY DEF CommitsOf
<1>3. /\ Commits \subseteq Nat /\ i \in Nat /\ v \in Nat /\ cursor[n] \in Nat
  BY <1>2, NatFacts
<1>4. /\ w < i
      /\ w = 0 \/ w \in Commits
      /\ \A d \in Commits : d < i => d <= w
      /\ 0 \notin Commits
  BY <1>2 DEF ChainInv
<1>5. \A d \in Commits : d < i => d \in CommitsOf(n)
  <2>1. CASE n = Leader
    BY <2>1 DEF CommitsOf, Wal, Commits
  <2>2. CASE n # Leader
    BY <2>2, <1>2 DEF CommitsOf, Wal, CommitPrefix, Nodes
  <2> QED
    BY <2>1, <2>2
<1>6. \A d \in CommitsOf(n) : d < i => d \in S
  BY <1>2, <1>3, SMT
<1>7. w # 0 => w \in S
  BY <1>4, <1>5, <1>6
<1>8. v # 0 => v \in Commits /\ v < i
  <2>1. v # 0 => v \in S
    BY <1>1 DEF IsLast
  <2>2. \A c \in S : c \in Commits /\ c < cursor[n]
    BY <1>2
  <2>3. \A c \in S : c < i
    BY <2>2, <1>3, SMT
  <2> QED
    BY <2>1, <2>2, <2>3
<1> HIDE DEF v, w, S
<1>9. w \in Nat
  <2>1. w = 0 \/ w \in Commits
    BY <1>4
  <2>2. w \in Commits => w \in Nat
    BY <1>3
  <2>3. 0 \in Nat
    OBVIOUS
  <2> QED
    BY <2>1, <2>2, <2>3
<1>10. w # 0 => w <= v
  BY <1>1, <1>7 DEF IsLast
<1>11. v # 0 => v <= w
  BY <1>4, <1>8
<1>12. w = v
  BY <1>3, <1>9, <1>10, <1>11, SMT
<1> QED
  BY <1>12 DEF v, w

\* What one step of readLogs does.
ReadsOn(n, i) ==
  /\ i \in Wal(n)
  /\ i >= cursor[n]
  /\ \A j \in Wal(n) : j >= cursor[n] => i <= j
  /\ cursor'[n] = i + 1
  /\ nextIndex'[n] = i + 1
  /\ lastCommit'[n] = IF log[i].type = "commit" THEN i ELSE lastCommit[n]

\* One step of readLogs takes the next log of the WAL, and lastCommit with it.
LEMMA ReadLogFact ==
  ASSUME TypeOK, ChainInv, PositionInv, CommitPrefix, NEW n \in Nodes, ReadLog(n)
  PROVE  /\ UNCHANGED <<log, wal, apply, cycle, handler, executed>>
         /\ \A m \in Nodes \ {n} :
              /\ UNCHANGED <<status[m], cursor[m], nextIndex[m], lastCommit[m]>>
         /\ \/ status'[n] \in {"failed", "hung"}
            \/ status'[n] = "reading" /\ \E i \in Wal(n) : ReadsOn(n, i)
<1>1. status \in [Nodes -> {"up", "reading", "failed", "hung"}]
  BY DEF TypeOK
<1>2. /\ cursor \in [Nodes -> 0..(MaxIndex + 1)]
      /\ nextIndex \in [Nodes -> 0..(MaxIndex + 1)]
      /\ lastCommit \in [Nodes -> Index]
  BY DEF TypeOK
<1>3. PICK i \in Wal(n) :
        /\ i >= cursor[n]
        /\ \A j \in Wal(n) : j >= cursor[n] => i <= j
        /\ status' = [status EXCEPT ![n] =
             IF log[i].type = "prepare" THEN "reading"
             ELSE IF log[i].ref \notin Wal(n) THEN "hung"
             ELSE IF log[i].type = "commit" /\ log[i].last \notin Wal(n) THEN "hung"
             ELSE IF log[i].type = "commit" /\ log[i].last # lastCommit[n] THEN "up"
             ELSE IF log[i].ref \notin pending[n] THEN "failed" ELSE "reading"]
        /\ IF status'[n] = "reading"
           THEN /\ cursor' = [cursor EXCEPT ![n] = i + 1]
                /\ nextIndex' = [nextIndex EXCEPT ![n] = i + 1]
                /\ lastCommit' = [lastCommit EXCEPT ![n] =
                                    IF log[i].type = "commit" THEN i ELSE @]
           ELSE UNCHANGED <<cursor, nextIndex, lastCommit>>
  BY DEF ReadLog
<1>4. /\ UNCHANGED <<log, wal, apply, cycle, handler, executed>>
      /\ status[n] = "reading"
  BY DEF ReadLog, walVars
<1>5. \A m \in Nodes \ {n} : status'[m] = status[m]
  BY <1>1, <1>3
<1>6. \A m \in Nodes \ {n} :
        UNCHANGED <<cursor[m], nextIndex[m], lastCommit[m]>>
  BY <1>2, <1>3
<1>7. status'[n] = "reading" => ReadsOn(n, i)
  BY <1>2, <1>3 DEF ReadsOn
<1>8. log[i].type = "commit" => log[i].last = lastCommit[n]
  <2>1. SUFFICES ASSUME log[i].type = "commit" PROVE i \in CommitsOf(n)
    BY <1>3, <1>4, ReadMatches
  <2>2. i \in DOMAIN log
    BY NatFacts DEF Wal, Nodes
  <2> QED
    BY <2>1, <2>2 DEF CommitsOf, Commits
<1>9. status'[n] \in {"failed", "hung", "reading"}
  <2>1. status'[n] =
          IF log[i].type = "prepare" THEN "reading"
          ELSE IF log[i].ref \notin Wal(n) THEN "hung"
          ELSE IF log[i].type = "commit" /\ log[i].last \notin Wal(n) THEN "hung"
          ELSE IF log[i].type = "commit" /\ log[i].last # lastCommit[n] THEN "up"
          ELSE IF log[i].ref \notin pending[n] THEN "failed" ELSE "reading"
    BY <1>1, <1>3
  <2>2. ~ (log[i].type = "commit" /\ log[i].last # lastCommit[n])
    BY <1>8
  <2> QED
    BY <2>1, <2>2
<1> QED
  BY <1>4, <1>5, <1>6, <1>7, <1>9

\* What a crash does to the positions of the nodes.
LEMMA CrashFact ==
  ASSUME TypeOK, NEW n \in Nodes, Crash(n)
  PROVE  /\ UNCHANGED <<log, wal, executed>>
         /\ status'[n] = "reading"
         /\ cursor'[n] = 0 /\ nextIndex'[n] = 0 /\ lastCommit'[n] = 0
         /\ cycle'[n] = <<>>
         /\ \A m \in Nodes \ {n} :
              UNCHANGED <<status[m], cursor[m], nextIndex[m], lastCommit[m], cycle[m]>>
  BY DEF Crash, TypeOK, walVars

\* What the end of readLogs does.
LEMMA ReadEOFFact ==
  ASSUME TypeOK, NEW n \in Nodes, ReadEOF(n)
  PROVE  /\ UNCHANGED <<log, wal, executed, cursor, nextIndex, lastCommit, cycle, apply,
                        handler>>
         /\ status[n] = "reading" /\ status'[n] = "up"
         /\ \A m \in Nodes \ {n} : status'[m] = status[m]
         /\ \A i \in Wal(n) : i < cursor[n]
  BY DEF ReadEOF, TypeOK, walVars

-----------------------------------------------------------------------------
(***************************************************************************)
(* Allocation of indexes.                                                  *)
(***************************************************************************)
\* Apply calls that move on, and allocate and write nothing.
CallsMoveOn ==
  \A q \in Reqs :
    /\ apply'[q].index = apply[q].index
    /\ apply'[q].pc \in Unfinished => apply[q].pc \in Unfinished
    /\ apply'[q].pc = "logging" => apply[q].pc = "logging"
    /\ apply'[q].pc \in {"preparing", "enqueue"} => apply[q].pc \in {"preparing", "enqueue"}

\* Calls that wait for answers, time out or return disturb no allocation.
LEMMA AllocKept ==
  ASSUME AllocInv, UNCHANGED <<log, status, nextIndex>>, CallsMoveOn
  PROVE  AllocInv'
<1>1. \A i \in DOMAIN log : Up(Leader)' => i < nextIndex'[Leader]
  BY DEF AllocInv, Up
<1>2. ASSUME NEW q \in Reqs PROVE CallInv(q)'
  <2>1. CallInv(q)
    BY DEF AllocInv
  <2>2. apply'[q].pc \in Unfinished => Up(Leader)' /\ apply'[q].index < nextIndex'[Leader]
    BY <2>1 DEF CallsMoveOn, CallInv, Up
  <2>3. apply'[q].pc = "logging" =>
          /\ apply'[q].index \notin DOMAIN log'
          /\ \A p \in Reqs : apply'[p].pc = "logging" /\ apply'[p].index = apply'[q].index
                             => p = q
    BY <2>1 DEF CallsMoveOn, CallInv
  <2>4. apply'[q].pc \in {"preparing", "enqueue"} =>
          /\ apply'[q].index \in DOMAIN log'
          /\ log'[apply'[q].index] = PrepareLog(q)
    BY <2>1 DEF CallsMoveOn, CallInv
  <2> QED
    BY <2>2, <2>3, <2>4 DEF CallInv, PrepareLog
<1> QED
  BY <1>1, <1>2 DEF AllocInv

\* No step allocates an index twice, or below a log.
LEMMA AllocNext ==
  ASSUME TypeOK, TypeOK', ChainInv, AllocInv, PositionInv, CommitPrefix, [Next]_vars
  PROVE  AllocInv'
<1>a. apply \in [Reqs -> ApplyCall] /\ apply' \in [Reqs -> ApplyCall]
  BY DEF TypeOK
<1>b. nextIndex \in [Nodes -> 0..(MaxIndex + 1)] /\ nextIndex[Leader] \in Nat
  BY NatFacts DEF TypeOK, Nodes
<1>c. /\ \A q \in Reqs : apply[q].index \in Nat
      /\ DOMAIN log \subseteq Nat
      /\ Leader \in Nodes
  BY <1>a, IndexFact, NatFacts DEF ApplyCall, Nodes
<1>d. SameLogs
  BY LogGrows
<1>1. CASE /\ UNCHANGED <<log, apply>>
           /\ nextIndex'[Leader] = nextIndex[Leader]
           /\ status'[Leader] = status[Leader]
  BY <1>1 DEF AllocInv, CallInv, Up
<1>2. ASSUME NEW r \in Reqs, AllocPrepare(r) PROVE AllocInv'
  <2>1. /\ UNCHANGED <<log, status>>
        /\ Up(Leader)
        /\ nextIndex'[Leader] = nextIndex[Leader] + 1
        /\ \A q \in Reqs \ {r} : apply'[q] = apply[q]
        /\ apply'[r].pc = "logging" /\ apply'[r].index = nextIndex[Leader]
    BY <1>2, <1>a, <1>b, <1>c DEF AllocPrepare, walVars, ApplyCall
  <2>2. \A i \in DOMAIN log : i < nextIndex'[Leader] /\ i # nextIndex[Leader]
    BY <1>b, <1>c, <2>1, SMT DEF AllocInv
  <2>3. \A q \in Reqs : apply[q].pc = "logging" => apply[q].index < nextIndex[Leader]
    BY DEF AllocInv, CallInv, Unfinished
  <2>4. CallInv(r)'
    BY <1>b, <1>c, <2>1, <2>2, <2>3, SMT DEF CallInv, Up
  <2>5. ASSUME NEW q \in Reqs \ {r} PROVE CallInv(q)'
    <3>1. CallInv(q)
      BY DEF AllocInv
    <3>2. apply[q].pc = "logging" => apply[q].index # apply'[r].index
      BY <1>b, <1>c, <2>1, <2>3, SMT
    <3> QED
      BY <1>b, <1>c, <2>1, <3>1, <3>2, SMT DEF CallInv, Up
  <2> QED
    BY <2>1, <2>2, <2>4, <2>5 DEF AllocInv
<1>3. ASSUME NEW r \in Reqs, LogPrepare(r) PROVE AllocInv'
  <2>1. Moves(r, {"preparing"}) /\ apply[r].pc = "logging"
    BY <1>3, MoveFacts DEF LogPrepare
  <2>2. /\ DOMAIN log' = DOMAIN log \cup {apply[r].index}
        /\ log'[apply[r].index] = PrepareLog(r)
    BY <1>3, LogPrepareFact
  <2>3. UNCHANGED <<status, nextIndex>>
    BY <1>3 DEF LogPrepare
  <2>4. apply[r].index < nextIndex[Leader] /\ Up(Leader)
    BY <2>1 DEF AllocInv, CallInv, Unfinished
  <2>5. CallInv(r)'
    BY <2>1, <2>2, <2>3, <2>4 DEF CallInv, Up, Moves, PrepareLog
  <2>6. ASSUME NEW q \in Reqs \ {r} PROVE CallInv(q)'
    <3>1. CallInv(q) /\ CallInv(r) /\ apply'[q] = apply[q] /\ apply'[r].pc = "preparing"
      BY <2>1 DEF AllocInv, Moves
    <3>2. apply[q].pc = "logging" => apply[q].index # apply[r].index
      BY <2>1, <3>1 DEF CallInv
    <3>3. \A p \in Reqs : apply'[p].pc = "logging" => apply'[p] = apply[p]
      BY <2>1 DEF Moves
    <3> QED
      BY <1>d, <2>2, <2>3, <3>1, <3>2, <3>3 DEF CallInv, Up, SameLogs, PrepareLog
  <2>7. \A i \in DOMAIN log' : i < nextIndex'[Leader]
    BY <2>2, <2>3, <2>4 DEF AllocInv
  <2> QED
    BY <2>5, <2>6, <2>7 DEF AllocInv
<1>4. ASSUME NEW r \in Reqs, PrepareFailed(r) \/ LeaderLogCommit(r) PROVE AllocInv'
  <2>1. \/ Moves(r, {"rolledback"}) /\ apply[r].pc = "preparing"
        \/ Moves(r, {"await"}) /\ apply[r].pc = "enqueue"
    BY <1>4, MoveFacts DEF PrepareFailed, LeaderLogCommit
  <2>2. DOMAIN log' = DOMAIN log \cup {nextIndex[Leader]}
    BY <1>4, PrepareFailedFact, LeaderLogCommitFact
  <2>3. UNCHANGED status /\ nextIndex'[Leader] = nextIndex[Leader] + 1
    BY <1>4, <1>b, <1>c DEF PrepareFailed, LeaderLogCommit
  <2>4. Up(Leader)
    BY <2>1 DEF AllocInv, CallInv, Unfinished
  <2>5. \A i \in DOMAIN log' : i < nextIndex'[Leader]
    BY <1>b, <1>c, <2>2, <2>3, <2>4, SMT DEF AllocInv
  <2>6. ASSUME NEW q \in Reqs PROVE CallInv(q)'
    <3>1. CallInv(q)
      BY DEF AllocInv
    <3>2. /\ apply'[q].pc \in Unfinished => apply[q].pc \in Unfinished
          /\ apply'[q].index = apply[q].index
      BY <2>1 DEF Moves, Unfinished
    <3>3. /\ apply'[q].pc = "logging" => apply[q].pc = "logging"
          /\ apply'[q].pc \in {"preparing", "enqueue"} => apply[q].pc \in {"preparing", "enqueue"}
      BY <2>1 DEF Moves
    <3>4. apply[q].pc = "logging" => apply[q].index # nextIndex[Leader]
      BY <1>b, <1>c, <3>1, SMT DEF CallInv, Unfinished
    <3>5. \A p \in Reqs : apply'[p].pc = "logging" => apply'[p] = apply[p]
      BY <2>1 DEF Moves
    <3>6. apply'[q].pc \in Unfinished => Up(Leader)' /\ apply'[q].index < nextIndex'[Leader]
      BY <1>b, <1>c, <2>3, <2>4, <3>1, <3>2, SMT DEF CallInv, Up
    <3>7. apply'[q].pc = "logging" =>
            /\ apply'[q].index \notin DOMAIN log'
            /\ \A p \in Reqs : apply'[p].pc = "logging" /\ apply'[p].index = apply'[q].index
                               => p = q
      BY <2>2, <3>1, <3>2, <3>3, <3>4, <3>5 DEF CallInv
    <3>8. apply'[q].pc \in {"preparing", "enqueue"} =>
            /\ apply'[q].index \in DOMAIN log'
            /\ log'[apply'[q].index] = PrepareLog(q)
      BY <1>d, <3>1, <3>2, <3>3 DEF CallInv, SameLogs
    <3> QED
      BY <3>6, <3>7, <3>8 DEF CallInv, PrepareLog
  <2> QED
    BY <2>5, <2>6 DEF AllocInv
<1>5. ASSUME NEW r \in Reqs, PrepareOk(r) \/ CommitTimeout(r) \/ ReturnCommitted(r)
      PROVE  AllocInv'
  <2>1. /\ \/ Moves(r, {"enqueue"}) /\ apply[r].pc = "preparing"
           \/ Moves(r, {"timeout", "done"})
        /\ UNCHANGED <<log, status, nextIndex>>
    BY <1>5, MoveFacts DEF PrepareOk, CommitTimeout, ReturnCommitted, walVars, nodeVars, Moves
  <2>2. CallsMoveOn
    BY <2>1 DEF CallsMoveOn, Moves, Unfinished
  <2> QED
    BY <2>1, <2>2, AllocKept
<1>6. CASE LeaderDoCommit
  <2>1. /\ UNCHANGED <<log, status, nextIndex>>
        /\ \A q \in Reqs : /\ apply'[q].index = apply[q].index
                           /\ \/ apply'[q].pc = apply[q].pc
                              \/ apply[q].pc = "await" /\ apply'[q].pc = "committing"
    BY <1>6, <1>a DEF LeaderDoCommit, walVars, ApplyCall
  <2>2. CallsMoveOn
    BY <2>1 DEF CallsMoveOn, Unfinished
  <2> QED
    BY <2>1, <2>2, AllocKept
<1>7. CASE Crash(Leader)
  <2>1. ~ Up(Leader)'
    BY <1>7, <1>c, CrashFact DEF Up
  <2>2. \A q \in Reqs : apply'[q].pc \notin Unfinished
    BY <1>7, <1>a, SMT DEF Crash, Unfinished, ApplyCall
  <2> QED
    BY <2>1, <2>2 DEF AllocInv, CallInv, Unfinished
<1>8. ASSUME NEW f \in Followers, Crash(f) PROVE AllocInv'
  <2>1. f \in Nodes /\ f # Leader
    BY KayakAssumption DEF Nodes
  <2>2. /\ UNCHANGED log
        /\ nextIndex'[Leader] = nextIndex[Leader]
        /\ status'[Leader] = status[Leader]
    BY <1>8, <1>c, <2>1, CrashFact
  <2>3. UNCHANGED apply
    BY <1>8, <2>1 DEF Crash
  <2> QED
    BY <1>1, <2>2, <2>3
<1>9. ASSUME NEW n \in Nodes, ReadLog(n) PROVE AllocInv'
  <2>1. CASE n # Leader
    BY <1>1, <1>9, <1>c, <2>1, ReadLogFact
  <2>2. CASE n = Leader
    <3>1. ~ Up(Leader) /\ ~ Up(Leader)' /\ UNCHANGED <<log, apply>>
      BY <1>9, <2>2, ReadLogFact, ZenonT(40) DEF ReadLog, Up
    <3> QED
      BY <3>1 DEF AllocInv, CallInv, Unfinished
  <2> QED
    BY <2>1, <2>2
<1>10. ASSUME NEW n \in Nodes, ReadEOF(n) PROVE AllocInv'
  <2>1. CASE n # Leader
    BY <1>1, <1>10, <1>c, <2>1, ReadEOFFact
  <2>2. CASE n = Leader
    <3>1. ~ Up(Leader) /\ UNCHANGED <<log, apply, nextIndex>>
      BY <1>10, <2>2, ReadEOFFact DEF Up
    <3>2. \A i \in DOMAIN log : i < nextIndex[Leader]
      BY <1>10, <2>2, ReadEOFFact DEF Wal, PositionInv, Position
    <3> QED
      BY <3>1, <3>2 DEF AllocInv, CallInv, Unfinished
  <2> QED
    BY <2>1, <2>2
<1>11. CASE RPCNext \/ FollowerNext
  BY <1>1, <1>11, LeaderFrame DEF SameLeader, SameNode
<1>12. CASE UNCHANGED vars
  BY <1>1, <1>12 DEF vars
<1> QED
  BY <1>2, <1>3, <1>4, <1>5, <1>6, <1>7, <1>8, <1>9, <1>10, <1>11, <1>12
  DEF Next, LeaderNext, CrashNext, Nodes

-----------------------------------------------------------------------------
(***************************************************************************)
(* The handlers of the followers.                                          *)
(***************************************************************************)
\* Nothing a handler relies on is taken back.
Stable ==
  /\ SameLogs
  /\ \A f \in Followers : wal[f] \subseteq wal'[f] /\ (Up(f) => Up(f)')

\* At follower f the handler of call h moves to pc, all others stay.
OneMoves(f, h, pc) ==
  /\ handler' = [handler EXCEPT ![f][h] = pc]
  /\ Stable
  /\ \A g \in Followers \ {f} : cycle'[g] = cycle[g]

\* A handler's step concerns no other handler.
LEMMA OneMovesFact ==
  ASSUME TypeOK, HandlerInv, NEW f \in Followers, NEW h \in Calls, NEW pc,
         OneMoves(f, h, pc), Serves(f, h)',
         \A g \in Calls \ {h} : handler[f][g] = "executing" =>
                                  cycle'[f] = cycle[f] /\ pc # "executing"
  PROVE  HandlerInv'
<1>1. handler \in [Followers -> [Calls -> HandlerPcs]]
  BY DEF TypeOK
<1>2. /\ handler'[f][h] = pc
      /\ \A g \in Calls \ {h} : handler'[f][g] = handler[f][g]
      /\ \A e \in Followers \ {f} : handler'[e] = handler[e] /\ cycle'[e] = cycle[e]
  BY <1>1 DEF OneMoves
<1>3. ASSUME NEW e \in Followers, NEW g \in Calls, e # f \/ g # h PROVE Serves(e, g)'
  <2>1. handler'[e][g] = handler[e][g] /\ Serves(e, g)
    BY <1>2, <1>3 DEF HandlerInv
  <2>2. /\ SameLogs /\ wal[e] \subseteq wal'[e] /\ (Up(e) => Up(e)')
    BY DEF OneMoves, Stable
  <2>3. handler[e][g] = "executing" =>
          /\ cycle'[e] = cycle[e]
          /\ \A k \in Calls : handler'[e][k] = "executing" => handler[e][k] = "executing"
    BY <1>2, <1>3
  <2> QED
    BY <2>1, <2>2, <2>3 DEF Serves, SameLogs
<1> QED
  BY <1>3 DEF HandlerInv

\* The steps that move no handler.
LEMMA NoneMovesFact ==
  ASSUME HandlerInv, Stable,
         \A f \in Followers : handler'[f] = handler[f] /\ cycle'[f] = cycle[f]
  PROVE  HandlerInv'
  BY SMT DEF HandlerInv, Serves, Stable, SameLogs

\* The leader sends log k.
LEMMA SentFact ==
  ASSUME TypeOK, HandlerInv, Stable, NEW k \in Index, k \in DOMAIN log', applyRPC(k),
         \A f \in Followers : cycle'[f] = cycle[f]
  PROVE  HandlerInv'
<1>1. handler \in [Followers -> [Calls -> HandlerPcs]] /\ <<"rpc", k>> \in Calls
  BY DEF TypeOK, Calls, Sources
<1>2. ASSUME NEW f \in Followers, NEW h \in Calls PROVE Serves(f, h)'
  <2>1. /\ handler'[f][<<"rpc", k>>] = "sent"
        /\ \A g \in Calls \ {<<"rpc", k>>} : handler'[f][g] = handler[f][g]
    BY <1>1 DEF applyRPC
  <2>2. CASE h = <<"rpc", k>>
    BY <2>1, <2>2 DEF Serves
  <2>3. CASE h # <<"rpc", k>>
    <3>1. handler'[f][h] = handler[f][h] /\ Serves(f, h)
      BY <2>1, <2>3 DEF HandlerInv
    <3>2. \A g \in Calls : handler'[f][g] = "executing" => handler[f][g] = "executing"
      BY <2>1
    <3> QED
      BY <3>1, <3>2 DEF Serves, Stable, SameLogs
  <2> QED
    BY <2>2, <2>3
<1> QED
  BY <1>2 DEF HandlerInv

\* The steps of follower f.
FollowerStep(f, h) ==
  FollowerRefuse(f, h) \/ HandlerStep(f, h) \/ CommitQueueStep(f, h)

\* A follower's WAL only grows, and other followers' commit queues stay.
LEMMA FollowerStable ==
  ASSUME TypeOK, AllocInv, PositionInv, NEW f \in Followers, NEW h \in Calls,
         FollowerStep(f, h)
  PROVE  Stable /\ \A g \in Followers \ {f} : cycle'[g] = cycle[g]
<1>1. SameLogs /\ UNCHANGED <<log, status>>
  <2>1. FollowerNext
    BY DEF FollowerStep, FollowerNext
  <2> QED
    BY <2>1, LeaderFrame, LogGrows DEF SameLeader, Next
<1>2. /\ wal \in [Followers -> SUBSET DOMAIN log]
      /\ cycle \in [Nodes -> {<<>>} \cup {<<i>> : i \in DOMAIN log}]
  BY DEF TypeOK
<1>3. \A g \in Followers : wal[g] \subseteq wal'[g]
  BY <1>2 DEF FollowerStep, HandlerStep, CommitQueueStep, FollowerRefuse, FollowerLogPrepare,
     FollowerWritePrepare, FollowerMarkPrepare, WaitPrepare, FollowerRollback, WaitLast, CheckCommit, Requeue,
     FollowerDoCommit, FollowerReturnCommit, FollowerLogCommit, FollowerReorder, walVars
<1>4. \A g \in Followers \ {f} : cycle'[g] = cycle[g]
  BY <1>2 DEF FollowerStep, HandlerStep, CommitQueueStep, FollowerRefuse, FollowerLogPrepare,
     FollowerWritePrepare, FollowerMarkPrepare, WaitPrepare, FollowerRollback, WaitLast, CheckCommit, Requeue,
     FollowerDoCommit, FollowerReturnCommit, FollowerLogCommit, FollowerReorder, Nodes
<1> QED
  BY <1>1, <1>3, <1>4 DEF Stable, Up

\* Every step keeps what the handlers have done.
LEMMA HandlerNext ==
  ASSUME TypeOK, TypeOK', ChainInv, DecisionInv, AllocInv, PositionInv, HandlerInv,
         CommitPrefix, [Next]_vars
  PROVE  HandlerInv'
<1>a. handler \in [Followers -> [Calls -> HandlerPcs]]
  BY DEF TypeOK
<1>b. cycle \in [Nodes -> {<<>>} \cup {<<i>> : i \in DOMAIN log}]
  BY DEF TypeOK
<1>c. SameLogs
  BY LogGrows
<1>d. Followers \subseteq Nodes /\ Leader \in Nodes /\ Leader \notin Followers
  BY KayakAssumption DEF Nodes
<1>1. CASE UNCHANGED vars
  BY <1>1, <1>c, NoneMovesFact DEF vars, Stable, Up
<1>2. CASE LeaderNext
  <2>1. Stable /\ \A f \in Followers : cycle'[f] = cycle[f]
    BY <1>2, <1>c, FollowerFrame DEF SameFollowers, SameNode, Stable, Up
  <2>2. ASSUME NEW r \in Reqs, LogPrepare(r) PROVE HandlerInv'
    <3>1. PICK k \in Index : k = apply[r].index
      BY DEF TypeOK, ApplyCall
    <3>2. applyRPC(k) /\ k \in DOMAIN log'
      BY <2>2, <3>1, LogPrepareFact DEF LogPrepare
    <3> QED
      BY <2>1, <3>2, SentFact
  <2>3. ASSUME NEW r \in Reqs, PrepareFailed(r) PROVE HandlerInv'
    <3>1. PICK k \in Index : k = nextIndex[Leader]
      BY <2>3 DEF PrepareFailed
    <3>2. applyRPC(k) /\ k \in DOMAIN log'
      BY <2>3, <3>1, PrepareFailedFact DEF PrepareFailed
    <3> QED
      BY <2>1, <3>2, SentFact
  <2>4. CASE LeaderDoCommit
    <3>1. PICK k \in DOMAIN log : cycle[Leader] = <<k>>
      BY <2>4, <1>b, <1>d DEF LeaderDoCommit
    <3>2. applyRPC(k) /\ k \in DOMAIN log' /\ k \in Index
      BY <2>4, <3>1, <1>c, SMT DEF LeaderDoCommit, SameLogs, TypeOK
    <3> QED
      BY <2>1, <3>2, SentFact
  <2>5. ASSUME NEW r \in Reqs,
               \/ AllocPrepare(r) \/ PrepareOk(r) \/ CommitTimeout(r)
               \/ LeaderLogCommit(r) \/ ReturnCommitted(r)
        PROVE  HandlerInv'
    <3>1. handler' = handler
      BY <2>5 DEF AllocPrepare, PrepareOk, CommitTimeout, LeaderLogCommit, ReturnCommitted
    <3> QED
      BY <3>1, <2>1, NoneMovesFact
  <2> QED
    BY <1>2, <2>2, <2>3, <2>4, <2>5 DEF LeaderNext
<1>3. CASE RPCNext
  <2>0. PICK f \in Followers, i \in Index : Lose(f, i) \/ Disconnect(f, i) \/ Fetch(f, i)
    BY <1>3 DEF RPCNext
  <2>1. Stable /\ \A g \in Followers : cycle'[g] = cycle[g]
    BY <2>0, <1>c DEF Lose, Disconnect, Fetch, Stable, Up, walVars, nodeVars
  <2>2. CASE Disconnect(f, i)
    BY <2>1, <2>2, NoneMovesFact DEF Disconnect
  <2>3. CASE Lose(f, i)
    <3>1. <<"rpc", i>> \in Calls
      BY DEF Calls, Sources
    <3>2. OneMoves(f, <<"rpc", i>>, "none")
      BY <2>1, <2>3 DEF Lose, OneMoves
    <3>3. Serves(f, <<"rpc", i>>)'
      BY <1>a, <3>1, <3>2 DEF OneMoves, Serves
    <3> QED
      BY <2>1, <3>1, <3>2, <3>3, OneMovesFact
  <2>4. CASE Fetch(f, i)
    <3>1. <<"fetch", i>> \in Calls
      BY DEF Calls, Sources
    <3>2. OneMoves(f, <<"fetch", i>>, "sent")
      BY <2>1, <2>4 DEF Fetch, OneMoves, Goto
    <3>3. i \in DOMAIN log'
      BY <1>c, <2>4 DEF Fetch, SameLogs
    <3>4. Serves(f, <<"fetch", i>>)'
      BY <1>a, <3>1, <3>2, <3>3 DEF OneMoves, Serves
    <3> QED
      BY <2>1, <3>1, <3>2, <3>4, OneMovesFact
  <2> QED
    BY <2>0, <2>2, <2>3, <2>4
<1>5. CASE CrashNext
  <2>0. PICK n \in Nodes : Crash(n) \/ ReadLog(n) \/ ReadEOF(n)
    BY <1>5 DEF CrashNext
  <2>1. CASE ReadLog(n)
    <3>1. UNCHANGED <<wal, cycle, handler>> /\ ~ Up(n)
      BY <2>1, ReadLogFact DEF ReadLog, Up
    <3>2. \A m \in Nodes : Up(m) => Up(m)'
      BY <2>1, <3>1, ReadLogFact DEF Up
    <3> QED
      BY <1>c, <1>d, <3>1, <3>2, NoneMovesFact DEF Stable
  <2>2. CASE ReadEOF(n)
    <3>1. UNCHANGED <<wal, cycle, handler>> /\ Up(n)'
      BY <2>2, ReadEOFFact DEF Up
    <3>2. \A m \in Nodes : Up(m) => Up(m)'
      BY <2>2, <3>1, ReadEOFFact DEF Up
    <3> QED
      BY <1>c, <1>d, <3>1, <3>2, NoneMovesFact DEF Stable
  <2>3. CASE Crash(n) /\ n = Leader
    <3>1. UNCHANGED <<wal, handler>>
      BY <2>3 DEF Crash, walVars
    <3>2. \A f \in Followers : cycle'[f] = cycle[f] /\ (Up(f) => Up(f)')
      BY <2>3, <1>d, CrashFact DEF Up
    <3> QED
      BY <1>c, <3>1, <3>2, NoneMovesFact DEF Stable
  <2>4. CASE Crash(n) /\ n # Leader
    <3>1. n \in Followers
      BY <2>4 DEF Nodes
    <3>2. /\ UNCHANGED <<log, wal>>
          /\ \A f \in Followers \ {n} : cycle'[f] = cycle[f] /\ status'[f] = status[f]
      BY <2>4, <1>d, CrashFact
    <3>3. handler' = [handler EXCEPT ![n] =
                [h \in Calls |-> IF Arrived(n, h) THEN "none" ELSE handler[n][h]]]
      BY <2>4 DEF Crash
    <3>4. ASSUME NEW f \in Followers \ {n}, NEW h \in Calls PROVE Serves(f, h)'
      BY <1>a, <3>1, <3>2, <3>3, SMT DEF HandlerInv, Serves, Up
    <3>5. ASSUME NEW h \in Calls PROVE Serves(n, h)'
      <4>1. handler'[n][h] = IF Arrived(n, h) THEN "none" ELSE handler[n][h]
        BY <1>a, <3>1, <3>3
      <4>2. \/ handler'[n][h] = "none"
            \/ handler'[n][h] = "sent" /\ handler[n][h] = "sent"
        BY <4>1 DEF Arrived
      <4> QED
        BY <3>1, <3>2, <4>2 DEF HandlerInv, Serves
    <3> QED
      BY <3>4, <3>5 DEF HandlerInv
  <2> QED
    BY <2>0, <2>1, <2>2, <2>3, <2>4
<1>4. CASE FollowerNext
  <2>0. PICK f \in Followers, h \in Calls : FollowerStep(f, h)
    BY <1>4 DEF FollowerNext, FollowerStep
  <2>1. Stable /\ \A g \in Followers \ {f} : cycle'[g] = cycle[g]
    BY <2>0, FollowerStable
  <2>2. UNCHANGED <<log, status>>
    BY <1>4, LeaderFrame DEF SameLeader
  <2>3. ASSUME NEW pc, Goto(f, h, pc) PROVE OneMoves(f, h, pc) /\ handler'[f][h] = pc
    BY <1>a, <2>1, <2>3 DEF Goto, OneMoves
  <2>4. Serves(f, h)
    BY DEF HandlerInv
  <2>5. CASE \/ FollowerRefuse(f, h) \/ FollowerMarkPrepare(f, h) \/ FollowerReturnCommit(f, h)
    <3>1. Goto(f, h, "none") /\ cycle' = cycle
      BY <2>5 DEF FollowerRefuse, FollowerMarkPrepare, FollowerReturnCommit, Succeed, Fail
    <3>2. OneMoves(f, h, "none") /\ Serves(f, h)'
      BY <2>3, <3>1, SMT DEF Serves
    <3> QED
      BY <3>1, <3>2, OneMovesFact
  <2>6. CASE FollowerLogPrepare(f, h) \/ FollowerWritePrepare(f, h)
    <3>1. /\ Up(f) /\ cycle' = cycle /\ handler[f][h] \in {"sent", "write"}
          /\ \/ Goto(f, h, "none")
             \/ Goto(f, h, "write") /\ log[h[2]].type = "prepare"
             \/ Goto(f, h, "mark") /\ log[h[2]].type = "prepare" /\ h[2] \in wal'[f]
      <4>1. CASE FollowerLogPrepare(f, h)
        BY <4>1 DEF FollowerLogPrepare, Fail, At
      <4>2. CASE FollowerWritePrepare(f, h)
        <5>1. /\ Up(f) /\ handler[f][h] = "write" /\ cycle' = cycle /\ Goto(f, h, "mark")
              /\ wal' = [wal EXCEPT ![f] = @ \cup {h[2]}]
          BY <4>2 DEF FollowerWritePrepare, At
        <5>2. f \in DOMAIN wal
          BY <1>a DEF TypeOK
        <5>3. h[2] \in wal'[f]
          BY <5>1, <5>2, SMT
        <5> QED
          BY <2>4, <5>1, <5>3 DEF Serves
      <4> QED
        BY <2>6, <4>1, <4>2
    <3>2. CASE Goto(f, h, "none")
      <4>1. OneMoves(f, h, "none") /\ Serves(f, h)'
        BY <2>3, <3>2, SMT DEF Serves
      <4> QED
        BY <3>1, <4>1, OneMovesFact
    <3>3. CASE Goto(f, h, "write") /\ log[h[2]].type = "prepare"
      <4>1. OneMoves(f, h, "write") /\ Serves(f, h)'
        BY <2>2, <2>3, <2>4, <3>1, <3>3, SMT DEF Serves, Up
      <4> QED
        BY <3>1, <4>1, OneMovesFact
    <3>4. CASE Goto(f, h, "mark") /\ log[h[2]].type = "prepare" /\ h[2] \in wal'[f]
      <4>1. OneMoves(f, h, "mark") /\ Serves(f, h)'
        BY <2>2, <2>3, <2>4, <3>1, <3>4, SMT DEF Serves, Up
      <4> QED
        BY <3>1, <4>1, OneMovesFact
    <3> QED
      BY <3>1, <3>2, <3>3, <3>4
  <2>7. CASE FollowerRollback(f, h)
    <3>1. Goto(f, h, "none") /\ cycle' = cycle
      BY <2>7 DEF FollowerRollback, Succeed, Fail
    <3>2. OneMoves(f, h, "none") /\ Serves(f, h)'
      BY <2>3, <3>1, SMT DEF Serves
    <3> QED
      BY <3>1, <3>2, OneMovesFact
  <2>8. CASE WaitPrepare(f, h) \/ WaitLast(f, h)
    <3>1. PICK pc \in {"waitPrepare", "waitLast"} :
            /\ Goto(f, h, pc)
            /\ cycle' = cycle
            /\ Up(f) /\ handler[f][h] # "none"
            /\ log[h[2]].type # "prepare"
            /\ pc = "waitLast" => log[h[2]].type = "commit"
      BY <2>8 DEF WaitPrepare, WaitLast, HavePrepare, At
    <3>2. OneMoves(f, h, pc) /\ Serves(f, h)'
      BY <2>2, <2>3, <2>4, <3>1 DEF Serves, Up
    <3> QED
      BY <3>1, <3>2, OneMovesFact
  <2>9. CASE \/ CheckCommit(f, h) \/ Requeue(f, h) \/ FollowerReorder(f, h)
    <3>1. log[h[2]].type = "commit" /\ Up(f) /\ handler[f][h] # "none"
      BY <2>9, <2>4, ZenonT(40)
      DEF CheckCommit, HaveLast, Requeue, FollowerReorder, At, HavePrepare, Serves
    <3>2. PICK pc \in {"none", "enqueue", "reorder"} : Goto(f, h, pc) /\ cycle' = cycle
      BY <2>9, ZenonT(40) DEF CheckCommit, Fail, Requeue, FollowerReorder
    <3>3. OneMoves(f, h, pc) /\ Serves(f, h)'
      BY <2>2, <2>3, <2>4, <3>1, <3>2 DEF Serves, Up
    <3> QED
      BY <3>2, <3>3, OneMovesFact
  <2>10. CASE FollowerLogCommit(f, h)
    <3>1. /\ log[h[2]].type = "commit" /\ Up(f) /\ handler[f][h] = "enqueue"
          /\ cycle[f] = <<>>
      BY <2>10, <2>4 DEF FollowerLogCommit, At, Serves
    <3>2. \A g \in Calls : handler[f][g] # "executing"
      <4>1. SUFFICES ASSUME NEW g \in Calls, handler[f][g] = "executing" PROVE FALSE
        OBVIOUS
      <4>2. cycle[f] = <<g[2]>>
        BY <4>1 DEF HandlerInv, Serves
      <4> QED
        BY <3>1, <4>2, BusyFact
    <3>3. CASE Goto(f, h, "stuck") /\ cycle' = cycle
      <4>1. OneMoves(f, h, "stuck") /\ Serves(f, h)'
        BY <2>2, <2>3, <2>4, <3>1, <3>3, SMT DEF Serves, Up
      <4> QED
        BY <3>2, <4>1, OneMovesFact
    <3>4. CASE Goto(f, h, "executing") /\ cycle' = [cycle EXCEPT ![f] = <<h[2]>>]
      <4>1. cycle'[f] = <<h[2]>>
        BY <3>4, <1>b, <1>d
      <4>2. OneMoves(f, h, "executing") /\ handler'[f][h] = "executing"
        BY <2>3, <3>4
      <4>3. \A g \in Calls : handler'[f][g] = "executing" => g = h
        BY <1>a, <3>2, <4>2 DEF OneMoves
      <4>4. Serves(f, h)'
        BY <2>2, <2>4, <3>1, <4>1, <4>2, <4>3 DEF Serves, Up
      <4> QED
        BY <3>2, <4>2, <4>4, OneMovesFact
    <3> QED
      BY <2>10, <3>3, <3>4 DEF FollowerLogCommit
  <2>11. CASE FollowerDoCommit(f, h)
    <3>1. handler[f][h] = "executing" /\ Up(f) /\ Goto(f, h, "committed")
      BY <2>11 DEF FollowerDoCommit, At
    <3>2. /\ cycle[f] = <<h[2]>>
          /\ \A g \in Calls : handler[f][g] = "executing" => g = h
          /\ h[2] \in Index
      BY <2>4, <3>1, CallsFact DEF Serves
    <3>3. h[2] \in wal[f] /\ log[h[2]].type = "commit" /\ h[2] \in DOMAIN log
      <4>1. Position(f) /\ f # Leader
        BY <1>d DEF PositionInv
      <4>2. h[2] \in CommitsOf(f)
        BY <3>2, <4>1 DEF Position
      <4> QED
        BY <4>1, <4>2 DEF CommitsOf, Wal, Commits
    <3>4. h[2] \in wal'[f]
      BY <2>1, <3>3 DEF Stable
    <3>5. OneMoves(f, h, "committed") /\ Serves(f, h)'
      BY <2>2, <2>3, <3>1, <3>3, <3>4, SMT DEF Serves, Up
    <3> QED
      BY <3>2, <3>5, OneMovesFact
  <2> QED
    BY <2>0, <2>5, <2>6, <2>7, <2>8, <2>9, <2>10, <2>11
    DEF FollowerStep, HandlerStep, CommitQueueStep
<1> QED
  BY <1>1, <1>2, <1>3, <1>4, <1>5 DEF Next

-----------------------------------------------------------------------------
(***************************************************************************)
(* The positions of the nodes in the chain of commits.                     *)
(***************************************************************************)
\* What Append does to the executed commits.
LEMMA AppendFact ==
  ASSUME NEW s \in Seq(Index), NEW k \in Index
  PROVE  /\ Len(s) \in Nat
         /\ Len(Append(s, k)) = Len(s) + 1
         /\ \A j \in 1..Len(s) : Append(s, k)[j] = s[j]
         /\ Append(s, k)[Len(s) + 1] = k
  BY SMT

\* A node whose commits and position stay.
Stays(n) ==
  /\ CommitsOf(n)' = CommitsOf(n)
  /\ cycle'[n] = cycle[n]
  /\ executed'[n] = executed[n]
  /\ lastCommit'[n] = lastCommit[n]
  /\ status'[n] = status[n]
  /\ status[n] = "reading" => UNCHANGED <<cursor[n], nextIndex[n]>>

\* A node whose commits, commit cycle and position stay keeps Position.
LEMMA StaysFact ==
  ASSUME NEW n \in Nodes, Position(n), Stays(n)
  PROVE  Position(n)'
  BY DEF Position, Stays, Up

\* The commits of a WAL change only when it does: new commit logs are new.
LEMMA CommitsStay ==
  ASSUME TypeOK, AllocInv, PositionInv, [Next]_vars, NEW f \in Followers
  PROVE  /\ wal'[f] = wal[f] => CommitsOf(f)' = CommitsOf(f)
         /\ Commits' = Commits => CommitsOf(Leader)' = CommitsOf(Leader)
<1>1. SameLogs
  BY LogGrows
<1>2. f # Leader
  BY KayakAssumption
<1>3. wal[f] \subseteq DOMAIN log
  BY NatFacts
<1> QED
  BY <1>1, <1>2, <1>3 DEF SameLogs, CommitsOf, Wal, Commits

\* A step of follower f changes nothing of the others.
LEMMA OthersStay ==
  ASSUME TypeOK, NEW f \in Followers, NEW h \in Calls, FollowerStep(f, h)
  PROVE  \A g \in Followers \ {f} : wal'[g] = wal[g] /\ SameNode(g)
<1>1. /\ wal \in [Followers -> SUBSET DOMAIN log]
      /\ cycle \in [Nodes -> {<<>>} \cup {<<i>> : i \in DOMAIN log}]
      /\ nextIndex \in [Nodes -> 0..(MaxIndex + 1)]
      /\ lastCommit \in [Nodes -> Index]
      /\ executed \in [Nodes -> Seq(Index)]
  BY DEF TypeOK
<1>2. CASE \/ FollowerRefuse(f, h) \/ FollowerLogPrepare(f, h) \/ WaitPrepare(f, h)
           \/ WaitLast(f, h) \/ CheckCommit(f, h) \/ FollowerReorder(f, h)
           \/ Requeue(f, h)
  BY <1>1, <1>2 DEF FollowerRefuse, FollowerLogPrepare, WaitPrepare, WaitLast, CheckCommit,
                    FollowerReorder, Requeue, walVars, nodeVars, SameNode, Nodes
<1>3. CASE \/ FollowerMarkPrepare(f, h) \/ FollowerRollback(f, h)
           \/ FollowerReturnCommit(f, h)
  BY <1>1, <1>3 DEF FollowerMarkPrepare, FollowerRollback, FollowerReturnCommit, Succeed,
                    walVars, SameNode, Nodes
<1>4. CASE \/ FollowerWritePrepare(f, h) \/ FollowerLogCommit(f, h)
           \/ FollowerDoCommit(f, h)
  BY <1>1, <1>4 DEF FollowerWritePrepare, FollowerLogCommit, FollowerDoCommit, walVars,
                    nodeVars, SameNode, Nodes
<1> QED
  BY <1>2, <1>3, <1>4 DEF FollowerStep, HandlerStep, CommitQueueStep

\* Apart from followerDoCommit, a follower's steps do not touch its position.
LEMMA QuietStays ==
  ASSUME TypeOK, HandlerInv, NEW f \in Followers, NEW h \in Calls, FollowerStep(f, h),
         ~ FollowerDoCommit(f, h), ~ (FollowerLogCommit(f, h) /\ cycle' # cycle)
  PROVE  Stays(f)
<1>1. UNCHANGED <<log, status, cursor>>
  <2>1. FollowerNext
    BY DEF FollowerStep, FollowerNext
  <2> QED
    BY <2>1, LeaderFrame DEF SameLeader
<1>2. wal \in [Followers -> SUBSET DOMAIN log] /\ f # Leader
  BY KayakAssumption DEF TypeOK
<1>3. Up(f)
  BY ZenonT(40) DEF FollowerStep, HandlerStep, CommitQueueStep, FollowerRefuse, FollowerLogPrepare,
     FollowerWritePrepare, FollowerMarkPrepare, WaitPrepare, FollowerRollback, WaitLast, CheckCommit, Requeue,
     FollowerDoCommit, FollowerReturnCommit, FollowerLogCommit, FollowerReorder,
     HaveLast, HavePrepare, At
<1>4. UNCHANGED <<cycle, executed, lastCommit>>
  BY DEF FollowerStep, HandlerStep, CommitQueueStep, FollowerRefuse, FollowerLogPrepare,
     FollowerWritePrepare, FollowerMarkPrepare, WaitPrepare, FollowerRollback, WaitLast, CheckCommit, Requeue,
     FollowerReturnCommit, FollowerLogCommit, FollowerReorder, nodeVars
<1>5. CASE FollowerWritePrepare(f, h) \/ FollowerRollback(f, h)
  <2>a. Serves(f, h)
    BY DEF HandlerInv
  <2>1. log[h[2]].type # "commit" /\ wal'[f] \subseteq wal[f] \cup {h[2]} /\ wal[f] \subseteq wal'[f]
    BY <1>2, <1>5, <2>a DEF FollowerWritePrepare, FollowerRollback, At, Serves
  <2>2. CommitsOf(f)' = CommitsOf(f)
    BY <1>1, <1>2, <2>1 DEF CommitsOf, Wal, Commits
  <2> QED
    BY <1>1, <1>3, <1>4, <2>2 DEF Stays, Up
<1>6. CASE ~ (FollowerWritePrepare(f, h) \/ FollowerRollback(f, h))
  <2>1. wal'[f] = wal[f]
    <3>1. CASE FollowerLogCommit(f, h)
      <4>1. h[2] \in wal[f] => UNCHANGED wal
        BY <3>1 DEF FollowerLogCommit
      <4>2. h[2] \notin wal[f] => /\ cycle[f] = <<>>
                                  /\ cycle' = [cycle EXCEPT ![f] = <<h[2]>>]
        BY <3>1 DEF FollowerLogCommit
      <4>3. h[2] \notin wal[f] => cycle'[f] = <<h[2]>>
        BY <4>2 DEF TypeOK, Nodes
      <4> QED
        BY <4>1, <4>2, <4>3, <1>4, BusyFact
    <3> QED
      BY <1>6, <3>1 DEF FollowerStep, HandlerStep, CommitQueueStep, FollowerRefuse,
         FollowerLogPrepare, FollowerMarkPrepare, WaitPrepare, WaitLast, CheckCommit, Requeue,
         FollowerDoCommit, FollowerReturnCommit, FollowerReorder, walVars
  <2>2. CommitsOf(f)' = CommitsOf(f)
    BY <1>1, <1>2, <2>1 DEF CommitsOf, Wal, Commits
  <2> QED
    BY <1>1, <1>3, <1>4, <2>2, SMT DEF Stays, Up
<1> QED
  BY <1>5, <1>6

\* followerDoCommit logs the commit right after the newest one of the WAL.
LEMMA FollowerLogCommitFact ==
  ASSUME TypeOK, ChainInv, PositionInv, HandlerInv, NEW f \in Followers, NEW h \in Calls,
         FollowerLogCommit(f, h), cycle' # cycle
  PROVE  /\ UNCHANGED <<log, status, executed, lastCommit>>
         /\ h[2] \in Commits
         /\ wal'[f] = wal[f] \cup {h[2]}
         /\ cycle'[f] = <<h[2]>>
         /\ Up(f)
         /\ \A c \in CommitsOf(f) : c < h[2]
         /\ \A d \in Commits : d < h[2] => d <= lastCommit[f]
         /\ IsLast(lastCommit[f], CommitsOf(f))
<1>1. /\ handler[f][h] = "enqueue" /\ Up(f)
      /\ cycle[f] = <<>>
      /\ log[h[2]].last = lastCommit[f]
      /\ wal' = [wal EXCEPT ![f] = @ \cup {h[2]}]
      /\ cycle' = [cycle EXCEPT ![f] = <<h[2]>>]
      /\ UNCHANGED <<log, status, executed, lastCommit>>
  BY DEF FollowerLogCommit, At, nodeVars
<1>2. wal'[f] = wal[f] \cup {h[2]} /\ cycle'[f] = <<h[2]>>
  BY <1>1 DEF TypeOK, Nodes
<1>3. h[2] \in Commits
  BY <1>1 DEF HandlerInv, Serves, Commits
<1>4. IsLast(lastCommit[f], CommitsOf(f))
  BY <1>1 DEF PositionInv, Position, Nodes
<1>5. /\ lastCommit[f] < h[2]
      /\ \A d \in Commits : d < h[2] => d <= lastCommit[f]
  BY <1>1, <1>3 DEF ChainInv
<1>6. /\ lastCommit[f] \in Nat /\ Commits \subseteq Nat
      /\ CommitsOf(f) \subseteq Commits
  BY NatFacts DEF Nodes, CommitsOf
<1>7. \A c \in CommitsOf(f) : c < h[2]
  <2>1. PICK k \in Nat : k = h[2]
    BY <1>3, <1>6
  <2>2. PICK v \in Nat : v = lastCommit[f]
    BY <1>6
  <2>3. \A c \in CommitsOf(f) : c \in Nat /\ c <= v
    BY <1>4, <1>6, <2>2 DEF IsLast
  <2>4. v < k
    BY <1>5, <2>1, <2>2
  <2> QED
    BY <2>1, <2>3, <2>4, SMT
<1> QED
  BY <1>1, <1>2, <1>3, <1>4, <1>5, <1>7, SMTT(30)

\* Handler.Commit is called with the commit commitCycle has logged, the newest.
LEMMA DoCommitFact ==
  ASSUME TypeOK, PositionInv, HandlerInv,
         NEW n \in Nodes, NEW k \in Index, cycle[n] = <<k>>,
         executed'[n] = Append(executed[n], k),
         lastCommit'[n] = k, cycle'[n] = <<>>,
         status'[n] = status[n], CommitsOf(n)' = CommitsOf(n)
  PROVE  /\ Position(n)'
         /\ (\A i, j \in 1..Len(executed[n]) :
               i < j => executed[n][i] < executed[n][j]) =>
            (\A i, j \in 1..Len(executed'[n]) :
               i < j => executed'[n][i] < executed'[n][j])
<1>1. executed[n] \in Seq(Index)
  BY DEF TypeOK
<1>2. /\ Up(n)
      /\ k \in CommitsOf(n)
      /\ \A c \in CommitsOf(n) : c <= k
      /\ \A j \in 1..Len(executed[n]) : executed[n][j] < k
      /\ \A j \in 1..Len(executed[n]) : executed[n][j] \in CommitsOf(n)
  <2>1. Position(n) /\ cycle[n] # <<>>
    BY BusyFact DEF PositionInv
  <2> QED
    BY <2>1 DEF Position
<1> DEFINE s == executed[n]
           t == executed'[n]
<1>3. /\ Len(s) \in Nat
      /\ Len(t) = Len(s) + 1
      /\ \A j \in 1..Len(s) : t[j] = s[j]
      /\ t[Len(s) + 1] = k
  BY <1>1, AppendFact, SMT
<1>4. s \in Seq(Index) /\ \A j \in 1..Len(s) : s[j] < k /\ s[j] \in CommitsOf(n)
  BY <1>1, <1>2
<1> HIDE DEF s, t
<1>5. \A j \in 1..Len(t) : j \in 1..Len(s) \/ j = Len(s) + 1
  BY <1>3, SMT
<1>6. \A j \in 1..Len(t) : t[j] \in CommitsOf(n)
  BY <1>2, <1>3, <1>4, <1>5
<1>7. Position(n)'
  <2>1. \A j \in 1..Len(executed'[n]) : executed'[n][j] \in CommitsOf(n)'
    BY <1>6 DEF t
  <2>2. IsLast(lastCommit'[n], CommitsOf(n)')
    BY <1>2 DEF IsLast
  <2>3. status'[n] # "reading" /\ \A i \in Index : cycle'[n] # <<i>>
    BY <1>2, BusyFact DEF Up
  <2> QED
    BY <2>1, <2>2, <2>3 DEF Position
<1>8. ASSUME \A i, j \in 1..Len(s) : i < j => s[i] < s[j],
             NEW i \in 1..Len(t), NEW j \in 1..Len(t), i < j
      PROVE  t[i] < t[j]
  <2>1. i \in 1..Len(s)
    BY <1>3, <1>8, SMT
  <2>2. CASE j \in 1..Len(s)
    BY <1>3, <1>8, <2>1, <2>2
  <2>3. CASE j = Len(s) + 1
    BY <1>3, <1>4, <2>1, <2>3
  <2> QED
    BY <1>5, <2>2, <2>3
<1> QED
  BY <1>7, <1>8 DEF s, t

\* Every node keeps its position, and executes commits in their order.
InOrder(n) ==
  \A i, j \in 1..Len(executed[n]) : i < j => executed[n][i] < executed[n][j]

\* Every step keeps each node's Position and the order of what it executed.
LEMMA PositionNext ==
  ASSUME TypeOK, TypeOK', ChainInv, AllocInv, PositionInv, HandlerInv, CommitPrefix,
         [Next]_vars, NEW n \in Nodes
  PROVE  Position(n)' /\ (InOrder(n) => InOrder(n)')
<1>a. Position(n)
  BY DEF PositionInv
<1>b. /\ cycle \in [Nodes -> {<<>>} \cup {<<i>> : i \in DOMAIN log}]
      /\ nextIndex \in [Nodes -> 0..(MaxIndex + 1)]
      /\ lastCommit \in [Nodes -> Index]
      /\ executed \in [Nodes -> Seq(Index)]
  BY DEF TypeOK
<1>c. Leader \in Nodes /\ Leader \notin Followers /\ CommitsOf(Leader) = Commits
  BY KayakAssumption DEF Nodes, CommitsOf, Wal, Commits
<1>d. DOMAIN log \subseteq Nat /\ CommitsOf(n) \subseteq DOMAIN log
  BY NatFacts DEF CommitsOf
<1>1. CASE Stays(n)
  BY <1>1, <1>a, StaysFact DEF Stays, InOrder
<1>2. CASE UNCHANGED vars
  BY <1>1, <1>2 DEF vars, Stays, CommitsOf, Wal, Commits
<1>3. CASE LeaderNext /\ n # Leader
  BY <1>1, <1>3, FollowerFrame, CommitsStay DEF SameFollowers, SameNode, Stays, Nodes
<1>4. CASE RPCNext \/ (FollowerNext /\ n = Leader)
  <2>1. CASE n = Leader
    BY <1>1, <1>4, <2>1, LeaderFrame DEF SameLeader, SameNode, Stays, CommitsOf, Wal, Commits
  <2>2. CASE RPCNext /\ n # Leader
    BY <1>1, <2>2 DEF RPCNext, Lose, Disconnect, Fetch, walVars, nodeVars, Stays, CommitsOf,
                      Wal, Commits
  <2> QED
    BY <1>4, <2>1, <2>2
<1>5. CASE LeaderNext /\ n = Leader
  <2>1. ASSUME NEW r \in Reqs, LeaderLogCommit(r) PROVE Position(n)' /\ (InOrder(n) => InOrder(n)')
    <3>0. PICK k \in Index : k = nextIndex[Leader]
      BY <2>1, LeaderLogCommitFact
    <3>1. /\ Commits' = Commits \cup {k}
          /\ \A i \in DOMAIN log : i < k
      BY <2>1, <3>0, LeaderLogCommitFact
    <3>2. cycle'[n] = <<k>> /\ UNCHANGED <<status, executed>>
      BY <1>5, <1>b, <1>c, <2>1, <3>0 DEF LeaderLogCommit
    <3>3. Up(n)
      BY <1>5, <2>1 DEF LeaderLogCommit, AllocInv, CallInv, Unfinished
    <3>4. CommitsOf(n)' = CommitsOf(n) \cup {k}
      BY <1>5, <1>c, <3>1 DEF CommitsOf, Wal, Commits
    <3>5. \A j \in 1..Len(executed[n]) : executed[n][j] \in CommitsOf(n) /\ executed[n][j] < k
      BY <1>a, <1>d, <3>1 DEF Position
    <3>6. \A c \in CommitsOf(n)' : c <= k
      BY <1>d, <3>1, <3>4, IndexFact, SMT
    <3>7. \A i : cycle'[n] = <<i>> => i = k
      BY <3>2, SMT
    <3>8. cycle'[n] # <<>> /\ status'[n] = "up"
      BY <3>2, <3>3, BusyFact DEF Up
    <3>9. Position(n)'
      BY <3>2, <3>4, <3>5, <3>6, <3>7, <3>8 DEF Position, Up
    <3> QED
      BY <3>2, <3>9 DEF InOrder
  <2>2. CASE LeaderDoCommit
    <3>1. PICK k \in DOMAIN log : cycle[Leader] = <<k>>
      BY <2>2, <1>b, <1>c DEF LeaderDoCommit
    <3>2. /\ executed'[n] = Append(executed[n], k)
          /\ lastCommit'[n] = k /\ cycle'[n] = <<>>
          /\ UNCHANGED <<log, status>>
      BY <1>5, <1>b, <1>c, <2>2, <3>1, SMT DEF LeaderDoCommit, walVars
    <3>3. CommitsOf(n)' = CommitsOf(n)
      BY <1>5, <3>2 DEF CommitsOf, Wal, Commits
    <3>4. k \in Index
      BY DEF TypeOK
    <3> QED
      BY <1>5, <3>1, <3>2, <3>3, <3>4, DoCommitFact DEF InOrder
  <2>3. ASSUME NEW r \in Reqs,
               \/ AllocPrepare(r) \/ LogPrepare(r) \/ PrepareOk(r) \/ PrepareFailed(r)
               \/ CommitTimeout(r) \/ ReturnCommitted(r)
        PROVE  Stays(n)
    <3>1. Up(Leader) \/ nextIndex' = nextIndex
      BY <2>3 DEF AllocPrepare, LogPrepare, PrepareOk, PrepareFailed, CommitTimeout,
                  ReturnCommitted, nodeVars, AllocInv, CallInv, Unfinished
    <3>2. UNCHANGED <<cycle, executed, lastCommit, status, cursor>>
      BY <2>3 DEF AllocPrepare, LogPrepare, PrepareOk, PrepareFailed, CommitTimeout,
                  ReturnCommitted, nodeVars
    <3>3. Commits' = Commits
      <4>1. CASE LogPrepare(r) \/ PrepareFailed(r)
        BY <4>1, LogPrepareFact, PrepareFailedFact
      <4>2. CASE ~ (LogPrepare(r) \/ PrepareFailed(r))
        BY <2>3, <4>2 DEF AllocPrepare, PrepareOk, CommitTimeout, ReturnCommitted, walVars,
                          Commits
      <4> QED
        BY <4>1, <4>2
    <3>4. CommitsOf(n)' = CommitsOf(n)
      BY <1>5, <3>3 DEF CommitsOf, Wal, Commits
    <3> QED
      BY <1>5, <3>1, <3>2, <3>4 DEF Stays, Up
  <2> QED
    BY <1>5, <1>1, <2>1, <2>2, <2>3 DEF LeaderNext
<1>6. CASE FollowerNext /\ n # Leader
  <2>0. PICK f \in Followers, h \in Calls : FollowerStep(f, h)
    BY <1>6 DEF FollowerNext, FollowerStep
  <2>a. UNCHANGED <<log, status, cursor>> /\ n \in Followers
    BY <1>6, LeaderFrame DEF SameLeader, Nodes
  <2>1. CASE n # f
    BY <1>1, <2>0, <2>1, <2>a, OthersStay, CommitsStay DEF SameNode, Stays
  <2>2. CASE n = f /\ FollowerDoCommit(f, h)
    <3>1. /\ cycle[f] = <<h[2]>> /\ h[2] \in Index
      BY <2>2, CallsFact DEF FollowerDoCommit, At, HandlerInv, Serves
    <3>2. /\ executed'[n] = Append(executed[n], h[2])
          /\ lastCommit'[n] = h[2] /\ cycle'[n] = <<>>
          /\ wal' = wal
      BY <1>b, <2>2 DEF FollowerDoCommit, walVars
    <3>3. CommitsOf(n)' = CommitsOf(n)
      BY <2>a, <3>2 DEF CommitsOf, Wal, Commits
    <3> QED
      BY <2>2, <2>a, <3>1, <3>2, <3>3, DoCommitFact DEF InOrder
  <2>3. CASE n = f /\ FollowerLogCommit(f, h) /\ cycle' # cycle
    <3>0. PICK k \in Index : k = h[2]
      BY CallsFact
    <3>1. /\ UNCHANGED executed
          /\ k \in Commits
          /\ wal'[n] = wal[n] \cup {k}
          /\ cycle'[n] = <<k>>
          /\ Up(n)
          /\ \A c \in CommitsOf(n) : c < k
      BY <2>3, <3>0, FollowerLogCommitFact, SMTT(30)
    <3>2. CommitsOf(n)' = CommitsOf(n) \cup {k}
      BY <1>6, <2>a, <3>1 DEF CommitsOf, Wal, Commits
    <3>3. \A j \in 1..Len(executed[n]) : executed[n][j] \in CommitsOf(n) /\ executed[n][j] < k
      BY <1>a, <3>1 DEF Position
    <3>4. \A c \in CommitsOf(n)' : c <= k
      BY <1>d, <3>1, <3>2, IndexFact, SMTT(30)
    <3>5. \A i : cycle'[n] = <<i>> => i = k
      BY <3>1, SMT
    <3>6. cycle'[n] # <<>> /\ status'[n] = "up"
      BY <2>a, <3>1, BusyFact DEF Up
    <3>7. Position(n)'
      BY <3>1, <3>2, <3>3, <3>4, <3>5, <3>6 DEF Position, Up
    <3> QED
      BY <3>1, <3>7 DEF InOrder
  <2>4. CASE n = f /\ ~ FollowerDoCommit(f, h) /\ ~ (FollowerLogCommit(f, h) /\ cycle' # cycle)
    BY <1>1, <2>0, <2>4, QuietStays
  <2> QED
    BY <2>1, <2>2, <2>3, <2>4
<1>7. CASE CrashNext
  <2>0. PICK m \in Nodes : Crash(m) \/ ReadLog(m) \/ ReadEOF(m)
    BY <1>7 DEF CrashNext
  <2>1. UNCHANGED <<log, wal, executed>>
    BY <2>0, CrashFact, ReadLogFact, ReadEOFFact
  <2>2. CommitsOf(n)' = CommitsOf(n) /\ (InOrder(n) => InOrder(n)')
    BY <2>1 DEF CommitsOf, Wal, Commits, InOrder
  <2>3. CASE m # n
    BY <1>1, <2>0, <2>1, <2>2, <2>3, CrashFact, ReadLogFact, ReadEOFFact, ZenonT(30) DEF Stays
  <2>4. CASE Crash(n)
    <3>1. /\ status'[n] = "reading" /\ cycle'[n] = <<>>
          /\ cursor'[n] = 0 /\ nextIndex'[n] = 0 /\ lastCommit'[n] = 0
      BY <2>4, CrashFact
    <3>2. IsLast(0, {c \in CommitsOf(n)' : c < 0})
      BY <1>d, <2>2, SMT DEF IsLast
    <3>3. \A j \in 1..Len(executed[n]) : executed[n][j] \in CommitsOf(n)
      BY <1>a DEF Position
    <3>4. \A i : cycle'[n] # <<i>>
      BY <3>1, BusyFact
    <3>5. Position(n)'
      BY <2>1, <2>2, <3>1, <3>2, <3>3, <3>4 DEF Position, Up
    <3> QED
      BY <2>2, <3>5
  <2>5. CASE ReadLog(n)
    <3>0. status[n] = "reading" /\ cycle' = cycle
      BY <2>5, ReadLogFact DEF ReadLog
    <3>1. CASE status'[n] \in {"failed", "hung"}
      BY <1>a, <2>1, <2>2, <3>0, <3>1 DEF Position, Up
    <3>2. CASE status'[n] = "reading" /\ \E i \in Wal(n) : ReadsOn(n, i)
      <4>1. PICK i \in Wal(n) : ReadsOn(n, i)
        BY <3>2
      <4>2. i \in DOMAIN log /\ i \in Nat
        BY <1>d, NatFacts DEF Wal, Nodes
      <4>3. IsLast(lastCommit[n], {c \in CommitsOf(n) : c < cursor[n]})
        BY <1>a, <3>0 DEF Position
      <4>4. \A c \in CommitsOf(n) : c \in Nat /\ c \in Wal(n)
        BY <1>d DEF CommitsOf
      <4>5. cursor[n] \in Nat /\ lastCommit[n] \in Nat
        BY NatFacts
      <4>6. \A c \in CommitsOf(n) : c < i + 1 <=> (c < cursor[n] \/ c = i)
        BY <4>1, <4>2, <4>4, <4>5, SMT DEF ReadsOn
      <4>7. i \in CommitsOf(n) <=> log[i].type = "commit"
        BY <4>2 DEF CommitsOf, Commits
      <4>8. IsLast(lastCommit'[n], {c \in CommitsOf(n) : c < i + 1})
        <5>1. CASE log[i].type = "commit"
          <6>1. lastCommit'[n] = i
            BY <4>1, <5>1 DEF ReadsOn
          <6> QED
            BY <4>2, <4>4, <4>7, <5>1, <6>1, SMT DEF IsLast
        <5>2. CASE log[i].type # "commit"
          <6>1. lastCommit'[n] = lastCommit[n]
            BY <4>1, <5>2 DEF ReadsOn
          <6>2. {c \in CommitsOf(n) : c < i + 1} = {c \in CommitsOf(n) : c < cursor[n]}
            BY <4>6, <4>7, <5>2
          <6> QED
            BY <4>3, <6>1, <6>2
        <5> QED
          BY <5>1, <5>2
      <4>9. cursor'[n] = i + 1 /\ nextIndex'[n] = i + 1
        BY <4>1 DEF ReadsOn
      <4>10. cycle[n] = <<>>
        BY <1>a, <3>0 DEF Position, Up
      <4>11. \A k : cycle'[n] # <<k>>
        BY <3>0, <4>10, BusyFact
      <4>12. Position(n)'
        BY <1>a, <2>1, <2>2, <3>0, <3>2, <4>8, <4>9, <4>10, <4>11 DEF Position, Up
      <4> QED
        BY <2>2, <4>12
    <3> QED
      BY <2>5, <3>1, <3>2, ReadLogFact
  <2>6. CASE ReadEOF(n)
    <3>1. /\ status[n] = "reading" /\ status'[n] = "up"
          /\ UNCHANGED <<lastCommit, cycle>>
          /\ \A i \in Wal(n) : i < cursor[n]
      BY <2>6, ReadEOFFact
    <3>2. CommitsOf(n) = {c \in CommitsOf(n) : c < cursor[n]}
      BY <3>1 DEF CommitsOf
    <3>3. IsLast(lastCommit[n], CommitsOf(n))
      BY <1>a, <3>1, <3>2 DEF Position
    <3>4. Position(n)'
      BY <1>a, <2>1, <2>2, <3>1, <3>3 DEF Position, Up
    <3> QED
      BY <2>2, <3>4
  <2> QED
    BY <2>0, <2>3, <2>4, <2>5, <2>6
<1> QED
  BY <1>2, <1>3, <1>4, <1>5, <1>6, <1>7 DEF Next

\* A follower's commits stay a prefix of all commits.
LEMMA CommitPrefixNext ==
  ASSUME TypeOK, TypeOK', ChainInv, AllocInv, PositionInv, HandlerInv, CommitPrefix,
         [Next]_vars
  PROVE  CommitPrefix'
<1>a. SameLogs
  BY LogGrows
<1>b. /\ DOMAIN log \subseteq Nat /\ Commits \subseteq DOMAIN log
      /\ \A f \in Followers : wal[f] \subseteq DOMAIN log
  BY NatFacts
<1>c. \A c \in DOMAIN log : c \in Commits' => c \in Commits
  BY <1>a DEF SameLogs, Commits
<1>1. CASE UNCHANGED wal
  <2>1. CASE Commits' = Commits
    BY <1>1, <2>1 DEF CommitPrefix
  <2>2. CASE \E r \in Reqs : LeaderLogCommit(r)
    <3>1. PICK k \in Index : Commits' = Commits \cup {k} /\ \A i \in DOMAIN log : i < k
      BY <2>2, LeaderLogCommitFact
    <3>2. SUFFICES ASSUME NEW f \in Followers, NEW c \in wal[f] \cap Commits,
                          NEW d \in Commits', d < c
                   PROVE  d \in wal[f]
      BY <1>1, <1>b, <1>c DEF CommitPrefix
    <3>3. d \in Commits
      <4>1. CASE d = k
        <5>1. c \in Nat /\ c < k
          BY <3>1, <1>b
        <5>2. k \in Nat
          BY IndexFact
        <5> QED
          BY <3>2, <4>1, <5>1, <5>2, SMT
      <4> QED
        BY <4>1, <3>1
    <3> QED
      BY <3>2, <3>3 DEF CommitPrefix
  <2>3. \/ Commits' = Commits
        \/ \E r \in Reqs : LeaderLogCommit(r)
    <3>1. CASE UNCHANGED log
      BY <3>1 DEF Commits
    <3> QED
      BY <3>1, LogFrame, LogPrepareFact, PrepareFailedFact
  <2> QED
    BY <2>1, <2>2, <2>3
<1>2. CASE FollowerNext
  <2>0. PICK f \in Followers, h \in Calls : FollowerStep(f, h)
    BY <1>2 DEF FollowerNext, FollowerStep
  <2>1. UNCHANGED log /\ Commits' = Commits
    BY <1>2, LeaderFrame DEF SameLeader, Commits
  <2>2. \A g \in Followers : wal[g] \subseteq wal'[g]
    BY <2>0, FollowerStable DEF Stable
  <2>3. SUFFICES ASSUME NEW g \in Followers, NEW c \in wal'[g] \cap Commits,
                        NEW d \in Commits, d < c
                 PROVE  d \in wal'[g]
    BY <2>1 DEF CommitPrefix
  <2>4. CASE c \in wal[g]
    BY <2>2, <2>3, <2>4 DEF CommitPrefix
  <2>5. CASE c \notin wal[g]
    <3>1. g = f
      BY <2>0, <2>5, OthersStay
    <3>2. CommitsOf(f)' # CommitsOf(f)
      BY <2>1, <2>3, <2>5, <3>1, KayakAssumption DEF CommitsOf, Wal
    <3>3. ~ Stays(f) /\ ~ FollowerDoCommit(f, h)
      BY <2>1, <3>2 DEF Stays, FollowerDoCommit, walVars, CommitsOf, Wal
    <3>4. FollowerLogCommit(f, h) /\ cycle' # cycle
      BY <2>0, <3>3, QuietStays, SMTT(30)
    <3>5. /\ wal'[f] = wal[f] \cup {h[2]}
          /\ \A e \in Commits : e < h[2] => e <= lastCommit[f]
          /\ IsLast(lastCommit[f], CommitsOf(f))
      BY <3>4, FollowerLogCommitFact
    <3>6. c = h[2]
      BY <2>3, <2>5, <3>1, <3>5
    <3>7. d <= lastCommit[f]
      BY <2>3, <3>5, <3>6
    <3>8. d \in Nat /\ d # 0 /\ lastCommit[f] \in Nat
      BY <1>b, NatFacts DEF ChainInv, Nodes
    <3>9. lastCommit[f] \in wal[f] \cap Commits
      BY <3>5, <3>7, <3>8, KayakAssumption, SMT DEF IsLast, CommitsOf, Wal
    <3>10. d \in wal[f]
      BY <3>7, <3>8, <3>9, SMT DEF CommitPrefix
    <3> QED
      BY <3>1, <3>5, <3>10
  <2> QED
    BY <2>4, <2>5
<1>3. CASE ~ FollowerNext
  <2>1. UNCHANGED wal
    <3>1. CASE LeaderNext
      BY <3>1, FollowerFrame DEF SameFollowers
    <3>2. CASE RPCNext
      BY <3>2 DEF RPCNext, Lose, Disconnect, Fetch, walVars
    <3>3. CASE CrashNext
      BY <3>3, CrashFact, ReadLogFact, ReadEOFFact DEF CrashNext
    <3>4. CASE UNCHANGED vars
      BY <3>4 DEF vars
    <3> QED
      BY <1>3, <3>1, <3>2, <3>3, <3>4 DEF Next
  <2> QED
    BY <1>1, <2>1
<1> QED
  BY <1>2, <1>3

\* Every step preserves the inductive invariant.
LEMMA IInvNext ==
  ASSUME IInv, [Next]_vars
  PROVE  IInv'
<1> USE DEF IInv
<1>1. TypeOK'
  BY TypeOKNext
<1>2. ChainInv' /\ DecisionInv'
  BY <1>1, ChainNext, DecisionNext
<1>3. AllocInv' /\ HandlerInv'
  BY <1>1, AllocNext, HandlerNext
<1>4. PositionInv'
  BY <1>1, PositionNext DEF PositionInv
<1>5. ExecutedInOrder'
  <2>1. \A n \in Nodes : InOrder(n)
    BY DEF ExecutedInOrder, InOrder
  <2>2. \A n \in Nodes : InOrder(n)'
    BY <1>1, <2>1, PositionNext
  <2> QED
    BY <2>2 DEF ExecutedInOrder, InOrder
<1>6. CommitPrefix'
  BY <1>1, CommitPrefixNext
<1> QED
  BY <1>1, <1>2, <1>3, <1>4, <1>5, <1>6

\* The inductive invariant holds initially.
LEMMA IInvInit ==
  ASSUME Init
  PROVE  IInv
<1>1. Leader \in Nodes /\ Leader \notin Followers /\ Followers \subseteq Nodes /\ 0 \in Index
  BY KayakAssumption, IndexFact DEF Nodes
<1>2. DOMAIN log = {} /\ Commits = {} /\ \A n \in Nodes : CommitsOf(n) = {} /\ Wal(n) = {}
  BY DEF Init, Commits, CommitsOf, Wal, Nodes
<1>3. TypeOK
  <2>1. \A r \in Reqs : [pc |-> "new", index |-> 0, commit |-> 0] \in ApplyCall
    BY <1>1 DEF ApplyCall, ApplyPcs
  <2>2. /\ DOMAIN log \subseteq Index
        /\ \A i \in DOMAIN log : log[i] \in Log
    BY <1>2
  <2>3. wal \in [Followers -> SUBSET DOMAIN log]
    BY DEF Init
  <2>4. /\ status \in [Nodes -> {"up", "reading", "failed", "hung"}]
        /\ cursor \in [Nodes -> 0..(MaxIndex + 1)]
        /\ nextIndex \in [Nodes -> 0..(MaxIndex + 1)]
    BY KayakAssumption, SMT DEF Init
  <2>5. /\ lastCommit \in [Nodes -> Index]
        /\ pending \in [Nodes -> SUBSET Index]
        /\ apply \in [Reqs -> ApplyCall]
    BY <1>1, <2>1 DEF Init
  <2>6. cycle \in [Nodes -> {<<>>} \cup {<<i>> : i \in DOMAIN log}]
    BY DEF Init
  <2>7. /\ result \in [Followers -> [Index -> {"none", "ok", "err", "lost"}]]
        /\ item \in [Followers -> [Index -> {"none", "run", "set"}]]
    BY DEF Init
  <2>8. handler \in [Followers -> [Calls -> HandlerPcs]]
    BY DEF Init, HandlerPcs
  <2>9. executed \in [Nodes -> Seq(Index)]
    BY SMT DEF Init
  <2>10. crashes \in [Nodes -> 0..MaxCrashes] /\ drops \in 0..MaxDrops
    BY KayakAssumption, SMT DEF Init
  <2> QED
    BY <2>2, <2>3, <2>4, <2>5, <2>6, <2>7, <2>8, <2>9, <2>10 DEF TypeOK
<1>4. ChainInv /\ DecisionInv
  BY <1>2 DEF ChainInv, DecisionInv
<1>5. AllocInv
  BY <1>2 DEF Init, AllocInv, CallInv, Unfinished
<1>6. PositionInv
  <2>1. SUFFICES ASSUME NEW n \in Nodes PROVE Position(n)
    BY DEF PositionInv
  <2>2. /\ cycle[n] = <<>> /\ executed[n] = <<>> /\ status[n] = "up" /\ lastCommit[n] = 0
    BY DEF Init
  <2>3. \A i : cycle[n] # <<i>>
    BY <2>2, BusyFact
  <2>4. Len(executed[n]) = 0
    BY <2>2
  <2>5. \A j \in 1..Len(executed[n]) : FALSE
    BY <2>4, SMT
  <2>6. IsLast(lastCommit[n], CommitsOf(n))
    BY <1>2, <2>2 DEF IsLast
  <2>7. cycle[n] = <<>> /\ status[n] # "reading" /\ \A k \in Index : cycle[n] # <<k>>
    BY <2>2, <2>3
  <2> QED
    BY <2>5, <2>6, <2>7 DEF Position
<1>7. HandlerInv
  BY DEF Init, HandlerInv, Serves
<1>8. CommitPrefix
  BY <1>2 DEF CommitPrefix
<1>9. ExecutedInOrder
  <2>1. \A n \in Nodes : Len(executed[n]) = 0
    BY DEF Init
  <2> QED
    BY <2>1, SMT DEF ExecutedInOrder
<1> QED
  BY <1>3, <1>4, <1>5, <1>6, <1>7, <1>8, <1>9 DEF IInv

\* The inductive invariant holds in every reachable state.
LEMMA Inductive == Spec => []IInv
  BY IInvInit, IInvNext, PTL DEF Spec

-----------------------------------------------------------------------------
(***************************************************************************)
(* Recovery of pendingPrepares.                                            *)
(***************************************************************************)
\* Log k decides the prepare log i.
Decides(k, i) == log[k].type # "prepare" /\ log[k].ref = i

\* A follower between writeWAL and markPendingPrepare of log i, and between
\* writeWAL and markPrepareFinished of commit log k.
Marking(f, i) == \E h \in Calls : h[2] = i /\ handler[f][h] = "mark"

InFlight(f, k) == \E h \in Calls : h[2] = k /\ handler[f][h] \in {"executing", "committed"}

\* A prepare log is decided once, by a later log.
DecideOnce ==
  \A k \in DOMAIN log : log[k].type # "prepare" =>
    /\ log[k].ref < k
    /\ \A m \in DOMAIN log : Decides(m, log[k].ref) => m = k

\* The calls of the commit that leaderDoCommit is executing are not sent yet.
UnsentInv ==
  \A k \in Index : cycle[Leader] = <<k>> =>
    \A f \in Followers : handler[f][<<"rpc", k>>] = "none"

\* A follower stores a log after the logs it refers to.
ClosedInv(f) ==
  /\ \A k \in wal[f] : /\ log[k].type # "prepare" => log[k].ref \in wal[f]
                       /\ log[k].type = "commit" => log[k].last \in wal[f]
  /\ \A i \in Index : item[f][i] = "set" => i \in wal[f]
  /\ \A h \in Calls :
       /\ handler[f][h] \in {"waitLast", "enqueue", "reorder"} => log[h[2]].ref \in wal[f]
       /\ handler[f][h] \in {"enqueue", "reorder"} => log[h[2]].last \in wal[f]

\* One handler at a time is between the steps of one commit log.
SoleInv(f) ==
  \A h \in Calls : handler[f][h] \in {"executing", "committed"} =>
    \A g \in Calls : g[2] = h[2] /\ handler[f][g] \in {"executing", "committed"} => g = h

\* The prepares a follower has still to decide.
Open(f, i) ==
  /\ i \in wal[f]
  /\ log[i].type = "prepare"
  /\ ~ Marking(f, i)
  /\ \A k \in wal[f] : Decides(k, i) => InFlight(f, k)

\* Those are pending, and so is the prepare of a commit that waits to be logged.
\* Nothing is pending but prepares of the WAL.
PendingInv(f) ==
  /\ Up(f) => \A i \in Index : Open(f, i) => i \in pending[f]
  /\ Up(f) => \A i \in pending[f] : i \in wal[f] /\ log[i].type = "prepare"
  /\ \A h \in Calls : handler[f][h] \in {"enqueue", "reorder"} /\ h[2] \notin wal[f]
                      => log[h[2]].ref \in pending[f]

\* What readLogs has rebuilt.
ReadInv(n) ==
  /\ status[n] = "reading" => \A i \in Index : i \in pending[n] <=>
       /\ i \in Wal(n)
       /\ i < cursor[n]
       /\ log[i].type = "prepare"
       /\ \A k \in Wal(n) : k < cursor[n] => ~ Decides(k, i)
  /\ status[n] # "failed"
  /\ status[n] = "hung" => n = Leader /\ 0 \notin DOMAIN log

\* What a follower keeps while it serves.
StoreInv(f) == ClosedInv(f) /\ SoleInv(f) /\ PendingInv(f)

RestartInv ==
  /\ DecideOnce
  /\ UnsentInv
  /\ \A f \in Followers : StoreInv(f)
  /\ \A n \in Nodes : ReadInv(n)

\* A request that is being prepared, or waits for its commit, has no decision.
LEMMA NoDecision ==
  ASSUME IInv, NEW r \in Reqs, apply[r].pc \in {"preparing", "enqueue"}
  PROVE  /\ apply[r].index \in Index /\ apply[r].index < nextIndex[Leader]
         /\ \A m \in DOMAIN log : ~ Decides(m, apply[r].index)
<1>1. /\ apply[r].index < nextIndex[Leader]
      /\ apply[r].index \in DOMAIN log /\ log[apply[r].index] = PrepareLog(r)
  BY DEF IInv, AllocInv, CallInv, Unfinished
<1>2. apply[r].index \in Index
  BY <1>1 DEF IInv, TypeOK
<1>3. ASSUME NEW m \in DOMAIN log, Decides(m, apply[r].index) PROVE FALSE
  <2>1. Owned(m) /\ log[m] \in Log
    BY DEF IInv, DecisionInv, TypeOK
  <2>2. log[m].req = r
    BY <1>1, <1>3, <2>1, SMT DEF Owned, Decides, PrepareLog
  <2>3. log[m].type \in {"rollback", "commit"}
    BY <1>3, <2>1 DEF Decides, Log
  <2> QED
    BY <2>1, <2>2, <2>3 DEF Owned
<1> QED
  BY <1>1, <1>2, <1>3

\* A new decision is the first one of its prepare log, and comes after it.
LEMMA NewDecision ==
  ASSUME DecideOnce, NEW k, k \notin DOMAIN log, DOMAIN log' = DOMAIN log \cup {k},
         \A j \in DOMAIN log : log'[j] = log[j],
         log'[k].ref < k, \A m \in DOMAIN log : ~ Decides(m, log'[k].ref)
  PROVE  DecideOnce'
  BY DEF DecideOnce, Decides

\* Every step keeps DecideOnce.
LEMMA DecideOnceNext ==
  ASSUME IInv, DecideOnce, [Next]_vars
  PROVE  DecideOnce'
<1> USE DEF IInv
<1>1. CASE UNCHANGED log
  BY <1>1 DEF DecideOnce, Decides
<1>2. ASSUME NEW r \in Reqs, LogPrepare(r) PROVE DecideOnce'
  <2>1. PICK i : i = apply[r].index
    OBVIOUS
  <2>2. /\ i \notin DOMAIN log /\ DOMAIN log' = DOMAIN log \cup {i}
        /\ \A j \in DOMAIN log : log'[j] = log[j]
        /\ log'[i] = PrepareLog(r)
    BY <1>2, <2>1, LogPrepareFact
  <2>3. log'[i].type = "prepare"
    BY <2>2, SMT DEF PrepareLog
  <2> QED
    BY <2>2, <2>3 DEF DecideOnce, Decides
<1>3. ASSUME NEW r \in Reqs, PrepareFailed(r) PROVE DecideOnce'
  <2>1. PICK k : k = nextIndex[Leader]
    OBVIOUS
  <2>2. /\ k \notin DOMAIN log /\ DOMAIN log' = DOMAIN log \cup {k}
        /\ \A j \in DOMAIN log : log'[j] = log[j]
        /\ log'[k] = RollbackLog(r, apply[r].index)
    BY <1>3, <2>1, PrepareFailedFact
  <2>a. log'[k].ref = apply[r].index
    BY <2>2, SMT DEF RollbackLog
  <2>3. apply[r].index < k /\ \A m \in DOMAIN log : ~ Decides(m, apply[r].index)
    BY <1>3, <2>1, NoDecision DEF PrepareFailed
  <2> QED
    BY <2>2, <2>a, <2>3, NewDecision
<1>4. ASSUME NEW r \in Reqs, LeaderLogCommit(r) PROVE DecideOnce'
  <2>1. PICK k : k = nextIndex[Leader]
    OBVIOUS
  <2>2. /\ k \notin DOMAIN log /\ DOMAIN log' = DOMAIN log \cup {k}
        /\ \A j \in DOMAIN log : log'[j] = log[j]
        /\ log'[k] = CommitLog(r, apply[r].index, lastCommit[Leader])
    BY <1>4, <2>1, LeaderLogCommitFact
  <2>a. log'[k].ref = apply[r].index
    BY <2>2, SMT DEF CommitLog
  <2>3. apply[r].index < k /\ \A m \in DOMAIN log : ~ Decides(m, apply[r].index)
    BY <1>4, <2>1, NoDecision DEF LeaderLogCommit
  <2> QED
    BY <2>2, <2>a, <2>3, NewDecision
<1> QED
  BY <1>1, <1>2, <1>3, <1>4, LogFrame

\* A follower's step moves one handler, of a call that has arrived.
LEMMA StepMoves ==
  ASSUME NEW f \in Followers, NEW h \in Calls, FollowerStep(f, h)
  PROVE  Up(f) /\ handler[f][h] # "none" /\ \E pc : Goto(f, h, pc)
<1>1. CASE \/ FollowerRefuse(f, h) \/ FollowerLogPrepare(f, h)
           \/ FollowerWritePrepare(f, h) \/ FollowerMarkPrepare(f, h) \/ WaitPrepare(f, h) \/ FollowerDoCommit(f, h) \/ FollowerReturnCommit(f, h)
           \/ Requeue(f, h) \/ FollowerLogCommit(f, h) \/ FollowerReorder(f, h)
  BY <1>1 DEF FollowerRefuse, FollowerLogPrepare, FollowerWritePrepare, FollowerMarkPrepare,
     WaitPrepare, FollowerDoCommit, FollowerReturnCommit, Requeue, FollowerLogCommit, FollowerReorder,
     Fail, Succeed, At
<1>2. CASE FollowerRollback(f, h) \/ WaitLast(f, h) \/ CheckCommit(f, h)
  <2>1. Up(f) /\ handler[f][h] # "none"
    BY <1>2 DEF FollowerRollback, WaitLast, CheckCommit, HaveLast, HavePrepare, At
  <2>2. \E pc : Goto(f, h, pc)
    BY <1>2 DEF FollowerRollback, WaitLast, CheckCommit, Fail, Succeed
  <2> QED
    BY <2>1, <2>2
<1> QED
  BY <1>1, <1>2 DEF FollowerStep, HandlerStep, CommitQueueStep

\* Every step keeps UnsentInv.
LEMMA UnsentNext ==
  ASSUME IInv, UnsentInv, [Next]_vars
  PROVE  UnsentInv'
<1> SUFFICES ASSUME NEW k \in Index, cycle'[Leader] = <<k>>, NEW f \in Followers
             PROVE  handler'[f][<<"rpc", k>>] = "none"
  BY DEF UnsentInv
<1> DEFINE h == <<"rpc", k>>
<1>a. /\ handler \in [Followers -> [Calls -> HandlerPcs]]
      /\ cycle \in [Nodes -> {<<>>} \cup {<<i>> : i \in DOMAIN log}]
      /\ Leader \in Nodes /\ Leader \notin Followers
  BY KayakAssumption DEF IInv, TypeOK, Nodes
<1>b. h \in Calls /\ h[2] = k
  BY DEF Calls, Sources
<1>c. cycle[Leader] = <<k>> => handler[f][h] = "none" /\ k \in DOMAIN log
  <2>1. cycle[Leader] = <<k>> => handler[f][h] = "none"
    BY DEF UnsentInv
  <2>2. cycle[Leader] = <<k>> => \E i \in DOMAIN log : <<i>> = <<k>>
    BY <1>a, BusyFact
  <2>3. \A i : <<i>> = <<k>> => i = k
    OBVIOUS
  <2> QED
    BY <2>1, <2>2, <2>3
<1>d. k \notin DOMAIN log => handler[f][h] = "none"
  BY <1>b DEF IInv, HandlerInv, Serves
<1>e. ASSUME NEW i, applyRPC(i), i # k PROVE handler'[f][h] = handler[f][h]
  BY <1>a, <1>b, <1>e DEF applyRPC
<1> HIDE DEF h
<1>1. CASE UNCHANGED <<cycle, handler>>
  BY <1>1, <1>c DEF h
<1>2. CASE LeaderNext
  <2>1. ASSUME NEW r \in Reqs, LogPrepare(r) PROVE handler'[f][h] = "none"
    <3>1. cycle' = cycle /\ applyRPC(apply[r].index)
      BY <2>1 DEF LogPrepare
    <3>2. apply[r].index # k
      BY <1>c, <2>1, <3>1, LogPrepareFact DEF IInv
    <3> QED
      BY <1>c, <1>e, <3>1, <3>2
  <2>2. ASSUME NEW r \in Reqs, PrepareFailed(r) PROVE handler'[f][h] = "none"
    <3>1. cycle' = cycle /\ applyRPC(nextIndex[Leader])
      BY <2>2 DEF PrepareFailed
    <3>2. nextIndex[Leader] # k
      BY <1>c, <2>2, <3>1, PrepareFailedFact DEF IInv
    <3> QED
      BY <1>c, <1>e, <3>1, <3>2
  <2>3. ASSUME NEW r \in Reqs, LeaderLogCommit(r) PROVE handler'[f][h] = "none"
    <3>1. cycle'[Leader] = <<nextIndex[Leader]>> /\ handler' = handler
      BY <1>a, <2>3 DEF LeaderLogCommit
    <3>2. nextIndex[Leader] \notin DOMAIN log
      BY <2>3, LeaderLogCommitFact DEF IInv
    <3> QED
      BY <1>d, <3>1, <3>2, SMT
  <2>4. CASE LeaderDoCommit
    BY <1>a, <2>4, BusyFact DEF LeaderDoCommit
  <2>5. ASSUME NEW r \in Reqs,
               AllocPrepare(r) \/ PrepareOk(r) \/ CommitTimeout(r) \/ ReturnCommitted(r)
        PROVE  handler'[f][h] = "none"
    BY <1>1, <2>5 DEF AllocPrepare, PrepareOk, CommitTimeout, ReturnCommitted, h
  <2> QED
    BY <1>2, <2>1, <2>2, <2>3, <2>4, <2>5 DEF LeaderNext, h
<1>3. CASE RPCNext
  <2>0. PICK g \in Followers, i \in Index : Lose(g, i) \/ Disconnect(g, i) \/ Fetch(g, i)
    BY <1>3 DEF RPCNext
  <2>1. cycle' = cycle
    BY <2>0 DEF Lose, Disconnect, Fetch
  <2>2. \/ handler' = handler
        \/ handler' = [handler EXCEPT ![g][<<"rpc", i>>] = "none"]
        \/ handler' = [handler EXCEPT ![g][<<"fetch", i>>] = "sent"]
    BY <2>0 DEF Lose, Disconnect, Fetch, Goto
  <2>3. h # <<"fetch", i>>
    BY DEF h
  <2>4. handler'[f][h] = handler[f][h] \/ handler'[f][h] = "none"
    BY <1>a, <1>b, <2>2, <2>3, SMTT(30)
  <2> QED
    BY <1>c, <2>1, <2>4 DEF h
<1>4. CASE FollowerNext
  <2>0. PICK g \in Followers, e \in Calls : FollowerStep(g, e)
    BY <1>4 DEF FollowerNext, FollowerStep
  <2>1. cycle'[Leader] = cycle[Leader]
    BY <1>4, LeaderFrame DEF IInv, SameLeader, SameNode
  <2>2. handler[g][e] # "none" /\ \E pc : Goto(g, e, pc)
    BY <2>0, StepMoves
  <2>3. handler'[f][h] = handler[f][h]
    BY <1>a, <1>b, <1>c, <2>1, <2>2, SMT DEF Goto
  <2> QED
    BY <1>c, <2>1, <2>3 DEF h
<1>5. CASE CrashNext
  <2>0. PICK n \in Nodes : Crash(n) \/ ReadLog(n) \/ ReadEOF(n)
    BY <1>5 DEF CrashNext
  <2>1. CASE ReadLog(n) \/ ReadEOF(n)
    BY <1>1, <2>1 DEF ReadLog, ReadEOF, h
  <2>2. CASE Crash(n)
    <3>1. n # Leader /\ cycle'[Leader] = cycle[Leader]
      BY <1>a, <2>2, CrashFact, BusyFact DEF IInv
    <3>2. handler' = [handler EXCEPT ![n] =
                [g \in Calls |-> IF Arrived(n, g) THEN "none" ELSE handler[n][g]]]
      BY <2>2, <3>1 DEF Crash
    <3>3. handler'[f][h] = handler[f][h] \/ handler'[f][h] = "none"
      BY <1>a, <1>b, <3>2
    <3> QED
      BY <1>c, <3>1, <3>3 DEF h
  <2> QED
    BY <2>0, <2>1, <2>2
<1> QED
  BY <1>1, <1>2, <1>3, <1>4, <1>5 DEF Next, vars, h

\* The stages of a handler that pendingPrepares depends on.
Stages == {"mark", "executing", "committed"}

\* A handler of follower f that stays, or moves between other stages.
Aside(f, h) ==
  \/ handler'[f][h] = handler[f][h]
  \/ /\ handler[f][h] \notin Stages
     /\ handler'[f][h] \notin Stages
     /\ handler'[f][h] \in {"waitLast", "enqueue", "reorder"} =>
          h[2] \in DOMAIN log /\ log[h[2]].ref \in wal[f]
     /\ handler'[f][h] \in {"enqueue", "reorder"} =>
          /\ log[h[2]].last \in wal[f]
          /\ h[2] \notin wal[f] => log[h[2]].ref \in pending[f]

\* Such moves leave what a follower has stored in order.
LEMMA KeptFact ==
  ASSUME TypeOK, HandlerInv, SameLogs, NEW f \in Followers, StoreInv(f),
         wal'[f] = wal[f], pending'[f] = pending[f], status'[f] = status[f],
         \A i \in Index : item'[f][i] = "set" => i \in wal[f],
         \A h \in Calls : Aside(f, h)
  PROVE  StoreInv(f)'
<1>1. wal[f] \subseteq DOMAIN log /\ \A k \in wal[f] : log'[k] = log[k]
  BY NatFacts DEF SameLogs
<1>2. \A h \in Calls : handler[f][h] # "none" => h[2] \in DOMAIN log /\ log'[h[2]] = log[h[2]]
  BY DEF HandlerInv, Serves, SameLogs
<1>3. \A h \in Calls, pc \in Stages : handler'[f][h] = pc <=> handler[f][h] = pc
  BY DEF Aside, Stages
<1>4. ClosedInv(f)'
  <2>1. ASSUME NEW h \in Calls, handler'[f][h] \in {"waitLast", "enqueue", "reorder"}
        PROVE  /\ log'[h[2]] = log[h[2]] /\ log[h[2]].ref \in wal[f]
               /\ handler'[f][h] # "waitLast" => log[h[2]].last \in wal[f]
    BY <1>2, <2>1 DEF Aside, StoreInv, ClosedInv, SameLogs
  <2>2. \A k \in wal[f] : /\ log[k].type # "prepare" => log[k].ref \in wal[f]
                          /\ log[k].type = "commit" => log[k].last \in wal[f]
    BY DEF StoreInv, ClosedInv
  <2> QED
    BY <1>1, <2>1, <2>2 DEF ClosedInv
<1>5. SoleInv(f)'
  <2>1. SoleInv(f)
    BY DEF StoreInv
  <2>2. ASSUME NEW h \in Calls, handler'[f][h] \in {"executing", "committed"},
               NEW g \in Calls, g[2] = h[2], handler'[f][g] \in {"executing", "committed"}
        PROVE  g = h
    BY <1>3, <2>1, <2>2 DEF SoleInv, Stages
  <2> QED
    BY <2>2 DEF SoleInv
<1>6. PendingInv(f)'
  <2>1. ASSUME NEW i \in Index PROVE Open(f, i)' <=> Open(f, i)
    <3>1. Marking(f, i)' <=> Marking(f, i)
      BY <1>3 DEF Marking, Stages
    <3>2. \A k : InFlight(f, k)' <=> InFlight(f, k)
      BY <1>3 DEF InFlight, Stages
    <3> QED
      BY <1>1, <3>1, <3>2 DEF Open, Decides
  <2>2. ASSUME NEW h \in Calls, handler'[f][h] \in {"enqueue", "reorder"}, h[2] \notin wal'[f]
        PROVE  log'[h[2]].ref \in pending'[f]
    BY <1>2, <2>2 DEF Aside, StoreInv, PendingInv, SameLogs
  <2>3. Up(f) => \A i \in pending[f] : i \in wal[f] /\ log'[i].type = "prepare"
    BY <1>1 DEF StoreInv, PendingInv
  <2> QED
    BY <2>1, <2>2, <2>3 DEF StoreInv, PendingInv, Up
<1> QED
  BY <1>4, <1>5, <1>6 DEF StoreInv

\* A follower that serves no request has stored everything it began to store.
LEMMA IdleFact ==
  ASSUME TypeOK, SameLogs, NEW f \in Followers, StoreInv(f), wal'[f] = wal[f],
         \A i \in Index : item'[f][i] # "set" \/ item'[f][i] = item[f][i],
         \A h \in Calls : handler'[f][h] \in {"none", "sent"},
         Up(f)' => /\ pending'[f] \subseteq Index
                   /\ \A i \in Index : i \in pending'[f] <=> Open(f, i)'
  PROVE  StoreInv(f)'
<1>1. wal[f] \subseteq DOMAIN log /\ \A k \in wal[f] : log'[k] = log[k]
  BY NatFacts DEF SameLogs
<1>2. ClosedInv(f)'
  BY <1>1 DEF StoreInv, ClosedInv
<1>3. SoleInv(f)' /\ PendingInv(f)'
  BY DEF SoleInv, PendingInv, Open
<1> QED
  BY <1>2, <1>3 DEF StoreInv

\* A commit between writeWAL and markPrepareFinished is in the WAL.
LEMMA InFlightFact ==
  ASSUME IInv, NEW f \in Followers, NEW h \in Calls,
         handler[f][h] \in {"executing", "committed"}
  PROVE  h[2] \in wal[f] /\ log[h[2]].type = "commit"
<1>1. CASE handler[f][h] = "committed"
  BY <1>1 DEF IInv, HandlerInv, Serves
<1>2. CASE handler[f][h] = "executing"
  <2>1. cycle[f] = <<h[2]>> /\ h[2] \in Index
    BY <1>2, CallsFact DEF IInv, HandlerInv, Serves
  <2>2. Position(f) /\ f # Leader
    BY KayakAssumption DEF IInv, PositionInv, Nodes
  <2>3. h[2] \in CommitsOf(f)
    BY <2>1, <2>2 DEF Position
  <2> QED
    BY <2>2, <2>3 DEF CommitsOf, Wal, Commits
<1> QED
  BY <1>1, <1>2

\* waitForLog has returned: the logs are in the WAL.
LEMMA HaveFact ==
  ASSUME IInv, NEW f \in Followers, NEW h \in Calls, ClosedInv(f)
  PROVE  /\ HavePrepare(f, h) => /\ log[h[2]].ref \in wal[f] /\ h[2] \in DOMAIN log
                                 /\ log[h[2]].type # "prepare"
                                 /\ handler[f][h] \notin Stages
         /\ HaveLast(f, h) => /\ log[h[2]].ref \in wal[f] /\ log[h[2]].last \in wal[f]
                              /\ h[2] \in DOMAIN log /\ log[h[2]].type = "commit"
                              /\ handler[f][h] \notin Stages
<1>1. Serves(f, h)
  BY DEF IInv, HandlerInv
<1>2. h[2] \in DOMAIN log => log[h[2]].ref \in Index /\ log[h[2]].last \in Index
  BY DEF IInv, TypeOK, Log
<1>3. \A i \in Index : item[f][i] = "set" => i \in wal[f]
  BY DEF ClosedInv
<1>4. handler[f][h] = "waitLast" => log[h[2]].ref \in wal[f]
  BY DEF ClosedInv
<1>5. ASSUME HavePrepare(f, h)
      PROVE  /\ log[h[2]].ref \in wal[f] /\ h[2] \in DOMAIN log
             /\ log[h[2]].type # "prepare"
             /\ handler[f][h] \in {"sent", "waitPrepare"}
  BY <1>1, <1>2, <1>3, <1>5 DEF HavePrepare, At, Serves
<1>6. ASSUME HaveLast(f, h)
      PROVE  /\ log[h[2]].ref \in wal[f] /\ log[h[2]].last \in wal[f]
             /\ h[2] \in DOMAIN log /\ log[h[2]].type = "commit"
             /\ handler[f][h] \in {"sent", "waitPrepare", "waitLast"}
  BY <1>1, <1>2, <1>3, <1>4, <1>5, <1>6 DEF HaveLast, At, Serves
<1> QED
  BY <1>5, <1>6 DEF Stages

\* The handler of call h of follower f moves to pc, in a step that writes no log.
StepTo(f, h, pc) ==
  /\ UNCHANGED <<log, status>>
  /\ handler'[f][h] = pc
  /\ \A g \in Calls \ {h} : handler'[f][g] = handler[f][g]

\* followerPrepare, between writeWAL and markPendingPrepare.
LEMMA StorePrepare ==
  ASSUME IInv, NEW f \in Followers, NEW h \in Calls, StoreInv(f),
         StepTo(f, h, "mark"), handler[f][h] = "write",
         wal'[f] = wal[f] \cup {h[2]}, pending'[f] = pending[f], item'[f] = item[f]
  PROVE  StoreInv(f)'
<1> DEFINE i == h[2]
<1>1. log' = log /\ status' = status /\ handler'[f][h] = "mark"
  BY DEF StepTo
<1>2. \A g \in Calls, pc \in {"waitLast", "enqueue", "reorder", "executing", "committed"} :
        handler'[f][g] = pc <=> handler[f][g] = pc
  BY DEF StepTo
<1>3. \A g \in Calls : handler'[f][g] = "mark" <=> handler[f][g] = "mark" \/ g = h
  BY DEF StepTo
<1>4. log[i].type = "prepare"
  BY DEF IInv, HandlerInv, Serves
<1>6. \A j : ~ Decides(i, j)
  BY <1>4 DEF Decides
<1>7. ClosedInv(f)'
  BY <1>1, <1>2, <1>4 DEF StoreInv, ClosedInv
<1>8. SoleInv(f)'
  BY <1>2 DEF StoreInv, SoleInv
<1>9. PendingInv(f)'
  <2>1. ASSUME NEW j \in Index, j # i, Open(f, j)' PROVE Open(f, j)
    <3>1. Marking(f, j)' <=> Marking(f, j)
      BY <1>3, <2>1 DEF Marking
    <3>2. \A k : InFlight(f, k)' <=> InFlight(f, k)
      BY <1>2 DEF InFlight
    <3>3. \A k : Decides(k, j)' <=> Decides(k, j)
      BY <1>1 DEF Decides
    <3> QED
      BY <1>1, <1>6, <2>1, <3>1, <3>2, <3>3 DEF Open
  <2>2. ~ Open(f, i)'
    BY <1>1 DEF Open, Marking
  <2> QED
    BY <1>1, <1>2, <2>1, <2>2 DEF StoreInv, PendingInv, Up
<1> QED
  BY <1>7, <1>8, <1>9 DEF StoreInv

\* followerPrepare, markPendingPrepare.
LEMMA StoreMark ==
  ASSUME IInv, NEW f \in Followers, NEW h \in Calls, StoreInv(f),
         StepTo(f, h, "none"), handler[f][h] = "mark",
         wal'[f] = wal[f], pending'[f] = pending[f] \cup {h[2]},
         \A i \in Index : item'[f][i] = "set" => i = h[2] \/ item[f][i] = "set"
  PROVE  StoreInv(f)'
<1> DEFINE i == h[2]
<1>1. log' = log /\ status' = status /\ handler'[f][h] = "none"
  BY DEF StepTo
<1>2. \A g \in Calls, pc \in {"waitLast", "enqueue", "reorder", "executing", "committed"} :
        handler'[f][g] = pc <=> handler[f][g] = pc
  BY DEF StepTo
<1>3. \A g \in Calls : handler'[f][g] = "mark" <=> handler[f][g] = "mark" /\ g # h
  BY DEF StepTo
<1>4. i \in wal[f] /\ log[i].type = "prepare" /\ i \in Index
  BY CallsFact DEF IInv, HandlerInv, Serves
<1>5. \A k, j : Decides(k, j)' <=> Decides(k, j)
  BY <1>1 DEF Decides
<1>7. ClosedInv(f)'
  BY <1>1, <1>2, <1>4 DEF StoreInv, ClosedInv
<1>8. SoleInv(f)'
  BY <1>2 DEF StoreInv, SoleInv
<1>9. PendingInv(f)'
  <2>0. \A k : InFlight(f, k)' <=> InFlight(f, k)
    BY <1>2 DEF InFlight
  <2>1. ASSUME NEW j \in Index, j # i, Open(f, j)' PROVE Open(f, j)
    <3>1. Marking(f, j)' <=> Marking(f, j)
      BY <1>3, <2>1 DEF Marking
    <3> QED
      BY <1>1, <1>5, <2>0, <2>1, <3>1 DEF Open
  <2> QED
    BY <1>1, <1>2, <1>4, <2>1 DEF StoreInv, PendingInv, Up
<1> QED
  BY <1>7, <1>8, <1>9 DEF StoreInv

\* The commits that other handlers wait to log stay pending when prepare log p is
\* finished by its decision k.
LEMMA WaitersStay ==
  ASSUME IInv, DecideOnce, NEW f \in Followers, StoreInv(f), log' = log,
         NEW k \in DOMAIN log, log[k].type # "prepare", k \in wal'[f],
         wal[f] \subseteq wal'[f], pending'[f] = pending[f] \ {log[k].ref},
         NEW g \in Calls, handler[f][g] \in {"enqueue", "reorder"}, g[2] \notin wal'[f]
  PROVE  log'[g[2]].ref \in pending'[f]
<1>1. log[g[2]].ref \in pending[f]
  BY DEF StoreInv, PendingInv
<1>2. g[2] \in DOMAIN log /\ log[g[2]].type = "commit"
  BY DEF IInv, HandlerInv, Serves
<1>3. log[g[2]].ref # log[k].ref
  BY <1>2 DEF DecideOnce, Decides
<1> QED
  BY <1>1, <1>3

\* followerRollback.
LEMMA StoreRollback ==
  ASSUME IInv, DecideOnce, NEW f \in Followers, NEW h \in Calls, StoreInv(f), Up(f),
         StepTo(f, h, "none"), handler[f][h] \notin Stages, h[2] \in DOMAIN log,
         log[h[2]].type = "rollback", log[h[2]].ref \in wal[f],
         log[h[2]].ref \in pending[f],
         wal'[f] = wal[f] \cup {h[2]}, pending'[f] = pending[f] \ {log[h[2]].ref},
         \A i \in Index : item'[f][i] = "set" => i = h[2] \/ item[f][i] = "set"
  PROVE  StoreInv(f)'
<1> DEFINE k == h[2]
<1>0. PICK p \in Index : p = log[k].ref
  BY CallsFact DEF IInv, TypeOK, Log
<1>1. log' = log /\ status' = status /\ handler'[f][h] = "none"
  BY DEF StepTo
<1>2. \A g \in Calls, pc \in Stages : handler'[f][g] = pc <=> handler[f][g] = pc
  BY DEF StepTo, Stages
<1>3. \A g \in Calls, pc \in {"waitLast", "enqueue", "reorder"} :
        handler'[f][g] = pc => handler[f][g] = pc
  BY DEF StepTo
<1>5. \A m, j : Decides(m, j)' <=> Decides(m, j)
  BY <1>1 DEF Decides
<1>6. \A j : Decides(k, j) <=> j = p
  BY <1>0 DEF Decides
<1>7. ClosedInv(f)'
  BY <1>1, <1>3 DEF StoreInv, ClosedInv
<1>8. SoleInv(f)'
  BY <1>2 DEF StoreInv, SoleInv, Stages
<1>9. PendingInv(f)'
  <2>0. \A j : (Marking(f, j)' <=> Marking(f, j)) /\ (InFlight(f, j)' <=> InFlight(f, j))
    BY <1>2 DEF Marking, InFlight, Stages
  <2>1. ASSUME NEW j \in Index, j # p, Open(f, j)' PROVE Open(f, j)
    BY <1>1, <1>5, <1>6, <2>0, <2>1 DEF Open
  <2>2. ~ Open(f, p)'
    <3>1. ~ InFlight(f, k)
      BY InFlightFact DEF InFlight
    <3> QED
      BY <1>5, <1>6, <2>0, <3>1 DEF Open
  <2>3. ASSUME NEW g \in Calls, handler'[f][g] \in {"enqueue", "reorder"}, g[2] \notin wal'[f]
        PROVE  log'[g[2]].ref \in pending'[f]
    BY <1>1, <1>3, <2>3, WaitersStay
  <2>4. /\ \A j \in Index : Open(f, j)' => j \in pending'[f]
        /\ \A j \in pending'[f] : j \in wal'[f] /\ log'[j].type = "prepare"
    BY <1>0, <1>1, <2>1, <2>2 DEF StoreInv, PendingInv
  <2> QED
    BY <2>3, <2>4 DEF PendingInv
<1> QED
  BY <1>7, <1>8, <1>9 DEF StoreInv

\* followerDoCommit logs the commit.
LEMMA StoreCommit ==
  ASSUME IInv, NEW f \in Followers, NEW h \in Calls, StoreInv(f), Up(f),
         StepTo(f, h, "executing"), handler[f][h] = "enqueue", h[2] \notin wal[f],
         wal'[f] = wal[f] \cup {h[2]}, pending'[f] = pending[f], item'[f] = item[f]
  PROVE  StoreInv(f)'
<1> DEFINE k == h[2]
           p == log[h[2]].ref
<1>1. log' = log /\ status' = status /\ handler'[f][h] = "executing"
  BY DEF StepTo
<1>2. \A g \in Calls, pc \in {"mark", "committed"} :
        handler'[f][g] = pc <=> handler[f][g] = pc
  BY DEF StepTo
<1>3. \A g \in Calls, pc \in {"waitLast", "enqueue", "reorder"} :
        handler'[f][g] = pc => handler[f][g] = pc
  BY DEF StepTo
<1>4. \A g \in Calls : handler'[f][g] = "executing" <=> handler[f][g] = "executing" \/ g = h
  BY DEF StepTo
<1>5. k \in DOMAIN log /\ log[k].type = "commit" /\ p \in wal[f] /\ log[k].last \in wal[f]
  BY DEF IInv, HandlerInv, Serves, StoreInv, ClosedInv
<1>6. p \in Index /\ p \in pending[f]
  BY <1>5 DEF StoreInv, PendingInv, IInv, TypeOK, Log
<1>8. \A m, j : Decides(m, j)' <=> Decides(m, j)
  BY <1>1 DEF Decides
<1>9. \A j : Decides(k, j) <=> j = p
  BY <1>5 DEF Decides
<1>10. \A g \in Calls : handler[f][g] \in {"executing", "committed"} => g[2] # k
  BY InFlightFact
<1>11. ClosedInv(f)'
  BY <1>1, <1>3, <1>5 DEF StoreInv, ClosedInv
<1>12. SoleInv(f)'
  <2>1. ASSUME NEW g \in Calls, handler'[f][g] \in {"executing", "committed"},
               NEW e \in Calls, e[2] = g[2], handler'[f][e] \in {"executing", "committed"}
        PROVE  e = g
    BY <1>2, <1>4, <1>10, <2>1 DEF StoreInv, SoleInv
  <2> QED
    BY <2>1 DEF SoleInv
<1>13. PendingInv(f)'
  <2>1. \A j : Marking(f, j)' <=> Marking(f, j)
    BY <1>2 DEF Marking
  <2>2. \A j : InFlight(f, j)' <=> InFlight(f, j) \/ j = k
    BY <1>2, <1>4 DEF InFlight
  <2>3. ASSUME NEW j \in Index, j # p, Open(f, j)' PROVE Open(f, j)
    BY <1>1, <1>5, <1>8, <1>9, <2>1, <2>2, <2>3 DEF Open
  <2> QED
    BY <1>1, <1>3, <1>6, <2>3 DEF StoreInv, PendingInv, Up
<1> QED
  BY <1>11, <1>12, <1>13 DEF StoreInv

\* followerDoCommit, after Handler.Commit.
LEMMA StoreExecuted ==
  ASSUME IInv, NEW f \in Followers, NEW h \in Calls, StoreInv(f),
         StepTo(f, h, "committed"), handler[f][h] = "executing",
         wal'[f] = wal[f], pending'[f] = pending[f], item'[f] = item[f]
  PROVE  StoreInv(f)'
<1>1. log' = log /\ status' = status
  BY DEF StepTo
<1>2. \A g \in Calls, pc \in {"mark", "waitLast", "enqueue", "reorder"} :
        handler'[f][g] = pc <=> handler[f][g] = pc
  BY DEF StepTo
<1>3. \A g \in Calls : handler'[f][g] \in {"executing", "committed"} <=>
                         handler[f][g] \in {"executing", "committed"}
  BY DEF StepTo
<1>4. \A m, j : Decides(m, j)' <=> Decides(m, j)
  BY <1>1 DEF Decides
<1>5. ClosedInv(f)'
  BY <1>1, <1>2 DEF StoreInv, ClosedInv
<1>6. SoleInv(f)'
  BY <1>2, <1>3, <1>4 DEF StoreInv, SoleInv
<1>7. PendingInv(f)'
  <2>1. \A j : (Marking(f, j)' <=> Marking(f, j)) /\ (InFlight(f, j)' <=> InFlight(f, j))
    BY <1>2, <1>3 DEF Marking, InFlight
  <2>2. \A j : Open(f, j)' <=> Open(f, j)
    BY <1>1, <1>4, <2>1 DEF Open
  <2> QED
    BY <1>1, <1>2, <2>2 DEF StoreInv, PendingInv, Up
<1> QED
  BY <1>5, <1>6, <1>7 DEF StoreInv

\* followerCommit, markPrepareFinished.
LEMMA StoreFinish ==
  ASSUME IInv, DecideOnce, NEW f \in Followers, NEW h \in Calls, StoreInv(f), Up(f),
         StepTo(f, h, "none"), handler[f][h] = "committed",
         wal'[f] = wal[f], pending'[f] = pending[f] \ {log[h[2]].ref},
         \A i \in Index : item'[f][i] = "set" => i = h[2] \/ item[f][i] = "set"
  PROVE  StoreInv(f)'
<1> DEFINE k == h[2]
<1>0. PICK p \in Index : p = log[k].ref
  BY CallsFact DEF IInv, TypeOK, Log, HandlerInv, Serves
<1>1. log' = log /\ status' = status
  BY DEF StepTo
<1>2. \A g \in Calls, pc \in {"mark", "waitLast", "enqueue", "reorder"} :
        handler'[f][g] = pc <=> handler[f][g] = pc
  BY DEF StepTo
<1>3. \A g \in Calls : handler'[f][g] \in {"executing", "committed"} <=>
                         handler[f][g] \in {"executing", "committed"} /\ g # h
  BY DEF StepTo
<1>4. k \in wal[f] /\ log[k].type = "commit" /\ k \in DOMAIN log
  BY DEF IInv, HandlerInv, Serves
<1>5. \A m, j : Decides(m, j)' <=> Decides(m, j)
  BY <1>1 DEF Decides
<1>6. \A j : Decides(k, j) <=> j = p
  BY <1>0, <1>4 DEF Decides
<1>7. ClosedInv(f)'
  BY <1>1, <1>2, <1>4 DEF StoreInv, ClosedInv
<1>8. SoleInv(f)'
  BY <1>2, <1>3, <1>5, ZenonT(30) DEF StoreInv, SoleInv
<1>9. PendingInv(f)'
  <2>1. \A j : Marking(f, j)' <=> Marking(f, j)
    BY <1>2 DEF Marking
  <2>2. ~ InFlight(f, k)' /\ \A m : m # k => (InFlight(f, m)' <=> InFlight(f, m))
    BY <1>3 DEF InFlight, StoreInv, SoleInv
  <2>3. ASSUME NEW j \in Index, j # p, Open(f, j)' PROVE Open(f, j)
    BY <1>1, <1>5, <1>6, <2>1, <2>2, <2>3 DEF Open
  <2>4. ~ Open(f, p)'
    BY <1>4, <1>5, <1>6, <2>2 DEF Open
  <2>5. /\ \A j \in Index : Open(f, j)' => j \in pending'[f]
        /\ \A j \in pending'[f] : j \in wal'[f] /\ log'[j].type = "prepare"
    BY <1>0, <1>1, <2>3, <2>4 DEF StoreInv, PendingInv
  <2>6. ASSUME NEW g \in Calls, handler'[f][g] \in {"enqueue", "reorder"}, g[2] \notin wal'[f]
        PROVE  log'[g[2]].ref \in pending'[f]
    BY <1>1, <1>2, <1>4, <2>6, WaitersStay
  <2> QED
    BY <2>5, <2>6 DEF PendingInv
<1> QED
  BY <1>7, <1>8, <1>9 DEF StoreInv

\* A step of follower f concerns no pendingPrepares, handlers and waitItems but its own.
LEMMA OthersAside ==
  ASSUME TypeOK, NEW f \in Followers, NEW h \in Calls, FollowerStep(f, h)
  PROVE  /\ \A n \in Nodes \ {f} : pending'[n] = pending[n]
         /\ \A g \in Followers \ {f} : handler'[g] = handler[g] /\ item'[g] = item[g]
<1>1. /\ pending \in [Nodes -> SUBSET Index]
      /\ item \in [Followers -> [Index -> {"none", "run", "set"}]]
      /\ handler \in [Followers -> [Calls -> HandlerPcs]]
  BY DEF TypeOK
<1>2. \A g \in Followers \ {f} : handler'[g] = handler[g]
  BY <1>1, StepMoves DEF Goto
<1>3. CASE \/ FollowerRefuse(f, h) \/ FollowerLogPrepare(f, h) \/ WaitPrepare(f, h)
           \/ FollowerWritePrepare(f, h) \/ WaitLast(f, h) \/ CheckCommit(f, h) \/ FollowerReorder(f, h)
           \/ Requeue(f, h) \/ FollowerLogCommit(f, h) \/ FollowerDoCommit(f, h)
  <2>1. pending' = pending
    BY <1>3 DEF FollowerRefuse, FollowerLogPrepare, FollowerWritePrepare, WaitPrepare,
                WaitLast, CheckCommit, FollowerReorder, Requeue, FollowerLogCommit, FollowerDoCommit, nodeVars
  <2>2. item' = item \/ \E i : AwaitLog(f, i)
    BY <1>3 DEF FollowerRefuse, FollowerLogPrepare, FollowerWritePrepare, WaitPrepare,
                WaitLast, CheckCommit, FollowerReorder, Requeue, FollowerLogCommit, FollowerDoCommit
  <2>3. \A g \in Followers \ {f} : item'[g] = item[g]
    BY <1>1, <2>2 DEF AwaitLog
  <2> QED
    BY <1>2, <2>1, <2>3
<1>4. CASE \/ FollowerMarkPrepare(f, h) \/ FollowerRollback(f, h)
           \/ FollowerReturnCommit(f, h)
  <2>1. \A n \in Nodes \ {f} : pending'[n] = pending[n]
    BY <1>1, <1>4 DEF FollowerMarkPrepare, FollowerRollback, FollowerReturnCommit,
                      MarkPrepareFinished
  <2>2. \A g \in Followers \ {f} : item'[g] = item[g]
    BY <1>1, <1>4 DEF FollowerMarkPrepare, FollowerRollback, FollowerReturnCommit, Succeed
  <2> QED
    BY <1>2, <2>1, <2>2
<1> QED
  BY <1>3, <1>4 DEF FollowerStep, HandlerStep, CommitQueueStep

\* A follower's own step keeps what it has stored in order.
LEMMA StoreStep ==
  ASSUME IInv, DecideOnce, NEW f \in Followers, NEW h \in Calls, StoreInv(f),
         FollowerStep(f, h)
  PROVE  StoreInv(f)'
<1>a. /\ pending \in [Nodes -> SUBSET Index] /\ f \in Nodes
      /\ item \in [Followers -> [Index -> {"none", "run", "set"}]]
      /\ handler \in [Followers -> [Calls -> HandlerPcs]]
      /\ wal \in [Followers -> SUBSET DOMAIN log]
  BY DEF IInv, TypeOK, Nodes
<1>b. UNCHANGED <<log, status>> /\ SameLogs
  <2>1. FollowerNext
    BY DEF FollowerStep, FollowerNext
  <2> QED
    BY <2>1, LeaderFrame DEF IInv, SameLeader, SameLogs, Commits
<1>c. Up(f) /\ handler[f][h] # "none"
  BY StepMoves
<1>d. h[2] \in DOMAIN log /\ h[2] \in Index
  BY <1>c, CallsFact DEF IInv, HandlerInv, Serves
<1>e. ASSUME NEW pc, Goto(f, h, pc) PROVE StepTo(f, h, pc)
  BY <1>a, <1>b, <1>e DEF Goto, StepTo
<1>f. ASSUME NEW pc, Goto(f, h, pc), Aside(f, h) PROVE \A g \in Calls : Aside(f, g)
  <2>1. \A g \in Calls \ {h} : handler'[f][g] = handler[f][g]
    BY <1>e, <1>f DEF StepTo
  <2>2. \A g \in Calls \ {h} : Aside(f, g)
    BY <2>1 DEF Aside
  <2> QED
    BY <1>f, <2>2
<1>g. ClosedInv(f) /\ TypeOK /\ HandlerInv
  BY DEF StoreInv, IInv
<1>h. \A i \in Index : item[f][i] = "set" => i \in wal[f]
  BY <1>g DEF ClosedInv
<1>i. ASSUME Succeed(f, h)
      PROVE  \A i \in Index : item'[f][i] = "set" => i = h[2] \/ item[f][i] = "set"
  BY <1>a, <1>d, <1>i DEF Succeed
<1>j. ASSUME NEW i \in Index, AwaitLog(f, i)
      PROVE  \A j \in Index : item'[f][j] = "set" => j \in wal[f]
  BY <1>a, <1>h, <1>j DEF AwaitLog
<1>k. ASSUME NEW pc \in HandlerPcs \ (Stages \cup {"waitLast", "enqueue", "reorder"}),
             Goto(f, h, pc), handler[f][h] \notin Stages
      PROVE  \A g \in Calls : Aside(f, g)
  BY <1>e, <1>f, <1>k DEF StepTo, Aside
<1>1. CASE FollowerRefuse(f, h)
  <2>1. Goto(f, h, "none") /\ handler[f][h] = "sent" /\ UNCHANGED <<wal, pending, item>>
    BY <1>1 DEF FollowerRefuse, Fail, At, walVars, nodeVars
  <2>2. \A g \in Calls : Aside(f, g)
    BY <1>k, <2>1 DEF HandlerPcs, Stages
  <2> QED
    BY <1>b, <1>g, <1>h, <2>1, <2>2, KeptFact
<1>2. CASE FollowerLogPrepare(f, h)
  <2>1. handler[f][h] = "sent" /\ UNCHANGED <<wal, pending, item>>
    BY <1>2 DEF FollowerLogPrepare, At, walVars, nodeVars
  <2>2. PICK pc \in {"none", "write"} : Goto(f, h, pc)
    BY <1>2 DEF FollowerLogPrepare, Fail
  <2>3. \A g \in Calls : Aside(f, g)
    BY <1>k, <2>1, <2>2 DEF HandlerPcs, Stages
  <2> QED
    BY <1>b, <1>g, <1>h, <2>1, <2>3, KeptFact
<1>12. CASE FollowerWritePrepare(f, h)
  <2>1. /\ handler[f][h] = "write" /\ UNCHANGED <<pending, item>>
        /\ Goto(f, h, "mark") /\ wal'[f] = wal[f] \cup {h[2]}
    BY <1>a, <1>12 DEF FollowerWritePrepare, At, nodeVars
  <2> QED
    BY <1>e, <2>1, StorePrepare
<1>3. CASE FollowerMarkPrepare(f, h)
  <2>1. handler[f][h] = "mark" /\ Succeed(f, h) /\ UNCHANGED wal
    BY <1>3 DEF FollowerMarkPrepare, At, walVars
  <2>2. pending'[f] = pending[f] \cup {h[2]} /\ Goto(f, h, "none")
    BY <1>a, <1>3, <2>1 DEF FollowerMarkPrepare, Succeed
  <2> QED
    BY <1>e, <1>i, <2>1, <2>2, StoreMark
<1>4. CASE WaitPrepare(f, h)
  <2>1. Goto(f, h, "waitPrepare") /\ handler[f][h] = "sent" /\ UNCHANGED <<wal, pending>>
    BY <1>4 DEF WaitPrepare, At, walVars, nodeVars
  <2>2. \A g \in Calls : Aside(f, g)
    BY <1>k, <2>1 DEF HandlerPcs, Stages
  <2>3. \A j \in Index : item'[f][j] = "set" => j \in wal[f]
    <3>1. log[h[2]].ref \in Index /\ AwaitLog(f, log[h[2]].ref)
      BY <1>d, <1>g, <1>4 DEF WaitPrepare, TypeOK, Log
    <3> QED
      BY <1>j, <3>1
  <2> QED
    BY <1>b, <1>g, <2>1, <2>2, <2>3, KeptFact
<1>5. CASE FollowerRollback(f, h)
  <2>1. /\ log[h[2]].type = "rollback" /\ log[h[2]].ref \in wal[f]
        /\ handler[f][h] \notin Stages
    BY <1>5, <1>g, HaveFact DEF FollowerRollback
  <2>2. CASE log[h[2]].ref \notin pending[f] \/ h[2] \in wal[f]
    <3>1. Goto(f, h, "none") /\ UNCHANGED <<wal, pending, item>>
      BY <1>5, <2>2 DEF FollowerRollback, Fail
    <3>2. \A g \in Calls : Aside(f, g)
      BY <1>k, <2>1, <3>1 DEF HandlerPcs, Stages
    <3> QED
      BY <1>b, <1>g, <1>h, <3>1, <3>2, KeptFact
  <2>3. CASE log[h[2]].ref \in pending[f] /\ h[2] \notin wal[f]
    <3>1. /\ wal' = [wal EXCEPT ![f] = @ \cup {h[2]}] /\ Succeed(f, h)
          /\ MarkPrepareFinished(f, log[h[2]].ref)
      BY <1>5, <2>3 DEF FollowerRollback
    <3>2. /\ wal'[f] = wal[f] \cup {h[2]} /\ pending'[f] = pending[f] \ {log[h[2]].ref}
          /\ Goto(f, h, "none")
      BY <1>a, <3>1 DEF MarkPrepareFinished, Succeed
    <3> QED
      BY <1>c, <1>d, <1>e, <1>i, <2>1, <2>3, <3>1, <3>2, StoreRollback
  <2> QED
    BY <2>2, <2>3
<1>6. CASE WaitLast(f, h)
  <2>1. Goto(f, h, "waitLast") /\ UNCHANGED <<wal, pending>>
    BY <1>6 DEF WaitLast, walVars, nodeVars
  <2>2. log[h[2]].ref \in wal[f] /\ handler[f][h] \notin Stages
    BY <1>6, <1>g, HaveFact DEF WaitLast
  <2>3. Aside(f, h)
    BY <1>d, <1>e, <2>1, <2>2, SMT DEF StepTo, Aside, Stages
  <2>4. \A g \in Calls : Aside(f, g)
    BY <1>f, <2>1, <2>3
  <2>5. \A j \in Index : item'[f][j] = "set" => j \in wal[f]
    <3>1. log[h[2]].last \in Index /\ AwaitLog(f, log[h[2]].last)
      BY <1>d, <1>g, <1>6 DEF WaitLast, TypeOK, Log
    <3> QED
      BY <1>j, <3>1
  <2> QED
    BY <1>b, <1>g, <2>1, <2>4, <2>5, KeptFact
<1>7. CASE CheckCommit(f, h)
  <2>1. UNCHANGED <<wal, pending, item>>
    BY <1>7 DEF CheckCommit, walVars, nodeVars
  <2>2. /\ log[h[2]].ref \in wal[f] /\ log[h[2]].last \in wal[f]
        /\ handler[f][h] \notin Stages
    BY <1>7, <1>g, HaveFact DEF CheckCommit
  <2>3. PICK pc \in {"none", "enqueue"} :
          Goto(f, h, pc) /\ (pc = "enqueue" => log[h[2]].ref \in pending[f])
    BY <1>7 DEF CheckCommit, Fail
  <2>4. Aside(f, h)
    BY <1>d, <1>e, <2>2, <2>3 DEF StepTo, Aside, Stages
  <2>5. \A g \in Calls : Aside(f, g)
    BY <1>f, <2>3, <2>4
  <2> QED
    BY <1>b, <1>g, <1>h, <2>1, <2>5, KeptFact
<1>8. CASE Requeue(f, h) \/ FollowerReorder(f, h)
  <2>1. UNCHANGED <<wal, pending, item>> /\ handler[f][h] \in {"enqueue", "reorder"}
    BY <1>8 DEF Requeue, FollowerReorder, At, walVars, nodeVars
  <2>2. PICK pc \in {"enqueue", "reorder"} : Goto(f, h, pc)
    BY <1>8 DEF Requeue, FollowerReorder
  <2>3. Aside(f, h)
    BY <1>d, <1>e, <1>g, <2>1, <2>2
    DEF StepTo, Aside, Stages, ClosedInv, StoreInv, PendingInv
  <2>4. \A g \in Calls : Aside(f, g)
    BY <1>f, <2>2, <2>3
  <2> QED
    BY <1>b, <1>g, <1>h, <2>1, <2>4, KeptFact
<1>9. CASE FollowerLogCommit(f, h)
  <2>1. handler[f][h] = "enqueue" /\ UNCHANGED <<pending, item>>
    BY <1>9 DEF FollowerLogCommit, At, nodeVars
  <2>2. CASE h[2] \in wal[f]
    <3>1. Goto(f, h, "stuck") /\ UNCHANGED wal
      BY <1>9, <2>2 DEF FollowerLogCommit
    <3>2. \A g \in Calls : Aside(f, g)
      BY <1>k, <2>1, <3>1 DEF HandlerPcs, Stages
    <3> QED
      BY <1>b, <1>g, <1>h, <2>1, <3>1, <3>2, KeptFact
  <2>3. CASE h[2] \notin wal[f]
    <3>1. Goto(f, h, "executing") /\ wal'[f] = wal[f] \cup {h[2]}
      BY <1>a, <1>9, <2>3 DEF FollowerLogCommit
    <3> QED
      BY <1>c, <1>e, <2>1, <2>3, <3>1, StoreCommit
  <2> QED
    BY <2>2, <2>3
<1>10. CASE FollowerDoCommit(f, h)
  <2>1. /\ handler[f][h] = "executing" /\ UNCHANGED <<wal, pending, item>>
        /\ Goto(f, h, "committed")
    BY <1>10 DEF FollowerDoCommit, At, walVars
  <2> QED
    BY <1>e, <2>1, StoreExecuted
<1>11. CASE FollowerReturnCommit(f, h)
  <2>1. /\ handler[f][h] = "committed" /\ Succeed(f, h) /\ UNCHANGED wal
        /\ MarkPrepareFinished(f, log[h[2]].ref)
    BY <1>11 DEF FollowerReturnCommit, At, walVars
  <2>2. pending'[f] = pending[f] \ {log[h[2]].ref} /\ Goto(f, h, "none")
    BY <1>a, <2>1 DEF MarkPrepareFinished, Succeed
  <2> QED
    BY <1>c, <1>e, <1>i, <2>1, <2>2, StoreFinish
<1> QED
  BY <1>1, <1>2, <1>3, <1>4, <1>5, <1>6, <1>7, <1>8, <1>9, <1>10, <1>11, <1>12
  DEF FollowerStep, HandlerStep, CommitQueueStep

\* The logs a log refers to come before it in every WAL, but for log 0 on the leader.
LEMMA RefersBack ==
  ASSUME IInv, RestartInv, NEW n \in Nodes, NEW i \in Wal(n)
  PROVE  /\ i \in DOMAIN log /\ i \in Index /\ i \in Nat
         /\ log[i].type # "prepare" =>
              /\ log[i].ref \in Wal(n) /\ log[i].ref < i /\ log[i].ref \in Index
              /\ log[log[i].ref].type = "prepare"
              /\ \A k \in Wal(n) : Decides(k, log[i].ref) => k = i
         /\ log[i].type = "commit" /\ log[i].last \notin Wal(n) =>
              n = Leader /\ 0 \notin DOMAIN log
<1>1. Wal(n) \subseteq DOMAIN log /\ DOMAIN log \subseteq Index /\ Index \subseteq Nat
  BY NatFacts, IndexFact DEF Wal, IInv, TypeOK, Nodes
<1>2. Owned(i) /\ log[i] \in Log
  BY <1>1 DEF IInv, DecisionInv, TypeOK
<1>3. n # Leader => n \in Followers /\ ClosedInv(n) /\ Wal(n) = wal[n]
  BY DEF Nodes, RestartInv, StoreInv, Wal
<1>4. n = Leader => Wal(n) = DOMAIN log
  BY DEF Wal
<1>5. ASSUME log[i].type # "prepare"
      PROVE  /\ log[i].ref \in Wal(n) /\ log[i].ref < i /\ log[i].ref \in Index
             /\ log[log[i].ref].type = "prepare"
             /\ \A k \in Wal(n) : Decides(k, log[i].ref) => k = i
  <2>1. log[i].ref \in Wal(n) /\ log[log[i].ref].type = "prepare"
    BY <1>2, <1>3, <1>4, <1>5 DEF Owned, ClosedInv
  <2>2. log[i].ref < i /\ \A k \in Wal(n) : Decides(k, log[i].ref) => k = i
    BY <1>1, <1>5 DEF RestartInv, DecideOnce
  <2> QED
    BY <1>1, <2>1, <2>2
<1>6. ASSUME log[i].type = "commit", log[i].last \notin Wal(n)
      PROVE  n = Leader /\ 0 \notin DOMAIN log
  <2>1. n = Leader
    BY <1>3, <1>6 DEF ClosedInv
  <2>2. log[i].last = 0 \/ log[i].last \in DOMAIN log
    BY <1>1, <1>6 DEF IInv, ChainInv, Commits
  <2> QED
    BY <1>4, <1>6, <2>1, <2>2
<1> QED
  BY <1>1, <1>5, <1>6

\* readLogs takes every log for what it is: prepares become pending, decisions
\* finish a prepare that is pending.
LEMMA ReadStep ==
  ASSUME IInv, RestartInv, NEW n \in Nodes, ReadLog(n)
  PROVE  ReadInv(n)' /\ ~ Up(n)'
<1>1. /\ status \in [Nodes -> {"up", "reading", "failed", "hung"}]
      /\ cursor \in [Nodes -> 0..(MaxIndex + 1)] /\ pending \in [Nodes -> SUBSET Index]
  BY DEF IInv, TypeOK
<1>2. PICK i \in Wal(n) :
        /\ i >= cursor[n]
        /\ \A j \in Wal(n) : j >= cursor[n] => i <= j
        /\ status' = [status EXCEPT ![n] =
             IF log[i].type = "prepare" THEN "reading"
             ELSE IF log[i].ref \notin Wal(n) THEN "hung"
             ELSE IF log[i].type = "commit" /\ log[i].last \notin Wal(n) THEN "hung"
             ELSE IF log[i].type = "commit" /\ log[i].last # lastCommit[n] THEN "up"
             ELSE IF log[i].ref \notin pending[n] THEN "failed" ELSE "reading"]
        /\ status'[n] = "reading" =>
             /\ cursor' = [cursor EXCEPT ![n] = i + 1]
             /\ pending' = [pending EXCEPT ![n] = IF log[i].type = "prepare"
                                                  THEN @ \cup {i} ELSE @ \ {log[i].ref}]
  BY DEF ReadLog
<1>3. UNCHANGED <<log, wal>> /\ status[n] = "reading"
  BY DEF ReadLog, walVars
<1>4. PICK c \in Nat : c = cursor[n]
  BY NatFacts DEF IInv
<1>5. PICK W : W = Wal(n) /\ W \subseteq Index /\ W \subseteq Nat
  BY RefersBack
<1>6. W = Wal(n)'
  BY <1>3, <1>5 DEF Wal
<1>7. \A j \in Index : j \in pending[n] <=>
        /\ j \in W /\ j < c /\ log[j].type = "prepare"
        /\ \A k \in W : k < c => ~ Decides(k, j)
  BY <1>3, <1>4, <1>5 DEF RestartInv, ReadInv
<1>8. i \in W /\ i \in Nat /\ i \in Index /\ i >= c /\ \A j \in W : j < i + 1 <=> j < c \/ j = i
  BY <1>2, <1>4, <1>5, SMT
<1>9. log[i].type = "commit" => log[i].last = lastCommit[n]
  <2>1. SUFFICES ASSUME log[i].type = "commit" PROVE i \in CommitsOf(n)
    BY <1>2, <1>3, ReadMatches DEF IInv
  <2> QED
    BY <2>1, RefersBack DEF CommitsOf, Commits
<1>10. log[i].type # "prepare" => log[i].ref \in W /\ log[i].ref \in pending[n]
  <2>1. SUFFICES ASSUME log[i].type # "prepare"
                 PROVE  log[i].ref \in W /\ log[i].ref \in pending[n]
    OBVIOUS
  <2>2. PICK p \in Index : p = log[i].ref /\ p \in W /\ p < i /\ log[p].type = "prepare"
                           /\ \A k \in W : Decides(k, p) => k = i
    BY <1>5, <2>1, RefersBack
  <2>3. p < c
    BY <1>5, <1>8, <2>2, SMT
  <2>4. \A k \in W : k < c => ~ Decides(k, p)
    BY <1>5, <1>8, <2>2, SMT
  <2> QED
    BY <1>7, <2>2, <2>3, <2>4
<1>11. \/ status'[n] = "reading"
       \/ status'[n] = "hung" /\ n = Leader /\ 0 \notin DOMAIN log
  <2>1. status'[n] =
          IF log[i].type = "prepare" THEN "reading"
          ELSE IF log[i].ref \notin Wal(n) THEN "hung"
          ELSE IF log[i].type = "commit" /\ log[i].last \notin Wal(n) THEN "hung"
          ELSE IF log[i].type = "commit" /\ log[i].last # lastCommit[n] THEN "up"
          ELSE IF log[i].ref \notin pending[n] THEN "failed" ELSE "reading"
    BY <1>1, <1>2
  <2>2. log[i].type = "commit" /\ log[i].last \notin Wal(n) => n = Leader /\ 0 \notin DOMAIN log
    BY RefersBack
  <2>3. log[i].type = "prepare" => status'[n] = "reading"
    BY <2>1
  <2>4. ASSUME log[i].type # "prepare" PROVE status'[n] \in {"reading", "hung"}
    <3>1. /\ log[i].type # "prepare" /\ ~ (log[i].type # "prepare" /\ log[i].ref \notin Wal(n))
          /\ ~ (log[i].type = "commit" /\ log[i].last # lastCommit[n])
          /\ ~ (log[i].ref \notin pending[n])
      BY <1>5, <1>9, <1>10, <2>4
    <3> QED
      BY <2>1, <3>1
  <2>5. ASSUME log[i].type # "prepare", status'[n] = "hung"
        PROVE  log[i].type = "commit" /\ log[i].last \notin Wal(n)
    <3>1. log[i].ref \in Wal(n)
      BY <1>5, <1>10, <2>5
    <3> QED
      BY <1>9, <1>10, <2>1, <2>5, <3>1
  <2> QED
    BY <2>2, <2>3, <2>4, <2>5
<1>12. ASSUME status'[n] = "reading", NEW j \in Index
       PROVE  j \in pending'[n] <=>
                /\ j \in W /\ j < i + 1 /\ log[j].type = "prepare"
                /\ \A k \in W : k < i + 1 => ~ Decides(k, j)
  <2>1. CASE log[i].type = "prepare"
    <3>1. pending'[n] = pending[n] \cup {i}
      BY <1>1, <1>2, <1>12, <2>1
    <3>2. \A m : ~ Decides(i, m)
      BY <2>1 DEF Decides
    <3>3. \A k \in W : Decides(k, i) => i < k
      BY <1>5, RefersBack, SMT DEF Decides
    <3>4. CASE j = i
      BY <1>5, <1>8, <2>1, <3>1, <3>3, <3>4, SMTT(30)
    <3>5. CASE j # i
      BY <1>7, <1>8, <3>1, <3>2, <3>5
    <3> QED
      BY <3>4, <3>5
  <2>2. CASE log[i].type # "prepare"
    <3>1. pending'[n] = pending[n] \ {log[i].ref}
      BY <1>1, <1>2, <1>12, <2>2
    <3>2. \A m : Decides(i, m) <=> m = log[i].ref
      BY <2>2 DEF Decides
    <3> QED
      BY <1>7, <1>8, <2>2, <3>1, <3>2
  <2> QED
    BY <2>1, <2>2
<1>13. status'[n] = "reading" => cursor'[n] = i + 1
  BY <1>1, <1>2
<1>14. \A k, j : Decides(k, j)' <=> Decides(k, j)
  BY <1>3 DEF Decides
<1> QED
  BY <1>3, <1>6, <1>11, <1>12, <1>13, <1>14 DEF ReadInv, Up

\* A node that serves, or whose WAL and pendingPrepares stay.
LEMMA ReadKept ==
  ASSUME IInv, NEW n \in Nodes, ReadInv(n), status'[n] = status[n],
         Up(n) \/ /\ UNCHANGED <<cursor[n], pending[n]>> /\ Wal(n)' = Wal(n)
                  /\ \A k \in Wal(n) : log'[k] = log[k]
                  /\ n = Leader => UNCHANGED log
  PROVE  ReadInv(n)'
<1>1. CASE Up(n)
  BY <1>1 DEF ReadInv, Up
<1>2. CASE /\ UNCHANGED <<cursor[n], pending[n]>> /\ Wal(n)' = Wal(n)
           /\ \A k \in Wal(n) : log'[k] = log[k]
           /\ n = Leader => UNCHANGED log
  <2>1. \A k \in Wal(n), j \in Index : Decides(k, j)' <=> Decides(k, j)
    BY <1>2 DEF Decides
  <2> QED
    BY <1>2, <2>1 DEF ReadInv
<1> QED
  BY <1>1, <1>2

\* Apply runs on a leader that has restarted.
LEMMA LeaderServes ==
  ASSUME IInv, LeaderNext
  PROVE  Up(Leader)
<1>1. ASSUME NEW r \in Reqs,
             \/ LogPrepare(r) \/ PrepareOk(r) \/ PrepareFailed(r) \/ CommitTimeout(r)
             \/ LeaderLogCommit(r) \/ ReturnCommitted(r)
      PROVE  Up(Leader)
  <2>1. apply[r].pc \in Unfinished
    BY <1>1 DEF LogPrepare, PrepareOk, PrepareFailed, CommitTimeout, LeaderLogCommit,
                ReturnCommitted, Unfinished
  <2> QED
    BY <2>1 DEF IInv, AllocInv, CallInv
<1>2. LeaderDoCommit => Up(Leader)
  BY DEF LeaderDoCommit, IInv, PositionInv, Position, Nodes
<1>3. \A r \in Reqs : AllocPrepare(r) => Up(Leader)
  BY DEF AllocPrepare
<1> QED
  BY <1>1, <1>2, <1>3 DEF LeaderNext

\* The leader's steps leave the pendingPrepares of the followers alone, and send
\* calls that were not under way.
LEMMA LeaderAside ==
  ASSUME IInv, UnsentInv, LeaderNext, NEW f \in Followers
  PROVE  /\ pending'[f] = pending[f]
         /\ \A h \in Calls : Aside(f, h)
<1>a. /\ pending \in [Nodes -> SUBSET Index] /\ f # Leader /\ f \in Nodes
      /\ handler \in [Followers -> [Calls -> HandlerPcs]]
      /\ cycle \in [Nodes -> {<<>>} \cup {<<i>> : i \in DOMAIN log}] /\ Leader \in Nodes
  BY KayakAssumption DEF IInv, TypeOK, Nodes
<1>b. ASSUME NEW i \in Index, applyRPC(i), handler[f][<<"rpc", i>>] = "none"
      PROVE  \A h \in Calls : Aside(f, h)
  <2>1. <<"rpc", i>> \in Calls
    BY DEF Calls, Sources
  <2>2. /\ handler'[f][<<"rpc", i>>] = "sent"
        /\ \A h \in Calls \ {<<"rpc", i>>} : handler'[f][h] = handler[f][h]
    BY <1>a, <1>b, <2>1 DEF applyRPC
  <2> QED
    BY <1>b, <2>2 DEF Aside, Stages
<1>c. \A i \in Index : i \notin DOMAIN log => handler[f][<<"rpc", i>>] = "none"
  <2>1. \A i \in Index : <<"rpc", i>> \in Calls /\ <<"rpc", i>>[2] = i
    BY DEF Calls, Sources
  <2> QED
    BY <2>1 DEF IInv, HandlerInv, Serves
<1>d. (handler' = handler) => \A h \in Calls : Aside(f, h)
  BY DEF Aside
<1>1. ASSUME NEW r \in Reqs, LogPrepare(r)
      PROVE  pending'[f] = pending[f] /\ \A h \in Calls : Aside(f, h)
  <2>1. PICK i \in Index \ DOMAIN log : i = apply[r].index
    BY <1>1, LogPrepareFact DEF IInv
  <2>2. applyRPC(i) /\ pending' = [pending EXCEPT ![Leader] = @ \cup {i}]
    BY <1>1, <2>1 DEF LogPrepare
  <2> QED
    BY <1>a, <1>b, <1>c, <2>2
<1>2. ASSUME NEW r \in Reqs, PrepareFailed(r)
      PROVE  pending'[f] = pending[f] /\ \A h \in Calls : Aside(f, h)
  <2>1. PICK i \in Index \ DOMAIN log : i = nextIndex[Leader]
    BY <1>2, PrepareFailedFact DEF IInv
  <2>2. applyRPC(i) /\ MarkPrepareFinished(Leader, apply[r].index)
    BY <1>2, <2>1 DEF PrepareFailed
  <2>3. pending'[f] = pending[f]
    BY <1>a, <2>2 DEF MarkPrepareFinished
  <2> QED
    BY <1>b, <1>c, <2>2, <2>3
<1>3. ASSUME NEW r \in Reqs,
             \/ AllocPrepare(r) \/ PrepareOk(r) \/ CommitTimeout(r)
             \/ LeaderLogCommit(r) \/ ReturnCommitted(r)
      PROVE  pending'[f] = pending[f] /\ \A h \in Calls : Aside(f, h)
  <2>1. handler' = handler
    BY <1>3 DEF AllocPrepare, PrepareOk, CommitTimeout, LeaderLogCommit, ReturnCommitted
  <2>2. pending'[f] = pending[f]
    BY <1>a, <1>3 DEF AllocPrepare, PrepareOk, CommitTimeout, LeaderLogCommit,
                      ReturnCommitted, MarkPrepareFinished, nodeVars
  <2> QED
    BY <1>d, <2>1, <2>2
<1>4. CASE LeaderDoCommit
  <2>1. PICK k \in DOMAIN log : cycle[Leader] = <<k>>
    BY <1>a, <1>4 DEF LeaderDoCommit
  <2>2. applyRPC(k) /\ pending' = pending /\ k \in Index
    BY <1>4, <2>1, SMTT(30) DEF LeaderDoCommit, IInv, TypeOK
  <2>3. handler[f][<<"rpc", k>>] = "none"
    BY <2>1, <2>2 DEF UnsentInv
  <2> QED
    BY <1>b, <2>2, <2>3
<1> QED
  BY <1>1, <1>2, <1>3, <1>4 DEF LeaderNext

\* readLogs of a follower ends with the pendingPrepares of a follower at rest.
LEMMA ReadEnds ==
  ASSUME IInv, RestartInv, NEW f \in Followers, ReadEOF(f)
  PROVE  StoreInv(f)'
<1>1. /\ UNCHANGED <<log, wal, handler, cursor, pending, item>> /\ status[f] = "reading"
      /\ \A i \in Wal(f) : i < cursor[f]
  BY DEF ReadEOF, walVars
<1>2. f \in Nodes /\ Wal(f) = wal[f] /\ StoreInv(f) /\ ReadInv(f)
  BY KayakAssumption DEF Nodes, Wal, RestartInv
<1>3. \A h \in Calls : handler[f][h] \in {"none", "sent"}
  BY <1>1 DEF IInv, HandlerInv, Serves, Up
<1>4. \A i : ~ Marking(f, i)' /\ ~ InFlight(f, i)'
  BY <1>1, <1>3 DEF Marking, InFlight
<1>5. \A k, i : Decides(k, i)' <=> Decides(k, i)
  BY <1>1 DEF Decides
<1>6. \A i \in Index : i \in pending[f] <=>
        /\ i \in wal[f] /\ log[i].type = "prepare"
        /\ \A k \in wal[f] : ~ Decides(k, i)
  BY <1>1, <1>2 DEF ReadInv
<1>7. \A i \in Index : i \in pending'[f] <=> Open(f, i)'
  BY <1>1, <1>4, <1>5, <1>6 DEF Open
<1>8. SameLogs
  BY <1>1 DEF SameLogs, Commits
<1>9. pending'[f] \subseteq Index
  BY <1>1, <1>2 DEF IInv, TypeOK
<1> QED
  BY <1>1, <1>2, <1>3, <1>7, <1>8, <1>9, IdleFact DEF IInv

\* What the steps of calls do to a follower.
LEMMA CallAside ==
  ASSUME IInv, RPCNext, NEW f \in Followers, NEW h \in Calls
  PROVE  Aside(f, h)
<1>0. PICK g \in Followers, i \in Index : Lose(g, i) \/ Disconnect(g, i) \/ Fetch(g, i)
  BY DEF RPCNext
<1>1. handler \in [Followers -> [Calls -> HandlerPcs]]
  BY DEF IInv, TypeOK
<1>2. CASE Disconnect(g, i)
  BY <1>2 DEF Disconnect, Aside
<1>3. CASE Lose(g, i)
  <2>1. /\ handler' = [handler EXCEPT ![g][<<"rpc", i>>] = "none"]
        /\ handler[g][<<"rpc", i>>] = "sent"
    BY <1>3 DEF Lose
  <2> QED
    BY <1>1, <2>1 DEF Aside, Stages
<1>4. CASE Fetch(g, i)
  <2>1. /\ handler' = [handler EXCEPT ![g][<<"fetch", i>>] = "sent"]
        /\ handler[g][<<"fetch", i>>] = "none"
    BY <1>4 DEF Fetch, Goto, At
  <2> QED
    BY <1>1, <2>1 DEF Aside, Stages
<1> QED
  BY <1>0, <1>2, <1>3, <1>4

\* Every follower keeps what it has stored in order.
LEMMA StoreNext ==
  ASSUME IInv, RestartInv, [Next]_vars, NEW f \in Followers
  PROVE  StoreInv(f)'
<1>a. TypeOK /\ HandlerInv /\ StoreInv(f) /\ DecideOnce /\ UnsentInv /\ SameLogs
      /\ f \in Nodes /\ f # Leader
  BY LogGrows, KayakAssumption DEF IInv, RestartInv, Nodes
<1>b. \A i \in Index : item[f][i] = "set" => i \in wal[f]
  BY <1>a DEF StoreInv, ClosedInv
<1>c. UNCHANGED handler => \A h \in Calls : Aside(f, h)
  BY DEF Aside
<1>1. CASE UNCHANGED vars
  BY <1>1, <1>a, <1>b, <1>c, KeptFact DEF vars
<1>2. CASE LeaderNext
  <2>1. UNCHANGED <<wal, status, item>>
    BY <1>2, <1>a, FollowerFrame DEF SameFollowers
  <2>2. pending'[f] = pending[f] /\ \A h \in Calls : Aside(f, h)
    BY <1>2, <1>a, LeaderAside
  <2> QED
    BY <1>a, <1>b, <2>1, <2>2, KeptFact
<1>3. CASE RPCNext
  <2>1. UNCHANGED <<wal, status, item, pending>>
    BY <1>3 DEF RPCNext, Lose, Disconnect, Fetch, walVars, nodeVars
  <2>2. \A h \in Calls : Aside(f, h)
    BY <1>3, CallAside
  <2> QED
    BY <1>a, <1>b, <2>1, <2>2, KeptFact
<1>4. CASE FollowerNext
  <2>0. PICK g \in Followers, h \in Calls : FollowerStep(g, h)
    BY <1>4 DEF FollowerNext, FollowerStep
  <2>1. CASE g = f
    BY <1>a, <2>0, <2>1, StoreStep
  <2>2. CASE g # f
    <3>1. /\ pending'[f] = pending[f] /\ handler'[f] = handler[f] /\ item'[f] = item[f]
          /\ wal'[f] = wal[f]
      BY <1>a, <2>0, <2>2, OthersAside, OthersStay
    <3>2. status' = status
      BY <1>4, <1>a, LeaderFrame DEF SameLeader
    <3>3. \A h1 \in Calls : Aside(f, h1)
      BY <3>1 DEF Aside
    <3> QED
      BY <1>a, <1>b, <3>1, <3>2, <3>3, KeptFact
  <2> QED
    BY <2>1, <2>2
<1>5. CASE CrashNext
  <2>0. PICK n \in Nodes : Crash(n) \/ ReadLog(n) \/ ReadEOF(n)
    BY <1>5 DEF CrashNext
  <2>1. CASE ReadEOF(n) /\ n = f
    BY <2>1, ReadEnds
  <2>2. CASE ReadEOF(n) /\ n # f
    <3>1. UNCHANGED <<wal, handler, pending, item>> /\ status'[f] = status[f]
      BY <1>a, <2>2 DEF ReadEOF, walVars, TypeOK
    <3> QED
      BY <1>a, <1>b, <1>c, <3>1, KeptFact
  <2>3. CASE ReadLog(n) /\ n # f
    <3>1. UNCHANGED <<wal, handler, item>>
      BY <2>3 DEF ReadLog, walVars
    <3>2. status'[f] = status[f]
      BY <1>a, <2>3, ReadLogFact DEF IInv
    <3>3. pending'[f] = pending[f]
      <4>1. pending' = pending \/ \E S : pending' = [pending EXCEPT ![n] = S]
        BY <2>3 DEF ReadLog
      <4> QED
        BY <1>a, <2>3, <4>1 DEF TypeOK
    <3> QED
      BY <1>a, <1>b, <1>c, <3>1, <3>2, <3>3, KeptFact
  <2>4. CASE ReadLog(n) /\ n = f
    <3>1. UNCHANGED <<wal, handler, item>> /\ status[f] = "reading"
      BY <2>4 DEF ReadLog, walVars
    <3>2. \A h \in Calls : handler[f][h] \in {"none", "sent"}
      BY <1>a, <3>1 DEF HandlerInv, Serves, Up
    <3>3. ~ Up(f)'
      BY <2>4, ReadStep
    <3> QED
      BY <1>a, <3>1, <3>2, <3>3, IdleFact
  <2>5. CASE Crash(n) /\ n # f
    <3>1. wal' = wal /\ status'[f] = status[f]
      BY <1>a, <2>5, CrashFact
    <3>2. pending'[f] = pending[f]
      BY <1>a, <2>5 DEF Crash, TypeOK
    <3>3. handler'[f] = handler[f] /\ item'[f] = item[f]
      BY <1>a, <2>5 DEF Crash, TypeOK
    <3>4. \A h \in Calls : Aside(f, h)
      BY <3>3 DEF Aside
    <3> QED
      BY <1>a, <1>b, <3>1, <3>2, <3>3, <3>4, KeptFact
  <2>6. CASE Crash(n) /\ n = f
    <3>1. wal' = wal /\ ~ Up(f)'
      BY <1>a, <2>6, CrashFact DEF Up
    <3>2. /\ handler' = [handler EXCEPT ![f] =
                [h \in Calls |-> IF Arrived(f, h) THEN "none" ELSE handler[f][h]]]
          /\ item' = [item EXCEPT ![f] = [i \in Index |-> "none"]]
      BY <1>a, <2>6 DEF Crash
    <3>3. \A h \in Calls : handler'[f][h] \in {"none", "sent"}
      BY <1>a, <3>2 DEF TypeOK, Arrived
    <3>4. \A i \in Index : item'[f][i] # "set"
      BY <1>a, <3>2 DEF TypeOK
    <3> QED
      BY <1>a, <3>1, <3>3, <3>4, IdleFact
  <2> QED
    BY <2>0, <2>1, <2>2, <2>3, <2>4, <2>5, <2>6
<1> QED
  BY <1>1, <1>2, <1>3, <1>4, <1>5 DEF Next

\* Every node keeps what readLogs has rebuilt.
LEMMA ReadNext ==
  ASSUME IInv, RestartInv, [Next]_vars, NEW n \in Nodes
  PROVE  ReadInv(n)'
<1>a. /\ TypeOK /\ SameLogs /\ ReadInv(n) /\ (n # Leader => n \in Followers)
      /\ \A k \in Wal(n) : log'[k] = log[k]
  BY LogGrows, NatFacts DEF IInv, RestartInv, Nodes, SameLogs, Wal
<1>b. UNCHANGED <<log, wal>> => Wal(n)' = Wal(n)
  BY DEF Wal
<1>1. CASE UNCHANGED vars
  BY <1>1, <1>a, <1>b, ReadKept DEF vars
<1>2. CASE LeaderNext
  <2>1. UNCHANGED <<wal, status, cursor>>
    BY <1>2, <1>a, FollowerFrame DEF SameFollowers
  <2>2. CASE n = Leader
    BY <1>2, <1>a, <2>1, <2>2, LeaderServes, ReadKept
  <2>3. CASE n # Leader
    <3>1. pending'[n] = pending[n]
      BY <1>2, <1>a, <2>3, LeaderAside DEF RestartInv
    <3>2. Wal(n)' = Wal(n)
      BY <2>1, <2>3 DEF Wal
    <3> QED
      BY <1>a, <2>1, <2>3, <3>1, <3>2, ReadKept
  <2> QED
    BY <2>2, <2>3
<1>3. CASE RPCNext
  <2>1. UNCHANGED <<log, wal, status, cursor, pending>>
    BY <1>3 DEF RPCNext, Lose, Disconnect, Fetch, walVars, nodeVars
  <2> QED
    BY <1>a, <1>b, <2>1, ReadKept
<1>4. CASE FollowerNext
  <2>0. PICK f \in Followers, h \in Calls : FollowerStep(f, h)
    BY <1>4 DEF FollowerNext, FollowerStep
  <2>1. UNCHANGED <<log, status, cursor>>
    BY <1>4, <1>a, LeaderFrame DEF SameLeader
  <2>2. CASE n = f
    BY <1>a, <2>0, <2>1, <2>2, StepMoves, ReadKept
  <2>3. CASE n # f
    <3>1. pending'[n] = pending[n]
      BY <1>a, <2>0, <2>3, OthersAside
    <3>2. Wal(n)' = Wal(n)
      BY <1>a, <2>0, <2>1, <2>3, OthersStay DEF Wal
    <3> QED
      BY <1>a, <2>1, <3>1, <3>2, ReadKept
  <2> QED
    BY <2>2, <2>3
<1>5. CASE CrashNext
  <2>0. PICK m \in Nodes : Crash(m) \/ ReadLog(m) \/ ReadEOF(m)
    BY <1>5 DEF CrashNext
  <2>1. UNCHANGED <<log, wal>>
    BY <2>0 DEF Crash, ReadLog, ReadEOF, walVars
  <2>2. CASE ReadLog(m) /\ m = n
    BY <2>2, ReadStep
  <2>3. CASE ReadEOF(m) /\ m = n
    BY <1>a, <2>3, ReadEOFFact DEF ReadInv
  <2>4. CASE Crash(m) /\ m = n
    <3>1. status'[n] = "reading" /\ cursor'[n] = 0
      BY <1>a, <2>4, CrashFact
    <3>2. pending'[n] = {}
      BY <1>a, <2>4 DEF Crash, TypeOK
    <3>3. Wal(n)' \subseteq Nat
      BY <1>a, <1>b, <2>1, NatFacts DEF Wal
    <3> QED
      BY <3>1, <3>2, <3>3, SMT DEF ReadInv
  <2>5. CASE m # n
    <3>1. status'[n] = status[n] /\ cursor'[n] = cursor[n]
      BY <1>a, <2>0, <2>5, CrashFact, ReadEOFFact, ReadLogFact, ZenonT(30) DEF IInv
    <3>2. pending'[n] = pending[n]
      <4>1. pending' = pending \/ \E S : pending' = [pending EXCEPT ![m] = S]
        BY <2>0 DEF Crash, ReadLog, ReadEOF
      <4> QED
        BY <1>a, <2>5, <4>1 DEF TypeOK
    <3> QED
      BY <1>a, <1>b, <2>1, <3>1, <3>2, ReadKept
  <2> QED
    BY <2>0, <2>2, <2>3, <2>4, <2>5
<1> QED
  BY <1>1, <1>2, <1>3, <1>4, <1>5 DEF Next

\* Initially nothing is stored.
LEMMA RestartInit == Init => RestartInv
<1> SUFFICES ASSUME Init PROVE RestartInv
  OBVIOUS
<1>1. DecideOnce /\ UnsentInv
  BY BusyFact, KayakAssumption DEF Init, DecideOnce, UnsentInv, Nodes
<1>2. ASSUME NEW f \in Followers PROVE StoreInv(f)
  <2>1. /\ wal[f] = {} /\ pending[f] = {} /\ item[f] = [i \in Index |-> "none"]
        /\ handler[f] = [h \in Calls |-> "none"]
    BY DEF Init, Nodes
  <2> QED
    BY <2>1 DEF StoreInv, ClosedInv, SoleInv, PendingInv, Open
<1>3. ASSUME NEW n \in Nodes PROVE ReadInv(n)
  BY DEF Init, ReadInv
<1> QED
  BY <1>1, <1>2, <1>3 DEF RestartInv

\* Every restart succeeds: readLogs finds each decision's prepare log pending and
\* hangs on no follower; between requests a follower has every undecided prepare of
\* its WAL pending, though two handlers may store one prepare at once.
THEOREM Restart == Spec => []RecoveryAccepts
<1>1. Init => IInv /\ RestartInv
  BY IInvInit, RestartInit
<1>2. IInv /\ RestartInv /\ [Next]_vars => IInv' /\ RestartInv'
  <2> SUFFICES ASSUME IInv, RestartInv, [Next]_vars PROVE IInv' /\ RestartInv'
    OBVIOUS
  <2>1. DecideOnce' /\ UnsentInv'
    BY DecideOnceNext, UnsentNext DEF RestartInv
  <2>2. \A f \in Followers : StoreInv(f)'
    BY StoreNext
  <2>3. \A n \in Nodes : ReadInv(n)'
    BY ReadNext
  <2> QED
    BY <2>1, <2>2, <2>3, IInvNext DEF RestartInv
<1>3. IInv /\ RestartInv => RecoveryAccepts
  <2> SUFFICES ASSUME IInv, RestartInv PROVE RecoveryAccepts
    OBVIOUS
  <2>1. \A n \in Nodes : /\ status[n] # "failed"
                         /\ status[n] = "hung" => n = Leader /\ 0 \notin DOMAIN log
    BY DEF RestartInv, ReadInv
  <2>2. ASSUME NEW f \in Followers, Up(f),
               \A h \in Calls : handler[f][h] \in {"none", "sent"}
        PROVE  Undecided(f) \subseteq pending[f] /\ pending[f] \subseteq Prepares(f)
    <3>1. \A i : ~ Marking(f, i) /\ ~ InFlight(f, i)
      BY <2>2 DEF Marking, InFlight
    <3>2. /\ \A i \in Index : Open(f, i) => i \in pending[f]
          /\ \A i \in pending[f] : i \in wal[f] /\ log[i].type = "prepare"
      BY <2>2 DEF RestartInv, StoreInv, PendingInv
    <3>3. wal[f] \subseteq Index
      BY DEF IInv, TypeOK, Nodes
    <3> QED
      BY <3>1, <3>2, <3>3 DEF Open, Decides, Undecided, Prepares
  <2> QED
    BY <2>1, <2>2 DEF RecoveryAccepts
<1> QED
  BY <1>1, <1>2, <1>3, PTL DEF Spec
=============================================================================
