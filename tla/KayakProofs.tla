---------------------------- MODULE KayakProofs ----------------------------
(***************************************************************************)
(* What Kayak guarantees for any number of followers, requests, crashes    *)
(* and lost calls, from the inductive invariant of KayakInductive.         *)
(***************************************************************************)
EXTENDS KayakInductive, FiniteSetTheorems

\* The backend of a leaf that names none.
USE Zenon

-----------------------------------------------------------------------------
(***************************************************************************)
(* The theorems.                                                           *)
(***************************************************************************)
\* Every variable of the runtime keeps its type; in particular a follower's WAL
\* only holds logs the leader wrote, whatever is lost or crashes.
THEOREM TypeCorrect == Spec => []TypeOK
<1>1. IInv => TypeOK
  BY DEF IInv
<1> QED
  BY <1>1, Inductive, PTL

\* doLeaderCommit and doLeaderRollback never both decide a prepare log.
THEOREM Agreement == Spec => []DecisionAgreement
<1>1. IInv => DecisionAgreement
  <2>1. SUFFICES ASSUME IInv, NEW i \in DOMAIN log, NEW j \in DOMAIN log, NEW k \in DOMAIN log,
                        log[j].type = "commit", log[j].ref = i,
                        log[k].type = "rollback", log[k].ref = i
                 PROVE  FALSE
    BY DEF DecisionAgreement, Decided
  <2>2. Owned(j) /\ Owned(k)
    BY <2>1 DEF IInv, DecisionInv
  <2>3. log[j].req = log[k].req
    BY <2>1, <2>2 DEF Owned
  <2> QED
    BY <2>1, <2>2, <2>3 DEF Owned
<1> QED
  BY <1>1, Inductive, PTL

\* A follower that logged a commit logged every earlier one.
THEOREM NoGaps == Spec => []CommitPrefix
<1>1. IInv => CommitPrefix
  BY DEF IInv
<1> QED
  BY <1>1, Inductive, PTL

\* Handler.Commit is called in commit order, at most once for each commit log.
THEOREM OrderedExecution == Spec => []ExecutedInOrder
<1>1. IInv => ExecutedInOrder
  BY DEF IInv
<1> QED
  BY <1>1, Inductive, PTL

\* A node that serves has lastCommit at the newest commit of its WAL, after any
\* number of restarts.
THEOREM Recovery == Spec => []RecoveryComplete
<1>1. IInv => RecoveryComplete
  BY DEF IInv, PositionInv, Position, RecoveryComplete, IsLast
<1> QED
  BY <1>1, Inductive, PTL

-----------------------------------------------------------------------------
(***************************************************************************)
(* The prepare quorum.                                                     *)
(***************************************************************************)
Holders(i) == {f \in Followers : i \in wal[f]}

Held(i) == Cardinality(Holders(i)) >= minPreparedFollowers

\* WALs never lose a log.
LEMMA WalGrows ==
  ASSUME IInv, [Next]_vars
  PROVE  \A f \in Followers : wal[f] \subseteq wal'[f]
<1> USE DEF IInv
<1>1. CASE LeaderNext
  BY <1>1, FollowerFrame DEF SameFollowers
<1>2. CASE RPCNext
  BY <1>2 DEF RPCNext, Lose, Disconnect, Fetch, walVars
<1>3. CASE CrashNext
  BY <1>3, CrashFact, ReadLogFact, ReadEOFFact DEF CrashNext
<1>4. CASE FollowerNext
  BY <1>4, FollowerStable DEF FollowerNext, FollowerStep, Stable
<1>5. CASE UNCHANGED vars
  BY <1>5 DEF vars
<1> QED
  BY <1>1, <1>2, <1>3, <1>4, <1>5 DEF Next

\* Thresholds are numbers of followers.
LEMMA ThresholdFact == minPreparedFollowers \in Int
<1>1. Cardinality(Followers) \in Nat
  BY KayakAssumption, FS_CardinalityType
<1>2. PrepareThreshold * (Cardinality(Followers) + 1) + 99 \in Int
  BY <1>1, KayakAssumption, SMT
<1>3. (PrepareThreshold * (Cardinality(Followers) + 1) + 99) \div 100 \in Int
  BY <1>2, SMT
<1> QED
  BY <1>3, SMT DEF minPreparedFollowers, MinFollowers

\* So the number of followers that hold a log never shrinks.
LEMMA HeldGrows ==
  ASSUME IInv, [Next]_vars, NEW i, Held(i)
  PROVE  Held(i)'
<1> DEFINE S == Holders(i)
           T == {f \in Followers : i \in wal'[f]}
<1>1. S \subseteq Followers /\ T \subseteq Followers
  BY DEF Holders
<1>2. IsFiniteSet(S) /\ IsFiniteSet(T)
  BY <1>1, KayakAssumption, FS_Subset
<1>3. S \subseteq T
  BY WalGrows DEF Holders
<1>4. Cardinality(S) >= minPreparedFollowers
  BY DEF Held
<1> HIDE DEF S, T
<1>5. Cardinality(S) \in Nat /\ Cardinality(T) \in Nat /\ Cardinality(S) <= Cardinality(T)
  BY <1>2, <1>3, FS_Subset, FS_CardinalityType
<1>6. Cardinality(T) >= minPreparedFollowers
  BY <1>4, <1>5, ThresholdFact, SMT
<1> QED
  BY <1>6 DEF Held, Holders, T, minPreparedFollowers, MinFollowers

\* A log answered with success is durable, and a request waits for its commit only
\* when enough followers hold its prepare log.
AckInv ==
  \A f \in Followers, i \in Index : result[f][i] = "ok" => i \in wal[f]

QuorumInv ==
  \A r \in Reqs : apply[r].pc = "enqueue" =>
    \A i \in Index : i = apply[r].index => Held(i)

\* Followers answer with success only after writing the log.
LEMMA AckNext ==
  ASSUME IInv, AckInv, [Next]_vars
  PROVE  AckInv'
<1> USE DEF IInv
<1>a. result \in [Followers -> [Index -> {"none", "ok", "err", "lost"}]]
  BY DEF TypeOK
<1>b. \A f \in Followers : wal[f] \subseteq wal'[f]
  BY WalGrows
<1>1. CASE UNCHANGED result
  BY <1>1, <1>b DEF AckInv
<1>2. ASSUME NEW f \in Followers, NEW i \in Index, NEW a \in {"err", "lost"}, Reply(f, i, a)
      PROVE  AckInv'
  BY <1>a, <1>b, <1>2 DEF AckInv, Reply
<1>3. ASSUME NEW f \in Followers, NEW i \in Index, i \in wal'[f], Reply(f, i, "ok")
      PROVE  AckInv'
  BY <1>a, <1>b, <1>3 DEF AckInv, Reply
<1>4. CASE LeaderNext
  BY <1>1, <1>4, FollowerFrame DEF SameFollowers
<1>5. CASE RPCNext
  BY <1>1, <1>2, <1>5 DEF RPCNext, Lose, Disconnect, Fetch, rpcVars
<1>6. CASE CrashNext
  <2>0. PICK n \in Nodes : Crash(n) \/ ReadLog(n) \/ ReadEOF(n)
    BY <1>6 DEF CrashNext
  <2>1. CASE ReadLog(n) \/ ReadEOF(n) \/ (Crash(n) /\ n = Leader)
    BY <1>1, <2>1 DEF ReadLog, ReadEOF, Crash, rpcVars
  <2>2. CASE Crash(n) /\ n # Leader
    <3>1. \A f \in Followers, i \in Index : result'[f][i] = "ok" => result[f][i] = "ok"
      <4>1. result' = [result EXCEPT ![n] =
                [i \in Index |-> IF /\ handler[n][<<"rpc", i>>] # "none"
                                    /\ Arrived(n, <<"rpc", i>>)
                                    /\ result[n][i] = "none"
                                 THEN "lost" ELSE result[n][i]]]
        BY <2>2 DEF Crash
      <4>2. ASSUME NEW f \in Followers, NEW i \in Index
            PROVE  result'[f][i] = result[f][i] \/ result'[f][i] = "lost"
        <5>1. CASE f # n
          BY <1>a, <4>1, <5>1
        <5>2. CASE f = n
          BY <1>a, <4>1, <5>2
        <5> QED
          BY <5>1, <5>2
      <4> QED
        BY <4>2
    <3> QED
      BY <1>b, <3>1 DEF AckInv
  <2> QED
    BY <2>0, <2>1, <2>2
<1>7. CASE FollowerNext
  <2>0. PICK f \in Followers, h \in Calls : FollowerStep(f, h)
    BY <1>7 DEF FollowerNext, FollowerStep
  <2>a. h[2] \in Index /\ Serves(f, h)
    BY CallsFact DEF HandlerInv
  <2>1. CASE UNCHANGED result \/ Reply(f, h[2], "err")
    BY <1>1, <1>2, <2>1, <2>a
  <2>2. CASE FollowerMarkPrepare(f, h) \/ FollowerReturnCommit(f, h)
    <3>1. h[2] \in wal[f]
      BY <2>2, <2>a DEF FollowerMarkPrepare, FollowerReturnCommit, At, Serves
    <3>2. UNCHANGED result \/ Reply(f, h[2], "ok")
      BY <2>2 DEF FollowerMarkPrepare, FollowerReturnCommit, Succeed
    <3> QED
      BY <1>1, <1>3, <1>b, <2>a, <3>1, <3>2
  <2>3. CASE FollowerRollback(f, h)
    <3>1. \/ UNCHANGED result
          \/ Reply(f, h[2], "err")
          \/ Reply(f, h[2], "ok") /\ wal' = [wal EXCEPT ![f] = @ \cup {h[2]}]
      BY <2>3 DEF FollowerRollback, Succeed, Fail
    <3>2. wal' = [wal EXCEPT ![f] = @ \cup {h[2]}] => h[2] \in wal'[f]
      BY DEF TypeOK
    <3> QED
      BY <1>3, <2>1, <2>a, <3>1, <3>2
  <2>4. CASE \/ FollowerRefuse(f, h) \/ FollowerLogPrepare(f, h) \/ WaitPrepare(f, h)
             \/ FollowerWritePrepare(f, h) \/ WaitLast(f, h) \/ CheckCommit(f, h) \/ Requeue(f, h)
             \/ FollowerDoCommit(f, h) \/ CommitQueueStep(f, h)
    <3>1. UNCHANGED result \/ Reply(f, h[2], "err")
      BY <2>4 DEF FollowerRefuse, FollowerLogPrepare, FollowerWritePrepare, WaitPrepare,
                  WaitLast, CheckCommit, Requeue, FollowerDoCommit, CommitQueueStep, FollowerLogCommit,
                  FollowerReorder, Fail, rpcVars
    <3> QED
      BY <2>1, <3>1
  <2> QED
    BY <2>0, <2>2, <2>3, <2>4 DEF FollowerStep, HandlerStep
<1>8. CASE UNCHANGED vars
  BY <1>1, <1>8 DEF vars
<1> QED
  BY <1>4, <1>5, <1>6, <1>7, <1>8 DEF Next

\* Apply queues a commit only with enough answers and no error.
LEMMA QuorumNext ==
  ASSUME IInv, AckInv, QuorumInv, [Next]_vars
  PROVE  QuorumInv'
<1>0. SUFFICES ASSUME NEW r \in Reqs, apply'[r].pc = "enqueue",
                      NEW i \in Index, i = apply'[r].index
               PROVE  Held(i)'
  BY DEF QuorumInv
<1>a. apply \in [Reqs -> ApplyCall] /\ apply' \in [Reqs -> ApplyCall]
  BY IInvNext DEF IInv, TypeOK
<1>3. CASE apply[r].pc = "enqueue" /\ apply'[r].index = apply[r].index
  BY <1>0, <1>3, HeldGrows DEF QuorumInv
<1>4. CASE PrepareOk(r)
  <2>1. Cardinality(Complete(i)) >= minPreparedFollowers /\ Errors(i) = {}
    <3>1. apply[r].index = i
      BY <1>0, <1>4, <1>a DEF PrepareOk, ApplyCall
    <3> QED
      BY <1>4, <3>1 DEF PrepareOk
  <2>2. Complete(i) \subseteq Holders(i)
    BY <2>1, SMT DEF Complete, Errors, Holders, AckInv, IInv, TypeOK
  <2>3. IsFiniteSet(Holders(i)) /\ IsFiniteSet(Complete(i))
    BY KayakAssumption, FS_Subset DEF Holders, Complete
  <2>4. Cardinality(Complete(i)) <= Cardinality(Holders(i))
    BY <2>2, <2>3, FS_Subset
  <2>5. Cardinality(Complete(i)) \in Nat /\ Cardinality(Holders(i)) \in Nat
    BY <2>3, FS_CardinalityType
  <2> QED
    BY <2>1, <2>4, <2>5, ThresholdFact, HeldGrows, SMTT(30) DEF Held
<1>5. CASE ~ PrepareOk(r)
  <2>1. apply[r].pc = "enqueue" /\ apply'[r].index = apply[r].index
    <3>1. CASE RPCNext \/ FollowerNext
      BY <1>0, <3>1, LeaderFrame DEF SameLeader, IInv
    <3>2. CASE UNCHANGED vars
      BY <1>0, <3>2 DEF vars
    <3>3. CASE CrashNext
      BY <1>0, <1>a, <3>3, SMT DEF CrashNext, Crash, ReadLog, ReadEOF, ApplyCall
    <3>4. CASE LeaderNext
      <4>1. CASE LeaderDoCommit
        BY <1>0, <1>a, <4>1 DEF LeaderDoCommit, ApplyCall
      <4>2. ASSUME NEW q \in Reqs, AllocPrepare(q)
            PROVE  apply[r].pc = "enqueue" /\ apply'[r].index = apply[r].index
        BY <1>0, <1>a, <4>2 DEF AllocPrepare, ApplyCall
      <4>3. ASSUME NEW q \in Reqs,
                   \/ LogPrepare(q) \/ PrepareOk(q) \/ PrepareFailed(q) \/ CommitTimeout(q)
                   \/ LeaderLogCommit(q) \/ ReturnCommitted(q)
            PROVE  apply[r].pc = "enqueue" /\ apply'[r].index = apply[r].index
        <5>1. \/ Moves(q, {"preparing", "rolledback", "timeout", "await", "done"})
              \/ Moves(q, {"enqueue"}) /\ PrepareOk(q)
          BY <4>3, MoveFacts, IInvNext DEF IInv, Moves
        <5> QED
          BY <1>0, <1>5, <5>1 DEF Moves
      <4> QED
        BY <3>4, <4>1, <4>2, <4>3 DEF LeaderNext
    <3> QED
      BY <3>1, <3>2, <3>3, <3>4 DEF Next
  <2> QED
    BY <1>3, <2>1
<1> QED
  BY <1>4, <1>5

\* A commit log is only written for a prepare log that enough followers hold, and
\* they keep it.
LEMMA PreparedNext ==
  ASSUME IInv, QuorumInv, \A c \in Commits : \A i \in Index : i = log[c].ref => Held(i),
         [Next]_vars,
         NEW c \in Commits', NEW i \in Index, i = log'[c].ref
  PROVE  Held(i)'
<1>2. CASE c \in Commits
  <2>1. log'[c] = log[c]
    BY <1>2, LogGrows DEF IInv, SameLogs, Commits
  <2> QED
    BY <1>2, <2>1, HeldGrows
<1>3. CASE c \notin Commits
  <2>1. PICK r \in Reqs : LeaderLogCommit(r)
    <3>1. CASE UNCHANGED log
      BY <1>3, <3>1 DEF Commits
    <3> QED
      BY <1>3, <3>1, LogFrame, LogPrepareFact, PrepareFailedFact DEF IInv
  <2>2. i = apply[r].index
    <3>1. c = nextIndex[Leader]
      BY <1>3, <2>1, LeaderLogCommitFact DEF IInv
    <3>2. log'[c] = CommitLog(r, apply[r].index, lastCommit[Leader])
      BY <2>1, <3>1, LeaderLogCommitFact DEF IInv
    <3> QED
      BY <3>2, SMT DEF CommitLog
  <2>3. Held(i)
    BY <2>1, <2>2 DEF LeaderLogCommit, QuorumInv
  <2> QED
    BY <2>3, HeldGrows
<1> QED
  BY <1>2, <1>3

PreparedInv ==
  /\ AckInv
  /\ QuorumInv
  /\ \A c \in Commits : \A i \in Index : i = log[c].ref => Held(i)

\* What the leader commits is, and stays, in the WAL of minPreparedFollowers
\* followers.
THEOREM PreparedQuorum == Spec => []CommittedIsPrepared
<1>1. Init => IInv /\ PreparedInv
  <2>1. SUFFICES ASSUME Init PROVE PreparedInv
    BY IInvInit
  <2>2. Commits = {}
    BY <2>1 DEF Init, Commits
  <2> QED
    BY <2>1, <2>2 DEF Init, PreparedInv, AckInv, QuorumInv
<1>2. IInv /\ PreparedInv /\ [Next]_vars => IInv' /\ PreparedInv'
  BY IInvNext, AckNext, QuorumNext, PreparedNext DEF PreparedInv
<1>3. IInv /\ PreparedInv => CommittedIsPrepared
  <2>1. SUFFICES ASSUME IInv, PreparedInv, NEW c \in Commits
                 PROVE  Cardinality({f \in Followers : log[c].ref \in wal[f]})
                          >= minPreparedFollowers
    BY DEF CommittedIsPrepared
  <2>2. log[c].ref \in Index
    BY <2>1 DEF IInv, TypeOK, Log, Commits
  <2> QED
    BY <2>1, <2>2 DEF PreparedInv, Held, Holders
<1> QED
  BY <1>1, <1>2, <1>3, PTL DEF Spec

-----------------------------------------------------------------------------
(***************************************************************************)
(* What Apply reports.                                                     *)
(***************************************************************************)
\* A rolled back call keeps its prepare log, a call that waits for its commit is the
\* one commitCycle executes, and what commitCycle executed stays executed.
Did(k) == \E j \in 1..Len(executed[Leader]) : executed[Leader][j] = k

Outcome(r) ==
  /\ apply[r].pc = "rolledback" =>
       apply[r].index \in DOMAIN log /\ log[apply[r].index] = PrepareLog(r)
  /\ apply[r].pc = "await" =>
       /\ cycle[Leader] = <<apply[r].commit>>
       /\ log[apply[r].commit].req = r
       /\ apply[r].commit \in DOMAIN log
  /\ apply[r].pc \in {"committing", "done"} => Did(apply[r].commit)

OutcomeInv == \A r \in Reqs : Outcome(r)

\* The call of r and what it relies on stay.
LEMMA OutcomeStays ==
  ASSUME NEW r \in Reqs, Outcome(r), SameLogs,
         apply'[r] = apply[r], cycle'[Leader] = cycle[Leader],
         executed'[Leader] = executed[Leader]
  PROVE  Outcome(r)'
BY DEF Outcome, Did, SameLogs

\* Every step keeps OutcomeInv.
LEMMA OutcomeNext ==
  ASSUME IInv, OutcomeInv, [Next]_vars, NEW r \in Reqs
  PROVE  Outcome(r)'
<1> USE DEF IInv
<1>a. SameLogs
  BY LogGrows
<1>b. TypeOK'
  BY IInvNext
<1>c. apply \in [Reqs -> ApplyCall] /\ apply' \in [Reqs -> ApplyCall]
  BY <1>b DEF TypeOK
<1>d. Outcome(r)
  BY DEF OutcomeInv
<1>1. CASE RPCNext \/ FollowerNext
  BY <1>1, <1>a, <1>d, LeaderFrame, OutcomeStays DEF SameLeader, SameNode
<1>2. CASE UNCHANGED vars
  BY <1>2, <1>a, <1>d, OutcomeStays DEF vars
<1>3. CASE CrashNext
  <2>0. PICK n \in Nodes : Crash(n) \/ ReadLog(n) \/ ReadEOF(n)
    BY <1>3 DEF CrashNext
  <2>1. CASE ReadLog(n) \/ ReadEOF(n)
    BY <2>1, <1>a, <1>d, ReadLogFact, ReadEOFFact, OutcomeStays
  <2>2. CASE Crash(n) /\ n # Leader
    <3>1. apply' = apply /\ executed' = executed /\ cycle'[Leader] = cycle[Leader]
      BY <2>2, CrashFact DEF Crash, Nodes
    <3> QED
      BY <1>a, <1>d, <3>1, OutcomeStays
  <2>3. CASE Crash(n) /\ n = Leader
    <3>1. /\ executed' = executed
          /\ apply'[r] = IF apply[r].pc \in Unfinished
                         THEN [apply[r] EXCEPT !.pc = "crashed"] ELSE apply[r]
      BY <2>3, CrashFact DEF Crash
    <3>2. CASE apply[r].pc \in Unfinished
      <4>1. apply'[r].pc = "crashed"
        BY <1>c, <3>1, <3>2 DEF ApplyCall
      <4> QED
        BY <4>1 DEF Outcome
    <3>3. CASE apply[r].pc \notin Unfinished
      <4>1. apply'[r] = apply[r] /\ apply[r].pc # "await"
        BY <3>1, <3>3 DEF Unfinished
      <4> QED
        BY <1>a, <1>d, <3>1, <4>1 DEF Outcome, Did, SameLogs
    <3> QED
      BY <3>2, <3>3
  <2> QED
    BY <2>0, <2>1, <2>2, <2>3
<1>4. CASE LeaderDoCommit
  <2>1. PICK k \in DOMAIN log : cycle[Leader] = <<k>>
    BY <1>4, SMTT(30) DEF LeaderDoCommit, TypeOK, Nodes
  <2>2. /\ executed'[Leader] = Append(executed[Leader], k)
        /\ apply' = [apply EXCEPT ![log[k].req].pc = IF @ = "await" THEN "committing" ELSE @]
    BY <1>4, <2>1, SMTT(30) DEF LeaderDoCommit, TypeOK, Nodes
  <2>3. Did(k)' /\ \A c : Did(c) => Did(c)'
    <3>1. executed[Leader] \in Seq(Index) /\ k \in Index
      BY DEF TypeOK, Nodes
    <3>2. /\ executed'[Leader][Len(executed[Leader]) + 1] = k
          /\ Len(executed'[Leader]) = Len(executed[Leader]) + 1
          /\ \A j \in 1..Len(executed[Leader]) : executed'[Leader][j] = executed[Leader][j]
      BY <2>2, <3>1, SMT
    <3> QED
      BY <3>1, <3>2, SMT DEF Did
  <2>4. CASE apply[r].pc = "await"
    <3>1. apply[r].commit = k /\ log[k].req = r
      BY <1>d, <2>1, <2>4, SMT DEF Outcome
    <3>2. apply'[r].pc = "committing" /\ apply'[r].commit = k
      BY <1>c, <2>2, <2>4, <3>1 DEF ApplyCall
    <3> QED
      BY <2>3, <3>2 DEF Outcome
  <2>5. CASE apply[r].pc # "await"
    <3>1. apply'[r] = apply[r]
      BY <1>c, <2>2, <2>5 DEF ApplyCall
    <3> QED
      BY <1>a, <1>d, <2>3, <2>5, <3>1 DEF Outcome, SameLogs
  <2> QED
    BY <2>4, <2>5
<1>5. ASSUME NEW q \in Reqs,
             \/ AllocPrepare(q) \/ LogPrepare(q) \/ PrepareOk(q)
             \/ PrepareFailed(q) \/ CommitTimeout(q) \/ ReturnCommitted(q)
      PROVE  Outcome(r)'
  <2>1. UNCHANGED <<cycle, executed>>
    BY <1>5
    DEF AllocPrepare, LogPrepare, PrepareOk, PrepareFailed, CommitTimeout, ReturnCommitted
  <2>2. CASE q # r
    <3>1. apply'[r] = apply[r]
      BY <1>5, <1>b, <1>c, <2>2, MoveFacts DEF Moves, AllocPrepare
    <3> QED
      BY <1>a, <1>d, <2>1, <3>1, OutcomeStays
  <2>3. CASE q = r /\ PrepareFailed(r)
    <3>1. apply'[r].pc = "rolledback" /\ apply'[r].index = apply[r].index
      BY <1>b, <2>3, MoveFacts DEF Moves
    <3>2. apply[r].index \in DOMAIN log /\ log[apply[r].index] = PrepareLog(r)
      BY <2>3 DEF PrepareFailed, AllocInv, CallInv
    <3> QED
      BY <1>a, <3>1, <3>2 DEF Outcome, SameLogs
  <2>4. CASE q = r /\ ReturnCommitted(r)
    <3>1. apply'[r].pc = "done" /\ apply'[r].commit = apply[r].commit
          /\ apply[r].pc = "committing"
      BY <1>c, <2>4 DEF ReturnCommitted, ApplyCall
    <3> QED
      BY <1>d, <2>1, <3>1 DEF Outcome, Did
  <2>5. CASE q = r /\ (AllocPrepare(r) \/ LogPrepare(r) \/ PrepareOk(r) \/ CommitTimeout(r))
    <3>1. apply'[r].pc \in {"logging", "preparing", "enqueue", "timeout"}
      BY <1>c, <2>5, SMT DEF AllocPrepare, LogPrepare, PrepareOk, CommitTimeout, ApplyCall
    <3> QED
      BY <3>1 DEF Outcome
  <2> QED
    BY <1>5, <2>2, <2>3, <2>4, <2>5
<1>6. ASSUME NEW q \in Reqs, LeaderLogCommit(q)
      PROVE  Outcome(r)'
  <2>0. PICK k \in Index : k = nextIndex[Leader]
    BY <1>6 DEF LeaderLogCommit
  <2>1. /\ cycle[Leader] = <<>> /\ cycle'[Leader] = <<k>> /\ executed' = executed
        /\ apply' = [apply EXCEPT ![q].pc = "await", ![q].commit = k]
    BY <1>6, <2>0 DEF LeaderLogCommit, TypeOK, Nodes
  <2>2. k \in DOMAIN log' /\ log'[k].req = q
    <3>1. k \in DOMAIN log' /\ log'[k] = CommitLog(q, apply[q].index, lastCommit[Leader])
      BY <1>6, <2>0, LeaderLogCommitFact
    <3> QED
      BY <3>1, SMT DEF CommitLog
  <2>3. CASE q = r
    <3>1. apply'[r].pc = "await" /\ apply'[r].commit = k
      BY <1>c, <2>1, <2>3 DEF ApplyCall
    <3> QED
      BY <2>1, <2>2, <2>3, <3>1 DEF Outcome
  <2>4. CASE q # r
    <3>1. apply'[r] = apply[r]
      BY <1>c, <2>1, <2>4
    <3>2. apply[r].pc # "await"
      BY <1>d, <2>1, BusyFact DEF Outcome
    <3> QED
      BY <1>a, <1>d, <2>1, <3>1, <3>2 DEF Outcome, SameLogs, Did
  <2> QED
    BY <2>3, <2>4
<1> QED
  BY <1>1, <1>2, <1>3, <1>4, <1>5, <1>6 DEF Next, LeaderNext

\* What Apply reports is true: a rolled back request is never committed, and the
\* leader has executed a successful one.
THEOREM Reports == Spec => []OutcomeIsTrue
<1>1. Init => IInv /\ OutcomeInv
  BY IInvInit, SMT DEF Init, OutcomeInv, Outcome
<1>2. IInv /\ OutcomeInv /\ [Next]_vars => IInv' /\ OutcomeInv'
  BY IInvNext, OutcomeNext DEF OutcomeInv
<1>3. IInv /\ OutcomeInv => OutcomeIsTrue
  <2> SUFFICES ASSUME IInv, OutcomeInv, NEW r \in Reqs
               PROVE  /\ apply[r].pc = "rolledback" => ~ Decided(apply[r].index, "commit")
                      /\ apply[r].pc = "done" => Did(apply[r].commit)
    BY DEF OutcomeIsTrue, Did
  <2>1. ASSUME apply[r].pc = "rolledback", NEW k \in DOMAIN log,
               log[k].type = "commit", log[k].ref = apply[r].index
        PROVE  FALSE
    <3>1. log[apply[r].index].req = r
      <4>1. log[apply[r].index] = PrepareLog(r)
        BY <2>1 DEF OutcomeInv, Outcome
      <4> QED
        BY <4>1, SMT DEF PrepareLog
    <3>2. Owned(k)
      BY <2>1 DEF IInv, DecisionInv
    <3>3. log[k].req = r
      BY <2>1, <3>1, <3>2 DEF Owned
    <3> QED
      BY <2>1, <3>2, <3>3 DEF Owned
  <2> QED
    BY <2>1 DEF Decided, OutcomeInv, Outcome
<1> QED
  BY <1>1, <1>2, <1>3, PTL DEF Spec

-----------------------------------------------------------------------------
(***************************************************************************)
(* Commits that are logged and not executed.                               *)
(***************************************************************************)
\* A node has executed its commit logs but for the one in its commitCycle and one
\* for each crash.
Busy(n) == IF cycle[n] = <<>> THEN 0 ELSE 1

Skips(n) == Cardinality(CommitsOf(n)) <= Len(executed[n]) + crashes[n] + Busy(n)

SkipInv == \A n \in Nodes : Skips(n)

\* The commits of a node can be counted.
LEMMA SkipTypes ==
  ASSUME TypeOK, NEW n \in Nodes
  PROVE  /\ IsFiniteSet(CommitsOf(n)) /\ Cardinality(CommitsOf(n)) \in Nat
         /\ Len(executed[n]) \in Nat /\ crashes[n] \in Nat /\ Busy(n) \in {0, 1}
<1>1. IsFiniteSet(Index)
  BY KayakAssumption, FS_Interval, SMT DEF Index
<1>2. CommitsOf(n) \subseteq Index
  BY DEF CommitsOf, Commits, TypeOK
<1>3. IsFiniteSet(CommitsOf(n)) /\ Cardinality(CommitsOf(n)) \in Nat
  BY <1>1, <1>2, FS_Subset, FS_CardinalityType
<1>4. executed[n] \in Seq(Index) /\ crashes[n] \in 0..MaxCrashes
  BY DEF TypeOK
<1> QED
  BY <1>3, <1>4, KayakAssumption, SMTT(30) DEF Busy

\* The steps that log and execute nothing, crashes included.
LEMMA SkipStays ==
  ASSUME TypeOK, TypeOK', NEW n \in Nodes, Skips(n),
         CommitsOf(n)' = CommitsOf(n), executed'[n] = executed[n],
         \/ cycle'[n] = cycle[n] /\ crashes'[n] = crashes[n]
         \/ cycle'[n] = <<>> /\ crashes'[n] = crashes[n] + 1
  PROVE  Skips(n)'
<1>1. crashes[n] \in Nat /\ Len(executed[n]) \in Nat /\ Busy(n) \in {0, 1}
      /\ Cardinality(CommitsOf(n)) \in Nat
  BY SkipTypes
<1>2. \/ Busy(n)' = Busy(n) /\ crashes'[n] = crashes[n]
      \/ Busy(n)' = 0 /\ crashes'[n] = crashes[n] + 1
  BY DEF Busy
<1>3. Cardinality(CommitsOf(n)') <= Len(executed'[n]) + crashes'[n] + Busy(n)'
  BY <1>1, <1>2, SMT DEF Skips
<1> QED
  BY <1>3 DEF Skips

\* A commit is logged while commitCycle is idle.
LEMMA SkipLogged ==
  ASSUME TypeOK, TypeOK', NEW n \in Nodes, Skips(n), NEW k,
         CommitsOf(n)' = CommitsOf(n) \cup {k}, executed'[n] = executed[n],
         cycle[n] = <<>>, cycle'[n] = <<k>>, crashes'[n] = crashes[n]
  PROVE  Skips(n)'
<1>1. IsFiniteSet(CommitsOf(n)) /\ Cardinality(CommitsOf(n)) \in Nat
      /\ crashes[n] \in Nat /\ Len(executed[n]) \in Nat
  BY SkipTypes
<1>2. \/ Cardinality(CommitsOf(n) \cup {k}) = Cardinality(CommitsOf(n))
      \/ Cardinality(CommitsOf(n) \cup {k}) = Cardinality(CommitsOf(n)) + 1
  BY <1>1, FS_AddElement
<1>3. Busy(n) = 0 /\ Busy(n)' = 1
  BY BusyFact DEF Busy
<1>4. Cardinality(CommitsOf(n)') <= Len(executed'[n]) + crashes'[n] + Busy(n)'
  BY <1>1, <1>2, <1>3, SMTT(30) DEF Skips
<1> QED
  BY <1>4 DEF Skips

\* commitCycle executes it.
LEMMA SkipExecuted ==
  ASSUME TypeOK, TypeOK', NEW n \in Nodes, Skips(n), NEW k \in Index,
         CommitsOf(n)' = CommitsOf(n), executed'[n] = Append(executed[n], k),
         cycle[n] = <<k>>, cycle'[n] = <<>>, crashes'[n] = crashes[n]
  PROVE  Skips(n)'
<1>1. Cardinality(CommitsOf(n)) \in Nat /\ crashes[n] \in Nat /\ Len(executed[n]) \in Nat
  BY SkipTypes
<1>2. Busy(n) = 1 /\ Busy(n)' = 0
  BY BusyFact DEF Busy
<1>3. Len(executed'[n]) = Len(executed[n]) + 1
  BY SMT DEF TypeOK
<1>4. Cardinality(CommitsOf(n)') <= Len(executed'[n]) + crashes'[n] + Busy(n)'
  BY <1>1, <1>2, <1>3, SMTT(30) DEF Skips
<1> QED
  BY <1>4 DEF Skips

\* Every step keeps SkipInv.
LEMMA SkipNext ==
  ASSUME IInv, SkipInv, [Next]_vars, NEW n \in Nodes
  PROVE  Skips(n)'
<1> USE DEF IInv
<1>a. TypeOK'
  BY IInvNext
<1>b. Skips(n)
  BY DEF SkipInv
<1>c. Followers \subseteq Nodes /\ Leader \in Nodes /\ (n # Leader => n \in Followers)
      /\ Leader \notin Followers
  BY KayakAssumption DEF Nodes
<1>d. UNCHANGED <<log, wal>> => CommitsOf(n)' = CommitsOf(n)
  BY DEF CommitsOf, Commits, Wal
<1>e. Commits' = Commits => CommitsOf(Leader)' = CommitsOf(Leader)
  <2>1. CommitsOf(Leader) = Commits /\ CommitsOf(Leader)' = Commits'
    BY DEF CommitsOf, Commits, Wal
  <2> QED
    BY <2>1
<1>1. CASE UNCHANGED vars
  BY <1>1, <1>a, <1>b, <1>d, SkipStays DEF vars
<1>2. CASE RPCNext
  <2>1. UNCHANGED <<log, wal, cycle, executed, crashes>>
    BY <1>2 DEF RPCNext, Lose, Disconnect, Fetch, walVars
  <2> QED
    BY <2>1, <1>a, <1>b, <1>d, SkipStays
<1>3. CASE CrashNext
  <2>0. PICK m \in Nodes : Crash(m) \/ ReadLog(m) \/ ReadEOF(m)
    BY <1>3 DEF CrashNext
  <2>1. CASE ReadLog(m) \/ ReadEOF(m)
    <3>1. UNCHANGED <<log, wal, cycle, executed, crashes>>
      BY <2>1 DEF ReadLog, ReadEOF, walVars
    <3> QED
      BY <3>1, <1>a, <1>b, <1>d, SkipStays
  <2>2. CASE Crash(m)
    <3>1. UNCHANGED <<log, wal, executed>> /\ cycle'[m] = <<>>
          /\ (m # n => cycle'[n] = cycle[n])
      BY <2>2, CrashFact
    <3>2. crashes'[m] = crashes[m] + 1 /\ (m # n => crashes'[n] = crashes[n])
      BY <2>2 DEF Crash, TypeOK
    <3> QED
      BY <3>1, <3>2, <1>a, <1>b, <1>d, SkipStays
  <2> QED
    BY <2>0, <2>1, <2>2
<1>4. CASE LeaderNext
  <2>1. CASE n # Leader
    <3>1. wal'[n] = wal[n] /\ crashes' = crashes /\ SameNode(n)
      BY <1>4, <1>c, <2>1, FollowerFrame DEF SameFollowers
    <3>2. CommitsOf(n)' = CommitsOf(n)
      BY <1>c, <2>1, <3>1, CommitsStay
    <3> QED
      BY <3>1, <3>2, <1>a, <1>b, SkipStays DEF SameNode
  <2>2. CASE n = Leader
    <3>1. crashes' = crashes
      BY <1>4, FollowerFrame DEF SameFollowers
    <3>2. ASSUME NEW r \in Reqs, LeaderLogCommit(r) PROVE Skips(n)'
      <4>0. PICK k \in Index : k = nextIndex[Leader]
        BY <3>2 DEF LeaderLogCommit
      <4>1. cycle[n] = <<>> /\ cycle'[n] = <<k>> /\ executed' = executed
        BY <2>2, <3>2, <4>0, <1>c DEF LeaderLogCommit, TypeOK
      <4>2. Commits' = Commits \cup {k}
        BY <3>2, <4>0, LeaderLogCommitFact
      <4>3. CommitsOf(n) = Commits /\ CommitsOf(n)' = Commits'
        BY <2>2 DEF CommitsOf, Commits, Wal
      <4> QED
        BY <3>1, <4>1, <4>2, <4>3, <1>a, <1>b, SkipLogged
    <3>3. CASE LeaderDoCommit
      <4>1. PICK k \in DOMAIN log : cycle[Leader] = <<k>>
        BY <3>3, <1>c, SMTT(30) DEF LeaderDoCommit, TypeOK
      <4>2. /\ executed'[n] = Append(executed[n], k) /\ cycle'[n] = <<>>
            /\ UNCHANGED <<log, wal>>
        BY <2>2, <3>3, <4>1, <1>c, SMTT(30) DEF LeaderDoCommit, TypeOK, walVars
      <4>3. k \in Index
        BY DEF TypeOK
      <4> QED
        BY <2>2, <3>1, <4>1, <4>2, <4>3, <1>a, <1>b, <1>d, SkipExecuted
    <3>4. ASSUME NEW r \in Reqs,
                 \/ AllocPrepare(r) \/ LogPrepare(r) \/ PrepareOk(r)
                 \/ PrepareFailed(r) \/ CommitTimeout(r) \/ ReturnCommitted(r)
          PROVE  Skips(n)'
      <4>1. UNCHANGED <<cycle, executed>>
        BY <3>4 DEF AllocPrepare, LogPrepare, PrepareOk, PrepareFailed, CommitTimeout,
                    ReturnCommitted
      <4>2. CASE LogPrepare(r) \/ PrepareFailed(r)
        BY <2>2, <3>1, <4>1, <4>2, <1>a, <1>b, <1>e, LogPrepareFact, PrepareFailedFact, SkipStays
      <4>3. CASE AllocPrepare(r) \/ PrepareOk(r) \/ CommitTimeout(r) \/ ReturnCommitted(r)
        <5>1. UNCHANGED <<log, wal>>
          BY <4>3 DEF AllocPrepare, PrepareOk, CommitTimeout, ReturnCommitted, walVars
        <5> QED
          BY <3>1, <4>1, <5>1, <1>a, <1>b, <1>d, SkipStays
      <4> QED
        BY <3>4, <4>2, <4>3
    <3> QED
      BY <1>4, <3>2, <3>3, <3>4 DEF LeaderNext
  <2> QED
    BY <2>1, <2>2
<1>5. CASE FollowerNext
  <2>0. PICK f \in Followers, h \in Calls : FollowerStep(f, h)
    BY <1>5 DEF FollowerNext, FollowerStep
  <2>1. UNCHANGED <<log, crashes>> /\ SameNode(Leader)
    BY <1>5, LeaderFrame DEF SameLeader
  <2>2. CASE n = Leader
    <3>1. CommitsOf(n)' = CommitsOf(n)
      BY <1>e, <2>1, <2>2 DEF Commits
    <3> QED
      BY <1>a, <1>b, <2>1, <2>2, <3>1, SkipStays DEF SameNode
  <2>3. CASE n \in Followers /\ n # f
    <3>1. wal'[n] = wal[n] /\ SameNode(n)
      BY <2>0, <2>3, OthersStay
    <3>2. CommitsOf(n)' = CommitsOf(n)
      BY <2>3, <3>1, CommitsStay
    <3> QED
      BY <1>a, <1>b, <2>1, <3>1, <3>2, SkipStays DEF SameNode
  <2>4. CASE n = f /\ FollowerLogCommit(f, h) /\ cycle' # cycle
    <3>1. /\ h[2] \in Commits /\ wal'[f] = wal[f] \cup {h[2]} /\ cycle'[f] = <<h[2]>>
          /\ executed' = executed /\ cycle[f] = <<>>
      BY <2>4, FollowerLogCommitFact DEF FollowerLogCommit
    <3>2. CommitsOf(n)' = CommitsOf(n) \cup {h[2]}
      BY <1>c, <2>1, <2>4, <3>1 DEF CommitsOf, Commits, Wal
    <3> QED
      BY <1>a, <1>b, <2>1, <2>4, <3>1, <3>2, SkipLogged, SMTT(30)
  <2>5. CASE n = f /\ FollowerDoCommit(f, h)
    <3>1. h[2] \in Index /\ cycle[f] = <<h[2]>>
      BY <2>5, CallsFact DEF FollowerDoCommit, At, HandlerInv, Serves
    <3>2. /\ executed'[f] = Append(executed[f], h[2]) /\ cycle'[f] = <<>>
          /\ UNCHANGED <<log, wal>>
      BY <1>c, <2>5 DEF FollowerDoCommit, TypeOK, walVars
    <3> QED
      BY <1>a, <1>b, <1>d, <2>1, <2>5, <3>1, <3>2, SkipExecuted
  <2>6. CASE n = f /\ ~ FollowerDoCommit(f, h) /\ ~ (FollowerLogCommit(f, h) /\ cycle' # cycle)
    <3>1. Stays(f)
      BY <2>0, <2>6, QuietStays
    <3> QED
      BY <1>a, <1>b, <2>1, <2>6, <3>1, SkipStays DEF Stays
  <2> QED
    BY <1>c, <2>2, <2>3, <2>4, <2>5, <2>6
<1> QED
  BY <1>1, <1>2, <1>3, <1>4, <1>5 DEF Next

\* A commit log that a node holds and never executes was cut off by a crash, and
\* there is at most one for each crash.
THEOREM SkippedByCrash == Spec => []SkippedOnlyByCrash
<1>1. Init => IInv /\ SkipInv
  <2> SUFFICES ASSUME Init PROVE SkipInv
    BY IInvInit
  <2>1. ASSUME NEW n \in Nodes PROVE Skips(n)
    <3>1. CommitsOf(n) = {} /\ executed[n] = <<>> /\ crashes[n] = 0 /\ cycle[n] = <<>>
      BY DEF Init, CommitsOf, Commits
    <3> QED
      BY <3>1, FS_EmptySet, SMT DEF Skips, Busy
  <2> QED
    BY <2>1 DEF SkipInv
<1>2. IInv /\ SkipInv /\ [Next]_vars => IInv' /\ SkipInv'
  BY IInvNext, SkipNext DEF SkipInv
<1>3. IInv /\ SkipInv => SkippedOnlyByCrash
  <2> SUFFICES ASSUME IInv, SkipInv, NEW n \in Nodes, cycle[n] = <<>>
               PROVE  Cardinality(CommitsOf(n)) - Len(executed[n]) <= crashes[n]
    BY DEF SkippedOnlyByCrash
  <2>1. Skips(n) /\ Busy(n) = 0
    BY DEF SkipInv, Busy
  <2> QED
    BY <2>1, SkipTypes, SMT DEF IInv, Skips
<1> QED
  BY <1>1, <1>2, <1>3, PTL DEF Spec

-----------------------------------------------------------------------------
(***************************************************************************)
(* Kayak implements CommitOrder.                                           *)
(***************************************************************************)
Chain   == [c \in Commits |-> log[c].req]
Learned == [f \in Followers |-> wal[f] \cap Commits]

\* leaderDoCommit extends the order at its end, with a request it has not yet.
LEMMA Extends ==
  ASSUME IInv, [Next]_vars, NEW r \in Reqs, LeaderLogCommit(r)
  PROVE  \E i \in Index : Order!Extend(r, i)
<1> USE DEF IInv
<1>0. PICK k \in Index : k = nextIndex[Leader]
  BY LeaderLogCommitFact
<1>1. /\ Commits' = Commits \cup {k}
      /\ log'[k] = CommitLog(r, apply[r].index, lastCommit[Leader])
      /\ \A i \in DOMAIN log : i < k /\ log'[i] = log[i]
      /\ k \notin DOMAIN log
  BY <1>0, LeaderLogCommitFact, SMTT(30)
<1>2. log'[k].req = r
  BY <1>1, SMT DEF CommitLog
<1>3. \A j \in Commits : j < k /\ log[j].req # r
  BY <1>1 DEF Commits, DecisionInv, Owned, LeaderLogCommit
<1>4. UNCHANGED wal
  BY DEF LeaderLogCommit
<1>5. DOMAIN Chain = Commits /\ \A j \in Commits : Chain[j] = log[j].req
  BY DEF Chain
<1>6. Chain' = [j \in Commits \cup {k} |-> IF j = k THEN r ELSE Chain[j]]
  <2>1. \A j \in Commits \cup {k} : log'[j].req = IF j = k THEN r ELSE Chain[j]
    BY <1>1, <1>2, <1>5 DEF Commits
  <2> QED
    BY <1>1, <2>1 DEF Chain
<1>7. Learned' = Learned
  <2>1. \A f \in Followers : wal[f] \cap Commits' = wal[f] \cap Commits
    BY <1>1, NatFacts
  <2> QED
    BY <1>4, <2>1 DEF Learned
<1>8. Order!Extend(r, k)
  BY <1>3, <1>5, <1>6, <1>7 DEF Order!Extend, Chain, Learned
<1> QED
  BY <1>8

\* followerDoCommit lets the follower learn the first commit it lacks.
LEMMA Learns ==
  ASSUME IInv, [Next]_vars, NEW f \in Followers, NEW h \in Calls,
         FollowerLogCommit(f, h), cycle' # cycle
  PROVE  \E i \in Commits : Order!Learn(f, i)
<1> USE DEF IInv
<1>0. PICK k \in Index : k = h[2]
  BY CallsFact
<1>1. /\ UNCHANGED log
      /\ k \in Commits
      /\ wal' = [wal EXCEPT ![f] = @ \cup {k}]
      /\ k \notin wal[f]
  BY <1>0, FollowerLogCommitFact DEF FollowerLogCommit
<1>2. Commits' = Commits /\ Chain' = Chain
  BY <1>1 DEF Commits, Chain
<1>3. wal \in [Followers -> SUBSET DOMAIN log] /\ wal'[f] = wal[f] \cup {k}
  BY <1>1 DEF TypeOK
<1>4. \A d \in Commits : d < k => d \in wal[f]
  <2>1. CommitPrefix'
    BY IInvNext
  <2>2. \A d \in Commits : d < k => d \in wal'[f]
    BY <1>1, <1>2, <1>3, <2>1 DEF CommitPrefix
  <2> QED
    BY <1>3, <2>2, IndexFact, SMTT(30)
<1>5. Learned' = [Learned EXCEPT ![f] = @ \cup {k}]
  BY <1>1, <1>2, <1>3 DEF Learned
<1>6. DOMAIN Chain = Commits /\ Learned[f] = wal[f] \cap Commits
  BY DEF Chain, Learned
<1>7. Order!Learn(f, k)
  BY <1>1, <1>2, <1>4, <1>5, <1>6 DEF Order!Learn, Chain, Learned
<1> QED
  BY <1>1, <1>7

\* Every other step changes neither the order nor what followers know of it.
LEMMA Stutters ==
  ASSUME IInv, [Next]_vars, ~ \E r \in Reqs : LeaderLogCommit(r),
         ~ \E f \in Followers, h \in Calls : FollowerLogCommit(f, h) /\ cycle' # cycle
  PROVE  Chain' = Chain /\ Learned' = Learned
<1> USE DEF IInv
<1>1. Commits' = Commits
  <2>1. CASE UNCHANGED log
    BY <2>1 DEF Commits
  <2> QED
    BY <2>1, LogFrame, LogPrepareFact, PrepareFailedFact
<1>2. Chain' = Chain
  BY <1>1, LogGrows DEF SameLogs, Chain, Commits
<1>3. ASSUME NEW f \in Followers PROVE CommitsOf(f)' = CommitsOf(f)
  <2>1. CASE wal'[f] = wal[f]
    BY <2>1, CommitsStay
  <2>2. CASE FollowerNext
    <3>1. PICK g \in Followers, h \in Calls : FollowerStep(g, h)
      BY <2>2 DEF FollowerNext, FollowerStep
    <3>2. CASE g # f
      BY <2>1, <3>1, <3>2, OthersStay
    <3>3. CASE g = f /\ ~ FollowerDoCommit(f, h)
      BY <3>1, <3>3, QuietStays DEF Stays
    <3>4. CASE g = f /\ FollowerDoCommit(f, h)
      BY <2>1, <3>4 DEF FollowerDoCommit, walVars
    <3> QED
      BY <3>2, <3>3, <3>4
  <2>3. CASE LeaderNext \/ RPCNext \/ CrashNext \/ UNCHANGED vars
    <3>1. UNCHANGED wal
      BY <2>3, FollowerFrame, CrashFact, ReadLogFact, ReadEOFFact
      DEF SameFollowers, RPCNext, Lose, Disconnect, Fetch, walVars, CrashNext, vars
    <3> QED
      BY <2>1, <3>1
  <2> QED
    BY <2>2, <2>3 DEF Next
<1>4. \A f \in Followers : CommitsOf(f) = wal[f] \cap Commits
                           /\ CommitsOf(f)' = wal'[f] \cap Commits'
  BY KayakAssumption DEF CommitsOf, Wal
<1>5. Learned' = Learned
  BY <1>3, <1>4 DEF Learned
<1> QED
  BY <1>2, <1>5

\* Seen through its commit logs, the runtime is the abstract commit order: the
\* leader appends, a follower learns the commits one by one, nothing is undone.
THEOREM Refinement == Spec => ImplementsOrder
<1>1. Init => Order!Init
  <2>1. SUFFICES ASSUME Init PROVE Order!Init
    OBVIOUS
  <2>2. Commits = {} /\ \A f \in Followers : wal[f] = {}
    BY <2>1 DEF Init, Commits
  <2>3. [c \in Commits |-> log[c].req] = [i \in {} |-> {}]
    BY <2>2
  <2>4. [f \in Followers |-> wal[f] \cap Commits] = [f \in Followers |-> {}]
    BY <2>2
  <2> QED
    BY <2>3, <2>4 DEF Order!Init
<1>2. IInv /\ [Next]_vars => [Order!Next]_<<Chain, Learned>>
  <2>1. SUFFICES ASSUME IInv, [Next]_vars PROVE [Order!Next]_<<Chain, Learned>>
    OBVIOUS
  <2>2. ASSUME NEW r \in Reqs, LeaderLogCommit(r) PROVE Order!Next
    BY <2>1, <2>2, Extends DEF Order!Next
  <2>3. ASSUME NEW f \in Followers, NEW h \in Calls, FollowerLogCommit(f, h), cycle' # cycle
        PROVE  Order!Next
    <3>1. PICK i \in Commits : Order!Learn(f, i)
      BY <2>1, <2>3, Learns
    <3>2. DOMAIN Chain = Commits
      BY DEF Chain
    <3> QED
      BY <3>1, <3>2 DEF Order!Next, Chain
  <2> QED
    BY <2>1, <2>2, <2>3, Stutters
<1>3. [Order!Next]_<<Chain, Learned>> =>
        [Order!Next]_<<[c \in Commits |-> log[c].req], [f \in Followers |-> wal[f] \cap Commits]>>
  BY DEF Chain, Learned
<1> QED
  BY <1>1, <1>2, <1>3, Inductive, PTL DEF Spec, ImplementsOrder, Order!Spec
=============================================================================
