------------------------------ MODULE TwoPC ------------------------------
(***************************************************************************)
(* Two-phase commit of a write batch on several storages: the coordinator  *)
(* (twopc.Coordinator.Put) and its workers (storage.Storage on SQLite).    *)
(*                                                                         *)
(* Calls of Put run concurrently on shared storages. Each has a context    *)
(* with a timeout, cancelled when Put returns; database/sql rolls back a   *)
(* transaction whose context is done. The queries of a batch run only in   *)
(* the commit phase and may fail there on one storage and not on another.  *)
(***************************************************************************)
EXTENDS Integers, Sequences, FiniteSets

CONSTANTS Puts,      \* the calls of Put
          Storages,
          Workers,   \* Workers[p]: the workers of call p
          TxID,      \* TxID[p]: connection, sequence number and time of its batch
          After,     \* After[p]: the call that p repeats once it has returned
          Hooked,    \* the calls of a coordinator with hooks
          Workloads, \* bound: sets of calls that run together
          MaxWrites, \* bound: writes beside the batches
          Direct, NoPut

ASSUME TwoPCAssumption ==
  /\ Workers \in [Puts -> SUBSET Storages]
  /\ NoPut \notin Puts /\ Direct \notin Puts /\ Hooked \subseteq Puts
  /\ After \in [Puts -> Puts \cup {NoPut}]
  /\ Workloads \subseteq SUBSET Puts /\ MaxWrites \in Nat
  \* batches alive at the same time have different ids
  /\ \A p, q \in Puts : (p # q /\ TxID[p] = TxID[q]) => After[p] = q \/ After[q] = p

VARIABLES
  load,    \* the calls of this behaviour
  pc,      \* where a call of Put is
  reply,   \* reply[p][s]: the answer of worker s in the phase p is in
  ctx,     \* the context of the call is still alive
  err,     \* the error Put returns
  st,      \* a storage: its transaction, the call that began it, the id it carries
           \* (kept when the transaction ends) and whether it is inside Commit
  writes,
  decided, seen, data,   \* what BatchOrder is about
  failed   \* history: failed[s] is the batches whose COMMIT SQLite failed on s

vars == <<load, pc, reply, ctx, err, st, writes, decided, seen, data, failed>>

None == [s \in Storages |-> "none"]
NoID == "noid"
Fresh == [tx |-> "none", by |-> NoPut, id |-> NoID, exec |-> FALSE]

Init ==
  /\ load \in Workloads
  /\ pc = [p \in Puts |-> "idle"]
  /\ reply = [p \in Puts |-> None]
  /\ ctx = [p \in Puts |-> TRUE]
  /\ err = [p \in Puts |-> FALSE]
  /\ st = [s \in Storages |-> Fresh]
  /\ writes = 0
  /\ decided = <<>>
  /\ seen = [s \in Storages |-> {}]
  /\ data = [s \in Storages |-> <<>>]
  /\ failed = [s \in Storages |-> {}]

\* The outcomes of a hook: nil when there is none.
Hook(p) == IF p \in Hooked THEN BOOLEAN ELSE {TRUE}

Answered(p) == \A s \in Workers[p] : reply[p][s] # "none"
AllAgree(p) == \A s \in Workers[p] : reply[p][s] = "ok"
Answer(p, s, ok) == reply' = [reply EXCEPT ![p][s] = IF ok THEN "ok" ELSE "err"]

--------------------------------------------------------------------------
(* storage.Storage. s.Mutex is held inside a method: `exec' is the state    *)
(* between executing the queries of a batch and committing them.            *)

Unlocked(s) == ~st[s].exec

\* s.tx = nil, s.queries = nil
EndTx(s) == st' = [st EXCEPT ![s].tx = "none", ![s].by = NoPut, ![s].exec = FALSE]

\* Mutant: a storage busy with another batch makes the caller wait.
PrepareWaits(p, s) ==
  /\ pc[p] = "prepare" /\ reply[p][s] = "none" /\ s \in Workers[p] /\ Unlocked(s)
  /\ st[s].tx = "none" \/ st[s].id = TxID[p]
  /\ IF st[s].tx # "none" THEN Answer(p, s, TRUE) /\ UNCHANGED st
     ELSE /\ Answer(p, s, ctx[p])
          /\ IF ctx[p]
             THEN st' = [st EXCEPT ![s] = [tx |-> "open", by |-> p, id |-> TxID[p],
                                           exec |-> FALSE]]
             ELSE UNCHANGED st
  /\ UNCHANGED <<load, pc, ctx, err, writes, decided, seen, data, failed>>

\* Storage.Prepare.
Prepare(p, s) ==
  /\ pc[p] = "prepare" /\ reply[p][s] = "none" /\ s \in Workers[p] /\ Unlocked(s)
  /\ IF st[s].tx # "none"
     THEN Answer(p, s, st[s].id = TxID[p]) /\ UNCHANGED st
     ELSE /\ Answer(p, s, ctx[p])
          /\ IF ctx[p]
             THEN st' = [st EXCEPT ![s] = [tx |-> "open", by |-> p, id |-> TxID[p],
                                           exec |-> FALSE]]
             ELSE UNCHANGED st
  /\ UNCHANGED <<load, pc, ctx, err, writes, decided, seen, data, failed>>

\* Storage.Commit, to the end of the queries: one that fails, also because the
\* context is done, rolls back.
CommitExec(p, s) ==
  /\ pc[p] = "commit" /\ reply[p][s] = "none" /\ s \in Workers[p] /\ Unlocked(s)
  /\ \/ /\ st[s].tx # "open" \/ st[s].id # TxID[p] \/ ~ctx[p]
        /\ Answer(p, s, FALSE)
        /\ IF st[s].tx # "none" /\ st[s].id = TxID[p]
           THEN EndTx(s) /\ seen' = [seen EXCEPT ![s] = @ \cup {p}]
           ELSE UNCHANGED <<load, st, seen>>
     \/ /\ st[s].tx = "open" /\ st[s].id = TxID[p] /\ ctx[p]
        /\ \/ /\ st' = [st EXCEPT ![s].exec = TRUE] /\ UNCHANGED <<load, reply, seen>>
           \/ /\ Answer(p, s, FALSE) /\ EndTx(s)
              /\ seen' = [seen EXCEPT ![s] = @ \cup {p}]
  /\ UNCHANGED <<load, pc, ctx, err, writes, decided, data, failed>>

\* ... and the commit of the SQLite transaction, whose error is not looked at:
\* SQLite may fail it (a full disk, a locked file), which rolls back, and it is an
\* error when the context has ended the transaction.
CommitTx(p, s) ==
  /\ pc[p] = "commit" /\ st[s].exec /\ st[s].by = p
  /\ Answer(p, s, TRUE) /\ EndTx(s)
  /\ seen' = [seen EXCEPT ![s] = @ \cup {p}]
  /\ \/ /\ st[s].tx = "open"
        /\ data' = [data EXCEPT ![s] = Append(@, p)] /\ UNCHANGED failed
     \/ /\ st[s].tx = "open"
        /\ failed' = [failed EXCEPT ![s] = @ \cup {p}] /\ UNCHANGED data
     \/ st[s].tx # "open" /\ UNCHANGED <<data, failed>>
  /\ UNCHANGED <<load, pc, ctx, err, writes, decided>>

\* Mutant: the id of the batch is not compared.
RollbackAny(p, s) ==
  /\ pc[p] = "rollback" /\ reply[p][s] = "none" /\ s \in Workers[p] /\ Unlocked(s)
  /\ Answer(p, s, TRUE)
  /\ IF st[s].tx # "none" THEN EndTx(s) ELSE UNCHANGED st
  /\ UNCHANGED <<load, pc, ctx, err, writes, decided, seen, data, failed>>

\* Storage.Rollback.
Rollback(p, s) ==
  /\ pc[p] = "rollback" /\ reply[p][s] = "none" /\ s \in Workers[p] /\ Unlocked(s)
  /\ Answer(p, s, st[s].id = TxID[p])
  /\ IF st[s].tx # "none" /\ st[s].id = TxID[p] THEN EndTx(s) ELSE UNCHANGED st
  /\ UNCHANGED <<load, pc, ctx, err, writes, decided, seen, data, failed>>

\* Storage.Exec: a transaction of its own on another connection. SQLite refuses it
\* while a batch that has executed holds the write lock.
Exec(s) ==
  /\ writes < MaxWrites
  /\ ~(st[s].exec /\ st[s].tx = "open")
  /\ writes' = writes + 1
  /\ data' = [data EXCEPT ![s] = Append(@, Direct)]
  /\ UNCHANGED <<load, pc, reply, ctx, err, st, decided, seen, failed>>

--------------------------------------------------------------------------
(* twopc.Coordinator *)

\* database/sql rolls back the transactions begun with the context of p.
Cancelled(p) ==
  [s \in Storages |-> IF st[s].by = p /\ st[s].tx = "open"
                      THEN [st[s] EXCEPT !.tx = "gone"] ELSE st[s]]

\* The timeout of the context.
Expire(p) ==
  /\ pc[p] \in {"prepare", "commit", "rollback"} /\ ctx[p]
  /\ ctx' = [ctx EXCEPT ![p] = FALSE]
  /\ st' = Cancelled(p)
  /\ UNCHANGED <<load, pc, reply, err, writes, decided, seen, data, failed>>

\* Put, up to the calls of the workers' Prepare.
Put(p) ==
  /\ pc[p] = "idle" /\ p \in load
  /\ After[p] # NoPut => pc[After[p]] = "returned" /\ err[After[p]]
  /\ \E ok \in Hook(p) :
       /\ pc' = [pc EXCEPT ![p] = IF ok THEN "prepare" ELSE "returned"]
       /\ err' = [err EXCEPT ![p] = ~ok]
  /\ UNCHANGED <<load, reply, ctx, st, writes, decided, seen, data, failed>>

\* Mutant: one worker that prepared is enough.
PreparedOne(p) ==
  /\ pc[p] = "prepare" /\ Answered(p)
  /\ \E ok \in Hook(p) :
       LET commit == ok /\ \E s \in Workers[p] : reply[p][s] = "ok" IN
       /\ pc' = [pc EXCEPT ![p] = IF commit THEN "commit" ELSE "rollback"]
       /\ err' = [err EXCEPT ![p] = ~commit]
       /\ decided' = IF commit THEN Append(decided, p) ELSE decided
  /\ reply' = [reply EXCEPT ![p] = None]
  /\ UNCHANGED <<load, ctx, st, writes, seen, data, failed>>

\* All workers have answered: beforeCommit, then the second phase; or ROLLBACK.
Prepared(p) ==
  /\ pc[p] = "prepare" /\ Answered(p)
  /\ \E ok \in Hook(p) :
       LET commit == ok /\ AllAgree(p) IN
       /\ pc' = [pc EXCEPT ![p] = IF commit THEN "commit" ELSE "rollback"]
       /\ err' = [err EXCEPT ![p] = ~commit]
       /\ decided' = IF commit THEN Append(decided, p) ELSE decided
  /\ reply' = [reply EXCEPT ![p] = None]
  /\ UNCHANGED <<load, ctx, st, writes, seen, data, failed>>

\* Mutant: the errors of the workers are not collected.
CommittedBlindly(p) ==
  /\ pc[p] = "commit" /\ Answered(p)
  /\ \E ok \in Hook(p) : err' = [err EXCEPT ![p] = ~ok]
  /\ pc' = [pc EXCEPT ![p] = "returned"]
  /\ st' = Cancelled(p)
  /\ UNCHANGED <<load, reply, ctx, writes, decided, seen, data, failed>>

\* The end of the second phase: the error of afterCommit, when there is one,
\* replaces the one of the workers. Returning cancels the context.
Committed(p) ==
  /\ pc[p] = "commit" /\ Answered(p)
  /\ \E ok \in Hook(p) :
       err' = [err EXCEPT ![p] = IF p \in Hooked THEN ~ok ELSE ~AllAgree(p)]
  /\ pc' = [pc EXCEPT ![p] = "returned"]
  /\ st' = Cancelled(p)
  /\ UNCHANGED <<load, reply, ctx, writes, decided, seen, data, failed>>

\* Nobody looks at the errors of a rollback.
RolledBack(p) ==
  /\ pc[p] = "rollback" /\ Answered(p)
  /\ pc' = [pc EXCEPT ![p] = "returned"]
  /\ st' = Cancelled(p)
  /\ UNCHANGED <<load, reply, ctx, err, writes, decided, seen, data, failed>>

--------------------------------------------------------------------------

Coordinate(p) ==
  \/ Put(p) \/ Prepared(p) \/ Committed(p) \/ RolledBack(p)
Work(p, s) ==
  \/ Prepare(p, s) \/ CommitExec(p, s) \/ CommitTx(p, s) \/ Rollback(p, s)

Next ==
  \/ \E p \in Puts : Coordinate(p) \/ Expire(p)
  \/ \E p \in Puts, s \in Storages : Work(p, s)
  \/ \E s \in Storages : Exec(s)

\* Every goroutine Put has started goes on. Nothing makes a context expire.
Fairness ==
  /\ \A p \in Puts : WF_vars(Coordinate(p))
  /\ \A p \in Puts, s \in Storages : WF_vars(Work(p, s))

Spec == Init /\ [][Next]_vars /\ Fairness

--------------------------------------------------------------------------
(* Properties *)

\* The batches that were decided for commit.
Decided == {decided[i] : i \in 1..Len(decided)}

(* Between the decision to commit a batch and the moment a storage deals with it,
   the transaction that storage prepared for the batch is its current one: no other
   call of Put, no rollback and no end of a context takes it away (Storage.Prepare,
   Rollback). A call of Put that has returned leaves no storage with a transaction
   of its own: such a storage would refuse every other batch from then on
   ("inconsistent state"). *)
HeldUntilHandled ==
  /\ \A p \in Decided : \A s \in Workers[p] : p \notin seen[s] => st[s].by = p
  /\ \A s \in Storages : st[s].by # NoPut => pc[st[s].by] # "returned"

(* Without hooks and without a timeout, Put returns no error only if every worker
   has applied the batch, but for those where SQLite failed the COMMIT: an error of
   s.tx.Commit() is the only thing that Storage.Commit and Put lose. *)
SuccessIsApplied ==
  \A p \in Puts \ Hooked :
    (pc[p] = "returned" /\ ~err[p] /\ ctx[p])
      => \A s \in Workers[p] :
           p \in failed[s] \/ \E i \in 1..Len(data[s]) : data[s][i] = p

(* Concurrent calls of Put on the same storages implement one order of commits: each
   storage applies, in that order, only batches that all their workers prepared. *)
Promise == INSTANCE BatchOrder
OneOrder == Promise!Spec

(* A call of Put returns: a worker that is busy refuses, so calls that meet on two
   storages in different orders do not wait for each other. *)
PutReturns == \A p \in Puts : pc[p] # "idle" ~> pc[p] = "returned"

=============================================================================
