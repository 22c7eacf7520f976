---------------------------- MODULE TwoPCProofs ----------------------------
(***************************************************************************)
(* What two-phase commit guarantees for any calls of Put, storages, hooks, *)
(* retries and timeouts: a decided batch keeps its transactions, a call    *)
(* without error is applied wherever SQLite commits it, and all storages   *)
(* follow one commit order.                                                *)
(***************************************************************************)
EXTENDS TwoPC, TLAPS

-----------------------------------------------------------------------------
(***************************************************************************)
(* The inductive invariant.                                                *)
(***************************************************************************)
Active == {"prepare", "commit", "rollback"}
IDs == {TxID[p] : p \in Puts} \cup {NoID}
Tx == [tx : {"none", "open", "gone"}, by : Puts \cup {NoPut}, id : IDs, exec : BOOLEAN]

TypeOK ==
  /\ pc \in [Puts -> Active \cup {"idle", "returned"}]
  /\ reply \in [Puts -> [Storages -> {"none", "ok", "err"}]]
  /\ ctx \in [Puts -> BOOLEAN]
  /\ err \in [Puts -> BOOLEAN]
  /\ st \in [Storages -> Tx]
  /\ decided \in Seq(Puts)
  /\ seen \in [Storages -> SUBSET Puts]
  /\ data \in [Storages -> Seq(Puts \cup {Direct})]
  /\ failed \in [Storages -> SUBSET Puts]

\* A transaction belongs to one active call, carries its id, and is gone only when
\* the context of that call is done; inside Commit that call waits for the answer.
OwnerInv ==
  \A s \in Storages :
    /\ st[s].tx = "none" <=> st[s].by = NoPut
    /\ st[s].exec => st[s].by # NoPut
    /\ \A p \in Puts : st[s].by = p =>
         /\ s \in Workers[p] /\ st[s].id = TxID[p] /\ pc[p] \in Active
         /\ reply[p][s] # "none" => pc[p] = "prepare"
         /\ st[s].exec => pc[p] = "commit"
         /\ st[s].tx = "gone" => ~ctx[p]

\* A call that repeats another one starts after it.
RepeatInv ==
  \A p \in Puts : (After[p] # NoPut /\ pc[p] # "idle") => pc[After[p]] = "returned"

\* A worker that prepared a batch holds it until it has dealt with it.
PhaseInv ==
  \A p \in Puts :
    /\ p \in Decided => pc[p] \in {"commit", "returned"}
    /\ pc[p] = "commit" => p \in Decided
    /\ \A s \in Workers[p] :
         /\ pc[p] = "idle" => reply[p][s] = "none"
         /\ (pc[p] = "prepare" /\ reply[p][s] = "ok") => st[s].by = p
         /\ (pc[p] = "commit" /\ reply[p][s] = "none") => st[s].by = p
         /\ (pc[p] = "commit" /\ reply[p][s] # "none") => p \in seen[s]
         /\ (pc[p] = "returned" /\ p \in Decided) => p \in seen[s]

\* A storage deals with decided batches only, and not before it answers.
SeenInv ==
  \A s \in Storages : \A p \in seen[s] :
    /\ p \in Decided
    /\ pc[p] = "commit" => reply[p][s] # "none"

DecidedOnce ==
  \A i, j \in 1..Len(decided) : decided[i] = decided[j] => i = j

\* What the answers of the second phase and the error of Put stand for.
Holds(d, p) == \E i \in 1..Len(d) : d[i] = p

AnswerInv ==
  \A p \in Puts :
    /\ (p \in Decided /\ ctx[p]) => \A s \in Workers[p] :
         reply[p][s] = "ok" => p \in failed[s] \/ Holds(data[s], p)
    /\ pc[p] = "rollback" => err[p]
    /\ (pc[p] = "returned" /\ ~err[p] /\ p \notin Hooked) => p \in Decided /\ AllAgree(p)

IInv == TypeOK /\ OwnerInv /\ RepeatInv /\ PhaseInv /\ SeenInv /\ DecidedOnce /\ AnswerInv

-----------------------------------------------------------------------------
(***************************************************************************)
(* The operators of the model.                                             *)
(***************************************************************************)
\* Storages end the transaction of the batch they carry, and nothing else.
LEMMA EndTxFact ==
  ASSUME st \in [Storages -> Tx], NEW s \in Storages, EndTx(s)
  PROVE  /\ st' \in [Storages -> Tx]
         /\ st'[s].tx = "none" /\ st'[s].by = NoPut /\ ~st'[s].exec
         /\ \A t \in Storages \ {s} : st'[t] = st[t]
BY ZenonT(60) DEF EndTx, Tx

\* The end of a context only touches the transactions begun with it.
LEMMA CancelledFact ==
  ASSUME st \in [Storages -> Tx], NEW p \in Puts, st' = Cancelled(p)
  PROVE  /\ st' \in [Storages -> Tx]
         /\ \A s \in Storages :
              /\ st'[s].by = st[s].by /\ st'[s].id = st[s].id /\ st'[s].exec = st[s].exec
              /\ st'[s].tx = "none" <=> st[s].tx = "none"
              /\ st[s].by # p => st'[s] = st[s]
              /\ st'[s].tx = "gone" => st[s].tx = "gone" \/ st[s].by = p
BY ZenonT(60) DEF Cancelled, Tx

\* An answer is written for one call and one worker.
LEMMA AnswerFact ==
  ASSUME reply \in [Puts -> [Storages -> {"none", "ok", "err"}]],
         NEW p \in Puts, NEW s \in Storages, NEW ok \in BOOLEAN, Answer(p, s, ok)
  PROVE  /\ reply' \in [Puts -> [Storages -> {"none", "ok", "err"}]]
         /\ reply'[p][s] \in {"ok", "err"} /\ (ok <=> reply'[p][s] = "ok")
         /\ \A q \in Puts, t \in Storages : (q # p \/ t # s) => reply'[q][t] = reply[q][t]
BY Zenon DEF Answer

\* Deciding adds the batch to the decided ones.
LEMMA DecidedFact ==
  ASSUME decided \in Seq(Puts), NEW p \in Puts, decided' = Append(decided, p)
  PROVE  /\ decided' \in Seq(Puts)
         /\ Decided' = Decided \cup {p}
BY DEF Decided

\* What has been applied stays applied when more is.
LEMMA AppendHolds ==
  ASSUME NEW S, NEW d \in Seq(S), NEW e \in S
  PROVE  /\ Append(d, e) \in Seq(S) /\ Holds(Append(d, e), e)
         /\ \A q : Holds(d, q) => Holds(Append(d, e), q)
BY DEF Holds

\* Batches alive at the same time have different ids: a storage that carries the id
\* of an active call holds the transaction of that call.
LEMMA Alone ==
  ASSUME TypeOK, OwnerInv, RepeatInv,
         NEW p \in Puts, NEW s \in Storages,
         pc[p] \in Active, st[s].tx # "none", st[s].id = TxID[p]
  PROVE  st[s].by = p
<1> DEFINE q == st[s].by
<1>1. q \in Puts /\ pc[q] \in Active /\ TxID[q] = TxID[p]
  BY Zenon DEF TypeOK, OwnerInv, Tx
<1>2. ASSUME q # p  PROVE FALSE
  <2>1. After[p] = q \/ After[q] = p
    BY <1>1, <1>2, TwoPCAssumption, Zenon
  <2> QED
    BY <1>1, <2>1, TwoPCAssumption, Zenon DEF RepeatInv, Active
<1> QED
  BY <1>2, Zenon

-----------------------------------------------------------------------------
(***************************************************************************)
(* One lemma per step of a worker.                                         *)
(***************************************************************************)
\* A worker begins the transaction of a batch, or refuses it.
LEMMA PrepareStep ==
  ASSUME IInv, NEW p \in Puts, NEW s \in Storages, Prepare(p, s)
  PROVE  IInv'
<1> USE DEF IInv
<1>1. /\ pc[p] = "prepare" /\ reply[p][s] = "none" /\ s \in Workers[p] /\ ~st[s].exec
      /\ UNCHANGED <<pc, ctx, err, decided, seen, data, failed>>
      /\ Decided' = Decided
  BY Zenon DEF Prepare, Unlocked, Decided
<1>2. /\ reply' \in [Puts -> [Storages -> {"none", "ok", "err"}]]
      /\ reply'[p][s] \in {"ok", "err"}
      /\ \A q \in Puts, t \in Storages : (q # p \/ t # s) => reply'[q][t] = reply[q][t]
  <2>1. \E ok \in BOOLEAN : Answer(p, s, ok)
    BY Zenon DEF Prepare, TypeOK
  <2> QED
    BY <2>1, AnswerFact DEF TypeOK
<1>3. \/ st' = st /\ (reply'[p][s] = "ok" => st[s].by = p)
      \/ /\ st[s].tx = "none" /\ ctx[p]
         /\ st' = [st EXCEPT ![s] = [tx |-> "open", by |-> p, id |-> TxID[p], exec |-> FALSE]]
  <2>1. CASE st[s].tx # "none"
    <3>1. st' = st /\ Answer(p, s, st[s].id = TxID[p])
      BY <2>1, Zenon DEF Prepare
    <3>2. reply'[p][s] = "ok" => st[s].id = TxID[p]
      BY <3>1, AnswerFact, Zenon DEF TypeOK
    <3> QED
      BY <1>1, <2>1, <3>1, <3>2, Alone, Zenon DEF Active
  <2>2. CASE st[s].tx = "none" /\ ctx[p]
    BY <2>2, Zenon DEF Prepare
  <2>3. CASE st[s].tx = "none" /\ ~ctx[p]
    <3>1. st' = st /\ Answer(p, s, FALSE)
      BY <2>3, Zenon DEF Prepare, TypeOK
    <3> QED
      BY <3>1, AnswerFact, Zenon DEF TypeOK
  <2> QED
    BY <2>1, <2>2, <2>3, Zenon DEF TypeOK
<1>4. /\ st' \in [Storages -> Tx]
      /\ \A t \in Storages \ {s} : st'[t] = st[t]
      /\ st'[s] = st[s] \/ (/\ st[s].tx = "none" /\ st'[s].tx = "open" /\ st'[s].by = p
                            /\ st'[s].id = TxID[p] /\ ~st'[s].exec)
      /\ reply'[p][s] = "ok" => st'[s].by = p
  <2>1. CASE st' = st /\ (reply'[p][s] = "ok" => st[s].by = p)
    BY <2>1, Zenon DEF TypeOK
  <2>2. CASE /\ st[s].tx = "none" /\ ctx[p]
             /\ st' = [st EXCEPT ![s] = [tx |-> "open", by |-> p, id |-> TxID[p],
                                        exec |-> FALSE]]
    <3>1. TxID[p] \in IDs
      BY Zenon DEF IDs
    <3> QED
      BY <2>2, <3>1, Zenon DEF TypeOK, Tx
  <2> QED
    BY <1>3, <2>1, <2>2, Zenon
<1>a. TypeOK'
  BY <1>1, <1>2, <1>4, Zenon DEF TypeOK
<1>b. OwnerInv'
  <2>1. ASSUME NEW t \in Storages, NEW q \in Puts, st'[t].by = q, <<q, t>> # <<p, s>>
        PROVE  st'[t] = st[t] /\ reply'[q][t] = reply[q][t]
    BY <1>2, <1>4, <2>1, Zenon
  <2>2. ASSUME NEW t \in Storages, t # s  PROVE st'[t] = st[t]
    BY <1>4, <2>2, Zenon
  <2>3. st'[s].tx = "none" <=> st'[s].by = NoPut
    BY <1>4, TwoPCAssumption DEF OwnerInv
  <2>4. st'[s].exec => st'[s].by # NoPut
    BY <1>1, <1>4, Zenon
  <2>5. ASSUME st'[s].by = p
        PROVE  /\ st'[s].id = TxID[p]
               /\ ~st'[s].exec
               /\ st'[s].tx = "gone" => ~ctx[p]
    BY <1>1, <1>4, <2>5 DEF OwnerInv
  <2> QED
    BY <1>1, <2>1, <2>2, <2>3, <2>4, <2>5 DEF OwnerInv, Active
<1>c. RepeatInv'
  BY <1>1, Zenon DEF RepeatInv
<1>d. PhaseInv'
  <2>1. ASSUME NEW q \in Puts, NEW t \in Workers[q], st[t].by = q
        PROVE  st'[t].by = q
    BY <1>4, <2>1, TwoPCAssumption DEF OwnerInv
  <2>2. ASSUME NEW q \in Puts, NEW t \in Workers[q], <<q, t>> # <<p, s>>
        PROVE  reply'[q][t] = reply[q][t]
    BY <1>2, <2>2, TwoPCAssumption, Zenon
  <2> QED
    BY <1>1, <1>4, <2>1, <2>2 DEF PhaseInv
<1>e. SeenInv'
  <2>1. ASSUME NEW t \in Storages, NEW q \in seen[t], pc[q] = "commit", reply[q][t] # "none"
        PROVE  reply'[q][t] # "none"
    BY <1>1, <1>2, <2>1, Zenon DEF TypeOK
  <2> QED
    BY <1>1, <2>1, Zenon DEF SeenInv
<1>f. DecidedOnce'
  BY <1>1, Zenon DEF DecidedOnce
<1>g. AnswerInv'
  <2>1. ASSUME NEW q \in Puts, q # p, NEW t \in Workers[q]
        PROVE  reply'[q][t] = reply[q][t]
    BY <1>2, <2>1, TwoPCAssumption, Zenon
  <2>2. p \notin Decided
    BY <1>1, Zenon DEF PhaseInv
  <2> QED
    BY <1>1, <2>1, <2>2 DEF AnswerInv, AllAgree
<1> QED
  BY <1>a, <1>b, <1>c, <1>d, <1>e, <1>f, <1>g, Zenon

\* What the end of a commit does, with or without the batch applied.
LEMMA HandledStep ==
  ASSUME IInv, NEW p \in Puts, NEW s \in Storages, NEW ok \in BOOLEAN,
         pc[p] = "commit", reply[p][s] = "none", st[s].by = p,
         Answer(p, s, ok), EndTx(s),
         seen' = [seen EXCEPT ![s] = @ \cup {p}],
         \/ UNCHANGED <<data, failed>> /\ ~(ok /\ ctx[p])
         \/ data' = [data EXCEPT ![s] = Append(@, p)] /\ failed' = failed
         \/ failed' = [failed EXCEPT ![s] = @ \cup {p}] /\ data' = data,
         UNCHANGED <<pc, ctx, err, decided>>
  PROVE  IInv'
<1> USE DEF IInv
<1>1. Decided' = Decided
  BY Zenon DEF Decided
<1>2. s \in Workers[p] /\ p \in Decided
  BY DEF OwnerInv, PhaseInv
<1>3. /\ reply' \in [Puts -> [Storages -> {"none", "ok", "err"}]]
      /\ reply'[p][s] \in {"ok", "err"} /\ (ok <=> reply'[p][s] = "ok")
      /\ \A q \in Puts, t \in Storages : (q # p \/ t # s) => reply'[q][t] = reply[q][t]
  BY AnswerFact DEF TypeOK
<1>4. /\ st' \in [Storages -> Tx]
      /\ st'[s].tx = "none" /\ st'[s].by = NoPut /\ ~st'[s].exec
      /\ \A t \in Storages \ {s} : st'[t] = st[t]
  BY EndTxFact, Zenon DEF TypeOK
<1>5. /\ seen' \in [Storages -> SUBSET Puts]
      /\ seen'[s] = seen[s] \cup {p}
      /\ \A t \in Storages \ {s} : seen'[t] = seen[t]
  BY ZenonT(30) DEF TypeOK
<1>6. /\ data' \in [Storages -> Seq(Puts \cup {Direct})]
      /\ failed' \in [Storages -> SUBSET Puts]
      /\ \A q \in Puts, t \in Storages : Holds(data[t], q) => Holds(data'[t], q)
      /\ \A t \in Storages : failed[t] \subseteq failed'[t]
      /\ ok /\ ctx[p] => p \in failed'[s] \/ Holds(data'[s], p)
  <2>0. data \in [Storages -> Seq(Puts \cup {Direct})] /\ failed \in [Storages -> SUBSET Puts]
    BY Zenon DEF TypeOK
  <2>1. CASE UNCHANGED <<data, failed>> /\ ~(ok /\ ctx[p])
    BY <2>0, <2>1, Zenon
  <2>2. CASE data' = [data EXCEPT ![s] = Append(@, p)] /\ failed' = failed
    <3>1. /\ data' \in [Storages -> Seq(Puts \cup {Direct})]
          /\ data'[s] = Append(data[s], p)
          /\ \A t \in Storages \ {s} : data'[t] = data[t]
      BY <2>0, <2>2
    <3>2. /\ Holds(Append(data[s], p), p)
          /\ \A q : Holds(data[s], q) => Holds(Append(data[s], p), q)
      <4>1. data[s] \in Seq(Puts \cup {Direct}) /\ p \in Puts \cup {Direct}
        BY <2>0, Zenon
      <4> QED
        BY <4>1, AppendHolds
    <3> QED
      BY <2>0, <2>2, <3>1, <3>2, Zenon
  <2>3. CASE failed' = [failed EXCEPT ![s] = @ \cup {p}] /\ data' = data
    BY <2>0, <2>3, Zenon
  <2> QED
    BY <2>1, <2>2, <2>3, Zenon
<1>a. TypeOK'
  BY <1>3, <1>4, <1>5, <1>6, Zenon DEF TypeOK
<1>b. OwnerInv'
  <2>1. \A t \in Storages \ {s} : st'[t] = st[t] /\ \A q \in Puts : reply'[q][t] = reply[q][t]
    BY <1>3, <1>4, Zenon
  <2> QED
    BY <1>4, <2>1, TwoPCAssumption DEF OwnerInv
<1>c. RepeatInv'
  BY Zenon DEF RepeatInv
<1>d. PhaseInv'
  BY <1>1, <1>2, <1>3, <1>4, <1>5, TwoPCAssumption DEF TypeOK, PhaseInv
<1>e. SeenInv'
  BY <1>1, <1>2, <1>3, <1>5 DEF TypeOK, SeenInv
<1>f. DecidedOnce'
  BY Zenon DEF DecidedOnce
<1>g. AnswerInv'
  <2>1. ASSUME NEW q \in Puts, q # p, NEW t \in Workers[q]
        PROVE  reply'[q][t] = reply[q][t]
    BY <1>3, <2>1, TwoPCAssumption, Zenon
  <2>2. ASSUME NEW t \in Workers[p], t # s
        PROVE  reply'[p][t] = reply[p][t]
    BY <1>3, <2>2, TwoPCAssumption, Zenon
  <2>3. ASSUME NEW q \in Puts, NEW t \in Workers[q], q \in failed[t] \/ Holds(data[t], q)
        PROVE  q \in failed'[t] \/ Holds(data'[t], q)
    BY <1>6, <2>3, TwoPCAssumption, Zenon
  <2>4. ctx[p] /\ reply'[p][s] = "ok" => p \in failed'[s] \/ Holds(data'[s], p)
    BY <1>3, <1>6, Zenon
  <2> QED
    BY <1>1, <2>1, <2>2, <2>3, <2>4 DEF AnswerInv, AllAgree
<1> QED
  BY <1>a, <1>b, <1>c, <1>d, <1>e, <1>f, <1>g, Zenon

\* In the commit phase a worker that has not answered holds the batch.
LEMMA CommitHolds ==
  ASSUME IInv, NEW p \in Puts, NEW s \in Storages,
         pc[p] = "commit", reply[p][s] = "none", s \in Workers[p]
  PROVE  st[s].by = p /\ st[s].tx # "none" /\ st[s].id = TxID[p] /\ p \in Decided
BY TwoPCAssumption DEF IInv, PhaseInv, OwnerInv

\* A worker executes the batch it holds, or the commit ends there.
LEMMA CommitExecStep ==
  ASSUME IInv, NEW p \in Puts, NEW s \in Storages, CommitExec(p, s)
  PROVE  IInv'
<1>1. /\ pc[p] = "commit" /\ reply[p][s] = "none" /\ s \in Workers[p]
      /\ UNCHANGED <<pc, ctx, err, decided, data, failed>>
  BY Zenon DEF CommitExec
<1>2. st[s].by = p /\ st[s].tx # "none" /\ st[s].id = TxID[p]
  BY <1>1, CommitHolds, Zenon
<1>3. CASE Answer(p, s, FALSE) /\ EndTx(s) /\ seen' = [seen EXCEPT ![s] = @ \cup {p}]
  BY <1>1, <1>2, <1>3, HandledStep, Zenon
<1>4. CASE st' = [st EXCEPT ![s].exec = TRUE] /\ UNCHANGED <<reply, seen>>
  <2>1. /\ st' \in [Storages -> Tx]
        /\ \A t \in Storages : /\ st'[t].tx = st[t].tx /\ st'[t].by = st[t].by
                               /\ st'[t].id = st[t].id
                               /\ t # s => st'[t] = st[t]
    BY <1>4, ZenonT(60) DEF IInv, TypeOK, Tx
  <2>2. OwnerInv'
    BY <1>1, <1>2, <1>4, <2>1, TwoPCAssumption DEF IInv, OwnerInv
  <2>3. PhaseInv'
    BY <1>1, <1>4, <2>1, TwoPCAssumption DEF IInv, PhaseInv, Decided
  <2>4. TypeOK'
    BY <1>1, <1>4, <2>1, Zenon DEF IInv, TypeOK
  <2>5. RepeatInv' /\ DecidedOnce'
    BY <1>1, Zenon DEF IInv, RepeatInv, DecidedOnce
  <2>6. SeenInv'
    BY <1>1, <1>4 DEF IInv, SeenInv, Decided
  <2>7. AnswerInv'
    BY <1>1, <1>4 DEF IInv, AnswerInv, AllAgree, Decided
  <2> QED
    BY <2>2, <2>3, <2>4, <2>5, <2>6, <2>7, Zenon DEF IInv
<1> QED
  BY <1>2, <1>3, <1>4, Zenon DEF CommitExec

\* A worker commits the transaction it executed the batch in.
LEMMA CommitTxStep ==
  ASSUME IInv, NEW p \in Puts, NEW s \in Storages, CommitTx(p, s)
  PROVE  IInv'
<1>1. /\ pc[p] = "commit" /\ st[s].exec /\ st[s].by = p
      /\ Answer(p, s, TRUE) /\ EndTx(s)
      /\ seen' = [seen EXCEPT ![s] = @ \cup {p}]
      /\ UNCHANGED <<pc, ctx, err, decided>>
  BY Zenon DEF CommitTx
<1>2. reply[p][s] = "none"
  BY <1>1, Zenon DEF IInv, TypeOK, OwnerInv
<1>3. st[s].tx \in {"none", "open", "gone"} /\ st[s].tx # "none"
  BY <1>1, TwoPCAssumption, Zenon DEF IInv, TypeOK, Tx, OwnerInv
<1>4. ctx[p] => st[s].tx = "open"
  BY <1>1, <1>3, Zenon DEF IInv, OwnerInv
<1>5. \/ UNCHANGED <<data, failed>> /\ ~(TRUE /\ ctx[p])
      \/ data' = [data EXCEPT ![s] = Append(@, p)] /\ failed' = failed
      \/ failed' = [failed EXCEPT ![s] = @ \cup {p}] /\ data' = data
  BY <1>4, Zenon DEF CommitTx
<1> QED
  BY <1>1, <1>2, <1>5, HandledStep, Zenon

\* A worker ends the transaction of a batch that is rolled back.
LEMMA RollbackStep ==
  ASSUME IInv, NEW p \in Puts, NEW s \in Storages, Rollback(p, s)
  PROVE  IInv'
<1> USE DEF IInv
<1>1. /\ pc[p] = "rollback" /\ reply[p][s] = "none" /\ s \in Workers[p]
      /\ UNCHANGED <<pc, ctx, err, decided, seen, data, failed>>
      /\ Decided' = Decided
  BY Zenon DEF Rollback, Decided
<1>2. p \notin Decided
  BY <1>1, Zenon DEF PhaseInv
<1>3. /\ reply' \in [Puts -> [Storages -> {"none", "ok", "err"}]]
      /\ reply'[p][s] \in {"ok", "err"}
      /\ \A q \in Puts, t \in Storages : (q # p \/ t # s) => reply'[q][t] = reply[q][t]
  BY AnswerFact, Zenon DEF Rollback, TypeOK
<1>4. /\ st' \in [Storages -> Tx]
      /\ \A t \in Storages \ {s} : st'[t] = st[t]
      /\ \/ st[s].by # p /\ st'[s] = st[s]
         \/ st[s].by = p /\ st'[s].tx = "none" /\ st'[s].by = NoPut /\ ~st'[s].exec
  <2>1. CASE st[s].tx # "none" /\ st[s].id = TxID[p]
    <3>1. st[s].by = p
      BY <1>1, <2>1, Alone, Zenon DEF Active
    <3> QED
      BY <2>1, <3>1, EndTxFact, Zenon DEF Rollback, TypeOK
  <2>2. CASE ~(st[s].tx # "none" /\ st[s].id = TxID[p])
    <3>1. st[s].by # p
      BY <2>2, TwoPCAssumption DEF OwnerInv
    <3> QED
      BY <2>2, <3>1, Zenon DEF Rollback, TypeOK
  <2> QED
    BY <2>1, <2>2, Zenon
<1>a. TypeOK'
  BY <1>1, <1>3, <1>4, Zenon DEF TypeOK
<1>b. OwnerInv'
  <2>1. ASSUME NEW t \in Storages, NEW q \in Puts, st'[t].by = q
        PROVE  /\ st'[t] = st[t]
               /\ reply'[q][t] = reply[q][t]
    BY <1>3, <1>4, <2>1, TwoPCAssumption
  <2>2. ASSUME NEW t \in Storages, st'[t].by \notin Puts
        PROVE  /\ st'[t].tx = "none" <=> st'[t].by = NoPut
               /\ st'[t].exec => st'[t].by # NoPut
    BY <1>4, <2>2 DEF OwnerInv
  <2>3. ASSUME NEW t \in Storages, st'[t].by \in Puts
        PROVE  /\ st'[t].tx = "none" <=> st'[t].by = NoPut
               /\ st'[t].exec => st'[t].by # NoPut
    BY <2>1, <2>3 DEF OwnerInv
  <2> QED
    BY <1>1, <2>1, <2>2, <2>3 DEF OwnerInv
<1>c. RepeatInv'
  BY <1>1, Zenon DEF RepeatInv
<1>d. PhaseInv'
  <2>1. ASSUME NEW q \in Puts, q # p, NEW t \in Workers[q]
        PROVE  /\ reply'[q][t] = reply[q][t]
               /\ st[t].by = q => st'[t].by = q
    BY <1>3, <1>4, <2>1, TwoPCAssumption, Zenon
  <2> QED
    BY <1>1, <1>2, <2>1 DEF PhaseInv
<1>e. SeenInv'
  <2>1. ASSUME NEW t \in Storages, NEW q \in seen[t], pc[q] = "commit", reply[q][t] # "none"
        PROVE  reply'[q][t] # "none"
    BY <1>1, <1>3, <2>1, Zenon DEF TypeOK
  <2> QED
    BY <1>1, <2>1, Zenon DEF SeenInv
<1>f. DecidedOnce'
  BY <1>1, Zenon DEF DecidedOnce
<1>g. AnswerInv'
  <2>1. ASSUME NEW q \in Puts, q # p, NEW t \in Workers[q]
        PROVE  reply'[q][t] = reply[q][t]
    BY <1>3, <2>1, TwoPCAssumption, Zenon
  <2> QED
    BY <1>1, <1>2, <2>1 DEF AnswerInv, AllAgree
<1> QED
  BY <1>a, <1>b, <1>c, <1>d, <1>e, <1>f, <1>g, Zenon

\* A direct Exec leaves the transactions alone.
LEMMA ExecStep ==
  ASSUME IInv, NEW s \in Storages, Exec(s)
  PROVE  IInv'
<1> USE DEF IInv
<1>1. /\ data' = [data EXCEPT ![s] = Append(@, Direct)]
      /\ UNCHANGED <<pc, reply, ctx, err, st, decided, seen, failed>>
      /\ Decided' = Decided
  BY Zenon DEF Exec, Decided
<1>2. /\ data' \in [Storages -> Seq(Puts \cup {Direct})]
      /\ \A q \in Puts, t \in Storages : Holds(data[t], q) => Holds(data'[t], q)
  BY <1>1 DEF TypeOK, Holds
<1>a. TypeOK'
  BY <1>1, <1>2, Zenon DEF TypeOK
<1>b. OwnerInv' /\ RepeatInv' /\ DecidedOnce'
  BY <1>1 DEF OwnerInv, RepeatInv, DecidedOnce
<1>c. PhaseInv' /\ SeenInv'
  BY <1>1 DEF PhaseInv, SeenInv
<1>d. AnswerInv'
  BY <1>1, <1>2, TwoPCAssumption, Zenon DEF AnswerInv, AllAgree
<1> QED
  BY <1>a, <1>b, <1>c, <1>d, Zenon

-----------------------------------------------------------------------------
(***************************************************************************)
(* One lemma per step of the coordinator.                                  *)
(***************************************************************************)
\* The context of a call ends at any time.
LEMMA ExpireStep ==
  ASSUME IInv, NEW p \in Puts, Expire(p)
  PROVE  IInv'
<1> USE DEF IInv
<1>1. /\ ctx' = [ctx EXCEPT ![p] = FALSE] /\ st' = Cancelled(p)
      /\ UNCHANGED <<pc, reply, err, decided, seen, data, failed>>
      /\ Decided' = Decided
  BY Zenon DEF Expire, Decided
<1>2. /\ st' \in [Storages -> Tx]
      /\ \A s \in Storages :
           /\ st'[s].by = st[s].by /\ st'[s].id = st[s].id /\ st'[s].exec = st[s].exec
           /\ st'[s].tx = "none" <=> st[s].tx = "none"
           /\ st'[s].tx = "gone" => st[s].tx = "gone" \/ st[s].by = p
  BY <1>1, CancelledFact, Zenon DEF TypeOK
<1>3. ctx' \in [Puts -> BOOLEAN] /\ ~ctx'[p] /\ \A q \in Puts : ctx'[q] => ctx[q]
  BY <1>1, Zenon DEF TypeOK
<1>a. TypeOK'
  BY <1>1, <1>2, <1>3, Zenon DEF TypeOK
<1>b. OwnerInv'
  BY <1>1, <1>2, <1>3 DEF OwnerInv
<1>c. RepeatInv' /\ DecidedOnce' /\ SeenInv'
  BY <1>1, Zenon DEF RepeatInv, DecidedOnce, SeenInv
<1>d. PhaseInv'
  BY <1>1, <1>2, TwoPCAssumption DEF PhaseInv
<1>e. AnswerInv'
  BY <1>1, <1>3, Zenon DEF AnswerInv, AllAgree
<1> QED
  BY <1>a, <1>b, <1>c, <1>d, <1>e, Zenon

\* A call begins.
LEMMA PutStep ==
  ASSUME IInv, NEW p \in Puts, Put(p)
  PROVE  IInv'
<1> USE DEF IInv
<1>1. /\ pc[p] = "idle"
      /\ After[p] # NoPut => pc[After[p]] = "returned"
      /\ UNCHANGED <<reply, ctx, st, decided, seen, data, failed>>
      /\ Decided' = Decided
  BY DEF Put, Decided
<1>2. /\ pc' \in [Puts -> Active \cup {"idle", "returned"}]
      /\ err' \in [Puts -> BOOLEAN]
      /\ pc'[p] \in {"prepare", "returned"}
      /\ pc'[p] = "returned" => err'[p]
      /\ \A q \in Puts \ {p} : pc'[q] = pc[q] /\ err'[q] = err[q]
  BY ZenonT(60) DEF Put, Hook, TypeOK, Active
<1>3. /\ p \notin Decided
      /\ \A s \in Storages : st[s].by # p
  BY <1>1, Zenon DEF PhaseInv, OwnerInv, Active
<1>a. TypeOK'
  BY <1>1, <1>2, Zenon DEF TypeOK
<1>b. OwnerInv'
  BY <1>1, <1>2, <1>3 DEF OwnerInv
<1>c. RepeatInv'
  BY <1>1, <1>2, TwoPCAssumption DEF RepeatInv
<1>d. PhaseInv'
  BY <1>1, <1>2, <1>3 DEF PhaseInv
<1>e. SeenInv'
  <2>1. \A s \in Storages : \A q \in seen[s] : q \in Puts /\ q # p
    BY <1>3, Zenon DEF TypeOK, SeenInv
  <2> QED
    BY <1>1, <1>2, <2>1 DEF SeenInv
<1>f. DecidedOnce'
  BY <1>1, Zenon DEF DecidedOnce
<1>g. AnswerInv'
  BY <1>1, <1>2, <1>3 DEF AnswerInv, AllAgree
<1> QED
  BY <1>a, <1>b, <1>c, <1>d, <1>e, <1>f, <1>g, Zenon

\* The decision: every worker has prepared the batch and none has dealt with it.
LEMMA CommitDecision ==
  ASSUME IInv, NEW p \in Puts, pc[p] = "prepare", AllAgree(p),
         pc' = [pc EXCEPT ![p] = "commit"], err' = [err EXCEPT ![p] = FALSE],
         decided' = Append(decided, p), reply' = [reply EXCEPT ![p] = None],
         UNCHANGED <<ctx, st, seen, data, failed>>
  PROVE  IInv'
<1> USE DEF IInv
<1>1. /\ pc' \in [Puts -> Active \cup {"idle", "returned"}] /\ pc'[p] = "commit"
      /\ err' \in [Puts -> BOOLEAN]
      /\ \A q \in Puts \ {p} : pc'[q] = pc[q] /\ err'[q] = err[q]
  BY Zenon DEF TypeOK, Active
<1>2. /\ reply' \in [Puts -> [Storages -> {"none", "ok", "err"}]]
      /\ \A q \in Puts \ {p} : reply'[q] = reply[q]
      /\ \A s \in Storages : reply'[p][s] = "none"
  BY Zenon DEF TypeOK, None
<1>3. decided' \in Seq(Puts) /\ Decided' = Decided \cup {p}
  BY DecidedFact, Zenon DEF TypeOK
<1>4. p \notin Decided
  BY Zenon DEF PhaseInv
<1>5. \A s \in Storages : p \notin seen[s] /\ seen[s] \subseteq Puts
  BY <1>4, Zenon DEF SeenInv, TypeOK
<1>6. \A s \in Workers[p] : st[s].by = p
  BY Zenon DEF AllAgree, PhaseInv
<1>a. TypeOK'
  BY <1>1, <1>2, <1>3, Zenon DEF TypeOK
<1>b. OwnerInv'
  <2>1. \A s \in Storages : st[s].by = p => ~st[s].exec
    BY Zenon DEF OwnerInv
  <2> QED
    BY <1>1, <1>2, <2>1 DEF OwnerInv, Active
<1>c. RepeatInv'
  BY <1>1, TwoPCAssumption DEF RepeatInv
<1>d. PhaseInv'
  BY <1>1, <1>2, <1>3, <1>6, TwoPCAssumption DEF PhaseInv
<1>e. SeenInv'
  BY <1>1, <1>2, <1>3, <1>5 DEF SeenInv
<1>f. DecidedOnce'
  BY <1>4 DEF TypeOK, DecidedOnce, Decided
<1>g. AnswerInv'
  BY <1>1, <1>2, <1>3, TwoPCAssumption DEF AnswerInv, AllAgree
<1> QED
  BY <1>a, <1>b, <1>c, <1>d, <1>e, <1>f, <1>g, Zenon

\* The coordinator decides once every worker has answered the first phase.
LEMMA PreparedStep ==
  ASSUME IInv, NEW p \in Puts, Prepared(p)
  PROVE  IInv'
<1>1. CASE /\ AllAgree(p) /\ pc' = [pc EXCEPT ![p] = "commit"]
           /\ err' = [err EXCEPT ![p] = FALSE] /\ decided' = Append(decided, p)
  BY <1>1, CommitDecision, Zenon DEF Prepared
<1>2. CASE /\ pc' = [pc EXCEPT ![p] = "rollback"]
           /\ err' = [err EXCEPT ![p] = TRUE] /\ decided' = decided
  <2> USE DEF IInv
  <2>1. /\ pc' \in [Puts -> Active \cup {"idle", "returned"}] /\ pc'[p] = "rollback"
        /\ err' \in [Puts -> BOOLEAN] /\ err'[p]
        /\ \A q \in Puts \ {p} : pc'[q] = pc[q] /\ err'[q] = err[q]
    BY <1>2, Zenon DEF TypeOK, Active
  <2>2. /\ reply' \in [Puts -> [Storages -> {"none", "ok", "err"}]]
        /\ \A q \in Puts \ {p} : reply'[q] = reply[q]
        /\ \A s \in Storages : reply'[p][s] = "none"
    BY Zenon DEF Prepared, TypeOK, None
  <2>3. /\ pc[p] = "prepare" /\ UNCHANGED <<ctx, st, decided, seen, data, failed>>
        /\ Decided' = Decided
    BY <1>2 DEF Prepared, Decided
  <2>4. p \notin Decided
    BY <2>3, Zenon DEF PhaseInv
  <2>a. TypeOK'
    BY <2>1, <2>2, <2>3, Zenon DEF TypeOK
  <2>b. OwnerInv'
    <3>1. \A s \in Storages : st[s].by = p => ~st[s].exec
      BY <2>3, Zenon DEF OwnerInv
    <3> QED
      BY <2>1, <2>2, <2>3, <3>1 DEF OwnerInv, Active
  <2>c. RepeatInv'
    BY <2>1, <2>3, TwoPCAssumption DEF RepeatInv
  <2>d. PhaseInv'
    BY <2>1, <2>2, <2>3, <2>4, TwoPCAssumption DEF PhaseInv
  <2>e. SeenInv'
    <3>1. \A s \in Storages : \A q \in seen[s] : q \in Puts /\ q # p
      BY <2>4, Zenon DEF TypeOK, SeenInv
    <3> QED
      BY <2>1, <2>2, <2>3, <3>1 DEF SeenInv
  <2>f. DecidedOnce'
    BY <2>3, Zenon DEF DecidedOnce
  <2>g. AnswerInv'
    BY <2>1, <2>2, <2>3, <2>4 DEF AnswerInv, AllAgree
  <2> QED
    BY <2>a, <2>b, <2>c, <2>d, <2>e, <2>f, <2>g, Zenon
<1> QED
  BY <1>1, <1>2, Zenon DEF Prepared, Hook

\* Put returns: once every worker has answered the second phase no storage holds a
\* transaction of the call, so the end of its context takes nothing away.
LEMMA ReturnStep ==
  ASSUME IInv, NEW p \in Puts, pc[p] \in {"commit", "rollback"}, Answered(p),
         pc' = [pc EXCEPT ![p] = "returned"], st' = Cancelled(p),
         NEW e \in BOOLEAN, err' = [err EXCEPT ![p] = e],
         (~e /\ p \notin Hooked) => pc[p] = "commit" /\ AllAgree(p),
         UNCHANGED <<reply, ctx, decided, seen, data, failed>>
  PROVE  IInv'
<1> USE DEF IInv
<1>1. \A s \in Storages : st[s].by # p
  BY Zenon DEF OwnerInv, Answered
<1>2. st' \in [Storages -> Tx] /\ \A s \in Storages : st'[s] = st[s]
  BY <1>1, CancelledFact DEF TypeOK
<1>3. /\ pc' \in [Puts -> Active \cup {"idle", "returned"}] /\ pc'[p] = "returned"
      /\ err' \in [Puts -> BOOLEAN] /\ err'[p] = e
      /\ \A q \in Puts \ {p} : pc'[q] = pc[q] /\ err'[q] = err[q]
  BY Zenon DEF TypeOK
<1>4. Decided' = Decided
  BY Zenon DEF Decided
<1>5. p \in Decided <=> pc[p] = "commit"
  BY Zenon DEF PhaseInv
<1>6. p \in Decided => \A s \in Workers[p] : p \in seen[s]
  BY <1>5, Zenon DEF PhaseInv, Answered
<1>a. TypeOK'
  BY <1>2, <1>3, Zenon DEF TypeOK
<1>b. OwnerInv'
  BY <1>1, <1>2, <1>3 DEF OwnerInv
<1>c. RepeatInv'
  BY <1>3, TwoPCAssumption DEF RepeatInv
<1>d. PhaseInv'
  BY <1>2, <1>3, <1>4, <1>6, TwoPCAssumption DEF PhaseInv
<1>e. SeenInv'
  <2>1. \A s \in Storages : \A q \in seen[s] : q \in Puts
    BY Zenon DEF TypeOK
  <2> QED
    BY <1>3, <1>4, <2>1 DEF SeenInv
<1>f. DecidedOnce'
  BY Zenon DEF DecidedOnce
<1>g. AnswerInv'
  <2>1. ASSUME NEW q \in Puts, q \in Decided, ctx[q], NEW s \in Workers[q], reply[q][s] = "ok"
        PROVE  q \in failed[s] \/ Holds(data[s], q)
    BY <2>1, Zenon DEF AnswerInv
  <2>2. ASSUME NEW q \in Puts, pc'[q] = "returned", ~err'[q], q \notin Hooked
        PROVE  q \in Decided /\ \A s \in Workers[q] : reply[q][s] = "ok"
    BY <1>3, <1>5, <2>2 DEF AnswerInv, AllAgree
  <2>3. ASSUME NEW q \in Puts, pc'[q] = "rollback"  PROVE err'[q]
    BY <1>3, <2>3, Zenon DEF AnswerInv
  <2> QED
    BY <1>4, <2>1, <2>2, <2>3, Zenon DEF AnswerInv, AllAgree
<1> QED
  BY <1>a, <1>b, <1>c, <1>d, <1>e, <1>f, <1>g, Zenon

\* The coordinator returns from a commit.
LEMMA CommittedStep ==
  ASSUME IInv, NEW p \in Puts, Committed(p)
  PROVE  IInv'
<1>1. PICK ok \in Hook(p) : err' = [err EXCEPT ![p] = IF p \in Hooked THEN ~ok ELSE ~AllAgree(p)]
  BY Zenon DEF Committed
<1>2. ok \in BOOLEAN
  BY Zenon DEF Hook
<1> DEFINE e == IF p \in Hooked THEN ~ok ELSE ~AllAgree(p)
<1>3. e \in BOOLEAN /\ (~e /\ p \notin Hooked => AllAgree(p))
  BY <1>2, Zenon DEF AllAgree
<1>4. err' = [err EXCEPT ![p] = e]
  BY <1>1, Zenon
<1> HIDE DEF e
<1> QED
  BY <1>3, <1>4, ReturnStep, Zenon DEF Committed

\* The coordinator returns from a rollback, with the error that led to it.
LEMMA RolledBackStep ==
  ASSUME IInv, NEW p \in Puts, RolledBack(p)
  PROVE  IInv'
<1>1. err[p] = TRUE /\ err' = [err EXCEPT ![p] = TRUE]
  BY Zenon DEF RolledBack, IInv, TypeOK, AnswerInv
<1> QED
  BY <1>1, ReturnStep, Zenon DEF RolledBack

\* The invariant holds throughout.
LEMMA Inductive == Spec => []IInv
<1>1. Init => IInv
  <2> SUFFICES ASSUME Init  PROVE IInv
    BY Zenon
  <2>1. /\ \A p \in Puts : pc[p] = "idle" /\ reply[p] = None
        /\ \A s \in Storages : st[s] = Fresh /\ seen[s] = {}
        /\ decided = <<>> /\ Decided = {}
    BY DEF Init, Decided
  <2>2. TypeOK
    BY DEF Init, TypeOK, None, Fresh, Tx, IDs
  <2>3. OwnerInv
    BY <2>1, TwoPCAssumption DEF OwnerInv, Fresh
  <2>4. PhaseInv
    BY <2>1, TwoPCAssumption DEF PhaseInv, None
  <2> QED
    BY <2>1, <2>2, <2>3, <2>4 DEF IInv, RepeatInv, SeenInv, DecidedOnce, AnswerInv
<1>2. IInv /\ [Next]_vars => IInv'
  <2> SUFFICES ASSUME IInv, [Next]_vars  PROVE IInv'
    BY Zenon
  <2>1. ASSUME NEW p \in Puts, Coordinate(p) \/ Expire(p)  PROVE IInv'
    BY <2>1, PutStep, PreparedStep, CommittedStep, RolledBackStep, ExpireStep, Zenon DEF Coordinate
  <2>2. ASSUME NEW p \in Puts, NEW s \in Storages, Work(p, s)  PROVE IInv'
    BY <2>2, PrepareStep, CommitExecStep, CommitTxStep, RollbackStep, Zenon DEF Work
  <2>3. ASSUME NEW s \in Storages, Exec(s)  PROVE IInv'
    BY <2>3, ExecStep, Zenon
  <2>4. CASE UNCHANGED vars
    <3> USE <2>4 DEF vars, IInv
    <3>1. TypeOK' /\ OwnerInv' /\ RepeatInv' /\ DecidedOnce'
      BY DEF TypeOK, OwnerInv, RepeatInv, DecidedOnce
    <3>2. Decided' = Decided
      BY Zenon DEF Decided
    <3>3. PhaseInv'
      BY <3>2, Zenon DEF PhaseInv
    <3>4. SeenInv'
      BY <3>2, Zenon DEF SeenInv
    <3>5. AnswerInv'
      BY <3>2, Zenon DEF AnswerInv, AllAgree
    <3> QED
      BY <3>1, <3>3, <3>4, <3>5, Zenon
  <2> QED
    BY <2>1, <2>2, <2>3, <2>4, Zenon DEF Next
<1> QED
  BY <1>1, <1>2, PTL DEF Spec

-----------------------------------------------------------------------------
(***************************************************************************)
(* The theorems.                                                           *)
(***************************************************************************)
\* Nothing takes the transaction of a decided batch away from a storage before the
\* storage deals with it, and a call of Put that returned leaves none behind.
THEOREM TransactionsHeld == Spec => []HeldUntilHandled
<1>1. ASSUME IInv  PROVE HeldUntilHandled
  <2> USE <1>1 DEF IInv
  <2>1. ASSUME NEW p \in Decided, NEW s \in Workers[p], p \notin seen[s]
        PROVE  st[s].by = p
    <3>1. p \in Puts
      BY DEF TypeOK, Decided
    <3> QED
      BY <2>1, <3>1, Zenon DEF PhaseInv
  <2>2. ASSUME NEW s \in Storages, st[s].by # NoPut
        PROVE  pc[st[s].by] # "returned"
    <3>1. st[s].by \in Puts
      BY <2>2, Zenon DEF TypeOK, Tx
    <3> QED
      BY <3>1 DEF OwnerInv, Active
  <2> QED
    BY <2>1, <2>2, Zenon DEF HeldUntilHandled
<1> QED
  BY <1>1, Inductive, PTL

\* A call of Put without hooks that returns no error in time has been applied by
\* every worker where SQLite did not fail the COMMIT.
THEOREM SuccessApplied == Spec => []SuccessIsApplied
<1>1. IInv => SuccessIsApplied
  BY TwoPCAssumption DEF IInv, AnswerInv, AllAgree, Holds, SuccessIsApplied
<1> QED
  BY <1>1, Inductive, PTL

\* A storage deals with a decided batch: every batch decided earlier that it serves
\* has been dealt with, since a storage holds one transaction.
LEMMA HandleStep ==
  ASSUME IInv, NEW p \in Puts, NEW s \in Storages,
         pc[p] = "commit", st[s].by = p, reply[p][s] = "none",
         seen' = [seen EXCEPT ![s] = @ \cup {p}],
         data' = data \/ data' = [data EXCEPT ![s] = Append(@, p)],
         UNCHANGED decided
  PROVE  Promise!Next
<1> USE DEF IInv
<1>1. p \in Decided /\ s \in Workers[p]
  BY DEF PhaseInv, OwnerInv
<1>2. PICK i \in 1..Len(decided) : decided[i] = p
  BY <1>1, Zenon DEF Decided
<1>3. p \notin seen[s]
  BY Zenon DEF SeenInv
<1>4. ASSUME NEW j \in 1..(i - 1), s \in Workers[decided[j]]
      PROVE  decided[j] \in seen[s]
  <2>1. j \in 1..Len(decided) /\ j # i
    BY DEF TypeOK
  <2>2. decided[j] \in Puts /\ decided[j] \in Decided
    BY <2>1 DEF TypeOK, Decided
  <2>3. decided[j] # p
    BY <1>2, <2>1, Zenon DEF DecidedOnce
  <2> QED
    BY <1>4, <2>2, <2>3, Zenon DEF PhaseInv
<1>5. Promise!Handle(s, i)
  BY <1>1, <1>2, <1>3, <1>4, Zenon DEF Promise!Handle
<1> QED
  BY <1>5, Zenon DEF Promise!Next

\* Two-phase commit implements the promised order of batches: there is one order of
\* commits, and every storage deals with the batches sent to it in that order.
THEOREM ImplementsBatchOrder == Spec => OneOrder
<1>1. Init => Promise!Init
  BY Zenon DEF Init, Promise!Init
<1>2. IInv /\ [Next]_vars => [Promise!Next]_<<decided, seen, data>>
  <2> SUFFICES ASSUME IInv, [Next]_vars
               PROVE  [Promise!Next]_<<decided, seen, data>>
    BY Zenon
  <2>1. ASSUME NEW p \in Puts, Prepared(p), decided' # decided
        PROVE  Promise!Next
    <3>1. decided' = Append(decided, p) /\ UNCHANGED <<seen, data>>
      BY <2>1, Zenon DEF Prepared
    <3>2. \A i \in 1..Len(decided) : decided[i] # p
      <4>1. pc[p] = "prepare"
        BY <2>1, Zenon DEF Prepared
      <4>2. p \notin Decided
        BY <4>1, Zenon DEF IInv, PhaseInv
      <4> QED
        BY <4>2, Zenon DEF Decided
    <3> QED
      BY <3>1, <3>2, Zenon DEF Promise!Next, Promise!Decide
  <2>2. ASSUME NEW p \in Puts, NEW s \in Storages, CommitExec(p, s), seen' # seen
        PROVE  Promise!Next
    <3>1. pc[p] = "commit" /\ reply[p][s] = "none" /\ s \in Workers[p]
      BY <2>2, Zenon DEF CommitExec
    <3> QED
      BY <2>2, <3>1, CommitHolds, HandleStep, Zenon DEF CommitExec
  <2>3. ASSUME NEW p \in Puts, NEW s \in Storages, CommitTx(p, s)
        PROVE  Promise!Next
    <3>1. reply[p][s] = "none"
      BY <2>3, Zenon DEF CommitTx, IInv, TypeOK, OwnerInv
    <3> QED
      BY <2>3, <3>1, HandleStep, Zenon DEF CommitTx
  <2>4. ASSUME NEW s \in Storages, Exec(s)
        PROVE  Promise!Next
    BY <2>4, Zenon DEF Exec, Promise!Next, Promise!Write
  <2>5. CASE UNCHANGED <<decided, seen, data>>
    BY <2>5, Zenon
  <2>6. ASSUME NEW p \in Puts, Coordinate(p) \/ Expire(p)
        PROVE  [Promise!Next]_<<decided, seen, data>>
    BY <2>1, <2>6, Zenon DEF Coordinate, Put, Prepared, Committed, RolledBack, Expire
  <2>7. ASSUME NEW p \in Puts, NEW s \in Storages, Work(p, s)
        PROVE  [Promise!Next]_<<decided, seen, data>>
    BY <2>2, <2>3, <2>7, Zenon DEF Work, Prepare, CommitExec, Rollback
  <2> QED
    BY <2>4, <2>5, <2>6, <2>7, Zenon DEF Next, vars
<1> QED
  BY <1>1, <1>2, Inductive, PTL DEF Spec, OneOrder, Promise!Spec

=============================================================================
