---------------------------- MODULE BatchOrder ----------------------------
(***************************************************************************)
(* What a two-phase commit promises: the batches decided for commit have   *)
(* one order, and every storage deals with those sent to it in that order, *)
(* each of them once.                                                      *)
(***************************************************************************)
EXTENDS Integers, Sequences

CONSTANTS Puts, Storages,
          Workers,   \* Workers[p]: the storages batch p is sent to
          Direct     \* a write that is not part of a batch

VARIABLES
  decided,   \* the batches decided for commit, in order
  seen,      \* seen[s]: the decided batches storage s has dealt with
  data       \* data[s]: what storage s has applied, in order

Init ==
  /\ decided = <<>>
  /\ seen = [s \in Storages |-> {}]
  /\ data = [s \in Storages |-> <<>>]

Decide(p) ==
  /\ \A i \in 1..Len(decided) : decided[i] # p
  /\ decided' = Append(decided, p)
  /\ UNCHANGED <<seen, data>>

\* Storage s deals with the first decided batch it has not dealt with; executing
\* it may fail there.
Handle(s, i) ==
  /\ s \in Workers[decided[i]] /\ decided[i] \notin seen[s]
  /\ \A j \in 1..(i - 1) : s \in Workers[decided[j]] => decided[j] \in seen[s]
  /\ seen' = [seen EXCEPT ![s] = @ \cup {decided[i]}]
  /\ \/ data' = [data EXCEPT ![s] = Append(@, decided[i])]
     \/ UNCHANGED data
  /\ UNCHANGED decided

Write(s) == data' = [data EXCEPT ![s] = Append(@, Direct)] /\ UNCHANGED <<decided, seen>>

Next ==
  \/ \E p \in Puts : Decide(p)
  \/ \E s \in Storages : \E i \in 1..Len(decided) : Handle(s, i)
  \/ \E s \in Storages : Write(s)

Spec == Init /\ [][Next]_<<decided, seen, data>>

=============================================================================
