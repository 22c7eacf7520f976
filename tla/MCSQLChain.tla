--------------------------- MODULE MCSQLChain ---------------------------
(* Small instances of SQLChain. *)
EXTENDS SQLChain, TLC

CONSTANTS m1, m2, w1, w2, w3, r1, r2

TwoServers == <<m1, m2>>
\* w2 fails at its second statement.
OneOrTwo == [w \in Writes |-> IF w = w2 THEN 2 ELSE 1]
FailsW2 == [r \in Requests |-> IF r = w2 THEN 2 ELSE 0]

\* Databases of m1 and m2; `until' periods, at most `max' crashes.
Eventual(level, requests, until, max) ==
  [eventual |-> TRUE, dirty |-> level, requests |-> requests, until |-> until,
   crashes |-> max]
Strong(level, requests, until, max) ==
  [eventual |-> FALSE, dirty |-> level, requests |-> requests, until |-> until,
   crashes |-> max]

\* Eventual consistency: two writes beside one that fails; two writes and a
\* crash; a write over three periods and a crash; reads with the other isolation
\* level and a crash; a read after a change of the schema that fails half way.
\* And Kayak.
Workloads == {Eventual(TRUE, {w1, w2, w3}, 2, 0), Eventual(TRUE, {w1, w3}, 2, 1),
              Eventual(TRUE, {w1}, 3, 1), Eventual(FALSE, {r1, r2}, 2, 1),
              Strong(FALSE, {w1}, 2, 1)}
             \cup {Eventual(TRUE, {w2, r}, 2, 0) : r \in Reads}
\* Nothing tells the reads apart.
ReadSymmetry == Permutations(Reads)

=============================================================================
