------------------------------ MODULE MCTwoPC ------------------------------
(* A small instance of TwoPC. *)
EXTENDS TwoPC

CONSTANTS s1, s2, p1, p2, p3

\* p1 and p2 meet on two storages, p3 repeats p1.
Both == [p \in Puts |-> {s1, s2}]
Ids == [p \in Puts |-> IF p = p2 THEN "b" ELSE "a"]
Pairs == {{p1, p2}, {p1, p3}}
Retry == [p \in Puts |-> IF p = p3 THEN p1 ELSE NoPut]
=============================================================================
