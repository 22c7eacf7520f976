---------------------------- MODULE MCObserver ----------------------------
(* A small instance of Observer. *)
EXTENDS Observer

Q(h) == [hash |-> h, type |-> IF h = "r" THEN "read" ELSE "write"]

\* The genesis block and three more, with gaps between their heights; query w is
\* packed twice, a is acknowledged in a later block than the one that holds r.
FourBlocks ==
  <<[height |-> 0, acks |-> <<>>, queries |-> <<>>, failed |-> <<>>],
    [height |-> 1, acks |-> <<>>, queries |-> <<Q("w"), Q("r")>>, failed |-> <<Q("f"), Q("r")>>],
    [height |-> 3, acks |-> <<"a", "b">>, queries |-> <<Q("w")>>, failed |-> <<>>],
    [height |-> 4, acks |-> <<>>, queries |-> <<Q("x"), Q("r")>>, failed |-> <<Q("w")>>]>>
=============================================================================
