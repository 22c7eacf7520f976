----------------------------- MODULE MCClient -----------------------------
(* Two threads with a few operations each, or two users of a pool. *)
EXTENDS Client

None0 ==
  [ops |-> [t1 |-> 0, t2 |-> 0], does |-> {}, faults |-> 0,
   pool |-> "none", role |-> [u1 |-> "none", u2 |-> "none"], troubles |-> 0,
   order |-> <<>>, spot |-> <<>>, members |-> {}, clients |-> {}, askers |-> {},
   diallers |-> {}, upsets |-> 0]

\* Two ways the hashes may lie. In the second the block producers are next to each other.
Mixed == <<"b1", "n1", "b2", "b1", "n2", "b2", "n1", "n2">>
Adjacent == <<"b1", "b2", "n1", "b1", "n2", "b2", "n1", "n2">>
Low == [n1 |-> 0, n2 |-> 3]
High == [n1 |-> 2, n2 |-> 8]

Work(m, n, d, f) == [None0 EXCEPT !.ops = [t1 |-> m, t2 |-> n], !.does = d, !.faults = f]
Calls(p, r) == [None0 EXCEPT !.pool = p, !.role = r, !.troubles = 3]
Ask1(o, s) == [None0 EXCEPT !.order = o, !.spot = s, !.members = {"n1"}, !.askers = {"n1"},
                            !.upsets = 2]
Dial1(n) == [None0 EXCEPT !.order = Mixed, !.spot = Low, !.clients = {"n1"}, !.members = {"n2"},
                          !.askers = {"n1"}, !.diallers = {"n1"}, !.upsets = n]

Roles == {[u1 |-> "persistent", u2 |-> r] : r \in {"persistent", "once", "anonymous"}}

ConnWork == {Work(3, 0, {"write", "read"}, 2), Work(2, 1, {"write"}, 1),
             Work(4, 0, {"begin", "write"}, 1)}
PoolWork == {Calls(p, r) : p \in {"direct", "mux"}, r \in Roles}
DirWork == {Ask1(o, s) : o \in {Mixed, Adjacent}, s \in {Low, High}} \union {Dial1(1)}
All == ConnWork \union PoolWork \union DirWork
=============================================================================
