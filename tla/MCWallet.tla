------------------------------ MODULE MCWallet ------------------------------
(* Two or three producers without users, and two users of two producers. *)
EXTENDS Wallet

Nobody == [u \in {} |-> 0]

Does(kind, wait, cli, look, p) ==
  [kind |-> kind, wait |-> wait, cli |-> cli, look |-> look, bp |-> p]

\* n producers up to height h, with f calls that fail.
Work(n, h, l, f, d) == [total |-> n, last |-> h, lag |-> l, faults |-> f, users |-> d]

\* Without users: long enough for a fork to become irreversible, with lost
\* calls, and with a third producer.
Gossip ==
  {Work(2, 8, 1, 0, Nobody), Work(2, 4, 1, 2, Nobody),
   Work(3, 4, 1, 0, Nobody), Work(3, 3, 1, 1, Nobody)}

\* Users of one producer who may be given the same nonce, one of whom waits for the
\* database only; or whose calls fail.
Single ==
  {Work(1, 3, 1, 0, [u1 |-> Does("create", "tx", TRUE, TRUE, 0),
                     u2 |-> Does("create", "db", FALSE, FALSE, 0)]),
   Work(1, 2, 1, 1, [u1 |-> Does("transfer", "tx", TRUE, TRUE, 0),
                     u2 |-> Does("grant", "tx", FALSE, FALSE, 0)])}

\* Users of different producers, one whose calls fail, and one whose producer
\* may be late.
Pair ==
  {Work(2, 3, 0, 0, [u1 |-> Does("create", "tx", TRUE, FALSE, 0),
                     u2 |-> Does("transfer", "no", TRUE, FALSE, 1)]),
   Work(2, 3, 0, 1, [u1 |-> Does("create", "tx", FALSE, FALSE, 1)]),
   Work(2, 3, 1, 0, [u1 |-> Does("create", "tx", TRUE, TRUE, 0)])}

All == Gossip \union Single \union Pair
=============================================================================
