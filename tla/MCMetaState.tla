----------------------------- MODULE MCMetaState -----------------------------
(***************************************************************************)
(* Instances of MetaState for TLC: the miners are 1, 2, ..., the users 11  *)
(* and 12.                                                                 *)
(***************************************************************************)
EXTENDS MetaState

\* The tokens: user 11 can pay for a database of two miners, and one miner can
\* provide at once; the other one gets its deposit by a transfer. Any provider
\* is found, or miner 2 is asked for, once or twice. User 11 may be unable to pay the first
\* block and, once it has paid its arrears, the second; user 12 queries in both.
Funds ==
  [miners       |-> {1, 2},
   balance      |-> (1 :> 1) @@ (2 :> 0) @@ (11 :> 5) @@ (12 :> 3),
   gasPrices    |-> {1},
   advances     |-> {1, 2},
   amounts      |-> {1, 2},
   targetUsers  |-> {{}},
   targetMiners |-> {<<>>, <<2>>, <<2, 2>>},
   permissions  |-> {"Admin"},
   cost         |-> << (11 :> 2) @@ (12 :> 1), (11 :> 3) @@ (12 :> 1) >>,
   creates      |-> 1]

\* Who serves whom: three miners; user 12 can pay for a small database only.
\* There are fewer targets than miners, as many, and more, in both orders, and one
\* that is named twice.
Matching ==
  [miners       |-> {1, 2, 3},
   balance      |-> (1 :> 1) @@ (2 :> 1) @@ (3 :> 1) @@ (11 :> 6) @@ (12 :> 2),
   gasPrices    |-> {1, 2},
   advances     |-> {1, 3},
   amounts      |-> {},
   targetUsers  |-> {{}, {11}},
   targetMiners |-> {<<>>, <<2>>, <<2, 1>>, <<1, 3>>, <<1, 1>>, <<3, 2, 1>>},
   permissions  |-> {"Admin", "Read"},
   cost         |-> << >>,
   creates      |-> 2]

Both == {Funds, Matching}
=============================================================================
