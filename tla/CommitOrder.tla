---------------------------- MODULE CommitOrder ----------------------------
(***************************************************************************)
(* What kayak promises its user: one order of commits, fixed by the        *)
(* leader, of which every follower knows a prefix.                         *)
(***************************************************************************)
EXTENDS Integers

CONSTANTS Followers, Reqs, Index

VARIABLES
  chain,    \* position -> request: the commits, in the order of the positions
  learned   \* learned[f]: the positions follower f knows

Init ==
  /\ chain = [i \in {} |-> {}]
  /\ learned = [f \in Followers |-> {}]

\* The leader commits a request that it has not committed before.
Extend(r, i) ==
  /\ \A j \in DOMAIN chain : j < i /\ chain[j] # r
  /\ chain' = [j \in DOMAIN chain \cup {i} |-> IF j = i THEN r ELSE chain[j]]
  /\ UNCHANGED learned

\* A follower learns the first commit it does not know.
Learn(f, i) ==
  /\ i \in DOMAIN chain \ learned[f]
  /\ \A j \in DOMAIN chain : j < i => j \in learned[f]
  /\ learned' = [learned EXCEPT ![f] = @ \cup {i}]
  /\ UNCHANGED chain

Next ==
  \/ \E r \in Reqs, i \in Index : Extend(r, i)
  \/ \E f \in Followers : \E i \in DOMAIN chain : Learn(f, i)

Spec == Init /\ [][Next]_<<chain, learned>>

=============================================================================
