------------------------------ MODULE MCKayak ------------------------------
(***************************************************************************)
(* Small instances of Kayak for TLC.                                       *)
(***************************************************************************)
EXTENDS Kayak, TLC

Symmetry == Permutations(Followers) \cup Permutations(Reqs)

=============================================================================
