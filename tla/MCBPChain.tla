----------------------------- MODULE MCBPChain -----------------------------
(***************************************************************************)
(* Small instances of BPChain for TLC.                                     *)
(***************************************************************************)
EXTENDS BPChain

\* Two transactions of one account that compete for its first nonce.
Rivals == {[account |-> 1, nonce |-> 0, id |-> i] : i \in 1..2}

=============================================================================
