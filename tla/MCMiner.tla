------------------------------ MODULE MCMiner ------------------------------
(* Two databases of the miner and one of another miner, in three blocks. *)
EXTENDS Miner

Tx0(type, d, perm, mine, height) ==
  [type |-> type, db |-> d, user |-> "u", perm |-> perm, mine |-> mine,
   height |-> height]

ThreeBlocks ==
  << <<Tx0("CreateDatabase", "d1", {"read", "write"}, TRUE, 0)>>,
     <<Tx0("UpdateBilling", "d1", {}, TRUE, 5),
       Tx0("CreateDatabase", "d3", {"read", "write"}, FALSE, 0),
       Tx0("UpdatePermission", "d1", {}, TRUE, 0)>>,
     <<Tx0("CreateDatabase", "d2", {"read", "write"}, TRUE, 0),
       Tx0("UpdateBilling", "d2", {}, TRUE, 7)>> >>
=============================================================================
