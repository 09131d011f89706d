------------------------------ MODULE MCPush ------------------------------
(* Small instances of Push for TLC. *)
EXTENDS Push, TLC

Symmetry == Permutations(Tx)

===========================================================================
