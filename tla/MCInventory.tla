---------------------------- MODULE MCInventory ----------------------------
(* TLC instances of Inventory: volumes as small integers of fine units.     *)
EXTENDS Inventory, TLC

Rows == Permutations(Items) \cup Permutations(Workers)
Symmetry == Rows \cup Permutations(Containers)
=============================================================================
