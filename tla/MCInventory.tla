---------------------------- MODULE MCInventory ----------------------------
(* Inventory for TLC: the versions of the package are interchangeable. *)
EXTENDS Inventory, TLC

Versions == Permutations(Purls)
=============================================================================
