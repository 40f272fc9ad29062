--------------------------- MODULE MCInventoryCache ---------------------------
(* Small instances of InventoryCache for TLC. *)
EXTENDS InventoryCache, TLC

\* Calls, VMs and nodes differ only by name.
Symmetry == Permutations(Calls) \cup Permutations(Vms) \cup Permutations(Nodes)
=============================================================================
