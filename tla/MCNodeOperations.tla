--------------------------- MODULE MCNodeOperations ---------------------------
(* Small instances of NodeOperations for TLC. *)
EXTENDS NodeOperations, TLC

\* Calls differ only by name.
Symmetry == Permutations(Ops) \cup Permutations(Inspections)
=============================================================================
