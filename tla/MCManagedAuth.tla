---------------------------- MODULE MCManagedAuth ----------------------------
(* Small instances of ManagedAuth for TLC. *)
EXTENDS ManagedAuth, TLC

\* Requests, and runs, differ only by name.
Symmetry == Permutations(Requests) \cup Permutations(Runs)
=============================================================================
