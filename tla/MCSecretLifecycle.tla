-------------------------- MODULE MCSecretLifecycle --------------------------
(* Small instances of SecretLifecycle for TLC. *)
EXTENDS SecretLifecycle, TLC

\* Commands, and keys, differ only by name.
Symmetry == Permutations(Admins) \cup Permutations(Keys)
=============================================================================
