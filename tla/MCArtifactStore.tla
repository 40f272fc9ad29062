---------------------------- MODULE MCArtifactStore ----------------------------
(* Small instances of ArtifactStore for TLC. *)
EXTENDS ArtifactStore, TLC

\* Artifacts, and reads, differ only by name.
Symmetry == Permutations(Ids) \cup Permutations(Readers)
=============================================================================
