----------------------------- MODULE MCHttpAccess -----------------------------
(* Small instances of HttpAccess for TLC. *)
EXTENDS HttpAccess, TLC

\* Keys differ only by name, and so do the requests that are not followed.
Symmetry == Permutations(Requests \ Followed) \cup Permutations(Keys)
=============================================================================
