---------------------------- MODULE MCServerJobs ----------------------------
(* Small instances of ServerJobs for TLC. *)
EXTENDS ServerJobs, TLC

\* Jobs of one kind, and calls, differ only by name.
Symmetry ==
    Permutations(UpidJobs) \cup Permutations(SshJobs)
        \cup Permutations(AgentJobs) \cup Permutations(Calls)
=============================================================================
