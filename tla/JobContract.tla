---------------------------- MODULE JobContract ----------------------------
(***************************************************************************)
(* What the job registry promises to the holder of a job id, without any   *)
(* transport, polling or abort mechanism: an id is handed out once, its    *)
(* record runs, it settles in one verdict that never changes while the     *)
(* server lives, and the verdict "cancelled" is given only to a job whose  *)
(* cancellation was asked for while it ran.  A restart loses every record. *)
(***************************************************************************)
EXTENDS Naturals

CONSTANTS
    Jobs,         \* job ids
    Cancellable   \* ids whose local executor job_cancel may abort

VARIABLES
    state,   \* state[j]: the registry's record of j, "absent" if there is none
    made,    \* ids handed out so far, by this server or an earlier one
    asked    \* running or settled jobs whose abort was requested

vars == <<state, made, asked>>

Verdicts == {"completed", "failed", "cancelled"}

Init ==
    /\ state = [j \in Jobs |-> "absent"]
    /\ made = {}
    /\ asked = {}

Start(j) ==
    /\ j \notin made
    /\ state[j] = "absent"
    /\ state' = [state EXCEPT ![j] = "running"]
    /\ made' = made \cup {j}
    /\ UNCHANGED asked

Ask(j) ==
    /\ j \in Cancellable
    /\ state[j] = "running"
    /\ asked' = asked \cup {j}
    /\ UNCHANGED <<state, made>>

Settle(j, verdict) ==
    /\ state[j] = "running"
    /\ \/ asked' = asked
       \/ j \in Cancellable /\ asked' = asked \cup {j}
    /\ verdict = "cancelled" => j \in asked'
    /\ state' = [state EXCEPT ![j] = verdict]
    /\ UNCHANGED made

Lose ==
    /\ state' = [j \in Jobs |-> "absent"]
    /\ asked' = {}
    /\ UNCHANGED made

Next ==
    \/ \E j \in Jobs : Start(j) \/ Ask(j) \/ \E v \in Verdicts : Settle(j, v)
    \/ Lose

Spec == Init /\ [][Next]_vars
=============================================================================
