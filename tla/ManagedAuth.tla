----------------------------- MODULE ManagedAuth -----------------------------
(***************************************************************************)
(* The managed credentials of one cluster: ManagedAuthLifecycle            *)
(* (src/src/managed-auth.ts), the API requests that use them               *)
(* (ProxmoxService.apiRequest in src/src/services.ts) and the host whose   *)
(* API token is rotated.                                                   *)
(*                                                                         *)
(* A reconcile pass is a run.  The server awaits one run at a time through *)
(* state.repairPromise, but the script of a run whose SSH session broke    *)
(* may go on at the host, next to the script of a later run.  Whoever      *)
(* awaits a promise goes on in the turn of the event loop in which it      *)
(* settles, so a run's end and what its waiters do next are one action.    *)
(* Token values are numbered in the order in which the host minted them.   *)
(***************************************************************************)
EXTENDS Naturals

CONSTANTS
    Requests,    \* API requests, each made once
    Runs,        \* reconcile passes that can be under way together
    NoRun,       \* state.repairPromise is undefined
    Rotation,    \* DEFAULT_ROTATION_INTERVAL_MS
    TokenLife,   \* DEFAULT_TOKEN_EXPIRE_SECONDS
    Safety,      \* ROTATION_SAFETY_WINDOW_MS
    MaxTime      \* bound on the clock

ASSUME NoRunIsNoRun == NoRun \notin Runs

ASSUME TimesNat == /\ Rotation \in Nat /\ TokenLife \in Nat
                   /\ Safety \in Nat /\ MaxTime \in Nat

VARIABLES
    now,                 \* the clock, of server and host
    token,               \* secret in cluster.auth, 0 before initialize is done
    passwordExpiresAt,
    tokenExpiresAt,
    rotationTimer,       \* when it is due, 0 if there is none
    repairPromise,       \* the run that state.repairPromise stands for
    stage,               \* how far a run is
    awaited,             \* does the server still await the run?
    expire,              \* the expiry its script carries
    value,               \* the token its script minted
    hostToken,           \* the token the host accepts, 0 for none
    hostExpire,
    minted,              \* tokens minted so far
    drift,               \* the host's token was changed behind the server's back
    pc,                  \* where a request is
    on,                  \* the run it awaits
    sent,                \* the token of its current attempt
    refused              \* the token of its first attempt, once refused

lifecycle == <<token, passwordExpiresAt, tokenExpiresAt, rotationTimer>>
runs == <<repairPromise, stage, awaited, expire, value>>
host == <<hostToken, hostExpire, minted>>
requests == <<pc, on, sent, refused>>
vars == <<now, lifecycle, runs, host, drift, requests>>

Stages == {"idle", "audit", "script", "deleted", "added"}
Waiting == {"ensure", "repair", "ensureAgain"}
Phases == {"idle", "sent", "ok", "refused", "resent", "reok", "rerefused", "error",
           "done", "denied", "failed"} \cup Waiting

TypeOK ==
    /\ now \in Nat /\ token \in Nat
    /\ passwordExpiresAt \in Nat /\ tokenExpiresAt \in Nat /\ rotationTimer \in Nat
    /\ repairPromise \in Runs \cup {NoRun}
    /\ stage \in [Runs -> Stages]
    /\ awaited \in [Runs -> BOOLEAN]
    /\ expire \in [Runs -> Nat]
    /\ value \in [Runs -> Nat]
    /\ hostToken \in Nat /\ hostExpire \in Nat /\ minted \in Nat
    /\ drift \in BOOLEAN
    /\ pc \in [Requests -> Phases]
    /\ on \in [Requests -> Runs \cup {NoRun}]
    /\ sent \in [Requests -> Nat]
    /\ refused \in [Requests -> Nat]

\* initialize has started the first run; nothing is served before it ends.
Init ==
    /\ now = 0 /\ token = 0
    /\ passwordExpiresAt = 0 /\ tokenExpiresAt = 0 /\ rotationTimer = 0
    /\ repairPromise \in Runs
    /\ stage = [k \in Runs |-> IF k = repairPromise THEN "audit" ELSE "idle"]
    /\ awaited = [k \in Runs |-> k = repairPromise]
    /\ expire = [k \in Runs |-> 0]
    /\ value = [k \in Runs |-> 0]
    /\ hostToken = 0 /\ hostExpire = 0 /\ minted = 0
    /\ drift = FALSE
    /\ pc = [r \in Requests |-> "idle"]
    /\ on = [r \in Requests |-> NoRun]
    /\ sent = [r \in Requests |-> 0]
    /\ refused = [r \in Requests |-> 0]

-----------------------------------------------------------------------------
(* What a request asks of the lifecycle. *)

StartRun(k) ==
    /\ stage[k] = "idle"
    /\ stage' = [stage EXCEPT ![k] = "audit"]
    /\ awaited' = [awaited EXCEPT ![k] = TRUE]
    /\ repairPromise' = k
    /\ UNCHANGED <<expire, value>>

Await(r, phase, k) ==
    /\ pc' = [pc EXCEPT ![r] = phase]
    /\ on' = [on EXCEPT ![r] = k]

\* Mutant: a caller does not look for a run that is under way.
repairCluster_Always(r, phase) ==
    \E k \in Runs : StartRun(k) /\ Await(r, phase, k)

\* Joins the run under way or starts one.
repairCluster(r, phase) ==
    \/ repairPromise # NoRun /\ Await(r, phase, repairPromise) /\ UNCHANGED runs
    \/ repairPromise = NoRun /\ \E k \in Runs : StartRun(k) /\ Await(r, phase, k)

\* Mutant: the token's own expiry is forgotten.
Current_PasswordOnly(t, password, secret) == t + Safety < password

\* Neither deadline is near.  The token's counts from before the script ran,
\* the password's from after.
Current(t, password, secret) ==
    t + Safety < (IF password <= secret THEN password ELSE secret)

\* apiRequest up to the HTTP request: ensureCluster first.
BeginRequest(r) ==
    /\ pc[r] = "idle"
    /\ token # 0
    /\ \/ /\ repairPromise = NoRun
          /\ Current(now, passwordExpiresAt, tokenExpiresAt)
          /\ pc' = [pc EXCEPT ![r] = "sent"]
          /\ sent' = [sent EXCEPT ![r] = token]
          /\ UNCHANGED <<on, runs>>
       \/ /\ \/ repairPromise # NoRun
             \/ ~Current(now, passwordExpiresAt, tokenExpiresAt)
          /\ repairCluster(r, "ensure")
          /\ UNCHANGED sent
    /\ UNCHANGED <<now, lifecycle, host, drift, refused>>

\* The host accepts or refuses the token of a request, or the request fails.
HostAnswers(r) ==
    /\ \/ /\ pc[r] = "sent"
          /\ \/ sent[r] = hostToken /\ now < hostExpire /\ pc' = [pc EXCEPT ![r] = "ok"]
             \/ ~(sent[r] = hostToken /\ now < hostExpire) /\ pc' = [pc EXCEPT ![r] = "refused"]
             \/ pc' = [pc EXCEPT ![r] = "error"]
       \/ /\ pc[r] = "resent"
          /\ \/ sent[r] = hostToken /\ now < hostExpire /\ pc' = [pc EXCEPT ![r] = "reok"]
             \/ ~(sent[r] = hostToken /\ now < hostExpire) /\ pc' = [pc EXCEPT ![r] = "rerefused"]
             \/ pc' = [pc EXCEPT ![r] = "error"]
    /\ UNCHANGED <<now, lifecycle, runs, host, drift, on, sent, refused>>

\* The answer arrives.  A first refusal leads to repairCluster and a retry,
\* whichever token was refused and whatever happened since.
AnswerArrives(r) ==
    /\ \/ pc[r] \in {"ok", "reok"} /\ pc' = [pc EXCEPT ![r] = "done"] /\ UNCHANGED <<on, runs, refused>>
       \/ pc[r] = "error" /\ pc' = [pc EXCEPT ![r] = "failed"] /\ UNCHANGED <<on, runs, refused>>
       \/ pc[r] = "rerefused" /\ pc' = [pc EXCEPT ![r] = "denied"] /\ UNCHANGED <<on, runs, refused>>
       \/ /\ pc[r] = "refused"
          /\ repairCluster(r, "repair")
          /\ refused' = [refused EXCEPT ![r] = sent[r]]
    /\ UNCHANGED <<now, lifecycle, host, drift, sent>>

\* scheduleRotation's callback; a failure of the run it starts is swallowed.
TimerFires ==
    /\ rotationTimer # 0 /\ now >= rotationTimer
    /\ rotationTimer' = 0
    /\ \/ repairPromise # NoRun /\ UNCHANGED runs
       \/ repairPromise = NoRun /\ \E k \in Runs : StartRun(k)
    /\ UNCHANGED <<now, token, passwordExpiresAt, tokenExpiresAt, host, drift, requests>>

-----------------------------------------------------------------------------
(* A run: reconcileCluster and its script at the host. *)

\* The audit record is written; the script is built, with its expiry, and sent.
SendScript(k) ==
    /\ stage[k] = "audit"
    /\ stage' = [stage EXCEPT ![k] = "script"]
    /\ expire' = [expire EXCEPT ![k] = now + TokenLife]
    /\ UNCHANGED <<now, lifecycle, repairPromise, awaited, value, host, drift, requests>>

\* pveum user token delete.
TokenDelete(k) ==
    /\ stage[k] = "script"
    /\ stage' = [stage EXCEPT ![k] = "deleted"]
    /\ hostToken' = 0
    /\ drift' = (drift \/ ~awaited[k])
    /\ UNCHANGED <<now, lifecycle, repairPromise, awaited, expire, value, hostExpire, minted, requests>>

\* pveum user token add, which fails if the token id exists.
TokenAdd(k) ==
    /\ stage[k] = "deleted"
    /\ hostToken = 0
    /\ stage' = [stage EXCEPT ![k] = "added"]
    /\ minted' = minted + 1
    /\ hostToken' = minted'
    /\ hostExpire' = expire[k]
    /\ value' = [value EXCEPT ![k] = minted']
    /\ drift' = ~awaited[k]
    /\ UNCHANGED <<now, lifecycle, repairPromise, awaited, expire, requests>>

Waiters(k) == {r \in Requests : on[r] = k}
Retries(k) == {r \in Waiters(k) : pc[r] = "repair"}

\* Mutant: the expiry of the new token is not stored.
Store_ForgetsExpiry(k) ==
    /\ token' = value[k]
    /\ passwordExpiresAt' = now + Rotation
    /\ rotationTimer' = now + Rotation
    /\ UNCHANGED tokenExpiresAt

\* The script's output is stored and the timer is set anew.
Store(k) ==
    /\ token' = value[k]
    /\ passwordExpiresAt' = now + Rotation
    /\ tokenExpiresAt' = expire[k]
    /\ rotationTimer' = now + Rotation

Resumed(r) == IF pc[r] = "ensure" THEN "sent" ELSE "resent"

\* Mutant: a retry goes out with the headers of the first attempt.
Resume_OldHeaders(k, back) ==
    LET go == Waiters(k) \ back IN
    /\ pc' = [r \in Requests |-> IF r \in go THEN Resumed(r) ELSE
                                 IF r \in back THEN "ensureAgain" ELSE pc[r]]
    /\ sent' = [r \in Requests |-> IF r \in go /\ pc[r] = "ensure" THEN value[k] ELSE sent[r]]
    /\ on' = [r \in Requests |-> IF r \in go THEN NoRun ELSE on[r]]

\* The requests that awaited run k go on with its token, but the ones in back
\* wait for another run in the same slot.
Resume(k, back) ==
    LET go == Waiters(k) \ back IN
    /\ pc' = [r \in Requests |-> IF r \in go THEN Resumed(r) ELSE
                                 IF r \in back THEN "ensureAgain" ELSE pc[r]]
    /\ sent' = [r \in Requests |-> IF r \in go THEN value[k] ELSE sent[r]]
    /\ on' = [r \in Requests |-> IF r \in go THEN NoRun ELSE on[r]]

\* The retry of a refused request passes through ensureCluster once more; here
\* it finds the new deadlines far.
RunSucceeds(k) ==
    /\ stage[k] = "added" /\ awaited[k]
    /\ Retries(k) = {} \/ Current(now, now + Rotation, expire[k])
    /\ Store(k)
    /\ Resume(k, {})
    /\ repairPromise' = NoRun
    /\ stage' = [stage EXCEPT ![k] = "idle"]
    /\ awaited' = [awaited EXCEPT ![k] = FALSE]
    /\ UNCHANGED <<now, expire, value, host, drift, refused>>

\* The script took so long that the new token is about to expire: the retries
\* find that out and share another run.
RunSucceedsLate(k) ==
    /\ stage[k] = "added" /\ awaited[k]
    /\ Retries(k) # {} /\ ~Current(now, now + Rotation, expire[k])
    /\ Store(k)
    /\ Resume(k, Retries(k))
    /\ stage' = [stage EXCEPT ![k] = "audit"]
    /\ UNCHANGED <<now, repairPromise, awaited, expire, value, host, drift, refused>>

\* Mutant: the requests that wait for the run are not told.
RunFails_Silently(k) ==
    /\ stage[k] # "idle" /\ awaited[k]
    /\ repairPromise' = NoRun
    /\ stage' = [stage EXCEPT ![k] = "idle"]
    /\ awaited' = [awaited EXCEPT ![k] = FALSE]
    /\ drift' = (drift \/ stage[k] \in {"deleted", "added"})
    /\ UNCHANGED <<now, lifecycle, expire, value, host, requests>>

\* The server is told of an error: the audit record, the SSH session, the
\* script's exit status or its output.  Every waiting request fails with it.
\* A script that was under way may go on.
RunFails(k) ==
    /\ stage[k] # "idle" /\ awaited[k]
    /\ repairPromise' = NoRun
    /\ \/ stage' = [stage EXCEPT ![k] = "idle"]
       \/ stage[k] \in {"script", "deleted"} /\ UNCHANGED stage
    /\ awaited' = [awaited EXCEPT ![k] = FALSE]
    /\ drift' = (drift \/ stage[k] \in {"deleted", "added"})
    /\ pc' = [r \in Requests |-> IF r \in Waiters(k) THEN "failed" ELSE pc[r]]
    /\ on' = [r \in Requests |-> IF r \in Waiters(k) THEN NoRun ELSE on[r]]
    /\ UNCHANGED <<now, lifecycle, expire, value, host, sent, refused>>

\* A script nobody awaits ends, at its end or before.
ScriptEnds(k) ==
    /\ stage[k] # "idle" /\ ~awaited[k]
    /\ stage' = [stage EXCEPT ![k] = "idle"]
    /\ UNCHANGED <<now, lifecycle, repairPromise, awaited, expire, value, host, drift, requests>>

\* An administrator removes the token.
HostDrifts ==
    /\ hostToken # 0
    /\ hostToken' = 0
    /\ drift' = TRUE
    /\ UNCHANGED <<now, lifecycle, runs, hostExpire, minted, requests>>

Tick ==
    /\ now < MaxTime
    /\ now' = now + 1
    /\ UNCHANGED <<lifecycle, runs, host, drift, requests>>

RunStep(k) ==
    \/ SendScript(k) \/ TokenDelete(k) \/ TokenAdd(k)
    \/ RunSucceeds(k) \/ RunSucceedsLate(k) \/ RunFails(k) \/ ScriptEnds(k)

RequestStep(r) == HostAnswers(r) \/ AnswerArrives(r)

Next ==
    \/ \E r \in Requests : BeginRequest(r) \/ RequestStep(r)
    \/ \E k \in Runs : RunStep(k)
    \/ TimerFires \/ HostDrifts \/ Tick

Spec == Init /\ [][Next]_vars

\* An HTTP request is answered or times out, and an audit record is written.
\* Nothing bounds a script the server awaits: SshExecutor.exec has neither a
\* timeout nor a keepalive once the session is ready, and execBootstrapRaw gives
\* it no signal.  One that nobody awaits any more gives its place in Runs back,
\* so that the bound on the runs under way holds nobody up.
Fairness ==
    /\ \A r \in Requests : WF_vars(RequestStep(r))
    /\ \A k \in Runs : WF_vars(SendScript(k)) /\ WF_vars(ScriptEnds(k))

FairSpec == Spec /\ Fairness

-----------------------------------------------------------------------------
(* Properties. *)

\* Callers are serialized onto one reconcile pass (repairCluster): the server
\* awaits no run but the one repairPromise stands for, and a waiting request
\* waits for that one, so none is left behind when it ends.
SingleFlight ==
    /\ \A k \in Runs : awaited[k] <=> repairPromise = k
    /\ \A r \in Requests : IF pc[r] \in Waiting
                           THEN repairPromise # NoRun /\ on[r] = repairPromise
                           ELSE on[r] = NoRun

\* Unless the host was changed behind the server's back, the server holds the
\* host's token and knows its expiry whenever no run is under way
\* (reconcileCluster), whatever runs, timers and refusals went before.
InSync ==
    repairPromise = NoRun /\ ~drift =>
        token = hostToken /\ (token # 0 => tokenExpiresAt = hostExpire)

\* A request that is sent without waiting for a repair carries a token the
\* host accepts at that moment, unless the host drifted (ensureCluster).
SentTokenWorks ==
    [][\A r \in Requests :
          pc[r] = "idle" /\ pc'[r] = "sent" /\ ~drift
              => sent'[r] = hostToken /\ now < hostExpire]_vars

\* The retry of a refused request carries another token than the refused one
\* (apiRequest, repairCluster): it awaited a run that ended after the refusal.
RetryUsesNewToken ==
    \A r \in Requests : pc[r] \in {"resent", "reok", "rerefused", "denied"}
                            => refused[r] < sent[r]

\* A request ends, unless it waits for ever for a run that is still under way
\* (apiRequest, repairCluster): it is retried at most once, no run that has ended
\* leaves a waiting request behind, and only a script that hangs holds it up.
RequestsEnd ==
    \A r \in Requests :
        (pc[r] # "idle") ~> \/ pc[r] \in {"done", "denied", "failed"}
                            \/ [](/\ pc[r] \in Waiting
                                  /\ \E k \in Runs : on[r] = k /\ awaited[k])
=============================================================================
