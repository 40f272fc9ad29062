------------------------------ MODULE HttpAccess ------------------------------
(***************************************************************************)
(* Who may do what: the startup checks (src/src/config.ts,                 *)
(* src/src/startup.ts, src/src/index.ts), the HTTP listener and its bearer *)
(* tokens (src/src/http-server.ts, src/src/http-auth.ts), the scope check  *)
(* around every tool (src/src/server.ts), the resources, which it does not *)
(* surround (src/src/tools/escape/register.ts), and policy and audit       *)
(* (src/src/policy.ts, src/src/services.ts).                               *)
(*                                                                         *)
(* The issuer publishes and withdraws signing keys whenever it likes.  The *)
(* verifier caches the key set it fetched; requests that find it too old   *)
(* fetch it each for itself, so that the answers may be stored in another  *)
(* order than they were given.  A handler runs without interruption        *)
(* between two awaits.  Of what a client asks for only its class matters:  *)
(* the scope its name asks for, the permissions it needs, and whether it   *)
(* is recorded.                                                            *)
(***************************************************************************)
EXTENDS Integers, FiniteSets

CONSTANTS
    Requests,    \* requests that can be under way together
    Followed,    \* bound: those with any token that may call something; the
                 \* others come with a right token and end in the transport
    Keys,        \* the issuer's signing keys
    None,        \* no key id in the header; a signature by no key of the issuer
    Ttl,         \* cacheTtlMs
    Skew,        \* clockSkewSeconds
    MaxTime      \* bound on the clock

ASSUME NoneIsNoKey == None \notin Keys
ASSUME TimesNat == Ttl \in Nat \ {0} /\ Skew \in Nat /\ MaxTime \in Nat

VARIABLES
    env,         \* the environment variables the server is started with
    phase,       \* start, loaded, serving or exited
    now,
    published,   \* issuer: the keys of its key set
    nameless,    \* issuer: the keys that it publishes without a key id
    turned,      \* history: when each key was last published or withdrawn
    cache,       \* JwksCache.cached, a set of at most one entry
    req,         \* the calls
    lag          \* history: the longest time a fetch has taken

startup == <<env, phase>>
issuer == <<published, nameless, turned>>
vars == <<startup, now, issuer, cache, req, lag>>

Times == 0..MaxTime

\* Longer ago than any key set that is still in use.
LongAgo == -(Ttl + MaxTime)

\* What buildEnvOnlyConfig reads: PROXMOX_MCP_MODE, AUTH_MODE, LOCAL_BOOTSTRAP
\* and ENABLE_ESCAPE, which follows the local bootstrap unless it is set.
Environments ==
    [mode : {"stdio", "http", "both"}, auth : {"none", "oidc"},
     bootstrap : BOOLEAN, escape : BOOLEAN]

Scopes == {"read", "mutate", "escape"}

\* exp and nbf are the token's, None if it has none; "other" is a key id no key
\* has; aud: issuer and audience are the configured ones.
Tokens == [signer : Keys \cup {None}, kid : Keys \cup {None, "other"}, aud : BOOLEAN,
           exp : {None} \cup -Skew..(MaxTime + 1),
           nbf : {None} \cup 0..(MaxTime + Skew + 1),
           scopes : SUBSET Scopes]

\* The tools by class.  get, change, shell, put: proxmox_api_call and most typed
\* tools, proxmox_shell_run with its like, the change of a snippet.  update and
\* inspect: proxmox_vm_update_config, and proxmox_vm_boot_diagnose with its like,
\* whose names ask for no more than reading.  peek and cancel: inventory, jobs and
\* their tasks, and job_cancel.
Tools == {"get", "change", "shell", "put", "update", "inspect", "peek", "cancel"}

\* What a client may ask for: a tool, or the inventory or a job's log as a
\* resource.  (The resource of an artifact reaches Proxmox only for a
\* proxmox_file, which no tool links.)
Asked == Tools \cup {"resource"}

\* Requests to Proxmox that neither ask the policy nor are recorded:
\* getClusterResources, inventoryOverview, detectVmGuest, the reading of tasks and
\* cancelUpid.
Unrecorded == {"peek", "cancel", "resource"}

\* Those that may look up where a VM is before they are checked: getVmLocation.
Locating == {"get", "change", "update", "inspect"}

\* 401; other: an answer without a call (metadata, 404, 405, 500, what the
\* transport says); result: of a tool or a resource, an error too.
Answers == {"none", "401", "other", "result"}

Calls == [pc : {"free", "fetch", "answered", "body", "asked", "audit", "send", "done"},
          via : {"http", "stdio"}, what : Asked, token : SUBSET Tokens, began : Times,
          keys : SUBSET Keys, done : SUBSET {"verified", "looked", "logged", "effect"},
          answer : Answers]

Idle == [pc |-> "free", via |-> "http", what |-> "get", token |-> {}, began |-> 0,
         keys |-> {}, done |-> {}, answer |-> "none"]

TypeOK ==
    /\ env \in Environments
    /\ phase \in {"start", "loaded", "serving", "exited"}
    /\ now \in Times /\ lag \in Times
    /\ published \in SUBSET Keys /\ nameless \in SUBSET Keys
    /\ turned \in [Keys -> {LongAgo} \cup Times]
    /\ cache \in SUBSET [fetchedAt : Times, keys : SUBSET Keys]
    /\ Cardinality(cache) <= 1
    /\ req \in [Requests -> Calls]

-----------------------------------------------------------------------------
(* Startup. *)

Init ==
    /\ env \in Environments
    /\ phase = "start" /\ now = 0 /\ lag = 0
    /\ published \in SUBSET Keys /\ nameless \in SUBSET Keys
    /\ turned = [k \in Keys |-> LongAgo]
    /\ cache = {}
    /\ req = [r \in Requests |-> Idle]

Local(e) == e.mode = "stdio" /\ e.auth = "none"

\* An unauthenticated listener, missing OIDC settings or missing bootstrap
\* credentials end the process.
loadConfig ==
    /\ phase = "start"
    /\ \/ phase' = "exited"
       \/ (env.mode = "stdio" \/ env.auth = "oidc") /\ phase' = "loaded"
    /\ UNCHANGED <<env, now, issuer, cache, req, lag>>

\* The cluster's auth is ssh_bootstrap exactly if the local bootstrap is
\* enabled.  Reading the secrets, or bootstrapping, may fail.
initializeRuntimeConfig ==
    /\ phase = "loaded"
    /\ \/ phase' = "exited"
       \/ (env.bootstrap => Local(env)) /\ phase' = "serving"
    /\ UNCHANGED <<env, now, issuer, cache, req, lag>>

\* The one rule that is made; the environment sets none of its own.  With the
\* local bootstrap it is the maintainer's, else that of production, with or
\* without the shell plane.
buildPolicyDefaults(e) ==
    {"read", "write"} \cup
    (IF e.escape \/ (e.bootstrap /\ Local(e))
     THEN {"cli", "shell", "fileRead", "fileWrite", "sudo"} ELSE {})

\* Every rule that matches the target replaces the permissions found so far,
\* and the one rule there is matches every target.
getPolicy(e) == buildPolicyDefaults(e)

Listens(via) ==
    /\ phase = "serving"
    /\ env.mode \in {via, "both"}

-----------------------------------------------------------------------------
(* Scopes, policy, audit. *)

\* Of a name that ends neither in a verb of change nor is listed: read.
scopesForTool(tool) ==
    CASE tool \in {"change", "put", "cancel"} -> "mutate"
      [] tool = "shell" -> "escape"
      [] OTHER -> "read"

\* What assertApiAccess, assertShellAccess, assertFileAccess and assertSudoAccess
\* ask for.
Needs(what) ==
    CASE what = "get" -> {"read"}
      [] what \in {"change", "update"} -> {"write"}
      [] what = "shell" -> {"shell", "sudo"}
      [] what = "inspect" -> {"shell"}
      [] what = "put" -> {"shell", "fileWrite"}
      [] OTHER -> {}

Answered(q, answer) == [q EXCEPT !.pc = "done", !.keys = {}, !.answer = answer]

\* Mutant: a call without authInfo is taken for a local one.
wrapRegisterTool_Trusts(q) ==
    env.auth = "oidc" => \A t \in q.token : scopesForTool(q.what) \in t.scopes

\* The wrapper of every tool: with OIDC a call needs authInfo and its scope.
wrapRegisterTool(q) ==
    env.auth = "oidc" => \E t \in q.token : scopesForTool(q.what) \in t.scopes

\* A tool goes through the wrapper, a resource does not.
Handle(q) ==
    IF q.what \in Tools /\ ~wrapRegisterTool(q)
    THEN Answered(Idle, "result")
    ELSE [q EXCEPT !.pc = IF q.what \in Unrecorded THEN "send" ELSE "asked", !.keys = {}]

\* Where is the VM?  A call that names the node does not ask; a lookup is a request
\* of its own, and may fail.
getVmLocation(r) ==
    /\ req[r].pc = "asked" /\ req[r].what \in Locating
    /\ LET looked == [req[r] EXCEPT !.done = @ \cup {"looked"}]
       IN  req' \in {[req EXCEPT ![r] = q] : q \in {looked, Answered(looked, "result")}}
    /\ UNCHANGED <<startup, now, issuer, cache, lag>>

\* The policy allows the call, or it fails.
assertAccess(r) ==
    /\ req[r].pc = "asked"
    /\ req' = [req EXCEPT ![r] = IF Needs(@.what) \subseteq getPolicy(env)
                                 THEN [@ EXCEPT !.pc = "audit"] ELSE Answered(@, "result")]
    /\ UNCHANGED <<startup, now, issuer, cache, lag>>

\* audit.record ...
AuditRecord(r) ==
    /\ req[r].pc = "audit"
    /\ req' = [req EXCEPT ![r].pc = "send", ![r].done = @ \cup {"logged"}]
    /\ UNCHANGED <<startup, now, issuer, cache, lag>>

\* ... and a record that cannot be written fails the call.
AuditFails(r) ==
    /\ req[r].pc = "audit"
    /\ req' = [req EXCEPT ![r] = Answered(@, "result")]
    /\ UNCHANGED <<startup, now, issuer, cache, lag>>

\* The requests to Proxmox or the command are sent, and the call ends with what
\* comes of it.
Send(r) ==
    /\ req[r].pc = "send"
    /\ LET sent == [req[r] EXCEPT !.done = @ \cup {"effect"}]
       IN  req' = [req EXCEPT ![r] = Answered(sent, "result")]
    /\ UNCHANGED <<startup, now, issuer, cache, lag>>

-----------------------------------------------------------------------------
(* Bearer tokens. *)

\* Checked when the request arrives, and never again; a token may say nothing of
\* its time.
validateClaims(t) ==
    /\ t.aud
    /\ t.exp # None => now - Skew < t.exp
    /\ t.nbf # None => now + Skew >= t.nbf

\* The keys of the set whose key id is not another than the token's: all of them if
\* it has none, and always those without one.
selectCandidateKeys(keys, t) ==
    IF t.kid = None THEN keys ELSE keys \cap ({t.kid} \cup nameless)

\* Mutant: a key that cannot be used to verify counts as one that did.
Verified_AnyCandidate(q, keys) ==
    IF \E t \in q.token : selectCandidateKeys(keys, t) = {}
    THEN Answered(q, "401")
    ELSE [q EXCEPT !.pc = "body", !.keys = {}, !.done = {"verified"}]

\* A candidate's signature decides.
Verified(q, keys) ==
    IF \E t \in q.token : t.signer \notin selectCandidateKeys(keys, t)
    THEN Answered(q, "401")
    ELSE [q EXCEPT !.pc = "body", !.keys = {}, !.done = {"verified"}]

\* Mutant: an entry is used for one moment longer.
Usable_Inclusive == {e \in cache : now - e.fetchedAt <= Ttl}

Usable == {e \in cache : now - e.fetchedAt < Ttl}

\* A young entry is used; otherwise the key set is fetched.  The discovery
\* document that may have to be fetched first only adds to the delay.
getJwks(r, q) ==
    /\ \/ /\ Usable = {}
          /\ req' = [req EXCEPT ![r] = [q EXCEPT !.pc = "fetch"]]
       \/ \E e \in Usable : req' = [req EXCEPT ![r] = Verified(q, e.keys)]
    /\ UNCHANGED cache

\* The issuer answers the request for its key set ...
JwksAnswered(r) ==
    /\ req[r].pc = "fetch"
    /\ req' = [req EXCEPT ![r].pc = "answered", ![r].keys = published]
    /\ UNCHANGED <<startup, now, issuer, cache, lag>>

\* ... or the fetch fails, and with it the authentication.
JwksFails(r) ==
    /\ req[r].pc \in {"fetch", "answered"}
    /\ req' = [req EXCEPT ![r] = Answered(Idle, "401")]
    /\ UNCHANGED <<startup, now, issuer, cache, lag>>

\* Mutant: a fetched set is added to the entries held.
JwksStored_Adds(r) ==
    /\ req[r].pc = "answered"
    /\ cache' = cache \cup {[fetchedAt |-> now, keys |-> req[r].keys]}
    /\ req' = [req EXCEPT ![r] = Verified(@, @.keys)]
    /\ lag' = IF now - req[r].began > lag THEN now - req[r].began ELSE lag
    /\ UNCHANGED <<startup, now, issuer>>

\* The answer arrives and replaces what is stored, with the time of arrival.
JwksStored(r) ==
    /\ req[r].pc = "answered"
    /\ cache' = {[fetchedAt |-> now, keys |-> req[r].keys]}
    /\ req' = [req EXCEPT ![r] = Verified(@, @.keys)]
    /\ lag' = IF now - req[r].began > lag THEN now - req[r].began ELSE lag
    /\ UNCHANGED <<startup, now, issuer>>

-----------------------------------------------------------------------------
(* Requests. *)

\* A request for the metadata or another path is answered at once, one without
\* a bearer token too.
Refuse(r, answer) ==
    /\ Listens("http") /\ req[r].pc = "free"
    /\ req' = [req EXCEPT ![r] = Answered(Idle, answer)]
    /\ UNCHANGED <<startup, now, issuer, cache, lag>>

\* A request with a token: authenticateRequest up to its first await.
Request(r, t) ==
    /\ Listens("http") /\ req[r].pc = "free"
    /\ LET q == [Idle EXCEPT !.token = {t}, !.began = now]
       IN  IF validateClaims(t)
           THEN getJwks(r, q)
           ELSE req' = [req EXCEPT ![r] = Answered(q, "401")] /\ UNCHANGED cache
    /\ UNCHANGED <<startup, now, issuer, lag>>

\* Another method than GET, POST and DELETE is answered with 405 and a body that
\* does not parse with 500.  The transport (external) gets the rest: it answers
\* by itself or calls the tool or resource named in the body.
Dispatch(r) ==
    /\ req[r].pc = "body"
    /\ \/ req' = [req EXCEPT ![r] = Answered(Idle, "other")]
       \/ \E what \in Asked :
              r \in Followed /\ req' = [req EXCEPT ![r] = Handle([@ EXCEPT !.what = what])]
    /\ UNCHANGED <<startup, now, issuer, cache, lag>>

\* A call on stdin carries no authInfo.
StdioCall(r, what) ==
    /\ Listens("stdio") /\ req[r].pc = "free" /\ r \in Followed
    /\ req' = [req EXCEPT ![r] =
           Handle([Idle EXCEPT !.via = "stdio", !.what = what])]
    /\ UNCHANGED <<startup, now, issuer, cache, lag>>

Forget(r) ==
    /\ req[r].pc = "done"
    /\ req' = [req EXCEPT ![r] = Idle]
    /\ UNCHANGED <<startup, now, issuer, cache, lag>>

\* Published when the key set is answered, withdrawn when it is no longer.
Turn(k) ==
    /\ phase = "serving"
    /\ published' = IF k \in published THEN published \ {k} ELSE published \cup {k}
    /\ turned' = [turned EXCEPT ![k] = now]
    /\ UNCHANGED <<startup, now, nameless, cache, req, lag>>

Tick ==
    /\ phase = "serving" /\ now < MaxTime /\ now' = now + 1
    /\ UNCHANGED <<startup, issuer, cache, req, lag>>

\* Signed by a key of the issuer, and just within the limits in time.
RightTokens ==
    {[signer |-> k, kid |-> k, aud |-> TRUE, exp |-> now - Skew + 1, nbf |-> now + Skew,
      scopes |-> Scopes] : k \in Keys}

\* The tokens presented at a moment: one signed by a key of the issuer, with the
\* right key id, another or none and at each side of its limits in time or with
\* none, or one signed by no key of the issuer.
Presented ==
    RightTokens
    \cup {[t EXCEPT !.scopes = {"read"}] : t \in RightTokens}
    \cup (UNION {{[t EXCEPT !.kid = k] : t \in RightTokens} : k \in {None, "other"}})
    \cup {[t EXCEPT !.exp = None, !.nbf = None] : t \in RightTokens}
    \cup {[t EXCEPT !.signer = None] : t \in RightTokens}
    \cup {[t EXCEPT !.exp = @ - 1] : t \in RightTokens}
    \cup {[t EXCEPT !.nbf = @ + 1] : t \in RightTokens}
    \cup {[t EXCEPT !.aud = FALSE] : t \in RightTokens}

Progress(r) ==
    \/ JwksAnswered(r) \/ JwksFails(r) \/ JwksStored(r)
    \/ Dispatch(r) \/ getVmLocation(r) \/ assertAccess(r)
    \/ AuditRecord(r) \/ AuditFails(r) \/ Send(r)

Next ==
    \/ loadConfig \/ initializeRuntimeConfig
    \/ \E r \in Requests :
           \/ \E answer \in {"other", "401"} : Refuse(r, answer)
           \/ \E t \in Presented : (r \in Followed \/ t \in RightTokens) /\ Request(r, t)
           \/ \E what \in Asked : StdioCall(r, what)
           \/ Progress(r) \/ Forget(r)
    \/ \E k \in Keys : Turn(k)
    \/ Tick

Spec == Init /\ [][Next]_vars

-----------------------------------------------------------------------------
(* Properties. *)

\* A key the issuer has withdrawn is honoured no longer than the TTL and the
\* longest fetch after its withdrawal, however the fetches of requests overlap
\* and in whatever order their answers are stored; a key it never published
\* never is (JwksCache.getJwks, verifyToken).
KeyHonoured ==
    \A r \in Requests : \A t \in req[r].token :
        "verified" \in req[r].done =>
            /\ t.signer \in Keys
            /\ t.signer \in published \/ req[r].began < turned[t.signer] + Ttl + lag

\* The key that signed the token is a candidate wherever it is in the key set.
Signed(t) == t.signer \in Keys /\ (t.kid \in {None, t.signer} \/ t.signer \in nameless)

\* A token that is right at time began but for the keys of that time.
Genuine(t, began) ==
    /\ t.aud /\ Signed(t)
    /\ t.exp # None => t.exp > began - Skew
    /\ t.nbf # None => t.nbf <= began + Skew

\* After a rotation the new key is learned by itself: a rightly signed token is
\* refused only if its key was published within the TTL and the longest fetch
\* before, or the key set could not be fetched (http-auth.ts:198: an unknown
\* key id alone fetches nothing).
KeyLearned ==
    \A r \in Requests : \A t \in req[r].token :
        /\ req[r].answer = "401" /\ Genuine(t, req[r].began)
        /\ t.signer \in published
        => req[r].began < turned[t.signer] + Ttl + lag

\* Whatever reaches Proxmox came over stdio or in a request whose token was genuine
\* when it came, with the scope of the tool's name unless the maintainer is local;
\* with the local bootstrap it came from the maintainer.  Except for the requests
\* that are not recorded, the policy allowed it and the record was written before;
\* so a command on a node or in a guest is run only where the shell plane is
\* enabled.  A resource needs no scope (server.ts:60 wraps registerTool alone), and
\* reading the inventory, looking up a VM, reading and cancelling a task need no
\* policy and leave no record (services.ts:419-475, 580, 616-618).
EffectAuthorized ==
    \A r \in Requests :
        LET q == req[r]
        IN  /\ q.done \cap {"looked", "effect"} # {} =>
                   /\ q.via = "stdio" \/ \E t \in q.token : Genuine(t, q.began)
                   /\ \/ q.what = "resource" \/ Local(env)
                      \/ \E t \in q.token : scopesForTool(q.what) \in t.scopes
                   /\ env.bootstrap => Local(env)
            /\ "effect" \in q.done /\ q.what \notin Unrecorded =>
                   /\ "logged" \in q.done /\ Needs(q.what) \subseteq getPolicy(env)
                   /\ q.what \in {"shell", "put", "inspect"} => env.escape \/ env.bootstrap
=============================================================================
