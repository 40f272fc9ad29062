-------------------------- MODULE HttpAccessProofs --------------------------
(***************************************************************************)
(* Proofs about access for any number of calls and keys, any TTL, skew and *)
(* clock.  The invariant says, of each call by itself, what the checks it  *)
(* has passed so far established, and, of each key set in the cache or on  *)
(* its way to it, since when it may differ from the issuer's.              *)
(***************************************************************************)
EXTENDS HttpAccess, FiniteSetTheorems, TLAPS

\* What the startup checks leave of the environments.
StartupChecked ==
    /\ phase \in {"loaded", "serving"} => env.mode = "stdio" \/ env.auth = "oidc"
    /\ phase = "serving" /\ env.bootstrap => Local(env)

Claims(t, began) ==
    /\ t.aud
    /\ t.exp # None => t.exp > began - Skew
    /\ t.nbf # None => t.nbf <= began + Skew

\* Let through by the wrapper, or none of its business.
Handled(q) == q.pc \in {"asked", "audit", "send"} \/ q.done \cap {"looked", "effect"} # {}

\* About to send what policy and audit are asked about, or done with it.
Recorded(q) == (q.pc = "send" \/ "effect" \in q.done) /\ q.what \notin Unrecorded

\* What the checks that call q has passed so far established: it came in
\* through a listener there is, over HTTP with a token whose claims hold and whose
\* signature was verified before the body was looked at; a tool's scope is
\* checked before anything is sent, and policy and audit record come before the
\* effect.
CallChecked(q) ==
    /\ q.pc # "free" => phase = "serving"
    /\ q.pc # "done" => q.answer = "none"
    /\ q.pc \in {"fetch", "answered", "body"} =>
           q.via = "http" /\ \E t \in Tokens : q.token = {t}
    /\ q.pc \in {"fetch", "answered"} => q.done = {}
    /\ q.pc = "body" => q.done = {"verified"}
    /\ q.pc \in {"fetch", "answered", "body"} \/ Handled(q) =>
           /\ q.via = "http" => env.mode # "stdio"
           /\ \A t \in q.token : Claims(t, q.began)
    /\ "verified" \in q.done => \A t \in q.token : Signed(t)
    /\ Handled(q) /\ q.token # {} => "verified" \in q.done
    /\ Handled(q) =>
           /\ q.pc # "free"
           /\ q.via = "http" => q.token # {}
           /\ q.what \in Tools => wrapRegisterTool(q)
    /\ q.pc = "audit" \/ Recorded(q) => Needs(q.what) \subseteq getPolicy(env)
    /\ Recorded(q) => "logged" \in q.done

\* Does the key set differ from the issuer's in key k?
Differs(keys, k) == ~(k \in keys <=> k \in published)

\* Key k turned too recently for every call of that time to know of it.
Fresh(k, began) == began < turned[k] + Ttl + lag

\* What call q knows of the keys: an answer under way differs from the issuer's
\* key set only in keys that turned since the call began, and a verdict was
\* wrong only about a key that turned recently.
CallKeys(q) ==
    /\ q.began <= now
    /\ q.pc = "answered" => \A k \in Keys : Differs(q.keys, k) => q.began <= turned[k]
    /\ "verified" \in q.done =>
           \A t \in q.token : t.signer \in published \/ Fresh(t.signer, q.began)
    /\ q.answer = "401" =>
           \A t \in q.token : Genuine(t, q.began) /\ t.signer \in published
                                  => Fresh(t.signer, q.began)

\* An entry of the cache differs only in keys that turned since it was stored,
\* or at most the longest fetch before.
CacheKeys ==
    /\ \A k \in Keys : turned[k] <= now
    /\ \A e \in cache :
           /\ e.fetchedAt <= now
           /\ \A k \in Keys : Differs(e.keys, k) => e.fetchedAt <= turned[k] + lag

CallsInv == \A r \in Requests : CallChecked(req[r]) /\ CallKeys(req[r])

AccessInv == TypeOK /\ StartupChecked /\ CacheKeys /\ CallsInv

-----------------------------------------------------------------------------
(* The steps of one call. *)

\* The tokens that are presented have the claims and the types of tokens.
LEMMA PresentedTyped ==
    ASSUME now \in Times, NEW p \in Presented
    PROVE  p \in Tokens
<1>1. ASSUME NEW u \in RightTokens
      PROVE  u \in Tokens /\ u.exp - 1 \in -Skew..(MaxTime + 1) /\ u.nbf + 1 \in 0..(MaxTime + Skew + 1)
  <2>1. /\ now - Skew + 1 \in -Skew..(MaxTime + 1)
        /\ (now - Skew + 1) - 1 \in -Skew..(MaxTime + 1)
        /\ now + Skew \in 0..(MaxTime + Skew + 1)
        /\ (now + Skew) + 1 \in 0..(MaxTime + Skew + 1)
    BY TimesNat DEF Times
  <2>2. PICK k \in Keys :
            u = [signer |-> k, kid |-> k, aud |-> TRUE, exp |-> now - Skew + 1,
                 nbf |-> now + Skew, scopes |-> Scopes]
    BY <1>1 DEF RightTokens
  <2>3. u.exp = now - Skew + 1 /\ u.nbf = now + Skew
    BY <2>2
  <2>4. u \in Tokens
    BY <2>1, <2>2 DEF Tokens
  <2> QED
    BY <2>1, <2>3, <2>4
<1>2. CASE p \in RightTokens
  BY <1>1, <1>2
<1>3. CASE p \in {[t EXCEPT !.scopes = {"read"}] : t \in RightTokens}
  BY <1>1, <1>3 DEF Tokens, Scopes
<1>4. CASE p \in UNION {{[t EXCEPT !.kid = k] : t \in RightTokens} : k \in {None, "other"}}
  BY <1>1, <1>4 DEF Tokens, Scopes
<1>5. CASE p \in {[t EXCEPT !.signer = None] : t \in RightTokens}
  BY <1>1, <1>5 DEF Tokens, Scopes
<1>6. CASE p \in {[t EXCEPT !.exp = @ - 1] : t \in RightTokens}
  BY <1>1, <1>6 DEF Tokens, Scopes
<1>7. CASE p \in {[t EXCEPT !.nbf = @ + 1] : t \in RightTokens}
  BY <1>1, <1>7 DEF Tokens, Scopes
<1>8. CASE p \in {[t EXCEPT !.aud = FALSE] : t \in RightTokens}
  BY <1>1, <1>8 DEF Tokens, Scopes
<1>9. CASE p \in {[t EXCEPT !.exp = None, !.nbf = None] : t \in RightTokens}
  BY <1>1, <1>9 DEF Tokens, Scopes
<1> QED
  BY <1>2, <1>3, <1>4, <1>5, <1>6, <1>7, <1>8, <1>9 DEF Presented

\* A call whose token was looked at but not yet verified.
Arrived(q) ==
    /\ q \in Calls /\ phase = "serving" /\ env.mode # "stdio"
    /\ q.via = "http" /\ (\E t \in Tokens : q.token = {t}) /\ q.done = {} /\ q.answer = "none"
    /\ q.began <= now
    /\ \A t \in q.token : Claims(t, q.began)

\* verifyToken, with a key set that differs from the issuer's only in keys that
\* turned recently.
LEMMA VerifiedCall ==
    ASSUME TypeOK, NEW q, Arrived(q), NEW keys \in SUBSET Keys,
           \A k \in Keys : Differs(keys, k) => Fresh(k, q.began)
    PROVE  Verified(q, keys) \in Calls /\ CallChecked(Verified(q, keys)) /\ CallKeys(Verified(q, keys))
<1>1. CASE \E t \in q.token : t.signer \notin selectCandidateKeys(keys, t)
  <2>1. Verified(q, keys) = Answered(q, "401")
    BY <1>1 DEF Verified
  <2> DEFINE a == [q EXCEPT !.pc = "done", !.keys = {}, !.answer = "401"]
  <2>2. /\ a \in Calls
        /\ a.pc = "done" /\ a.answer = "401" /\ a.token = q.token /\ a.began = q.began
        /\ a.done = {}
    BY DEF Arrived, Calls, Answers
  <2>3. CallChecked(a)
    BY <2>2 DEF Arrived, CallChecked, Handled, Recorded
  <2>4. CallKeys(a)
    <3>1. ASSUME NEW t \in q.token, Genuine(t, q.began), t.signer \in published
          PROVE  Fresh(t.signer, q.began)
      BY <1>1, <3>1 DEF Arrived, Genuine, Signed, selectCandidateKeys, Differs
    <3> QED
      BY <2>2, <3>1 DEF Arrived, CallKeys
  <2> QED
    BY <2>1, <2>2, <2>3, <2>4 DEF Answered
<1>2. CASE \A t \in q.token : t.signer \in selectCandidateKeys(keys, t)
  <2> DEFINE b == [q EXCEPT !.pc = "body", !.keys = {}, !.done = {"verified"}]
  <2>1. Verified(q, keys) = b
    BY <1>2 DEF Verified
  <2>2. /\ b \in Calls
        /\ b.pc = "body" /\ b.answer = "none" /\ b.token = q.token /\ b.began = q.began
        /\ b.done = {"verified"} /\ b.via = "http"
    BY DEF Arrived, Calls, Answers
  <2>3. \A t \in q.token : t.signer \in keys /\ Signed(t)
    BY <1>2 DEF selectCandidateKeys, Signed
  <2>4. CallChecked(b)
    BY <2>2, <2>3 DEF Arrived, CallChecked, Handled, Recorded
  <2>5. CallKeys(b)
    BY <2>2, <2>3 DEF Arrived, CallKeys, Differs
  <2> QED
    BY <2>1, <2>2, <2>4, <2>5
<1> QED
  BY <1>1, <1>2

\* A call that is free, or has ended with nothing done, needs no check.
LEMMA IdleCall ==
    ASSUME TypeOK
    PROVE  /\ Idle \in Calls /\ CallChecked(Idle) /\ CallKeys(Idle)
           /\ \A answer \in Answers : phase = "serving" =>
                  /\ Answered(Idle, answer) \in Calls
                  /\ CallChecked(Answered(Idle, answer)) /\ CallKeys(Answered(Idle, answer))
<1>1. Idle \in Calls
  BY TimesNat DEF Idle, Calls, Asked, Tools, Answers, Times
<1>2. CallChecked(Idle) /\ CallKeys(Idle)
  BY DEF Idle, CallChecked, CallKeys, Handled, Recorded, TypeOK, Times
<1>3. ASSUME NEW answer \in Answers, phase = "serving"
      PROVE  /\ Answered(Idle, answer) \in Calls
             /\ CallChecked(Answered(Idle, answer)) /\ CallKeys(Answered(Idle, answer))
  <2> DEFINE a == Answered(Idle, answer)
  <2>1. /\ a \in Calls /\ a.pc = "done" /\ a.token = {} /\ a.began = 0 /\ a.done = {}
    BY <1>1 DEF Answered, Idle, Calls
  <2> HIDE DEF a
  <2>2. CallChecked(a) /\ CallKeys(a)
    BY <2>1, <1>3 DEF CallChecked, CallKeys, Handled, Recorded, TypeOK, Times
  <2> QED
    BY <2>1, <2>2 DEF a
<1> QED
  BY <1>1, <1>2, <1>3

\* A call that may be handled: a local one, or one with a verified token.
Vetted(q) ==
    /\ q \in Calls /\ phase = "serving" /\ q.answer = "none"
    /\ q.done \in SUBSET {"verified"}
    /\ q.via = "http" => env.mode # "stdio" /\ q.token # {}
    /\ q.began <= now
    /\ q.token # {} => "verified" \in q.done
    /\ \A t \in q.token :
           Claims(t, q.began) /\ Signed(t) /\ (t.signer \in published \/ Fresh(t.signer, q.began))

\* A tool whose scope the token lacks is not called; policy and audit come next,
\* where they come at all.
LEMMA HandledCall ==
    ASSUME TypeOK, NEW q, Vetted(q)
    PROVE  Handle(q) \in Calls /\ CallChecked(Handle(q)) /\ CallKeys(Handle(q))
<1>1. CASE q.what \in Tools => wrapRegisterTool(q)
  <2>1. PICK pc \in {"asked", "send"} :
            /\ pc = IF q.what \in Unrecorded THEN "send" ELSE "asked"
            /\ Handle(q) = [q EXCEPT !.pc = pc, !.keys = {}]
    BY <1>1 DEF Handle
  <2>2. PICK a : a = [q EXCEPT !.pc = pc, !.keys = {}]
    OBVIOUS
  <2>3. /\ a \in Calls /\ a.pc = pc /\ a.via = q.via /\ a.token = q.token
        /\ a.began = q.began /\ a.done = q.done /\ a.what = q.what /\ a.answer = "none"
    BY <2>1, <2>2 DEF Vetted, Calls
  <2>4. q.what \in Tools => wrapRegisterTool(a)
    BY <1>1, <2>3 DEF wrapRegisterTool
  <2>5. CallChecked(a)
    BY <2>1, <2>3, <2>4 DEF Vetted, CallChecked, Handled, Recorded
  <2>6. CallKeys(a)
    BY <2>1, <2>3 DEF Vetted, CallKeys
  <2> QED
    BY <2>1, <2>2, <2>3, <2>5, <2>6
<1>2. CASE q.what \in Tools /\ ~wrapRegisterTool(q)
  BY <1>2, IdleCall DEF Handle, Vetted, Answers
<1> QED
  BY <1>1, <1>2

\* What a step of call r leaves: another call for which the checks hold.
Moves(r) ==
    /\ \E q \in Calls : req' = [req EXCEPT ![r] = q] /\ CallChecked(q) /\ CallKeys(q)
    /\ UNCHANGED <<startup, now, issuer>>

\* A new request or call is answered, verified with a young key set, or waits
\* for one.
LEMMA NewCallMoves ==
    ASSUME AccessInv, NEW r \in Requests
    PROVE  /\ \A answer \in {"other", "401"} : Refuse(r, answer) => Moves(r)
           /\ \A t \in Presented : Request(r, t) => Moves(r)
           /\ \A what \in Asked : StdioCall(r, what) => Moves(r)
<1> USE DEF AccessInv
<1>1. ASSUME NEW answer \in {"other", "401"}, Refuse(r, answer)
      PROVE  Moves(r)
  BY <1>1, IdleCall DEF Refuse, Listens, Moves, Answers
<1>2. ASSUME NEW t \in Presented, Request(r, t)
      PROVE  Moves(r)
  <2> DEFINE q == [Idle EXCEPT !.token = {t}, !.began = now]
  <2>1. phase = "serving" /\ env.mode # "stdio" /\ UNCHANGED <<startup, now, issuer>>
    BY <1>2 DEF Request, Listens, TypeOK, Environments
  <2>2. t \in Tokens
    BY PresentedTyped DEF TypeOK
  <2>3. /\ q \in Calls /\ q.pc = "free" /\ q.via = "http" /\ q.token = {t} /\ q.began = now
        /\ q.done = {} /\ q.answer = "none"
    BY <2>2, IdleCall DEF Idle, Calls, TypeOK
  <2>4. /\ validateClaims(t) => getJwks(r, q)
        /\ ~validateClaims(t) => req' = [req EXCEPT ![r] = Answered(q, "401")]
    BY <1>2 DEF Request
  <2> HIDE DEF q
  <2>5. CASE ~validateClaims(t)
    <3> DEFINE a == Answered(q, "401")
    <3>1. /\ a \in Calls /\ a.pc = "done" /\ a.token = {t} /\ a.began = now /\ a.done = {}
      BY <2>3 DEF Answered, Calls, Answers
    <3>2. req' = [req EXCEPT ![r] = a]
      BY <2>4, <2>5
    <3> HIDE DEF a
    <3>3. ~Genuine(t, now)
      BY <2>2, <2>5, TimesNat DEF validateClaims, Genuine, Tokens, TypeOK, Times
    <3>4. CallChecked(a) /\ CallKeys(a)
      BY <2>1, <3>1, <3>3 DEF CallChecked, CallKeys, Handled, Recorded, TypeOK, Times
    <3> QED
      BY <2>1, <3>1, <3>2, <3>4 DEF Moves
  <2>6. CASE validateClaims(t)
    <3>1. Claims(t, now)
      BY <2>2, <2>6, TimesNat DEF validateClaims, Claims, Tokens, TypeOK, Times
    <3>2. Arrived(q)
      BY <2>1, <2>2, <2>3, <3>1 DEF Arrived, TypeOK, Times
    <3>3. CASE req' = [req EXCEPT ![r] = [q EXCEPT !.pc = "fetch"]]
      <4> DEFINE a == [q EXCEPT !.pc = "fetch"]
      <4>1. /\ a \in Calls /\ a.pc = "fetch" /\ a.via = "http" /\ a.token = {t}
            /\ a.began = now /\ a.done = {} /\ a.answer = "none"
        BY <2>3 DEF Calls
      <4> HIDE DEF a
      <4>2. CallChecked(a) /\ CallKeys(a)
        BY <2>1, <2>2, <3>1, <4>1 DEF CallChecked, CallKeys, Handled, Recorded, TypeOK, Times
      <4> QED
        BY <2>1, <3>3, <4>1, <4>2 DEF Moves, a
    <3>4. ASSUME NEW e \in Usable, req' = [req EXCEPT ![r] = Verified(q, e.keys)]
          PROVE  Moves(r)
      <4>1. e.keys \in SUBSET Keys /\ e.fetchedAt \in Nat /\ now - e.fetchedAt < Ttl
            /\ \A k \in Keys : Differs(e.keys, k) => e.fetchedAt <= turned[k] + lag
        BY <3>4 DEF Usable, TypeOK, Times, CacheKeys
      <4>2. \A k \in Keys : Differs(e.keys, k) => Fresh(k, q.began)
        BY <2>3, <4>1, TimesNat DEF Fresh, TypeOK, Times, LongAgo
      <4> QED
        BY <2>1, <3>2, <3>4, <4>1, <4>2, VerifiedCall DEF Moves
    <3> QED
      BY <2>4, <2>6, <3>3, <3>4 DEF getJwks
  <2> QED
    BY <2>5, <2>6
<1>3. ASSUME NEW what \in Asked, StdioCall(r, what)
      PROVE  Moves(r)
  <2> DEFINE q == [Idle EXCEPT !.via = "stdio", !.what = what]
  <2>1. /\ q \in Calls /\ q.via = "stdio" /\ q.token = {} /\ q.began = 0
        /\ q.done = {} /\ q.answer = "none"
    BY IdleCall DEF Idle, Calls, TypeOK
  <2>2. req' = [req EXCEPT ![r] = Handle(q)] /\ phase = "serving" /\ UNCHANGED <<startup, now, issuer>>
    BY <1>3 DEF StdioCall, Listens
  <2> HIDE DEF q
  <2>3. Vetted(q)
    BY <2>1, <2>2 DEF Vetted, TypeOK, Times
  <2> QED
    BY <2>2, <2>3, HandledCall DEF Moves
<1> QED
  BY <1>1, <1>2, <1>3

\* Every later step of a call keeps to the order of the checks.
LEMMA LaterCallMoves ==
    ASSUME AccessInv, NEW r \in Requests, Progress(r) \/ Forget(r)
    PROVE  Moves(r)
<1> USE DEF AccessInv
<1> DEFINE c == req[r]
<1>1. c \in Calls /\ CallChecked(c) /\ CallKeys(c)
  BY DEF TypeOK, CallsInv
<1>2. ASSUME NEW answer \in Answers, c.pc # "free", req' = [req EXCEPT ![r] = Answered(Idle, answer)],
             UNCHANGED <<startup, now, issuer>>
      PROVE  Moves(r)
  BY <1>1, <1>2, IdleCall DEF CallChecked, Moves
<1>3. CASE JwksAnswered(r)
  <2> DEFINE q == [c EXCEPT !.pc = "answered", !.keys = published]
  <2>1. req' = [req EXCEPT ![r] = q] /\ c.pc = "fetch" /\ UNCHANGED <<startup, now, issuer>>
    BY <1>3 DEF JwksAnswered, TypeOK
  <2>2. /\ q \in Calls /\ q.pc = "answered" /\ q.keys = published /\ q.via = c.via
        /\ q.token = c.token /\ q.began = c.began /\ q.done = c.done /\ q.answer = c.answer
    BY <1>1 DEF Calls, TypeOK
  <2> HIDE DEF q, c
  <2>3. CallChecked(q) /\ CallKeys(q)
    BY <1>1, <2>1, <2>2 DEF CallChecked, CallKeys, Handled, Recorded, Differs
  <2> QED
    BY <2>1, <2>2, <2>3 DEF Moves
<1>4. CASE JwksFails(r)
  BY <1>2, <1>4 DEF JwksFails, Answers
<1>5. CASE JwksStored(r)
  <2>1. c.pc = "answered" /\ req' = [req EXCEPT ![r] = Verified(c, c.keys)]
        /\ UNCHANGED <<startup, now, issuer>>
    BY <1>5 DEF JwksStored, TypeOK
  <2> HIDE DEF c
  <2>2. Arrived(c)
    BY <1>1, <2>1, TimesNat DEF Arrived, CallChecked, CallKeys
  <2>3. c.keys \in SUBSET Keys /\ c.began \in Nat
    BY <1>1 DEF Calls, Times
  <2>4. \A k \in Keys : Differs(c.keys, k) => Fresh(k, c.began)
    <3> SUFFICES ASSUME NEW k \in Keys, Differs(c.keys, k)
                 PROVE  Fresh(k, c.began)
      OBVIOUS
    <3>1. c.began <= turned[k]
      BY <1>1, <2>1 DEF CallKeys
    <3> QED
      BY <2>3, <3>1, TimesNat DEF Fresh, TypeOK, Times, LongAgo
  <2> QED
    BY <2>1, <2>2, <2>3, <2>4, VerifiedCall DEF Moves
<1>6. CASE Dispatch(r)
  <2>1. c.pc = "body" /\ UNCHANGED <<startup, now, issuer>>
    BY <1>6 DEF Dispatch
  <2>2. CASE req' = [req EXCEPT ![r] = Answered(Idle, "other")]
    BY <1>2, <2>1, <2>2 DEF Answers
  <2>3. ASSUME NEW what \in Asked, req' = [req EXCEPT ![r] = Handle([c EXCEPT !.what = what])]
        PROVE  Moves(r)
    <3> DEFINE q == [c EXCEPT !.what = what]
    <3>1. /\ q \in Calls /\ q.via = c.via /\ q.token = c.token /\ q.began = c.began
          /\ q.done = c.done /\ q.answer = c.answer
      BY <1>1 DEF Calls
    <3> HIDE DEF q, c
    <3>2. q.done \in SUBSET {"verified"}
      BY <1>1, <2>1, <3>1 DEF CallChecked
    <3>3. Vetted(q)
      BY <1>1, <2>1, <3>1, <3>2 DEF Vetted, CallChecked, CallKeys
    <3> QED
      BY <2>1, <2>3, <3>3, HandledCall DEF Moves, q
  <2> QED
    BY <1>6, <2>2, <2>3 DEF Dispatch, TypeOK
<1>7. ASSUME NEW q \in Calls, c.pc \in {"asked", "audit", "send"},
             /\ q.via = c.via /\ q.what = c.what /\ q.token = c.token /\ q.began = c.began
             /\ c.done \subseteq q.done /\ ("verified" \in q.done => "verified" \in c.done)
             /\ q.pc \in {"asked", "audit", "send", "done"}
             /\ q.pc # "done" => q.answer = "none"
             /\ q.answer # "401"
             /\ q.pc = "audit" \/ Recorded(q) => Needs(q.what) \subseteq getPolicy(env)
             /\ Recorded(q) => "logged" \in q.done,
             req' = [req EXCEPT ![r] = q], UNCHANGED <<startup, now, issuer>>
      PROVE  Moves(r)
  <2>1. Handled(c) /\ (wrapRegisterTool(c) => wrapRegisterTool(q))
    BY <1>7 DEF Handled, wrapRegisterTool
  <2>2. CallChecked(q)
    BY <1>1, <1>7, <2>1 DEF CallChecked
  <2>3. CallKeys(q)
    BY <1>1, <1>7 DEF CallKeys
  <2> QED
    BY <1>7, <2>2, <2>3 DEF Moves
<1>8. CASE getVmLocation(r)
  <2>1. PICK a : a = [c EXCEPT !.done = c.done \cup {"looked"}]
    OBVIOUS
  <2>2. PICK b : b = [a EXCEPT !.pc = "done", !.keys = {}, !.answer = "result"]
    OBVIOUS
  <2>3. /\ c.pc = "asked" /\ UNCHANGED <<startup, now, issuer>>
        /\ req' = [req EXCEPT ![r] = a] \/ req' = [req EXCEPT ![r] = b]
    BY <1>8, <2>1, <2>2 DEF getVmLocation, Answered, TypeOK
  <2>4. /\ a \in Calls /\ a.pc = "asked" /\ a.via = c.via /\ a.what = c.what
        /\ a.token = c.token /\ a.began = c.began /\ a.answer = c.answer
        /\ a.done = c.done \cup {"looked"}
    BY <1>1, <2>1, <2>3 DEF Calls
  <2>5. /\ b \in Calls /\ b.pc = "done" /\ b.via = c.via /\ b.what = c.what
        /\ b.token = c.token /\ b.began = c.began /\ b.answer = "result"
        /\ b.done = c.done \cup {"looked"}
    BY <2>2, <2>4 DEF Calls, Answers
  <2>6. Recorded(c) => Needs(c.what) \subseteq getPolicy(env) /\ "logged" \in c.done
    BY <1>1 DEF CallChecked
  <2> HIDE DEF c
  <2>7. c.answer = "none"
    BY <1>1, <2>3 DEF CallChecked
  <2>8. Recorded(a) \/ Recorded(b) => Recorded(c)
    BY <2>4, <2>5 DEF Recorded
  <2> QED
    BY <1>7, <2>3, <2>4, <2>5, <2>6, <2>7, <2>8
<1>9. CASE assertAccess(r)
  <2>1. PICK a : a = [c EXCEPT !.pc = "audit"]
    OBVIOUS
  <2>2. PICK b : b = [c EXCEPT !.pc = "done", !.keys = {}, !.answer = "result"]
    OBVIOUS
  <2>3. /\ c.pc = "asked" /\ UNCHANGED <<startup, now, issuer>>
        /\ \/ req' = [req EXCEPT ![r] = a] /\ Needs(c.what) \subseteq getPolicy(env)
           \/ req' = [req EXCEPT ![r] = b]
    BY <1>9, <2>1, <2>2 DEF assertAccess, Answered, TypeOK
  <2>4. /\ a \in Calls /\ a.pc = "audit" /\ a.via = c.via /\ a.what = c.what
        /\ a.token = c.token /\ a.began = c.began /\ a.answer = c.answer /\ a.done = c.done
    BY <1>1, <2>1 DEF Calls
  <2>5. /\ b \in Calls /\ b.pc = "done" /\ b.via = c.via /\ b.what = c.what
        /\ b.token = c.token /\ b.began = c.began /\ b.answer = "result" /\ b.done = c.done
    BY <1>1, <2>2 DEF Calls, Answers
  <2>6. Recorded(c) => Needs(c.what) \subseteq getPolicy(env) /\ "logged" \in c.done
    BY <1>1 DEF CallChecked
  <2> HIDE DEF c
  <2>7. c.answer = "none"
    BY <1>1, <2>3 DEF CallChecked
  <2>8. Recorded(a) \/ Recorded(b) => Recorded(c)
    BY <2>4, <2>5 DEF Recorded
  <2> QED
    BY <1>7, <2>3, <2>4, <2>5, <2>6, <2>7, <2>8
<1>10. CASE AuditRecord(r)
  <2>1. PICK a : a = [c EXCEPT !.pc = "send", !.done = c.done \cup {"logged"}]
    OBVIOUS
  <2>2. c.pc = "audit" /\ req' = [req EXCEPT ![r] = a] /\ UNCHANGED <<startup, now, issuer>>
    BY <1>10, <2>1 DEF AuditRecord, TypeOK
  <2>3. /\ a \in Calls /\ a.pc = "send" /\ a.via = c.via /\ a.what = c.what
        /\ a.token = c.token /\ a.began = c.began /\ a.answer = c.answer
        /\ a.done = c.done \cup {"logged"}
    BY <1>1, <2>1 DEF Calls
  <2>4. Needs(c.what) \subseteq getPolicy(env) /\ c.answer = "none"
    BY <1>1, <2>2 DEF CallChecked
  <2> HIDE DEF c
  <2> QED
    BY <1>7, <2>2, <2>3, <2>4
<1>11. CASE AuditFails(r)
  <2>1. PICK b : b = [c EXCEPT !.pc = "done", !.keys = {}, !.answer = "result"]
    OBVIOUS
  <2>2. c.pc = "audit" /\ req' = [req EXCEPT ![r] = b] /\ UNCHANGED <<startup, now, issuer>>
    BY <1>11, <2>1 DEF AuditFails, Answered, TypeOK
  <2>3. /\ b \in Calls /\ b.pc = "done" /\ b.via = c.via /\ b.what = c.what
        /\ b.token = c.token /\ b.began = c.began /\ b.answer = "result" /\ b.done = c.done
    BY <1>1, <2>1 DEF Calls, Answers
  <2>4. Recorded(c) => Needs(c.what) \subseteq getPolicy(env) /\ "logged" \in c.done
    BY <1>1 DEF CallChecked
  <2> HIDE DEF c
  <2>5. Recorded(b) => Recorded(c)
    BY <2>3 DEF Recorded
  <2> QED
    BY <1>7, <2>2, <2>3, <2>4, <2>5
<1>12. CASE Send(r)
  <2>1. PICK a : a = [c EXCEPT !.done = c.done \cup {"effect"}]
    OBVIOUS
  <2> DEFINE b == [a EXCEPT !.pc = "done", !.keys = {}, !.answer = "result"]
  <2>2. c.pc = "send" /\ req' = [req EXCEPT ![r] = b] /\ UNCHANGED <<startup, now, issuer>>
    BY <1>12, <2>1 DEF Send, Answered, TypeOK
  <2>3. /\ b \in Calls /\ b.pc = "done" /\ b.via = c.via /\ b.what = c.what
        /\ b.token = c.token /\ b.began = c.began /\ b.answer = "result"
        /\ b.done = c.done \cup {"effect"}
    BY <1>1, <2>1 DEF Calls, Answers
  <2>4. Recorded(c) => Needs(c.what) \subseteq getPolicy(env) /\ "logged" \in c.done
    BY <1>1 DEF CallChecked
  <2> HIDE DEF c, b
  <2>5. Recorded(b) => Recorded(c)
    BY <2>2, <2>3 DEF Recorded
  <2> QED
    BY <1>7, <2>2, <2>3, <2>4, <2>5
<1>13. CASE Forget(r)
  BY <1>13, IdleCall DEF Forget, Moves
<1> QED
  BY <1>3, <1>4, <1>5, <1>6, <1>8, <1>9, <1>10, <1>11, <1>12, <1>13 DEF Progress

-----------------------------------------------------------------------------
(* Every step keeps the invariant. *)

\* A verdict on a key that turned recently stays one on a recent key when a
\* fetch takes longer.
LEMMA LagGrows ==
    ASSUME TypeOK, NEW q \in Calls, CallKeys(q), CallChecked(q), UNCHANGED <<startup, now, issuer>>,
           lag' \in Times, lag <= lag'
    PROVE  CallKeys(q)' /\ CallChecked(q)'
<1>1. \A k \in Keys : Fresh(k, q.began) => Fresh(k, q.began)'
  BY TimesNat DEF Fresh, Calls, TypeOK, Times, LongAgo, issuer
<1>2. CallChecked(q)'
  BY DEF CallChecked, Handled, Recorded, wrapRegisterTool, Signed, startup, issuer
<1>3. "verified" \in q.done =>
          \A t \in q.token : t.signer \in published \/ Fresh(t.signer, q.began)'
  BY <1>1 DEF CallKeys, CallChecked, Signed
<1>4. \A t \in q.token : q.answer = "401" /\ Genuine(t, q.began) /\ t.signer \in published
          => Fresh(t.signer, q.began)'
  BY <1>1 DEF CallKeys, Genuine, Signed
<1> QED
  BY <1>2, <1>3, <1>4 DEF CallKeys, Differs, Genuine, Signed, issuer

\* A step of a call that leaves the cache alone keeps the invariant.
LEMMA CallStep ==
    ASSUME AccessInv, NEW r \in Requests, Moves(r), lag' \in Times, lag <= lag'
    PROVE  CallsInv' /\ req' \in [Requests -> Calls]
<1> USE DEF AccessInv
<1>1. PICK q \in Calls : req' = [req EXCEPT ![r] = q] /\ CallChecked(q) /\ CallKeys(q)
  BY DEF Moves
<1>2. req' \in [Requests -> Calls]
  BY <1>1 DEF TypeOK
<1>3. ASSUME NEW s \in Requests
      PROVE  req'[s] \in Calls /\ CallChecked(req'[s]) /\ CallKeys(req'[s])
  BY <1>1 DEF TypeOK, CallsInv
<1>4. ASSUME NEW s \in Requests
      PROVE  (CallChecked(req[s]) /\ CallKeys(req[s]))'
  <2>1. PICK x \in Calls : x = req'[s] /\ CallChecked(x) /\ CallKeys(x)
    BY <1>3
  <2>2. CallChecked(x)' /\ CallKeys(x)'
    BY <2>1, LagGrows DEF Moves
  <2> QED
    BY <2>1, <2>2 DEF CallChecked, CallKeys, Handled, Recorded, wrapRegisterTool, Signed, Fresh
<1> QED
  BY <1>2, <1>4 DEF CallsInv

\* No call is under way while the process starts.
LEMMA StartupStep ==
    ASSUME AccessInv, loadConfig \/ initializeRuntimeConfig
    PROVE  AccessInv'
<1> USE DEF AccessInv, loadConfig, initializeRuntimeConfig, issuer
<1>1. TypeOK' /\ StartupChecked'
  BY DEF TypeOK, StartupChecked, Local
<1>2. CacheKeys'
  BY DEF CacheKeys, Differs
<1>3. ASSUME NEW r \in Requests
      PROVE  (CallChecked(req[r]) /\ CallKeys(req[r]))'
  <2>1. CallChecked(req[r]) /\ CallKeys(req[r])
    BY DEF CallsInv
  <2>2. CallKeys(req[r])'
    BY <2>1 DEF CallKeys, Differs, Fresh, Genuine, Signed
  <2>3. req[r].pc = "free"
    BY <2>1 DEF CallChecked
  <2> QED
    BY <2>1, <2>2, <2>3 DEF CallChecked, Handled, Recorded, wrapRegisterTool, Signed
<1> QED
  BY <1>1, <1>2, <1>3 DEF CallsInv

\* A key that turns does so now, after every call under way has begun and every
\* entry was stored.
LEMMA TurnStep ==
    ASSUME AccessInv, NEW k \in Keys, Turn(k)
    PROVE  AccessInv'
<1> USE DEF AccessInv, Turn, startup
<1>1. TypeOK' /\ StartupChecked'
  BY DEF TypeOK, StartupChecked, Local
<1>2. \A m \in Keys : /\ turned'[m] \in Int /\ turned[m] \in Int /\ turned[m] <= turned'[m]
                      /\ m # k => (m \in published' <=> m \in published)
      /\ turned'[k] = now
  BY TimesNat DEF TypeOK, Times, LongAgo, CacheKeys
<1>3. CacheKeys'
  <2> SUFFICES ASSUME NEW e \in cache, NEW m \in Keys, Differs(e.keys, m)'
               PROVE  e.fetchedAt <= turned'[m] + lag
    BY <1>1, <1>2 DEF CacheKeys, TypeOK, Times
  <2>1. e.fetchedAt \in Nat /\ e.fetchedAt <= now /\ lag \in Nat /\ now \in Nat
    BY DEF CacheKeys, TypeOK, Times
  <2>2. CASE m = k
    BY <1>2, <2>1, <2>2
  <2>3. CASE m # k
    BY <1>2, <2>1, <2>3 DEF CacheKeys, Differs
  <2> QED
    BY <2>2, <2>3
<1>4. ASSUME NEW r \in Requests
      PROVE  (CallChecked(req[r]) /\ CallKeys(req[r]))'
  <2>1. PICK q \in Calls : q = req[r] /\ CallChecked(q) /\ CallKeys(q)
    BY DEF CallsInv, TypeOK
  <2>2. CallChecked(req[r])'
    BY <2>1 DEF CallChecked, Handled, Recorded, wrapRegisterTool, Signed
  <2>3. q.began \in Nat /\ now \in Nat /\ lag \in Nat /\ Ttl \in Nat \ {0} /\ q.began <= now
    BY <2>1, TimesNat DEF Calls, TypeOK, Times, CallKeys
  <2>4. \A m \in Keys : m = k \/ Fresh(m, q.began) => Fresh(m, q.began)'
    BY <1>2, <2>3 DEF Fresh
  <2>5. q.pc = "answered" => \A m \in Keys : Differs(q.keys, m)' => q.began <= turned'[m]
    BY <1>2, <2>1, <2>3 DEF CallKeys, Differs
  <2>6. "verified" \in q.done =>
            \A t \in q.token : t.signer \in published' \/ Fresh(t.signer, q.began)'
    BY <1>2, <2>1, <2>4 DEF CallKeys, CallChecked, Signed
  <2>7. q.answer = "401" =>
            \A t \in q.token : Genuine(t, q.began) /\ t.signer \in published'
                                   => Fresh(t.signer, q.began)'
    BY <1>2, <2>1, <2>4 DEF CallKeys, Genuine, Signed
  <2>8. CallKeys(q)'
    BY <2>3, <2>5, <2>6, <2>7 DEF CallKeys, Genuine, Signed
  <2> QED
    BY <2>1, <2>2, <2>8 DEF CallKeys, Fresh, Genuine, Signed
<1> QED
  BY <1>1, <1>3, <1>4 DEF CallsInv

\* Time passes.
LEMMA TickStep ==
    ASSUME AccessInv, Tick
    PROVE  AccessInv'
<1> USE DEF AccessInv, Tick, startup, issuer
<1>1. TypeOK' /\ StartupChecked'
  BY TimesNat DEF TypeOK, Times, StartupChecked, Local
<1>2. CacheKeys'
  BY TimesNat DEF CacheKeys, Differs, TypeOK, Times, LongAgo
<1>3. ASSUME NEW r \in Requests
      PROVE  (CallChecked(req[r]) /\ CallKeys(req[r]))'
  <2>1. CallChecked(req[r]) /\ CallKeys(req[r]) /\ req[r] \in Calls
    BY DEF CallsInv, TypeOK
  <2>2. req[r].began <= now'
    BY <2>1 DEF CallKeys, Calls, TypeOK, Times
  <2> QED
    BY <2>1, <2>2 DEF CallChecked, CallKeys, Handled, Recorded, wrapRegisterTool, Signed, Genuine, Differs, Fresh
<1> QED
  BY <1>1, <1>2, <1>3 DEF CallsInv

\* A call stores the key set it was answered, which was the issuer's since the
\* call began; every other step of a call leaves the cache alone.
LEMMA AnyCallStep ==
    ASSUME AccessInv, NEW r \in Requests, Moves(r),
           JwksStored(r) \/ UNCHANGED <<cache, lag>>
    PROVE  AccessInv'
<1> USE DEF AccessInv
<1>1. CASE UNCHANGED <<cache, lag>>
  <2>1. CallsInv' /\ req' \in [Requests -> Calls]
    BY <1>1, CallStep DEF TypeOK, Times
  <2>2. TypeOK' /\ StartupChecked' /\ CacheKeys'
    BY <1>1, <2>1 DEF Moves, TypeOK, StartupChecked, Local, CacheKeys, Differs, startup,
       issuer
  <2> QED
    BY <2>1, <2>2
<1>2. CASE JwksStored(r)
  <2> DEFINE c == req[r]
             e == [fetchedAt |-> now, keys |-> c.keys]
  <2>1. c \in Calls /\ CallKeys(c) /\ c.pc = "answered" /\ cache' = {e}
        /\ lag' = IF now - c.began > lag THEN now - c.began ELSE lag
    BY <1>2 DEF JwksStored, CallsInv, TypeOK
  <2> HIDE DEF c
  <2>2. c.began \in Nat /\ c.began <= now /\ now \in Nat /\ lag \in Nat /\ now <= MaxTime
    BY <2>1 DEF Calls, CallKeys, TypeOK, Times
  <2>3. lag' \in Times /\ lag <= lag' /\ now - c.began <= lag'
    BY <2>1, <2>2, TimesNat DEF TypeOK, Times
  <2>4. CallsInv' /\ req' \in [Requests -> Calls]
    BY <2>3, CallStep
  <2>5. TypeOK' /\ StartupChecked'
    <3>1. e \in [fetchedAt : Times, keys : SUBSET Keys]
      BY <2>1 DEF Calls, TypeOK
    <3>2. Cardinality(cache') <= 1
      <4> HIDE DEF e
      <4>1. Cardinality({e}) = 1
        BY FS_Singleton
      <4> QED
        BY <2>1, <4>1
    <3> QED
      BY <2>1, <2>3, <2>4, <3>1, <3>2 DEF Moves, TypeOK, StartupChecked, Local, startup,
         issuer
  <2>6. CacheKeys'
    <3>1. \A k \in Keys : turned[k] \in Int /\ turned[k] <= now
      BY TimesNat DEF TypeOK, Times, LongAgo, CacheKeys
    <3>2. \A k \in Keys : Differs(c.keys, k) => now <= turned[k] + lag'
      BY <2>1, <2>2, <2>3, <3>1 DEF CallKeys, Times
    <3> QED
      BY <2>1, <2>2, <3>1, <3>2 DEF Moves, CacheKeys, Differs, issuer
  <2> QED
    BY <2>4, <2>5, <2>6
<1> QED
  BY <1>1, <1>2

-----------------------------------------------------------------------------
(* The theorems. *)

\* The invariant of access: what each check established still holds when the
\* next one, or the effect, comes.
THEOREM AccessInvariant == Spec => []AccessInv
<1>1. Init => AccessInv
  <2> SUFFICES ASSUME Init
               PROVE  AccessInv
    OBVIOUS
  <2>1. TypeOK
    BY IdleCall, FS_EmptySet, TimesNat DEF Init, TypeOK, Times, LongAgo, Idle, Calls, Asked,
       Tools, Answers
  <2>2. StartupChecked /\ CacheKeys
    BY TimesNat DEF Init, StartupChecked, CacheKeys, LongAgo
  <2> QED
    BY <2>1, <2>2, IdleCall DEF Init, AccessInv, CallsInv
<1>2. AccessInv /\ [Next]_vars => AccessInv'
  <2> SUFFICES ASSUME AccessInv, [Next]_vars
               PROVE  AccessInv'
    OBVIOUS
  <2>1. CASE loadConfig \/ initializeRuntimeConfig
    BY <2>1, StartupStep
  <2>2. ASSUME NEW r \in Requests, NEW answer \in {"other", "401"}, Refuse(r, answer)
        PROVE  AccessInv'
    BY <2>2, NewCallMoves, AnyCallStep DEF Refuse
  <2>3. ASSUME NEW r \in Requests, NEW t \in Presented, Request(r, t)
        PROVE  AccessInv'
    BY <2>3, NewCallMoves, AnyCallStep DEF Request, getJwks
  <2>4. ASSUME NEW r \in Requests, NEW what \in Asked, StdioCall(r, what)
        PROVE  AccessInv'
    BY <2>4, NewCallMoves, AnyCallStep DEF StdioCall
  <2>5. ASSUME NEW r \in Requests, Progress(r) \/ Forget(r)
        PROVE  AccessInv'
    <3>1. Moves(r)
      BY <2>5, LaterCallMoves
    <3>2. JwksStored(r) \/ UNCHANGED <<cache, lag>>
      BY <2>5 DEF Progress, Forget, JwksAnswered, JwksFails, Dispatch, getVmLocation,
         assertAccess, AuditRecord, AuditFails, Send
    <3> QED
      BY <3>1, <3>2, AnyCallStep
  <2>6. ASSUME NEW k \in Keys, Turn(k)
        PROVE  AccessInv'
    BY <2>6, TurnStep
  <2>7. CASE Tick
    BY <2>7, TickStep
  <2>8. CASE UNCHANGED vars
    BY <2>8 DEF vars, startup, issuer, AccessInv, TypeOK, StartupChecked, Local, CacheKeys,
       CallsInv,
       CallChecked, CallKeys, Handled, Recorded, wrapRegisterTool, Signed, Genuine, Differs, Fresh
  <2> QED
    BY <2>1, <2>2, <2>3, <2>4, <2>5, <2>6, <2>7, <2>8 DEF Next
<1> QED
  BY <1>1, <1>2, PTL DEF Spec

\* The cache holds one key set at a time and every call stays a call.
THEOREM AccessTypes == Spec => []TypeOK
BY AccessInvariant, PTL DEF AccessInv

\* A withdrawn key is honoured no longer than the TTL and the longest fetch,
\* in whatever order the answers of getJwks are stored.
THEOREM WithdrawnKeysFade == Spec => []KeyHonoured
<1>1. AccessInv => KeyHonoured
  BY DEF AccessInv, CallsInv, CallKeys, CallChecked, Signed, Fresh, KeyHonoured
<1> QED
  BY <1>1, AccessInvariant, PTL

\* A new key is learned within the TTL and the longest fetch.
THEOREM NewKeysLearned == Spec => []KeyLearned
<1>1. AccessInv => KeyLearned
  BY DEF AccessInv, CallsInv, CallKeys, Fresh, KeyLearned
<1> QED
  BY <1>1, AccessInvariant, PTL

\* Whatever reaches Proxmox came from a caller who was checked, and what the policy
\* is asked about was allowed and recorded before it was sent.
THEOREM EffectsAuthorized == Spec => []EffectAuthorized
<1>1. AccessInv => EffectAuthorized
  <2> SUFFICES ASSUME AccessInv, NEW r \in Requests
               PROVE  LET q == req[r]
                      IN  /\ q.done \cap {"looked", "effect"} # {} =>
                                 /\ q.via = "stdio" \/ \E t \in q.token : Genuine(t, q.began)
                                 /\ \/ q.what = "resource" \/ Local(env)
                                    \/ \E t \in q.token : scopesForTool(q.what) \in t.scopes
                                 /\ env.bootstrap => Local(env)
                          /\ "effect" \in q.done /\ q.what \notin Unrecorded =>
                                 /\ "logged" \in q.done /\ Needs(q.what) \subseteq getPolicy(env)
                                 /\ q.what \in {"shell", "put", "inspect"} => env.escape \/ env.bootstrap
    BY DEF EffectAuthorized
  <2>1. PICK q \in Calls : q = req[r] /\ CallChecked(q)
    BY DEF AccessInv, CallsInv, TypeOK
  <2>2. ASSUME q.done \cap {"looked", "effect"} # {}
        PROVE  /\ q.via = "stdio" \/ \E t \in q.token : Genuine(t, q.began)
               /\ \/ q.what = "resource" \/ Local(env)
                  \/ \E t \in q.token : scopesForTool(q.what) \in t.scopes
               /\ env.bootstrap => Local(env)
    <3>1. Handled(q)
      BY <2>2 DEF Handled
    <3>2. phase = "serving"
      BY <2>1, <3>1 DEF CallChecked
    <3>3. /\ env \in Environments
          /\ env.mode = "stdio" \/ env.auth = "oidc"
          /\ env.bootstrap => Local(env)
      BY <3>2 DEF AccessInv, TypeOK, StartupChecked
    <3>4. \A t \in q.token : Genuine(t, q.began)
      BY <2>1, <3>1 DEF CallChecked, Claims, Genuine
    <3>5. q.via = "stdio" \/ q.token # {}
      BY <2>1, <3>1 DEF CallChecked, Calls
    <3>6. q.what = "resource" \/ wrapRegisterTool(q)
      BY <2>1, <3>1 DEF CallChecked, Calls, Asked
    <3>7. Local(env) \/ env.auth = "oidc"
      BY <3>3 DEF Local, Environments
    <3> QED
      BY <3>3, <3>4, <3>5, <3>6, <3>7 DEF wrapRegisterTool
  <2>3. ASSUME "effect" \in q.done, q.what \notin Unrecorded
        PROVE  /\ "logged" \in q.done /\ Needs(q.what) \subseteq getPolicy(env)
               /\ q.what \in {"shell", "put", "inspect"} => env.escape \/ env.bootstrap
    <3>1. "logged" \in q.done /\ Needs(q.what) \subseteq getPolicy(env)
      BY <2>1, <2>3 DEF CallChecked, Recorded
    <3>2. q.what \in {"shell", "put", "inspect"} => "shell" \in getPolicy(env)
      BY <3>1 DEF Needs
    <3> QED
      BY <3>1, <3>2 DEF getPolicy, buildPolicyDefaults
  <2> QED
    BY <2>1, <2>2, <2>3
<1> QED
  BY <1>1, AccessInvariant, PTL
=============================================================================
