-------------------------- MODULE ManagedAuthProofs --------------------------
(***************************************************************************)
(* Proofs about the managed credentials for any number of requests and     *)
(* runs and any intervals.  The invariant has three layers over the types: *)
(* who waits for which run, the order of the tokens, and what server and   *)
(* host know of one token while a run is under way.                        *)
(***************************************************************************)
EXTENDS ManagedAuth, TLAPS

\* Tokens grow: nothing the server holds, sent or saw refused is newer than
\* its token, and the run it awaits minted a newer one.
TokensOrdered ==
    /\ token <= minted
    /\ \A r \in Requests : sent[r] <= token /\ refused[r] <= token
    /\ \A k \in Runs : /\ value[k] <= minted
                       /\ awaited[k] /\ stage[k] = "added" => token < value[k]

Agree == token = hostToken /\ (token # 0 => tokenExpiresAt = hostExpire)

\* The awaited run has not touched the host's token yet.
Untouched(k) == stage[k] \notin {"deleted", "added"}

\* Without drift server and host agree until the awaited run touches the
\* token, and once it has added the new one its output is the host's token.
RunInSync ==
    ~drift =>
        /\ repairPromise = NoRun => Agree
        /\ \A k \in Runs : awaited[k] =>
               /\ Untouched(k) => Agree
               /\ stage[k] = "added" => value[k] = hostToken /\ expire[k] = hostExpire

AuthInv == TypeOK /\ SingleFlight /\ TokensOrdered /\ RetryUsesNewToken /\ RunInSync

-----------------------------------------------------------------------------
\* Joining or starting a run keeps the types of what it touches.
LEMMA RepairTypes ==
    ASSUME TypeOK, NEW r \in Requests, NEW phase \in Waiting, repairCluster(r, phase)
    PROVE  /\ repairPromise' \in Runs \cup {NoRun}
           /\ stage' \in [Runs -> Stages] /\ awaited' \in [Runs -> BOOLEAN]
           /\ expire' = expire /\ value' = value
           /\ pc' \in [Requests -> Phases] /\ on' \in [Requests -> Runs \cup {NoRun}]
<1> USE DEF TypeOK, Stages, Phases, runs, Await
<1>1. CASE repairPromise # NoRun /\ Await(r, phase, repairPromise) /\ UNCHANGED runs
  BY <1>1
<1>2. ASSUME NEW k \in Runs, StartRun(k), Await(r, phase, k)
      PROVE  /\ repairPromise' \in Runs \cup {NoRun}
             /\ stage' \in [Runs -> Stages] /\ awaited' \in [Runs -> BOOLEAN]
             /\ expire' = expire /\ value' = value
             /\ pc' \in [Requests -> Phases] /\ on' \in [Requests -> Runs \cup {NoRun}]
  BY <1>2 DEF StartRun
<1> QED
  BY <1>1, <1>2 DEF repairCluster

\* Every step of ensureCluster, reconcileCluster and the host keeps the types.
LEMMA TypeStep ==
    ASSUME TypeOK, Next
    PROVE  TypeOK'
<1> USE TimesNat DEF TypeOK, Stages, Phases, Waiting, lifecycle, runs, host, requests, vars
<1>1. ASSUME NEW r \in Requests, BeginRequest(r)
      PROVE  TypeOK'
  BY <1>1, RepairTypes DEF BeginRequest
<1>2. ASSUME NEW r \in Requests, HostAnswers(r)
      PROVE  TypeOK'
  BY <1>2 DEF HostAnswers
<1>3. ASSUME NEW r \in Requests, AnswerArrives(r)
      PROVE  TypeOK'
  BY <1>3, RepairTypes DEF AnswerArrives
<1>4. ASSUME NEW k \in Runs, SendScript(k)
      PROVE  TypeOK'
  BY <1>4 DEF SendScript
<1>5. ASSUME NEW k \in Runs, TokenDelete(k)
      PROVE  TypeOK'
  BY <1>5 DEF TokenDelete
<1>6. ASSUME NEW k \in Runs, TokenAdd(k)
      PROVE  TypeOK'
  BY <1>6 DEF TokenAdd
<1>7. ASSUME NEW k \in Runs, RunSucceeds(k)
      PROVE  TypeOK'
  BY <1>7 DEF RunSucceeds, Store, Resume, Resumed, Waiters
<1>8. ASSUME NEW k \in Runs, RunSucceedsLate(k)
      PROVE  TypeOK'
  BY <1>8 DEF RunSucceedsLate, Store, Resume, Resumed, Waiters, Retries
<1>9. ASSUME NEW k \in Runs, RunFails(k)
      PROVE  TypeOK'
  BY <1>9 DEF RunFails, Waiters
<1>10. ASSUME NEW k \in Runs, ScriptEnds(k)
      PROVE  TypeOK'
  BY <1>10 DEF ScriptEnds
<1>11. CASE TimerFires
  BY <1>11 DEF TimerFires, StartRun
<1>12. CASE HostDrifts
  BY <1>12 DEF HostDrifts
<1>13. CASE Tick
  BY <1>13 DEF Tick
<1> QED
  BY <1>1, <1>2, <1>3, <1>4, <1>5, <1>6, <1>7, <1>8, <1>9, <1>10, <1>11, <1>12, <1>13
     DEF Next, RunStep, RequestStep

\* Whoever waits, waits for the run in state.repairPromise: it is cleared in
\* the step that wakes the waiters.
LEMMA SingleFlightStep ==
    ASSUME TypeOK, SingleFlight, Next
    PROVE  SingleFlight'
<1> USE NoRunIsNoRun DEF SingleFlight, TypeOK, Waiting, lifecycle, runs, host, requests,
        vars
<1>1. ASSUME NEW r \in Requests, BeginRequest(r)
      PROVE  SingleFlight'
  BY <1>1 DEF BeginRequest, repairCluster, StartRun, Await
<1>2. ASSUME NEW r \in Requests, HostAnswers(r)
      PROVE  SingleFlight'
  BY <1>2 DEF HostAnswers
<1>3. ASSUME NEW r \in Requests, AnswerArrives(r)
      PROVE  SingleFlight'
  BY <1>3 DEF AnswerArrives, repairCluster, StartRun, Await
<1>4. ASSUME NEW k \in Runs, SendScript(k)
      PROVE  SingleFlight'
  BY <1>4 DEF SendScript
<1>5. ASSUME NEW k \in Runs, TokenDelete(k)
      PROVE  SingleFlight'
  BY <1>5 DEF TokenDelete
<1>6. ASSUME NEW k \in Runs, TokenAdd(k)
      PROVE  SingleFlight'
  BY <1>6 DEF TokenAdd
<1>7. ASSUME NEW k \in Runs, RunSucceeds(k)
      PROVE  SingleFlight'
  BY <1>7 DEF RunSucceeds, Store, Resume, Resumed, Waiters
<1>8. ASSUME NEW k \in Runs, RunSucceedsLate(k)
      PROVE  SingleFlight'
  BY <1>8 DEF RunSucceedsLate, Store, Resume, Resumed, Waiters, Retries
<1>9. ASSUME NEW k \in Runs, RunFails(k)
      PROVE  SingleFlight'
  BY <1>9 DEF RunFails, Waiters
<1>10. ASSUME NEW k \in Runs, ScriptEnds(k)
      PROVE  SingleFlight'
  BY <1>10 DEF ScriptEnds
<1>11. CASE TimerFires
  BY <1>11 DEF TimerFires, StartRun
<1>12. CASE HostDrifts
  BY <1>12 DEF HostDrifts
<1>13. CASE Tick
  BY <1>13 DEF Tick
<1> QED
  BY <1>1, <1>2, <1>3, <1>4, <1>5, <1>6, <1>7, <1>8, <1>9, <1>10, <1>11, <1>12, <1>13
     DEF Next, RunStep, RequestStep

\* Tokens keep their order: a run's token becomes cluster.auth only through the
\* one awaited run, which minted it after the token the server then holds.
LEMMA TokensStep ==
    ASSUME TypeOK, SingleFlight, TokensOrdered, Next
    PROVE  TokensOrdered'
<1> USE NoRunIsNoRun DEF TokensOrdered, SingleFlight, TypeOK, lifecycle, runs, host,
        requests, vars
<1>1. ASSUME NEW r \in Requests, BeginRequest(r)
      PROVE  TokensOrdered'
  BY <1>1 DEF BeginRequest, repairCluster, StartRun, Await
<1>2. ASSUME NEW r \in Requests, HostAnswers(r)
      PROVE  TokensOrdered'
  BY <1>2 DEF HostAnswers
<1>3. ASSUME NEW r \in Requests, AnswerArrives(r)
      PROVE  TokensOrdered'
  BY <1>3 DEF AnswerArrives, repairCluster, StartRun, Await
<1>4. ASSUME NEW k \in Runs, SendScript(k)
      PROVE  TokensOrdered'
  BY <1>4 DEF SendScript
<1>5. ASSUME NEW k \in Runs, TokenDelete(k)
      PROVE  TokensOrdered'
  BY <1>5 DEF TokenDelete
<1>6. ASSUME NEW k \in Runs, TokenAdd(k)
      PROVE  TokensOrdered'
  BY <1>6 DEF TokenAdd
<1>7. ASSUME NEW k \in Runs, RunSucceeds(k)
      PROVE  TokensOrdered'
  BY <1>7 DEF RunSucceeds, Store, Resume, Resumed, Waiters
<1>8. ASSUME NEW k \in Runs, RunSucceedsLate(k)
      PROVE  TokensOrdered'
  BY <1>8 DEF RunSucceedsLate, Store, Resume, Resumed, Waiters, Retries
<1>9. ASSUME NEW k \in Runs, RunFails(k)
      PROVE  TokensOrdered'
  BY <1>9 DEF RunFails, Waiters
<1>10. ASSUME NEW k \in Runs, ScriptEnds(k)
      PROVE  TokensOrdered'
  BY <1>10 DEF ScriptEnds
<1>11. CASE TimerFires
  BY <1>11 DEF TimerFires, StartRun
<1>12. CASE HostDrifts
  BY <1>12 DEF HostDrifts
<1>13. CASE Tick
  BY <1>13 DEF Tick
<1> QED
  BY <1>1, <1>2, <1>3, <1>4, <1>5, <1>6, <1>7, <1>8, <1>9, <1>10, <1>11, <1>12, <1>13
     DEF Next, RunStep, RequestStep

\* A retry is sent with the awaited run's token, newer than any refused one.
LEMMA RetryStep ==
    ASSUME TypeOK, SingleFlight, TokensOrdered, RetryUsesNewToken, Next
    PROVE  RetryUsesNewToken'
<1> USE NoRunIsNoRun DEF RetryUsesNewToken, TokensOrdered, SingleFlight, TypeOK, Waiting,
        lifecycle, runs, host, requests, vars
<1>1. ASSUME NEW r \in Requests, BeginRequest(r)
      PROVE  RetryUsesNewToken'
  BY <1>1 DEF BeginRequest, repairCluster, StartRun, Await
<1>2. ASSUME NEW r \in Requests, HostAnswers(r)
      PROVE  RetryUsesNewToken'
  BY <1>2 DEF HostAnswers
<1>3. ASSUME NEW r \in Requests, AnswerArrives(r)
      PROVE  RetryUsesNewToken'
  BY <1>3 DEF AnswerArrives, repairCluster, StartRun, Await
<1>4. ASSUME NEW k \in Runs, SendScript(k)
      PROVE  RetryUsesNewToken'
  BY <1>4 DEF SendScript
<1>5. ASSUME NEW k \in Runs, TokenDelete(k)
      PROVE  RetryUsesNewToken'
  BY <1>5 DEF TokenDelete
<1>6. ASSUME NEW k \in Runs, TokenAdd(k)
      PROVE  RetryUsesNewToken'
  BY <1>6 DEF TokenAdd
<1>7. ASSUME NEW k \in Runs, RunSucceeds(k)
      PROVE  RetryUsesNewToken'
  BY <1>7 DEF RunSucceeds, Store, Resume, Resumed, Waiters
<1>8. ASSUME NEW k \in Runs, RunSucceedsLate(k)
      PROVE  RetryUsesNewToken'
  BY <1>8 DEF RunSucceedsLate, Store, Resume, Resumed, Waiters, Retries
<1>9. ASSUME NEW k \in Runs, RunFails(k)
      PROVE  RetryUsesNewToken'
  BY <1>9 DEF RunFails, Waiters
<1>10. ASSUME NEW k \in Runs, ScriptEnds(k)
      PROVE  RetryUsesNewToken'
  BY <1>10 DEF ScriptEnds
<1>11. CASE TimerFires
  BY <1>11 DEF TimerFires, StartRun
<1>12. CASE HostDrifts
  BY <1>12 DEF HostDrifts
<1>13. CASE Tick
  BY <1>13 DEF Tick
<1> QED
  BY <1>1, <1>2, <1>3, <1>4, <1>5, <1>6, <1>7, <1>8, <1>9, <1>10, <1>11, <1>12, <1>13
     DEF Next, RunStep, RequestStep

\* Server and host agree until the awaited run touches the token, and the run
\* then hands the host's token over.
LEMMA SyncStep ==
    ASSUME TypeOK, SingleFlight, TokensOrdered, RunInSync, Next
    PROVE  RunInSync'
<1> USE NoRunIsNoRun DEF RunInSync, Agree, Untouched, TokensOrdered, SingleFlight, TypeOK,
        Stages, lifecycle, runs, host, requests, vars
<1>1. ASSUME NEW r \in Requests, BeginRequest(r)
      PROVE  RunInSync'
  BY <1>1 DEF BeginRequest, repairCluster, StartRun, Await
<1>2. ASSUME NEW r \in Requests, HostAnswers(r)
      PROVE  RunInSync'
  BY <1>2 DEF HostAnswers
<1>3. ASSUME NEW r \in Requests, AnswerArrives(r)
      PROVE  RunInSync'
  BY <1>3 DEF AnswerArrives, repairCluster, StartRun, Await
<1>4. ASSUME NEW k \in Runs, SendScript(k)
      PROVE  RunInSync'
  BY <1>4 DEF SendScript
<1>5. ASSUME NEW k \in Runs, TokenDelete(k)
      PROVE  RunInSync'
  BY <1>5 DEF TokenDelete
<1>6. ASSUME NEW k \in Runs, TokenAdd(k)
      PROVE  RunInSync'
  BY <1>6 DEF TokenAdd
<1>7. ASSUME NEW k \in Runs, RunSucceeds(k)
      PROVE  RunInSync'
  BY <1>7 DEF RunSucceeds, Store, Resume, Resumed, Waiters
<1>8. ASSUME NEW k \in Runs, RunSucceedsLate(k)
      PROVE  RunInSync'
  BY <1>8 DEF RunSucceedsLate, Store, Resume, Resumed, Waiters, Retries
<1>9. ASSUME NEW k \in Runs, RunFails(k)
      PROVE  RunInSync'
  BY <1>9 DEF RunFails, Waiters
<1>10. ASSUME NEW k \in Runs, ScriptEnds(k)
      PROVE  RunInSync'
  BY <1>10 DEF ScriptEnds
<1>11. CASE TimerFires
  BY <1>11 DEF TimerFires, StartRun
<1>12. CASE HostDrifts
  BY <1>12 DEF HostDrifts
<1>13. CASE Tick
  BY <1>13 DEF Tick
<1> QED
  BY <1>1, <1>2, <1>3, <1>4, <1>5, <1>6, <1>7, <1>8, <1>9, <1>10, <1>11, <1>12, <1>13
     DEF Next, RunStep, RequestStep

-----------------------------------------------------------------------------
(* The theorems. *)

\* The invariant of the managed credentials, for every interleaving of
\* requests, timers, runs and orphaned scripts.
THEOREM AuthInvariant == Spec => []AuthInv
<1>1. Init => AuthInv
  <2> SUFFICES ASSUME Init
               PROVE  AuthInv
    OBVIOUS
  <2>1. TypeOK
    BY DEF Init, TypeOK, Stages, Phases
  <2>2. SingleFlight
    BY NoRunIsNoRun DEF Init, SingleFlight, Waiting
  <2>3. TokensOrdered /\ RetryUsesNewToken
    BY DEF Init, TokensOrdered, RetryUsesNewToken
  <2>4. RunInSync
    BY NoRunIsNoRun DEF Init, RunInSync, Agree
  <2> QED
    BY <2>1, <2>2, <2>3, <2>4 DEF AuthInv
<1>2. AuthInv /\ [Next]_vars => AuthInv'
  <2> SUFFICES ASSUME AuthInv, [Next]_vars
               PROVE  AuthInv'
    OBVIOUS
  <2>1. CASE Next
    BY <2>1, TypeStep, SingleFlightStep, TokensStep, RetryStep, SyncStep DEF AuthInv
  <2>2. CASE UNCHANGED vars
    BY <2>2 DEF vars, lifecycle, runs, host, requests, AuthInv, TypeOK, SingleFlight,
       TokensOrdered,
       RetryUsesNewToken, RunInSync, Agree, Untouched
  <2> QED
    BY <2>1, <2>2
<1> QED
  BY <1>1, <1>2, PTL DEF Spec

\* repairCluster serializes its callers: one run is awaited at a time, and no
\* request is left waiting for a run that has ended.
THEOREM OneRunAwaited == Spec => []SingleFlight
BY AuthInvariant, PTL DEF AuthInv

\* Without drift the server holds the host's token and its expiry whenever no
\* run is under way (reconcileCluster).
THEOREM ServerInSync == Spec => []InSync
<1>1. AuthInv => InSync
  BY DEF AuthInv, RunInSync, InSync, Agree
<1> QED
  BY <1>1, AuthInvariant, PTL

\* The retry of apiRequest never sends the refused token again.
THEOREM RetriesUseNewTokens == Spec => []RetryUsesNewToken
BY AuthInvariant, PTL DEF AuthInv

\* ensureCluster lets a request through at once only with a token the host
\* accepts at that moment, unless the host drifted.
THEOREM LetThroughWithGoodToken == Spec => SentTokenWorks
<1>1. AuthInv /\ [Next]_vars =>
        [\A r \in Requests :
            pc[r] = "idle" /\ pc'[r] = "sent" /\ ~drift
                => sent'[r] = hostToken /\ now < hostExpire]_vars
  <2> SUFFICES ASSUME AuthInv, Next, NEW r \in Requests, pc[r] = "idle", pc'[r] = "sent", ~drift
               PROVE  sent'[r] = hostToken /\ now < hostExpire
    OBVIOUS
  <2> USE NoRunIsNoRun DEF AuthInv, TypeOK, SingleFlight, Waiting
  <2>1. ASSUME NEW q \in Requests, BeginRequest(q)
        PROVE  sent'[r] = hostToken /\ now < hostExpire
    <3>1. q = r
      BY <2>1 DEF BeginRequest, repairCluster, Await
    <3>2. /\ repairPromise = NoRun /\ token # 0
          /\ Current(now, passwordExpiresAt, tokenExpiresAt)
          /\ sent'[r] = token
      BY <2>1, <3>1 DEF BeginRequest, repairCluster, Await
    <3>3. token = hostToken /\ tokenExpiresAt = hostExpire
      BY <3>2 DEF RunInSync, Agree
    <3>4. now < tokenExpiresAt
      BY <3>2, TimesNat DEF Current
    <3> QED
      BY <3>2, <3>3, <3>4
  <2>2. ASSUME NEW q \in Requests, RequestStep(q)
        PROVE  FALSE
    BY <2>2 DEF RequestStep, HostAnswers, AnswerArrives, repairCluster, Await
  <2>3. ASSUME NEW k \in Runs, RunStep(k)
        PROVE  FALSE
    BY <2>3 DEF RunStep, SendScript, TokenDelete, TokenAdd, RunSucceeds, RunSucceedsLate,
       RunFails,
       ScriptEnds, Resume, Resumed, Waiters, Retries, requests
  <2>4. CASE TimerFires \/ HostDrifts \/ Tick
    BY <2>4 DEF TimerFires, HostDrifts, Tick, requests
  <2> QED
    BY <2>1, <2>2, <2>3, <2>4 DEF Next
<1> QED
  BY <1>1, AuthInvariant, PTL DEF Spec, SentTokenWorks
=============================================================================
