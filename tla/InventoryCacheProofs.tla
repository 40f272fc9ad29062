------------------------ MODULE InventoryCacheProofs ------------------------
(***************************************************************************)
(* Proofs about the inventory cache for any number of calls, VMs and       *)
(* nodes, any TTL and clock.  A call whose view of the cluster cannot be   *)
(* stale has a clear view; the invariant says of each call by itself what  *)
(* a clear view means at its stage, and of each entry of the cache, or on  *)
(* its way to it, since when it may differ from the cluster.               *)
(***************************************************************************)
EXTENDS InventoryCache, FiniteSetTheorems, TLAPS

\* The call resolved the node by itself, and what it goes by cannot be stale.
Clear(r) ==
    /\ ~r.given
    /\ \/ r.op \in Forced /\ Undisturbed(r)
       \/ r.began >= changed + Ttl + lag

\* The resources tell the truth about what the call depends on.
TrueFor(r, resources) ==
    IF r.op \in Located THEN resources[r.vm] = place[r.vm] ELSE resources = place

\* With a clear view a call has the truth at every stage.
SeesClearly(r) ==
    Clear(r) =>
        /\ r.pc \in {"answered", "detect"} =>
               \A resources \in r.resources : TrueFor(r, resources)
        /\ r.pc = "send" => r.node = place[r.vm] /\ r.node # Nowhere
        /\ r.pc = "forget" => place[r.vm] # Nowhere
        /\ r.pc = "done" => RightEnd(r)

\* How a call goes: what it holds at each stage.
WellFormed(r) ==
    /\ r.began <= now
    /\ r.moved # {} => r.began <= changed
    /\ r.pc # "free" => r.vm \in Vms
    /\ r.pc \in {"fetch", "answered", "detect"} => ~r.given
    /\ r.pc \in {"answered", "detect"} => \E resources \in Places : r.resources = {resources}
    /\ r.pc = "detect" => r.op \notin Located
    /\ r.pc = "send" => r.op \notin {"overview", "refreshed"} /\ r.left \in 1..2
    /\ r.pc = "forget" => r.op = "destroy"

\* An answer on its way to the cache was right when its call began, or later.
AnswerFresh(r) ==
    r.pc = "answered" => \A resources \in r.resources : resources # place => r.began <= changed

CallInv(r) == WellFormed(r) /\ AnswerFresh(r) /\ SeesClearly(r)

\* An entry differs from the cluster only if the cluster changed since it was
\* stored, or at most the longest refresh before.
CacheFresh ==
    /\ changed <= now
    /\ \A e \in cache :
           e.fetchedAt <= now /\ (e.resources # place => e.fetchedAt <= changed + lag)

CallsInv == \A c \in Calls : CallInv(call[c])

InventoryInv == TypeOK /\ CacheFresh /\ CallsInv

-----------------------------------------------------------------------------
(* What the operators on a call's record do. *)

\* A call that is under way.
Running(r) ==
    /\ r \in ToolCalls /\ r.vm \in Vms /\ r.began <= now
    /\ r.moved # {} => r.began <= changed

\* The end of a call is right if the result fits.
LEMMA EndedCall ==
    ASSUME NEW r, Running(r), NEW result \in Results,
           Clear(r) => IF r.op \in {"overview", "refreshed"}
                       THEN result = "ok" /\ r.resources = {place}
                       ELSE result = (IF place[r.vm] = Nowhere THEN "unknown" ELSE "ok")
    PROVE  Ended(r, result) \in ToolCalls /\ CallInv(Ended(r, result))
<1> DEFINE d == Ended(r, result)
<1>1. /\ d \in ToolCalls /\ d.pc = "done" /\ d.op = r.op /\ d.vm = r.vm /\ d.given = r.given
      /\ d.began = r.began /\ d.resources = r.resources /\ d.moved = r.moved /\ d.result = result
  <2>1. r \in ToolCalls
    BY DEF Running
  <2>2. 0 \in 0..2
    OBVIOUS
  <2>3. d = [r EXCEPT !.pc = "done", !.todo = {}, !.node = Nowhere, !.left = 0, !.result = result]
    BY DEF Ended
  <2> HIDE DEF d
  <2> QED
    BY <2>1, <2>2, <2>3 DEF ToolCalls
<1> HIDE DEF d
<1>2. Clear(d) => Clear(r)
  BY <1>1 DEF Clear, Undisturbed
<1>3. SeesClearly(d)
  BY <1>1, <1>2 DEF SeesClearly, RightEnd
<1>4. WellFormed(d) /\ AnswerFresh(d)
  BY <1>1 DEF Running, WellFormed, AnswerFresh
<1> QED
  BY <1>1, <1>3, <1>4 DEF CallInv, d

\* A request goes to the right node.
LEMMA RequestingCall ==
    ASSUME NEW r, Running(r), r.op \notin {"overview", "refreshed"}, NEW node \in Nodes,
           Clear(r) => node = place[r.vm]
    PROVE  Requesting(r, node) \in ToolCalls /\ CallInv(Requesting(r, node))
<1> DEFINE d == Requesting(r, node)
<1>1. /\ d \in ToolCalls /\ d.pc = "send" /\ d.op = r.op /\ d.vm = r.vm /\ d.given = r.given
      /\ d.began = r.began /\ d.moved = r.moved /\ d.node = node /\ d.left \in 1..2
  <2> DEFINE left == IF r.op = "get" THEN 2 ELSE 1
  <2>1. left \in 0..2 /\ left \in 1..2
    OBVIOUS
  <2> HIDE DEF left
  <2>2. r \in ToolCalls
    BY DEF Running
  <2>3. d = [r EXCEPT !.pc = "send", !.node = node, !.left = left]
    BY DEF Requesting, left
  <2> HIDE DEF d
  <2> QED
    BY <2>1, <2>2, <2>3 DEF ToolCalls
<1> HIDE DEF d
<1>2. Clear(d) => Clear(r)
  BY <1>1 DEF Clear, Undisturbed
<1>3. SeesClearly(d)
  BY <1>1, <1>2, NowhereIsNoNode DEF SeesClearly
<1>4. WellFormed(d) /\ AnswerFresh(d)
  BY <1>1 DEF Running, WellFormed, AnswerFresh
<1> QED
  BY <1>1, <1>3, <1>4 DEF CallInv, d

\* The VM is looked up in resources that tell the truth about it.
LEMMA FindCall ==
    ASSUME NEW r, Running(r), r.op \notin {"overview", "refreshed"}, NEW resources \in Places,
           Clear(r) => resources[r.vm] = place[r.vm]
    PROVE  Find(r, resources) \in ToolCalls /\ CallInv(Find(r, resources))
<1>1. CASE resources[r.vm] = Nowhere
  BY <1>1, EndedCall DEF Find, Results
<1>2. CASE resources[r.vm] # Nowhere
  <2>1. resources[r.vm] \in Nodes
    BY <1>2 DEF Places, Running
  <2> QED
    BY <1>2, <2>1, RequestingCall DEF Find
<1> QED
  BY <1>1, <1>2

\* getClusterResources returns resources that tell the truth.
LEMMA WithResourcesCall ==
    ASSUME NEW r, Running(r), ~r.given, NEW resources \in Places,
           Clear(r) => TrueFor(r, resources)
    PROVE  WithResources(r, resources) \in ToolCalls /\ CallInv(WithResources(r, resources))
<1> DEFINE got == [r EXCEPT !.resources = {resources}]
<1>1. /\ got \in ToolCalls /\ got.op = r.op /\ got.vm = r.vm /\ got.given = r.given
      /\ got.began = r.began /\ got.moved = r.moved /\ got.resources = {resources}
  BY DEF Running, ToolCalls
<1>2. WithResources(r, resources) =
          IF r.op \in Located THEN Find(got, resources)
          ELSE [got EXCEPT !.pc = "detect", !.todo = {v \in Vms : resources[v] # Nowhere}]
  BY DEF WithResources
<1> HIDE DEF got
<1>3. Running(got)
  BY <1>1 DEF Running
<1>4. Clear(got) => TrueFor(got, resources)
  BY <1>1 DEF Clear, Undisturbed, TrueFor
<1>5. CASE r.op \in Located
  BY <1>1, <1>2, <1>3, <1>4, <1>5, FindCall DEF TrueFor, Located
<1>6. CASE r.op \notin Located
  <2> DEFINE todo == {v \in Vms : resources[v] # Nowhere}
             d == [got EXCEPT !.pc = "detect", !.todo = todo]
  <2>1. todo \in SUBSET Vms
    OBVIOUS
  <2> HIDE DEF todo
  <2>2. /\ d \in ToolCalls /\ d.pc = "detect" /\ d.op = r.op /\ d.vm = r.vm /\ d.given = r.given
        /\ d.began = r.began /\ d.moved = r.moved /\ d.resources = {resources}
    BY <1>1, <2>1 DEF ToolCalls
  <2>3. WithResources(r, resources) = d
    BY <1>2, <1>6 DEF todo
  <2> HIDE DEF d
  <2>4. Clear(d) => TrueFor(d, resources)
    BY <2>2 DEF Clear, Undisturbed, TrueFor
  <2>5. SeesClearly(d)
    BY <2>2, <2>4 DEF SeesClearly
  <2>6. WellFormed(d) /\ AnswerFresh(d)
    BY <1>6, <2>2 DEF Running, WellFormed, AnswerFresh
  <2> QED
    BY <2>2, <2>3, <2>5, <2>6 DEF CallInv
<1> QED
  BY <1>5, <1>6

\* A call that is free.
LEMMA IdleCall ==
    ASSUME TypeOK
    PROVE  Idle \in ToolCalls /\ CallInv(Idle)
<1>1. Idle \in ToolCalls
  BY MaxTimeNat DEF Idle, ToolCalls, Ops, Results
<1>2. Idle.pc = "free" /\ Idle.began = 0 /\ Idle.moved = {}
  BY DEF Idle
<1> QED
  BY <1>1, <1>2 DEF CallInv, WellFormed, AnswerFresh, SeesClearly, TypeOK

-----------------------------------------------------------------------------
(* The steps of one call. *)

\* What a step of call c leaves: another call that is as it should be.
Moves(c) ==
    /\ \E r \in ToolCalls : call' = [call EXCEPT ![c] = r] /\ CallInv(r)
    /\ UNCHANGED <<now, place, changed>>

\* A new call uses an entry younger than the TTL, asks for the resources, or
\* goes to the node it was given.
LEMMA NewCallMoves ==
    ASSUME InventoryInv, NEW c \in Calls, NEW op \in Ops, NEW v \in Vms
    PROVE  /\ Call(c, op, v) => Moves(c)
           /\ \A n \in Nodes : CallOnNode(c, op, v, n) => Moves(c)
<1> USE DEF InventoryInv
<1>1. ASSUME Call(c, op, v)
      PROVE  Moves(c)
  <2> DEFINE r == [Idle EXCEPT !.op = op, !.vm = v, !.began = now]
  <2>1. /\ r \in ToolCalls /\ r.op = op /\ r.vm = v /\ r.began = now /\ ~r.given /\ r.moved = {}
    BY IdleCall DEF Idle, ToolCalls, TypeOK
  <2>2. getClusterResources(c, r) /\ UNCHANGED <<now, place, changed>>
    BY <1>1 DEF Call, cluster
  <2> HIDE DEF r
  <2>3. Running(r)
    BY <2>1 DEF Running, TypeOK
  <2>4. CASE call' = [call EXCEPT ![c] = [r EXCEPT !.pc = "fetch"]]
    <3> DEFINE d == [r EXCEPT !.pc = "fetch"]
    <3>1. d \in ToolCalls /\ d.pc = "fetch" /\ d.vm = v /\ d.began = now /\ ~d.given /\ d.moved = {}
      BY <2>1 DEF ToolCalls
    <3>2. call' = [call EXCEPT ![c] = d]
      BY <2>4
    <3> HIDE DEF d
    <3>3. CallInv(d)
      BY <3>1 DEF CallInv, WellFormed, AnswerFresh, SeesClearly, TypeOK
    <3> QED
      BY <2>2, <3>1, <3>2, <3>3 DEF Moves
  <2>5. ASSUME NEW e \in Usable(r.op), call' = [call EXCEPT ![c] = WithResources(r, e.resources)]
        PROVE  Moves(c)
    <3>1. /\ op \notin Forced /\ e \in cache /\ now - e.fetchedAt < Ttl
          /\ e.fetchedAt \in Nat /\ e.resources \in Places
      BY <2>1, <2>5 DEF Usable, TypeOK
    <3>2. ASSUME Clear(r)
          PROVE  e.resources = place
      <4>1. now >= changed + Ttl + lag
        BY <2>1, <3>1, <3>2 DEF Clear
      <4>2. ~(e.fetchedAt <= changed + lag)
        BY <3>1, <4>1, TtlPositive DEF TypeOK
      <4> QED
        BY <3>1, <4>2 DEF CacheFresh
    <3>3. Clear(r) => TrueFor(r, e.resources)
      BY <2>1, <3>1, <3>2 DEF TrueFor, Forced, Located
    <3> QED
      BY <2>1, <2>2, <2>3, <2>5, <3>1, <3>3, WithResourcesCall DEF Moves
  <2> QED
    BY <2>2, <2>4, <2>5 DEF getClusterResources
<1>2. ASSUME NEW n \in Nodes, CallOnNode(c, op, v, n)
      PROVE  Moves(c)
  <2> DEFINE r == [Idle EXCEPT !.op = op, !.vm = v, !.began = now, !.given = TRUE]
  <2>1. /\ r \in ToolCalls /\ r.op = op /\ r.vm = v /\ r.began = now /\ r.given /\ r.moved = {}
    BY IdleCall DEF Idle, ToolCalls, TypeOK
  <2>2. /\ call' = [call EXCEPT ![c] = Requesting(r, n)] /\ op \in {"ping", "act", "destroy"}
        /\ UNCHANGED <<now, place, changed>>
    BY <1>2 DEF CallOnNode, cluster
  <2> HIDE DEF r
  <2>3. Running(r) /\ ~Clear(r)
    BY <2>1 DEF Running, Clear, TypeOK
  <2> QED
    BY <2>1, <2>2, <2>3, RequestingCall DEF Moves
<1> QED
  BY <1>1, <1>2

\* Every later step of a call keeps what it knows of the cluster.
LEMMA LaterCallMoves ==
    ASSUME InventoryInv, NEW c \in Calls, Progress(c) \/ Fail(c) \/ Return(c)
    PROVE  Moves(c)
<1> USE DEF InventoryInv
<1> DEFINE r == call[c]
<1>1. r \in ToolCalls /\ CallInv(r)
  BY DEF TypeOK, CallsInv
<1>2. r.pc # "free" => Running(r)
  BY <1>1 DEF CallInv, WellFormed, Running
<1>3. CASE ResourcesAnswered(c)
  <2> DEFINE d == [r EXCEPT !.pc = "answered", !.resources = {place}]
  <2>1. call' = [call EXCEPT ![c] = d] /\ r.pc = "fetch" /\ UNCHANGED <<now, place, changed>>
    BY <1>3 DEF ResourcesAnswered, cluster, TypeOK
  <2>2. /\ d \in ToolCalls /\ d.pc = "answered" /\ d.op = r.op /\ d.vm = r.vm /\ d.given = r.given
        /\ d.began = r.began /\ d.moved = r.moved /\ d.resources = {place}
    BY <1>1 DEF ToolCalls, TypeOK
  <2> HIDE DEF d, r
  <2>3. WellFormed(d) /\ AnswerFresh(d)
    BY <1>1, <2>1, <2>2 DEF CallInv, WellFormed, AnswerFresh, TypeOK
  <2>4. SeesClearly(d)
    BY <2>2 DEF SeesClearly, TrueFor
  <2> QED
    BY <2>1, <2>2, <2>3, <2>4 DEF Moves, CallInv
<1>4. CASE Store(c)
  <2>1. PICK resources \in r.resources : call' = [call EXCEPT ![c] = WithResources(r, resources)]
    BY <1>4 DEF Store
  <2>2. r.pc = "answered" /\ UNCHANGED <<now, place, changed>>
    BY <1>4 DEF Store, cluster
  <2> HIDE DEF r
  <2>3. resources \in Places /\ ~r.given /\ (Clear(r) => TrueFor(r, resources))
    BY <1>1, <2>1, <2>2 DEF CallInv, WellFormed, SeesClearly, ToolCalls
  <2> QED
    BY <1>2, <2>1, <2>2, <2>3, WithResourcesCall DEF Moves
<1>5. ASSUME NEW v \in Vms, DetectVm(c, v)
      PROVE  Moves(c)
  <2>1. PICK resources \in r.resources :
            call' = [call EXCEPT ![c] = IF place[v] = resources[v]
                                        THEN Detect(r, v) ELSE Ended(r, "refused")]
    BY <1>5 DEF DetectVm, TypeOK
  <2>2. r.pc = "detect" /\ UNCHANGED <<now, place, changed>>
    BY <1>5 DEF DetectVm, cluster
  <2> HIDE DEF r
  <2>3. Clear(r) => resources = place
    BY <1>1, <2>1, <2>2 DEF CallInv, WellFormed, SeesClearly, TrueFor
  <2>4. CASE place[v] # resources[v]
    BY <1>2, <2>1, <2>2, <2>3, <2>4, EndedCall DEF Moves, Results
  <2>5. CASE place[v] = resources[v]
    <3> DEFINE d == Detect(r, v)
    <3>1. /\ d \in ToolCalls /\ d.pc = r.pc /\ d.op = r.op /\ d.vm = r.vm /\ d.given = r.given
          /\ d.began = r.began /\ d.moved = r.moved /\ d.resources = r.resources
      BY <1>1 DEF Detect, ToolCalls
    <3> HIDE DEF d
    <3>2. CallInv(d)
      BY <1>1, <2>2, <3>1 DEF CallInv, WellFormed, AnswerFresh, SeesClearly, Clear,
         Undisturbed, TrueFor
    <3> QED
      BY <2>1, <2>2, <2>5, <3>1, <3>2 DEF Moves, d
  <2> QED
    BY <2>4, <2>5
<1>6. CASE Detected(c)
  <2>1. PICK resources \in r.resources : call' = [call EXCEPT ![c] = Overview(r, resources)]
    BY <1>6 DEF Detected, TypeOK
  <2>2. r.pc = "detect" /\ UNCHANGED <<now, place, changed>>
    BY <1>6 DEF Detected, cluster
  <2> HIDE DEF r
  <2>3. /\ resources \in Places /\ r.resources = {resources} /\ r.op \in Ops \ Located
        /\ Clear(r) => resources = place
    BY <1>1, <2>1, <2>2 DEF CallInv, WellFormed, SeesClearly, TrueFor, ToolCalls
  <2>4. CASE r.op \in {"get", "ping"}
    BY <1>2, <2>1, <2>2, <2>3, <2>4, FindCall DEF Moves, Overview
  <2>5. CASE r.op \notin {"get", "ping"}
    BY <1>2, <2>1, <2>2, <2>3, <2>5, EndedCall DEF Moves, Overview, Ops, Located, Results
  <2> QED
    BY <2>4, <2>5
<1>7. CASE Send(c)
  <2>1. r.pc = "send" /\ UNCHANGED <<now, place, changed>>
    BY <1>7 DEF Send
  <2>2. CASE place[r.vm] # r.node
    <3>1. call' = [call EXCEPT ![c] = Ended(r, "refused")]
      BY <1>7, <2>2 DEF Send, TypeOK
    <3> HIDE DEF r
    <3>2. ~Clear(r)
      BY <1>1, <2>1, <2>2 DEF CallInv, SeesClearly
    <3> QED
      BY <1>2, <2>1, <3>1, <3>2, EndedCall DEF Moves, Results
  <2>3. CASE place[r.vm] = r.node /\ r.op = "destroy"
    <3> DEFINE d == [r EXCEPT !.pc = "forget"]
    <3>1. call' = [call EXCEPT ![c] = d]
      BY <1>7, <2>3 DEF Send, TypeOK
    <3>2. /\ d \in ToolCalls /\ d.pc = "forget" /\ d.op = r.op /\ d.vm = r.vm /\ d.given = r.given
          /\ d.began = r.began /\ d.moved = r.moved
      BY <1>1 DEF ToolCalls
    <3> HIDE DEF d, r
    <3>3. CallInv(d)
      BY <1>1, <2>1, <2>3, <3>2 DEF CallInv, WellFormed, AnswerFresh, SeesClearly, Clear,
         Undisturbed
    <3> QED
      BY <2>1, <3>1, <3>2, <3>3 DEF Moves
  <2>4. CASE place[r.vm] = r.node /\ r.op # "destroy"
    <3>1. call' = [call EXCEPT ![c] = Replied(r)]
      BY <1>7, <2>4 DEF Send, TypeOK
    <3> HIDE DEF r
    <3>2. /\ r.op \notin {"overview", "refreshed"} /\ r.left \in 1..2
          /\ Clear(r) => place[r.vm] # Nowhere
      BY <1>1, <2>1, <2>4 DEF CallInv, WellFormed, SeesClearly
    <3>3. CASE r.left = 1
      BY <1>2, <2>1, <3>1, <3>2, <3>3, EndedCall DEF Moves, Replied, Results
    <3>4. CASE r.left = 2
      <4> DEFINE d == [r EXCEPT !.left = 1]
      <4>1. Replied(r) = d
        BY <3>4 DEF Replied
      <4>2. 1 \in 0..2
        OBVIOUS
      <4>3. /\ d \in ToolCalls /\ d.pc = r.pc /\ d.op = r.op /\ d.vm = r.vm /\ d.given = r.given
            /\ d.began = r.began /\ d.moved = r.moved /\ d.node = r.node /\ d.left = 1
        BY <1>1, <4>2 DEF ToolCalls
      <4> HIDE DEF d
      <4>4. CallInv(d)
        BY <1>1, <2>1, <4>3 DEF CallInv, WellFormed, AnswerFresh, SeesClearly, Clear,
           Undisturbed
      <4> QED
        BY <2>1, <3>1, <4>1, <4>3, <4>4 DEF Moves
    <3> QED
      BY <3>2, <3>3, <3>4
  <2> QED
    BY <2>2, <2>3, <2>4
<1>8. CASE vmDestroy(c)
  <2>1. /\ r.pc = "forget" /\ call' = [call EXCEPT ![c] = Ended(r, "ok")]
        /\ UNCHANGED <<now, place, changed>>
    BY <1>8 DEF vmDestroy, cluster, TypeOK
  <2> HIDE DEF r
  <2>2. r.op = "destroy" /\ (Clear(r) => place[r.vm] # Nowhere)
    BY <1>1, <2>1 DEF CallInv, WellFormed, SeesClearly
  <2> QED
    BY <1>2, <2>1, <2>2, EndedCall DEF Moves, Results
<1>9. CASE Fail(c) \/ Return(c)
  BY <1>9, IdleCall DEF Fail, Return, Moves, cluster
<1> QED
  BY <1>3, <1>4, <1>5, <1>6, <1>7, <1>8, <1>9 DEF Progress

-----------------------------------------------------------------------------
(* Every step keeps the invariant. *)

\* A view that is clear stays clear only for fewer calls when a refresh takes
\* longer.
LEMMA LagGrows ==
    ASSUME TypeOK, NEW r \in ToolCalls, CallInv(r), UNCHANGED <<now, place, changed>>,
           lag' \in 0..MaxTime, lag <= lag'
    PROVE  CallInv(r)'
<1>1. Clear(r)' => Clear(r)
  BY TtlPositive, MaxTimeNat DEF Clear, Undisturbed, ToolCalls, TypeOK
<1>2. SeesClearly(r)'
  BY <1>1 DEF CallInv, SeesClearly, TrueFor, RightEnd
<1> QED
  BY <1>2 DEF CallInv, WellFormed, AnswerFresh

\* A step of one call leaves every call as it should be.
LEMMA CallStep ==
    ASSUME InventoryInv, NEW c \in Calls, Moves(c), lag' \in 0..MaxTime, lag <= lag'
    PROVE  CallsInv' /\ call' \in [Calls -> ToolCalls]
<1> USE DEF InventoryInv
<1>1. PICK r \in ToolCalls : call' = [call EXCEPT ![c] = r] /\ CallInv(r)
  BY DEF Moves
<1>2. call' \in [Calls -> ToolCalls]
  BY <1>1 DEF TypeOK
<1>3. ASSUME NEW d \in Calls
      PROVE  call'[d] \in ToolCalls /\ CallInv(call'[d])
  BY <1>1 DEF TypeOK, CallsInv
<1>4. ASSUME NEW d \in Calls
      PROVE  CallInv(call[d])'
  <2>1. PICK x \in ToolCalls : x = call'[d] /\ CallInv(x)
    BY <1>3
  <2>2. CallInv(x)'
    BY <2>1, LagGrows DEF Moves
  <2> QED
    BY <2>1, <2>2 DEF CallInv, WellFormed, AnswerFresh, SeesClearly, Clear, Undisturbed,
       TrueFor,
       RightEnd
<1> QED
  BY <1>2, <1>4 DEF CallsInv

\* A call stores the resources it was answered, which were the cluster's after
\* the call began; vmDestroy drops them; every other step leaves the cache alone.
LEMMA AnyCallStep ==
    ASSUME InventoryInv, NEW c \in Calls, Moves(c), dying' \in SUBSET Vms,
           \/ Store(c)
           \/ cache' = {} /\ UNCHANGED lag
           \/ UNCHANGED <<cache, lag>>
    PROVE  InventoryInv'
<1> USE DEF InventoryInv
<1>1. CASE UNCHANGED <<cache, lag>>
  <2>1. CallsInv' /\ call' \in [Calls -> ToolCalls]
    BY <1>1, CallStep DEF TypeOK
  <2>2. TypeOK' /\ CacheFresh'
    BY <1>1, <2>1 DEF Moves, TypeOK, CacheFresh
  <2> QED
    BY <2>1, <2>2
<1>2. CASE cache' = {} /\ UNCHANGED lag
  <2>1. CallsInv' /\ call' \in [Calls -> ToolCalls]
    BY <1>2, CallStep DEF TypeOK
  <2>2. TypeOK' /\ CacheFresh'
    BY <1>2, <2>1, FS_EmptySet DEF Moves, TypeOK, CacheFresh
  <2> QED
    BY <2>1, <2>2
<1>3. CASE Store(c)
  <2> DEFINE r == call[c]
  <2>1. PICK resources \in r.resources : cache' = {[fetchedAt |-> now, resources |-> resources]}
    BY <1>3 DEF Store
  <2> DEFINE e == [fetchedAt |-> now, resources |-> resources]
  <2>2. /\ r \in ToolCalls /\ CallInv(r) /\ r.pc = "answered" /\ cache' = {e}
        /\ lag' = IF now - r.began > lag THEN now - r.began ELSE lag
    BY <1>3, <2>1 DEF Store, CallsInv, TypeOK
  <2> HIDE DEF r
  <2>3. r.began \in Nat /\ r.began <= now /\ now \in Nat /\ lag \in Nat /\ changed \in Nat
        /\ now <= MaxTime
    BY <2>2 DEF ToolCalls, CallInv, WellFormed, TypeOK
  <2>4. lag' \in 0..MaxTime /\ lag <= lag' /\ now - r.began <= lag'
    BY <2>2, <2>3, MaxTimeNat DEF TypeOK
  <2>5. CallsInv' /\ call' \in [Calls -> ToolCalls]
    BY <2>4, CallStep
  <2>6. TypeOK'
    <3>1. e \in [fetchedAt : 0..MaxTime, resources : Places]
      BY <2>1, <2>2 DEF ToolCalls, TypeOK
    <3>2. Cardinality(cache') <= 1
      <4> HIDE DEF e
      <4>1. Cardinality({e}) = 1
        BY FS_Singleton
      <4> QED
        BY <2>2, <4>1
    <3> QED
      BY <2>2, <2>4, <2>5, <3>1, <3>2 DEF Moves, TypeOK
  <2>7. CacheFresh'
    <3>1. resources # place => now <= changed + lag'
      BY <2>1, <2>2, <2>3, <2>4 DEF CallInv, AnswerFresh
    <3> QED
      BY <2>2, <2>3, <3>1 DEF Moves, CacheFresh
  <2> QED
    BY <2>5, <2>6, <2>7
<1> QED
  BY <1>1, <1>2, <1>3

\* A VM that moves does so now, after every call under way has begun and every
\* entry was stored: only a call about another VM keeps its clear view.
LEMMA MoveStep ==
    ASSUME InventoryInv, NEW v \in Vms, NEW p \in Nodes \cup {Nowhere}, Move(v, p),
           dying' \in SUBSET Vms, UNCHANGED <<now, cache, lag>>
    PROVE  InventoryInv'
<1> USE DEF InventoryInv
<1>1. /\ place' = [place EXCEPT ![v] = p] /\ changed' = now
      /\ call' = [c \in Calls |-> IF call[c].pc = "free" THEN call[c]
                                  ELSE [call[c] EXCEPT !.moved = call[c].moved \cup {v}]]
  BY DEF Move
<1>2. ASSUME NEW c \in Calls
      PROVE  call'[c] \in ToolCalls /\ CallInv(call[c])'
  <2>1. PICK r \in ToolCalls : r = call[c] /\ CallInv(r)
    BY DEF CallsInv, TypeOK
  <2>2. PICK x : x = IF r.pc = "free" THEN r ELSE [r EXCEPT !.moved = r.moved \cup {v}]
    OBVIOUS
  <2>3. /\ call'[c] = x
        /\ x \in ToolCalls /\ x.pc = r.pc /\ x.op = r.op /\ x.vm = r.vm /\ x.given = r.given
        /\ x.began = r.began /\ x.resources = r.resources /\ x.node = r.node /\ x.left = r.left
        /\ x.result = r.result /\ (r.pc # "free" => x.moved = r.moved \cup {v})
    <3>1. call'[c] = x
      BY <1>1, <2>1, <2>2
    <3> QED
      BY <2>2, <3>1 DEF ToolCalls
  <2>4. r.began \in Nat /\ r.began <= now /\ now \in Nat /\ lag \in Nat
    BY <2>1 DEF ToolCalls, CallInv, WellFormed, TypeOK
  <2>5. WellFormed(x)' /\ AnswerFresh(x)'
    BY <1>1, <2>1, <2>3, <2>4 DEF CallInv, WellFormed, AnswerFresh
  <2>6. ASSUME Clear(x)', x.pc # "free"
        PROVE  Clear(r) /\ r.op \in Located /\ place'[r.vm] = place[r.vm]
    <3>1. ~(x.began >= changed' + Ttl + lag')
      BY <1>1, <2>3, <2>4, TtlPositive
    <3>2. r.op \in Forced /\ r.op \in Located /\ r.vm \notin r.moved /\ r.vm # v /\ ~r.given
      BY <2>3, <2>6, <3>1 DEF Clear, Undisturbed
    <3>3. r.vm \in Vms
      BY <2>1, <2>3, <2>6 DEF CallInv, WellFormed
    <3> QED
      BY <1>1, <3>2, <3>3 DEF Clear, Undisturbed, TypeOK, Places
  <2>7. SeesClearly(x)'
    BY <2>1, <2>3, <2>6 DEF CallInv, SeesClearly, TrueFor, RightEnd, Located
  <2>8. CallInv(x)'
    BY <2>5, <2>7 DEF CallInv
  <2> QED
    BY <2>3, <2>8 DEF CallInv, WellFormed, AnswerFresh, SeesClearly, Clear, Undisturbed,
       TrueFor, RightEnd
<1>3. TypeOK'
  <2>1. place' \in Places
    BY <1>1 DEF TypeOK, Places
  <2>2. call' \in [Calls -> ToolCalls]
    BY <1>1, <1>2
  <2> QED
    BY <1>1, <2>1, <2>2 DEF TypeOK
<1>4. CacheFresh'
  BY <1>1 DEF CacheFresh, TypeOK
<1> QED
  BY <1>2, <1>3, <1>4 DEF CallsInv

\* Time passes.
LEMMA TickStep ==
    ASSUME InventoryInv, Tick
    PROVE  InventoryInv'
<1> USE DEF InventoryInv, Tick, cluster
<1>1. TypeOK'
  BY MaxTimeNat DEF TypeOK
<1>2. CacheFresh'
  BY DEF CacheFresh, TypeOK
<1>3. ASSUME NEW c \in Calls
      PROVE  CallInv(call[c])'
  <2>1. CallInv(call[c]) /\ call[c] \in ToolCalls
    BY DEF CallsInv, TypeOK
  <2>2. call[c].began <= now'
    BY <2>1 DEF CallInv, WellFormed, ToolCalls, TypeOK
  <2> QED
    BY <2>1, <2>2 DEF CallInv, WellFormed, AnswerFresh, SeesClearly, Clear, Undisturbed,
       TrueFor,
       RightEnd
<1> QED
  BY <1>1, <1>2, <1>3 DEF CallsInv

-----------------------------------------------------------------------------
(* The theorems. *)

\* The invariant of the inventory: entries and answers are stale only since the
\* last change of the cluster, and a call with a clear view has the truth.
THEOREM InventoryInvariant == Spec => []InventoryInv
<1>1. Init => InventoryInv
  <2> SUFFICES ASSUME Init
               PROVE  InventoryInv
    OBVIOUS
  <2>1. Idle \in ToolCalls
    BY MaxTimeNat DEF Idle, ToolCalls, Ops, Results
  <2>2. TypeOK
    BY <2>1, FS_EmptySet, MaxTimeNat DEF Init, TypeOK
  <2>3. CacheFresh
    BY DEF Init, CacheFresh
  <2> QED
    BY <2>2, <2>3, IdleCall DEF Init, InventoryInv, CallsInv
<1>2. InventoryInv /\ [Next]_vars => InventoryInv'
  <2> SUFFICES ASSUME InventoryInv, [Next]_vars
               PROVE  InventoryInv'
    OBVIOUS
  <2> dying \in SUBSET Vms
    BY DEF InventoryInv, TypeOK
  <2>1. ASSUME NEW c \in Calls, NEW op \in Ops, NEW v \in Vms, Call(c, op, v)
        PROVE  InventoryInv'
    BY <2>1, NewCallMoves, AnyCallStep DEF Call, cluster
  <2>2. ASSUME NEW c \in Calls, NEW op \in Ops, NEW v \in Vms, NEW n \in Nodes,
               CallOnNode(c, op, v, n)
        PROVE  InventoryInv'
    BY <2>2, NewCallMoves, AnyCallStep DEF CallOnNode, cluster
  <2>3. ASSUME NEW c \in Calls, Progress(c) \/ Fail(c) \/ Return(c)
        PROVE  InventoryInv'
    <3>1. Moves(c)
      BY <2>3, LaterCallMoves
    <3>2. \/ Store(c)
          \/ cache' = {} /\ UNCHANGED lag
          \/ UNCHANGED <<cache, lag>>
      BY <2>3 DEF Progress, Fail, Return, ResourcesAnswered, DetectVm, Detected, Send,
         vmDestroy
    <3>3. dying' \in SUBSET Vms
      <4>1. CASE Send(c)
        <5>1. call[c].vm \in Vms
          BY <4>1 DEF Send, InventoryInv, CallsInv, CallInv, WellFormed
        <5> QED
          BY <4>1, <5>1 DEF Send
      <4>2. CASE ~Send(c)
        BY <2>3, <4>2 DEF Progress, Fail, Return, ResourcesAnswered, Store, DetectVm,
           Detected,
           vmDestroy, cluster
      <4> QED
        BY <4>1, <4>2
    <3> QED
      BY <3>1, <3>2, <3>3, AnyCallStep
  <2>4. ASSUME NEW v \in Vms, NEW p \in Nodes \cup {Nowhere}, ClusterChanges(v, p)
        PROVE  InventoryInv'
    BY <2>4, MoveStep DEF ClusterChanges
  <2>5. ASSUME NEW v \in Vms, RemovalEnds(v)
        PROVE  InventoryInv'
    <3>1. dying' \in SUBSET Vms /\ UNCHANGED <<now, cache, lag>>
      BY <2>5 DEF RemovalEnds
    <3>2. CASE Move(v, Nowhere)
      BY <3>1, <3>2, MoveStep
    <3>3. CASE UNCHANGED <<place, changed, call>>
      BY <3>1, <3>3 DEF InventoryInv, TypeOK, CacheFresh, CallsInv, CallInv, WellFormed,
         AnswerFresh,
         SeesClearly, Clear, Undisturbed, TrueFor, RightEnd
    <3> QED
      BY <2>5, <3>2, <3>3 DEF RemovalEnds
  <2>6. CASE Tick
    BY <2>6, TickStep
  <2>7. CASE UNCHANGED vars
    BY <2>7 DEF vars, cluster, InventoryInv, TypeOK, CacheFresh, CallsInv, CallInv,
       WellFormed,
       AnswerFresh, SeesClearly, Clear, Undisturbed, TrueFor, RightEnd
  <2> QED
    BY <2>1, <2>2, <2>3, <2>4, <2>5, <2>6, <2>7 DEF Next
<1> QED
  BY <1>1, <1>2, PTL DEF Spec

\* The cache holds one entry at a time and every call stays a call.
THEOREM InventoryTypes == Spec => []TypeOK
BY InventoryInvariant, PTL DEF InventoryInv

\* A call that refreshes ends rightly if nothing it depends on moves meanwhile,
\* however stale the cache and whatever other calls store.
THEOREM RefreshSeesCluster == Spec => []ForcedSeesCluster
<1>1. InventoryInv => ForcedSeesCluster
  BY DEF InventoryInv, CallsInv, CallInv, SeesClearly, Clear, ForcedSeesCluster, Resolved
<1> QED
  BY <1>1, InventoryInvariant, PTL

\* Stale inventory heals: a call that begins when the cluster has not changed
\* for the TTL and the longest refresh ends rightly.
THEOREM StaleInventoryHeals == Spec => []SettledClusterSeen
<1>1. InventoryInv => SettledClusterSeen
  BY DEF InventoryInv, CallsInv, CallInv, SeesClearly, Clear, SettledClusterSeen, Resolved
<1> QED
  BY <1>1, InventoryInvariant, PTL
=============================================================================
