---------------------------- MODULE InventoryCache ----------------------------
(***************************************************************************)
(* The inventory cache of ProxmoxService and the tool calls that read it:  *)
(* getClusterResources, getVmLocation, inventoryOverview and the VM        *)
(* operations built on them (src/src/services.ts,                          *)
(* src/src/domain-services.ts).                                            *)
(*                                                                         *)
(* The cluster changes on its own: VMs are created, migrated and removed   *)
(* by others while calls are under way.  A request is answered by Proxmox  *)
(* at one moment and its answer arrives at a later one; a call runs        *)
(* without interruption between two awaits.  One cluster is modelled (the  *)
(* cache has one entry per cluster), and of a resource only the node it is *)
(* on.  Containers take the same way as VMs, without the guest detection.  *)
(***************************************************************************)
EXTENDS Naturals, FiniteSets

CONSTANTS
    Calls,       \* tool calls that can be under way together
    Vms,
    Nodes,
    Nowhere,     \* the place of a VM that does not exist
    Ttl,         \* inventoryCacheTtlMs
    MaxTime      \* bound on the clock

ASSUME NowhereIsNoNode == Nowhere \notin Nodes
ASSUME TtlPositive == Ttl \in Nat \ {0}
ASSUME MaxTimeNat == MaxTime \in Nat

VARIABLES
    now,
    place,       \* cluster: the node of each VM
    dying,       \* cluster: VMs whose removal task is under way
    cache,       \* resourceCache, a set of at most one entry
    call,        \* the tool calls
    changed,     \* history: when the cluster last changed
    lag          \* history: the longest time a refresh has taken

cluster == <<place, dying, changed>>
vars == <<now, cluster, cache, call, lag>>

Places == [Vms -> Nodes \cup {Nowhere}]

\* overview: proxmox_inventory_overview and the lists of nodes, VMs and
\* containers; refreshed: the same with forceRefresh.  get and ping find a VM
\* in an overview; act and destroy locate it with getVmLocation.
Ops == {"overview", "refreshed", "get", "ping", "act", "destroy"}
Forced == {"refreshed", "act", "destroy"}
Located == {"act", "destroy"}

\* ok; refused: Proxmox does not know the VM on the node asked for; unknown:
\* the VM is not among the resources.
Results == {"none", "ok", "refused", "unknown"}

\* resources holds the resources once the call has them; given: the caller named
\* the node; moved is history: the VMs that moved since the call began.
ToolCalls ==
    [pc : {"free", "fetch", "answered", "detect", "send", "forget", "done"},
     op : Ops, vm : Vms \cup {Nowhere}, given : BOOLEAN, began : 0..MaxTime,
     resources : SUBSET Places, todo : SUBSET Vms, node : Nodes \cup {Nowhere},
     left : 0..2, moved : SUBSET Vms, result : Results]

Idle == [pc |-> "free", op |-> "overview", vm |-> Nowhere, given |-> FALSE,
         began |-> 0, resources |-> {}, todo |-> {}, node |-> Nowhere,
         left |-> 0, moved |-> {}, result |-> "none"]

TypeOK ==
    /\ now \in 0..MaxTime /\ changed \in 0..MaxTime /\ lag \in 0..MaxTime
    /\ place \in Places /\ dying \in SUBSET Vms
    /\ cache \in SUBSET [fetchedAt : 0..MaxTime, resources : Places]
    /\ Cardinality(cache) <= 1
    /\ call \in [Calls -> ToolCalls]

Init ==
    /\ now = 0 /\ changed = 0 /\ lag = 0
    /\ place \in Places /\ dying = {}
    /\ cache = {}
    /\ call = [c \in Calls |-> Idle]

-----------------------------------------------------------------------------
(* Steps of a call.  They are operators on the call's record, so that what  *)
(* runs between two awaits is one action.                                   *)

Ended(r, result) ==
    [r EXCEPT !.pc = "done", !.todo = {}, !.node = Nowhere, !.left = 0,
              !.result = result]

\* proxmoxApiCall to the node; proxmox_vm_get makes two requests.
Requesting(r, node) ==
    [r EXCEPT !.pc = "send", !.node = node,
              !.left = IF r.op = "get" THEN 2 ELSE 1]

\* A request is answered; the last answer ends the call.
Replied(r) == IF r.left = 1 THEN Ended(r, "ok") ELSE [r EXCEPT !.left = @ - 1]

\* detectVmGuest has the configuration of VM v.
Detect(r, v) == [r EXCEPT !.todo = @ \ {v}]

\* The VM is looked up in the resources; one that is not there, or has no
\* node, is an error.
Find(r, resources) ==
    IF resources[r.vm] = Nowhere
    THEN Ended(r, "unknown")
    ELSE Requesting(r, resources[r.vm])

\* The overview is complete: the lists return it, get and ping look into it.
Overview(r, resources) ==
    IF r.op \in {"get", "ping"} THEN Find(r, resources) ELSE Ended(r, "ok")

\* getClusterResources returns: getVmLocation looks the VM up at once,
\* inventoryOverview asks for /version and /cluster/status and then for the
\* configuration of every VM.
WithResources(r, resources) ==
    LET got == [r EXCEPT !.resources = {resources}]
    IN  IF r.op \in Located
        THEN Find(got, resources)
        ELSE [got EXCEPT !.pc = "detect",
                         !.todo = {v \in Vms : resources[v] # Nowhere}]

\* Mutant: getVmLocation takes what is cached.
Usable_Lazy(op) == {e \in cache : op # "refreshed" /\ now - e.fetchedAt < Ttl}

\* Mutant: an entry is used for one moment longer.
Usable_Inclusive(op) == {e \in cache : op \notin Forced /\ now - e.fetchedAt <= Ttl}

\* An entry younger than the TTL is used, unless a refresh is asked for.
Usable(op) == {e \in cache : op \notin Forced /\ now - e.fetchedAt < Ttl}

\* getVmLocation always refreshes.
getClusterResources(c, r) ==
    IF Usable(r.op) = {}
    THEN call' = [call EXCEPT ![c] = [r EXCEPT !.pc = "fetch"]]
    ELSE \E e \in Usable(r.op) :
             call' = [call EXCEPT ![c] = WithResources(r, e.resources)]

-----------------------------------------------------------------------------
(* The calls. *)

Call(c, op, v) ==
    /\ call[c].pc = "free"
    /\ getClusterResources(c, [Idle EXCEPT !.op = op, !.vm = v, !.began = now])
    /\ UNCHANGED <<now, cluster, cache, lag>>

\* The caller names the node: nothing is looked up.
CallOnNode(c, op, v, node) ==
    /\ call[c].pc = "free" /\ op \in {"ping", "act", "destroy"}
    /\ call' = [call EXCEPT ![c] =
           Requesting([Idle EXCEPT !.op = op, !.vm = v, !.began = now,
                                   !.given = TRUE], node)]
    /\ UNCHANGED <<now, cluster, cache, lag>>

\* Proxmox answers GET /cluster/resources ...
ResourcesAnswered(c) ==
    /\ call[c].pc = "fetch"
    /\ call' = [call EXCEPT ![c].pc = "answered", ![c].resources = {place}]
    /\ UNCHANGED <<now, cluster, cache, lag>>

\* Mutant: a refresh is added to the entries held.
Store_Adds(c) ==
    /\ call[c].pc = "answered"
    /\ \E resources \in call[c].resources :
           /\ cache' = cache \cup {[fetchedAt |-> now, resources |-> resources]}
           /\ call' = [call EXCEPT ![c] = WithResources(call[c], resources)]
    /\ lag' = IF now - call[c].began > lag THEN now - call[c].began ELSE lag
    /\ UNCHANGED <<now, cluster>>

\* ... and when the answer arrives it is stored with the time of arrival,
\* whatever was stored in the meantime.
Store(c) ==
    /\ call[c].pc = "answered"
    /\ \E resources \in call[c].resources :
           /\ cache' = {[fetchedAt |-> now, resources |-> resources]}
           /\ call' = [call EXCEPT ![c] = WithResources(call[c], resources)]
    /\ lag' = IF now - call[c].began > lag THEN now - call[c].began ELSE lag
    /\ UNCHANGED <<now, cluster>>

\* detectVmGuest: all VMs are asked for at once; each answer comes when it
\* comes, and the first error is the error of the whole overview.
DetectVm(c, v) ==
    /\ call[c].pc = "detect" /\ v \in call[c].todo
    /\ \E resources \in call[c].resources :
           call' = [call EXCEPT ![c] =
               IF place[v] = resources[v]
               THEN Detect(@, v)
               ELSE Ended(@, "refused")]
    /\ UNCHANGED <<now, cluster, cache, lag>>

Detected(c) ==
    /\ call[c].pc = "detect" /\ call[c].todo = {}
    /\ \E resources \in call[c].resources :
           call' = [call EXCEPT ![c] = Overview(@, resources)]
    /\ UNCHANGED <<now, cluster, cache, lag>>

\* Proxmox gets the request of a call on its node.  A DELETE starts the task
\* that removes the VM.
Send(c) ==
    /\ call[c].pc = "send"
    /\ IF place[call[c].vm] # call[c].node
       THEN /\ call' = [call EXCEPT ![c] = Ended(@, "refused")]
            /\ UNCHANGED dying
       ELSE IF call[c].op = "destroy"
       THEN /\ call' = [call EXCEPT ![c].pc = "forget"]
            /\ dying' = dying \cup {call[c].vm}
       ELSE /\ call' = [call EXCEPT ![c] = Replied(@)]
            /\ UNCHANGED dying
    /\ UNCHANGED <<now, place, changed, cache, lag>>

\* The answer to DELETE arrives: vmDestroy drops the cached entry.
vmDestroy(c) ==
    /\ call[c].pc = "forget"
    /\ cache' = {}
    /\ call' = [call EXCEPT ![c] = Ended(@, "ok")]
    /\ UNCHANGED <<now, cluster, lag>>

\* A request of the call fails: the call ends with its error.
Fail(c) ==
    /\ call[c].pc \notin {"free", "done"}
    /\ call' = [call EXCEPT ![c] = Idle]
    /\ UNCHANGED <<now, cluster, cache, lag>>

Return(c) ==
    /\ call[c].pc = "done"
    /\ call' = [call EXCEPT ![c] = Idle]
    /\ UNCHANGED <<now, cluster, cache, lag>>

Progress(c) ==
    \/ ResourcesAnswered(c) \/ Store(c) \/ Detected(c) \/ Send(c) \/ vmDestroy(c)
    \/ \E v \in Vms : DetectVm(c, v)

-----------------------------------------------------------------------------
(* The cluster and the clock. *)

Move(v, p) ==
    /\ place' = [place EXCEPT ![v] = p]
    /\ changed' = now
    /\ call' = [c \in Calls |-> IF call[c].pc = "free" THEN call[c]
                                ELSE [call[c] EXCEPT !.moved = @ \cup {v}]]

\* A VM is created, migrated or removed by anyone.
ClusterChanges(v, p) ==
    /\ p # place[v] /\ v \notin dying
    /\ Move(v, p)
    /\ UNCHANGED <<now, dying, cache, lag>>

\* The task that DELETE started removes the VM, or fails.
RemovalEnds(v) ==
    /\ v \in dying /\ dying' = dying \ {v}
    /\ \/ Move(v, Nowhere)
       \/ UNCHANGED <<place, changed, call>>
    /\ UNCHANGED <<now, cache, lag>>

Tick ==
    /\ now < MaxTime /\ now' = now + 1
    /\ UNCHANGED <<cluster, cache, call, lag>>

Next ==
    \/ \E c \in Calls :
           \/ \E op \in Ops, v \in Vms : Call(c, op, v)
           \/ \E op \in Ops, v \in Vms, n \in Nodes : CallOnNode(c, op, v, n)
           \/ Progress(c) \/ Fail(c) \/ Return(c)
    \/ \E v \in Vms :
           \/ \E p \in Nodes \cup {Nowhere} : ClusterChanges(v, p)
           \/ RemovalEnds(v)
    \/ Tick

Spec == Init /\ [][Next]_vars

-----------------------------------------------------------------------------
(* Properties. *)

\* The right end of a call, for the cluster as it is now.
RightEnd(r) ==
    IF r.op \in {"overview", "refreshed"}
    THEN r.result = "ok" /\ r.resources = {place}
    ELSE r.result = (IF place[r.vm] = Nowhere THEN "unknown" ELSE "ok")

\* What a call depends on did not move since it began.
Undisturbed(r) == IF r.op \in Located THEN r.vm \notin r.moved ELSE r.moved = {}

\* A call has ended, none of its requests failed, and it resolved the node.
Resolved(c) == call[c].pc = "done" /\ ~call[c].given

\* A call that asks for a refresh ("Whether to bypass the in-memory inventory
\* cache", tools/cluster/register.ts:20) or locates its VM with getVmLocation
\* ("Locates the current node", services.ts:479) ends rightly however stale the
\* cache is and whatever other calls store meanwhile, if what it depends on does
\* not move while it runs.
ForcedSeesCluster ==
    \A c \in Calls :
        Resolved(c) /\ call[c].op \in Forced /\ Undisturbed(call[c]) =>
            RightEnd(call[c])

\* Stale inventory heals by itself: refreshes overlap and are stored out of
\* order, vmDestroy drops the entry before the VM is gone, VMs move without the
\* server's knowledge and one VM that moved fails the overview of all; yet a
\* call that begins when the cluster has not changed for the TTL and the longest
\* refresh ends rightly.
SettledClusterSeen ==
    \A c \in Calls :
        Resolved(c) /\ call[c].began >= changed + Ttl + lag => RightEnd(call[c])
=============================================================================
