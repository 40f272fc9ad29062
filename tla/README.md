# TLA+ models and proofs for proxmox-mcp

This directory keeps formal models of the parts of proxmox-mcp whose correctness
depends on the order of events: background jobs, managed credentials, enrolled
secrets, the inventory cache, the artifact store, access over HTTP and stdio, the
file and snippet tools and the boot inspection. Each module is a translation
of the TypeScript sources (file names below are those in the repository's source
directory, `src/src/`).
`PROJECT.json` maps every definition to the lines it models, and lists the runs,
the mutants that show each property can fail, the findings, the hazards and the
theorems.

## 1. Inventory

| Component | State it keeps | Operations | Hard behaviour |
|---|---|---|---|
| **Job registry** (`jobs.ts`) and **job tools** (`tools/escape/register.ts`) | three maps: records, abort controllers, completion promises; ids of UPID jobs encode the UPID | `create`, `createUpidJob`, `run`, `wait`, `cancel`; `job_get`, `job_wait`, `job_cancel`, `job_logs` | cancel against completion against timers; restart; records that shadow Proxmox |
| **Executors** (`services.ts`, `ssh.ts`) | position in a polling loop or an SSH session; abort listeners | `waitForUpid`, `runSshCommand`, `SshExecutor.exec`, `runQemuGuestAgentCommand` | abort before a listener exists; failed poll; session that breaks while the command goes on |
| **Typed tools** (`tools/*/register.ts`, `domain-services.ts`) | none | submit a request, watch the task it names | lost answer leaves an unwatched task |
| **Managed credentials** (`managed-auth.ts`, `ProxmoxService.apiRequest`) | token, two deadlines, rotation timer, `repairPromise` | `initialize`, `ensureCluster`, `repairCluster`, timer, one retry after 401 | many callers, one rotation; refusals that arrive late; scripts that outlive their session; expiry |
| **Enrollment and steady-state secrets** (`admin-cli.ts`, `admin-enroll.ts`, `admin-secrets.ts`, `secrets.ts`, `startup.ts`) | secret document; host token and shell key; the server's copy | `enroll`, `rotate`, `deprovision`, `status`, server start, SIGHUP | two commands at once; death between host and document; swallowed errors |
| Inventory cache (`services.ts`) | last `/cluster/resources` answer and its time | `getClusterResources`, `getVmLocation`, `vmDestroy` | answers stored out of order, stale location |
| File and snippet tools (`services.ts`, `ssh.ts`) | files and the storage configuration of nodes and guests | read, write; snippet get, put, delete | read-modify-write on the host; a file emptied before it is filled; commands killed or left running; encodings that must cancel out |
| Other multi-step operations (`services.ts`) | PCI configuration, tokens | PCI attach and detach with a fallback, `bootstrapNodeAccess` | fallback to another transport; token deleted before it is made |
| Startup, HTTP and OIDC (`config.ts`, `startup.ts`, `index.ts`, `http-server.ts`, `http-auth.ts`) | configuration; cached key set | `loadConfig`, `initializeRuntimeConfig`, `verifyToken`, `getJwks` | combinations of modes; key rotation; fetches stored out of order; limits of validity |
| Policy, scopes and audit (`policy.ts`, `server.ts`) | none; audit log | `wrapRegisterTool`, `getPolicy`, `assert…`, `record` | which of several checks a call passes, and in what order |
| Artifacts (`artifacts.ts`) | map of artifacts, temporary files | create, read, remove, expiry | expiry against reads; leaked files |
| Boot diagnostics (`boot/diagnostics.ts`, `domain-services.ts`) | mounts and loop devices of the node | `diagnoseVmBoot` and its script | scripts that overlap or die and share a directory and all loop devices |
| API catalog, read-only tools | none after start | – | sequential |

How they interact: a tool call enters through `server.ts`, passes the scope check
and, unless it only reads the inventory or deals with tasks, policy and audit, and
either answers from the API at once or hands an executor to the job registry.
Every executor goes through `ProxmoxService.apiRequest` or `runSshCommand`, and
these consult the managed credentials when the cluster has them. The admin CLI
shares nothing with the server but the secret document and the host. A node
process runs one turn of its event loop at a time, so what can interleave is
what happens between an `await` and its continuation, and everything that
happens on Proxmox, on a host or in another process.

What makes each part correct: the registry never contradicts itself or an answer
it gave; an id handed out stays meaningful; a cancelled or finished job settles;
credentials held, stored and accepted are the same whenever nothing is under way;
a refused request is retried with something new and ends; a stored pair of
credentials belongs together; a call that asks for the cluster's state gets it,
and a stale one heals; an artifact that has not expired can be read, and its file
goes when it is removed; only what startup mode and token allow reaches Proxmox,
a tool only with its scope, and everything that policy and audit cover only after
both; a withdrawn key is not honoured for long and
a new one is learned; a file tool reads what was meant to be there and leaves what
it was given; an inspection shows the disk of its own VM and cleans up.

## 2. Modules

| Module | Models | Composition |
|---|---|---|
| `JobContract` | what the registry promises to the holder of an id, without transport or polling | abstract specification |
| `ServerJobs` | registry, executors, job tools, tool calls; Proxmox tasks and remote commands as environment | implements `JobContract` (`Contract == INSTANCE JobContract WITH Cancellable <- LocalJobs`) |
| `ServerJobsProofs` | type correctness, registry consistency, cancellations are heard | extends `ServerJobs`, `TLAPS` |
| `ServerJobsAnswers` | truth of answers, unknown ids, refinement | extends `ServerJobsProofs` |
| `ManagedAuth` | one managed cluster: requests, reconcile runs, timer, host, clock | – |
| `SecretLifecycle` | admin commands, secret document, host, server start and reload | – |
| `InventoryCache` | inventory cache, the calls that read it, a cluster that changes, clock | – |
| `ArtifactStore` | artifact map, files behind it, overlapping reads, clock | – |
| `HttpAccess` | startup checks, listener, bearer tokens and key cache, scopes, policy, audit; the issuer and the clock as environment | – |
| `FileTools` | file and snippet tools on one file and one storage | – |
| `BootInspection` | boot diagnosis, its script, loop devices and mounts | – |
| `NodeOperations` | both kinds of work on a node | extends `FileTools`, `BootInspection` |
| `ManagedAuthProofs`, `SecretLifecycleProofs`, `InventoryCacheProofs`, `ArtifactStoreProofs`, `HttpAccessProofs`, `NodeOperationsProofs` | an inductive invariant of the module, and the theorems that follow from it | extend the module they are named after, `TLAPS` |
| `MCServerJobs`, `MCManagedAuth`, `MCSecretLifecycle`, `MCInventoryCache`, `MCArtifactStore`, `MCHttpAccess`, `MCNodeOperations` | symmetry sets for TLC | extend the above |

### ServerJobs

One action is one turn of the event loop. `state` and `signal` are the maps
`jobs` and `abortControllers`; `exec` is the position of the executor passed to
`JobManager.run`; `heard` says whether an abort listener of a running SSH command
is registered (a listener added to a signal that is already aborted never fires);
`resultLog` is the log a settled UPID record carries. `task`, `taskLog` and
`command` are the outside world. `call` holds the MCP tool calls, each with its
phase and, when done, the answer it gave. `made`, `asked` and `lost` are history:
ids handed out, controllers fired, records lost.

- `Run`, `Settle`, `Thrown`: `create` with the synchronous part of `run`, and the
  `try`/`catch`/`finally` at its end.
- `PollStatus`, `PollAgain`, `PollLog`, `PollFails`: `waitForUpid`. `Shown` is what
  Proxmox returns of a log: the code names no limit, so it is the first `Page` lines
  (50, by the vendored API description).
- `SshPrepareFails` … `SshCloses`: `proxmoxCliRun`, `proxmoxShellRun` or
  `nodeTerminalRun`, then `runSshCommand` with one repair and retry.
- `AgentPrepare` … `AgentFails`: `runQemuGuestAgentCommand`.
- `CallUpidTool`, `UpidArrives`, `SubmitEndsWithoutJob`, `CallProcessTool`,
  `settleJob`: the shape shared by all tools that start background work.
- `CallRead`, `CallWait`, `CallCancelLocal`, `CallCancelUpid`, `Snapshot…`: the
  `job_*` tools; `classifyUpidState` keeps its name, and `SnapshotExpires` is the
  round of a timed `job_wait` that finds its time gone by.
- `Restart`: records, executors and pending calls go; tasks, commands and what
  clients were told stay.

Abstracted: log lines are a count, progress and artifacts are left out, "pending"
does not occur as a state because `create` and `run` are called in one turn.

### ManagedAuth

A reconcile pass is a *run*; `repairPromise` is the one the server awaits. The
script of a run is sent with the expiry computed beforehand, deletes the token
and adds a new one; if its SSH session breaks it may go on, next to the script of
a later run. Waiters continue in the turn in which the promise settles, so
`RunSucceeds`, `RunSucceedsLate` and `RunFails` move them along; the retry passes
`ensureCluster` again and, if the script took so long that the new token is
already near its deadline, starts another run (`RunSucceedsLate`). Tokens are
numbered as the host mints them. `drift` says that the host's token was changed
by something the server does not know of.

### SecretLifecycle

Each admin command is a process. `InstallKey`, `AddUser`, `DeleteToken`,
`AddToken` are the lines of the enrollment script that matter, in their order;
`RemoveToken`, `RemoveUser`, `RemoveShellUser` those of deprovision, each of which
may silently do nothing (`|| true`). `WriteTemp` and `Rename` are
`atomicWriteJson`. `Fail` is an error or a kill at any point, after which a script
may go on alone until `OrphanEnds`. The server loads the document when it starts;
`Reload` is SIGHUP. `issued` and `period` are history: which token and key came
from one script, and what ran since all commands were last at rest.
Abstracted: one cluster and one identity (the configuration loader builds exactly
one cluster), no expiry, file-like store; the env backend, whose `write` always
throws, is the case in which `Fail` happens at the write.

### InventoryCache

`cache` is `resourceCache` for one cluster. A call runs from one await to the next:
`Call` reads the cache or starts a refresh, `ResourcesAnswered` is the moment
Proxmox answers, `Store` the moment the answer arrives, is stored and used.
`DetectVm` is one of the parallel requests of `inventoryOverview`, whose first
error is the error of all. Operations of six kinds stand for the tools: overviews
with and without `forceRefresh`, `get` and `ping` (which look into an overview),
`act` (`vmAction`, `lxcAction`, `vmUpdateConfig`, clone, template: `getVmLocation`,
then a request) and `destroy`. `CallOnNode` is a call that names the node. `changed`,
`lag` and a call's `moved` are history.
Abstracted: of a resource only its node; Proxmox is taken to answer
`/cluster/resources` with what is true at that moment; capabilities and guest
probing, which change no state; the SSH fallback of the PCI operations.

### ArtifactStore

`held` is the map of `ArtifactManager`, `file` the state of the file behind an
artifact. `CreateTempFile` and `WriteEnds` are the two sides of the awaited write,
`readArtifactBuffer` and `FileRead` those of a read, `remove` and `RmEnds` those of
a removal. `get` drops the record of an expired artifact and leaves its file.
`fate` is history.
`LocalRead` and `RemoteRead` are what may come of reading a file: it may fail, and
one on Proxmox may come truncated or empty without an error (`torn`).
Abstracted: payloads, encodings, and the choice of the backing by size (any
backing is chosen).

### HttpAccess

`env` is what the environment says of mode, auth mode, local bootstrap and escape
plane; `loadConfig` and `initializeRuntimeConfig` end the process or let it serve.
A call is a tool call on stdin (`StdioCall`) or an HTTP request (`Request`, with a
token, or `Refuse`). `validateClaims` looks at the clock when the request comes;
`getJwks` uses the cached key set or fetches it, every request for itself, in the
steps `JwksAnswered` (the issuer answers) and `JwksStored` (the answer arrives,
replaces the entry and is used). `Dispatch` is the transport, `Handle` the wrapper of
every tool (a resource does not pass it). What is neither policed nor recorded goes
straight to `Send`; everything else may look up a VM (`getVmLocation`), asks the
policy (`assertAccess`), writes its record (`AuditRecord`) and only then sends.
`Turn` publishes or withdraws a key; `nameless` are the keys without a key id.
`turned`, `lag` and the set `done` of a call are history: when a key last changed, the
longest fetch, what the call went through.
Abstracted: a token is its signer, key id, limits (if it has any), issuer and audience
as one bit, and scopes; a signature verifies exactly under the key that made it; a
tool is one of eight classes by scope, permissions and record; discovery only adds to
the delay of a fetch.

### FileTools

One file, on a node, in a container or in a VM, and the content types of the
storage it belongs to. A call is a sequence of commands: `ReadTypes`, `SetTypes`
(the two halves of `getSnippetStorageRoot`), `Open` and `Fill` (the shell truncates,
base64 fills; in a VM the guest agent does both, and `Written` is what it fills in),
`Look`, `Remove`; in a VM `AgentRead`. `Fail` is an
error, `Kill` and `KillRoot` a command ended by a signal, which the SSH executor
reports as exit code 0, and `Leave` a broken session or an abort while the command
goes on. A content is one of three kinds and a number of base64 layers, so the
conversions are what they are: `decodeMaybeBase64` decodes what looks like base64,
also when it was not meant so. `meant` and `wanted` are history: what the last one to
write the file wanted it to hold, if one did, and the content types the administrator
has set last. `Types` are the content types besides one that the storage always has,
so that its list is never empty (the script refuses an empty one).

### BootInspection

Every command of the script that changes the node is an action. `loop` is the disk
behind each loop device, `lazy` the devices to be detached when unmounted, `mounts`
the stack of mounts on the directory of each VM. `Detach` and `Unmount` are the
kernel's rules (external); an `umount` may fail, and the script goes on. `Die` ends a
script anywhere. `alone`, `upset`, `dirty` and `stray` are history: which scripts
overlapped, whether any did or an `umount` failed, and which left something.
`MountFails` may happen to any script, as what is on a disk is not modelled.

## 3. Runs

| Run | Properties | Instance and size | Shows |
|---|---|---|---|
| `JobsSafe` | `TypeOK`, `RegistryConsistent`, `CancelHeard`, `AnswersHold`, `UnknownMeansLost`, `ContractKept` | 1 UPID and 1 SSH job, 2 calls, 2 log lines of which 1 is shown; 1.6 million states | maps agree, a running session hears its cancellation, answers stay true, ids stay usable, refinement of `JobContract` |
| `JobsLive` | `AnswersHold`, `WatchSettles`, `AgentCancelSettles`, `CallsAnswered` | 1 UPID and 1 agent job, 1 call, 2 log lines of which 1 is shown; 56 thousand | watches, cancellations and bounded calls end |
| `AuthSafe` | `SingleFlight`, `InSync`, `RetryUsesNewToken`, `SentTokenWorks` | 2 requests, 2 runs, rotation 3, life 4, safety 1, clock 4; 1 million | the lifecycle keeps its promises under failures, drift and overlap |
| `AuthLive` | `RequestsEnd` | 2 requests, 1 run, clock 2; 270 thousand | requests end, unless the run they wait for never does |
| `SecretsSafe` | `StoreAgreesWithHost`, `PairsWhole` | 2 commands at a time, 2 keys, 2 tokens; 2.9 million | successful commands need no lock; credentials stay paired |
| `SecretsReload` (violation) | `ReloadTakesEffect` | 1 command, 2 tokens | SIGHUP does not load the rotated token |
| `InventorySafe` | `TypeOK`, `ForcedSeesCluster`, `SettledClusterSeen` | 2 calls, 1 VM, 2 nodes, TTL 1, clock 2; 2.8 million | refreshing calls see the cluster; stale entries heal |
| `ArtifactsSafe` | `ReadsExplained`, `LinkedFilesKept`, `FilesAccounted` | 2 artifacts, 2 reads, TTL 1, clock 2; 1.1 million | reads and files stay in step |
| `AccessSafe` | `TypeOK`, `KeyHonoured`, `KeyLearned`, `EffectAuthorized` | 2 calls (1 followed), 1 key, TTL 1, skew 1, clock 2, all 24 environments; 3.5 million | only authorised clients reach Proxmox, by policy and record where there is one; keys go and come in bounded time |
| `NodeSafe` | `TypeOK`, `ReadsTrue`, `WritesLand`, `ContentTypesKept`, `EvidenceIsOwn`, `LeftoversHeal` | 2 file calls, 2 content types; 2 inspections, 2 VMs, 2 loop devices; 2.9 million | files hold and show what was meant; inspections read their own disk and leftovers go |
| `FilesGuest` (violation) | `GuestGetsContent` | 1 file call | a file written in a VM holds base64 text |
| `BootFallback` (violation) | `FallbackOnly` | 1 inspection | the disk of a VM is mounted though its agent answered |

**Bounds.** Jobs of different ids share no state but the calls, so one job of each
kind with two calls gives every interleaving of executor, canceller and waiter;
ids are not reused, and a call slot is, so histories of any length occur. Two log
lines, of which Proxmox shows one (`Page`), separate an empty log, a partial one and one
longer than what is shown. In `ManagedAuth` two requests
are what it takes for a late refusal to meet another request's retry, and two runs
for an orphaned script to meet a later one; the clock of 4 with rotation 3, life 4
and safety window 1 keeps the code's order (rotation before expiry) and lets a
deadline pass during a script. In `SecretLifecycle` two tokens and two keys are
what it takes for credentials to be mixed; the counterexamples without validation
appear at these sizes. In `InventoryCache` two calls are what it takes for
refreshes to overtake each other and a clock of TTL + 1 or more for a late answer
to expire; `lag` ranges over the whole clock, and `SettledClusterSeen` is exercised
where it is 0 or 1. The invariant also holds with one call, two VMs and a
clock of 3 (0.8 million states), where one VM that moved fails the overview of the
other. In `ArtifactStore` two reads of one artifact are what it takes
for one to find it expired while the other reads its file. In `HttpAccess` two
calls are what it takes for fetches to overtake each other, and a clock of 2 lets an
entry of TTL 1 expire after a late store. The tokens presented are those at, and one
beside, each limit. Tokens that name another key of the set need two keys: the same
invariants also hold with one call, two keys and a clock of 3 (12.7 million states). `Followed`
bounds the run: what a call does after its dispatch touches no state of another call, so
only one of the two is followed there; the other still fetches, stores and overtakes. In
`FileTools` two calls
and an outside writer give every order of truncating, filling, reading and
removing, and two content types a list with and without snippets that an
administrator may change in between. In `BootInspection` two scripts, two VMs and two loop devices are what it
takes for a device to be taken over by another VM's script. The two kinds of node
operations share no state, so `NodeOperations` explores one or the other.
`MaxLog`, `MaxTime`, `MaxTokens` and `Followed` are the only artificial limits. `AuthSafe`
and `AuthLive` do not check deadlock, as requests are made once and the clock
is bounded, and neither does `AccessSafe`, where the process may exit. Symmetry is
used in safety runs only.

**Fairness.** HTTP requests are answered or end (by the client's timeout, or by the
limits that Node's `fetch` sets by default), and timers fire: weak fairness of the UPID
watch, of the guest-agent executor, of calls, of API requests, and of the sending of a
reconcile script – not of its commands or of the end of its session. A script that nobody
awaits gives its place in `Runs` back, as the bound on them is the model's. The deadline of a timed
`job_wait` is looked at in every round, so a round that finds it gone by cannot be put
off for ever: strong fairness of `SnapshotExpires`. Nothing is assumed about tasks,
remote commands, SSH sessions (neither `SshExecutor.exec` nor `execBootstrapRaw` has a
timeout or a keepalive), clients, administrators or restarts. `CallsAnswered` and
`WatchSettles` are stated for a cluster with static credentials: with managed ones a
request waits for the reconcile run first, and ends when that does (`RequestsEnd`).

**Findings.** The three violation runs state what a comment, a vendored API
description or an operations document says, and the counterexample is what the code
does; `PROJECT.json` quotes the lines.

**Also seen while modelling,** without a run of its own:

- a task log is read without a limit, so Proxmox returns its first 50 lines
  (`services.ts:435`, `459`); of a longer task the answer shows only the beginning and
  does not say so.
- one bootstrap SSH session that hangs holds up every request to the cluster and every
  later rotation: they all wait for the same `repairPromise` (`managed-auth.ts:160`).
- resources (`tools/escape/register.ts:120-160`) do not pass the scope check, as only
  `registerTool` is wrapped (`server.ts:60`): any genuine token may read the inventory and
  job logs, and with OIDC they are answered on stdin too.
- `getClusterResources`, `inventoryOverview`, `detectVmGuest`, task reads and
  `cancelUpid`, which deletes (`services.ts:449`), ask neither policy nor audit, and a VM
  is looked up before the policy is asked (`services.ts:1323`, `1436`, `1784`).
- scopes follow the ending of a tool's name (`server.ts:44`):
  `proxmox_vm_update_config`, `proxmox_vm_boot_diagnose`, snippet list and get, console
  tickets and the cloud-init dump need the read scope only, though they change a VM, run
  commands on a node or post requests; the policy still applies.
- a file on Proxmox may be read short without an error: the guest agent's `truncated` is
  not looked at (`services.ts:1046`), and a killed command counts as successful
  (`ssh.ts:99`).
- an `umount` that fails is ignored (`boot/diagnostics.ts:43`, `67`); the next mount then
  lies on top of the old one.
- `waitForUpid` returns when a task has stopped, whatever its exit status, so the
  record of a failed task says "completed" (`services.ts:424`), while the snapshot of
  the same id after a restart says "failed" or "cancelled"
  (`tools/escape/register.ts:49`). `AnswersHold` therefore takes "completed" to mean
  that the task ended.
- a job cancelled before `SshExecutor.exec` is called (during the audit record, a
  lookup or a repair) still runs its command: the listener is added without a look at
  `signal.aborted` (`ssh.ts:67`).
- a 401 that arrives late starts a second rotation, which deletes the token another
  request is just being retried with; that retry is not repaired again
  (`services.ts:360`). Rotation alone can so make a request fail.
- `job_logs` answers from the record while it is held, and no tool that creates a
  UPID job appends to its log, so it is empty until the record is lost
  (`tools/escape/register.ts:386`, against the tool's description at line 381).
- every removing command of deprovision's script ends in `|| true`, and the
  document is deleted even if one failed (`admin-enroll.ts:453`).
- `proxmox_vm_agent_ping` and `_info` look the VM up in the cached inventory
  (`domain-services.ts:188`), although their schema says that the current location
  is resolved; after a migration the detection at the old node fails the call until
  the entry expires. The operations in `services.ts` do refresh.
- in mode `both` every tool call on stdin is refused, as it carries no `authInfo`
  (`server.ts:63`).
- the issuer is compared as `URL.href` (`http-auth.ts:256`): one without a path and
  without a trailing slash never equals the claim an issuer sends for it.
- if the command that finds a snippet storage is killed, its empty output counts as
  the root: a delete then reports success, a put writes below `/snippets`
  (`services.ts:831`).
- the inspection mounts the disk without `ro` (`boot/diagnostics.ts:52`), although the
  tool's comment calls it read-only, and `losetup -D` also detaches loop devices that
  are not its own.

## 4. Proofs

Every safety invariant and every action property that a passing run checks is also a
theorem that TLAPS has proved, for every value of the constants:

| Module | Theorems | For any |
|---|---|---|
| `ServerJobsProofs` | `TypeCorrect` (`TypeOK`), `RegistryCorrect` (`RegistryConsistent`), `CancelsHeard` (`CancelHeard`) | jobs of each kind, calls, `MaxLog` |
| `ServerJobsAnswers` | `AnswersCorrect` (`AnswersHold`), `UnknownCorrect` (`UnknownMeansLost`), `ContractCorrect` (`ContractKept`, the refinement of `JobContract`) | the same |
| `ManagedAuthProofs` | `OneRunAwaited` (`SingleFlight`), `ServerInSync` (`InSync`), `RetriesUseNewTokens` (`RetryUsesNewToken`), `LetThroughWithGoodToken` (`SentTokenWorks`) | requests, runs, intervals, clock |
| `SecretLifecycleProofs` | `PairsStayWhole` (`PairsWhole`), `StoreAgrees` (`StoreAgreesWithHost`) | commands, keys, tokens |
| `InventoryCacheProofs` | `InventoryTypes` (`TypeOK`), `RefreshSeesCluster` (`ForcedSeesCluster`), `StaleInventoryHeals` (`SettledClusterSeen`) | calls, VMs, nodes, TTL, clock |
| `ArtifactStoreProofs` | `ReadsAreExplained` (`ReadsExplained`), `LinkedFilesAreKept` (`LinkedFilesKept`), `FilesAreAccounted` (`FilesAccounted`) | artifacts, reads, TTL, clock |
| `HttpAccessProofs` | `AccessTypes` (`TypeOK`), `WithdrawnKeysFade` (`KeyHonoured`), `NewKeysLearned` (`KeyLearned`), `EffectsAuthorized` (`EffectAuthorized`) | calls, keys, TTL, skew, clock |
| `NodeOperationsProofs` | `ReadsAreTrue` (`ReadsTrue`), `WritesHaveLanded` (`WritesLand`), `ContentTypesAreKept` (`ContentTypesKept`), `EvidenceIsTheVms` (`EvidenceIsOwn`), `LeftoversAreTaken` (`LeftoversHeal`), `NodeTypes` (`TypeOK`) | file calls, content types; inspections, VMs, loop devices |

**Assumptions.** Markers are not values (`NoJob`, `NoRun`, `NoKey`, `None`, `Nowhere`,
`NoVm`; the three kinds of job ids are disjoint), bounds and intervals are natural
numbers, and the TTL of the inventory cache and of the key cache is positive, as the
constants in the code are; "snippets" is a content type. Nothing is assumed about the
order of `Rotation`, `TokenLife` and `Safety`, nor that a set is finite.

**The argument of each part.** Almost none of the properties is inductive. What has
to be added is the part of the code's reasoning that it leaves unsaid:

*ServerJobs*, in layers, each proved from the ones before it:

1. `TypeOK` with `CallsTyped` (a call in a phase that talks to Proxmox is about a
   UPID job, every other one about some job) – without it the type of `task[j]` in
   a call's step is unknown.
2. `RegistryConsistent` with `AbortsAsked` (only `job_cancel` of a process-run job
   fires a controller) – needed for "cancelled" in the contract.
3. `RecordsKept` (an id handed out has a record or lost it in a restart),
   `TasksStartedOnce` (one pending request per UPID, and a task behind every id)
   and `CallsAboutMadeJobs` – needed for unknown ids and for `Start` in the contract.
4. `WatchKnowsTask` (a watch that has left its loop, a completed record and a
   snapshot past its status request know a *final* state of the task) – the reason
   the log they then read no longer grows; `AnswersHold` rests on it.

Lemmas such as `CallFrame`, `TaskStep` and `GoodCallStable` say once what most actions
leave alone.

*ManagedAuth*, `AuthInv`: `TokensOrdered` (nothing held, sent or refused is newer than
the server's token, and the awaited run, once it has added one, has a newer one) makes
a retry's token differ from the refused one; `RunInSync` (without drift server and host
agree until the awaited run touches the token, and after its `add` what it will print
is what the host has) makes them agree again when it ends.

*SecretLifecycle*, `SecretInv`: commands take no lock, so the argument is about the last
one that writes. `LastWriterValidates`: while all commands enroll and succeed, either
one has still to write the document, or the one that wrote it has still to validate it,
or it agrees with the host – first in the token, then in the key, as that is the order
of validation. `CommandsSound` ties the token of a command to its key from the script
that minted it.

*InventoryCache*, `InventoryInv`: an entry that differs from the cluster was stored no
later than `changed + lag` (`CacheFresh`), an answer under way that differs belongs to a
call that began before the change (`AnswerFresh`), and a call whose view cannot be stale
has the truth at every stage (`SeesClearly`).

*ArtifactStore*, `ArtifactInv`: an artifact is followed from creation to removal
(`Lives`), and a read under way leads to a sound file even when the record has gone
(`Readable`).

*HttpAccess*, `AccessInv`: what each check established still holds when the next one, or
the effect, comes (`CallChecked`: startup, claims, signature, scope and, where there are
any, policy and audit record), and since when a key set in the cache, or on its way to it, may differ from the
issuer's (`CacheKeys`, `CallKeys`).

*FileTools*, `FilesInv`: a file holds what was meant or nobody knows (`FileMeant`, in a VM
up to one decoding), a list of content types without snippets is the administrator's
(`ListWanted`), and a call that has run its command already has what success will claim
(`Landed`). Proving it showed that the earlier form of `ContentTypesKept` ("the list
does not shrink") only held because there was one other content type: of two puts that
add snippets, one may work with a list from before an administrator's change. What the
code does guarantee is the statement with `wanted`.

*BootInspection*, `BootInv`: a script that was alone so far is the only one
(`AloneRuns`) and what it has attached and mounted is its own disk (`Own`), whatever
else is there; if no two ever overlapped and no `umount` failed, the script's position says how far it has
come with the leftovers (`Heals`), every directory has at most one mount (`OneEach`), and
only after a script that died (`Tidy`). Without `OneEach` one `umount` at the beginning
would not be enough. `BothSpecs` carries both parts over to `NodeOperations`.

Each invariant was checked by TLC on an instance before it was proved.

**Only model-checked:** the liveness properties `WatchSettles`, `AgentCancelSettles`,
`CallsAnswered` and `RequestsEnd` (fairness and ENABLED are out of this prover's reach),
and the three violations. No module uses RECURSIVE operators.

## 5. Not modelled, and the plan

Not modelled:

- the API catalog (`schema.ts`: a pure table lookup and coercion of arguments), the
  read-only tools, snippet listing and cloud-init dump: they change no state;
- of the configuration, everything but what decides on access: hosts, ports, paths
  and defaults;
- the session handling of the HTTP transport (library code);
- PCI attach and detach: their fallback to `qm` follows only on a refusal that says
  that nothing was changed, so it is a choice of transport;
- `bootstrapNodeAccess`, whose order (delete, then create) is that of the managed
  lifecycle;
- wording of results, the PowerShell executor as something different from SSH,
  ticket authentication, which the configuration loader never produces.

Order of further work:

1. An abstract specification of bounded staleness (what a cache with a TTL and
   overlapping refreshes promises) that the key cache and the inventory cache both
   implement, with `CacheKeys` and `CacheFresh` as the common part of the proofs.
2. A clock for `SecretLifecycle` (enrolled tokens expire after 20 minutes unless told
   otherwise).
3. A contract for the managed credentials, as `JobContract` is for the jobs: a
   request is sent at most twice, the second time with another token.
