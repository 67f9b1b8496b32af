# A TLA+ verification of PolarDB-Stack-Common

PolarDB-Stack-Common is the Go library the PolarDB Stack operator is built
from. It has no process of its own: workflows of the operator call it to create
a cluster, change its parameters or its class, attach storage, restart engines.
A workflow is a sequence of steps, a step that fails is run again
(README.md of the repository), and an operator process that crashes is started
again by Kubernetes. What the library keeps for good is in ConfigMaps and
secrets; what it changes is on the other side of HTTP requests and of commands
run in pods. That is where it can go wrong: reads and writes of shared objects
by several processes, answers that are lost, requests that are repeated or
arrive late, and steps that are repeated from the start.

This directory holds TLA+ modules for the parts with a protocol of their own,
TLC configurations that check small instances of them, and TLAPS proofs for
instances of any size. `PROJECT.json` lists the runs, the lines of the source
every definition stands for, for every property a mutated definition that
breaks it, the hazards the properties are aimed at, the findings and the
theorems.

    tlc -config IdGenerator.cfg MCIdGenerator.tla      model-check a run
    tlapm IdGeneratorProofs.tla                        check the proofs

## 1. Inventory

Paths are below `business/` unless they begin with `utils/`.

| Component | State | Operations | What is hard | What makes it correct |
|---|---|---|---|---|
| Instance ids: `adapter/id_generator.go` | a counter in a ConfigMap; a mutex per generator | GetNextClusterScopeHostInsIds | several processes; an Update whose answer is lost or which is late; nil Data | ids are unique, ordered and never reissued; every call ends |
| External ports: `adapter/port_generator.go`, `port_range.go` | a cursor in a ConfigMap (the same one in `test/init.go`); a mutex; the ports open on every node | GetNextClusterExternalPort, CheckPortUsed | as above, with retries; a long scan of nodes that may fail one by one; cursor at or outside the ends of the range | no repetition within a lap, no port seen in use, none out of range; "all used" is true |
| Storage: `adapter/storage_manager.go`, `domain/db_cluster_shared_storage_base.go` | none; the service has claims and workflows | UseStorage, SetWriteLock, Expand, Release, GetTopo | repeated POSTs; check then release; polls that time out; answers without id | ok means done; a release hits only the caller's claim; every call ends |
| Templates and effective parameters: `domain/engine_params_template.go`, `db_cluster_base.go` | none, pure functions | GetClassInitParams, GetEffectiveParams, GetEffectiveUserParams | who wins among template, class, user and running value, decided by times | no edit is lost, nothing forbidden is flushed, a restart when one is needed |
| Engine parameters: `adapter/engine_params_repository.go`, `db_cluster_base.go` | user and running ConfigMap, time of the last flush | InitEngineParams, FlushParams, SaveLatestFlushTime, ModifyClassParams | three writers and clocks of one second; crash between two ConfigMaps, between update and restart; stale copies | after a flush the engine has what the user wants; times never hide an edit; the installation can be repeated |
| Instance life cycle: `domain/db_ins.go`, `adapter/manager_client.go`, `manager_env_get_strategy_base.go` | Installed, target pod of the clients | InstallDbIns, FlushParams, Restart, GracefulStop, StopEngineAndDeletePod, health checks | errors of SetIns are ignored; health polls with time limits; a restart cut short | commands reach the right pod; an engine that was stopped is started again |
| Pods: `adapter/pod_manager_base.go`, `utils/k8sutil/k8sutil.go`, `exec.go` | pods in the API server | CreatePod, DeletePod, WaitForPodReady, WaitForPodDeleted | watches that end, conditions that lag behind | a wait ends, and what it waited for has happened |
| ClusterManager client, creator, remover: `adapter/cluster_manager_*.go` | address of the master; deployment and metadata of ClusterManager | AddCluster, Switchover, EnsureAffinity, CreateClusterManager, RemoveClusterManager, ... | delete-then-add; requests that are repeated or late; pods that move between two requests; failover in the middle of a removal | what was reported done was so; one version at a time; no failover while it is removed; its ConfigMaps outlive its pods |
| Accounts: `adapter/account_repository.go` | secrets | EnsureAccountMeta, GetAccounts | look, then create; a random password per attempt | ClusterManager is configured with the passwords stored |
| Retry and wait: `utils/retryutil`, `utils/waitutil` | ticker, context | RetryFunc, PollImmediateWithContext, WaitFor | tick and cancellation at the same time | bounded attempts; a wait ends |
| Hardware status: `utils/hardware_status` | a map of probes, a lock per node | GetHostStatus | one map, many locks; probes, lists and waits whose ages add up | a pod is placed on nodes that were well not long ago |
| Configuration and caches: `utils/k8sutil/controller_config.go`, `utils/cache_provider.go` | cached ConfigMaps with a time to live | GetControllerConfig, ... | three fields without a lock; several loaders at a time | what a caller goes by was in force not long ago |
| Queries, versions, helpers, constants | none | read-only | - | - |

Interactions: `domain.DbClusterBase` and `domain.DbIns` hold the adapters as
interfaces and call them synchronously. Generators and repositories meet other
processes only in the API server, whose Update refuses a copy with an old
resourceVersion. The engine is reached by commands in the manager container of
its pod. ClusterManager records what the engine runs with in the running
ConfigMap, the console writes the user ConfigMap.

## 2. Plan

Order, most important first. All items are done; what is left is below.

1. `IdService`, `IdGenerator`, `IdGeneratorProofs`: the smallest complete
   instance of what every adapter does (read, compute, conditional write), with
   its abstract specification and the refinement proved.
2. `PortRange`, `PortGenerator`: the same with retries and a long scan.
3. `StorageManager`: at-least-once requests over an external service.
4. `EffectiveParams` (pure) and `EngineParams`, which extends it: parameters.
5. `DbIns`: DbIns, ManagerClient, the pod manager and the waits of `k8sutil.go`.
6. `ClusterManager`: its client, creator and remover, and the accounts.
7. `HostCaches`: hardware status, configuration, addresses, and placement, which
   uses all three.

Theorems: every component with a protocol has its invariant and its action
properties proved (section 7), in a module of its own. Left: abstract
specifications of components other than the id generators. None of the modules
declares a RECURSIVE operator.

## 3. Modules

### IdGenerator and IdService

`IdGenerator` follows GetNextClusterScopeHostInsIds line by line. `cm` is the
ConfigMap: a version `rv`, what the entry looks like (`nodata`, `absent`,
`garbage`, `number` - the four paths of the code) and the counter. `mutex` has
one entry per generator because `sync.Mutex` is a field of `IdGenerator`, and
two generators, of one process or of two, share none. A caller's `pc` runs
through `lock`, `get`, `read`, `sent`, `applied`, `failed`. The deferred Unlock
is in `Return`, which all return paths share.

`Store` is the API server's conditional write. `ApplyUpdate` and `ReturnIds` are
two actions, as the answer may be lost between them (`UpdateLost`), and the
request itself may be carried out when nobody waits any more (`late`,
`ApplyLate`). `Panic` is the write into a nil map; it, and `Crash`, end all
goroutines of the process and free its mutex. `WriteOtherEntry` is the port
generator's write to the same object.

`IdService` is what callers rely on: a line of numbers that is cut atomically,
each piece delivered at most once, to the one it was cut for. The mapping takes
the counter for the line, and the batch of a caller at `applied` for the piece
in hand.

### PortRange and PortGenerator

`PortRange` is the notation for ranges (empty, single, `a-b`, `a+n`, and what
is refused) and membership with reserved ranges taken out. `PortGenerator` has
the retry loop (`Retry`, `GiveUp`), one attempt from `Lock` to `ReturnPort`, and
CheckPortUsed, which shares the scan but takes no mutex. The scan asks nodes one
at a time (`AskNode`) while processes open and close ports, and passes over a
node that can not be asked (`SkipNode`). A node in `Reporting` answers with the
ConfigMap a daemon publishes, which may be old; another one with what is open.
`Selectable` is the loop: ports after the cursor up to the end, the cursor being
set to the beginning only when it is at the end already.

History variables: `lap` counts how often the cursor has started over, `handed`
holds the ports returned with their lap, `busy` the ports a call could have seen
in use all the time since it began.

### StorageManager

The claim and the workflows of the service are external and stated in the
module: a claim is used by one cluster at a time, a request for a claim that is
gone is refused with "can not find", a workflow ends some time after its
request, or fails. Client side: `check` (Release only), `post` with up to four
attempts - `RetryFunc` counts from 0 to `maxRetries` - and `poll` until the 60
seconds, `MaxPolls` polls, are over. A repeated POST starts a second workflow.
`EmptyId` stands for the empty workflow id that a nil error lets through.
`met` remembers whether the aim of a call has held since it began.

### EffectiveParams and EngineParams

`EffectiveParams` translates the four merges, each as a function of template,
user, running and class parameters. A value is a member of a set; what the code
finds out by regular expressions about quotes, commas and colons is given as
constants. Time stamps are numbers and 0 the empty string; the code compares
them as texts of fixed width, which orders them the same way.

`EngineParams` is the life of one cluster's parameters. `user` and `running` are
the ConfigMaps; `engine` has what was configured and what is live, which differ
for a parameter that waits for a restart; `pc` is the step of the workflow in
progress. `Abandon` puts a step that failed or crashed back to its start, and
`Fail` may leave an Update in flight. A build (`inop`) is a flush into a
new instance, and calls GetEffectiveParams with `inoperative`.

### DbIns

One workflow at a time calls an operation of DbIns on an instance; `todo` is the
rest of its steps, which `Program` lists for each operation, and `at` the place
within the step. The steps are the functions of the pod manager (`CreatePod`,
`IsDeleted`, `DeletePod`, `EnsureInsTypeMeta`), of the manager client
(`ExecCmdInPod`, with its second loop that repeats a command while the container
is not found, and `Poll` for the health check, the installation's progress and
the wait for the copied data) and the two waits on a watch (`WaitForPodReady`,
`WaitForPodDeleted`). A command goes to the pod of `target`, which `SetIns` sets
and whose error the code ignores.

The environment is what the code relies on: the scheduler binds a pod or refuses
it, containers start and end, `Refresh` lets the conditions of the pod follow the
containers (until then they are stale, which is what a watch that is replayed
from the version of the pod shows), the engine recovers, data is copied. A watch
may end with an ERROR event, or because its time is over; the closed channel then
delivers empty events for ever. `did` remembers what happened to the instance of
the call since it began; `OkMeansDone` compares it with what the operation is for.

`Kept` states what is promised by the code and not more: `create` returns nil for
a pod that the scheduler refused, Installed survives a pod that is lost later,
StopEngineAndDeletePod returns nil for a pod that is already being deleted.

### ClusterManager

Several workflows call operations of the client, the creator, the remover and
the account repository; `Program` lists their steps. `dep`, `rs` and `pods` are
the Deployment, its ReplicaSet and its pods: `Follow` is the controllers (a
rolling update starts a new pod beside the old one, Recreate waits for the old
one to end; a Deployment that was deleted takes its ReplicaSet and pods with it,
some time later, before which the ReplicaSet may start one more), `maps` the
ConfigMaps the creator writes and the pod changes, `srv` what ClusterManager
knows. `Connect` takes the address of the node of the only running pod, `Ask`
sends a request there; without a pod at that address it fails and is repeated
(`MayRepeat`), with a lost answer it is repeated although it was carried out, and
a request of a client that gave up may be carried out later (`ServeLate`).
`FailOver` is ClusterManager's own switching while HA is enabled; it answers a
request to disable HA only when no switch is under way, which the comment at
`cluster_manager_remover.go:58` says of it.

Each behaviour follows one plan of `MCClusterManager`. One of them is an
assumption: a ClusterManager is not created while it is removed. Nothing in the
adapters prevents it, the workflows of one cluster do, and with both the removal
can return nil with ConfigMaps left.

### HostCaches

A placement (op `place`) is BuildNodeAvailableInfo and BuildPodNodeAffinity, which
the operator calls one after the other: `List` the ready nodes, start a goroutine
for each (`Lookup`, `Probe`, `Store`: the `task` of a caller for a node), `Join`
them, read the configuration, `Affinity`. The op `config` reads the
configuration alone, `unavailable` asks for the nodes alone, `client` and `host`
look up the address of a host and the host of an address. `hw` is the map of
`hardware_status.go` and `lock` its locks; `conf` has the three fields the code
reads and writes one at a time (`CheckConf`, `TakeConf`, `LoadConf`,
`WriteConf`); `addrs` the cached list of nodes.

Time is counted in ticks and passes only while somebody probes or loads, or
nobody has anything to do, so that a caller that can go on does before the next
tick; `MaxProbe` bounds a probe or a load. Both are assumptions: an ssh command
has no timeout (`ssh_cmd.go:116`), and one that hangs keeps the lock of its node.
`last` counts the ticks since a node was ready, had its network card up, was not
well; since a configuration was in force; since a host had an address. `Fatal` is
the runtime's "concurrent map writes", which it may or may not notice. An answer
`ControllerNodeLabel` that is not set, and the configuration the ssh probe loads
itself, which only makes the probe fail, are left out.

## 4. Runs

| Run | Instance | Result |
|---|---|---|
| `IdGenerator` | 3 callers, 2 generators, batches of 2, 3 calls, 2 faults | passes |
| `PortGenerator` | range 10-13 without 12, 2 generators, 2 nodes, 3 calls, 1 fault, 1 port opened or closed | passes |
| `PortGeneratorLiveness` | 2 callers of one generator, 1 node, 2 calls, 3 faults | passes |
| `PortGeneratorAllUsed` | as `PortGenerator` | finding |
| `StorageManager` | 2 clusters, 1 node, 2 calls, 2 faults, 1 unsuccessful poll | passes |
| `StorageManagerRelease` | as above, 3 calls, 1 fault | finding |
| `EngineParams` | 4 parameters, 2 classes, 3 seconds, 2 edits, 3 workflows, 1 fault; edits wait | passes |
| `EngineParamsPassedOver`, `EngineParamsReverted` | as `EngineParams`, 2 workflows, edits at any time | findings |
| `DbIns` | 2 instances, 2 calls, 1 fault, 1 change of a pod, 1 unsuccessful poll | passes |
| `ClusterManager` | 2 workflows, 2 hosts, 2 images, 2 or 3 calls, up to 1 fault and 1 change of pods, engines or roles, 3 pods, 2 polls; four kinds of plan | passes |
| `HostCaches` | 2 callers, 2 nodes of which one is a controller's, lives of 1, 2 and 1 ticks, probes of 1 tick, 2 or 3 calls, 1 or 2 changes, failures or crashes; nodes, configuration or addresses change | passes |

**IdGenerator.** Uniqueness and order need two callers and a third call that
begins after a return; sharing a mutex needs two callers on one generator, and
a conflict a second generator. Two faults allow a lost answer together with a
crash, or two late requests. The stored counter is 3, absent (10), unreadable or
without Data. The proofs cover all other sizes.

**PortGenerator.** The range has a first port, one reserved port in the middle
and a last port, so that three calls go round it; the stored cursor is below the
range (9), absent or unreadable, and at its end (13) in the liveness run. One
node publishes, one is asked. Three faults in the liveness run use up all attempts of a call.

**StorageManager.** Two clusters and two calls are enough for a claim to change
hands while the requests of the first call are still being carried out; two
faults repeat a POST twice. `CHECK_DEADLOCK FALSE` here and in the other
runs: when all calls are made the system really may stop.

**EngineParams.** One parameter that users change and that needs a restart and
depends on the class, one that is fixed, dynamic and quoted in one class, one
that only one class knows, and one of those flushes ignore
(`define/constant.go:129`), which the class changes too: nothing puts it into
effect, and the properties except it. Three workflows are a flush, a class change and the
flush after it; three seconds let them have different times, or share them.

`EditsWait` is an assumption, not code. With it, users and class changes wait
until no workflow is under way, nothing configured waits for a restart and the
running parameters show the engine, and a class changes only when user and
running parameters agree (`Agreed`) - the check the comment in
`db_cluster_base.go:460` asks the caller for. Under it the times say what the
comments claim (`AppliedWhenSettled`, `PassedOverMeansFlushed`,
`NotNewerMeansUnchanged`, `OnlyClassDefaultsReplaced`). Without it they do not,
and nothing in the repository enforces it; two runs show what is lost.
`NotNewerMeansUnchanged` fails without it too, when an edit falls in the second
in which ClusterManager records a value, or before it records an earlier flush.
`AppliedWhenSettled` fails without `Agreed` alone, for a parameter that the class
decides and that needs a restart: a value left from a class change that was taken
back counts as flushed, with the flush made under the other class, when the class
comes again, and its restart is left out.

The run checks liveness too (`WorkflowsEnd`): with one fault anywhere every
workflow ends, and the installation leaves both ConfigMaps.

**DbIns.** One instance may be called with every operation, the other one only
stopped: its purpose is to be the pod the client was set to. Two calls are
enough for one that fails half way - an engine stopped and not started, a pod
that is being deleted - and one that finds what it left. One fault is a request or
an answer that is lost, a SetIns that fails, an ERROR event, or a crash.

**ClusterManager.** Two workflows and two or three calls let a request of one
find what a late or repeated one of the other has changed. The third pod is the
one started beside the other two, by an update or an eviction.

**HostCaches.** The lives are shorter than in the code (3 s, 5 s, 60 s), and so is
all else; what matters is that a life is longer than nothing, that a
configuration lives longer than it takes to load, and that two nodes are probed
at a time. What is claimed is a sum of lives and probes (`HwAge`), and `Far` is
just above it.

Every property is broken by a mutant of a mapped definition: a dropped version
check, an error that is ignored, a mutex that is not taken or not released, a
set that is replaced instead of extended, an off-by-one, a stale time, a missing
deletion. The mutated forms stand before the definitions they mutate.

## 5. Findings

* `port_generator.go:126-151`: "all port are used" although ports are free at and
  below the cursor; the first port of the range is never handed out.
* `storage_manager.go:183-188`: Release may detach the claim from another
  cluster, which the parameter is documented to prevent.
* `db_cluster_base.go:357`: an edit made during a flush is taken for flushed and
  is never flushed, until it is made again.
* `db_cluster_base.go:224`: ModifyClassParams sets back an edit made between its
  two readings of the user parameters.

The four are shown by runs. Modelling met these as well, which no run is about;
where the model has them its properties name them as exceptions:

* `storage_manager.go:221` (also 259, 278, 336): a missing workflow id is no
  error, as `errors.Wrapf(nil, ...)` is nil.
* `db_ins.go:125` (and every other SetIns): its error is ignored, and the commands
  that follow go to the pod of the instance before (`CommandsGoToOwnPod`).
* `k8sutil.go:488`: WaitForPodDeleted spins on the closed channel of its watch
  until its context is cancelled (`CallsEnd`, `Spinning`).
* `k8sutil.go:294`, `manager_client.go:193`: a restart takes a stale Ready event for
  the container that has just been killed. The start that follows fails or is
  executed in the container that ends.
* `db_ins.go:116`: "stop the engine, then delete the pod", but a pod that is
  already being deleted is success whatever its engine does.
* `cluster_manager_client.go:607`: the address of a loop variable is kept, so
  the status of another instance may be waited for.
* `cluster_manager_client.go:676`: the pod is nil when none or several run.
  EnsureAffinity does not reach the wait after it has deleted a pod.
* `cluster_manager_client.go:223`: AddCluster deletes before it adds, so a
  crash, or a failing second request, loses what was there; a cluster an edge uses
  is left as it is and reported added.
* `cluster_manager_client.go:851`, `storage_manager.go:417`: seconds times
  seconds, a timeout that overflows.
* `manager_client.go:355`: one marker in the output without the other panics.
* `manager_env_get_strategy_base.go:135`: the error of GetCommonEnv is dropped.
* `hardware_status.go:96`: the map is written under locks of single nodes only.
* `controller_config.go:206`: a slow loader writes an older configuration over a
  newer one; `ConfWasInForce` holds with the time of the load added.

## 6. Fairness

`WF` of the steps of every caller: a goroutine that can run does, an HTTP
request is answered or fails (the clients have timeouts), polls go on until
their time is over. `SF` of `Lock`: sync.Mutex hands over to a waiter in
starvation mode. Nothing is assumed of callers, faults, the storage service,
users: no workflow of the service need ever end. In `EngineParams`, weak fairness
of the workflow's steps is the workflow engine, which runs a failed step again.

`DbIns`: the steps of the call; a watch that ends after its timeout; an engine
that finishes its recovery and the copy of the data - health checks and the wait
for the data go on as long as the code finds progress. Nothing is assumed of the
scheduler or the kubelet. `ClusterManager`: some workflow's step is taken while
there is one (the API server does not favour a workflow for ever, and every
operation is bounded); an engine that starts has started some time, since
waitForStartingCompleted polls without a limit while it is starting (its limit
counts from the last progress); and a failover that has begun ends.
`HostCaches`: the steps of every caller with its goroutines; time then passes
because a probe in progress is a step of its own that must be taken.

## 7. Proofs

Every theorem holds for any values of the constants that satisfy the module's
`ConstantsAssumption`, which says no more than their types, that values such as
NoCaller are new, and what the code's inputs are like (a range that parses, a
template whose dynamic parameters can be reloaded, at least one host). The bounds
on calls, faults and polls are any natural numbers. None of the invariants the
runs check is inductive; each module proves `Invariance`, `Spec => []IndInv`,
from lemmas that take one conjunct through one kind of step, and the rest follows
from it. TLC has checked every `IndInv`, and `Steady`, on the
instance of its run.

| Module | Proved | Under a hypothesis |
|---|---|---|
| `IdGeneratorProofs` | `TypeCorrect`, `UniqueIds`, `CallOrder`, `MutexPreventsConflicts`, `CounterMonotonic`, `Refinement` | |
| `PortGeneratorProofs` | `TypeCorrect`, `NoRepeats`, `BusyRefused`, `CursorStartsOverOnlyAtEnd` | |
| `StorageManagerProofs` | `TypeCorrect`, `OkIsDone` | |
| `EffectiveParamsProofs` | eight theorems on the merges | |
| `EngineParamsProofs` | `TypeCorrect`, `FlushTimeIsKept`, `InstallAgrees` | `EditsAreKept`, `AppliedIfSettled`, `PassedOverIsFlushed`, `NotNewerIsUnchanged`: EditsWait |
| `DbInsProofs` | `TypeCorrect`, `OkIsDone`, `OwnPodOnly`, `DeletesStopped` | |
| `HostCachesProofs` | `TypeCorrect`, `AddressTrue`, `ConfIsRecent`, `PlacementsRecent` | |
| `ClusterManagerProofs` | `TypeCorrect`, `ConfAgrees`, `RemovalIsQuiet` | `OneVersion`, `OkIsDone`, `PodsEndFirst`: CreatedApart |

**IdGeneratorProofs.** `IndInv` adds to the types

* `Current`: a copy, or a late request, that has the ConfigMap's version is the
  ConfigMap. It is why what the API server accepts begins at the present value
  of the counter, and it is what the mutant without version check destroys;
* `Below`: everything delivered, in hand, or promised to be exceeded lies below
  the counter;
* `Disjoint`: batches in hand or delivered do not overlap. `ApplyUpdate` makes
  a new batch at the counter, `Below` puts all others under it;
* `Exclusion`: who is past `lock` holds the mutex, and a copy of such a caller
  is old only when the last write was not of its generator;
* `Asked`, `Tickets`: sizes come from `Batches`, the number of an applied update
  was given out.

The refinement shows each action to be a `Take`, `Deliver`, `Lose` or `Burn` of
the service or to change nothing it shows. `Tickets` makes a batch in hand
different from none even when it is empty.

**PortGeneratorProofs.** `Current` as above; `Chosen`: what a caller has chosen
lies between the cursor it read and the end; `Behind`: every port of the present
lap lies at or behind the cursor; `Distinct`: ports of one lap in hand or handed
out differ. A write that is accepted moves the cursor to the port chosen, so
`Behind` puts all others of the lap below it. `Collected` carries what a node
showed through the rest of the scan, for `BusyRefused`.

**StorageManagerProofs.** `OwnFlow`: the workflow a call polls was started for
that call, with its operation, and when it is done the goal of the call has held
since it began - whatever other workflows, of repeated POSTs, do.

**EffectiveParamsProofs** has no state. Its theorems are the answers to "who
wins": the template, whatever the others say (`TemplateWins`, `TemplateHolds`,
`TemplateAndClassAgree`); what the user set, where the template allows it
(`UserValueReachesEngine`, `OnlyOldDefaultsReplaced`); a change of a parameter
that needs a restart says so (`ChangeMeansRestart`) and nothing else changes
(`UnchangedMeansKept`); a class change may be run again (`OnceIsEnough`). Nothing
is assumed of the values, the times, or what quoting does to a value.

**EngineParamsProofs.** `Versions`: a copy that the API server would accept has
not lost a flush. `Installed`: the user parameters are the defaults of the class
while the running ones are created. `Merging`: under EditsWait, what
ModifyClassParams has read is what is there, or a late write of an earlier
attempt has done the work already; `OnceIsEnough` and `OnlyOldDefaultsReplaced`
do the rest. EditsWait is the assumption of section 4.

The invariants that relate times and values rest on a second one, `Steady`. Of
every parameter it compares four things, as the engine would report them: what is
in effect (`Reported`), what the engine was given (`SetTo`), what ClusterManager
has recorded (`RunsAs`) and what a flush is to bring about (`Aim`). `Follows` says
that the engine has nothing but the recorded value or the aim, the new one first
in its configuration; that a value which is not newer than the recorded one is
the recorded one; and that a newer one which a flush has passed is in effect.
`Covered`: from a flush that has applied the aim until the next change it stays in
effect, also while the write of its time, or a late one, is under way. `Carrying`:
what a flush has read still leads to the aim. `Held` and `Adapting`: while
ModifyClassParams works, engine and recorded values stay as they are, and
a copy that would be accepted gives each parameter it changes a time not before
the last flush and after the recorded one, or the value and time recorded. The times of two writers
enter by one fact: under EditsWait no value was recorded in the second of an edit.
Templates, classes and values are arbitrary; of quotes it is assumed that the
engine's report is the same with and without them and has none itself (`Plain`).

**DbInsProofs.** A call is a list of steps. `Structured` says which steps may be
left (`Shaped`); `Pending`: each thing the operation promises has happened since
the call began or a step that is left gives it, unless a SetIns failed; `Targeted`:
a command is left only behind a SetIns, or the client is set to the instance
already; `StopFirst`: the engine is down or the stop is still to come; `Noted`
and `Current`: what the watch will deliver has happened. With no step left,
`Pending` is `OkMeansDone`.

**ClusterManagerProofs.** `Formed`: the steps left are a chain of the call's
program (`Chain`), which covers that AddCluster goes on with the update and that
the remover's program depends on the Deployment. `Remembered`: what half a step
has read still holds, or what it is read for has happened (the passwords a
configuration is made of are never changed; a pod that is to be moved has left by
itself). `Configured` and `Disabled` are the strengthened `ConfMatchesAccounts`
and `QuietDuringRemoval`. `Versions`: the pods that are there are of the version
of the ReplicaSet, which changes only with none there. `Progress`: what the steps
already passed brought about still holds (`Reached`) - no other call undoes it.
Versions and Progress need `CreatedApart`, that no plan both creates and removes
the CM; TLC finds a removal that returns nil with ConfigMaps left without it,
and `MCPlans` satisfies it.

**HostCachesProofs.** Each of the three caches has an invariant of ages: what is
kept was so no longer ago than its age and one load (`Addressed`, `Configured`,
`Probing`), and what a caller has in hand no longer than its life, one load and
what it has waited since. `Current` starts the count: what is so now was so 0
ticks ago. The stamp of a configuration may be another loader's than its value;
`Configured` holds because both values were in force within one load and no time
passes between the three assignments. `Answered` is the hard one: a status waits
until the goroutines of the other nodes have answered, which may wait for the lock
of a goroutine of another caller. One probe of that caller ends the wait, as then a
status has just been stored (`JustStored`) and is taken without a probe; so the
time of the holder's probe bounds how old the waiting status has become, and the
whole stays within HwTTL + 3 MaxProbe. It holds for every life, also ones as long
as the code's, and for any bound Far on the ages.

The proofs have changed the models in two respects. TLA+ leaves open which branch
a CASE with overlapping guards takes, and tlapm proves nothing that depends on
it; such guards are now exclusive (Observe, Ensure, Upgrade, Connect of
`ClusterManager`, ClassTemplate of `EffectiveParams`), in the order of the code's
tests. And `AppliedWhenSettled` did not hold for every template: the model lacked
the check of `db_cluster_base.go:460` (`Agreed`), and the property did not except
the parameters flushes ignore. The instance now has such a parameter.

Only model-checked: liveness (`CallsEnd`, `WorkflowsEnd`), which is out of the
prover's reach, as is ENABLED.

## 8. Not modelled

Code that formats, parses or only forwards: environment variables of the manager
container, resource quantities, version strings, queries of ConfigMaps, ssh and
exec; the templates of pods. Replication slots, engine upgrades and other single
commands in a pod. ClusterManager: contents of the ConfigMaps but for the
passwords, a Deployment of 0 replicas (which the remover leaves), cancelled
contexts. Loading and copying the fields of DbCluster. Widths of integers: ports and counters are natural numbers; the products
of two durations (`storage_manager.go:417`, `cluster_manager_client.go:851`) are
listed as hazards. Clocks that go back.
