# Formal model of k8s-sched-demo

TLA+ modules for the scheduler and the activator of k8s-sched-demo, TLC
configurations that check them on small instances, and TLAPS proofs of the
properties that matter most for every number of requests, sandboxes, goroutines
and processes.

The program hands out *sandboxes* (Kubernetes pods) to *projects*. A gRPC/HTTP
call `GetProjectSandbox` answers with a project's sandbox and a hostname; the
scheduler finds the sandbox in Redis, takes one from a pool of pre-created ones,
or creates one. Almost all of its correctness lies between the commands it sends
to Redis and to Kubernetes: nothing but the pool's maintenance is locked, every
error is either ignored or ends the call, and several scheduler processes run
side by side during a rolling update.

## 1. Inventory

| Component | State | Operations | Talks to |
|---|---|---|---|
| Idempotent scheduling (`scheduler/service.go`, `persistence/idempotence*.go`) | Redis `idem:`, `sandbox-idempotence:` and `pending:` keys, all with TTLs | `ScheduleSandbox`; `ClaimOrWait`, `Complete`, `Drop` | project service and pool call it; Redis, Kubernetes |
| Sandbox pool (`sandboxpool/service.go`, `persistence/redis_pool_store.go`) | two Redis sorted sets, pending and ready; a mutex per process | `GetSandbox`, `maintainPool` (ticker and one goroutine per `GetSandbox`) | `ScheduleSandbox`, `IsSandboxReady` |
| Project service (`project/service.go`) | none of its own | `GetProjectSandbox` | mapping store, pool, `ScheduleSandbox`, Kubernetes Service |
| Mapping store (`persistence/redis.go`) | Redis `project:`, `sandbox:`, `released:` keys, the set of all projects, a publish channel | `Get/SetProjectSandbox`, `FindProjectForSandbox`, `RemoveSandboxMapping`, `IsSandboxReleased`, subscribe | project service, release, xDS server |
| Kubernetes client (`k8sclient/client.go`) | pods, headless Services; event channel of 100 | create, release, ready/gone checks, wait, `CreateOrUpdateProjectService`, watcher, listing of old pods | API server |
| Event processing and cleanup (`scheduler/service.go`, `jobs/cleanup`) | the channel, a ticker | `processEvents`, `ReleaseSandbox`, `CleanupExpiredSandboxes` | Kubernetes client, mapping store |
| xDS server (`xds/server.go`) | routes under an RWMutex, Envoy snapshot | load, add, remove, subscribe | mapping store |
| Project API handler (`transport/http/project_server.go`) | none | parses the id, calls the project service | project service |
| Identifiers (`types/ids.go`) | none | prefixes, base 36 time-ordered ids | everything |
| Activator (`activator/internal/service`) | none kept; a request being retried | forward with retry and backoff | scheduler API, sandboxes |
| HTTP start-up, configuration, logging, wiring, mock client, mock sandbox, manifests | none | | |

What is hard in it, by component, and what correct means:

* **Idempotent scheduling.** Callers with one key race through separate Redis
  commands; the claim is a lease that no step checks again; commands may be
  applied although they report an error; the client may leave, and with its
  context the deferred `Drop`; a process may die anywhere. Correct: one claimant
  per key, no marker left behind, no pod forgotten, a key answered only with a
  sandbox made for it, every call returns.
* **Pool.** Two goroutines over the same sets; a sandbox is in neither set while
  it moves; counts are read before a loop that uses them. Correct: no sandbox
  handed out twice or listed twice, none dropped silently, the limits hold, the
  mutex comes free, the pool refills.
* **Project service and mappings.** Overlapping calls for one project, releases
  that look up and delete in two round trips, pipelines that are not
  transactions, ids that change when they are read back, keys that expire.
  Correct: no two projects share a sandbox; a release finds what it must remove;
  the hostname leads to the sandbox in the answer. The pool's mutex is local to a
  process: what two processes list at once may be handed out twice.
* **Watcher and cleanup.** The watch ends without a restart, events are dropped
  when the channel is full, the channel is closed under its sender, a notice is
  old when it is acted on, the cleanup deletes what it pages through. Correct: a
  failed or expired pod is gone in the end, a healthy young one is left alone, a
  wait for a pod ends, shutdown panics at most for a notice already in hand.
* **xDS server.** A write lock held while a read lock of the same mutex is
  taken; routes loaded in several commands and before the subscription starts;
  a set with one TTL for all its members. Correct: what a restarted server reads
  covers the mappings, every steady project is served by its own cluster, Envoy
  gets a snapshot, routes follow the mappings.
* **Activator.** Retries of a request whose body was consumed and which the
  sandbox may have executed already. Correct: bounded attempts and waiting, no
  body delivered twice, an answer or an error.

`PROJECT.json` lists the hazards line by line, with the properties that cover
each or the reason why none does yet.

## 2. Modules

Every Redis command and every Kubernetes call is one atomic step; whatever
happens between two of them may interleave with every other goroutine and
process. A call that fails is modelled with both outcomes on the server, applied
or not. The constant `Faults` names the kinds of failure a run admits, so that a
property can say which of them it survives; where failures are only bounded
(`MaxErrors`, `MaxRestarts`) every kind occurs.

### Idempotence

`scheduler.Service.ScheduleSandbox` over the Redis idempotence store.

| Model | Code |
|---|---|
| `idem`, `sandboxIdem`, `pending` | the three kinds of Redis keys; `pending` is the SETNX marker, a lease |
| `pc`, `key`, `claimed`, `sandbox` | a call's position, its key, `ClaimResult.Claimed` while not completed, the id it got from Kubernetes |
| `StartCall`, `Lookup`, `MarkPendingCreation` | `ClaimOrWait` up to the SETNX |
| `AwaitFirst`, `PollRecord`, `PollMarker` | `awaitIdempotenceCompletion`; record and marker are read by two commands |
| `ClaimTimeout`, `ClaimError` | the 10 second `claimCtx`; other errors ("proceeding with creation") |
| `CreateSandbox`, `CreateError`, `Complete`, `CompleteError`, `Drop`, `DropError` | the rest of `ScheduleSandbox` with the deferred `Drop` |
| `Crash`, `ExpirePending`, `ExpireRecord`, `ExpireReverse` | the process and Redis TTLs |

History variables: `createdFor` (which key a pod was made for), `delivered`
(answers returned), `lost` (pods whose id no caller learned, or whose process
died holding it), `stale` (keys whose marker went away while a claim was open).

A client that leaves is a timeout during the claim and, later, a Redis or
Kubernetes error: the following commands share its context.

### SandboxPool

`sandboxpool.Service` over the Redis sorted sets.

| Model | Code |
|---|---|
| `ready`, `pending` | the sorted sets, as sets: the order of `ZPOPMIN` and of the loop is left open |
| `mu` | `Service.mu`, one per process |
| `pc`, `todo`, `cur`, `count`, `budget` | locals of `maintainPool` and `checkPendingSandboxes` |
| `Tick`, `GetSandbox`, `GetSandboxError` | the entry points; `GetSandbox` starts a goroutine whatever its outcome |
| `TryLock`, `CountSandboxes`, `GetPendingSandboxes`, `CheckReady`, `RemovePendingSandbox`, `AddReadySandbox`, `RecountReady`, `RecountPending`, `CreatePoolSandbox`, `AddPendingSandbox` | `maintainPool` in order, each with its error action where the code goes on differently |
| `PodStarts`, `PodEnds`, `Crash` | the cluster and the process |

`MaxToCreate` is the arithmetic of the creation limit. A failed recount yields 0,
as in the code, and is a fault of its own (`"recount"`) because it is the one
failure that may push the pool over its limits.

### ProjectSandbox

Composes the two above by their outcomes: `project.Service.GetProjectSandbox`
and `scheduler.Service.ReleaseSandbox` over mappings, pods and project Services.

| Model | Code |
|---|---|
| `mapping`, `owner`, `released` | Redis `project:`, `sandbox:` and `released:` keys |
| `record` | the idempotence record of the project's key |
| `ready`, `pod`, `service` | the pool, the pods, the selector of the project's headless Service |
| `Request`, `GetMapping`, `CheckReleased`, `CheckGone` | is there a sandbox already? |
| `GetSandbox`, `ReuseRecorded`, `CreateSandbox`, `RecordSandbox`, `ScheduleError` | pool, then `ScheduleSandbox` |
| `SetProjectSandbox`, `GetService`, `CreateService`, `UpdateService`, `WaitForSandboxReady` | the assignment; `stale` is the Kubernetes resource version conflict |
| `Release`, `FindProject`, `RemoveSandboxMapping`, `DeletePod` | `ReleaseSandbox`, from a pod event or from the cleanup job |
| `PoolRefill`, `PoolRelist`, `doubled` | `checkPendingSandboxes`, of one process and of a second one that listed the same pending sandbox |
| `PodGone`, `Expire...`, `Crash` | environment |

`Clean` is `NewProjectID` applied to an id read from Redis: it strips one
`project-` prefix, so the project `project-a` is read back as `a`.

Abstractions: a pipeline that succeeds is one step, one that fails has applied
any prefix; the set of all projects and the published updates, written by the
same pipelines and read only by the xDS server, are in `XdsRoutes`; whether a
call waits for readiness is chosen when it gets there; the two mappings of an
assignment have one TTL and are written together, so they expire together,
unless another project wrote the reverse mapping since; an existing pod has no finer phase, since the code looks only at its existence here.
`troubled` is a history variable: the projects whose calls overlapped or whose
writes failed half way.

Several processes (the fault `"overlap"`, a rolling update) differ from one in
two ways. A crash may end any of the calls and releases and leave the others. And
each process has its own pool mutex: a pending sandbox that two of them have
listed (`doubled`) is moved into the ready set by both, the second `ZADD` after
a `ZREM` that removed nothing, so that the pool may hand it out again
(`PoolRelist`, at any time and any number of times).

### SandboxLife

The abstract specification of what the scheduler promises about a sandbox: it is
created once, may wait in the pool, is assigned to at most one holder and never
comes back. `ProjectSandbox` implements it (`ImplementsLife`) with `unused` as
the ids of which no pod was made, `pooled` as the ready set, and `held` as the
pairs of a project and a sandbox that some mapping, reverse mapping, record,
Service or call of the project names, both without the sandboxes in `doubled`. So
however the five places disagree or lapse one by one, a sandbox that one project
has held never reaches another and never returns to the pool. A sandbox that
several processes have listed leaves this life the moment it becomes ready: the
code promises nothing about it, and two projects may share it.

`SandboxPool` implements it too, while one process maintains the pool: `pooled`
is what is pending, ready or in the hands of `maintainPool` between the two sets,
and the holder is whoever called `GetSandbox`. The two refinements meet at the
hand-out, which is an `Assign` in both. What the abstract specification itself
guarantees, `OneHolder` and `NeverReused`, is proved once, in `SandboxLifeProofs`,
and carried over to both.

### PodEvents

How pods come to their end: `watchNamespacePods` and `processPodEvent`, the event
processor, `CleanupExpiredSandboxes`, and `WaitForSandboxReady` meanwhile.

| Model | Code |
|---|---|
| `phase`, `dying`, `old` | the pod, its deletion timestamp, its age against the TTL |
| `watch`, `stream`, `hand` | the watch, its notices, the one `processPodEvent` works on |
| `eventChan`, `evt` | the channel of capacity `Cap` and the event being handled |
| `stop`, `closing` | the two steps of `StopWatchers`; `eventCtx` |
| `job`, `cutoff`, `rest`, `batch` | the cleanup run: its position, cutoff, continue token and page |
| `wait`, `target` | a request in `WaitForSandboxReady` |
| `WatchOpens`, `WatchError`, `WatchEnds`, `WatchReceive`, `ProcessPodEvent` | the watcher; nothing reopens a watch |
| `ReceiveEvent`, `ProcessorExits`, `HandlePodEvent` | `StartEventProcessing`, `handlePodEvent` |
| `CleanupTick`, `ListPage`, `ListError`, `CleanupRelease`, `CleanupNextPage`, `CleanupDone` | the job, page by page |
| `WaitForSandboxReady`, `IsSandboxReady`, `IsSandboxGone`, `WaitError`, `WaitCancelled` | the wait: readiness and existence are two calls |
| `Close`, `StopWatchers`, `Crash`, `Panic`, `Restart` | the life of the process; a send on a closed channel panics |

A notice holds the pod as it was when it was sent, so that events about a pod
that has recovered or is gone occur. The half of a release that removes mappings
is in `ProjectSandbox`. History variables: `troubled`, `excused` (the event was
dropped or the release failed), `missed`, `late`.

### XdsRoutes

The xDS server and the Redis data it reads, one step per Redis command.

| Model | Code |
|---|---|
| `mapped`, `listed`, `outlives` | `project:` keys, the set of all projects, and which mappings the TTL of the set does not cover |
| `wpc`, `wproj` | the position of each pipeline of `SetProjectSandbox` or `RemoveSandboxMapping` |
| `start`, `toGet`, `got` | `OnStart` with `GetAllProjectSandboxMappings` |
| `sub`, `inbox`, `receiver`, `msg` | the subscription and the goroutine that reads it |
| `mu`, `routes`, `snapshot` | `Service.mu`, the routes, what Envoy has |
| `GetMembers`, `GetEach`, `LoadError`, `FillRoutes`, `FirstSnapshot` | the load |
| `Subscribe`, `SubscribeReturns`, `Receive`, `ReceiveError`, `UpdateRoute` | the subscription with its deferred `Close`, and the callback that takes the read lock under the write lock |
| `UpdaterRLock`, `UpdaterSet` | the ten second ticker |

A snapshot is reduced to its clusters and to the order of its routes, in which
the fallback to the activator comes last and the others in the order of a map
iteration. `Clean` and `Parse` are what `NewProjectID` and the splitting of a
message at `:` make of an id.

### Activator

One request through `HandleRequest` and `doWithRetry`; requests share nothing.
`body` is the request body, which `http.Client` closes with every attempt. A later
attempt still sends request line and headers, which `net/http` flushes before it
reads a body that is not in memory, and fails on the closed body: the request
arrives in the form `"cut"`. `copy` and `late` are what this and earlier attempts
have sent, which the sandbox may execute at any later time (`Execute`), cut short
or not: whether a handler needs the body is its own affair. `noisy` stands for a URL with "dns" or
"lookup" in it, which `isRetryableError` finds in the text of every error.

### Proof and instance modules

`IdempotenceProofs`, `SandboxPoolProofs`, `ProjectSandboxProofs`,
`SandboxLifeProofs`, `PodEventsProofs`, `XdsRoutesProofs` and `ActivatorProofs`
hold the theorems; the modules `MC...` the values for TLC. Definitions commented "Mutant" are wrong versions of an operation
which show that a property notices the mistake; no specification uses them.

## 3. Runs

| Run | Checks | Instance |
|---|---|---|
| `idempotence_faults` | `TypeOK`, `ClaimExclusion`, `NoLeakedSandbox`, `DeliveredForKey`, `MarkerKeepsOwner` | 3 callers in 2 processes, 2 keys, 3 sandboxes, every fault |
| `idempotence_live` | `CallsReturn`, `MarkerCleared` | 2 callers in 2 processes, Redis and Kubernetes errors and crashes |
| `pool_faults` | `TypeOK`, `HandedOutOnce`, `PoolDisjoint`, `PoolBound`, `MutexHasHolder`, `PoolAccounted`, `ImplementsLife` | ticker and trigger, 4 sandboxes, 2 handed out, `PoolSize` 3, `PoolMaxPending` 2, every fault but the failed recount |
| `pool_refill` | `PoolRefills` | 3 sandboxes, one handed out, recounts fail |
| `project_faults` | `TypeOK`, `TenantIsolation`, `ReverseMapped`, `ServiceFollowsMapping`, `ImplementsLife` | 2 requests, also at the same time, 1 release, projects `a` and `project-a`, 2 sandboxes, every fault but `"pod"`, a second process among them |
| `pod_events` | `TypeOK`, `OnlyTroubledReleased`, `TroubleOnItsWay`, `OnlyLateNoticePanics`, `CleanupComplete`, `PodsReaped`, `WaitEnds` | 1 sandbox and another pod, channel and pages of size 1, 1 error, 1 restart |
| `xds_routes` | `TypeOK`, `SetCoversMappings`, `SteadyProjectsServed`, `SnapshotFollowsRoutes`, `EventuallyServing` | 3 projects, 2 pipelines at a time, every fault, any initial contents of Redis |
| `activator` | `TypeOK`, `BodyDeliveredOnce`, `RetriesBounded`, `RequestAnswered` | 3 retries, backoff 1 to 2 |
| `idempotence_once`, `project_service`, `project_stale_record`, `xds_updates` | one property each, violated: see section 6 | a smallest instance that shows it; `xds_updates` has two updates, so that the second would also show an update that blocks the server |

What they show:

* `ClaimExclusion`: `Complete` and `Drop` delete a marker without looking at who
  set it, and still two callers hold one key only after a marker went away under
  an open claim.
* `MarkerKeepsOwner`: even then no step leaves a marker behind without an open
  claim on its key, except a failed Redis command and the death of the process.
  `MarkerCleared`: in those cases its TTL removes it.
* `NoLeakedSandbox`, `DeliveredForKey`: no error path forgets a pod the process
  knows of; no race answers one key with another key's sandbox.
* `HandedOutOnce`, `PoolDisjoint`, `PoolAccounted`, `PoolBound`,
  `MutexHasHolder`: the try-lock is enough inside one process. Across processes it
  is not: two processes can move the same pending sandbox, and nothing prevents it.
  `ImplementsLife` (of the pool) adds the sandboxes that were dropped: after a
  failed command or a crash the pool forgets a sandbox, and never lists it again.
* `TenantIsolation`: no interleaving, expiry, half-applied pipeline or change of
  an id makes two projects share a sandbox, unless two processes listed it as
  pending at once; and when two projects share such a one, no mapping, record or
  Service written for it draws another sandbox in. `ImplementsLife` adds that
  none is ever used again, with the same exception.
* `ReverseMapped`: a release looks up and deletes in two round trips, calls for a
  project overlap, and still nothing but a broken pipeline parts a mapping from
  its reverse mapping. The other way round it does happen: a late deletion takes
  the project's next mapping and leaves the reverse mapping of that sandbox, which
  lapses.
* `ServiceFollowsMapping`: Service and mapping agree when a project's calls come
  one at a time and do not fail half way; `project_service` shows that the
  condition is needed.
* `OnlyTroubledReleased`, `TroubleOnItsWay`, `OnlyLateNoticePanics`,
  `CleanupComplete`: the watcher and the cleanup release what they should and
  nothing else; a full channel and a failed release are the only ways to lose the
  event of a pod in trouble while the watch is open. `PodsReaped`, `WaitEnds`:
  whatever the watcher loses, the cleanup catches, and a request that waits for a
  failed pod depends on it.
* `SetCoversMappings`, `SteadyProjectsServed`, `SnapshotFollowsRoutes`,
  `EventuallyServing`: the load at start is sound whatever is written meanwhile.
  What comes after the load never arrives (`xds_updates`).
* `BodyDeliveredOnce`, `RetriesBounded`, `RequestAnswered`: the body can be read
  only once, so that one attempt at most delivers it; a retry of a request with a
  body reaches the sandbox cut short, even if the first attempt never connected.
  A request without a body, or one whose handler does not read it, may be executed
  once per attempt.

**Bounds.** Three callers are the least with a claimant, a second one after a
lapsed lease and a late `Drop` of the first. Two keys suffice for crosstalk.
`StartCall` lets no more calls start than there are unused ids, so a creation
never fails for lack of an id. `PoolSize` above `PoolMaxPending` makes both
limits bind, and four sandboxes allow a replacement after a hand-out. In
`ProjectSandbox` two requests overlap, follow each other, or take one sandbox for
two projects. A third, on a Service that both others are about to update, would
add the update conflict, which leaves the Service as it is; with the second
process among the faults that instance is beyond the time of a run, and the
conflict is covered by the proofs, where `AloneInv` is about it. The ids `a` and
`project-a` are the smallest pair on which `Clean` matters. Pods that vanish by themselves (`"pod"`)
are left out of its run: a Kubernetes error already lets a call take any pod for
gone. When no unused id is left in `SandboxPool` or `ProjectSandbox`, creation
fails as on an API error. In `PodEvents` one sandbox sends several notices, so
that a channel of one place overflows; the other pod makes the cleanup need a
second page. In `XdsRoutes` the third project is the id `project-`, which is
rejected when it is read back, and the second one's messages read as updates of
the first; two pipelines can overlap, also on one project. Symmetry is used on
callers (other than the named one), keys and sandboxes in runs without liveness.
Deadlock is not checked where the system may really stop: in `Idempotence` all
requests may be done and all ids used, in `XdsRoutes` the callback may block
itself and the updater, and the request of `Activator` ends. It is checked
everywhere else.

**Fairness.** `CallsReturn` assumes that each goroutine's outstanding call comes
back and that the `claimCtx` deadline fires, and nothing about Redis TTLs.
`MarkerCleared` assumes in addition that Redis expires keys (`LeaseFairness`).
`PoolRefills` assumes that the ticker keeps firing, that calls return, and that
Kubernetes starts pods which do not fail; in runs in which pods die the pool
really may stay short, as nothing removes a dead pod from the pending set.
`PodsReaped` and `WaitEnds` assume that watcher, processor, cleanup job and wait
are scheduled, that pods age and Kubernetes completes deletions, and that the
Deployment starts a dead process again; not that the watch stays open, that
events arrive or that a client gives up. `EventuallyServing` and
`UpdatesReachRoutes` assume that pipelines, goroutines and the ticker go on, and
that a `Lock` is not overtaken by new readers for ever (`sync.RWMutex`);
`RequestAnswered` that the scheduler answers and that the timeout of the HTTP
client ends an attempt. All are weak fairness but that of the lock.

## 4. Proofs

Each theorem holds for every value of the constants admitted by the named
assumptions next to their declarations: sentinels are not members of the sets,
functions have their domains, `Sandboxes` of the pool and `Projects` of the xDS
server are finite, sizes are naturals, `Faults` is any subset of the named
faults. No assumption is made about the number of callers, goroutines, processes,
keys, projects or releases. The theorems on a pool with one process have
`SingleProcess` as a hypothesis, in their statement or in the property.

| Theorem | States | Inductive invariant |
|---|---|---|
| `IdempotenceProofs!TypeCorrect` | `TypeOK` | itself |
| `ClaimIsExclusive` | `ClaimExclusion` | with `CallShape` (where a claim or an id can exist) and `MarkerHeld`: an open claim on a key that is not stale has its marker in Redis, so the SETNX of another caller fails |
| `MarkersKeepOwners` | `MarkerKeepsOwner` (an action property) | `CallShape`: a `Drop` of a foreign marker only removes markers |
| `SandboxesNotLeaked` | `NoLeakedSandbox` | itself, with `CallShape` |
| `AnswersMatchKey` | `DeliveredForKey` | with `RecordedForKey`: records and ids in hand were made for their key, and a used id is never made again |
| `SandboxPoolProofs!TypeCorrect` | `TypeOK` | itself |
| `MutexNeverLeaks` | `MutexHasHolder` | `MutexInv`: inside `maintainPool` the mutex is held, by one goroutine of the process |
| `SandboxesAccounted` | `PoolAccounted` (an action property) | types only |
| `NoSandboxHandedOutTwice`, `PoolSetsDisjoint` | `HandedOutOnce`, `PoolDisjoint` | `MoveInv`: what the loop has yet to visit is still pending, and a sandbox in hand is in no set; needs mutual exclusion |
| `PoolStaysWithinBounds` | `PoolBound` | `RoomInv`: at each position of a maintenance run the counts leave room for the creations still to come; hand-outs only make more |
| `PoolImplementsLife` | `ImplementsLife` (a refinement), for one process | `MutexInv`, `MoveInv`: taking a sandbox out of pending and putting it into ready leave `pooled` as it is, because only one goroutine has a sandbox in hand; an error or a crash there is a `Retire`, `GetSandbox` an `Assign` |
| `SandboxesPassOnce` | `NeverReused` of `SandboxLife`, for the pool of one process | from the refinement |
| `ProjectSandboxProofs!TypeCorrect` | `TypeOK` | itself |
| `ProjectsIsolated` | `TenantIsolation` | `IsolationInv`: isolation, with the unused ids apart from the pool and from `doubled`; a step either adds no holder of a sandbox outside `doubled`, or gives one taken from the pool or newly made to one project |
| `ProjectsImplementLife` | `ImplementsLife` (a refinement) | `IsolationInv`: a step that adds a holder takes the sandbox from `unused` or `pooled` and is an `Assign`; every other one only loses pairs and is a `Retire`, or is the `Provision` of the pool; what happens to `doubled` is a `Retire` or nothing |
| `SandboxesNotReused` | `NeverReused` of `SandboxLife`, for projects | from the refinement and `NoReuse` |
| `ReverseMappedAlways` | `ReverseMapped` (an action property) | `IsolationInv` and `FoundInv`: while a release is between its lookup and its deletion, its sandbox, unless in `doubled`, is neither pooled nor unused, and only projects whose id reads back as the one found hold it; so the deletion takes the mapping along with the reverse mapping. That no holder joins meanwhile is `NeverReused` again |
| `ServiceFollows` | `ServiceFollowsMapping` | `AloneInv`: overlapping calls and outdated copies of the Service are recorded as trouble; `WritingInv`: a call that is alone and about to write the Service has the sandbox of the mapping, and creates a Service only where there is none |
| `SandboxLifeProofs!OneHolderAlways` | `OneHolder` | itself |
| `NoReuse` | `NeverReused` (an action property) | `OneHolder` is not needed: only `unused` and `pooled` feed an `Assign` |
| `PodEventsProofs!TypeCorrect` | `TypeOK` | itself, in the parts `DataOK`, `RestOK` and `ChannelOK` |
| `OnlyWithCause` | `OnlyTroubledReleased` | `CauseInv`: stream, hand, channel and processor name only pods that were in trouble; `AgeInv`, `JobInv`: the cleanup has only old pods before it |
| `EventsReachProcessor` | `TroubleOnItsWay` | `WayInv`, the same said with the elements of the sequences: at each hand-over one place takes up what the other gives away |
| `PanicsAreLate` | `OnlyLateNoticePanics` (an action property) | `LateInv`: after `StopWatchers` began no new notice is taken in hand |
| `CleanupIsComplete` | `CleanupComplete` (an action property) | `JobInv`: each pod of the cutoff is deleted, gone, counted as missed, on the page in hand or behind the token |
| `XdsRoutesProofs!TypeCorrect` | `TypeOK` | itself, the Boolean flag apart |
| `SetCovers` | `SetCoversMappings` | `WriterInv`: two pipelines on one project count as a race; `CoverInv`: without a race a mapping outlives the set only between SET and EXPIRE, and is gone between DEL and SREM |
| `SnapshotFollows` | `SnapshotFollowsRoutes` | `LockInv`: who holds the lock, and what waits for `OnStart`; `BuiltInv`: the snapshot is one of the present routes until an update takes the lock; `RouteOfSnapshot`: in every order of its table the first match of a project is its own cluster, or the fallback |
| `SteadyServed` | `SteadyProjectsServed` | `LoadInv`: a steady project is still to get, got, or in the routes; `ServedInv`: it stays in the snapshot for good, also when an update has taken the lock |
| `ActivatorProofs!TypeCorrect` | `TypeOK` | with `RetryLeft`: the loop sleeps only before an attempt it may still make |
| `BodyDelivered` | `BodyDeliveredOnce` | `BodyInv`: an unread body was never sent, and one that was is closed, so that the next copy is cut short; `CopiesCounted`: only `Send` adds a copy |
| `RetriesStayBounded` | `RetriesBounded` | `CopyInv`, `WaitInv`: copies and waiting are bounded by the attempts so far |

The theorems on `PodEvents` matter beyond its run, which has a single sandbox:
they hold for any number of pods, whose events share one channel and one page
size. Those on `XdsRoutes` hold for any number of pipelines at a time and any ids,
where the run has two and three, and those on `ProjectSandbox` for any number of
overlapping calls and releases, where the run has two calls and one release.
Those on `Activator` hold for every configuration of retries and backoff.

Only model-checked: the liveness properties (`CallsReturn`, `MarkerCleared`,
`PoolRefills`, `PodsReaped`, `WaitEnds`, `EventuallyServing`, `RequestAnswered`),
which rest on fairness and are beyond the prover. Every invariant, action
property and refinement that a passing run checks is a theorem.

## 5. Not modelled

HTTP start-up, configuration, logging and wiring have no state of their own;
their values are constants here. The construction of Envoy resources and pod
specifications and the base 36 digits of an id are data that no decision depends
on; that ids are unique is assumed. The mock client and the mock sandbox are
stand-ins, generated code and manifests contain no logic (the rolling update of
the deployment is why two processes overlap). A mapping's TTL and the moment a
pod becomes old are events without a clock: that a lease of one minute is longer
than a wait of ten seconds is not used by any property.

## 6. Findings

Each is a run that TLC ends with a counterexample; `PROJECT.json` quotes the line
of the repository that says otherwise.

1. `idempotence_once`: `ClaimOrWait` does not look the key up again after it won
   the marker, so a completed key is created a second time, without any fault. A
   waiter that reads the record before, and the marker after, the owner completes
   runs into the same gap and takes success for an abandoned creation.
2. `project_service`: two overlapping calls for one project leave the mapping at
   one sandbox and the Service at the other, for good.
3. `project_stale_record`: after a release the idempotence record still names the
   released sandbox, and with an empty pool the project gets it back.
4. `xds_updates`: the subscription to mapping updates is closed by a deferred
   `Close` as soon as it is set up, so that routes never change after the start.
   A message that arrives before the `Close` blocks the server's lock for good.

Known limits without a line that promises otherwise are noted with the hazards:
a pending sandbox whose pod died keeps its place in the pool; a failed recount
takes the pool over its limits; two processes may move one sandbox and the pool
then hand it to two projects; releasing the sandbox of `project-a` removes the
mapping of `a`; a mapping written between the load of the xDS server and its
subscription is in neither; a retry of a request with a body is cut short.

## 7. Plan

Done, in this order because the later parts rest on the earlier: `Idempotence`,
`SandboxPool`, `ProjectSandbox` with the refinement of `SandboxLife`,
`PodEvents`, `XdsRoutes`, `Activator`, with the proofs above. Worth doing next:

1. An abstract specification of one `ScheduleSandbox` call (a key is answered
   with its record or with a new sandbox, or fails), implemented by `Idempotence`,
   in the place of the outcomes that `ProjectSandbox` now lists for itself.
2. An action property on the xDS server: once a callback has taken the lock,
   neither routes nor snapshot change again.

## 8. Running

    tlc -workers 2 -config PoolFaults.cfg MCSandboxPool
    tlapm SandboxPoolProofs.tla

`project_faults`, `pod_events` and `xds_routes` have 0.7 to 1.7 million distinct
states and take one to three minutes; every other run takes seconds. Each proof
module takes one to a few minutes.
