# TLA+ models of Gitpod's workspace life cycle

This directory models the part of Gitpod that decides the fate of a workspace: the
server's starter and garbage collector (`components/server`), the registry of
workspace clusters and the bridge that mirrors what a cluster's manager says into
the database (`components/ws-manager-bridge`, `components/gitpod-db`), the
Kubernetes-facing manager (`components/ws-manager`) and the daemon on each node that
owns the workspace's files (`components/ws-daemon`). Everything a user would call
losing work or seeing a wrong state happens between these programs, and each of them
is a set of goroutines or async handlers around shared maps, channels and rows.

All paths below are relative to `src/`. Abbreviations: *monitor.go*, *manager.go*,
*status.go*, *annotations.go*, *pod_controller.go* and *create.go* are in
`components/ws-manager/pkg/manager`; *workspace.go* and *store.go* in
`components/ws-daemon/pkg/internal/session`; *service.go* is
`components/ws-daemon/pkg/content/service.go`; *bridge.ts* and
*workspace-instance-controller.ts* are in `components/ws-manager-bridge/src`, like
*cluster-service-server.ts*, *cluster-sync-service.ts* and *bridge-controller.ts*;
*workspace-starter.ts*, *garbage-collector.ts*, *workspace-deletion-service.ts* and
*gitpod-server-impl.ts* in `components/server/src/workspace`;
*workspace-db-impl.ts* in `components/gitpod-db/src/typeorm`, *periodic-deleter.ts* in
`components/gitpod-db/src`; *client-provider.ts* in
`components/ws-manager-api/typescript/src`.

## 1. Inventory

### 1.1 The path of a workspace

1. `server` stores an instance row, has the image built, chooses a workspace cluster
   among those in the *cluster registry* and calls its `StartWorkspace`, then the next
   one's if that fails. ws-manager creates a pod with a finalizer and a set of
   annotations; from then on the pod **is** the workspace's state: ws-manager computes
   every status from it.
2. Kubernetes changes the pod. The controller (`PodReconciler.Reconcile`) puts an
   event per change in the *event worker pool*; a worker calls `onPodEvent`, which
   computes the status, stamps it with a version from the *hybrid clock*, starts a
   goroutine that publishes it and acts on it (`actOnPodEvent`).
3. Acting means marking the pod with annotations, deleting it, removing its
   finalizer, or starting a goroutine that initializes the content, probes for
   readiness or finalizes (backs up and disposes of) the content through ws-daemon.
4. ws-daemon keeps a *session* per workspace, on disk too, with the states
   initializing, ready, disposing, disposed. `InitWorkspace` fills the workspace,
   `DisposeWorkspace` uploads a backup (through the *backup limiter*) and deletes it.
5. Published statuses go to *subscribers* over bounded channels. The bridge
   subscribes, also lists all workspaces on (re)connect, and applies each status to
   the instance row and, for prebuilds, to the prebuild row. Beside it the
   *instance controller* looks at rows ws-manager does not know of any more.
6. A workspace nobody uses, or that is deleted, is marked; weeks later the *garbage
   collector* deletes its content, then marks its rows, which the *periodic deleter*
   removes.

### 1.2 Components

| Component | State it keeps | Operations | Talks to | What is hard | Correct when |
|---|---|---|---|---|---|
| Status clock (`ws-manager/pkg/clock`) | last wall time, logical counter | `Tick` | status computation | wall clock stands still, runs back, wraps | versions of a process strictly increase |
| Event worker pool (`internal/workpool`) | journal, set of queues in work, wait group | `Start`, `Add`, `work`, `Stop` | controller calls `Add`, workers call `onPodEvent` | dropped wake-up tokens, a handler that hangs, blocked `Add` | per-queue mutual exclusion and order, no event forgotten |
| Status subscriptions (manager.go) | map of subscriber channels behind a read-write lock | `subscribe`, `publishToSubscribers`, `dropSubscriber` | monitor publishes, bridge and ws-proxy subscribe | concurrent publishers, slow and leaving subscribers, closing a channel others send to | no send to a closed channel, no silent gap |
| Status computation (pod_controller.go, monitor.go, status.go, manager.go) | last seen pods, running publishers | `Reconcile`, `onPodEvent`, `GetWorkspaces` | Kubernetes, pool, clock | coalesced events, lists computed outside the pool, restarts | versions follow the pod's history, the last state is published |
| Monitor (monitor.go, manager.go, annotations.go) | pod annotations and finalizer; maps of running initializers, probes and finalizers | `StartWorkspace`, `StopWorkspace`, `actOnPodEvent`, `initializeWorkspaceContent`, `waitForWorkspaceReady`, `finalizeWorkspaceContent`, `markTimedoutWorkspaces` | Kubernetes, ws-daemon | goroutines working from old copies of the pod, retries of calls with unknown outcome, timeouts racing a backup, restarts | no content lost silently; one finalizer at a time; a deleted pod goes away |
| Sessions (workspace.go, store.go, service.go) | store, session state, session file, content | `InitWorkspace`, `WaitForInit`, `DisposeWorkspace`, `Delete`, restart | monitor | two locks, condition variable, persistence behind memory, failing uploads | one disposer; backup before removal |
| Backup limiter (service.go, `controller/workspace_operations.go`) | buffered channel | acquire or time out, release | sessions | anonymous tokens and timeouts | at most five at a time, nobody blocked |
| Bridge (bridge.ts, workspace-instance-controller.ts, `ee/src/prebuild-updater-db.ts`) | instance row, prebuild row, tokens | `statusUpdate`, `updatePrebuiltWorkspace`, controller loop | database, ws-manager | read-modify-write over several awaits by two writers, stale and repeated updates, failing calls | stopped rows complete, clean-up after the row, prebuilds not taken back |
| Workspace starter (workspace-starter.ts) | instance row, prebuild row, its own copy of the row | `startWorkspace`, `buildWorkspaceImage`, `tryStartOnCluster`, `failInstanceStart` | registry, image builder, ws-manager, bridges and controllers through the row | whole-row stores of old copies, lost answers, crashes, clusters that go away, timeouts of others | the row's region names the pod's cluster; stopped rows have no pod; every instance settles |
| Cluster registry (cluster-service-server.ts, cluster-sync-service.ts, bridge-controller.ts, periodic-deleter.ts) | cluster rows, bridges | `register`, `update`, `deregister`, class synchronisation, `reconcile`, deleter | starter, bridges | four writers, only one of them queued; saves of stale rows; deletion by key | deleted clusters do not come back by a stale save; bridges follow the rows |
| Deletion (garbage-collector.ts, workspace-deletion-service.ts, gitpod-server-impl.ts) | workspace row, content in the object storage | `deleteWorkspace`, `updateWorkspaceUserPin`, `adminRestoreSoftDeletedWorkspace`, four stages of the collector, deleter | storage, database, starter | overlapping stages working from old lists, stale stores, partial failures | visible and running workspaces keep their content; what is purged leaves nothing; what is deleted is purged |
| Subscriber and whole path (`wsman-subscriber.ts`) | stream | `subscribe`, reconnect | ws-manager, bridge | updates lost while disconnected, deleted pods missing from lists | a pod that is gone is noticed |

Not modelled, with the reason, are listed in `PROJECT.json`: ws-manager-mk2
(incomplete at this commit), PVC and volume snapshots, the other parts of ws-daemon,
the bridge's metrics, the server's leader election and its other API methods, the other
tables of gitpod-db, image-builder, supervisor, ws-proxy, registry-facade,
content-service, usage, the user interfaces and the installer. Much of the
repository's TypeScript is the dashboard, generated protocol code, entities and
migrations, which have no behaviour of their own to model.

## 2. Modules

| Module | Models | Kind |
|---|---|---|
| `HybridClock` | `clock.go` | component |
| `PerQueueFIFO` | what the pool's documentation promises | abstract specification |
| `EventWorkerPool` | `workpool.go` | component, refines `PerQueueFIFO` |
| `EventWorkerPoolProofs` | theorems about it | proofs |
| `StatusSubscription` | manager.go 1235-1380 | component |
| `StatusSubscriptionProofs` | theorems about it | proofs |
| `StatusSource` | pod_controller.go, `onPodEvent`, `getWorkspaceStatus`, `GetWorkspaces` | component, extends `HybridClock` |
| `StatusSourceProofs` | theorems about `HybridClock` and `StatusSource` | proofs |
| `WsManagerBridge` | bridge.ts, prebuild updater and mapper, instance controller | component |
| `WsManagerBridgeProofs` | theorems about it | proofs |
| `StatusPipeline` | pod, ws-manager's updates, subscription and bridge | composition (instantiates `WsManagerBridge`) |
| `WorkspaceSession` | workspace.go, store.go, `InitWorkspace`/`WaitForInit`/`DisposeWorkspace` of service.go | component |
| `WorkspaceSessionProofs` | theorems about `WorkspaceSession` and `BackupLimiter` | proofs |
| `WorkspaceMonitor` | monitor.go with manager.go, annotations.go, status.go | component |
| `WorkspaceMonitorProofs` | theorems about it | proofs |
| `BackupLimiter` | both `uploadWorkspaceContent` limiters | component |
| `ClusterRegistry` | cluster-service-server.ts, cluster-sync-service.ts, bridge-controller.ts, periodic-deleter.ts, the cluster rows | component |
| `WorkspaceStart` | workspace-starter.ts with client-provider.ts, the bridges and the instance controllers | composition (extends `ClusterRegistry`) |
| `WorkspaceStartProofs` | theorems about `ClusterRegistry` and `WorkspaceStart` | proofs |
| `WorkspaceDeletion` | garbage-collector.ts, workspace-deletion-service.ts, periodic-deleter.ts, the calls of gitpod-server-impl.ts on a workspace's row | component |
| `WorkspaceDeletionProofs` | theorems about it | proofs |
| `MC*` | the instances TLC checks | model checking |

How state and actions correspond to the code, module by module:

**HybridClock.** `lastPhysicalTime` and `lc` are the fields under `c.mu`; one `Tick`
is one call, since it runs under the lock. The wall clock is the environment: a tick
may read any member of `WallTimes`. `Panic` and `Restart` are the two panics and the
new process, whose clock starts from zero. Masks are constants, so the widths of the
code (48 and 16 bits) are one instance of the theorems. `StatusSource` extends this
module: the versions it puts on statuses are the ones of this clock.

**EventWorkerPool.** One step is one critical section of `p.mu` or one channel
operation, so the windows between a worker's unlock and its select, and between a
claim and its end, are explored. `Stuck` is a set of queues whose handler need not
return. An event is its queue and its number in it.

**StatusSubscription.** Publishers hold the read lock and visit subscribers one at a
time in any order (a Go map); a full channel puts the subscriber on the publisher's
own list of drop-outs, which it works through under the write lock after releasing
the read lock. `due`, `earlier` and `received` are histories for the properties.

**StatusSource.** One workspace's pod, numbered by its changes. Reconcile requests
coalesce; a failing `Get` is ignored by the code and forgets the pod; events are
handled in order (what `EventWorkerPool` shows), publishing goroutines run in any
order, and a list reads the pod in one step and stamps it in another. A restart, after
a panic of the clock too, finds the wall clock wherever it likes: ws-manager does not
wait as clock.go:41-44 advises, and clock.go:86-91 expects as much. So versions are
compared within a process only; `era`, a history variable, numbers the processes.

**WsManagerBridge.** `handler` and `control` are the two writers; each `await` on the
database ends a step, so each holds a copy of the row across steps. Every call may
fail once per unit of `MaxFailures`: the handler drops the update, the controller
gives up the round. Instance phases `building` and `unknown` are folded into
`preparing`; of a row the properties tell apart phase, version and the two times.

**StatusPipeline.** The bridge module with a real source of statuses: the pod moves
through its phases, updates travel over a connection that may break, a reconnect
lists, ws-manager may restart. Two updates are in flight at a time and handled in
either order. The timeout the controller waits for is a flag that eventually becomes
true.

**WorkspaceSession.** Goroutines are program counters over the critical sections of
`stateLock`, the condition variable and the writes of the session file. A session
object and its entry in the store are separate (a disposer may hold an object that is
no longer in the store). `os.WriteFile` is two steps: `OpenFile` truncates, `WriteFile`
writes, perhaps over what another goroutine has written since, or to a file that was
removed. `Crash` loses memory and restarts from the files as `NewStore` does: a file that
is empty or torn, or a hook that fails, means that "this workspace is lost" and that the
store goes on without it, the file and the content staying where they are.

**WorkspaceMonitor.** The pod of one regular workspace with the annotations, disposal
status and finalizer the code reads; `events` are copies of it on their way to the
handler. `HandleEvent` is the whole of `onPodEvent`/`actOnPodEvent` including every
mark, delete and spawn; goroutines run step by step, one step per remote call, from the
copy of the pod they were started with. The status goes out in a goroutine of its own
(`OnChange`), which a restart may take down after the handler has removed the pod's
finalizer; the history variable `lost` says so. `MayFail` steps fail a call in each way
the code handles, a mark that cannot be written included. `Outcomes` are the ends a
container may come to: failed, without its image, or succeeded, after which the handler
deletes the pod. The daemon is reduced to the answers the monitor tells apart.

**BackupLimiter.** The channel as a counter; `RemembersTimeout` selects the version.

**ClusterRegistry.** A row is its state (available, cordoned, or none) and its
deletion mark. The calls of the cluster service pass their checks in one step
and save in another; they are serialised by the service's queue, so there is
one at a time. The synchronisation of workspace classes reads all rows and
saves each of them after a remote call; its interval does not wait for the run
before, so two runs overlap. `Save` is what TypeORM does with an entity that
lacks the deletion mark (of a registration or a synchronisation): an existing
row keeps it, a missing row is inserted. `SaveEntity` is the save of `update`,
whose entity was loaded with the mark and writes it; only the queue, which
`deregister` is in as well, keeps it from clearing one. A deleter selects
marked rows and later deletes them by key. A server asks whether it leads once,
when it starts, and runs a deleter for as long as it lives if so
(`StartDbDeleter`): at any time no server, one or several do. `Reconcile` is
the polling loop; `triggerReconcile` only starts it and is not awaited, so it
is the same action. `controlled` are the clusters with an instance controller,
which nobody stops.

**WorkspaceStart.** One instance on the clusters of `ClusterRegistry`. The starter is a
program counter with its copy of the row; a step ends at each await, so a start or a
build that fails stores the instance in one step and the prebuild in the next
(`FailPrebuildWorkspace`). The controllers and the bridges hold the row they are going to
store: `HandleStatus` reads and changes it, `StoreStatus` writes it back as a whole.
`StartFails` includes the pod that
was created although the call failed; `answerLost` records it, and `late` that the
starter took a step after the timeouts the controllers apply: the two circumstances
under which the invariants do not hold, see section 4. `cutShort` records a failure
between the two stores. `Deregister` gets its condition
from the instance (`Busy`).

**WorkspaceDeletion.** One workspace, its row and its content in the storage. Each stage
of the collector lists (reads the row) in one step and writes in others; `Collectors` is
how many overlap. `Store` is what a store of a whole workspace read before writes:
columns with an empty-string default are read as undefined and left alone, so a stale
store undoes the mark but not its time. Times are never, new and old; `DaysPass` makes
them old, and, for a deleted workspace, only when no start is under way and no instance
runs: retention is 14 to 21 days and purging a year by the installer's defaults, while a
start takes at most hours and a running instance ends by its maximum lifetime.
A restore looks at contentDeletedTime only, as the code does; the history variable
`restoredAtRisk` records that the deletion of the content had begun by then, whether it
is under way or failed in part weeks ago. The probe user's workspaces are never listed
for the deletion of their content. The deleters are those of `ClusterRegistry`.

## 3. Runs

`tlc -config X.cfg M` in this directory. Counts are distinct states.

| Run | Module, cfg | Bounds | Checks | States |
|---|---|---|---|---|
| pool | `MCEventWorkerPool`, `MCPool` | 3 workers, 2 adders, 2 queues (one may hang), 2 events each, with Stop | `PoolInv`, `OneWorkerPerQueue`, `HandledInOrder`, `ImplementsFIFO`, `EveryEventHandled`, `AddReturns` | 95 k |
| subscription | `MCStatusSubscription`, `MCSubscription` | 2 subscribers, 3 updates, capacity 2 (250 in the code) | `SubscriptionInv`, `NoSilentGap`, `InPublishOrder`, `MissedUpdateEndsSubscription` | 586 k |
| source | `MCStatusSource`, `MCSource` | masks of 2 bits and 1 bit, 3 wall times (one past the mask), 5 ticks, 3 changes, 1 list, 1 failure or restart, the wall clock anywhere | `ClockInv`, `VersionsIncrease`, `SourceInv`, `LastPodIsPublished` | 367 k |
| bridge | `MCWsManagerBridge`, `MCBridge` | every phase, 5 outcomes of a prebuild, 2 versions, 1 failure | `BridgeInv`, `PrebuildNotReverted` | 2 M |
| pipeline | `MCStatusPipeline`, `MCPipeline` | 1 loss, restart or failure, 2 updates in flight | `GoneIsNoticed` | 613 k |
| session | `MCWorkspaceSession`, `MCSession` | 2 finalizers, 2 failures, 2 crashes | `SessionInv`, `BackedUpBeforeRemoval`, `MarkedIsDisposed`, `WaiterIsReleased` | 235 k |
| monitor_safety | `MCWorkspaceMonitor`, `MCMonitorSafety` | 2 goroutines (symmetric), 1 queued event, 1 failure or restart, containers that fail or lack their image, no abort or timeout | `MonitorInv` | 2.3 M |
| monitor_liveness | `MCWorkspaceMonitor`, `MCMonitorLiveness` | 1 goroutine, 1 queued event, 1 failure, 1 restart, containers that succeed, timeouts, aborts | `NoSilentLoss`, `DeletedIsRemoved` | 776 k |
| limiter | `MCBackupLimiter`, `MCLimiter` | 4 uploads, limit 2 | `TokensExact`, `BackupsLimited`, `UploadsReturn` | 1 k |
| registry | `MCClusterRegistry`, `MCRegistry` | 2 names, one registered; 4 calls or restarts, 2 synchronisations, 2 servers with or without a deleter | `RegistryTypeOK`, `ListedRightly`, `BridgesFollowRegistry`, `MarkedRowIsDeleted` | 342 k |
| start | `MCWorkspaceStart`, `MCStart` | 1 instance (regular or prebuild), 2 clusters, 1 deregistration, 1 failure or crash, not a lost answer and a deregistration | `StartInv`, `StoppedMeansNoPod`, `InstanceSettles`, `PrebuildUnqueued` | 437 k |
| deletion | `MCWorkspaceDeletion`, `MCDeletion` | 1 start at a time, 2 overlapping stages, 1 server, 2 calls, server starts or failures | `DeletionInv`, `VisibleKeepsContent`, `PurgedCompletely`, `DeletionSticks`, `DeletedIsPurged` | 793 k |

Each `...Inv` (and `TokensExact`, `RegistryTypeOK`) is the module's type invariant
together with the statements that make its safety properties inductive; section 5 says
what they are. TLC checks them on the run, the theorems say that they hold on every
instance.

Why the bounds are enough. Two adders and three workers give the pool a worker that
waits, one that is claimed by the hanging queue and one in the window between them; the
theorems cover every size. Three updates overflow a channel of two while its subscriber
drains it, and two subscribers let one leave while the other is dropped. Two versions
are what a comparison can tell apart. Two finalizers are the one that disposes and the
one that waits; a second crash hits the recovery from the first. Two goroutines of the
monitor are any pair of initializer, probe and finalizer, on pods that changed under
them; one failure is enough for each of the single failures the code handles, and
`MaxEvents = 1` still lets the event's copy of the pod be older than the pod.
`monitor_safety` has the pairs of goroutines, and a restart or a failing call in their
midst; aborts, timeouts and containers that succeed, which start no goroutine, are in
`monitor_liveness`, which has both a failure and a restart. The theorem has all of them.
Two updates are what it takes for one to overtake the other. Two clusters are the one
that was tried and the next; one failure hits any call of the starter, a bridge or a
controller, and a deregistration falls between any two of their steps (without the
exclusion of a lost answer together with a deregistration the invariants were checked
over 1.95 M states). In the registry
four calls are, for instance, a deregistration, a new registration of the same name, a
cordon and a restart, with the rows of two synchronisations still to be saved; two
servers are the one whose deleter goes away and the one that has none, or two deleters.
In the
deletion two stages are any pair of them (soft deletion, content, prebuild, purge) at
work on the same workspace, the second with a list that was read before the first wrote.
A workspace may be deleted from the start, so two disturbances are enough for a content
deletion that fails in part and the restore after it; the invariants were also checked
with three calls and two failures (9.5 M states).

Every property of a passing run has a mutant in `PROJECT.json`: an operator beside
the one it mutates, named `Mut...`, that makes a plausible mistake and breaks the
property.

Fairness. The Go scheduler and the JavaScript event loop run what can run (`WF` on each
goroutine's steps); calls return, with an answer or an error; the handlers of queues
outside `Stuck` return; a timer fires; Kubernetes stops and removes what was deleted
and its informers resync. Nothing that depends on a user, a failure, a crash or a
message arriving is fair, except that a broken connection is retried
(`wsman-subscriber.ts` loops) and that the timers of the controllers, of the reconcile
loop, of the garbage collector and of a periodic deleter that runs go on. No server has
to start a deleter or to keep it: `MarkedRowIsDeleted` and `DeletedIsPurged` say what
follows when one does. The collector asks who leads at every run, and some server is
taken to. A start that was begun
goes on, days pass, and an instance ends in the end, by its timeouts. Which of several
overlapping stages of the collector goes on is left open (one `WF` for all of them). A symmetry
reduction is used in `monitor_safety` only, which checks invariants.

`CHECK_DEADLOCK FALSE` stands in the cfgs of systems that may stop: a workspace that is
gone, an adder without further events, a bound that is used up. `MCLimiter` checks for
deadlock.

## 4. Disagreements with the repository's comments

These were met while modelling. The statement is defined at the end of its module, so
that it can be given to TLC with the module's run and the changes named here:

| Statement | Module | The comment | What the code does | Instance that refutes it |
|---|---|---|---|---|
| `StaleUpdateSkipped` | `WsManagerBridge` | bridge.ts:258 "We've gotten an event which is older than one we've already processed. We shouldn't process the stale one." | the branch (257) logs and counts and does not return; the prebuild updater's check of the same kind does | as `MCBridge`, `IsPrebuild = FALSE` |
| `WaitForInitReturns` | `WorkspaceSession` | workspace.go:107 "WaitForInit waits until this workspace is initialized" | it reads the state under one lock and waits under another (113-128), so it can miss the broadcast in between and sleep until the disposal | 1 finalizer, no failures or crashes |
| `StopWaitsForWorkers` | `EventWorkerPool` | workpool.go:88 "This function waits for the workers to actually stop working." | `wg.Add(1)` runs inside the goroutine (line 97), so `Wait` may not count a worker that has not started yet | as `MCPool` |
| `VersionOrdersStatus` | `StatusSource` | core.proto:289 "If a.status_version < b.status_version then a was the status before b." | `GetWorkspaces` stamps a pod it read earlier (status.go:260); and a new process may find a wall clock behind the one the old process stamped with, as clock.go:86-91 says of the restart after an overflow | as `MCSource` |
| `GoneIsStopped` | `StatusPipeline` | workspace-instance-controller.ts:43 "ensure that there actual state is properly reflected in the database, eventually" | instances in creating, initializing and interrupted are never looked at (161-187) | as `MCPipeline` |
| `RefusedWasNeverReady` | `WorkspaceSession` | service.go:400 "We were asked to do a backup of a session that was never ready." | `IsReady` is false as well while another call disposes of the ready session | as `MCSession` |
| `ReadySurvivesRestart` | `WorkspaceSession` | workspace.go:137 "Otherwise we might have wsman thinking something different than a restarted ws-daemon." | the first `Persist` writes the state initializing; ready is told before the second | as `MCSession` |
| `LostStaysLost` | `WorkspaceSession` | store.go:67, 74 "cannot load session - this workspace is lost" | neither file nor content is touched; after a hook that failed (74) the next restart brings the session back, beside whatever `InitWorkspace` has made since | as `MCSession` |
| `DisposedLeavesNoFile` | `WorkspaceSession` | workspace.go:200 "Dispose marks the workspace as disposed and clears it from disk" | a `Persist` under way (MarkInitDone) writes the file again | as `MCSession` |
| `WorldIsTold` | `WorkspaceMonitor` | status.go:409 "if the final backup has failed we need to tell the world" | the status is published in a goroutine (monitor.go:208) while the handler removes the finalizer; a crash in between loses it, and the pod with it | as `MCMonitorLiveness` |
| `TimedOutIsRemoved` | `WorkspaceMonitor` | monitor.go:512 "removes timed out or dangling workspaces/services" | a pod marked timed out is skipped from then on (1366), so the backup timeout never reaches it; a finalizer that bailed out (1262) is not started again | as `MCMonitorLiveness` |
| `InitializingIsDone` | `WorkspaceMonitor` | annotations.go:89 "alreadyInitializingAnnotation is set when initializing is done" | a second CREATING event finds the first in the map, returns nil at once (877) and marks | as `MCMonitorSafety` |
| `AttemptIsReal` | `WorkspaceMonitor` | annotations.go:86 "is removed when pod is successfully scheduled on the node" | `deleteWorkspacePodForce` (manager.go:744) only removes the finalizer; the second start finds the pod and returns | as `MCMonitorSafety` |
| `ReadyHasContent` | `WorkspaceMonitor` | monitor.go:604 "waits until the workspace's content and Theia to become available" | AlreadyExists (906) counts as initialized, and nobody waits | 3 goroutines, no failures |
| `PreviousDisposalKept` | `WorkspaceMonitor` | monitor.go:1107 "otherwise we risk overwriting previous disposal status" | a finalizer marks "started" after the handler's backup timeout marked "finished" (255) | as `MCMonitorLiveness` |
| `UploadsReturn` | `BackupLimiter` | service.go:504 "we don't want to actually block an upload" | an upload that timed out takes a token it never put in (513) | `RemembersTimeout = FALSE`; it is also the mutant of `Owes` |
| `CordonHolds` | `ClusterRegistry` | cluster-service-server.ts:77 "using a queue to make sure we do concurrency right" | the synchronisation is not in the queue and saves the whole row as read before (cluster-sync-service.ts:62): a cordon in between is undone | as `MCRegistry` |
| `RegisteredIsListed` | `ClusterRegistry` | the answer of `register` | a name whose row still has a deletion mark is saved with the mark, so it is not listed | as `MCRegistry` |
| `DeregisteredStaysGone` | `ClusterRegistry` | the answer of `deregister` | after the row is deleted for good a stale save of the synchronisation inserts it again | as `MCRegistry` |
| `MarkTriggersDeletion` | `ClusterRegistry` | `gitpod-db/src/typeorm/entity/db-workspace-cluster.ts`:95 "This column triggers the db-sync deletion mechanism." | a server asks whether it leads once, when it starts (`server/src/server.ts`:295): after the leader's end nobody need run the deleter | as `MCRegistry` |
| `OnlyMarkedIsDeleted` | `ClusterRegistry` | `server/src/consensus/consensus-leader-quorum.ts`:45 "in normal operation there is exactly one leader" | a server that led when it started keeps its deleter when another leads; the one deletes the row, the name is registered again, the other deletes that by its key | as `MCRegistry` |
| `OnePod` | `WorkspaceStart` | workspace-starter.ts:674 "cannot start workspace on cluster, might retry" | the call may have created the pod before its answer was lost; the next cluster starts another, and the row names only that one | as `MCStart` |
| `FailedStartIsStopped` | `WorkspaceStart` | workspace-starter.ts:319 "Once we've reached actuallyStartWorkspace that function will take care of failing the instance." | errors of `createSpec` and `createMetadata` are only logged; the controllers' timeout ends the instance | as `MCStart` |
| `FailedPrebuildIsUnqueued` | `WorkspaceStart` | workspace-starter.ts:745 "If we just attempted to start a workspace for a prebuild - and that failed, we have to fail the prebuild itself." | the stopped instance is stored first (743, 1232); after a failure or crash between that and the prebuild nobody looks at it again | as `MCStart` |
| `StoppedMeansNoPodAlways` | `WorkspaceStart` | workspace-instance-controller.ts:43, as above | a controller's store of a row listed before replaces the starter's, and the starter, which does not look, goes on to start the pod | as `MCStart` |
| `StoppedStaysStopped` | `WorkspaceStart` | the same | the starter's update of the phase to building, or its store of pending, replaces the controller's stopped | as `MCStart` |
| `DeregisteredIsEmpty` | `WorkspaceStart` | cluster-service-server.ts:277 "cluster is not empty" | prebuilds and stopping instances do not count, nor does one whose row does not name the cluster yet or any more | as `MCStart` |
| `OnlyUnusedIsCollected` | `WorkspaceDeletion` | garbage-collector.ts:58 "Marks old, unused workspaces as softDeleted" | the list is not looked at again: a workspace started or pinned in between is marked | as `MCDeletion` |
| `DeletedIsNotStarted` | `WorkspaceDeletion` | gitpod-server-impl.ts:707 "Workspace not found!" | the row was read before; a start past its checks creates an instance of a deleted workspace | as `MCDeletion` |
| `OneInstance` | `WorkspaceDeletion` | gitpod-server-impl.ts:695 "We already have a running workspace." | two calls may both find none | `Starts = {s1, s2}` |
| `RestoredKeepsContent` | `WorkspaceDeletion` | `server/ee/src/workspace/gitpod-server-impl.ts`:930 "The workspace content was already garbage-collected." | the content is deleted before contentDeletedTime is set, and a deletion that failed in part does not set it: a restore in between, or weeks later, passes its check; the visible workspace has lost content, and after a deletion under way it is purged later, since `findWorkspacesForPurging` looks at contentDeletedTime only | as `MCDeletion` |
| `EveryDeletedIsGone` | `WorkspaceDeletion` | garbage-collector.ts:21 "actually delete softDeleted workspaces if they are older than a configured time" | the probe user's are not listed (workspace-db-impl.ts:625), and the rows of all others stay when no server runs a deleter (`MarkTriggersDeletion`) | as `MCDeletion` |

Also seen, and part of the models as it is: stopping a bridge does not dispose of its
instance controller (bridge.ts:104), so a deregistered cluster's rows are still
controlled until the process restarts; rows in creating, initializing and interrupted
are never looked at by a controller (`InstanceSettles` excuses the first);
client-provider.ts:107 answers from its cache for a cluster that is no longer in the
database; the periodic deleter deletes by key without looking at the mark again, so a
row registered anew in between goes with it.

## 5. Proofs

`tlapm M.tla` in this directory checks the proofs of module `M`.

| Module | Theorem | Says | Under |
|---|---|---|---|
| `StatusSourceProofs` | `ClockInvariant`, `ClockMonotone` | `ClockInv`, `VersionsIncrease` of the clock alone | |
| | `SourceInvariant`, `SourceClock` | `SourceInv`; the clock's statements where it is used | |
| `EventWorkerPoolProofs` | `PoolInvariant`, `PoolMutualExclusion`, `PoolOrder` | `PoolInv`, `OneWorkerPerQueue`, `HandledInOrder` | |
| | `PoolImplementsFIFO` | the pool refines `PerQueueFIFO` | |
| `StatusSubscriptionProofs` | `SubscriptionInvariant`, `NoGap`, `InOrder` | `SubscriptionInv`, `NoSilentGap`, `InPublishOrder` | |
| `WorkspaceMonitorProofs` | `MonitorInvariant`, `NoLossIsSilent` | `MonitorInv`, `NoSilentLoss` | |
| `WsManagerBridgeProofs` | `BridgeInvariant`, `PrebuildKept` | `BridgeInv`, `PrebuildNotReverted` | |
| `WorkspaceStartProofs` | `RegistryInvariant`, `OnlyListedRightly` | `RegistryTypeOK`, `ListedRightly` | |
| | `StartInvariant`, `StoppedHasNoPod` | `StartInv`, `StoppedMeansNoPod` | |
| `WorkspaceSessionProofs` | `SessionInvariant`, `RemovalIsSafe` | `SessionInv`, `BackedUpBeforeRemoval` | |
| | `LimiterInvariant`, `LimiterHolds` | `TokensExact`, `BackupsLimited` | `RemembersTimeout = TRUE` |
| `WorkspaceDeletionProofs` | `DeletionInvariant`, `VisibleContent`, `PurgedLeavesNothing` | `DeletionInv`, `VisibleKeepsContent`, `PurgedCompletely` | |
| | `DeletionStays` | `DeletionSticks` | |

Every safety invariant and every action property of the runs is stated by one of them.
They hold for every value of the constants that satisfies the module's `...Assumption`
(the bounds are natural numbers, the switches booleans, the sets those the module's
comments say), which TLC evaluates in the runs. The one condition in the last column,
`RemembersTimeout = TRUE`, is workspace_operations.go; with `FALSE`, service.go,
`BackupsLimited` and `UploadsReturn` are refuted (section 4).

Some properties name, in their own text, the cases in which the code does not do what
they say otherwise:

- `OneDisposer` and `BackedUpBeforeRemoval` are about finalizers that ask for a backup
  (`Backup`), as the monitor does for every workspace that was ready. A disposal without
  one takes on sessions that are still initializing; `MarkInitDone` then calls such a
  session ready again, and with three finalizers, a crash and a failing deletion TLC
  finds two that dispose at a time. Nor does `BackedUpBeforeRemoval` cover content that
  `InitWorkspace` began to write anew (`redone`) after `NewStore` gave its session up to
  a failing hook: the old file, which says ready, is restored after the next crash.
- `NoSilentLoss` excuses a process that ends after it removed the finalizer and before
  the goroutine that publishes the status has run (`lost`).
- `StartInv` and `StoppedMeansNoPod` excuse lost answers and starters that outlast the
  timeouts, `PrebuildUnqueued` a failure between the two stores (`cutShort`).
- `DeletionInv`, `VisibleKeepsContent` and `PurgedCompletely` excuse workspaces restored
  when the deletion of their content had begun (`restoredAtRisk`).

Each of these is a variable of the model that the code's own steps set, and section 4
has the statement without the excuse, which TLC refutes.

The arguments, that is, what had to be added to make each property inductive:

*Clock and status source.* `VersionsIncrease` alone is not inductive: nothing
would relate an issued version to what the clock will issue next.
`IssuedBelowClock` does: every issued version is at most what the current state
encodes, and a tick that does not panic encodes strictly more (`TickAdvances`).
The step that needs the panic is the one where the logical part is full:
without it the counter would leave its mask and the version would fall.
`VersionOrder` is the arithmetic behind it: pairs compare as their versions do.
For the statuses the same is needed of those the running process has issued:
`BelowHorizon`. Of earlier processes nothing is needed but that their statuses
are of pods no newer than what is still to come, however their versions
compare. That versions follow the pod's history needs `EventsInOrder`: the
queue ascends, nothing in it is older than a status computed before, and the
object a Deleted event repeats is the newest of all.

*Pool.* `OneWorkerPerQueue` needs to know that a queue in work is in `queueSet`, and
that there is a worker for each member (`QueueSetExact`); `HandledInOrder` needs to
know that the journal holds exactly the events not yet handled, ascending per queue
(`JournalExact`). Two lemmas carry it: `WithoutProperties`, what removing one element
from the journal leaves, and `FirstFreeIsOldest`, that the first entry of a free queue
is that queue's next event. One lemma per action follows; the actions that touch neither
journal nor claims share `QuietStep`. `StepSimulation` maps `Claim` to the abstract
`Begin`, `Finish` to `End`, `Add` to `Enqueue` and everything else to a stutter.

*Subscriptions.* What a subscriber has seen is the sequence of what was forwarded and
what waits in its channel; forwarding does not change it, publishing appends to it and a
leaving subscriber loses a suffix. A publisher that has yet to come to a subscriber is
`ahead` of it; the invariant says of each update due whether it was seen, is ahead, or
puts the subscriber among the doomed.

*Monitor.* `NoSilentLoss` spans the whole life of the pod. `CopiesInOrder`: the
marks that matter are never taken back, so what the handler decides on an old
copy is still right for the pod (`Older`). `SettledBeforeRelease`: the
finalizer is taken from the pod only when there is a backup, a failure that was
published, is about to be or was lost with its process, an abort, or a
workspace that was never reported running and never will be (`NeverRuns`, which
is where the annotations neverReady and attemptingToCreate come in).
`FinalizersKnow`: a goroutine that will write a disposal without failure knows
of a backup. The edits of the pod that may happen at any time are collected as
`Tame`; only the few others, the removals of the finalizer and the record of a
finished disposal, need an argument of their own.

*Bridge.* What holds of a row must hold of every copy of it that a writer took before
an await and will store after it (`HeldRecords`).

*Registry and start.* `ListedRightly` needs that every copy a synchronisation holds is
of a row that was listed. `StoppedMeansNoPod` needs `WritersTakeTurns`: before a cluster
has started the pod only the starter writes the row, afterwards the row's region is
that cluster, the starter holds no older copy, and what a bridge is about to store names
that cluster too. The two conditions in the statement
(no lost answer, no starter that outlasts the timeouts) are those of the property.

*Sessions.* `OneDisposer` follows from `OneLiveSession` (a finalizer starts only on a
ready session, and none can become ready while one is being disposed of).
`BackedUpBeforeRemoval` follows from `NothingRemovedYet`: before the first complete
backup, a store without the session has nobody at work on it, and state files that can be
loaded, and the sessions restored from them, call ready only what is on disk. Files that
cannot be loaded only ever take sessions away.

*Limiter.* The tokens in the channel are exactly the uploads that hold one.

*Deletion.* `StagesInOrder`: what each stage of the collector and each start under way
may still rely on of the row it has read. A restore breaks it exactly when the content is
at risk, which is what `restoredAtRisk` records; the types are proved apart from it.

Only model-checked: all liveness (`EveryEventHandled`, `AddReturns`,
`MissedUpdateEndsSubscription`, `LastPodIsPublished`, `GoneIsNoticed`,
`MarkedIsDisposed`, `WaiterIsReleased`, `DeletedIsRemoved`, `UploadsReturn`,
`BridgesFollowRegistry`, `MarkedRowIsDeleted`, `InstanceSettles`, `PrebuildUnqueued`,
`DeletedIsPurged`), since TLAPS proves nothing under fairness or about ENABLED.

## 6. What is left out

In modelled parts: prebuilds and other headless workspaces, PVCs and volume
snapshots, the INTERRUPTED phase, lost nodes and the handling of Deleted events
in `WorkspaceMonitor` (where the pod's removal ends the model); a failing
removal of the start annotation; `TakeSnapshot` and the content garbage
collector in `WorkspaceSession`; the non-governing bridge, message-bus
notifications and analytics in `WsManagerBridge`. A handler's own calls in
`actOnPodEvent` are one step or a prefix of it that failed. `WaitForInit` is
taken to return in `WorkspaceMonitor` although it need not (section 4,
`WaitForInitReturns`): the monitor calls it with a deadline. In
`ClusterRegistry`: clusters from the configuration, clusters another
installation governs, admission constraints and preference, scores other than
zero. In `WorkspaceStart`: the contents of the start request, the phases the
controllers treat like the ones modelled (unknown), several instances at a
time, and of the registry's calls all but deregistration. In
`WorkspaceDeletion`: the deletion of users, the chunk limits of the collector's
lists, what an instance's row says, and who leads: any number of servers may
collect at once, and any number, or none, run a deleter, so nothing is assumed
of the leader election but that some server collects. Wording, metrics, tracing
and logging are abstracted everywhere.

## 7. Plan

Done: clock, pool with its abstract specification, subscriptions, status source on the
clock, bridge, pipeline, sessions, monitor, limiter, cluster registry, workspace start
with the bridges and controllers, deletion and garbage collection; proofs of every
safety property the runs check.

Next, in this order:

1. Refinements, each proved step by step: `StatusPipeline` implements `WsManagerBridge`
   with the statuses ws-manager sends, so that `BridgeInv` carries over; `WorkspaceStart`
   implements the part of `ClusterRegistry` it uses; the session implements an abstract
   life of a workspace's content (present, backed up, removed), and so does the monitor.
2. `WorkspaceMonitor`: prebuilds (snapshot before disposal, errors that later steps
   overwrite, monitor.go:1206) and lost nodes; then the PVC branch of
   `finalizeWorkspaceContent`.
3. The composition of monitor and session: the daemon of `WorkspaceMonitor` replaced by
   `WorkspaceSession`, with a restart of either side during a disposal.
4. The server's leader election (`consensus/consensus-leader-quorum.ts`), which keeps
   its role when it enters a new term and never resets the votes it counted, and
   ws-daemon's `dispatch.go`.
