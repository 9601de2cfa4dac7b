--------------------------- MODULE WorkspaceStart ---------------------------
(***************************************************************************)
(* The start of one workspace instance: the server's WorkspaceStarter      *)
(* (components/server/src/workspace/workspace-starter.ts) creates its row, *)
(* has its image built, and tries the clusters of ClusterRegistry one      *)
(* after the other until one of their ws-managers has started the pod.     *)
(* Beside it the bridge of each cluster stores what its ws-manager reports *)
(* of the pod, and the instance controllers                                *)
(* (components/ws-manager-bridge/src/workspace-instance-controller.ts,     *)
(* app-cluster-instance-controller.ts) mark the row stopped when they find *)
(* nobody in charge of it.                                                 *)
(*                                                                         *)
(* All of them read the row and later write the whole row back: one step   *)
(* is what runs between two awaits.  Of the row the model keeps the phase  *)
(* and the region, the cluster everybody looks for the pod in, which is    *)
(* the application cluster's name until a cluster is chosen.  WsManager-   *)
(* Bridge has the details of what the bridge computes from a status.       *)
(***************************************************************************)
EXTENDS ClusterRegistry

CONSTANTS
    App,            \* installationShortname
    MaxFailures     \* bound: calls that fail, answers that are lost, crashes

ASSUME StartAssumption == App \notin Clusters /\ MaxFailures \in Nat

VARIABLES
    row,        \* the instance's row
    prebuild,   \* its prebuild: "queued" or not; "none" for a regular workspace
    starter,    \* WorkspaceStarter: where it is, its copy of the row
    pods,       \* the instance's pod in each cluster
    updates,    \* clusters with a status the bridge has not looked at
    held,       \* the row the bridge of each cluster is about to store
    control,    \* the row each instance controller is about to store
    old,        \* whether the timeouts since creationTime have passed
    failures,   \* failures so far
    answerLost, \* history: a pod was started, but its starter told otherwise
    late,       \* history: the starter has worked past the timeouts
    cutShort    \* history: a failure between the stopped row and the prebuild

startVars == <<row, prebuild, starter, pods, updates, held, control, old, failures,
               answerLost, late, cutShort>>

vars == <<startVars, registryVars>>

-----------------------------------------------------------------------------
Regions == Clusters \cup {App}
Phases == {"preparing", "building", "pending", "creating", "running", "stopping", "stopped"}
Rows == [phase : Phases, region : Regions]

NoRecord == [phase |-> "none", region |-> App]

Live(c) == pods[c] \in {"starting", "running", "stopping"}

(* newInstance *)
NewInstance == [phase |-> "preparing", region |-> App]

Begin == [at |-> "begin", copy |-> NoRecord, todo |-> {}, retries |-> 0, rebuilt |-> FALSE]

(* The prebuild is failed, aborted, or, with a pod, what the bridge says. *)
Unqueued == IF prebuild = "none" THEN "none" ELSE "unqueued"

MayFail ==
    /\ failures < MaxFailures
    /\ failures' = failures + 1

Init ==
    /\ RegistryInit
    /\ row = NoRecord
    /\ prebuild \in {"none", "queued"}
    /\ starter = Begin
    /\ pods = [c \in Clusters |-> "none"]
    /\ updates = {}
    /\ held = [c \in Clusters |-> NoRecord]
    /\ control = [r \in Regions |-> NoRecord]
    /\ old = FALSE
    /\ failures = 0
    /\ answerLost = FALSE
    /\ late = FALSE
    /\ cutShort = FALSE

(* creationTime + the timeout of the phase passes. *)
TimePasses ==
    /\ row # NoRecord /\ ~old
    /\ old' = TRUE
    /\ UNCHANGED <<row, prebuild, starter, pods, updates, held, control, failures,
                   answerLost, late, cutShort, registryVars>>

-----------------------------------------------------------------------------
(* The starter. *)

MAX_INSTANCE_START_RETRIES == 2

At(label) == starter.at = label
Goto(label) == starter' = [starter EXCEPT !.at = label]

Done == starter' = [Begin EXCEPT !.at = "done"]
Fail == starter' = [Begin EXCEPT !.at = "fail", !.copy = starter.copy]

(* What a step of the starter leaves alone. *)
StarterOnly ==
    /\ late' = (late \/ old)
    /\ UNCHANGED <<updates, held, control, old, cutShort, registryVars>>

(* startWorkspace, up to storeInstance *)
StoreNewInstance ==
    /\ At("begin")
    /\ row' = NewInstance
    /\ starter' = [starter EXCEPT !.at = "needsImageBuild", !.copy = row']
    /\ StarterOnly /\ UNCHANGED <<prebuild, pods, failures, answerLost>>

(* needsImageBuild; a failure fails the instance. *)
NeedsImageBuild ==
    /\ At("needsImageBuild")
    /\ \/ Goto("build") /\ UNCHANGED failures
       \/ MayFail /\ Fail
    /\ StarterOnly /\ UNCHANGED <<row, prebuild, pods, answerLost>>

(* buildWorkspaceImage: the build is started and the status, not the whole *)
(* row, is updated, whatever it is by now. *)
StartBuild ==
    /\ At("build")
    /\ \E phase \in {"building", starter.copy.phase} : row' = [row EXCEPT !.phase = phase]
    /\ starter' = [starter EXCEPT !.at = "building", !.copy = row']
    /\ StarterOnly /\ UNCHANGED <<prebuild, pods, failures, answerLost>>

(* The build ends; if its base image has gone missing it is rebuilt, once. *)
BuildDone ==
    /\ At("building")
    /\ \/ /\ starter' = [starter EXCEPT !.at = "createSpec", !.rebuilt = FALSE]
          /\ UNCHANGED failures
       \/ /\ MayFail
          /\ ~starter.rebuilt
          /\ starter' = [starter EXCEPT !.at = "build", !.rebuilt = TRUE]
    /\ StarterOnly /\ UNCHANGED <<row, prebuild, pods, answerLost>>

\* Mutant of BuildFails: the prebuild is left alone.
MutBuildFailsInstanceOnly ==
    /\ At("build") \/ At("building")
    /\ MayFail
    /\ row' = [row EXCEPT !.phase = "stopped"]
    /\ Done
    /\ StarterOnly /\ UNCHANGED <<prebuild, pods, answerLost>>

(* The build fails: its row is updated first, then the prebuild. *)
BuildFails ==
    /\ At("build") \/ At("building")
    /\ MayFail
    /\ row' = [row EXCEPT !.phase = "stopped"]
    /\ Goto("failPrebuild")
    /\ StarterOnly /\ UNCHANGED <<prebuild, pods, answerLost>>

(* createSpec and createMetadata; their errors are only logged. *)
CreateSpec ==
    /\ At("createSpec")
    /\ \/ Goto("getClusters") /\ UNCHANGED failures
       \/ MayFail /\ Done
    /\ StarterOnly /\ UNCHANGED <<row, prebuild, pods, answerLost>>

(* tryStartOnCluster: getStartClusterSets *)
GetStartClusterSets ==
    /\ At("getClusters")
    /\ starter' = [starter EXCEPT !.at = "next", !.todo = Startable]
    /\ StarterOnly /\ UNCHANGED <<row, prebuild, pods, failures, answerLost>>

(* ClusterSet.next has no cluster left: try again, or give up. *)
NoClusterLeft ==
    /\ At("next") /\ starter.todo = {}
    /\ IF starter.retries + 1 < MAX_INSTANCE_START_RETRIES
       THEN starter' = [starter EXCEPT !.at = "getClusters", !.retries = @ + 1]
       ELSE Fail
    /\ StarterOnly /\ UNCHANGED <<row, prebuild, pods, failures, answerLost>>

(* ClusterSet.next, by chooseCluster.  A cluster deregistered since it was *)
(* listed is an error, unless its connection is cached. *)
NextCluster(c) ==
    /\ At("next") /\ c \in starter.todo
    /\ \/ starter' = [starter EXCEPT !.at = "storePending", !.todo = @ \ {c},
                                     !.copy = [phase |-> "pending", region |-> c]]
       \/ c \notin Listed /\ Fail
    /\ StarterOnly /\ UNCHANGED <<row, prebuild, pods, failures, answerLost>>

\* Mutant of StorePending: only the status is stored.
MutStorePhaseOnly ==
    /\ At("storePending")
    /\ row' = [row EXCEPT !.phase = "pending"]
    /\ Goto("startWorkspace")
    /\ StarterOnly /\ UNCHANGED <<prebuild, pods, failures, answerLost>>

(* The row names the cluster before the cluster is asked.  A failing store *)
(* has an error code: the next cluster is tried. *)
StorePending ==
    /\ At("storePending")
    /\ \/ row' = starter.copy /\ Goto("startWorkspace") /\ UNCHANGED failures
       \/ MayFail /\ Goto("next") /\ UNCHANGED row
    /\ StarterOnly /\ UNCHANGED <<prebuild, pods, answerLost>>

(* manager.startWorkspace is answered: the pod was created; or it exists   *)
(* already, which is an error like any other. *)
StartOnCluster ==
    /\ At("startWorkspace")
    /\ LET c == starter.copy.region
       IN  \/ /\ pods[c] = "none"
              /\ pods' = [pods EXCEPT ![c] = "starting"]
              /\ updates' = updates \cup (bridges \cap {c})
              /\ Done
           \/ pods[c] # "none" /\ Goto("next") /\ UNCHANGED <<pods, updates>>
    /\ late' = (late \/ old)
    /\ UNCHANGED <<row, prebuild, held, control, old, failures, answerLost, cutShort,
                   registryVars>>

(* manager.startWorkspace fails; the pod may have been created before its  *)
(* answer was lost.  RESOURCE_EXHAUSTED ends the loop. *)
StartFails ==
    /\ At("startWorkspace")
    /\ MayFail
    /\ LET c == starter.copy.region
       IN  \/ (Goto("next") \/ Fail) /\ UNCHANGED <<pods, updates, answerLost>>
           \/ /\ pods[c] = "none"
              /\ pods' = [pods EXCEPT ![c] = "starting"]
              /\ updates' = updates \cup (bridges \cap {c})
              /\ answerLost' = TRUE
              /\ Goto("next")
    /\ late' = (late \/ old)
    /\ UNCHANGED <<row, prebuild, held, control, old, cutShort, registryVars>>

(* failInstanceStart: store the whole row, which may fail, then fail the   *)
(* prebuild. *)
FailInstanceStart ==
    /\ At("fail")
    /\ \/ /\ row' = [starter.copy EXCEPT !.phase = "stopped"]
          /\ Goto("failPrebuild")
          /\ UNCHANGED failures
       \/ MayFail /\ Done /\ UNCHANGED row
    /\ StarterOnly /\ UNCHANGED <<prebuild, pods, answerLost>>

(* failPrebuildWorkspace, after the row was stopped; it may fail. *)
FailPrebuildWorkspace ==
    /\ At("failPrebuild")
    /\ \/ prebuild' = Unqueued /\ UNCHANGED <<failures, cutShort>>
       \/ MayFail /\ cutShort' = TRUE /\ UNCHANGED prebuild
    /\ Done
    /\ UNCHANGED <<row, pods, updates, held, control, old, answerLost, late, registryVars>>

(* The server crashes: nobody continues the start. *)
ServerCrashes ==
    /\ starter.at \notin {"begin", "done"}
    /\ MayFail
    /\ Done
    /\ cutShort' = (cutShort \/ At("failPrebuild"))
    /\ UNCHANGED <<row, prebuild, pods, updates, held, control, old, answerLost, late,
                   registryVars>>

StarterStep ==
    \/ NeedsImageBuild \/ StartBuild \/ BuildDone \/ CreateSpec
    \/ GetStartClusterSets \/ NoClusterLeft \/ (\E c \in Clusters : NextCluster(c))
    \/ StorePending \/ StartOnCluster \/ FailInstanceStart \/ FailPrebuildWorkspace

-----------------------------------------------------------------------------
(* The pods and the bridges. *)

Report(c, state) ==
    /\ pods' = [pods EXCEPT ![c] = state]
    /\ updates' = updates \cup (bridges \cap {c})
    /\ UNCHANGED <<row, prebuild, starter, held, control, old, failures, answerLost, late,
                   cutShort, registryVars>>

(* The pod gets ready, ends by itself or by a timeout, and is gone. *)
PodMoves(c) ==
    \/ pods[c] = "starting" /\ Report(c, "running")
    \/ pods[c] \in {"starting", "running"} /\ Report(c, "stopping")
    \/ pods[c] = "stopping" /\ Report(c, "gone")

(* internalStopWorkspace: only the ws-manager of the row's region is asked; *)
(* until a cluster is chosen that is an error.                              *)
StopWorkspace ==
    /\ row.phase \notin {"none", "stopped"}
    /\ row.region \in Clusters
    /\ pods[row.region] \in {"starting", "running"}
    /\ Report(row.region, "stopping")

PodPhase == [starting |-> "creating", running |-> "running",
             stopping |-> "stopping", gone |-> "stopped"]

(* handleStatusUpdate, up to the store: read the row, set what follows     *)
(* from the status, and update the prebuild, of which only that it leaves  *)
(* its queue matters here.  (WsManagerBridge has each read and write.) *)
HandleStatus(c) ==
    /\ c \in updates /\ c \in bridges /\ held[c] = NoRecord
    /\ updates' = updates \ {c}
    /\ held' = [held EXCEPT ![c] =
                  [row EXCEPT !.phase = IF pods[c] = "stopping" /\ @ = "stopped" THEN @
                                        ELSE PodPhase[pods[c]]]]
    /\ prebuild' = IF pods[c] = "gone" THEN prebuild ELSE Unqueued
    /\ UNCHANGED <<row, starter, pods, control, old, failures, answerLost, late, cutShort,
                   registryVars>>

(* storeInstance: the whole row as it was read, by a bridge that may have  *)
(* been stopped in the meantime. *)
StoreStatus(c) ==
    /\ held[c] # NoRecord
    /\ row' = held[c]
    /\ held' = [held EXCEPT ![c] = NoRecord]
    /\ UNCHANGED <<prebuild, starter, pods, updates, control, old, failures, answerLost, late,
                   cutShort, registryVars>>

(* A database call throws: the update is given up. *)
HandlerFails(c) ==
    /\ MayFail
    /\ \/ /\ c \in updates /\ c \in bridges /\ held[c] = NoRecord
          /\ updates' = updates \ {c}
          /\ UNCHANGED held
       \/ /\ held[c] # NoRecord
          /\ held' = [held EXCEPT ![c] = NoRecord]
          /\ UNCHANGED updates
    /\ UNCHANGED <<row, prebuild, starter, pods, control, old, answerLost, late, cutShort,
                   registryVars>>

(* A new bridge starts from what its ws-manager lists; a stopped one hears *)
(* nothing more. *)
BridgesReconcile ==
    /\ RegistryReconcile
    /\ updates' = (updates \cap Listed) \cup {c \in Listed \ bridges : Live(c)}
    /\ UNCHANGED <<row, prebuild, starter, pods, held, control, old, failures, answerLost, late,
                   cutShort>>

BridgeRestarts ==
    /\ bridges # {}
    /\ MayFail
    /\ RegistryRestart /\ UNCHANGED calls
    /\ updates' = {}
    /\ held' = [c \in Clusters |-> NoRecord]
    /\ control' = [r \in Regions |-> NoRecord]
    /\ UNCHANGED <<row, prebuild, starter, pods, old, answerLost, late, cutShort>>

-----------------------------------------------------------------------------
(* The instance controllers: one for each cluster, one for App. *)

Controllers == controlled \cup {App}

\* Mutant of TimedOut: an instance that waits for its image is never given up.
MutTimedOutPreparingOnly(rec) == old /\ rec.phase = "preparing"

(* controlNotStoppedAppClusterManagedInstance *)
TimedOut(rec) == old /\ rec.phase \in {"preparing", "building"}

\* Mutant of UnknownToManager: pending rows have no timeout of their own.
MutUnknownAtOnce(rec, c) ==
    ~Live(c) /\ rec.phase \in {"running", "pending", "stopping"}

(* controlNonStoppedWSManagerManagedInstances, when getWorkspaces answers *)
UnknownToManager(rec, c) ==
    /\ ~Live(c)
    /\ rec.phase = "running" \/ (old /\ rec.phase \in {"pending", "stopping"})

(* The controller lists the rows of its region and finds this one to be    *)
(* marked stopped. *)
ControlInstance(r) ==
    /\ r \in Controllers /\ control[r] = NoRecord
    /\ row.region = r
    /\ TimedOut(row) \/ (r # App /\ UnknownToManager(row, r))
    /\ control' = [control EXCEPT ![r] = row]
    /\ UNCHANGED <<row, prebuild, starter, pods, updates, held, old, failures, answerLost, late,
                   cutShort, registryVars>>

(* markWorkspaceInstanceAsStopped: store the row, then onStopped and       *)
(* stopPrebuildInstance. *)
MarkStopped(r) ==
    /\ control[r] # NoRecord
    /\ row' = [control[r] EXCEPT !.phase = "stopped"]
    /\ prebuild' = Unqueued
    /\ control' = [control EXCEPT ![r] = NoRecord]
    /\ UNCHANGED <<starter, pods, updates, held, old, failures, answerLost, late, cutShort,
                   registryVars>>

(* The store fails, or what follows it. *)
ControlFails(r) ==
    /\ control[r] # NoRecord
    /\ MayFail
    /\ \/ row' = [control[r] EXCEPT !.phase = "stopped"] /\ cutShort' = TRUE
       \/ UNCHANGED <<row, cutShort>>
    /\ control' = [control EXCEPT ![r] = NoRecord]
    /\ UNCHANGED <<prebuild, starter, pods, updates, held, old, answerLost, late, registryVars>>

-----------------------------------------------------------------------------
(* findRegularRunningInstances: neither stopping ones nor prebuilds count. *)
Busy(c) ==
    prebuild = "none" /\ row.region = c /\ row.phase \notin {"none", "stopping", "stopped"}

(* Of the registry's calls, those that take a cluster away. *)
RegistryStep ==
    \/ \E c \in Clusters, force \in BOOLEAN : Deregister(c, Busy(c), force)
    \/ ServiceSave

Next ==
    \/ StoreNewInstance \/ StarterStep \/ BuildFails \/ StartFails \/ ServerCrashes
    \/ TimePasses \/ StopWorkspace
    \/ \E c \in Clusters :
          PodMoves(c) \/ HandleStatus(c) \/ StoreStatus(c) \/ HandlerFails(c)
    \/ \E r \in Regions :
          ControlInstance(r) \/ MarkStopped(r) \/ ControlFails(r)
    \/ BridgesReconcile \/ BridgeRestarts
    \/ RegistryStep /\ UNCHANGED startVars

Spec == Init /\ [][Next]_vars

(* Time passes; promises are continued, the controllers and the reconcile  *)
(* loop run periodically.  Nobody has to start, stop, call or fail. *)
Fairness ==
    /\ WF_vars(TimePasses) /\ WF_vars(StarterStep) /\ WF_vars(BridgesReconcile)
    /\ WF_vars(ServiceSave /\ UNCHANGED startVars)
    /\ \A c \in Clusters : WF_vars(HandleStatus(c)) /\ WF_vars(StoreStatus(c))
    /\ \A r \in Regions :
          WF_vars(ControlInstance(r)) /\ WF_vars(MarkStopped(r))

FairSpec == Spec /\ Fairness

-----------------------------------------------------------------------------
TypeOK ==
    /\ RegistryTypeOK
    /\ row \in Rows \cup {NoRecord}
    /\ prebuild \in {"none", "queued", "unqueued"}
    /\ starter \in [at : {"begin", "needsImageBuild", "build", "building", "createSpec",
                          "getClusters", "next", "storePending", "startWorkspace", "fail", "failPrebuild", "done"},
                    copy : Rows \cup {NoRecord}, todo : SUBSET Clusters,
                    retries : 0..(MAX_INSTANCE_START_RETRIES - 1), rebuilt : BOOLEAN]
    /\ starter.at \notin {"begin", "done"} => starter.copy \in Rows
    /\ starter.at \in {"storePending", "startWorkspace"} =>
          starter.copy.phase = "pending" /\ starter.copy.region \in Clusters
    /\ pods \in [Clusters -> {"none", "starting", "running", "stopping", "gone"}]
    /\ updates \subseteq {c \in Clusters : pods[c] # "none"}
    /\ held \in [Clusters -> Rows \cup {NoRecord}]
    /\ \A c \in Clusters : held[c] # NoRecord => pods[c] # "none"
    /\ control \in [Regions -> Rows \cup {NoRecord}]
    /\ \A r \in Regions : control[r].phase # "none" => control[r].region = r
    /\ failures \in 0..MaxFailures

(* Whoever wants to stop or control the instance goes by the row's region: *)
(* it names the cluster the pod is in, whatever the starter tried before,  *)
(* crashes, and the whole-row writes of bridges and controllers; unless    *)
(* ws-manager's answer was lost, or the starter took longer than the       *)
(* instance's timeouts.                                                    *)
RegionNamesPod ==
    ~answerLost /\ ~late => \A c \in Clusters : Live(c) => row.region = c

(* An instance is not stopped in the database while its pod is alive, under *)
(* the same conditions: then failInstanceStart fails only what no cluster   *)
(* has started, and the controllers stop only what is gone.                 *)
StoppedMeansNoPod ==
    ~answerLost /\ ~late /\ row.phase = "stopped" => \A c \in Clusters : ~Live(c)

(* Who may write the row when, under the same conditions: until the starter *)
(* is done there is no pod and, before the timeouts, no controller at work, *)
(* so that the cluster is asked with the row as the starter stored it.  A   *)
(* pod's row names its cluster for good, its phase is past those that time  *)
(* out, and so it is in the copy its bridge is about to store; a controller *)
(* at work is its own cluster's and found it gone.                          *)
WritersTakeTurns ==
    ~answerLost /\ ~late =>
        /\ starter.at # "done" =>
              /\ row.phase # "running" /\ starter.copy.phase # "running"
              /\ \A c \in Clusters : pods[c] = "none"
              /\ ~old => \A r \in Regions : control[r] = NoRecord
              /\ starter.at = "startWorkspace" /\ ~old => row = starter.copy
        /\ \A c \in Clusters : pods[c] # "none" =>
              /\ row.region = c
              /\ row.phase \notin {"none", "preparing", "building"}
              /\ held[c] # NoRecord =>
                    /\ held[c].region = c
                    /\ held[c].phase \notin {"none", "preparing", "building"}
                    /\ held[c].phase = "stopped" => ~Live(c)
              /\ \A r \in Regions : control[r] # NoRecord => r = c /\ ~Live(c)

(* The state is well formed, the starter keeps to its number of tries, the *)
(* region names the pod's cluster, and the writers of the row do not get   *)
(* in each other's way.  The conjunction is inductive.                     *)
StartInv == TypeOK /\ RegionNamesPod /\ StoppedMeansNoPod /\ WritersTakeTurns

(* Wherever the start fails or its server crashes, the instance is stopped *)
(* in the database or has a live pod in the end, as long as its region     *)
(* still has a bridge and the starter does not outlast the timeouts.  A    *)
(* pod that disappears while its bridge is down leaves the row in          *)
(* "creating", which no controller looks at.                               *)
InstanceSettles ==
    <>[](\/ row.phase \in {"none", "stopped"} \/ (\E c \in Clusters : Live(c))
         \/ row.region \in Clusters \ bridges
         \/ late
         \/ row.phase = "creating" /\ failures > 0)

(* The prebuild of an instance that was stopped before any cluster started *)
(* it is not left in its queue, however the build or the start failed or   *)
(* crashed; unless the failure, or a further one, came just between the    *)
(* store of the stopped row and that of the prebuild: nothing looks at the *)
(* prebuild of a stopped instance again.                                   *)
PrebuildUnqueued ==
    <>[](row.phase = "stopped" /\ (\A c \in Clusters : pods[c] = "none") /\ ~cutShort
            => prebuild # "queued")

-----------------------------------------------------------------------------
(* Statements of the repository's comments that the code does not keep:    *)
(* TLC refutes them, and README.md says how and where.                     *)

(* workspace-starter.ts: a cluster is tried only when the one before did   *)
(* not start the workspace.                                                *)
OnePod == Cardinality({c \in Clusters : Live(c)}) <= 1

(* workspace-starter.ts: "Once we've reached actuallyStartWorkspace that   *)
(* function will take care of failing the instance".                       *)
FailedStartIsStopped ==
    [][CreateSpec /\ starter'.at = "done" => row'.phase = "stopped"]_vars

(* StoppedMeansNoPod also for a start that outlasts the instance's         *)
(* timeouts, which workspace-instance-controller.ts takes for abandoned.   *)
StoppedMeansNoPodAlways ==
    ~answerLost /\ row.phase = "stopped" => \A c \in Clusters : ~Live(c)

(* cluster-service-server.ts: what is deregistered without force was not   *)
(* found "not empty".                                                      *)
DeregisteredIsEmpty ==
    [][\A c \in Clusters : Deregister(c, Busy(c), FALSE) => ~Live(c)]_vars

(* workspace-starter.ts: "If we just attempted to start a workspace for a  *)
(* prebuild - and that failed, we have to fail the prebuild itself":       *)
(* PrebuildUnqueued also after a failure between the two stores.           *)
FailedPrebuildIsUnqueued ==
    <>[](row.phase = "stopped" /\ (\A c \in Clusters : pods[c] = "none")
            => prebuild # "queued")

(* An instance that is stopped stays stopped.                              *)
StoppedStaysStopped ==
    [][row.phase = "stopped" /\ (\A c \in Clusters : ~Live(c)) => row'.phase = "stopped"]_vars
=============================================================================
