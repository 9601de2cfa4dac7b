-------------------------- MODULE WorkspaceMonitor -------------------------
(***************************************************************************)
(* ws-manager's monitor and the pod of one regular workspace               *)
(* (components/ws-manager/pkg/manager: monitor.go, status.go,              *)
(* annotations.go, StartWorkspace and StopWorkspace in manager.go).        *)
(*                                                                         *)
(* All lasting state is on the pod: its annotations (marks), its finalizer *)
(* and the disposal status.  The event handler acts on a copy of the pod,  *)
(* taken when the pod was reconciled and possibly outdated, and starts     *)
(* goroutines that initialize, probe and finalize the workspace; their     *)
(* marks change the pod as it is by then.  One step is one call of         *)
(* Kubernetes or of ws-daemon, or one access to a sync.Map; a handler's    *)
(* own calls are one step.  Of ws-daemon the module keeps the state of the *)
(* session, see WorkspaceSession.                                          *)
(*                                                                         *)
(* Left out: prebuilds and other headless workspaces, persistent volume    *)
(* claims, interrupted workspaces, lost nodes.                             *)
(***************************************************************************)
EXTENDS Integers, Sequences

CONSTANTS
    Goroutines,     \* the goroutines of the monitor that may run at a time
    MaxEvents,      \* bound: events of the pod in the pool
    MaxFailures,    \* bound: calls that fail
    MaxRestarts,    \* bound: restarts of ws-manager
    Outcomes,       \* what may become of a container other than that it runs
    MayTimeOut,     \* whether a workspace may time out before it is stopped
    MayAbort        \* whether a stop request may ask to abort

ASSUME MonitorAssumption ==
    /\ {MaxEvents, MaxFailures, MaxRestarts} \subseteq Nat
    /\ Outcomes \subseteq {"pullFailed", "failed", "succeeded"}
    /\ {MayTimeOut, MayAbort} \subseteq BOOLEAN

VARIABLES
    pod,            \* the pod as Kubernetes has it
    dirty,          \* whether a reconcile request for it is queued
    events,         \* the pod's events in the pool: copies of the pod
    starting,       \* whether StartWorkspace is waiting for the pod
    initializerMap, \* whether the pod is in m.initializerMap...
    probeMap,       \* ...in m.probeMap...
    finalizerMap,   \* ...in m.finalizerMap
    routine,        \* what each goroutine is doing
    session,        \* the state of ws-daemon's session, or "none"
    content,        \* history: whether ws-daemon ever completed an initialization
    backup,         \* history: whether ws-daemon ever completed a backup
    reporting,      \* whether OnChange is still to publish that a backup failed
    wasRunning,     \* history: whether a status RUNNING was ever computed
    reported,       \* history: whether a failed backup was ever published
    lost,           \* history: whether such a report was lost, with the finalizer gone
    failures, restarts

kube == <<pod, dirty>>
maps == <<initializerMap, probeMap, finalizerMap>>
daemon == <<session, content, backup>>
published == <<reporting, wasRunning, reported, lost>>
limits == <<failures, restarts>>
vars == <<kube, events, starting, maps, routine, daemon, published, limits>>

-----------------------------------------------------------------------------
Marks == {"attemptingToCreate", "neverReady", "alreadyInitializing", "explicitFail",
          "failedBeforeStopping", "timedOut", "timedOutBackup", "stoppedByRequest", "abort"}

Disposals == {"", "started", "retrying", "finished"}

Pods == [exists : BOOLEAN, node : BOOLEAN,
         container : {"none", "waiting", "pullFailed", "running", "failed", "succeeded",
                      "stopped"},
         deleted : BOOLEAN, finalizer : BOOLEAN, marks : SUBSET Marks,
         disposal : Disposals, backupFailure : BOOLEAN]

NewPod == [exists |-> TRUE, node |-> FALSE, container |-> "none", deleted |-> FALSE, finalizer |-> TRUE,
           marks |-> {"attemptingToCreate", "neverReady"},
           disposal |-> "", backupFailure |-> FALSE]

Idle == [kind |-> "none", at |-> "idle", doBackup |-> FALSE, node |-> FALSE, failed |-> FALSE,
         retrying |-> FALSE, started |-> FALSE]

(* extractFailure *)
Failed(p) == "explicitFail" \in p.marks \/ p.container \in {"failed", "pullFailed"}

Timeout(p) == {"timedOut", "timedOutBackup"} \cap p.marks # {}

IsDisposed(p) == p.disposal = "finished"

(* extractStatusFromPod: the phase of a pod.  A container that failed, or  *)
(* whose image cannot be pulled, decides it before anything else does. *)
Phase(p) ==
    IF p.container \in {"failed", "pullFailed"} /\ ~p.deleted /\ "explicitFail" \notin p.marks
    THEN IF p.container = "failed" THEN "RUNNING" ELSE "CREATING"
    ELSE IF "attemptingToCreate" \in p.marks THEN "PENDING"
    ELSE IF p.deleted THEN IF IsDisposed(p) \/ ~p.finalizer THEN "STOPPED" ELSE "STOPPING"
    ELSE CASE p.container \in {"none", "pullFailed"} -> "PENDING"
           [] p.container = "waiting" -> "CREATING"
           [] p.container = "running" ->
                IF "alreadyInitializing" \notin p.marks THEN "CREATING"
                ELSE IF "neverReady" \in p.marks THEN "INITIALIZING" ELSE "RUNNING"
           [] p.container = "succeeded" -> "STOPPING"
           [] OTHER -> "UNKNOWN"

-----------------------------------------------------------------------------
Init ==
    /\ pod = NewPod
    /\ dirty = TRUE
    /\ events = <<>>
    /\ starting = TRUE
    /\ initializerMap = FALSE /\ probeMap = FALSE /\ finalizerMap = FALSE
    /\ routine = [g \in Goroutines |-> Idle]
    /\ session = "none" /\ content = FALSE /\ backup = FALSE
    /\ reporting = FALSE /\ wasRunning = FALSE /\ reported = FALSE /\ lost = FALSE
    /\ failures = 0 /\ restarts = 0

(* Clientset.Update of the pod as it is; a pod that is gone is not an      *)
(* error. Changes make Kubernetes queue the pod for reconciliation. *)
Update(new) ==
    /\ pod' = IF pod.exists THEN new ELSE pod
    /\ dirty' = (dirty \/ pod' # pod)

(* markWorkspace, markDisposalStatus, stopWorkspace and modifyFinalizer *)
Mark(p, names) == [p EXCEPT !.marks = @ \cup names]
Unmark(p, name) == [p EXCEPT !.marks = @ \ {name}]

(* The annotation's value is replaced as a whole. *)
MarkDisposal(p, status, failed) == [p EXCEPT !.disposal = status, !.backupFailure = failed]
Stop(p) == [p EXCEPT !.deleted = TRUE]
WithFinalizer(p, add) == [p EXCEPT !.finalizer = IF add THEN @ \/ ~p.deleted ELSE FALSE]

(* An explicitly failed workspace is marked failedBeforeStopping as well. *)
MarkFailed(p) == Mark(p, {"explicitFail", "failedBeforeStopping"})

MayFail ==
    /\ failures < MaxFailures
    /\ failures' = failures + 1
    /\ UNCHANGED restarts

-----------------------------------------------------------------------------
(* Kubernetes and the clients of ws-manager *)

(* The pod is scheduled, its container is created, possibly after attempts *)
(* to pull the image, and runs; it may fail or succeed; when the pod is    *)
(* deleted it stops. *)
ContainerChanges ==
    /\ pod.exists
    /\ \E c \in CASE pod.deleted -> {"stopped"}
                  [] pod.container = "none" -> {"waiting"}
                  [] pod.container = "waiting" -> {"running"} \cup (Outcomes \ {"failed", "succeeded"})
                  [] pod.container = "pullFailed" -> {"running"}
                  [] pod.container = "running" -> Outcomes \ {"pullFailed"}
                  [] OTHER -> {} :
          /\ pod.container # c
          /\ Update([pod EXCEPT !.container = c, !.node = @ \/ c = "waiting"])
    /\ UNCHANGED <<events, starting, maps, routine, daemon, published, limits>>

(* A deleted pod without finalizer goes away. *)
PodRemoved ==
    /\ pod.exists /\ pod.deleted /\ ~pod.finalizer /\ pod.container = "stopped"
    /\ Update([pod EXCEPT !.exists = FALSE])
    /\ UNCHANGED <<events, starting, maps, routine, daemon, published, limits>>

(* StopWorkspace, which may be called again with another policy *)
StopWorkspace(abort) ==
    /\ pod.exists
    /\ abort => MayAbort
    /\ Update(Mark(pod, {"stoppedByRequest"} \cup IF abort THEN {"abort"} ELSE {}))
    /\ UNCHANGED <<events, starting, maps, routine, daemon, published, limits>>

(* StartWorkspace, which has created the pod and waits until it is         *)
(* scheduled; it then takes the annotation away. *)
StartDone ==
    /\ starting /\ pod.exists /\ pod.node
    /\ starting' = FALSE
    /\ Update(Unmark(pod, "attemptingToCreate"))
    /\ UNCHANGED <<events, maps, routine, daemon, published, limits>>

(* The pod is unschedulable: deleteWorkspacePodForce removes its           *)
(* finalizer, and the StartWorkspace that follows finds that it exists. *)
StartRetries ==
    /\ starting /\ pod.exists /\ ~pod.node
    /\ starting' = FALSE
    /\ Update([pod EXCEPT !.finalizer = FALSE])
    /\ UNCHANGED <<events, maps, routine, daemon, published, limits>>

(* The pod is gone, or not scheduled in time without being unschedulable. *)
StartGivesUp ==
    /\ starting /\ ~(pod.exists /\ pod.node)
    /\ starting' = FALSE
    /\ UNCHANGED <<kube, events, maps, routine, daemon, published, limits>>

-----------------------------------------------------------------------------
(* Reconcile, from the watch or from a periodic resync *)

Reconcile ==
    /\ dirty
    /\ pod.exists => Len(events) < MaxEvents
    /\ dirty' = FALSE
    /\ events' = IF pod.exists THEN Append(events, pod) ELSE events
    /\ UNCHANGED <<pod, starting, maps, routine, daemon, published, limits>>

(* Resyncs are hours apart: nothing started by the last one still runs. *)
Resync ==
    /\ pod.exists /\ ~dirty /\ events = <<>> /\ \A g \in Goroutines : routine[g] = Idle
    /\ dirty' = TRUE
    /\ UNCHANGED <<pod, events, starting, maps, routine, daemon, published, limits>>

(* isWorkspaceTimedOut, given time: what a pod in this phase times out for *)
TimeoutReason(p) ==
    CASE Phase(p) = "STOPPING" /\ p.deleted -> "timedOutBackup"
      [] Phase(p) \in {"PENDING", "CREATING", "INITIALIZING", "RUNNING"} -> "timedOut"
      [] OTHER -> "none"

(* doHousekeeping: markTimedoutWorkspaces.  A pod is marked once; the      *)
(* reason depends on the phase it is in then. *)
TimesOut(reason) ==
    /\ pod.exists /\ ~Timeout(pod)
    /\ reason = TimeoutReason(pod)
    /\ reason = "timedOut" => MayTimeOut
    /\ Update(Mark(pod, {reason}))
    /\ UNCHANGED <<events, starting, maps, routine, daemon, published, limits>>

-----------------------------------------------------------------------------
(* onPodEvent and actOnPodEvent, on the copy p *)

Spawn(kind, p) ==
    \E g \in Goroutines :
        /\ routine[g] = Idle
        /\ routine' = [routine EXCEPT ![g] =
              [Idle EXCEPT !.kind = kind, !.at = kind, !.node = p.node,
                           !.doBackup = "neverReady" \notin p.marks]]

(* OnChange is called in a goroutine of its own: the handler goes on. *)
PublishStatus(p) ==
    /\ wasRunning' = (wasRunning \/ (Phase(p) = "RUNNING" /\ ~Failed(p)))
    /\ reporting' = (reporting \/ (p.deleted /\ p.backupFailure))
    /\ UNCHANGED <<reported, lost>>

OnChange ==
    /\ reporting
    /\ reporting' = FALSE /\ reported' = TRUE
    /\ UNCHANGED <<kube, events, starting, maps, routine, daemon, wasRunning, lost, limits>>

\* Mutant of AfterBackupTimeout: the disposal status does not reflect the timeout.
MutNoBackupTimeout(p) == pod

(* A backup that timed out is given up. *)
AfterBackupTimeout(p) ==
    IF "timedOutBackup" \in p.marks THEN MarkDisposal(pod, "finished", TRUE) ELSE pod

(* A pod that succeeded is deleted; of a deleted pod the content is        *)
(* finalized once the container has stopped, unless the workspace never    *)
(* got ready or was aborted. *)
ActOnStopping(p, now) ==
    /\ Phase(p) = "STOPPING"
    /\ initializerMap' = FALSE
    /\ \/ /\ ~p.deleted
          /\ Update(Stop(now))
          /\ UNCHANGED routine
       \/ /\ p.deleted /\ (p.container = "running" \/ IsDisposed(p))
          /\ Update(now)
          /\ UNCHANGED routine
       \/ /\ p.deleted /\ p.container # "running" /\ ~IsDisposed(p)
          /\ IF {"failedBeforeStopping", "neverReady"} \subseteq p.marks
             THEN Update(WithFinalizer(MarkFailed(now), FALSE)) /\ UNCHANGED routine
             ELSE IF "abort" \in p.marks
             THEN Update(WithFinalizer(now, FALSE)) /\ UNCHANGED routine
             ELSE Update(now) /\ Spawn("finalize", p)

ActOnStopped(p, now) ==
    /\ Phase(p) = "STOPPED"
    /\ initializerMap' = FALSE
    /\ Update(WithFinalizer(now, FALSE))
    /\ UNCHANGED routine

ActOnFailure(p) ==
    /\ Phase(p) \notin {"STOPPING", "STOPPED"}
    /\ Failed(p) \/ Timeout(p)
    /\ Update(Stop(Mark(pod, IF Failed(p) THEN {"failedBeforeStopping"} ELSE {})))
    /\ UNCHANGED <<initializerMap, routine>>

ActOnLife(p) ==
    /\ Phase(p) \notin {"STOPPING", "STOPPED"}
    /\ ~Failed(p) /\ ~Timeout(p)
    /\ LET now == IF "stoppedByRequest" \in p.marks THEN Stop(pod) ELSE pod
       IN  CASE Phase(p) = "CREATING" -> Update(now) /\ Spawn("initialize", p)
             [] Phase(p) = "INITIALIZING" -> Update(now) /\ Spawn("probe", p)
             [] Phase(p) = "RUNNING" -> Update(WithFinalizer(now, TRUE)) /\ UNCHANGED routine
             [] OTHER -> Update(now) /\ UNCHANGED routine
    /\ UNCHANGED initializerMap

HandleEvent ==
    /\ events # <<>>
    /\ LET p == Head(events)
       IN  /\ PublishStatus(p)
           /\ \/ ActOnStopping(p, AfterBackupTimeout(p))
              \/ ActOnStopped(p, AfterBackupTimeout(p))
              \/ ActOnFailure(p)
              \/ ActOnLife(p)
    /\ events' = Tail(events)
    /\ UNCHANGED <<starting, probeMap, finalizerMap, daemon, limits>>

(* What the handler has made of the pod when one of its calls fails. *)
Partial(p) ==
    CASE Phase(p) \in {"STOPPING", "STOPPED"} -> {pod, AfterBackupTimeout(p)}
      [] Phase(p) \notin {"STOPPING", "STOPPED"} /\ Failed(p) ->
            {pod, Mark(pod, {"failedBeforeStopping"}), Stop(pod)}
      [] OTHER -> IF "stoppedByRequest" \in p.marks THEN {pod, Stop(pod)} ELSE {pod}

(* A call of Kubernetes fails.  Either the status cannot be computed; or   *)
(* it is published and the handler gives up halfway; or it was the mark of *)
(* a backup that timed out, in which case the handler goes on.             *)
HandlerFails ==
    /\ events # <<>>
    /\ MayFail
    /\ LET p == Head(events)
       IN  \/ UNCHANGED <<kube, initializerMap, routine, published>>
           \/ /\ PublishStatus(p)
              /\ \E now \in Partial(p) : Update(now)
              /\ initializerMap' = (initializerMap /\ Phase(p) \notin {"STOPPING", "STOPPED"})
              /\ UNCHANGED routine
           \/ /\ "timedOutBackup" \in p.marks
              /\ PublishStatus(p)
              /\ ActOnStopping(p, pod) \/ ActOnStopped(p, pod)
    /\ events' = Tail(events)
    /\ UNCHANGED <<starting, probeMap, finalizerMap, daemon>>

-----------------------------------------------------------------------------
(* Goroutines *)

At(g, label) == routine[g].at = label
Goto(g, label) == routine' = [routine EXCEPT ![g].at = label]
End(g) == routine' = [routine EXCEPT ![g] = Idle]

(* Where initializeWorkspaceContent returns to *)
AfterInit(g) == IF routine[g].kind = "probe" THEN "markReady" ELSE "markInitializing"

(* initializeWorkspaceContent: only one goroutine initializes; the others  *)
(* return as if they had. *)
StartInit(g) ==
    /\ At(g, "initialize")
    /\ initializerMap' = TRUE
    /\ Goto(g, IF initializerMap THEN AfterInit(g) ELSE "initWorkspace")
    /\ UNCHANGED <<kube, events, starting, probeMap, finalizerMap, daemon, published, limits>>

(* InitWorkspace of ws-daemon: "AlreadyExists" is fine. *)
InitWorkspace(g) ==
    /\ At(g, "initWorkspace")
    /\ IF session = "none"
       THEN session' = "initializing" /\ Goto(g, "initializing")
       ELSE Goto(g, AfterInit(g)) /\ UNCHANGED session
    /\ UNCHANGED <<kube, events, starting, maps, content, backup, published, limits>>

InitDone(g) ==
    /\ At(g, "initializing")
    /\ session' = "ready" /\ content' = TRUE
    /\ Goto(g, AfterInit(g))
    /\ UNCHANGED <<kube, events, starting, maps, backup, published, limits>>

InitFails(g) ==
    /\ At(g, "initializing") \/ At(g, "initWorkspace")
    /\ MayFail
    /\ session' = IF At(g, "initializing") THEN "none" ELSE session
    /\ Goto(g, "markFailed")
    /\ UNCHANGED <<kube, events, starting, maps, content, backup, published>>

(* The end of the goroutine of the CREATING phase *)
MarkInitializing(g) ==
    /\ At(g, "markInitializing")
    /\ Update(Mark(pod, {"alreadyInitializing"}))
    /\ End(g)
    /\ UNCHANGED <<events, starting, maps, daemon, published, limits>>

(* Failures end either goroutine, after the mark of its phase. *)
MarkAsFailed(g) ==
    /\ At(g, "markFailed")
    /\ Update(MarkFailed(pod))
    /\ IF routine[g].kind = "probe" THEN End(g) ELSE Goto(g, "markInitializing")
    /\ UNCHANGED <<events, starting, maps, daemon, published, limits>>

(* waitForWorkspaceReady and probeWorkspaceReady *)
StartProbe(g) ==
    /\ \/ At(g, "probe") /\ (IF probeMap THEN End(g) ELSE Goto(g, "storeProbe"))
          /\ UNCHANGED probeMap
       \/ At(g, "storeProbe") /\ probeMap' = TRUE /\ Goto(g, "probing")
    /\ UNCHANGED <<kube, events, starting, initializerMap, finalizerMap, daemon, published, limits>>

ProbeEnds(g) ==
    /\ At(g, "probing")
    /\ probeMap' = FALSE
    /\ \/ pod.container = "running" /\ Goto(g, "isWorkspaceExists")
       \/ End(g)
    /\ UNCHANGED <<kube, events, starting, initializerMap, finalizerMap, daemon, published, limits>>

IsWorkspaceExists(g) ==
    /\ At(g, "isWorkspaceExists")
    /\ Goto(g, IF session = "none" THEN "clearInitializer" ELSE "waitForInit")
    /\ UNCHANGED <<kube, events, starting, maps, daemon, published, limits>>

WaitForInit(g) ==
    /\ At(g, "waitForInit") /\ session # "initializing"
    /\ Goto(g, CASE session = "ready" -> "markReady"
                 [] session = "none" -> "clearInitializer"
                 [] OTHER -> "markFailed")
    /\ UNCHANGED <<kube, events, starting, maps, daemon, published, limits>>

(* ws-daemon does not know the workspace: initialize it after all. *)
ClearInitializer(g) ==
    /\ At(g, "clearInitializer")
    /\ initializerMap' = FALSE
    /\ Goto(g, "initialize")
    /\ UNCHANGED <<kube, events, starting, probeMap, finalizerMap, daemon, published, limits>>

MarkReady(g) ==
    /\ At(g, "markReady")
    /\ initializerMap' = FALSE
    /\ Update(Unmark(pod, "neverReady"))
    /\ End(g)
    /\ UNCHANGED <<events, starting, probeMap, finalizerMap, daemon, published, limits>>

ProbeFails(g) ==
    /\ At(g, "isWorkspaceExists") \/ At(g, "waitForInit")
    /\ MayFail
    /\ Goto(g, "markFailed")
    /\ UNCHANGED <<kube, events, starting, maps, daemon, published>>

-----------------------------------------------------------------------------
(* finalizeWorkspaceContent *)

(* There is nothing to do for a workspace that never had a node. *)
StartFinalize(g) ==
    /\ At(g, "finalize")
    /\ finalizerMap' = TRUE
    /\ IF finalizerMap THEN End(g)
       ELSE Goto(g, IF routine[g].doBackup \/ routine[g].node THEN "finalizeExists" ELSE "finish")
    /\ UNCHANGED <<kube, events, starting, initializerMap, probeMap, daemon, published, limits>>

\* Mutant of Return: the entry in finalizerMap stays when there is no result.
MutReturnKeepsEntry(g, disposal, failed) ==
    /\ Update(IF disposal = "" THEN pod ELSE MarkDisposal(pod, disposal, failed))
    /\ finalizerMap' = (disposal = "")
    /\ End(g)

(* The deferred functions: what was found out last is written to the pod. *)
Return(g, disposal, failed) ==
    /\ Update(IF disposal = "" THEN pod ELSE MarkDisposal(pod, disposal, failed))
    /\ finalizerMap' = FALSE
    /\ End(g)

(* ws-daemon answers "NotFound": return without a result. *)
NotFound(g) ==
    /\ \E label \in {"finalizeExists", "finalizeWait", "dispose"} : At(g, label)
    /\ session = "none"
    /\ Return(g, IF routine[g].retrying THEN "retrying" ELSE "", FALSE)
    /\ UNCHANGED <<events, starting, initializerMap, probeMap, daemon, published, limits>>

GiveUp(g) == routine' = [routine EXCEPT ![g].at = "finish", ![g].failed = TRUE]

(* IsWorkspaceExists, then WaitForInit *)
FinalizeWait(g) ==
    /\ session # "none"
    /\ \/ At(g, "finalizeExists") /\ Goto(g, "finalizeWait")
       \/ /\ At(g, "finalizeWait") /\ session # "initializing"
          /\ IF session = "ready" THEN Goto(g, "markStarted") ELSE GiveUp(g)
    /\ UNCHANGED <<kube, events, starting, maps, daemon, published, limits>>

MarkStarted(g) ==
    /\ At(g, "markStarted")
    /\ Update(IF routine[g].started THEN pod ELSE MarkDisposal(pod, "started", FALSE))
    /\ routine' = [routine EXCEPT ![g].at = "dispose", ![g].started = TRUE]
    /\ UNCHANGED <<events, starting, maps, daemon, published, limits>>

(* DisposeWorkspace: a backup is only made of a session that is ready. *)
Dispose(g) ==
    /\ At(g, "dispose")
    /\ \/ /\ session = "ready"
          /\ session' = "disposing"
          /\ Goto(g, "disposing")
       \/ /\ session \notin {"ready", "none"} /\ routine[g].doBackup
          /\ GiveUp(g)
          /\ UNCHANGED session
    /\ UNCHANGED <<kube, events, starting, maps, content, backup, published, limits>>

DisposeDone(g) ==
    /\ At(g, "disposing")
    /\ session' = "none"
    /\ backup' = (backup \/ routine[g].doBackup)
    /\ Goto(g, "finish")
    /\ UNCHANGED <<kube, events, starting, maps, content, published, limits>>

(* ws-daemon fails, or cannot be reached, or the answer is lost after it   *)
(* has done its work. *)
FinalizeFails(g) ==
    /\ \E label \in {"finalizeExists", "finalizeWait", "dispose", "disposing"} : At(g, label)
    /\ MayFail
    /\ \/ UNCHANGED daemon
       \/ /\ At(g, "disposing")
          /\ session' = "none" /\ backup' = (backup \/ routine[g].doBackup)
          /\ UNCHANGED content
    /\ GiveUp(g) \/ Goto(g, "retry")
    /\ UNCHANGED <<kube, events, starting, maps, published>>

(* An error that may pass: try again, up to a number of attempts. *)
TryAgain(g) ==
    \E giveUp \in BOOLEAN :
        routine' = [routine EXCEPT ![g].at = IF giveUp THEN "finish" ELSE "finalizeExists",
                                   ![g].failed = giveUp, ![g].retrying = TRUE]

Retry(g) ==
    /\ At(g, "retry")
    /\ Update(IF routine[g].retrying THEN pod ELSE MarkDisposal(pod, "retrying", FALSE))
    /\ TryAgain(g)
    /\ UNCHANGED <<events, starting, maps, daemon, published, limits>>

\* Mutant of Finish: a backup that failed is not recorded as one.
MutFinishWithoutFailure(g) ==
    /\ At(g, "finish")
    /\ Return(g, "finished", FALSE)
    /\ UNCHANGED <<events, starting, initializerMap, probeMap, daemon, published, limits>>

Finish(g) ==
    /\ At(g, "finish")
    /\ Return(g, "finished", routine[g].failed)
    /\ UNCHANGED <<events, starting, initializerMap, probeMap, daemon, published, limits>>

(* A mark cannot be written, because Kubernetes fails or the goroutine's   *)
(* deadline has passed: this is logged and otherwise ignored, except that  *)
(* a workspace that cannot be marked ready has failed. *)
MarkFails(g) ==
    /\ MayFail
    /\ \/ At(g, "markInitializing") /\ End(g)
       \/ /\ At(g, "markFailed")
          /\ IF routine[g].kind = "probe" THEN End(g) ELSE Goto(g, "markInitializing")
       \/ At(g, "markReady") /\ Goto(g, "markFailed")
       \/ At(g, "markStarted") /\ Goto(g, "dispose")
       \/ At(g, "retry") /\ ~routine[g].retrying /\ TryAgain(g)
       \/ At(g, "finish") /\ End(g)
    /\ initializerMap' = (initializerMap /\ ~At(g, "markReady"))
    /\ finalizerMap' = (finalizerMap /\ ~At(g, "finish"))
    /\ UNCHANGED <<kube, events, starting, probeMap, daemon, published>>

-----------------------------------------------------------------------------
(* A new ws-manager process: a status that OnChange has not published is   *)
(* gone with the old one.  A request ws-daemon works on is canceled or     *)
(* completes. *)
Restart ==
    /\ restarts < MaxRestarts
    /\ restarts' = restarts + 1
    /\ dirty' = TRUE
    /\ events' = <<>>
    /\ starting' = FALSE
    /\ initializerMap' = FALSE /\ probeMap' = FALSE /\ finalizerMap' = FALSE
    /\ routine' = [g \in Goroutines |-> Idle]
    /\ reporting' = FALSE /\ lost' = (lost \/ (reporting /\ ~pod.finalizer))
    /\ \/ /\ session' = IF session = "initializing" THEN "none" ELSE session
          /\ UNCHANGED <<content, backup>>
       \/ /\ session = "initializing" /\ session' = "ready"
          /\ content' = TRUE /\ UNCHANGED backup
       \/ \E g \in Goroutines :
             /\ At(g, "disposing") /\ session' = "none"
             /\ backup' = (backup \/ routine[g].doBackup) /\ UNCHANGED content
    /\ UNCHANGED <<pod, wasRunning, reported, failures>>

RoutineStep(g) ==
    \/ StartInit(g) \/ InitWorkspace(g) \/ InitDone(g) \/ MarkInitializing(g) \/ MarkAsFailed(g)
    \/ StartProbe(g) \/ ProbeEnds(g) \/ IsWorkspaceExists(g) \/ WaitForInit(g)
    \/ ClearInitializer(g) \/ MarkReady(g)
    \/ StartFinalize(g) \/ NotFound(g) \/ FinalizeWait(g) \/ MarkStarted(g)
    \/ Dispose(g) \/ DisposeDone(g) \/ Retry(g) \/ Finish(g)

Next ==
    \/ ContainerChanges \/ PodRemoved \/ StartDone \/ StartRetries \/ StartGivesUp
    \/ \E abort \in BOOLEAN : StopWorkspace(abort)
    \/ Reconcile \/ Resync \/ HandleEvent \/ HandlerFails \/ OnChange
    \/ \E reason \in {"timedOut", "timedOutBackup"} : TimesOut(reason)
    \/ \E g \in Goroutines :
          RoutineStep(g) \/ InitFails(g) \/ ProbeFails(g) \/ FinalizeFails(g)
                         \/ MarkFails(g)
    \/ Restart

Spec == Init /\ [][Next]_vars

(* Kubernetes stops and removes what was deleted and resyncs the pods it   *)
(* has, timeouts are looked for again and again, calls return.             *)
Fairness ==
    /\ WF_vars(pod.deleted /\ ContainerChanges) /\ WF_vars(PodRemoved)
    /\ WF_vars(Reconcile) /\ WF_vars(Resync) /\ WF_vars(HandleEvent)
    /\ WF_vars(TimesOut("timedOutBackup"))
    /\ \A g \in Goroutines : WF_vars(RoutineStep(g))

FairSpec == Spec /\ Fairness

-----------------------------------------------------------------------------
Labels == {"idle", "initialize", "initWorkspace", "initializing", "markInitializing",
           "markFailed", "probe", "storeProbe", "probing", "isWorkspaceExists",
           "clearInitializer", "waitForInit", "markReady", "finalize", "finalizeExists",
           "finalizeWait", "markStarted", "dispose", "disposing", "retry", "finish"}

FinalizeLabels == {"finalize", "finalizeExists", "finalizeWait", "markStarted", "dispose",
                   "disposing", "retry", "finish"}

Routines == [kind : {"none", "initialize", "probe", "finalize"}, at : Labels,
             doBackup : BOOLEAN, node : BOOLEAN, failed : BOOLEAN, retrying : BOOLEAN,
             started : BOOLEAN]

(* Only a finished disposal says that the backup failed. *)
ProperPods == {p \in Pods : p.backupFailure => IsDisposed(p)}

(* The pod and every copy of it are well-formed; a goroutine is at a place *)
(* of the work it was started for.                                         *)
TypeOK ==
    /\ pod \in ProperPods /\ events \in Seq(ProperPods) /\ Len(events) <= MaxEvents
    /\ {dirty, starting, initializerMap, probeMap, finalizerMap, content, backup,
        reporting, wasRunning, reported, lost} \subseteq BOOLEAN
    /\ routine \in [Goroutines -> Routines]
    /\ \A g \in Goroutines :
          /\ routine[g].kind = "finalize" <=> routine[g].at \in FinalizeLabels
          /\ routine[g].kind = "none" => At(g, "idle")
    /\ session \in {"none", "initializing", "ready", "disposing"}
    /\ failures \in 0..MaxFailures /\ restarts \in 0..MaxRestarts

Finalizing(g) == routine[g].kind = "finalize" /\ ~At(g, "finalize")

(* "Make sure only one finalizeWorkspaceContent() can be active at the     *)
(* same time", and on no way out does it leave its entry behind, which     *)
(* would keep every later attempt from running.                            *)
FinalizerMapExact ==
    /\ \A g, h \in Goroutines : Finalizing(g) /\ Finalizing(h) => g = h
    /\ finalizerMap <=> \E g \in Goroutines : Finalizing(g)

(* What is never taken back: p is a copy of the pod no newer than q. *)
Older(p, q) ==
    /\ p.deleted => q.deleted
    /\ {"neverReady", "attemptingToCreate"} \cap q.marks \subseteq p.marks
    /\ "abort" \in p.marks => "abort" \in q.marks

(* Every copy is older than the ones behind it and than the pod.           *)
CopiesInOrder ==
    \A i \in 1..Len(events) :
        /\ Older(events[i], pod)
        /\ \A j \in i..Len(events) : Older(events[i], events[j])

Copies == {pod} \cup {events[i] : i \in 1..Len(events)}

(* A status RUNNING may be computed from p, at least when its container    *)
(* runs.                                                                   *)
MayRun(p) == ~p.deleted /\ {"neverReady", "attemptingToCreate"} \cap p.marks = {}

(* No status said RUNNING and none will. *)
NeverRuns ==
    /\ ~wasRunning /\ \A p \in Copies : ~MayRun(p)
    /\ pod.deleted \/ ("attemptingToCreate" \in pod.marks /\ ~starting)

(* That a backup failed was published, or is about to be, or would have    *)
(* been had ws-manager not crashed. *)
Told == reported \/ reporting \/ lost

(* Nothing is lost if the pod goes away now, or somebody was told. *)
Settled == backup \/ Told \/ "abort" \in pod.marks \/ NeverRuns

(* The finalizer leaves the pod, and any copy of it that is still to be    *)
(* handled, only when that is so; likewise, a copy says that the content   *)
(* was disposed of without a failure only if there is a backup, and every  *)
(* goroutine that could write this to the pod knows that there is one      *)
(* (deleteWorkspacePodForce, actOnPodEvent, finalizeWorkspaceContent).     *)
SettledBeforeRelease ==
    /\ wasRunning => \A p \in Copies : {"neverReady", "attemptingToCreate"} \cap p.marks = {}
    /\ starting => "attemptingToCreate" \in pod.marks
    /\ ~pod.exists => ~pod.finalizer
    /\ \A p \in Copies :
          /\ ~p.finalizer => Settled
          /\ IsDisposed(p) /\ ~p.backupFailure => backup \/ NeverRuns

FinalizersKnow ==
    \A g \in Goroutines : routine[g].kind = "finalize" =>
        /\ pod.deleted
        /\ routine[g].doBackup \/ NeverRuns
        /\ At(g, "finish") => routine[g].failed \/ backup \/ NeverRuns

(* The state is well formed, finalizerMap is exact, and the pod's          *)
(* finalizer guards what could be lost.                                    *)
MonitorInv ==
    TypeOK /\ FinalizerMapExact /\ CopiesInOrder /\ SettledBeforeRelease /\ FinalizersKnow

(* The monitor never loses user data silently: when the pod of a workspace *)
(* that was running is gone and nobody aborted it, there is a backup, or   *)
(* clients were told, or are being told, that the last backup failed -     *)
(* whatever fails, is retried, times out or restarts, and however old the  *)
(* copy of the pod is that a goroutine works from.  The one way out is a   *)
(* crash after the finalizer was removed and before OnChange got to run    *)
(* in its goroutine (onPodEvent, actOnPodEvent, finalizeWorkspaceContent). *)
NoSilentLoss ==
    ~pod.exists /\ wasRunning /\ "abort" \notin pod.marks =>
        backup \/ reported \/ reporting \/ lost

(* A pod that is being deleted goes away, whatever fails on the way: the   *)
(* backup's timeout is the last resort (actOnPodEvent, "Special case:      *)
(* workspaces timing out during backup").                                  *)
DeletedIsRemoved ==
    pod.deleted /\ "timedOut" \notin pod.marks /\ "attemptingToCreate" \notin pod.marks
        ~> ~pod.exists

-----------------------------------------------------------------------------
(* Statements of the repository's comments that the code does not keep:    *)
(* TLC refutes them, and README.md says how and where.                     *)

(* status.go: "if the final backup has failed we need to tell the world".  *)
WorldIsTold ==
    ~pod.exists /\ wasRunning /\ "abort" \notin pod.marks => backup \/ reported \/ reporting

(* monitor.go: doHousekeeping "removes timed out or dangling workspaces".  *)
TimedOutIsRemoved ==
    pod.deleted /\ "attemptingToCreate" \notin pod.marks ~> ~pod.exists

(* annotations.go: alreadyInitializing "is set when initializing is done". *)
InitializingIsDone ==
    "alreadyInitializing" \in pod.marks => content \/ "explicitFail" \in pod.marks

(* annotations.go: attemptingToCreate "is set when ws-manager is trying to *)
(* create pod".                                                            *)
AttemptIsReal == pod.exists /\ "attemptingToCreate" \in pod.marks => starting

(* waitForWorkspaceReady "waits until the workspace's content and Theia to *)
(* become available".                                                      *)
ReadyHasContent == "neverReady" \notin pod.marks => content

(* finalizeWorkspaceContent: the started mark is set late, "otherwise we   *)
(* risk overwriting previous disposal status".                             *)
PreviousDisposalKept ==
    [][pod.disposal = "finished" /\ pod.exists => pod'.disposal = "finished"]_vars
=============================================================================
