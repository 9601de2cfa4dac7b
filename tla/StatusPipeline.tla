--------------------------- MODULE StatusPipeline --------------------------
(***************************************************************************)
(* A workspace's pod, its ws-manager and the bridge together: does the     *)
(* database come to say what is true of the pod?                           *)
(*                                                                         *)
(* The bridge is WsManagerBridge; the workspace is no prebuild.  Of        *)
(* ws-manager and its subscription this module keeps what StatusSource and *)
(* StatusSubscription leave possible: changes of the pod may coalesce,     *)
(* their statuses may overtake each other and, when a process restarts or  *)
(* a subscription breaks, be lost; a bridge that reconnects is given a     *)
(* status of the pod first.  The controller asks ws-manager, which answers *)
(* from the same pods.                                                     *)
(***************************************************************************)
EXTENDS Integers, FiniteSets

CONSTANTS
    MaxFailures,    \* bound: calls that throw
    MaxInFlight,    \* bound: statuses on their way to the bridge
    MaxLosses,      \* bound: restarts and broken connections
    MaxMishaps      \* bound: failures and losses together

ASSUME PipelineAssumption == {MaxFailures, MaxInFlight, MaxLosses, MaxMishaps} \subseteq Nat

VARIABLES           \* of the bridge, see WsManagerBridge
    db, prebuild, tokens, handler, control, failures, everStopped

VARIABLES
    pod,        \* the pod as Kubernetes has it (its phase), or Gone
    dirty,      \* whether a reconcile request for it is queued
    lastSeen,   \* PodReconciler.Pods: the pod reconciled last, or Gone
    inFlight,   \* statuses published and not yet handled by the bridge
    connected,  \* whether the bridge's WsmanSubscriber is subscribed
    losses,     \* restarts and broken connections so far
    expired     \* whether the controller's timeouts have elapsed

Bridge == INSTANCE WsManagerBridge WITH Sent <- {}, IsPrebuild <- FALSE

bridgeVars == <<db, prebuild, tokens, handler, control, failures, everStopped>>
envVars == <<pod, dirty, lastSeen, inFlight, connected, losses, expired>>
vars == <<bridgeVars, envVars>>

-----------------------------------------------------------------------------
Gone == "GONE"

(* What may become of a pod, by the phase status.go computes for it: it    *)
(* may fail or be stopped at any time; its object goes away when           *)
(* Kubernetes deletes it, at the latest once the finalizer is removed.     *)
Successors(p) ==
    CASE p = "PENDING" -> {"CREATING", "STOPPING"}
      [] p = "CREATING" -> {"INITIALIZING", "STOPPING"}
      [] p = "INITIALIZING" -> {"RUNNING", "STOPPING"}
      [] p = "RUNNING" -> {"INTERRUPTED", "STOPPING"}
      [] p = "INTERRUPTED" -> {"RUNNING", "STOPPING"}
      [] p = "STOPPING" -> {"STOPPED", Gone}
      [] p = "STOPPED" -> {Gone}
      [] p = Gone -> {}

(* Only the prebuild updater looks at versions and conditions: for a       *)
(* workspace that is no prebuild one of each stands for all. *)
StatusOf(p) == [phase |-> p, cond |-> {}, version |-> 1]

Init ==
    /\ Bridge!Init /\ db.phase = "pending"
    /\ pod = "PENDING"
    /\ dirty = TRUE
    /\ lastSeen = Gone
    /\ inFlight = {}
    /\ connected = FALSE
    /\ losses = 0
    /\ expired = FALSE

MayGoWrong == failures + losses < MaxMishaps

-----------------------------------------------------------------------------
(* ws-manager and the connection *)

Deliver(status) ==
    /\ Cardinality(inFlight) < MaxInFlight /\ status \notin inFlight
    /\ inFlight' = inFlight \cup {status}

PodChanges ==
    /\ pod' \in Successors(pod)
    /\ dirty' = TRUE
    /\ UNCHANGED <<bridgeVars, lastSeen, inFlight, connected, losses, expired>>

(* Reconcile, onPodEvent and onChange: a status of the pod is published,   *)
(* and reaches the bridge if it is subscribed; the Deleted event of a pod  *)
(* that is gone repeats the one seen last. *)
SendStatus ==
    /\ dirty
    /\ dirty' = FALSE
    /\ lastSeen' = pod
    /\ LET p == IF pod # Gone THEN pod ELSE lastSeen
       IN  IF connected /\ p # Gone THEN Deliver(StatusOf(p)) ELSE UNCHANGED inFlight
    /\ UNCHANGED <<bridgeVars, pod, connected, losses, expired>>

(* WsmanSubscriber.subscribe: list the workspaces, then subscribe. *)
Connect ==
    /\ ~connected
    /\ connected' = TRUE
    /\ IF pod # Gone THEN Deliver(StatusOf(pod)) ELSE UNCHANGED inFlight
    /\ UNCHANGED <<bridgeVars, pod, dirty, lastSeen, losses, expired>>

(* The stream breaks, or ws-manager drops the subscriber: statuses on      *)
(* their way may be lost... *)
Disconnect ==
    /\ connected
    /\ losses < MaxLosses /\ MayGoWrong
    /\ losses' = losses + 1
    /\ connected' = FALSE
    /\ inFlight' \in SUBSET inFlight
    /\ UNCHANGED <<bridgeVars, pod, dirty, lastSeen, expired>>

(* ...as when ws-manager restarts, which then reconciles the pods that     *)
(* exist and does not remember others. *)
ManagerRestarts ==
    /\ losses < MaxLosses /\ MayGoWrong
    /\ losses' = losses + 1
    /\ connected' = FALSE
    /\ inFlight' \in SUBSET inFlight
    /\ dirty' = (pod # Gone)
    /\ lastSeen' = Gone
    /\ UNCHANGED <<bridgeVars, pod, expired>>

-----------------------------------------------------------------------------
(* The bridge *)

(* A status reaches the instance's Queue, which starts it when the one     *)
(* before it is done. *)
HandleNext ==
    /\ \E status \in inFlight :
          /\ Bridge!HandleStatus(status)
          /\ inFlight' = inFlight \ {status}
    /\ UNCHANGED <<pod, dirty, lastSeen, connected, losses, expired>>

(* durationLongerThanSeconds: certain once the timeouts have elapsed *)
Elapsed == IF expired THEN {TRUE} ELSE BOOLEAN

(* The controller's getWorkspaces answers from the same pods... *)
ControlDecides ==
    /\ \E elapsed \in Elapsed :
          Bridge!Decide(IF pod = Gone THEN "unknown" ELSE "known", elapsed)
    /\ UNCHANGED <<failures, envVars>>

(* ...or cannot be reached. *)
ControlCannotAsk ==
    /\ failures < MaxFailures /\ MayGoWrong
    /\ failures' = failures + 1
    /\ \E elapsed \in Elapsed : Bridge!Decide("error", elapsed)
    /\ UNCHANGED envVars

TimePasses ==
    /\ ~expired
    /\ expired' = TRUE
    /\ UNCHANGED <<bridgeVars, pod, dirty, lastSeen, inFlight, connected, losses>>

BridgeOnly(action) == action /\ UNCHANGED envVars

Next ==
    \/ PodChanges \/ SendStatus \/ Connect \/ Disconnect \/ ManagerRestarts
    \/ HandleNext \/ BridgeOnly(Bridge!HandlerStep) \/ BridgeOnly(Bridge!ControlStep)
    \/ MayGoWrong /\ BridgeOnly(Bridge!HandlerFails)
    \/ MayGoWrong /\ BridgeOnly(Bridge!ControlFails)
    \/ ControlDecides \/ ControlCannotAsk \/ TimePasses

Spec == Init /\ [][Next]_vars

(* The Go scheduler and the JavaScript event loop run what can run; the    *)
(* subscriber reconnects after a second, the controller's timer fires      *)
(* again and again, timeouts elapse.  The pod need not change, connections *)
(* need not break. *)
Fairness ==
    /\ WF_vars(SendStatus) /\ WF_vars(Connect)
    /\ WF_vars(HandleNext) /\ WF_vars(BridgeOnly(Bridge!HandlerStep))
    /\ WF_vars(BridgeOnly(Bridge!ControlStep)) /\ WF_vars(ControlDecides)
    /\ WF_vars(TimePasses)

FairSpec == Spec /\ Fairness

-----------------------------------------------------------------------------
(* The phases the controller corrects when ws-manager does not know the    *)
(* instance (controlNonStoppedWSManagerManagedInstances): of creating,     *)
(* initializing and interrupted it has no case, see GoneIsStopped.         *)
Controlled == {"pending", "running", "stopping"}

(* The database does not keep calling a workspace that is gone pending,    *)
(* running or stopping, whichever updates were lost or overtaken by later  *)
(* ones, and although the status handler and the controller write back     *)
(* rows they have read earlier (statusUpdate,                              *)
(* controlNonStoppedWSManagerManagedInstances).                            *)
GoneIsNoticed == pod = Gone ~> [](db.phase \notin Controlled)

-----------------------------------------------------------------------------
(* Statements of the repository's comments that the code does not keep:    *)
(* TLC refutes them, and README.md says how and where.                     *)

(* workspace-instance-controller.ts: "ensure that there actual state is    *)
(* properly reflected in the database, eventually".                        *)
GoneIsStopped == pod = Gone ~> db.phase = "stopped"
=============================================================================
