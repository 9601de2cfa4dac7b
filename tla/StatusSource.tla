--------------------------- MODULE StatusSource ----------------------------
(***************************************************************************)
(* How ws-manager turns the pod of one workspace into status updates       *)
(* (components/ws-manager/pkg/manager: pod_controller.go, onPodEvent in    *)
(* monitor.go, getWorkspaceStatus in status.go, GetWorkspaces and onChange *)
(* in manager.go):                                                         *)
(*                                                                         *)
(*   Kubernetes -> PodReconciler -> event pool -> onPodEvent -> goroutine  *)
(*   that publishes; and, beside it, GetWorkspaces, which lists the pods   *)
(*   and computes their statuses for a client that (re)connects.           *)
(*                                                                         *)
(* Of the event pool this module uses what EventWorkerPool shows (events   *)
(* of one workspace are handled one at a time, in order).  The clock that  *)
(* stamps the statuses is HybridClock itself: a tick is part of the step   *)
(* that computes a status, and a clock that panics takes the process down. *)
(* Nothing is assumed of the wall clock, across restarts either: the next  *)
(* process may stamp its statuses with versions an earlier one has used    *)
(* (clock.System is started without the sleep its comment advises).        *)
(***************************************************************************)
EXTENDS HybridClock

CONSTANTS
    MaxChanges,     \* bound: changes of the pod
    MaxLists,       \* bound: calls of GetWorkspaces
    MaxFailures     \* bound: failing lookups and restarts of ws-manager

ASSUME SourceAssumption == {MaxChanges, MaxLists, MaxFailures} \subseteq Nat

VARIABLES
    gen,        \* the pod as Kubernetes has it, numbered by its changes
    exists,     \* whether Kubernetes still has it
    dirty,      \* whether a reconcile request for it is queued
    lastSeen,   \* PodReconciler.Pods: the pod reconciled last, 0 if none
    events,     \* the pod's events in the pool
    era,        \* how many processes there were before this one
    publishing, \* statuses whose publishing goroutine has not run yet
    listing,    \* the pod GetWorkspaces has read and not answered with, 0 if none
    lists,      \* calls of GetWorkspaces so far
    failures,   \* failures so far
    published   \* history: every status handed to clients, with its origin

vars == <<gen, exists, dirty, lastSeen, events, era, publishing, listing, lists,
          failures, published, clockVars>>

timeVars == <<era, clockVars>>

-----------------------------------------------------------------------------
Gens == 1..(MaxChanges + 1)

(* getWorkspaceStatus: a status of pod g, stamped with the version the     *)
(* clock has just issued; era is history, clients do not see it. *)
Status(g, origin) ==
    [gen |-> g, version |-> Version(lastPhysicalTime', lc'), origin |-> origin, era |-> era]

Init ==
    /\ gen = 1
    /\ exists = TRUE
    /\ dirty = TRUE
    /\ lastSeen = 0
    /\ events = <<>>
    /\ ClockInit
    /\ era = 0
    /\ publishing = {}
    /\ listing = 0
    /\ lists = 0
    /\ failures = 0
    /\ published = {}

(* The pod is modified, or deleted; requests for it coalesce. *)
PodChanges ==
    /\ exists
    /\ \/ gen <= MaxChanges /\ gen' = gen + 1 /\ UNCHANGED exists
       \/ exists' = FALSE /\ UNCHANGED gen
    /\ dirty' = TRUE
    /\ UNCHANGED <<lastSeen, events, publishing, listing, lists, failures, published, timeVars>>

\* Mutant of Reconcile: a pod that is known is not reconciled again.
MutReconcileOnce ==
    /\ running /\ dirty
    /\ dirty' = FALSE
    /\ lastSeen' = IF exists THEN gen ELSE 0
    /\ events' = IF (lastSeen = 0) = exists
                 THEN Append(events, IF exists THEN gen ELSE lastSeen) ELSE events
    /\ UNCHANGED <<gen, exists, publishing, listing, lists, failures, published, timeVars>>

(* PodReconciler.Reconcile: a pod that is gone yields a Deleted event with *)
(* the object seen last, if there was one. *)
Reconcile ==
    /\ running /\ dirty
    /\ dirty' = FALSE
    /\ lastSeen' = IF exists THEN gen ELSE 0
    /\ events' = IF exists THEN Append(events, gen)
                 ELSE IF lastSeen # 0 THEN Append(events, lastSeen) ELSE events
    /\ UNCHANGED <<gen, exists, publishing, listing, lists, failures, published, timeVars>>

(* Get fails other than with NotFound: the error is not looked at, an      *)
(* empty pod without a workspace ID is remembered and nothing is added. *)
ReconcileGetFails ==
    /\ running /\ dirty
    /\ failures < MaxFailures
    /\ failures' = failures + 1
    /\ dirty' = FALSE
    /\ lastSeen' = 0
    /\ UNCHANGED <<gen, exists, events, publishing, listing, lists, published, timeVars>>

\* Mutant of OnPodEvent: the newest event is handled first.
MutNewestFirst ==
    /\ events # <<>>
    /\ \E now \in WallTimes : Tick(now)
    /\ publishing' = publishing \cup {Status(events[Len(events)], "event")}
    /\ events' = SubSeq(events, 1, Len(events) - 1)
    /\ UNCHANGED <<gen, exists, dirty, lastSeen, listing, lists, failures, published, era>>

(* onPodEvent: compute the status, tick the clock, and start the goroutine *)
(* that publishes it. *)
OnPodEvent ==
    /\ events # <<>>
    /\ \E now \in WallTimes : Tick(now)
    /\ publishing' = publishing \cup {Status(Head(events), "event")}
    /\ events' = Tail(events)
    /\ UNCHANGED <<gen, exists, dirty, lastSeen, listing, lists, failures, published, era>>

(* onPodEvent cannot complete the workspace's objects or its status: the   *)
(* event is reported as an error and dropped. *)
OnPodEventFails ==
    /\ running /\ events # <<>>
    /\ failures < MaxFailures
    /\ failures' = failures + 1
    /\ events' = Tail(events)
    /\ UNCHANGED <<gen, exists, dirty, lastSeen, publishing, listing, lists, published, timeVars>>

(* onChange; the goroutines run in any order. *)
Publish(status) ==
    /\ running
    /\ status \in publishing
    /\ publishing' = publishing \ {status}
    /\ published' = published \cup {status}
    /\ UNCHANGED <<gen, exists, dirty, lastSeen, events, listing, lists, failures, timeVars>>

(* GetWorkspaces: list the pods (from the informer's cache)... *)
ListPods ==
    /\ running
    /\ listing = 0
    /\ lists < MaxLists
    /\ exists
    /\ lists' = lists + 1
    /\ listing' = gen
    /\ UNCHANGED <<gen, exists, dirty, lastSeen, events, publishing, failures, published, timeVars>>

(* ...then compute their statuses and answer. *)
AnswerList ==
    /\ listing # 0
    /\ \E now \in WallTimes : Tick(now)
    /\ published' = published \cup {Status(listing, "list")}
    /\ listing' = 0
    /\ UNCHANGED <<gen, exists, dirty, lastSeen, events, publishing, lists, failures, era>>

(* The tick of a status panics, which ends the process. *)
StatusPanics ==
    /\ events # <<>> \/ listing # 0
    /\ \E now \in WallTimes : Panic(now)
    /\ UNCHANGED <<gen, exists, dirty, lastSeen, events, era, publishing, listing, lists,
                   failures, published>>

(* A new ws-manager process, after a panic or a crash: what is in memory   *)
(* is lost, existing pods are reconciled again, and the clock starts over, *)
(* whatever the wall clock reads by then. *)
Restart ==
    /\ failures < MaxFailures
    /\ failures' = failures + 1
    /\ era' = era + 1
    /\ running' = TRUE /\ lastPhysicalTime' = 0 /\ lc' = 0 /\ issued' = <<>>
    /\ dirty' = exists
    /\ lastSeen' = 0
    /\ events' = <<>>
    /\ publishing' = {}
    /\ listing' = 0
    /\ UNCHANGED <<gen, exists, lists, published>>

Next ==
    \/ PodChanges \/ Reconcile \/ ReconcileGetFails
    \/ OnPodEvent \/ OnPodEventFails
    \/ \E status \in publishing : Publish(status)
    \/ ListPods \/ AnswerList \/ StatusPanics \/ Restart

Spec == Init /\ [][Next]_vars

(* The controller's queue, the pool and the Go scheduler run what can run. *)
Fairness ==
    /\ WF_vars(Reconcile) /\ WF_vars(OnPodEvent)
    /\ WF_vars(\E status \in publishing : Publish(status))

FairSpec == Spec /\ Fairness

-----------------------------------------------------------------------------
Issued == published \cup publishing

(* No status, waiting or sent, is of a pod that is yet to come, and no two *)
(* statuses of one process share a version, those of events and of lists   *)
(* together.                                                               *)
TypeOK ==
    /\ gen \in Gens /\ exists \in BOOLEAN /\ dirty \in BOOLEAN
    /\ lastSeen \in 0..gen /\ listing \in 0..gen
    /\ events \in Seq(1..gen)
    /\ lists \in 0..MaxLists /\ failures \in 0..MaxFailures
    /\ era \in Nat
    /\ Issued \subseteq [gen : 1..gen, version : Nat, origin : {"event", "list"}, era : 0..era]
    /\ \A a, b \in Issued : a.era = b.era /\ a.version = b.version => a = b

(* a was computed before b. *)
Before(a, b) == a.era < b.era \/ (a.era = b.era /\ a.version < b.version)

(* Statuses computed from events are in the order of the pods they are of, *)
(* by their versions as long as the process lives, and from one process to *)
(* the next: coalesced requests, failed lookups, the Deleted event that    *)
(* repeats an old object, goroutines that overtake each other and restarts *)
(* do not make an older pod the newer status.  Versions of two processes   *)
(* are not compared: they depend on the wall clock alone.                  *)
EventVersionsOrdered ==
    \A a, b \in Issued :
        a.origin = "event" /\ b.origin = "event" /\ Before(a, b) => a.gen <= b.gen

(* The process has issued nothing beyond what its clock encodes.           *)
BelowHorizon ==
    \A status \in Issued : status.era = era => status.version <= Version(lastPhysicalTime, lc)

(* The events are in the order of the pods they carry, none is of an older *)
(* pod than a status already computed from one, and the pod reconciled     *)
(* last, which a Deleted event repeats, is no older than any of them.      *)
EventsInOrder ==
    /\ \A i \in 1..Len(events) :
          /\ \A j \in i..Len(events) : events[i] <= events[j]
          /\ lastSeen # 0 => events[i] <= lastSeen
    /\ \A status \in Issued : status.origin = "event" =>
          /\ \A i \in 1..Len(events) : status.gen <= events[i]
          /\ lastSeen # 0 => status.gen <= lastSeen

(* The state is well formed, no process issues a version twice, and the    *)
(* statuses computed from events are in order.                             *)
SourceInv == TypeOK /\ EventVersionsOrdered /\ BelowHorizon /\ EventsInOrder

(* Clients hear of the pod's last state while it exists, however its       *)
(* changes coalesce, unless a lookup failed, ws-manager restarted, or no   *)
(* wall time is left at which the clock would not panic.                   *)
LastPodIsPublished ==
    <>[](exists /\ failures = 0 /\ running /\ (\E now \in WallTimes : ~Panics(now))
            => \E status \in published : status.gen = gen)

-----------------------------------------------------------------------------
(* Statements of the repository's comments that the code does not keep:    *)
(* TLC refutes them, and README.md says how and where.                     *)

(* core.proto, status_version: "If a.status_version < b.status_version     *)
(* then a was the status before b."                                        *)
VersionOrdersStatus ==
    \A a, b \in Issued : a.version < b.version => a.gen <= b.gen
=============================================================================
