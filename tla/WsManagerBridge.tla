-------------------------- MODULE WsManagerBridge --------------------------
(***************************************************************************)
(* ws-manager-bridge for one workspace instance it governs                 *)
(* (components/ws-manager-bridge/src/bridge.ts,                            *)
(* src/workspace-instance-controller.ts, src/prebuild-state-mapper.ts,     *)
(* ee/src/prebuild-updater-db.ts).                                         *)
(*                                                                         *)
(* Two asynchronous activities write the instance and its prebuild:        *)
(*   - the status handler, which handles the updates of an instance one    *)
(*     after the other (a Queue per instance);                             *)
(*   - the instance controller, which periodically marks instances stopped *)
(*     that ws-manager does not know of.                                   *)
(* Each reads a record, suspends at an await, and later writes the whole   *)
(* record back; one step of the model is what runs between two awaits.     *)
(* Of a row the model keeps the phase, the version and whether the two     *)
(* times usage is billed from are set.  Here ws-manager may send any       *)
(* status, in any order and any number of times; StatusPipeline composes   *)
(* the bridge with the ws-manager that sends them.                         *)
(***************************************************************************)
EXTENDS Integers

CONSTANTS
    IsPrebuild,     \* whether the workspace has a prebuild record
    Sent,           \* statuses ws-manager may send
    MaxFailures     \* bound: database calls that throw

VARIABLES
    db,         \* the instance's row
    prebuild,   \* the row of its prebuild
    tokens,     \* whether the instance's gitpod tokens exist
    handler,    \* the status handler: where it is, its message and records
    control,    \* the instance controller: where it is and its records
    failures,   \* database calls that have thrown
    everStopped \* history: whether db was ever stored as stopped

bridgeVars == <<db, prebuild, tokens, handler, control, failures, everStopped>>

-----------------------------------------------------------------------------
Phases == {"PENDING", "CREATING", "INITIALIZING", "RUNNING", "INTERRUPTED",
           "STOPPING", "STOPPED"}

Conditions == {"timeout", "failed", "stoppedByRequest", "headlessTaskFailed", "snapshot"}

Statuses == [phase : Phases, cond : SUBSET Conditions, version : Nat]

ASSUME BridgeAssumption ==
    IsPrebuild \in BOOLEAN /\ MaxFailures \in Nat /\ Sent \subseteq Statuses

DBPhases == {"preparing", "pending", "creating", "initializing", "running",
             "interrupted", "stopping", "stopped"}

Instances == [phase : DBPhases, version : Nat,
              stoppingTime : BOOLEAN, stoppedTime : BOOLEAN]

PrebuildStates == {"queued", "building", "available", "failed", "timeout", "aborted"}

Prebuilds == [state : PrebuildStates, statusVersion : Nat]

(* What entering the stopped phase sets, in both writers. *)
EnterStopped(rec) ==
    [rec EXCEPT !.phase = "stopped", !.stoppedTime = TRUE, !.stoppingTime = TRUE]

(* The record statusUpdate computes.  An update at or below the record's   *)
(* version is counted and logged as stale; nothing more follows from it.   *)
ApplyStatus(instance, status) ==
    LET base == [instance EXCEPT !.version = status.version]
    IN  CASE status.phase = "PENDING" -> [base EXCEPT !.phase = "pending"]
          [] status.phase = "CREATING" -> [base EXCEPT !.phase = "creating"]
          [] status.phase = "INITIALIZING" -> [base EXCEPT !.phase = "initializing"]
          [] status.phase = "INTERRUPTED" -> [base EXCEPT !.phase = "interrupted"]
          [] status.phase = "RUNNING" ->
               [base EXCEPT !.phase = "running", !.stoppingTime = FALSE, !.stoppedTime = FALSE]
          [] status.phase = "STOPPING" ->
               IF base.phase = "stopped" THEN base
               ELSE [base EXCEPT !.phase = "stopping", !.stoppingTime = TRUE]
          [] status.phase = "STOPPED" -> EnterStopped(base)

(* mapWorkspaceStatusToPrebuild: the prebuild state an update implies, or  *)
(* "none" for an update it returns undefined for.                          *)
PrebuildState(status) ==
    LET Has(c) == c \in status.cond
    IN  CASE status.phase = "STOPPED" -> "none"
          [] status.phase = "STOPPING" ->
               IF Has("timeout") THEN "timeout"
               ELSE IF Has("failed") THEN "failed"
               ELSE IF Has("stoppedByRequest") THEN "aborted"
               ELSE IF Has("headlessTaskFailed") \/ Has("snapshot") THEN "available"
               ELSE "none"
          [] OTHER -> "building"

\* Mutant of StalePrebuild: the version is not compared.
MutNeverStale(status) == FALSE

StalePrebuild(status) ==
    prebuild.statusVersion > 0 /\ prebuild.statusVersion >= status.version

-----------------------------------------------------------------------------
NoStatus == [phase |-> "STOPPED", cond |-> {}, version |-> 0]
NewInstance == [phase |-> "pending", version |-> 0,
                stoppingTime |-> FALSE, stoppedTime |-> FALSE]
NewPrebuild == [state |-> "queued", statusVersion |-> 0]

Idle == [at |-> "idle", msg |-> NoStatus, rec |-> NewInstance, pb |-> NewPrebuild]

(* The server has stored the instance, "preparing" until it has handed it  *)
(* to ws-manager and "pending" after. *)
Init ==
    /\ db \in [phase : {"preparing", "pending"}, version : {0},
               stoppingTime : {FALSE}, stoppedTime : {FALSE}]
    /\ prebuild = NewPrebuild
    /\ tokens = TRUE
    /\ handler = Idle
    /\ control = Idle
    /\ failures = 0
    /\ everStopped = FALSE

StoreInstance(rec) ==
    /\ db' = rec
    /\ everStopped' = (everStopped \/ rec.phase = "stopped")

-----------------------------------------------------------------------------
(* The status handler. *)

(* statusUpdate up to the prebuild updater: read the row, compute the new  *)
(* record. *)
HandleStatus(status) ==
    /\ handler.at = "idle"
    /\ handler' = [handler EXCEPT
                     !.at = IF IsPrebuild THEN "findPrebuild" ELSE "storeInstance",
                     !.msg = status,
                     !.rec = ApplyStatus(db, status)]
    /\ UNCHANGED <<db, prebuild, tokens, control, failures, everStopped>>

(* updatePrebuiltWorkspace, the read: stale and unmapped updates leave the *)
(* prebuild alone. *)
FindPrebuild ==
    /\ handler.at = "findPrebuild"
    /\ IF StalePrebuild(handler.msg) \/ PrebuildState(handler.msg) = "none"
       THEN handler' = [handler EXCEPT !.at = "storeInstance"]
       ELSE handler' = [handler EXCEPT
                          !.at = "storePrebuild",
                          !.pb = [state |-> PrebuildState(handler.msg),
                                  statusVersion |-> handler.msg.version]]
    /\ UNCHANGED <<db, prebuild, tokens, control, failures, everStopped>>

StorePrebuild ==
    /\ handler.at = "storePrebuild"
    /\ prebuild' = handler.pb
    /\ handler' = [handler EXCEPT !.at = "storeInstance", !.pb = NewPrebuild]
    /\ UNCHANGED <<db, tokens, control, failures, everStopped>>

\* Mutant of StoreAndClean: cleans up before the record is stored.
MutCleanFirst ==
    \/ /\ handler.at = "storeInstance"
       /\ tokens' = (tokens /\ handler.msg.phase # "STOPPED")
       /\ handler' = [handler EXCEPT !.at = "onStopped"]
       /\ UNCHANGED <<db, everStopped>>
    \/ /\ handler.at = "onStopped"
       /\ StoreInstance(handler.rec)
       /\ handler' = Idle
       /\ UNCHANGED tokens

(* storeInstance, then, for a stopped update, onStopped. *)
StoreAndClean ==
    \/ /\ handler.at = "storeInstance"
       /\ StoreInstance(handler.rec)
       /\ handler' = IF handler.msg.phase = "STOPPED"
                     THEN [Idle EXCEPT !.at = "onStopped"] ELSE Idle
       /\ UNCHANGED tokens
    \/ /\ handler.at = "onStopped"
       /\ tokens' = FALSE
       /\ handler' = Idle
       /\ UNCHANGED <<db, everStopped>>

Store == StoreAndClean /\ UNCHANGED <<prebuild, control, failures>>

(* A database call throws: the update is logged and given up. *)
HandlerFails ==
    /\ handler.at # "idle"
    /\ failures < MaxFailures
    /\ failures' = failures + 1
    /\ handler' = Idle
    /\ UNCHANGED <<db, prebuild, tokens, control, everStopped>>

HandlerStep == FindPrebuild \/ StorePrebuild \/ Store

-----------------------------------------------------------------------------
(* The instance controller. *)

(* findRunningInstancesWithWorkspaces: every row not in phase stopped. *)
ListNonStopped ==
    /\ control.at = "idle"
    /\ db.phase # "stopped"
    /\ control' = [control EXCEPT !.at = "getWorkspaces", !.rec = db]
    /\ UNCHANGED <<db, prebuild, tokens, handler, failures, everStopped>>

\* Mutant of Unknown: only running instances are corrected.
MutUnknownRunningOnly(rec, elapsed) == rec.phase = "running"

(* controlNonStoppedWSManagerManagedInstances: rows ws-manager does not    *)
(* know that are to be marked stopped, some only after a timeout. *)
Unknown(rec, elapsed) ==
    \/ rec.phase = "running"
    \/ rec.phase = "pending" /\ elapsed
    \/ rec.phase = "stopping" /\ rec.stoppingTime /\ elapsed

(* controlNotStoppedAppClusterManagedInstance *)
TimedOut(rec, elapsed) == rec.phase = "preparing" /\ elapsed

(* The answer of getWorkspaces decides; a failed call (answer "error")     *)
(* leaves only the timeouts of phases ws-manager does not control. *)
Decide(answer, elapsed) ==
    /\ control.at = "getWorkspaces"
    /\ control' = IF \/ answer = "unknown" /\ Unknown(control.rec, elapsed)
                     \/ TimedOut(control.rec, elapsed)
                  THEN [control EXCEPT !.at = "storeInstance",
                                       !.rec = EnterStopped(control.rec)]
                  ELSE Idle
    /\ UNCHANGED <<db, prebuild, tokens, handler, everStopped>>

(* markWorkspaceInstanceAsStopped: store, onStopped, then the prebuild. *)
MarkStopped ==
    /\ control.at = "storeInstance"
    /\ StoreInstance(control.rec)
    /\ control' = [Idle EXCEPT !.at = "onStopped"]
    /\ UNCHANGED <<prebuild, tokens, handler, failures>>

ControlOnStopped ==
    /\ control.at = "onStopped"
    /\ tokens' = FALSE
    /\ control' = IF IsPrebuild THEN [control EXCEPT !.at = "findPrebuild"] ELSE Idle
    /\ UNCHANGED <<db, prebuild, handler, failures, everStopped>>

(* stopPrebuildInstance *)
ControlFindPrebuild ==
    /\ control.at = "findPrebuild"
    /\ control' = [control EXCEPT !.at = "storePrebuild",
                                  !.pb = [prebuild EXCEPT !.state = "aborted"]]
    /\ UNCHANGED <<db, prebuild, tokens, handler, failures, everStopped>>

ControlStorePrebuild ==
    /\ control.at = "storePrebuild"
    /\ prebuild' = control.pb
    /\ control' = Idle
    /\ UNCHANGED <<db, tokens, handler, failures, everStopped>>

(* A database call throws: this run of the controller ends. *)
ControlFails ==
    /\ control.at \notin {"idle", "getWorkspaces"}
    /\ failures < MaxFailures
    /\ failures' = failures + 1
    /\ control' = Idle
    /\ UNCHANGED <<db, prebuild, tokens, handler, everStopped>>

ControlStep ==
    ListNonStopped \/ MarkStopped \/ ControlOnStopped
        \/ ControlFindPrebuild \/ ControlStorePrebuild

-----------------------------------------------------------------------------
vars == bridgeVars

Next ==
    \/ \E status \in Sent : HandleStatus(status)
    \/ HandlerStep \/ HandlerFails
    \/ ControlStep \/ ControlFails
    \/ \E answer \in {"known", "unknown", "error"}, elapsed \in BOOLEAN :
          Decide(answer, elapsed) /\ UNCHANGED failures

Spec == Init /\ [][Next]_vars

-----------------------------------------------------------------------------
(* Every record an activity holds across an await, and every record it     *)
(* stores, is a proper instance or prebuild row: an update the prebuild    *)
(* state mapper answers with undefined never reaches the prebuild's row.   *)
TypeOK ==
    /\ db \in Instances
    /\ prebuild \in Prebuilds
    /\ tokens \in BOOLEAN
    /\ handler \in [at : {"idle", "findPrebuild", "storePrebuild", "storeInstance", "onStopped"},
                    msg : Statuses, rec : Instances, pb : Prebuilds]
    /\ control \in [at : {"idle", "getWorkspaces", "storeInstance", "onStopped",
                          "findPrebuild", "storePrebuild"},
                    msg : Statuses, rec : Instances, pb : Prebuilds]
    /\ failures \in 0..MaxFailures
    /\ everStopped \in BOOLEAN

(* Usage is billed from these times: an instance with a stoppedTime has a  *)
(* stoppingTime, whichever of the two writers stored it and however their  *)
(* reads and writes interleave (bridge.ts, "Just for this case we need to  *)
(* set it now").                                                           *)
StoppedHasStoppingTime == db.stoppedTime => db.stoppingTime

(* "important: call this after the DB update": the tokens of an instance   *)
(* are not deleted before the database has called it stopped, whichever    *)
(* activity deletes them.                                                  *)
CleanupAfterStop == ~tokens => everStopped

(* What an activity holds across an await is still fit to be stored when   *)
(* it resumes, whatever the other stored meanwhile: its times are complete *)
(* (statusUpdate, markWorkspaceInstanceAsStopped), clean-up is reached     *)
(* through a store of a stopped record only, the prebuild the updater      *)
(* holds is at least as new as the row, the one the controller holds is    *)
(* at most as new (updatePrebuiltWorkspace, stopPrebuildInstance).         *)
HeldRecords ==
    /\ handler.rec.stoppedTime => handler.rec.stoppingTime
    /\ control.rec.stoppedTime => control.rec.stoppingTime
    /\ handler.at \in {"findPrebuild", "storePrebuild", "storeInstance"}
          /\ handler.msg.phase = "STOPPED" => handler.rec.phase = "stopped"
    /\ control.at = "storeInstance" => control.rec.phase = "stopped"
    /\ handler.at = "onStopped" => everStopped
    /\ control.at \in {"onStopped", "findPrebuild", "storePrebuild"} => everStopped
    /\ handler.at = "storePrebuild" => handler.pb.statusVersion >= prebuild.statusVersion
    /\ control.at = "storePrebuild" => control.pb.statusVersion <= prebuild.statusVersion

(* The rows are well formed, the times of a stopped instance are complete  *)
(* and its clean-up comes after them, whichever of the two writers was     *)
(* last (statusUpdate, markWorkspaceInstanceAsStopped).                    *)
BridgeInv == TypeOK /\ StoppedHasStoppingTime /\ CleanupAfterStop /\ HeldRecords

(* Updates may arrive in any order, be repeated or lost: the prebuild      *)
(* updater never replaces what it stored for a newer status.  Only the     *)
(* controller's read-modify-write may (stopPrebuildInstance).              *)
PrebuildNotReverted ==
    [][prebuild'.statusVersion < prebuild.statusVersion => control.at = "storePrebuild"]_prebuild

-----------------------------------------------------------------------------
(* Statements of the repository's comments that the code does not keep:    *)
(* TLC refutes them, and README.md says how and where.                     *)

(* bridge.ts: "We've gotten an event which is older than one we've already *)
(* processed. We shouldn't process the stale one."                         *)
StaleUpdateSkipped ==
    [][\A status \in Sent :
          HandleStatus(status) /\ db.version > 0 /\ db.version >= status.version
              => handler'.at = "idle"]_vars
=============================================================================
