----------------------- MODULE WsManagerBridgeProofs -----------------------
(***************************************************************************)
(* Proofs about WsManagerBridge: for any set of statuses ws-manager may    *)
(* send, in any order and any number of times, with any versions, and any  *)
(* number of failing database calls, for prebuilds and other workspaces.   *)
(*                                                                         *)
(* BridgeInv is inductive.  What carries it is HeldRecords: the statement  *)
(* about a row (db, prebuild, tokens) is also made of the record each      *)
(* activity took from it before an await and will store after it.          *)
(***************************************************************************)
EXTENDS WsManagerBridge, TLAPS

(* The fields of the constant records. *)
LEMMA InitialRecords ==
    /\ NoStatus \in Statuses /\ NoStatus.phase = "STOPPED"
    /\ NewInstance \in Instances /\ NewInstance.phase = "pending"
    /\ ~NewInstance.stoppedTime /\ ~NewInstance.stoppingTime
    /\ NewPrebuild \in Prebuilds /\ NewPrebuild.statusVersion = 0
    /\ Idle.at = "idle" /\ Idle.msg = NoStatus
    /\ Idle.rec = NewInstance /\ Idle.pb = NewPrebuild
BY DEF NoStatus, NewInstance, NewPrebuild, Idle, Statuses, Phases, Conditions,
       Instances, DBPhases, Prebuilds, PrebuildStates

(* Entering the stopped phase sets both times. *)
LEMMA EnterStoppedFields ==
    ASSUME NEW rec \in Instances
    PROVE  /\ EnterStopped(rec) \in Instances
           /\ EnterStopped(rec).phase = "stopped"
           /\ EnterStopped(rec).stoppedTime /\ EnterStopped(rec).stoppingTime
BY DEF EnterStopped, Instances, DBPhases

(* The record statusUpdate computes is a row whose times are complete when *)
(* those of the row it read are; a STOPPED status makes it stopped.        *)
LEMMA ApplyStatusFields ==
    ASSUME NEW instance \in Instances, NEW status \in Statuses,
           instance.stoppedTime => instance.stoppingTime
    PROVE  /\ ApplyStatus(instance, status) \in Instances
           /\ ApplyStatus(instance, status).stoppedTime
                 => ApplyStatus(instance, status).stoppingTime
           /\ status.phase = "STOPPED" => ApplyStatus(instance, status).phase = "stopped"
<1>. DEFINE base == [instance EXCEPT !.version = status.version]
<1>1. /\ base \in Instances
      /\ base.stoppedTime = instance.stoppedTime /\ base.stoppingTime = instance.stoppingTime
  BY DEF Instances, Statuses
<1>2. status.phase \in Phases
  BY DEF Statuses
<1>3. CASE status.phase = "STOPPED"
  BY <1>1, <1>3, EnterStoppedFields DEF ApplyStatus
<1>4. CASE status.phase = "RUNNING"
  BY <1>1, <1>4 DEF ApplyStatus, Instances, DBPhases
<1>5. CASE status.phase = "STOPPING"
  BY <1>1, <1>5 DEF ApplyStatus, Instances, DBPhases
<1>6. CASE status.phase \in {"PENDING", "CREATING", "INITIALIZING", "INTERRUPTED"}
  BY <1>1, <1>6 DEF ApplyStatus, Instances, DBPhases
<1>. QED
  BY <1>2, <1>3, <1>4, <1>5, <1>6 DEF Phases

(* mapWorkspaceStatusToPrebuild yields a state of the prebuild or none. *)
LEMMA PrebuildStateType ==
    ASSUME NEW status \in Statuses
    PROVE  PrebuildState(status) \in PrebuildStates \cup {"none"}
BY DEF PrebuildState, PrebuildStates

LEMMA InitEstablishes == Init => BridgeInv
<1>. SUFFICES ASSUME Init PROVE BridgeInv
  OBVIOUS
<1>1. db \in Instances /\ ~db.stoppedTime
  <2>1. PICK phase \in {"preparing", "pending"} :
           db = [phase |-> phase, version |-> 0, stoppingTime |-> FALSE, stoppedTime |-> FALSE]
    BY DEF Init
  <2>. QED
    BY <2>1 DEF Instances, DBPhases
<1>2. /\ prebuild \in Prebuilds /\ tokens = TRUE /\ everStopped = FALSE
      /\ failures \in 0..MaxFailures
  BY InitialRecords, BridgeAssumption DEF Init
<1>3. /\ handler = Idle /\ control = Idle
  BY DEF Init
<1>4. TypeOK
  BY <1>1, <1>2, <1>3, InitialRecords DEF TypeOK, Idle
<1>. QED
  BY <1>1, <1>2, <1>3, <1>4, InitialRecords
     DEF BridgeInv, StoppedHasStoppingTime, CleanupAfterStop, HeldRecords

(* The status handler. *)
LEMMA HandleStatusPreserves ==
    ASSUME BridgeInv, NEW status \in Sent, HandleStatus(status)
    PROVE  BridgeInv'
<1>. DEFINE rec == ApplyStatus(db, status)
<1>1. status \in Statuses
  BY BridgeAssumption
<1>2. /\ rec \in Instances
      /\ rec.stoppedTime => rec.stoppingTime
      /\ status.phase = "STOPPED" => rec.phase = "stopped"
  BY <1>1, ApplyStatusFields DEF BridgeInv, TypeOK, StoppedHasStoppingTime
<1>. HIDE DEF rec
<1>3. /\ handler' = [handler EXCEPT !.at = IF IsPrebuild THEN "findPrebuild" ELSE "storeInstance",
                                    !.msg = status, !.rec = rec]
      /\ UNCHANGED <<db, prebuild, tokens, control, failures, everStopped>>
  BY DEF HandleStatus, rec
<1>. QED
  BY <1>1, <1>2, <1>3 DEF BridgeInv, TypeOK, StoppedHasStoppingTime, CleanupAfterStop, HeldRecords

LEMMA FindPrebuildPreserves ==
    ASSUME BridgeInv, FindPrebuild
    PROVE  BridgeInv'
<1>1. CASE StalePrebuild(handler.msg) \/ PrebuildState(handler.msg) = "none"
  BY <1>1 DEF FindPrebuild, BridgeInv, TypeOK, StoppedHasStoppingTime, CleanupAfterStop,
              HeldRecords
<1>2. CASE ~StalePrebuild(handler.msg) /\ PrebuildState(handler.msg) # "none"
  <2>. DEFINE pb == [state |-> PrebuildState(handler.msg), statusVersion |-> handler.msg.version]
  <2>1. handler.msg \in Statuses /\ handler.msg.version \in Nat /\ prebuild.statusVersion \in Nat
    BY DEF BridgeInv, TypeOK, Statuses, Prebuilds
  <2>2. pb \in Prebuilds /\ pb.statusVersion >= prebuild.statusVersion
    BY <1>2, <2>1, PrebuildStateType DEF Prebuilds, StalePrebuild
  <2>. HIDE DEF pb
  <2>3. /\ handler' = [handler EXCEPT !.at = "storePrebuild", !.pb = pb]
        /\ handler.at = "findPrebuild"
        /\ UNCHANGED <<db, prebuild, tokens, control, failures, everStopped>>
    BY <1>2 DEF FindPrebuild, pb
  <2>. QED
    BY <2>2, <2>3 DEF BridgeInv, TypeOK, StoppedHasStoppingTime, CleanupAfterStop, HeldRecords
<1>. QED
  BY <1>1, <1>2

LEMMA StorePrebuildPreserves ==
    ASSUME BridgeInv, StorePrebuild
    PROVE  BridgeInv'
<1>1. /\ prebuild' \in Prebuilds /\ prebuild \in Prebuilds
      /\ prebuild'.statusVersion >= prebuild.statusVersion
  BY DEF StorePrebuild, BridgeInv, TypeOK, HeldRecords
<1>2. control.at = "storePrebuild" => control.pb.statusVersion <= prebuild'.statusVersion
  BY <1>1 DEF BridgeInv, TypeOK, HeldRecords, Prebuilds
<1>3. /\ handler' \in [at : {"storeInstance"}, msg : Statuses, rec : Instances, pb : Prebuilds]
      /\ handler'.rec = handler.rec /\ handler'.msg = handler.msg
      /\ handler.at = "storePrebuild"
      /\ UNCHANGED <<db, tokens, control, failures, everStopped>>
  BY InitialRecords DEF StorePrebuild, BridgeInv, TypeOK
<1>. QED
  BY <1>1, <1>2, <1>3 DEF BridgeInv, TypeOK, StoppedHasStoppingTime, CleanupAfterStop, HeldRecords

LEMMA StorePreserves ==
    ASSUME BridgeInv, Store
    PROVE  BridgeInv'
<1>. USE InitialRecords DEF BridgeInv, TypeOK, StoppedHasStoppingTime, CleanupAfterStop,
                            HeldRecords, Store, StoreAndClean, StoreInstance, Idle
<1>1. CASE handler.at = "storeInstance" /\ handler.msg.phase = "STOPPED"
  BY <1>1
<1>2. CASE handler.at = "storeInstance" /\ handler.msg.phase # "STOPPED"
  BY <1>2
<1>3. CASE handler.at = "onStopped"
  BY <1>3
<1>. QED
  BY <1>1, <1>2, <1>3

LEMMA FailsPreserves ==
    ASSUME BridgeInv, HandlerFails \/ ControlFails
    PROVE  BridgeInv'
<1>. USE InitialRecords, BridgeAssumption DEF BridgeInv, TypeOK, StoppedHasStoppingTime,
                                              CleanupAfterStop, HeldRecords
<1>1. failures' \in 0..MaxFailures
  BY DEF HandlerFails, ControlFails
<1>2. CASE HandlerFails
  BY <1>1, <1>2 DEF HandlerFails, Idle
<1>3. CASE ControlFails
  BY <1>1, <1>3 DEF ControlFails, Idle
<1>. QED
  BY <1>2, <1>3

(* The instance controller. *)
LEMMA DecidePreserves ==
    ASSUME BridgeInv, NEW answer \in {"known", "unknown", "error"}, NEW elapsed \in BOOLEAN,
           Decide(answer, elapsed), UNCHANGED failures
    PROVE  BridgeInv'
<1>. DEFINE rec == EnterStopped(control.rec)
<1>1. /\ rec \in Instances
      /\ rec.phase = "stopped" /\ rec.stoppedTime /\ rec.stoppingTime
  BY EnterStoppedFields DEF BridgeInv, TypeOK
<1>. HIDE DEF rec
<1>2. \/ control' = [control EXCEPT !.at = "storeInstance", !.rec = rec]
      \/ control' = Idle
  BY DEF Decide, rec
<1>3. UNCHANGED <<db, prebuild, tokens, handler, failures, everStopped>>
  BY DEF Decide
<1>4. CASE control' = [control EXCEPT !.at = "storeInstance", !.rec = rec]
  BY <1>1, <1>3, <1>4 DEF BridgeInv, TypeOK, StoppedHasStoppingTime, CleanupAfterStop, HeldRecords
<1>5. CASE control' = Idle
  BY <1>3, <1>5, InitialRecords DEF BridgeInv, TypeOK, StoppedHasStoppingTime, CleanupAfterStop,
                                    HeldRecords, Idle
<1>. QED
  BY <1>2, <1>4, <1>5

LEMMA ControlStepPreserves ==
    ASSUME BridgeInv, ControlStep
    PROVE  BridgeInv'
<1>. USE InitialRecords DEF BridgeInv, TypeOK, StoppedHasStoppingTime, CleanupAfterStop,
                            HeldRecords
<1>1. CASE ListNonStopped
  BY <1>1 DEF ListNonStopped
<1>2. CASE MarkStopped
  BY <1>2 DEF MarkStopped, StoreInstance, Idle
<1>3. CASE ControlOnStopped
  BY <1>3 DEF ControlOnStopped, Idle
<1>4. CASE ControlFindPrebuild
  <2>. DEFINE pb == [prebuild EXCEPT !.state = "aborted"]
  <2>1. pb \in Prebuilds /\ pb.statusVersion <= prebuild.statusVersion
    BY DEF Prebuilds, PrebuildStates
  <2>. HIDE DEF pb
  <2>2. /\ control' = [control EXCEPT !.at = "storePrebuild", !.pb = pb]
        /\ control.at = "findPrebuild"
        /\ UNCHANGED <<db, prebuild, tokens, handler, failures, everStopped>>
    BY <1>4 DEF ControlFindPrebuild, pb
  <2>. QED
    BY <2>1, <2>2
<1>5. CASE ControlStorePrebuild
  BY <1>5 DEF ControlStorePrebuild, Prebuilds, Idle
<1>. QED
  BY <1>1, <1>2, <1>3, <1>4, <1>5 DEF ControlStep

LEMMA NextPreserves == BridgeInv /\ [Next]_vars => BridgeInv'
<1>. SUFFICES ASSUME BridgeInv, [Next]_vars
              PROVE  BridgeInv'
  OBVIOUS
<1>1. CASE \E status \in Sent : HandleStatus(status)
  BY <1>1, HandleStatusPreserves
<1>2. CASE HandlerStep
  BY <1>2, FindPrebuildPreserves, StorePrebuildPreserves, StorePreserves DEF HandlerStep
<1>3. CASE HandlerFails \/ ControlFails
  BY <1>3, FailsPreserves
<1>4. CASE ControlStep
  BY <1>4, ControlStepPreserves
<1>5. CASE \E answer \in {"known", "unknown", "error"}, elapsed \in BOOLEAN :
              Decide(answer, elapsed) /\ UNCHANGED failures
  BY <1>5, DecidePreserves
<1>6. CASE UNCHANGED vars
  BY <1>6 DEF vars, bridgeVars, BridgeInv, TypeOK, StoppedHasStoppingTime, CleanupAfterStop,
              HeldRecords
<1>. QED
  BY <1>1, <1>2, <1>3, <1>4, <1>5, <1>6 DEF Next

(* However the reads and writes of the status handler and the instance     *)
(* controller interleave, an instance with a stoppedTime has a             *)
(* stoppingTime and its tokens are deleted only once it was stored as      *)
(* stopped (statusUpdate, markWorkspaceInstanceAsStopped, onStopped).      *)
THEOREM BridgeInvariant == Spec => []BridgeInv
<1>. QED
  BY InitEstablishes, NextPreserves, PTL DEF Spec

(* The prebuild updater never replaces what is stored for a newer status,  *)
(* though it compares versions one await before it stores: the controller, *)
(* which may store in between, never raises the version.                   *)
THEOREM PrebuildKept == Spec => PrebuildNotReverted
<1>1. BridgeInv /\ [Next]_vars
         => [prebuild'.statusVersion < prebuild.statusVersion
                => control.at = "storePrebuild"]_prebuild
  <2>. SUFFICES ASSUME BridgeInv, [Next]_vars, prebuild' # prebuild,
                       control.at # "storePrebuild"
                PROVE  ~(prebuild'.statusVersion < prebuild.statusVersion)
    OBVIOUS
  <2>1. StorePrebuild
    BY DEF Next, vars, bridgeVars, HandleStatus, HandlerStep, FindPrebuild, Store,
           HandlerFails, ControlStep, ListNonStopped, MarkStopped, ControlOnStopped,
           ControlFindPrebuild, ControlStorePrebuild, ControlFails, Decide
  <2>. QED
    BY <2>1 DEF StorePrebuild, BridgeInv, TypeOK, HeldRecords, Prebuilds
<1>. QED
  BY <1>1, BridgeInvariant, PTL DEF Spec, PrebuildNotReverted
=============================================================================
