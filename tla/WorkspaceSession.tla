-------------------------- MODULE WorkspaceSession -------------------------
(***************************************************************************)
(* ws-daemon's session of one workspace instance: its state in memory, its *)
(* state file and its content on disk                                      *)
(* (components/ws-daemon/pkg/internal/session/workspace.go and store.go,   *)
(* InitWorkspace, WaitForInit and DisposeWorkspace in                      *)
(* pkg/content/service.go).                                                *)
(*                                                                         *)
(* The callers are ws-manager's: one InitWorkspace, repeated while the     *)
(* daemon is unavailable, and finalizers, each of which calls WaitForInit  *)
(* and then DisposeWorkspace; several run at once when a call was given up *)
(* by its deadline, or ws-manager restarted, while the daemon still works  *)
(* on it.  A step of the model is what a goroutine does under one lock, or *)
(* one operation on the disk.  sync.Cond wakes only those already waiting. *)
(* A goroutine keeps working on the session object it found, also when the *)
(* store has forgotten it and a later InitWorkspace has created another:   *)
(* objects are numbered; there are at most two in the life of a process.   *)
(*                                                                         *)
(* The state file is written in place: os.WriteFile truncates it, then     *)
(* writes.  A crash or a failure in between, or two writers at once, leave *)
(* a file that cannot be loaded, and a hook may fail when it is loaded: in *)
(* both cases NewStore goes on without the session.                        *)
(***************************************************************************)
EXTENDS Integers, FiniteSets

CONSTANTS
    Init_,          \* the goroutine that serves InitWorkspace
    Disposers,      \* the goroutines that serve finalizers
    Backup,         \* whether the finalizers ask for a backup
    MaxFailures,    \* bound: operations that fail
    MaxCrashes      \* bound: crashes of ws-daemon

ASSUME SessionAssumption ==
    /\ Init_ \notin Disposers
    /\ Backup \in BOOLEAN
    /\ MaxFailures \in Nat /\ MaxCrashes \in Nat

VARIABLES
    store,      \* the session object in Store.workspaces, 0 if none
    state,      \* Workspace.state of each session object
    sess,       \* the session object each goroutine works on, 0 if none
    file,       \* the state in <instance>.workspace.json, "none", "empty" or "torn"
    content,    \* the workspace's directory
    backup,     \* whether a complete backup is in remote storage
    pc,         \* where each goroutine is
    doc,        \* what Persist writes, for each goroutine; "unlinked": to a removed file
    asked,      \* ws-manager's InitWorkspace: "pending", "ok", "failed"
    readyTold,  \* history: whether a WaitForInit has answered "ready"
    redone,     \* history: whether InitWorkspace began anew beside a valid state file
    failures,   \* failed operations so far
    crashes     \* crashes so far

vars == <<store, state, sess, file, content, backup, pc, doc, asked, readyTold, redone, failures,
          crashes>>

-----------------------------------------------------------------------------
Goroutines == Disposers \cup {Init_}
Objects == 1..2

States == {"initializing", "ready", "disposing", "disposed"}

StateOf(g) == state[sess[g]]
SetState(g, new) == state' = [state EXCEPT ![sess[g]] = new]

(* Store.Delete holds workspacesLock while it disposes of the session. *)
Locked == \E g \in Goroutines : pc[g] \in {"removeFile", "markDisposed", "removeContent"}

Goto(g, label) == pc' = [pc EXCEPT ![g] = label]

(* operatingCondition.Broadcast, by g, which continues at label. *)
Broadcast(g, label) ==
    pc' = [h \in Goroutines |->
              CASE h = g -> label
                [] h # g /\ sess[h] = sess[g] /\ pc[h] = "waitingForInit" -> "wokenForInit"
                [] h # g /\ sess[h] = sess[g] /\ pc[h] = "waitingForDisposal" -> "wokenForDisposal"
                [] OTHER -> pc[h]]

MayFail ==
    /\ failures < MaxFailures
    /\ failures' = failures + 1

Init ==
    /\ store = 0
    /\ state = [o \in Objects |-> "none"]
    /\ sess = [g \in Goroutines |-> 0]
    /\ file = "none"
    /\ content = "none"
    /\ backup = FALSE
    /\ pc = [g \in Goroutines |-> "idle"]
    /\ doc = [g \in Goroutines |-> "none"]
    /\ asked = "pending"
    /\ readyTold = FALSE
    /\ redone = FALSE
    /\ failures = 0
    /\ crashes = 0

-----------------------------------------------------------------------------
(* InitWorkspace *)

(* NewWorkspace; to ws-manager "AlreadyExists" is as good as success. *)
InitWorkspace ==
    /\ pc[Init_] = "idle" /\ asked = "pending" /\ ~Locked
    /\ IF store # 0
       THEN asked' = "ok" /\ UNCHANGED <<store, state, sess, content, pc, redone>>
       ELSE /\ store' = CHOOSE o \in Objects : state[o] = "none"
            /\ state' = [state EXCEPT ![store'] = "initializing"]
            /\ sess' = [sess EXCEPT ![Init_] = store']
            /\ content' = "partial"
            /\ Goto(Init_, "runInitializer")
            /\ redone' = (redone \/ file \in States)
            /\ UNCHANGED asked
    /\ UNCHANGED <<file, backup, doc, readyTold, failures, crashes>>

RunInitializer ==
    /\ pc[Init_] = "runInitializer"
    /\ content' = "complete"
    /\ Goto(Init_, "persistInit")
    /\ UNCHANGED <<sess, store, state, file, backup, doc, asked, readyTold, redone, failures,
                   crashes>>

\* Mutant of MarkReady: nobody is woken.
MutMarkReadySilently ==
    /\ pc[Init_] = "markReady"
    /\ SetState(Init_, "ready")
    /\ Goto(Init_, "hooks")
    /\ UNCHANGED <<sess, store, file, content, backup, doc, asked, readyTold, redone,
                   failures, crashes>>

(* MarkInitDone, between its two calls of Persist *)
MarkReady ==
    /\ pc[Init_] = "markReady"
    /\ SetState(Init_, "ready")
    /\ Broadcast(Init_, "hooks")
    /\ UNCHANGED <<sess, store, file, content, backup, doc, asked, readyTold, redone,
                   failures, crashes>>

RunHooks ==
    /\ pc[Init_] = "hooks"
    /\ Goto(Init_, "persistReady")
    /\ UNCHANGED <<sess, store, state, file, content, backup, doc, asked, readyTold, redone,
                   failures, crashes>>

AnswerInit ==
    /\ pc[Init_] = "answer"
    /\ asked' = "ok"
    /\ Goto(Init_, "done")
    /\ UNCHANGED <<sess, store, state, file, content, backup, doc, readyTold, redone,
                   failures, crashes>>

(* A hook of NewWorkspace fails: there is no session to delete. *)
NewWorkspaceFails ==
    /\ pc[Init_] = "idle" /\ asked = "pending" /\ ~Locked /\ store = 0
    /\ MayFail
    /\ asked' = "failed"
    /\ Goto(Init_, "done")
    /\ UNCHANGED <<sess, store, state, file, content, backup, doc, readyTold, redone, crashes>>

-----------------------------------------------------------------------------
(* Persist: marshal under the lock, write without it. *)

PersistAt == [persistInit |-> "openInit", persistReady |-> "openReady",
              persistDisposing |-> "openDisposing", persistGitStatus |-> "openGitStatus"]

OpenAt == [openInit |-> "writeInit", openReady |-> "writeReady",
           openDisposing |-> "writeDisposing", openGitStatus |-> "writeGitStatus"]

AfterWrite == [writeInit |-> "markReady", writeReady |-> "answer",
               writeDisposing |-> IF Backup THEN "upload" ELSE "persistGitStatus",
               writeGitStatus |-> "delete"]

Marshal(g) ==
    /\ pc[g] \in DOMAIN PersistAt
    /\ doc' = [doc EXCEPT ![g] = StateOf(g)]
    /\ Goto(g, PersistAt[pc[g]])
    /\ UNCHANGED <<sess, store, state, file, content, backup, asked, readyTold, redone,
                   failures, crashes>>

(* os.WriteFile: open, which truncates or creates the file... *)
OpenFile(g) ==
    /\ pc[g] \in DOMAIN OpenAt
    /\ file' = "empty"
    /\ Goto(g, OpenAt[pc[g]])
    /\ UNCHANGED <<sess, store, state, content, backup, doc, asked, readyTold, redone, failures,
                   crashes>>

(* ...then write.  What is written over what another writer wrote since    *)
(* leaves the rest of a longer document behind; what is written to a file  *)
(* removed since is nowhere. *)
Overlay(g) ==
    IF doc[g] = "unlinked" THEN {file}
    ELSE IF file = "empty" THEN {doc[g]} ELSE {doc[g], "torn"}

WriteFile(g) ==
    /\ pc[g] \in DOMAIN AfterWrite
    /\ file' \in Overlay(g)
    /\ doc' = [doc EXCEPT ![g] = "none"]
    /\ Goto(g, AfterWrite[pc[g]])
    /\ UNCHANGED <<sess, store, state, content, backup, asked, readyTold, redone, failures,
                   crashes>>

(* A write that fails may have written a part. *)
CutShort(g) ==
    IF pc[g] \in DOMAIN AfterWrite /\ doc[g] # "unlinked" THEN {file, "torn"} ELSE {file}

(* The initializer, a hook or Persist fails: the session is deleted. *)
InitFails ==
    /\ pc[Init_] \in {"runInitializer", "hooks", "openInit", "writeInit", "openReady", "writeReady"}
    /\ MayFail
    /\ file' \in CutShort(Init_)
    /\ doc' = [doc EXCEPT ![Init_] = "none"]
    /\ Goto(Init_, "delete")
    /\ UNCHANGED <<sess, store, state, content, backup, asked, readyTold, redone, crashes>>

-----------------------------------------------------------------------------
(* WaitForInit *)

CallWaitForInit(d) ==
    /\ pc[d] = "idle" /\ ~Locked
    /\ sess' = [sess EXCEPT ![d] = store]
    /\ Goto(d, IF store # 0 THEN "waitForInit" ELSE "notFound")
    /\ UNCHANGED <<store, state, file, content, backup, doc, asked, readyTold, redone,
                   failures, crashes>>

AnswerReady(d) ==
    /\ Goto(d, IF StateOf(d) = "ready" THEN "dispose" ELSE "rejected")
    /\ readyTold' = (readyTold \/ StateOf(d) = "ready")

WaitForInit(d) ==
    /\ pc[d] = "waitForInit"
    /\ IF StateOf(d) = "initializing"
       THEN Goto(d, "beforeInitWait") /\ UNCHANGED readyTold
       ELSE AnswerReady(d)
    /\ UNCHANGED <<sess, store, state, file, content, backup, doc, asked, redone, failures,
                   crashes>>

(* operatingCondition.Wait, some time after the state was looked at *)
EnterWait(d) ==
    /\ \/ pc[d] = "beforeInitWait" /\ Goto(d, "waitingForInit")
       \/ pc[d] = "beforeDisposalWait" /\ Goto(d, "waitingForDisposal")
    /\ UNCHANGED <<sess, store, state, file, content, backup, doc, asked, readyTold, redone,
                   failures, crashes>>

WokenForInit(d) ==
    /\ pc[d] = "wokenForInit"
    /\ AnswerReady(d)
    /\ UNCHANGED <<sess, store, state, file, content, backup, doc, asked, redone, failures,
                   crashes>>

-----------------------------------------------------------------------------
(* DisposeWorkspace *)

DisposeWorkspace(d) ==
    /\ pc[d] = "dispose" /\ ~Locked
    /\ sess' = [sess EXCEPT ![d] = store]
    /\ Goto(d, CASE store = 0 -> "notFound"
                 [] store # 0 /\ Backup /\ state[store] # "ready" -> "rejected"
                 [] OTHER -> "waitOrMark")
    /\ UNCHANGED <<store, state, file, content, backup, doc, asked, readyTold, redone,
                   failures, crashes>>

\* Mutant of WaitOrMarkForDisposal: a session that is being disposed is marked again.
MutMarkAgain(d) ==
    /\ pc[d] = "waitOrMark"
    /\ IF StateOf(d) = "disposed" THEN Goto(d, "done") /\ UNCHANGED state
       ELSE SetState(d, "disposing") /\ Goto(d, "persistDisposing")
    /\ UNCHANGED <<sess, store, file, content, backup, doc, asked, readyTold, redone,
                   failures, crashes>>

WaitOrMarkForDisposal(d) ==
    /\ pc[d] = "waitOrMark"
    /\ \/ StateOf(d) = "disposed" /\ Goto(d, "done") /\ UNCHANGED state
       \/ StateOf(d) = "disposing" /\ Goto(d, "beforeDisposalWait") /\ UNCHANGED state
       \/ /\ StateOf(d) \notin {"disposed", "disposing"}
          /\ SetState(d, "disposing")
          /\ Goto(d, "persistDisposing")
    /\ UNCHANGED <<sess, store, file, content, backup, doc, asked, readyTold, redone,
                   failures, crashes>>

WokenForDisposal(d) ==
    /\ pc[d] = "wokenForDisposal"
    /\ Goto(d, "done")
    /\ UNCHANGED <<sess, store, state, file, content, backup, doc, asked, readyTold, redone,
                   failures, crashes>>

UploadContent(d) ==
    /\ pc[d] = "upload"
    /\ backup' = (backup \/ content = "complete")
    /\ Goto(d, "persistGitStatus")
    /\ UNCHANGED <<sess, store, state, file, content, doc, asked, readyTold, redone, failures,
                   crashes>>

\* Mutant of AfterFailure: a failed upload does not end the call.
MutUploadFailureIgnored ==
    [upload |-> "persistGitStatus", openDisposing |-> "failed", writeDisposing |-> "failed",
     openGitStatus |-> "delete", writeGitStatus |-> "delete"]

(* A failing upload, or Persist, ends the call with the session marked as  *)
(* disposing; only for the Git status Persist's error is ignored. *)
AfterFailure ==
    [upload |-> "failed", openDisposing |-> "failed", writeDisposing |-> "failed",
     openGitStatus |-> "delete", writeGitStatus |-> "delete"]

DisposeFails(d) ==
    /\ pc[d] \in DOMAIN AfterFailure
    /\ MayFail
    /\ file' \in CutShort(d)
    /\ doc' = [doc EXCEPT ![d] = "none"]
    /\ Goto(d, AfterFailure[pc[d]])
    /\ UNCHANGED <<sess, store, state, content, backup, asked, readyTold, redone, crashes>>

-----------------------------------------------------------------------------
(* Store.Delete and Workspace.Dispose, for both kinds of callers *)

EndDelete(g) ==
    /\ store' = 0
    /\ Goto(g, "done")
    /\ asked' = IF g = Init_ THEN "failed" ELSE asked

Delete(g) ==
    /\ pc[g] = "delete" /\ ~Locked
    /\ IF store # 0
       THEN /\ sess' = [sess EXCEPT ![g] = store]
            /\ Goto(g, "removeFile")
            /\ UNCHANGED <<store, asked>>
       ELSE EndDelete(g) /\ UNCHANGED sess
    /\ UNCHANGED <<state, file, content, backup, doc, readyTold, redone, failures, crashes>>

RemoveFile(g) ==
    /\ pc[g] = "removeFile"
    /\ file' = "none"
    /\ doc' = [h \in Goroutines |-> IF pc[h] \in DOMAIN AfterWrite THEN "unlinked" ELSE doc[h]]
    /\ Goto(g, "markDisposed")
    /\ UNCHANGED <<sess, store, state, content, backup, asked, readyTold, redone, failures,
                   crashes>>

\* Mutant of MarkDisposed: the state is not set.
MutMarkNothing(g) ==
    /\ pc[g] = "markDisposed"
    /\ Broadcast(g, "removeContent")
    /\ UNCHANGED <<sess, store, state, file, content, backup, doc, asked, readyTold, redone,
                   failures, crashes>>

MarkDisposed(g) ==
    /\ pc[g] = "markDisposed"
    /\ SetState(g, "disposed")
    /\ Broadcast(g, "removeContent")
    /\ UNCHANGED <<sess, store, file, content, backup, doc, asked, readyTold, redone,
                   failures, crashes>>

RemoveContent(g) ==
    /\ pc[g] = "removeContent"
    /\ content' = "removed"
    /\ EndDelete(g)
    /\ UNCHANGED <<sess, state, file, backup, doc, readyTold, redone, failures, crashes>>

(* A step of Dispose fails; the session leaves the store all the same. *)
DeleteFails(g) ==
    /\ pc[g] \in {"removeFile", "removeContent"}
    /\ MayFail
    /\ EndDelete(g)
    /\ UNCHANGED <<sess, state, file, content, backup, doc, readyTold, redone, crashes>>

-----------------------------------------------------------------------------
(* NewStore: the session is restored from its state file... *)
Restored ==
    /\ file \in States
    /\ store' = 1
    /\ state' = [o \in Objects |-> IF o = 1 THEN file ELSE "none"]
    /\ UNCHANGED failures

(* ..."this workspace is lost": there is no file, it cannot be loaded, or  *)
(* a hook of its state fails; there is none for disposing.  The file stays.*)
NotRestored ==
    /\ IF file \in States THEN file # "disposing" /\ MayFail ELSE UNCHANGED failures
    /\ store' = 0
    /\ state' = [o \in Objects |-> "none"]

Restore == Restored \/ NotRestored

(* ws-daemon crashes and restarts.  Its callers see "Unavailable" and call *)
(* again; calls that were answered are not repeated. *)
Crash ==
    /\ crashes < MaxCrashes
    /\ crashes' = crashes + 1
    /\ Restore
    /\ pc' = [g \in Goroutines |->
                IF pc[g] \in {"done", "failed", "rejected", "notFound"} THEN pc[g] ELSE "idle"]
    /\ doc' = [g \in Goroutines |-> "none"]
    /\ sess' = [g \in Goroutines |-> 0]
    /\ UNCHANGED <<file, content, backup, asked, readyTold, redone>>

InitStep ==
    InitWorkspace \/ RunInitializer \/ MarkReady \/ RunHooks \/ AnswerInit

DisposerStep(d) ==
    \/ CallWaitForInit(d) \/ WaitForInit(d) \/ EnterWait(d) \/ WokenForInit(d)
    \/ DisposeWorkspace(d) \/ WaitOrMarkForDisposal(d) \/ WokenForDisposal(d)
    \/ UploadContent(d)

SharedStep(g) ==
    \/ Marshal(g) \/ OpenFile(g) \/ WriteFile(g)
    \/ Delete(g) \/ RemoveFile(g) \/ MarkDisposed(g) \/ RemoveContent(g)

Next ==
    \/ InitStep \/ NewWorkspaceFails \/ InitFails
    \/ \E d \in Disposers : DisposerStep(d) \/ DisposeFails(d)
    \/ \E g \in Goroutines : SharedStep(g) \/ DeleteFails(g)
    \/ Crash

Spec == Init /\ [][Next]_vars

(* The Go scheduler runs what can run; nobody has to call, fail or crash. *)
Fairness ==
    /\ WF_vars(pc[Init_] # "idle" /\ InitStep)
    /\ \A d \in Disposers : WF_vars(pc[d] # "idle" /\ DisposerStep(d))
    /\ \A g \in Goroutines : WF_vars(SharedStep(g))

FairSpec == Spec /\ Fairness

-----------------------------------------------------------------------------
(* Where a goroutine has no call under way *)
Resting == {"idle", "done", "failed", "rejected", "notFound"}

DeleteLabels == {"delete", "removeFile", "markDisposed", "removeContent"}

InitLabels ==
    {"idle", "runInitializer", "persistInit", "openInit", "writeInit", "markReady", "hooks",
     "persistReady", "openReady", "writeReady", "answer", "done"} \cup DeleteLabels

DisposalLabels ==
    {"persistDisposing", "openDisposing", "writeDisposing", "upload",
     "persistGitStatus", "openGitStatus", "writeGitStatus"} \cup DeleteLabels

DisposerLabels ==
    {"waitForInit", "beforeInitWait", "waitingForInit", "wokenForInit", "dispose", "waitOrMark",
     "beforeDisposalWait", "waitingForDisposal", "wokenForDisposal"}
        \cup DisposalLabels \cup Resting

Labels == InitLabels \cup DisposerLabels

UploadLabels == {"persistDisposing", "openDisposing", "writeDisposing", "upload"}

Disposing == {d \in Disposers : pc[d] \in DisposalLabels}

(* The session objects nobody has marked for disposal yet *)
Live == {o \in Objects : state[o] \in {"initializing", "ready"}}

(* A session in the store always has a lifecycle state, restarts included, *)
(* and only what was marshalled from one is written to the state file.     *)
TypeOK ==
    /\ backup \in BOOLEAN /\ readyTold \in BOOLEAN /\ redone \in BOOLEAN
    /\ store \in Objects \cup {0} /\ sess \in [Goroutines -> Objects \cup {0}]
    /\ state \in [Objects -> States \cup {"none"}]
    /\ store # 0 => state[store] # "none"
    /\ file \in States \cup {"none", "empty", "torn"}
    /\ content \in {"none", "partial", "complete", "removed"}
    /\ pc \in [Goroutines -> Labels]
    /\ doc \in [Goroutines -> States \cup {"none", "unlinked"}]
    /\ \A g \in Goroutines :
          /\ pc[g] \in DOMAIN OpenAt => doc[g] \in States
          /\ pc[g] \in DOMAIN AfterWrite => doc[g] \in States \cup {"unlinked"}
    /\ asked \in {"pending", "ok", "failed"}
    /\ failures \in 0..MaxFailures /\ crashes \in 0..MaxCrashes

(* However many finalizers call, in whatever order they are woken, and     *)
(* across restarts: at most one backs up and disposes of the workspace     *)
(* (DisposeWorkspace, "Maybe there's someone else already trying to        *)
(* dispose the workspace").  Of finalizers that ask for a backup, that is: *)
(* without one DisposeWorkspace also takes sessions that are not ready.    *)
OneDisposer == Backup => Cardinality(Disposing) <= 1

(* Every goroutine is at a label of its own call and, while it works, on a *)
(* session object that was created.                                        *)
GoroutinesAtWork ==
    /\ pc[Init_] \in InitLabels
    /\ \A d \in Disposers : pc[d] \in DisposerLabels
    /\ \A g \in Goroutines :
          /\ pc[g] \notin Resting => sess[g] # 0
          /\ sess[g] # 0 => state[sess[g]] # "none"
    /\ pc[Init_] = "idle" => \E o \in Objects : state[o] = "none"
    /\ asked = "failed" => pc[Init_] = "done"

(* A session that is still to be disposed of is the one in the store, or   *)
(* was lost from it by the failed InitWorkspace, which is not repeated; as *)
(* long as a finalizer disposes of a session there is no such session, and *)
(* none can be created (NewWorkspace, WaitOrMarkForDisposal, Delete).      *)
(* This is why there is one disposer, of those that ask for a backup.      *)
OneLiveSession ==
    Backup =>
    /\ pc[Init_] \in {"runInitializer", "persistInit", "openInit", "writeInit", "markReady"}
          => state[sess[Init_]] = "initializing"
    /\ \A o \in Live : store = o \/ (store = 0 /\ pc[Init_] = "done")
    /\ \A o, p \in Live : o = p
    /\ \A d \in Disposers : pc[d] = "waitOrMark" => state[sess[d]] # "initializing"
    /\ \A d \in Disposing : Live = {} /\ (store # 0 \/ pc[Init_] = "done")
    /\ \A d, e \in Disposing : d = e

(* A store without the session: nobody is at work. *)
EmptyStore ==
    store = 0 =>
        /\ \A o \in Objects : state[o] = "none"
        /\ pc[Init_] \in {"idle", "done"}
        /\ \A d \in Disposers : pc[d] \in Resting

(* Whatever calls itself initialized, or has a state file that can be      *)
(* loaded, is. *)
ReadyIsComplete ==
    content # "complete" =>
        /\ file \notin States
        /\ \A o \in Objects : state[o] \notin {"ready", "disposing"}
        /\ pc[Init_] \notin {"persistInit", "openInit", "writeInit", "markReady", "hooks",
                             "persistReady", "openReady", "writeReady", "answer"}
        /\ \A d \in Disposers : pc[d] \notin {"waitOrMark"} \cup UploadLabels

BeforeUpload == \A d \in Disposing : pc[d] \in UploadLabels

(* Until there is a backup or the initialization has failed, the content   *)
(* is on disk where it should be, and nobody is past the upload: nothing   *)
(* has been removed (DisposeWorkspace, Store.Delete, NewStore).  Not so    *)
(* once a session that NewStore gave up, because a hook failed, has been   *)
(* initialized anew: its old state file is still there, and the next       *)
(* restart may take it for that of the content half written over it.       *)
NothingRemovedYet ==
    Backup /\ ~backup /\ asked # "failed" /\ ~redone =>
        content # "removed" /\ EmptyStore /\ ReadyIsComplete /\ BeforeUpload

(* The state is well formed, there is one disposer at a time, and, which   *)
(* is why, one session that is still to be disposed of; what has been      *)
(* removed was saved.  The parts say under which conditions.               *)
SessionInv ==
    TypeOK /\ OneDisposer /\ GoroutinesAtWork /\ OneLiveSession /\ NothingRemovedYet

(* The content of a workspace whose initialization did not fail is not     *)
(* removed before a backup of it is complete, whatever fails or crashes,   *)
(* state files that cannot be loaded included; only not if InitWorkspace   *)
(* was repeated for a session lost to a failing hook, beside its old and   *)
(* still valid state file (see NothingRemovedYet).                         *)
BackedUpBeforeRemoval ==
    Backup /\ content = "removed" /\ asked # "failed" /\ ~redone => backup

(* Unless something fails or crashes, a session that was marked for        *)
(* disposal is disposed of, with its waiters and the initializer's late    *)
(* Persist around it.                                                      *)
MarkedIsDisposed ==
    \A o \in Objects :
        state[o] = "disposing" ~>
            \/ state[o] = "disposed" /\ content = "removed"
            \/ failures + crashes > 0

(* A finalizer that sits in WaitForInit's Wait while the initializer still *)
(* runs is released, by MarkInitDone or, if the initializer fails, by the  *)
(* disposal that follows; only a crash, which ends its call, or a disposal *)
(* that fails as well leaves it there.                                     *)
WaiterIsReleased ==
    \A d \in Disposers :
        pc[d] = "waitingForInit" /\ StateOf(d) = "initializing" ~>
            pc[d] # "waitingForInit" \/ crashes > 0 \/ failures > 1

-----------------------------------------------------------------------------
(* Statements of the repository's comments that the code does not keep:    *)
(* TLC refutes them, and README.md says how and where.                     *)

(* workspace.go, WaitForInit: "waits until this workspace is initialized". *)
WaitForInitReturns ==
    \A d \in Disposers :
        pc[d] = "waitForInit" ~> pc[d] \notin {"waitForInit", "beforeInitWait", "waitingForInit"}

(* service.go, DisposeWorkspace: a refused backup was one "of a session    *)
(* that was never ready".                                                  *)
RefusedWasNeverReady ==
    [][\A d \in Disposers : DisposeWorkspace(d) /\ pc'[d] = "rejected" => ~readyTold]_vars

(* workspace.go, MarkInitDone: "Otherwise we might have wsman thinking     *)
(* something different than a restarted ws-daemon."                        *)
ReadySurvivesRestart == readyTold /\ store # 0 => state[store] # "initializing"

(* store.go, NewStore: "cannot load session - this workspace is lost": a   *)
(* session that was given up does not come back.                           *)
LostStaysLost ==
    [][Crash /\ crashes > 0 /\ store = 0 /\ asked = "pending" => store' = 0]_vars

(* workspace.go: Dispose "marks the workspace as disposed and clears it    *)
(* from disk": once disposed of, no state file is left to restore from.    *)
DisposedLeavesNoFile == content = "removed" => file = "none"
=============================================================================
