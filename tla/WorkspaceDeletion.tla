-------------------------- MODULE WorkspaceDeletion --------------------------
(***************************************************************************)
(* The end of one workspace: its row in d_b_workspace, its content in the  *)
(* object storage, and everybody who marks, keeps, restores or removes     *)
(* them (components/server/src/workspace: garbage-collector.ts,            *)
(* workspace-deletion-service.ts, gitpod-server-impl.ts and its enterprise *)
(* edition, workspace-starter.ts; components/gitpod-db:                    *)
(* workspace-db-impl.ts, periodic-deleter.ts).                             *)
(*                                                                         *)
(* A deleted workspace is first marked (softDeleted), loses its content    *)
(* after contentRetentionPeriodDays, is marked for the database's deleter  *)
(* after purgeRetentionPeriodDays more, and is then removed.  Every stage  *)
(* lists the workspaces that are due and later writes to them; the stages  *)
(* of one run are not awaited, several servers may think they lead, so a   *)
(* number of them overlap.  The collector asks who leads on every run, the *)
(* database's deleter only when its server starts: ClusterRegistry has the *)
(* same deleter.  One step is what runs between two awaits.                *)
(*                                                                         *)
(* WorkspaceStart has what becomes of an instance; here it runs, is asked  *)
(* to stop, and stops with a last backup.                                  *)
(***************************************************************************)
EXTENDS Integers, FiniteSets

CONSTANTS
    Starts,         \* calls of startWorkspace at the same time, and the instances they create
    Collectors,     \* stages of the garbage collector that may overlap
    Servers,        \* the instances of the server
    MaxCalls,       \* bound: calls that pin, delete or restore, uses of a prebuild, server starts
    MaxFailures     \* bound: calls that fail, crashes

ASSUME DeletionAssumption ==
    /\ IsFiniteSet(Starts) /\ IsFiniteSet(Collectors) /\ IsFiniteSet(Servers)
    /\ MaxCalls \in Nat /\ MaxFailures \in Nat

VARIABLES
    type,       \* "regular", also the "probe" user's, or "prebuild"
    ws,         \* the workspace's row
    content,    \* its backups and snapshots in the storage
    unused,     \* whether its last use is longer ago than minAgeDays
    start,      \* start[s]: where the call is, and its copy of the row
    instance,   \* instance[s]: what the call has created
    current,    \* the instance created last
    user,       \* where deleteWorkspace is
    admin,      \* where adminRestoreSoftDeletedWorkspace is
    gc,         \* gc[g]: what g is about to write
    deleters,   \* servers that run a periodic deleter
    selected,   \* those that have selected the row
    calls,      \* these calls so far
    failures,   \* failures so far
    restoredAtRisk  \* history: it was restored when the deletion of its content had begun

vars == <<type, ws, content, unused, start, instance, current, user, admin, gc, deleters,
          selected, calls, failures, restoredAtRisk>>

-----------------------------------------------------------------------------
(* Times are "" (never), "new", or "old": past the stage's retention time. *)
Times == {"", "new", "old"}
Workspaces == [softDeleted : BOOLEAN, softDeletedTime : Times, contentDeletedTime : Times,
               pinned : BOOLEAN, deleted : BOOLEAN, instancesDeleted : BOOLEAN]
NoWorkspace == [deleted |-> FALSE]
NoStart == [at |-> "idle", copy |-> NoWorkspace]
Nobody == "nobody"

Present == ws # NoWorkspace
InFlight(s) == start[s] # NoStart
Running(s) == instance[s] \in {"running", "stopping"}

(* findRunningInstance looks at the instance created last. *)
RunningInstance == current # Nobody /\ Running(current)

NewWorkspace == [softDeleted |-> FALSE, softDeletedTime |-> "", contentDeletedTime |-> "",
                 pinned |-> FALSE, deleted |-> FALSE, instancesDeleted |-> FALSE]

(* Workspaces deleted before softDeletedTime was introduced have none. *)
Init ==
    /\ type \in {"regular", "probe", "prebuild"}
    /\ ws \in {NewWorkspace, [NewWorkspace EXCEPT !.softDeleted = TRUE]}
    /\ content = "kept"
    /\ unused = FALSE
    /\ start = [s \in Starts |-> NoStart]
    /\ instance = [s \in Starts |-> "none"]
    /\ current = Nobody
    /\ user = "idle"
    /\ admin = "idle"
    /\ gc = [g \in Collectors |-> "idle"]
    /\ deleters \in SUBSET Servers
    /\ selected = {}
    /\ calls = 0
    /\ failures = 0
    /\ restoredAtRisk = FALSE

-----------------------------------------------------------------------------
(* The database. *)

(* repo.update(id, ...): no row, no update. *)
UpdatePartial(changed) == ws' = IF Present THEN changed ELSE ws

(* store of a whole row read before, outside a transaction: a column that  *)
(* was null or false is written, one that was '' was read as undefined and *)
(* is left alone, and a row that is missing is inserted. *)
Store(copy) ==
    LET time(old, now) == IF old = "" THEN now ELSE old
    IN  ws' = IF ~Present THEN copy
              ELSE [ws EXCEPT
                     !.softDeleted = copy.softDeleted, !.pinned = copy.pinned,
                     !.deleted = copy.deleted,
                     !.softDeletedTime = time(copy.softDeletedTime, @),
                     !.contentDeletedTime = time(copy.contentDeletedTime, @)]

MayFail ==
    /\ failures < MaxFailures
    /\ failures' = failures + 1

Call ==
    /\ calls < MaxCalls
    /\ calls' = calls + 1

-----------------------------------------------------------------------------
(* startWorkspace *)

StartOnly == UNCHANGED <<type, content, user, admin, gc, deleters, selected, restoredAtRisk,
                         calls>>

\* Mutant of MayStart: the deletion mark is not looked at.
MutMayStartDeleted == type # "prebuild" /\ ~ws.deleted

MayStart == ~ws.softDeleted /\ type # "prebuild" /\ ~ws.deleted

(* internalGetWorkspace.  The row that was read is looked at later; a call *)
(* that is going to be refused leaves no trace. *)
StartReads(s) ==
    /\ start[s] = NoStart /\ ~Running(s)
    /\ Present /\ MayStart
    /\ start' = [start EXCEPT ![s] = [at |-> "read", copy |-> ws]]
    /\ StartOnly /\ UNCHANGED <<ws, unused, instance, current, failures>>

(* findRunningInstance: if there is one, it is the answer. *)
StartChecks(s) ==
    /\ start[s].at = "read"
    /\ start' = IF RunningInstance THEN [start EXCEPT ![s] = NoStart]
                ELSE [start EXCEPT ![s].at = "checked"]
    /\ StartOnly /\ UNCHANGED <<ws, unused, instance, current, failures>>

(* WorkspaceStarter stores the workspace with its image source before, and *)
(* with the image's name during and after the image build; or not at all. *)
StarterStores(s) ==
    /\ start[s].at \in {"checked", "created"}
    /\ Store(start[s].copy)
    /\ StartOnly /\ UNCHANGED <<unused, start, instance, current, failures>>

StoreInstance(s) ==
    /\ start[s].at = "checked"
    /\ start' = [start EXCEPT ![s].at = "created"]
    /\ instance' = [instance EXCEPT ![s] = "running"]
    /\ current' = s
    /\ unused' = FALSE
    /\ StartOnly /\ UNCHANGED <<ws, failures>>

StarterDone(s) ==
    /\ start[s].at = "created"
    /\ start' = [start EXCEPT ![s] = NoStart]
    /\ StartOnly /\ UNCHANGED <<ws, unused, instance, current, failures>>

(* A call fails or the server crashes. *)
StartFails(s) ==
    /\ InFlight(s)
    /\ MayFail
    /\ start' = [start EXCEPT ![s] = NoStart]
    /\ StartOnly /\ UNCHANGED <<ws, unused, instance, current>>

(* It was asked to, ran into a timeout, or failed: the content is backed up. *)
InstanceStops(s) ==
    /\ Running(s)
    /\ instance' = [instance EXCEPT ![s] = "stopped"]
    /\ content' = "kept"
    /\ unused' = FALSE
    /\ UNCHANGED <<type, ws, start, current, user, admin, gc, deleters, selected,
                   restoredAtRisk, calls, failures>>

-----------------------------------------------------------------------------
(* The calls of users and administrators. *)

UserOnly == UNCHANGED <<type, content, unused, start, current, gc, deleters, selected,
                        restoredAtRisk>>

(* internalStopWorkspace *)
StopRunning ==
    instance' = IF RunningInstance THEN [instance EXCEPT ![current] = "stopping"] ELSE instance

(* stopWorkspace, adminForceStopWorkspace *)
StopWorkspace ==
    /\ Present /\ RunningInstance /\ instance[current] # "stopping"
    /\ StopRunning
    /\ UserOnly /\ UNCHANGED <<ws, user, admin, calls, failures>>

(* deleteWorkspace, up to the mark; what fails before ends the call. *)
DeleteStops ==
    /\ user = "idle" /\ Present
    /\ Call
    /\ StopRunning
    /\ user' = "mark"
    /\ UserOnly /\ UNCHANGED <<ws, admin, failures>>

DeleteFails ==
    /\ user = "mark"
    /\ MayFail
    /\ user' = "idle"
    /\ UserOnly /\ UNCHANGED <<ws, instance, admin, calls>>

(* softDeleteWorkspace *)
SoftDeleted == [ws EXCEPT !.softDeleted = TRUE, !.softDeletedTime = "new"]

DeleteMarks ==
    /\ user = "mark"
    /\ UpdatePartial(SoftDeleted)
    /\ user' = "idle"
    /\ UserOnly /\ UNCHANGED <<instance, admin, calls, failures>>

\* Mutant of Pinned: the mark is stored, too, as it was read before a deletion.
MutPinnedStored(pinned) == [ws EXCEPT !.pinned = pinned, !.softDeleted = FALSE]

(* updateWorkspaceUserPin reads and stores in one transaction: only the    *)
(* column it changed is written. *)
Pinned(pinned) == [ws EXCEPT !.pinned = pinned]

UpdateWorkspaceUserPin(pinned) ==
    /\ Present /\ ws.pinned # pinned
    /\ Call
    /\ UpdatePartial(Pinned(pinned))
    /\ UserOnly /\ UNCHANGED <<instance, user, admin, failures>>

Restorable == ws.softDeleted /\ ws.contentDeletedTime = ""

(* adminRestoreSoftDeletedWorkspace: findById and the checks *)
RestoreReads ==
    /\ admin = "idle" /\ Present
    /\ Restorable
    /\ Call
    /\ admin' = "restore"
    /\ UserOnly /\ UNCHANGED <<ws, instance, user, failures>>

(* The collector is deleting the content, has deleted it, or has failed to *)
(* in part, however long ago. *)
ContentAtRisk ==
    \/ content # "kept" \/ (Present /\ ws.contentDeletedTime # "")
    \/ \E g \in Collectors : gc[g] = "content"

(* The rest of the transaction, or its rollback.  Nothing but the time     *)
(* that was read says whether the content is still there. *)
RestoreStores ==
    /\ admin = "restore"
    /\ admin' = "idle"
    /\ \/ /\ UpdatePartial([ws EXCEPT !.softDeleted = FALSE, !.softDeletedTime = "",
                                      !.pinned = TRUE])
          /\ restoredAtRisk' = (restoredAtRisk \/ ContentAtRisk)
          /\ UNCHANGED failures
       \/ MayFail /\ UNCHANGED <<ws, restoredAtRisk>>
    /\ UNCHANGED <<type, content, unused, start, instance, current, user, gc, deleters, selected,
                   calls>>

-----------------------------------------------------------------------------
(* The garbage collector: a stage of garbageCollectWorkspacesIfLeader. *)

GCOnly == UNCHANGED <<type, unused, start, instance, current, user, admin, deleters, selected,
                      restoredAtRisk, calls>>

(* findWorkspacesForGarbageCollection *)
DueForSoftDeletion ==
    ~ws.deleted /\ type # "prebuild" /\ ~ws.softDeleted /\ ~ws.pinned /\ unused

\* Mutant of DueForContentDeletion: only the time of the deletion is looked at.
MutDueByTimeOnly ==
    type # "probe" /\ ~ws.deleted /\ ws.contentDeletedTime = "" /\ ws.softDeletedTime = "old"

(* findWorkspacesForContentDeletion: not those of the probe user. *)
DueForContentDeletion ==
    /\ type # "probe"
    /\ ~ws.deleted /\ ws.contentDeletedTime = "" /\ ws.softDeleted
    /\ ws.softDeletedTime \in {"old", ""}

(* findPrebuiltWorkspacesForGC; a use is a workspace that is based on it. *)
DueForPrebuildDeletion ==
    type = "prebuild" /\ ws.contentDeletedTime = "" /\ ~ws.pinned /\ unused

\* Mutant of DueForPurging: what was begun is not listed again.
MutDueIfNotBegun == ws.contentDeletedTime = "old" /\ ~ws.instancesDeleted

(* findWorkspacesForPurging *)
DueForPurging == ws.contentDeletedTime = "old"

Lists(g, stage) ==
    /\ gc[g] = "idle"
    /\ gc' = [gc EXCEPT ![g] = stage]
    /\ GCOnly /\ UNCHANGED <<ws, content, failures>>

SoftDeleteOldWorkspaces(g) == Present /\ DueForSoftDeletion /\ Lists(g, "soft")
DeleteWorkspaceContent(g) == Present /\ DueForContentDeletion /\ Lists(g, "content")
DeleteOldPrebuilds(g) == Present /\ DueForPrebuildDeletion /\ Lists(g, "prebuild")
PurgeWorkspaces(g) == Present /\ DueForPurging /\ Lists(g, "purge")

ListsWorkspaces(g) ==
    \/ SoftDeleteOldWorkspaces(g) \/ DeleteWorkspaceContent(g)
    \/ DeleteOldPrebuilds(g) \/ PurgeWorkspaces(g)

(* What follows each write of a stage.  Purging marks the instances (and a *)
(* prebuild's own rows) first, the workspace last. *)
NextWrite == [soft |-> "idle", content |-> "contentTime", contentTime |-> "idle",
              prebuild |-> "prebuildTime", prebuildTime |-> "idle",
              purge |-> "purgeWorkspace", purgeWorkspace |-> "idle"]

(* The row each write leaves: softDeleteWorkspace, garbageCollectWorkspace, *)
(* garbageCollectPrebuild, hardDeleteWorkspace. *)
Written(stage) ==
    CASE stage = "soft" -> SoftDeleted
      [] stage = "contentTime" -> [ws EXCEPT !.contentDeletedTime = "new"]
      [] stage = "prebuildTime" -> [SoftDeleted EXCEPT !.contentDeletedTime = "new"]
      [] stage = "purge" -> [ws EXCEPT !.instancesDeleted = TRUE]
      [] stage = "purgeWorkspace" -> [ws EXCEPT !.deleted = TRUE]
      [] OTHER -> ws

(* The next write of g's stage; deleteWorkspaceStorage is the first of two. *)
Collect(g) ==
    /\ gc[g] # "idle"
    /\ gc' = [gc EXCEPT ![g] = NextWrite[gc[g]]]
    /\ UpdatePartial(Written(gc[g]))
    /\ content' = IF gc[g] \in {"content", "prebuild"} THEN "none" ELSE content
    /\ GCOnly /\ UNCHANGED failures

\* Mutant of CollectFails: an error of the storage is logged and forgotten.
MutStorageErrorForgotten(g) ==
    /\ gc[g] \in {"content", "prebuild"}
    /\ MayFail
    /\ gc' = [gc EXCEPT ![g] = NextWrite[gc[g]]]
    /\ GCOnly /\ UNCHANGED <<ws, content>>

(* The write fails, the storage perhaps after it has deleted some objects, *)
(* or the server crashes. *)
CollectFails(g) ==
    /\ gc[g] # "idle"
    /\ MayFail
    /\ gc' = [gc EXCEPT ![g] = "idle"]
    /\ content' \in IF gc[g] \in {"content", "prebuild"} /\ content = "kept"
                    THEN {"kept", "some"} ELSE {content}
    /\ GCOnly /\ UNCHANGED ws

(* startDbDeleter: a server asks once, when it starts, whether it leads,   *)
(* and runs the deleter if so. *)
StartDbDeleter(v) ==
    /\ Call
    /\ deleters' \in {deleters \cup {v}, deleters \ {v}}
    /\ selected' = selected \ {v}
    /\ UNCHANGED <<type, ws, content, unused, start, instance, current, user, admin, gc, failures,
                   restoredAtRisk>>

(* PeriodicDbDeleter: selects the marked rows, then deletes them. *)
CollectRowsToBeDeleted(v) ==
    /\ v \in deleters \ selected
    /\ ws.deleted
    /\ selected' = selected \cup {v}
    /\ UNCHANGED <<type, ws, content, unused, start, instance, current, user, admin, gc, deleters,
                   calls, failures, restoredAtRisk>>

DeleteRow(v) ==
    /\ v \in selected
    /\ ws' = NoWorkspace
    /\ selected' = selected \ {v}
    /\ UNCHANGED <<type, content, unused, start, instance, current, user, admin, gc, deleters,
                   calls, failures, restoredAtRisk>>

-----------------------------------------------------------------------------
(* Days pass.  Retention times are weeks; a start takes hours at most, and *)
(* an instance that was asked to stop or whose workspace cannot be         *)
(* restarted ends within its maximum lifetime: the times of a deleted      *)
(* workspace do not run out before that. *)
DaysPass ==
    /\ Present
    /\ ws.softDeleted => \A s \in Starts : ~InFlight(s) /\ ~Running(s)
    /\ LET later(t) == IF t = "new" THEN "old" ELSE t
       IN  /\ ws' = [ws EXCEPT !.softDeletedTime = later(@), !.contentDeletedTime = later(@)]
           /\ unused' = \A s \in Starts : ~Running(s)
    /\ <<ws', unused'>> # <<ws, unused>>
    /\ UNCHANGED <<type, content, start, instance, current, user, admin, gc, deleters, selected, restoredAtRisk, calls,
                   failures>>

(* A workspace is based on the prebuild. *)
PrebuildIsUsed ==
    /\ type = "prebuild" /\ unused /\ Present
    /\ Call
    /\ unused' = FALSE
    /\ UNCHANGED <<type, ws, content, start, instance, current, user, admin, gc, deleters, selected, restoredAtRisk,
                   failures>>

Next ==
    \/ \E s \in Starts :
          \/ StartReads(s) \/ StartChecks(s) \/ StarterStores(s) \/ StoreInstance(s)
          \/ StarterDone(s) \/ StartFails(s) \/ InstanceStops(s)
    \/ StopWorkspace \/ DeleteStops \/ DeleteFails \/ DeleteMarks
    \/ \E pinned \in BOOLEAN : UpdateWorkspaceUserPin(pinned)
    \/ RestoreReads \/ RestoreStores \/ PrebuildIsUsed
    \/ \E g \in Collectors :
          ListsWorkspaces(g) \/ Collect(g) \/ CollectFails(g)
    \/ \E v \in Servers : StartDbDeleter(v) \/ CollectRowsToBeDeleted(v) \/ DeleteRow(v)
    \/ DaysPass

Spec == Init /\ [][Next]_vars

(* A start goes on and an instance ends, days pass, and the collector and  *)
(* the deleters there are run periodically; which of several overlapping   *)
(* runs of the collector goes on is left open, and there is always a       *)
(* leader that runs it.  Nobody has to call or fail, and no server has to  *)
(* start a deleter. *)
Fairness ==
    /\ WF_vars(DaysPass)
    /\ \A v \in Servers : WF_vars(CollectRowsToBeDeleted(v) \/ DeleteRow(v))
    /\ WF_vars(\E s \in Starts : StartChecks(s) \/ StoreInstance(s) \/ StarterDone(s))
    /\ WF_vars(\E s \in Starts : InstanceStops(s))
    /\ WF_vars(\E g \in Collectors : ListsWorkspaces(g) \/ Collect(g))

FairSpec == Spec /\ Fairness

-----------------------------------------------------------------------------
(* Types; prebuilds are not started this way. *)
TypeOK ==
    /\ type \in {"regular", "probe", "prebuild"}
    /\ ws \in Workspaces \cup {NoWorkspace}
    /\ content \in {"kept", "some", "none"}
    /\ instance \in [Starts -> {"none", "running", "stopping", "stopped"}]
    /\ start \in [Starts -> {NoStart} \cup [at : {"read", "checked", "created"}, copy : Workspaces]]
    /\ type = "prebuild" => \A s \in Starts : start[s] = NoStart /\ instance[s] = "none"
    /\ current \in Starts \cup {Nobody}
    /\ selected \subseteq deleters /\ deleters \subseteq Servers
    /\ gc \in [Collectors -> {"idle"} \cup DOMAIN NextWrite]

(* What nobody has deleted keeps its content, whatever calls, restores     *)
(* and stale stores of the starter came before; unless an administrator    *)
(* restored the workspace when the deletion of its content had begun: that *)
(* is not recorded before it has ended, and perhaps it failed weeks ago.   *)
VisibleKeepsContent ==
    ~restoredAtRisk /\ type # "prebuild" /\ Present /\ ~ws.softDeleted => content = "kept"

(* The content of a workspace that runs is not deleted, nor is the         *)
(* workspace purged, although calls and starts are checked against rows    *)
(* read before. *)
RunningKeepsContent ==
    \A s \in Starts :
        Running(s) => content = "kept" /\ Present /\ ws.contentDeletedTime = ""

(* Nobody starts or runs the workspace. *)
Quiet == \A s \in Starts : ~InFlight(s) /\ ~Running(s)

(* What the stages rely on: a start holds a copy of a row that nobody had  *)
(* deleted; nothing is under way once the retention time of a mark has     *)
(* passed or the content is at risk, which a regular workspace's is only   *)
(* after it was marked; and what has come as far as the second write of a  *)
(* stage has lost its content.                                             *)
StagesInOrder ==
    /\ \A s \in Starts : InFlight(s) =>
          LET copy == start[s].copy
          IN  ~copy.softDeleted /\ ~copy.deleted /\ copy.contentDeletedTime = ""
    /\ Present /\ ws.softDeleted /\ ws.softDeletedTime # "new" => Quiet
    /\ ContentAtRisk => Quiet /\ (type # "prebuild" /\ Present => ws.softDeleted)
    /\ ~Present => content = "none"
    /\ Present /\ ws.contentDeletedTime # "" => content = "none"
    /\ \A g \in Collectors :
          /\ gc[g] \in {"prebuild", "prebuildTime"} => type = "prebuild"
          /\ gc[g] \in {"contentTime", "prebuildTime", "purge", "purgeWorkspace"}
                => content = "none"
          /\ gc[g] = "purgeWorkspace" /\ Present => ws.instancesDeleted
    /\ ws.deleted => content = "none" /\ ws.instancesDeleted
    /\ selected # {} => ws.deleted \/ ~Present

(* The state is well formed; and unless the workspace was restored when    *)
(* the deletion of its content had begun, what runs keeps its content and  *)
(* no stage of the collector gets ahead of the one before.  The            *)
(* conjunction is inductive.                                               *)
DeletionInv == TypeOK /\ (restoredAtRisk \/ (RunningKeepsContent /\ StagesInOrder))

(* A purged workspace leaves nothing in the storage and no instance behind: *)
(* failures and overlapping runs of the collector never get ahead of the    *)
(* stage before; unless the workspace was restored when the deletion of its *)
(* content had begun.                                                       *)
PurgedCompletely ==
    ~restoredAtRisk /\ (~Present \/ ws.deleted) =>
        content = "none" /\ (Present => ws.instancesDeleted)

(* A deletion is undone only by an administrator or by a start that was    *)
(* under way when the workspace was deleted.                               *)
DeletionSticks ==
    [][Present /\ ws.softDeleted /\ ws' # NoWorkspace /\ ~ws'.softDeleted =>
          \/ admin = "restore"
          \/ \E s \in Starts : start[s].at \in {"checked", "created"}]_vars

(* Whatever fails on the way, a deleted workspace is gone in the end, if   *)
(* nobody restores it and it is not the probe user's; or it is marked for  *)
(* the database's deleter, and no server that runs led when it started.    *)
DeletedIsPurged ==
    Present /\ ws.softDeleted /\ type # "probe" ~>
        ~Present \/ ~ws.softDeleted \/ (ws.deleted /\ deleters = {})

-----------------------------------------------------------------------------
(* Statements of the repository's comments that the code does not keep:    *)
(* TLC refutes them, and README.md says how and where.                     *)

(* garbage-collector.ts: "Marks old, unused workspaces as softDeleted".    *)
OnlyUnusedIsCollected ==
    [][\A g \in Collectors : gc[g] = "soft" /\ gc'[g] = "idle" /\ ws' # ws
          => unused /\ ~ws.pinned]_vars

(* gitpod-server-impl.ts: a workspace "not found" for startWorkspace has   *)
(* no new instance.                                                        *)
DeletedIsNotStarted ==
    [][\A s \in Starts : StoreInstance(s) => Present /\ ~ws.softDeleted]_vars

(* gitpod-server-impl.ts: "We already have a running workspace" is the     *)
(* answer to a second start.                                               *)
OneInstance == Cardinality({s \in Starts : Running(s)}) <= 1

(* adminRestoreSoftDeletedWorkspace refuses what "was already garbage-     *)
(* collected": what it restores has its content.                           *)
RestoredKeepsContent ==
    type # "prebuild" /\ Present /\ ~ws.softDeleted => content = "kept"

(* garbage-collector.ts: "actually delete softDeleted workspaces if they   *)
(* are older than a configured time": the probe user's, and after a change *)
(* of the leader, too.                                                     *)
EveryDeletedIsGone == Present /\ ws.softDeleted ~> ~Present \/ ~ws.softDeleted
=============================================================================
