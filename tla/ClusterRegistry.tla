-------------------------- MODULE ClusterRegistry --------------------------
(***************************************************************************)
(* The workspace clusters an installation knows: their rows in             *)
(* d_b_workspace_cluster and everything that writes or follows them        *)
(* (components/ws-manager-bridge/src: cluster-service-server.ts,           *)
(* cluster-sync-service.ts, bridge-controller.ts; components/gitpod-db:    *)
(* workspace-cluster-db-impl.ts, periodic-deleter.ts; client-provider.ts   *)
(* and client-provider-source.ts of components/ws-manager-api).            *)
(*                                                                         *)
(* Only the calls of the cluster service go through its queue, one after   *)
(* the other.  The class synchronisation writes back rows it read before   *)
(* it called every ws-manager, the periodic deleters delete the rows they  *)
(* selected before, and the bridge controller polls.  A server runs the    *)
(* deleter if it led when it started (components/server/src/server.ts):    *)
(* there may be none, one or several.                                      *)
(*                                                                         *)
(* Of a row the model keeps its deletion mark and whether workspaces may   *)
(* start there ("cordoned" stands for a score of 0, too).  A cluster's URL *)
(* is as unique as its name.  All clusters are governed, and registered in *)
(* the database rather than in the configuration.                          *)
(***************************************************************************)
EXTENDS Integers, FiniteSets

CONSTANTS
    Clusters,       \* names of workspace clusters
    Registered,     \* the ones registered at the beginning
    Servers,        \* the instances of the server
    MaxCalls,       \* bound: restarts, and calls of the cluster service that pass their checks
    MaxSyncs        \* bound: runs of the class synchronisation

ASSUME RegistryAssumption ==
    /\ IsFiniteSet(Clusters) /\ Registered \subseteq Clusters
    /\ IsFiniteSet(Servers)
    /\ MaxCalls \in Nat /\ MaxSyncs \in Nat

VARIABLES
    clusterDB,      \* the row of each name
    service,        \* the call at the head of ClusterService.queue
    sync,           \* rows the class synchronisation has read and not saved
    deleters,       \* servers that run a periodic deleter
    deletions,      \* rows the deleter of each server has selected and not deleted
    bridges,        \* BridgeController.bridges
    controlled,     \* clusters with a running instance controller
    calls,          \* restarts and cluster service calls so far
    syncs           \* runs of the class synchronisation so far

registryVars == <<clusterDB, service, sync, deleters, deletions, bridges, controlled, calls, syncs>>

-----------------------------------------------------------------------------
NoRow == [state |-> "none", deleted |-> FALSE]
NoCall == [op |-> "none"]

(* findByName and findFiltered: rows without a deletion mark. *)
Listed == {c \in Clusters : clusterDB[c].state # "none" /\ ~clusterDB[c].deleted}

(* getStartClusterSets: what is left of them for a new instance. *)
Startable == {c \in Listed : clusterDB[c].state = "available"}

\* Mutant of Save: the deletion mark is saved with the row.
MutSaveUndeletes(c, state) ==
    clusterDB' = [clusterDB EXCEPT ![c] = [state |-> state, deleted |-> FALSE]]

(* save by register and by the synchronisation, of an entity that lacks    *)
(* the column "deleted": an existing row keeps its mark, a row that is     *)
(* missing is inserted. *)
Save(c, state) == clusterDB' = [clusterDB EXCEPT ![c].state = state]

(* save by update, of the whole entity that findByName has read without a  *)
(* mark: it would clear a mark made since. *)
SaveEntity(c, state) ==
    clusterDB' = [clusterDB EXCEPT ![c] = [state |-> state, deleted |-> FALSE]]

(* deleteByName *)
Mark(c) ==
    clusterDB' = IF clusterDB[c] = NoRow THEN clusterDB
                 ELSE [clusterDB EXCEPT ![c].deleted = TRUE]

RegistryInit ==
    /\ clusterDB \in [Clusters -> {NoRow} \cup [state : {"available", "cordoned"}, deleted : {FALSE}]]
    /\ \A c \in Clusters : c \in Registered <=> clusterDB[c] # NoRow
    /\ service = NoCall
    /\ sync = {}
    /\ deleters \in SUBSET Servers
    /\ deletions = [s \in Servers |-> {}]
    /\ bridges = Registered
    /\ controlled = Registered
    /\ calls = 0
    /\ syncs = 0

-----------------------------------------------------------------------------
(* The cluster service. *)

Enqueue(op, c, state) ==
    /\ service = NoCall
    /\ calls < MaxCalls
    /\ calls' = calls + 1
    /\ service' = [op |-> op, name |-> c, state |-> state]
    /\ UNCHANGED <<clusterDB, sync, deleters, deletions, bridges, controlled, syncs>>

(* register, up to the save: the name is not in use and the cluster can be *)
(* reached. *)
Register(c, state) == c \notin Listed /\ Enqueue("register", c, state)

(* update, up to the save; the call may cordon or uncordon. *)
Update(c, state) == c \in Listed /\ Enqueue("update", c, state)

(* deregister, up to the deletion.  busy: findRegularRunningInstances has  *)
(* instances in the cluster. *)
Deregister(c, busy, force) ==
    /\ ~busy \/ force
    /\ clusterDB[c].state # "none"
    /\ Enqueue("deregister", c, "none")

(* The end of the three calls. *)
ServiceSave ==
    /\ service # NoCall
    /\ \/ service.op = "register" /\ Save(service.name, service.state)
       \/ service.op = "update" /\ SaveEntity(service.name, service.state)
       \/ service.op = "deregister" /\ Mark(service.name)
    /\ service' = NoCall
    /\ UNCHANGED <<sync, deleters, deletions, bridges, controlled, calls, syncs>>

-----------------------------------------------------------------------------
(* ClusterSyncService.reconcile: one read of all rows, then one call and   *)
(* one save for each.  The interval does not wait for the run before. *)

\* Mutant of SyncRead: rows that are marked, or missing, are not left out.
MutSyncReadsAll ==
    /\ syncs < MaxSyncs
    /\ syncs' = syncs + 1
    /\ sync' = sync \cup {[name |-> c, state |-> clusterDB[c].state] : c \in Clusters}
    /\ UNCHANGED <<clusterDB, service, deleters, deletions, bridges, controlled, calls>>

SyncRead ==
    /\ syncs < MaxSyncs
    /\ syncs' = syncs + 1
    /\ sync' = sync \cup {[name |-> c, state |-> clusterDB[c].state] : c \in Listed}
    /\ UNCHANGED <<clusterDB, service, deleters, deletions, bridges, controlled, calls>>

SyncSave(copy) ==
    /\ copy \in sync
    /\ sync' = sync \ {copy}
    /\ Save(copy.name, copy.state)
    /\ UNCHANGED <<service, deleters, deletions, bridges, controlled, calls, syncs>>

(* The cluster cannot be reached. *)
SyncSkips(copy) ==
    /\ copy \in sync
    /\ sync' = sync \ {copy}
    /\ UNCHANGED <<clusterDB, service, deleters, deletions, bridges, controlled, calls, syncs>>

-----------------------------------------------------------------------------
(* startDbDeleter: a server asks once, when it starts, whether it leads,   *)
(* and runs the deleter if so.  What it had selected before is forgotten.  *)
(* The quorum elects a new leader when the old one is silent, but starts   *)
(* and stops no deleter. *)
StartDbDeleter(s) ==
    /\ calls < MaxCalls
    /\ calls' = calls + 1
    /\ deleters' \in {deleters \cup {s}, deleters \ {s}}
    /\ deletions' = [deletions EXCEPT ![s] = {}]
    /\ UNCHANGED <<clusterDB, service, sync, bridges, controlled, syncs>>

(* PeriodicDbDeleter.sync: select the marked rows, then delete them by     *)
(* their keys, marked or not; then the next run. *)

CollectRowsToBeDeleted(s) ==
    /\ s \in deleters /\ deletions[s] = {}
    /\ \E c \in Clusters : clusterDB[c].deleted
    /\ deletions' = [deletions EXCEPT ![s] = {c \in Clusters : clusterDB[c].deleted}]
    /\ UNCHANGED <<clusterDB, service, sync, deleters, bridges, controlled, calls, syncs>>

\* Mutant of DeleteRow: the deletion does not match the row's key.
MutDeleteMissesRow(s, c) ==
    /\ c \in deletions[s]
    /\ deletions' = [deletions EXCEPT ![s] = @ \ {c}]
    /\ UNCHANGED <<clusterDB, service, sync, deleters, bridges, controlled, calls, syncs>>

DeleteRow(s, c) ==
    /\ c \in deletions[s]
    /\ deletions' = [deletions EXCEPT ![s] = @ \ {c}]
    /\ clusterDB' = [clusterDB EXCEPT ![c] = NoRow]
    /\ UNCHANGED <<service, sync, deleters, bridges, controlled, calls, syncs>>

-----------------------------------------------------------------------------
\* Mutant of Reconcile: bridges of clusters that are gone are kept.
MutReconcileKeeps ==
    /\ bridges' = bridges \cup Listed
    /\ controlled' = controlled \cup Listed

(* BridgeController.reconcile.  Stopping a bridge disposes of its          *)
(* subscription; nothing disposes of its instance controller. *)
Reconcile ==
    /\ bridges' = Listed
    /\ controlled' = controlled \cup Listed

RegistryReconcile ==
    /\ bridges # Listed
    /\ Reconcile
    /\ UNCHANGED <<clusterDB, service, sync, deleters, deletions, calls, syncs>>

(* ws-manager-bridge restarts; the deleters run in the servers. *)
RegistryRestart ==
    /\ bridges' = {}
    /\ controlled' = {}
    /\ service' = NoCall
    /\ sync' = {}
    /\ UNCHANGED <<clusterDB, deleters, deletions, syncs>>

RegistryNext ==
    \/ \E c \in Clusters :
          \/ \E state \in {"available", "cordoned"} : Register(c, state) \/ Update(c, state)
          \/ \E busy, force \in BOOLEAN : Deregister(c, busy, force)
    \/ ServiceSave \/ SyncRead
    \/ \E copy \in sync : SyncSave(copy) \/ SyncSkips(copy)
    \/ \E s \in Servers :
          StartDbDeleter(s) \/ CollectRowsToBeDeleted(s) \/ \E c \in Clusters : DeleteRow(s, c)
    \/ RegistryReconcile
    \/ calls < MaxCalls /\ calls' = calls + 1 /\ RegistryRestart

RegistrySpec == RegistryInit /\ [][RegistryNext]_registryVars

(* The reconcile loop and the deleters there are run periodically, and a   *)
(* call or a run of the synchronisation that was begun is continued.  No   *)
(* server has to start, or to lead when it does. *)
RegistryFairness ==
    /\ WF_registryVars(RegistryReconcile) /\ WF_registryVars(ServiceSave)
    /\ WF_registryVars(\E copy \in sync : SyncSave(copy) \/ SyncSkips(copy))
    /\ \A s \in Servers : /\ WF_registryVars(CollectRowsToBeDeleted(s))
                          /\ WF_registryVars(\E c \in Clusters : DeleteRow(s, c))

RegistryFairSpec == RegistrySpec /\ RegistryFairness

-----------------------------------------------------------------------------
(* Every copy of a row that is held across an await is of a row that was   *)
(* listed; no row is marked while the cluster service is about to save the *)
(* whole entity, which would take the mark away (only the queue sees to    *)
(* that); only deleters select rows; and a bridge has its controller.      *)
RegistryTypeOK ==
    /\ clusterDB \in [Clusters -> [state : {"none", "available", "cordoned"},
                                   deleted : BOOLEAN]]
    /\ service \in {NoCall} \cup
          [op : {"register", "update", "deregister"}, name : Clusters,
           state : {"none", "available", "cordoned"}]
    /\ sync \subseteq [name : Clusters, state : {"available", "cordoned"}]
    /\ service.op = "update" => ~clusterDB[service.name].deleted
    /\ deleters \subseteq Servers /\ deletions \in [Servers -> SUBSET Clusters]
    /\ \A s \in Servers : deletions[s] # {} => s \in deleters
    /\ bridges \subseteq controlled /\ controlled \subseteq Clusters
    /\ calls \in 0..MaxCalls /\ syncs \in 0..MaxSyncs

(* A cluster comes (back) into the list only by its registration, or by an *)
(* update or a synchronisation that read its row before the row was        *)
(* deleted for good: no save of a stale row takes a deletion mark away.    *)
ListedRightly ==
    [][\A c \in Clusters : c \notin Listed /\ c \in Listed' =>
          \/ service # NoCall /\ service.op = "register" /\ service.name = c
          \/ /\ clusterDB[c] = NoRow
             /\ \/ service # NoCall /\ service.op = "update" /\ service.name = c
                \/ \E copy \in sync : copy.name = c]_registryVars

(* In the end there is a bridge for exactly the clusters that are listed,  *)
(* whatever was registered, deregistered, restarted or written back.       *)
BridgesFollowRegistry == <>[](bridges = Listed)

(* A marked row is deleted for good, also when its name was registered     *)
(* again, or its row written back, in the meantime; as long as some server *)
(* that led when it started stays up, whoever leads by then.               *)
MarkedRowIsDeleted ==
    (\E s \in Servers : <>[](s \in deleters)) =>
        \A c \in Clusters : clusterDB[c].deleted ~> ~clusterDB[c].deleted

-----------------------------------------------------------------------------
(* Statements of the repository's comments that the code does not keep:    *)
(* TLC refutes them, and README.md says how and where.                     *)

(* cluster-service-server.ts: "using a queue to make sure we do            *)
(* concurrency right": a cordoned cluster is opened again only by a call.  *)
CordonHolds ==
    [][\A c \in Clusters :
          clusterDB[c].state = "cordoned" /\ clusterDB'[c].state = "available"
              => service # NoCall /\ service.name = c]_registryVars

(* register: what was answered with "cluster registered" is listed.        *)
RegisteredIsListed ==
    [][service # NoCall /\ service.op = "register" /\ ServiceSave
          => service.name \in Listed']_registryVars

(* deregister: what was deregistered comes back only by a registration.    *)
DeregisteredStaysGone ==
    [][\A c \in Clusters : c \notin Listed /\ c \in Listed' =>
          service # NoCall /\ service.op = "register"]_registryVars

(* db-workspace-cluster.ts: "This column triggers the db-sync deletion     *)
(* mechanism": MarkedRowIsDeleted also after the leader, and its deleter   *)
(* with it, has gone.                                                      *)
MarkTriggersDeletion == \A c \in Clusters : clusterDB[c].deleted ~> ~clusterDB[c].deleted

(* consensus-leader-quorum.ts: "in normal operation there is exactly one   *)
(* leader", and so one deleter: it deletes only what is still marked.      *)
OnlyMarkedIsDeleted ==
    [][\A c \in Clusters :
          clusterDB[c] # NoRow /\ clusterDB'[c] = NoRow => clusterDB[c].deleted]_registryVars
=============================================================================
