------------------------ MODULE WorkspaceStartProofs ------------------------
(***************************************************************************)
(* Proofs about ClusterRegistry and WorkspaceStart, for any set of         *)
(* clusters and any number of calls, synchronisations and failures.        *)
(*                                                                         *)
(* The row of an instance is written as a whole by the starter, by the     *)
(* cluster's bridge and by the controllers, each from a copy it read       *)
(* before.  What carries StoppedMeansNoPod is that they take turns         *)
(* (WritersTakeTurns): until a cluster has started the pod only the        *)
(* starter writes, afterwards the region in the row is that cluster and    *)
(* the starter holds no older copy.                                        *)
(***************************************************************************)
EXTENDS WorkspaceStart, TLAPS

(* The registry.  A save changes a row's state and nothing else. *)
States == {"none", "available", "cordoned"}
DBRows == [state : States, deleted : BOOLEAN]

LEMMA RowFields ==
    /\ NoRow \in DBRows /\ NoRow.state = "none" /\ ~NoRow.deleted
    /\ NoCall.op = "none"
    /\ \A rec \in DBRows : rec.state \in States /\ rec.deleted \in BOOLEAN
    /\ \A rec \in DBRows : rec.state = "none" /\ ~rec.deleted => rec = NoRow
BY DEF NoRow, NoCall, DBRows, States

LEMMA SavePreserves ==
    ASSUME RegistryTypeOK, NEW c \in Clusters, NEW state \in States, Save(c, state)
    PROVE  /\ clusterDB' \in [Clusters -> DBRows]
           /\ clusterDB'[c].state = state /\ clusterDB'[c].deleted = clusterDB[c].deleted
           /\ \A d \in Clusters : d # c => clusterDB'[d] = clusterDB[d]
BY DEF RegistryTypeOK, Save, DBRows, States

LEMMA SaveEntityPreserves ==
    ASSUME RegistryTypeOK, NEW c \in Clusters, NEW state \in States, SaveEntity(c, state),
           ~clusterDB[c].deleted
    PROVE  /\ clusterDB' \in [Clusters -> DBRows]
           /\ clusterDB'[c].deleted = clusterDB[c].deleted
           /\ \A d \in Clusters : d # c => clusterDB'[d] = clusterDB[d]
BY DEF RegistryTypeOK, SaveEntity, DBRows, States

LEMMA MarkPreserves ==
    ASSUME RegistryTypeOK, NEW c \in Clusters, Mark(c)
    PROVE  /\ clusterDB' \in [Clusters -> DBRows]
           /\ \A d \in Clusters : clusterDB'[d] = clusterDB[d] \/ clusterDB'[d].deleted
<1>1. CASE clusterDB' = clusterDB
  BY <1>1 DEF RegistryTypeOK, DBRows, States
<1>2. CASE clusterDB' = [clusterDB EXCEPT ![c].deleted = TRUE]
  BY <1>2 DEF RegistryTypeOK, DBRows, States
<1>. QED
  BY <1>1, <1>2 DEF Mark

LEMMA EnqueuePreserves ==
    ASSUME RegistryTypeOK, NEW op \in {"register", "update", "deregister"}, NEW c \in Clusters,
           NEW state \in States, Enqueue(op, c, state), op = "update" => c \in Listed
    PROVE  RegistryTypeOK'
<1>1. /\ service' \in [op : {"register", "update", "deregister"}, name : Clusters, state : States]
      /\ service'.op = op /\ service'.name = c
  BY DEF Enqueue
<1>2. service'.op = "update" => ~clusterDB'[service'.name].deleted
  BY <1>1 DEF Enqueue, Listed
<1>3. calls' \in 0..MaxCalls
  BY RegistryAssumption DEF Enqueue, RegistryTypeOK
<1>. QED
  BY <1>1, <1>2, <1>3 DEF Enqueue, RegistryTypeOK, States

(* update saves the whole entity, but of a row that has no mark. *)
LEMMA ServiceSavePreserves ==
    ASSUME RegistryTypeOK, ServiceSave
    PROVE  /\ RegistryTypeOK'
           /\ \A c \in Clusters : c \notin Listed /\ c \in Listed' =>
                 /\ service # NoCall /\ service.name = c
                 /\ service.op = "register" \/ (service.op = "update" /\ clusterDB[c] = NoRow)
<1>. USE RowFields
<1>1. /\ service.op \in {"register", "update", "deregister"}
      /\ service.name \in Clusters /\ service.state \in States /\ service # NoCall
  BY DEF ServiceSave, RegistryTypeOK, States
<1>2. /\ service' = NoCall
      /\ UNCHANGED <<sync, deleters, deletions, bridges, controlled, calls, syncs>>
  BY DEF ServiceSave
<1>3. CASE service.op # "deregister"
  <2>1. /\ clusterDB' \in [Clusters -> DBRows]
        /\ clusterDB'[service.name].deleted = clusterDB[service.name].deleted
        /\ \A d \in Clusters : d # service.name => clusterDB'[d] = clusterDB[d]
    <3>1. CASE service.op = "register" /\ Save(service.name, service.state)
      BY <1>1, <3>1, SavePreserves
    <3>2. CASE service.op = "update" /\ SaveEntity(service.name, service.state)
      <4>1. ~clusterDB[service.name].deleted
        BY <3>2 DEF RegistryTypeOK
      <4>. QED
        BY <1>1, <3>2, <4>1, SaveEntityPreserves
    <3>. QED
      BY <1>3, <3>1, <3>2 DEF ServiceSave
  <2>2. RegistryTypeOK'
    BY <1>1, <1>2, <2>1 DEF RegistryTypeOK, DBRows, States
  <2>3. \A c \in Clusters : c \notin Listed /\ c \in Listed' => c = service.name
    BY <2>1 DEF Listed
  <2>4. \A c \in Clusters : clusterDB[c] \in DBRows
    BY DEF RegistryTypeOK, DBRows, States
  <2>5. service.op = "update" /\ service.name \notin Listed => clusterDB[service.name] = NoRow
    BY <1>1, <2>4 DEF RegistryTypeOK, Listed
  <2>. QED
    BY <1>1, <1>3, <2>2, <2>3, <2>5
<1>4. CASE service.op = "deregister"
  <2>1. /\ clusterDB' \in [Clusters -> DBRows]
        /\ \A d \in Clusters : clusterDB'[d] = clusterDB[d] \/ clusterDB'[d].deleted
    BY <1>1, <1>4, MarkPreserves DEF ServiceSave
  <2>2. RegistryTypeOK'
    BY <1>1, <1>2, <2>1 DEF RegistryTypeOK, DBRows, States
  <2>3. \A c \in Clusters : c \in Listed' => c \in Listed
    BY <2>1 DEF Listed
  <2>. QED
    BY <2>2, <2>3
<1>. QED
  BY <1>3, <1>4

LEMMA SyncPreserves ==
    ASSUME RegistryTypeOK, SyncRead \/ (\E copy \in sync : SyncSave(copy) \/ SyncSkips(copy))
    PROVE  /\ RegistryTypeOK'
           /\ \A c \in Clusters : c \notin Listed /\ c \in Listed' =>
                 clusterDB[c] = NoRow /\ \E copy \in sync : copy.name = c
<1>. USE RowFields
<1>1. CASE SyncRead
  <2>1. Listed' = Listed /\ clusterDB' = clusterDB /\ service' = service
    BY <1>1 DEF SyncRead, Listed
  <2>2. sync' \subseteq [name : Clusters, state : {"available", "cordoned"}]
    BY <1>1 DEF SyncRead, Listed, RegistryTypeOK
  <2>3. syncs' \in 0..MaxSyncs
    BY <1>1, RegistryAssumption DEF SyncRead, RegistryTypeOK
  <2>. QED
    BY <1>1, <2>1, <2>2, <2>3 DEF SyncRead, RegistryTypeOK
<1>2. ASSUME NEW copy \in sync, SyncSkips(copy)
      PROVE  RegistryTypeOK' /\ Listed' = Listed
  <2>1. Listed' = Listed
    BY <1>2 DEF SyncSkips, Listed
  <2>. QED
    BY <1>2, <2>1 DEF SyncSkips, RegistryTypeOK
<1>3. ASSUME NEW copy \in sync, SyncSave(copy)
      PROVE  /\ RegistryTypeOK'
             /\ \A c \in Clusters : c \notin Listed /\ c \in Listed' =>
                   clusterDB[c] = NoRow /\ copy.name = c
  <2>1. copy.name \in Clusters /\ copy.state \in {"available", "cordoned"}
    BY DEF RegistryTypeOK
  <2>2. /\ clusterDB' \in [Clusters -> DBRows]
        /\ clusterDB'[copy.name].state = copy.state
        /\ clusterDB'[copy.name].deleted = clusterDB[copy.name].deleted
        /\ \A d \in Clusters : d # copy.name => clusterDB'[d] = clusterDB[d]
    BY <1>3, <2>1, SavePreserves DEF SyncSave, States
  <2>3. Listed \subseteq Listed'
    BY <2>1, <2>2 DEF Listed
  <2>4. RegistryTypeOK'
    BY <1>3, <2>1, <2>2, <2>3 DEF SyncSave, RegistryTypeOK, DBRows, States
  <2>5. \A c \in Clusters : clusterDB[c] \in DBRows
    BY DEF RegistryTypeOK, DBRows, States
  <2>6. \A c \in Clusters : c \notin Listed /\ c \in Listed' => clusterDB[c] = NoRow /\ copy.name = c
    BY <2>2, <2>5 DEF Listed
  <2>. QED
    BY <2>4, <2>6
<1>. QED
  BY <1>1, <1>2, <1>3 DEF SyncRead, Listed

(* A deleter's row may have been registered again since it was selected. *)
DeleterStep ==
    \E s \in Servers :
        StartDbDeleter(s) \/ CollectRowsToBeDeleted(s) \/ \E c \in Clusters : DeleteRow(s, c)

LEMMA DeleterPreserves ==
    ASSUME RegistryTypeOK, DeleterStep
    PROVE  RegistryTypeOK' /\ Listed' \subseteq Listed
<1>. USE RowFields
<1>1. ASSUME NEW s \in Servers, StartDbDeleter(s) PROVE RegistryTypeOK' /\ Listed' = Listed
  <2>1. Listed' = Listed
    BY <1>1 DEF StartDbDeleter, Listed
  <2>2. calls' \in 0..MaxCalls
    BY <1>1, RegistryAssumption DEF StartDbDeleter, RegistryTypeOK
  <2>3. /\ deletions' \in [Servers -> SUBSET Clusters] /\ deleters' \subseteq Servers
        /\ \A t \in Servers : deletions'[t] # {} => t \in deleters'
    BY <1>1 DEF StartDbDeleter, RegistryTypeOK
  <2>. QED
    BY <1>1, <2>1, <2>2, <2>3 DEF StartDbDeleter, RegistryTypeOK
<1>2. ASSUME NEW s \in Servers, CollectRowsToBeDeleted(s) PROVE RegistryTypeOK' /\ Listed' = Listed
  <2>1. Listed' = Listed
    BY <1>2 DEF CollectRowsToBeDeleted, Listed
  <2>2. /\ deletions' \in [Servers -> SUBSET Clusters]
        /\ \A t \in Servers : deletions'[t] # {} => t \in deleters'
    BY <1>2 DEF CollectRowsToBeDeleted, RegistryTypeOK
  <2>. QED
    BY <1>2, <2>1, <2>2 DEF CollectRowsToBeDeleted, RegistryTypeOK
<1>3. ASSUME NEW s \in Servers, NEW c \in Clusters, DeleteRow(s, c)
      PROVE  RegistryTypeOK' /\ Listed' \subseteq Listed
  <2>1. /\ clusterDB' \in [Clusters -> DBRows]
        /\ clusterDB'[c] = NoRow /\ \A d \in Clusters : d # c => clusterDB'[d] = clusterDB[d]
    BY <1>3 DEF DeleteRow, RegistryTypeOK, DBRows, States
  <2>2. Listed' \subseteq Listed
    BY <2>1 DEF Listed
  <2>3. /\ deletions' \in [Servers -> SUBSET Clusters]
        /\ \A t \in Servers : deletions'[t] # {} => t \in deleters'
    BY <1>3 DEF DeleteRow, RegistryTypeOK
  <2>4. service.op = "update" => ~clusterDB'[service.name].deleted
    BY <2>1 DEF RegistryTypeOK
  <2>. QED
    BY <1>3, <2>1, <2>2, <2>3, <2>4 DEF DeleteRow, RegistryTypeOK, DBRows, States
<1>. QED
  BY <1>1, <1>2, <1>3 DEF DeleterStep

LEMMA ReconcilePreserves ==
    ASSUME RegistryTypeOK, RegistryReconcile
    PROVE  RegistryTypeOK' /\ Listed' = Listed
<1>1. Listed' = Listed
  BY DEF RegistryReconcile, Listed
<1>. QED
  BY <1>1 DEF RegistryReconcile, Reconcile, RegistryTypeOK, Listed

LEMMA RestartPreserves ==
    ASSUME RegistryTypeOK, RegistryRestart, calls' \in 0..MaxCalls
    PROVE  RegistryTypeOK' /\ Listed' = Listed
<1>. USE RowFields
<1>1. Listed' = Listed
  BY DEF RegistryRestart, Listed
<1>. QED
  BY <1>1 DEF RegistryRestart, RegistryTypeOK

(* Every copy of a row is of a row that was listed, and no row is marked   *)
(* while an update is about to save the whole entity, whoever synchronises *)
(* or deletes beside it (cluster-service-server.ts,                        *)
(* cluster-sync-service.ts, periodic-deleter.ts).                          *)
THEOREM RegistryInvariant == RegistrySpec => []RegistryTypeOK
<1>1. ASSUME RegistryInit PROVE RegistryTypeOK
  <2>1. clusterDB \in [Clusters -> DBRows]
    <3>1. {NoRow} \cup [state : {"available", "cordoned"}, deleted : {FALSE}] \subseteq DBRows
      BY RowFields DEF DBRows, States
    <3>. QED
      BY <1>1, <3>1 DEF RegistryInit
  <2>2. service = NoCall /\ sync = {} /\ deletions = [s \in Servers |-> {}] /\ deleters \subseteq Servers /\ bridges = Registered
        /\ controlled = Registered /\ calls = 0 /\ syncs = 0
    BY <1>1 DEF RegistryInit
  <2>. QED
    BY <2>1, <2>2, RowFields, RegistryAssumption DEF RegistryTypeOK, DBRows, States
<1>2. RegistryTypeOK /\ [RegistryNext]_registryVars => RegistryTypeOK'
  <2>. SUFFICES ASSUME RegistryTypeOK, [RegistryNext]_registryVars PROVE RegistryTypeOK'
    OBVIOUS
  <2>1. ASSUME NEW c \in Clusters, NEW state \in {"available", "cordoned"},
               Register(c, state) \/ Update(c, state)
        PROVE  RegistryTypeOK'
    BY <2>1, EnqueuePreserves DEF Register, Update, States
  <2>2. ASSUME NEW c \in Clusters, NEW busy \in BOOLEAN, NEW force \in BOOLEAN,
               Deregister(c, busy, force)
        PROVE  RegistryTypeOK'
    BY <2>2, EnqueuePreserves DEF Deregister, States
  <2>3. ASSUME calls < MaxCalls, calls' = calls + 1, RegistryRestart PROVE RegistryTypeOK'
    <3>1. calls' \in 0..MaxCalls
      BY <2>3, RegistryAssumption DEF RegistryTypeOK
    <3>. QED
      BY <2>3, <3>1, RestartPreserves
  <2>4. CASE UNCHANGED registryVars
    <3>1. Listed' = Listed
      BY <2>4 DEF registryVars, Listed
    <3>. QED
      BY <2>4, <3>1 DEF registryVars, RegistryTypeOK
  <2>. QED
    BY <2>1, <2>2, <2>3, <2>4, ServiceSavePreserves, SyncPreserves, DeleterPreserves,
       ReconcilePreserves DEF RegistryNext, DeleterStep
<1>. QED
  BY <1>1, <1>2, PTL DEF RegistrySpec

(* A cluster is listed only by its registration, or by an update or a      *)
(* synchronisation that writes back a row deleted for good since it was    *)
(* read.                                                                   *)
THEOREM OnlyListedRightly == RegistrySpec => ListedRightly
<1>. DEFINE Rightly ==
       \A c \in Clusters : c \notin Listed /\ c \in Listed' =>
          \/ service # NoCall /\ service.op = "register" /\ service.name = c
          \/ /\ clusterDB[c] = NoRow
             /\ \/ service # NoCall /\ service.op = "update" /\ service.name = c
                \/ \E copy \in sync : copy.name = c
<1>1. RegistryTypeOK /\ [RegistryNext]_registryVars => [Rightly]_registryVars
  <2>. SUFFICES ASSUME RegistryTypeOK, RegistryNext PROVE Rightly
    OBVIOUS
  <2>1. ASSUME NEW op, NEW c, NEW state, Enqueue(op, c, state) PROVE Listed' = Listed
    BY <2>1 DEF Enqueue, Listed
  <2>2. ASSUME NEW c, NEW state, Register(c, state) \/ Update(c, state) PROVE Listed' = Listed
    BY <2>1, <2>2 DEF Register, Update
  <2>3. ASSUME NEW c, NEW busy, NEW force, Deregister(c, busy, force) PROVE Listed' = Listed
    BY <2>1, <2>3 DEF Deregister
  <2>4. ASSUME RegistryRestart PROVE Listed' = Listed
    BY <2>4 DEF RegistryRestart, Listed
  <2>. QED
    BY <2>2, <2>3, <2>4, ServiceSavePreserves, SyncPreserves, DeleterPreserves, ReconcilePreserves
       DEF RegistryNext, DeleterStep
<1>. QED
  BY <1>1, RegistryInvariant, PTL DEF RegistrySpec, ListedRightly

-----------------------------------------------------------------------------
(* The start.  RegionNamesPod follows from WritersTakeTurns. *)
Inner == TypeOK /\ StoppedMeansNoPod /\ WritersTakeTurns

Labels == {"begin", "needsImageBuild", "build", "building", "createSpec", "getClusters", "next",
           "storePending", "startWorkspace", "fail", "failPrebuild", "done"}
Starters == [at : Labels, copy : Rows \cup {NoRecord}, todo : SUBSET Clusters,
             retries : 0..(MAX_INSTANCE_START_RETRIES - 1), rebuilt : BOOLEAN]

(* What TypeOK asks of a starter. *)
StarterOK(p) ==
    /\ p \in Starters
    /\ p.at \notin {"begin", "done"} => p.copy \in Rows
    /\ p.at \in {"storePending", "startWorkspace"} => p.copy.phase = "pending" /\ p.copy.region \in Clusters

LEMMA TypeOKStarter == TypeOK => StarterOK(starter)
BY DEF TypeOK, StarterOK, Starters, Labels

LEMMA RecordFields ==
    /\ NoRecord \notin Rows /\ NoRecord.phase = "none" /\ NoRecord.region = App
    /\ \A rec \in Rows : rec.phase \in Phases /\ rec.region \in Regions
    /\ \A rec \in Rows \cup {NoRecord}, phase \in Phases :
          LET new == [rec EXCEPT !.phase = phase]
          IN  new \in Rows /\ new.phase = phase /\ new.region = rec.region
BY DEF NoRecord, Rows, Phases, Regions

LEMMA DoneOK ==
    ASSUME TypeOK, Done
    PROVE  StarterOK(starter') /\ starter'.at = "done" /\ starter'.copy.phase = "none"
<1>1. Begin \in Starters /\ Begin.copy = NoRecord
  BY DEF Begin, Starters, Labels, MAX_INSTANCE_START_RETRIES
<1>2. starter' = [Begin EXCEPT !.at = "done"]
  BY DEF Done
<1>. QED
  BY <1>1, <1>2, RecordFields DEF StarterOK, Starters, Labels

LEMMA FailOK ==
    ASSUME TypeOK, Fail, starter.at \notin {"begin", "done"}
    PROVE  StarterOK(starter') /\ starter'.at = "fail" /\ starter'.copy = starter.copy
<1>1. Begin \in Starters
  BY DEF Begin, Starters, Labels, MAX_INSTANCE_START_RETRIES
<1>. DEFINE copy == starter.copy
<1>2. starter' = [Begin EXCEPT !.at = "fail", !.copy = copy]
  BY DEF Fail
<1>3. copy \in Rows
  BY DEF TypeOK
<1>. HIDE DEF copy
<1>4. StarterOK(starter') /\ starter'.at = "fail" /\ starter'.copy = copy
  BY <1>1, <1>2, <1>3 DEF StarterOK, Starters, Labels
<1>. QED
  BY <1>4 DEF copy

LEMMA GotoOK ==
    ASSUME TypeOK, NEW label \in Labels, Goto(label), starter.at \notin {"begin", "done"},
           label \in {"storePending", "startWorkspace"} =>
              starter.at \in {"storePending", "startWorkspace"}
    PROVE  StarterOK(starter') /\ starter'.at = label /\ starter'.copy = starter.copy
BY DEF Goto, TypeOK, StarterOK, Starters, Labels

(* A step of the starter that starts no pod.  If it comes before the       *)
(* timeouts, there is neither a pod nor a controller to mind.              *)
LEMMA StarterPreserves ==
    ASSUME Inner, starter.at # "done", StarterOK(starter'),
           row' \in Rows \cup {NoRecord}, prebuild' \in {"none", "queued", "unqueued"},
           failures' \in 0..MaxFailures,
           UNCHANGED <<pods, updates, held, control, old, answerLost, registryVars>>,
           late' = (late \/ old),
           row.phase # "running" /\ starter.copy.phase # "running" =>
              row'.phase # "running" /\ starter'.copy.phase # "running",
           starter'.at = "startWorkspace" => row' = starter'.copy
    PROVE  Inner'
<1>. USE DEF Inner
<1>1. TypeOK'
  <2>1. Listed' = Listed
    BY DEF registryVars, Listed
  <2>2. RegistryTypeOK'
    BY <2>1 DEF TypeOK, RegistryTypeOK, registryVars
  <2>. QED
    BY <2>2 DEF TypeOK, StarterOK, Starters, Labels
<1>2. ASSUME ~answerLost', ~late'
      PROVE  /\ ~answerLost /\ ~late /\ ~old
             /\ \A c \in Clusters : pods'[c] = "none"
             /\ \A r \in Regions : control'[r] = NoRecord
             /\ row'.phase # "running" /\ starter'.copy.phase # "running"
  BY <1>2 DEF WritersTakeTurns
<1>3. StoppedMeansNoPod'
  BY <1>2 DEF StoppedMeansNoPod, Live
<1>4. WritersTakeTurns'
  BY <1>2 DEF WritersTakeTurns, Live
<1>. QED
  BY <1>1, <1>3, <1>4

LEMMA Bounds ==
    ASSUME TypeOK
    PROVE  /\ MayFail \/ UNCHANGED failures => failures' \in 0..MaxFailures
           /\ Unqueued \in {"none", "unqueued"}
           /\ UNCHANGED prebuild => prebuild' \in {"none", "queued", "unqueued"}
           /\ UNCHANGED row => row' \in Rows \cup {NoRecord}
BY StartAssumption DEF TypeOK, MayFail, Unqueued

LEMMA StoreNewInstancePreserves ==
    ASSUME Inner, StoreNewInstance
    PROVE  Inner'
<1>. USE DEF Inner
<1>1. starter.at = "begin" /\ row' = NewInstance /\ starter \in Starters
  BY DEF StoreNewInstance, At, TypeOK, Starters, Labels
<1>2. NewInstance \in Rows /\ NewInstance.phase = "preparing"
  BY DEF NewInstance, Rows, Phases, Regions
<1>3. starter' = [starter EXCEPT !.at = "needsImageBuild", !.copy = NewInstance]
  BY <1>1 DEF StoreNewInstance
<1>4. StarterOK(starter') /\ starter'.at = "needsImageBuild" /\ starter'.copy = NewInstance
  BY <1>1, <1>2, <1>3 DEF StarterOK, Starters, Labels
<1>. QED
  BY <1>1, <1>2, <1>4, Bounds, StarterPreserves DEF StoreNewInstance, StarterOnly

LEMMA StartBuildPreserves ==
    ASSUME Inner, StartBuild
    PROVE  Inner'
<1>. USE DEF Inner
<1>1. starter.at = "build" /\ starter \in Starters /\ starter.copy \in Rows
  BY DEF StartBuild, At, TypeOK, Starters, Labels
<1>2. PICK phase \in {"building", starter.copy.phase} : row' = [row EXCEPT !.phase = phase]
  BY DEF StartBuild
<1>3. phase \in Phases
  BY <1>1, RecordFields DEF Phases
<1>4. row' \in Rows /\ row'.phase = phase
  BY <1>2, <1>3, RecordFields DEF TypeOK
<1>5. starter' = [starter EXCEPT !.at = "building", !.copy = row']
  BY DEF StartBuild
<1>6. StarterOK(starter') /\ starter'.at = "building" /\ starter'.copy = row'
  BY <1>1, <1>4, <1>5 DEF StarterOK, Starters, Labels
<1>7. row.phase # "running" /\ starter.copy.phase # "running" =>
         row'.phase # "running" /\ starter'.copy.phase # "running"
  BY <1>4, <1>6
<1>. QED
  BY <1>1, <1>4, <1>6, <1>7, Bounds, StarterPreserves DEF StartBuild, StarterOnly

(* The steps that leave the row alone. *)
LEMMA QuietStarterPreserves ==
    ASSUME Inner, StarterOnly, UNCHANGED <<row, prebuild, pods, answerLost, updates>>,
           starter.at # "done",
           StarterOK(starter'), starter'.at # "startWorkspace", MayFail \/ UNCHANGED failures,
           starter'.copy.phase \in {"none", "pending"} \/ starter'.copy = starter.copy
    PROVE  Inner'
BY Bounds, StarterPreserves DEF Inner, StarterOnly

LEMMA ImageAndSpecPreserve ==
    ASSUME Inner, NeedsImageBuild \/ BuildDone \/ CreateSpec
    PROVE  Inner'
<1>. USE DEF Inner
<1>1. /\ starter.at \in {"needsImageBuild", "building", "createSpec"} /\ starter \in Starters
      /\ StarterOnly /\ UNCHANGED <<row, prebuild, pods, answerLost, updates>>
      /\ MayFail \/ UNCHANGED failures
  BY DEF NeedsImageBuild, BuildDone, CreateSpec, At, TypeOK, Starters, Labels, StarterOnly
<1>2. CASE Goto("build") \/ Goto("getClusters")
  <2>1. StarterOK(starter') /\ starter'.at # "startWorkspace" /\ starter'.copy = starter.copy
    BY <1>1, <1>2, GotoOK DEF Labels
  <2>. QED
    BY <1>1, <2>1, QuietStarterPreserves
<1>3. CASE Done \/ Fail
  <2>1. StarterOK(starter') /\ starter'.at # "startWorkspace"
        /\ (starter'.copy.phase = "none" \/ starter'.copy = starter.copy)
    BY <1>1, <1>3, DoneOK, FailOK
  <2>. QED
    BY <1>1, <2>1, QuietStarterPreserves
<1>4. CASE \E l \in {"createSpec", "build"}, b \in BOOLEAN : starter' = [starter EXCEPT !.at = l, !.rebuilt = b]
  <2>1. StarterOK(starter') /\ starter'.at # "startWorkspace" /\ starter'.copy = starter.copy
    BY <1>1, <1>4 DEF TypeOK, StarterOK, Starters, Labels
  <2>. QED
    BY <1>1, <2>1, QuietStarterPreserves
<1>. QED
  BY <1>2, <1>3, <1>4 DEF NeedsImageBuild, BuildDone, CreateSpec

LEMMA ChoosePreserves ==
    ASSUME Inner, GetStartClusterSets \/ NoClusterLeft \/ (\E c \in Clusters : NextCluster(c))
    PROVE  Inner'
<1>. USE DEF Inner
<1>1. /\ starter.at \in {"getClusters", "next"} /\ starter \in Starters /\ starter.copy \in Rows
      /\ StarterOnly /\ UNCHANGED <<row, prebuild, pods, answerLost, updates>>
      /\ MayFail \/ UNCHANGED failures
  BY DEF GetStartClusterSets, NoClusterLeft, NextCluster, At, TypeOK, Starters, Labels, StarterOnly
<1>2. CASE GetStartClusterSets
  <2>1. Startable \in SUBSET Clusters
    BY DEF Startable, Listed
  <2>2. starter' = [starter EXCEPT !.at = "next", !.todo = Startable]
    BY <1>2 DEF GetStartClusterSets
  <2>3. StarterOK(starter') /\ starter'.at = "next" /\ starter'.copy = starter.copy
    BY <1>1, <2>1, <2>2 DEF StarterOK, Starters, Labels
  <2>. QED
    BY <1>1, <2>3, QuietStarterPreserves
<1>3. CASE Fail
  <2>1. StarterOK(starter') /\ starter'.at # "startWorkspace" /\ starter'.copy = starter.copy
    BY <1>1, <1>3, FailOK
  <2>. QED
    BY <1>1, <2>1, QuietStarterPreserves
<1>4. CASE NoClusterLeft /\ ~Fail
  <2>. DEFINE n == starter.retries + 1
  <2>1. starter' = [starter EXCEPT !.at = "getClusters", !.retries = n] /\ n < MAX_INSTANCE_START_RETRIES
    BY <1>4 DEF NoClusterLeft
  <2>2. n \in 0..(MAX_INSTANCE_START_RETRIES - 1)
    BY <1>1, <2>1 DEF Starters, MAX_INSTANCE_START_RETRIES
  <2>. HIDE DEF n
  <2>3. StarterOK(starter') /\ starter'.at = "getClusters" /\ starter'.copy = starter.copy
    BY <1>1, <2>1, <2>2 DEF StarterOK, Starters, Labels
  <2>. QED
    BY <1>1, <2>3, QuietStarterPreserves
<1>5. ASSUME NEW c \in Clusters, NextCluster(c), ~Fail PROVE Inner'
  <2>. DEFINE copy == [phase |-> "pending", region |-> c]
              todo == starter.todo \ {c}
  <2>1. starter' = [starter EXCEPT !.at = "storePending", !.todo = todo, !.copy = copy]
    BY <1>5 DEF NextCluster
  <2>2. copy \in Rows /\ copy.phase = "pending" /\ copy.region = c /\ todo \in SUBSET Clusters
    BY <1>1 DEF Rows, Phases, Regions, Starters
  <2>. HIDE DEF copy, todo
  <2>3. starter' \in Starters /\ starter'.at = "storePending" /\ starter'.copy = copy
    BY <1>1, <2>1, <2>2 DEF Starters, Labels
  <2>4. StarterOK(starter')
    BY <2>2, <2>3 DEF StarterOK
  <2>. QED
    BY <1>1, <2>2, <2>3, <2>4, QuietStarterPreserves
<1>. QED
  BY <1>2, <1>3, <1>4, <1>5

LEMMA StorePendingPreserves ==
    ASSUME Inner, StorePending
    PROVE  Inner'
<1>. USE DEF Inner
<1>1. /\ starter.at = "storePending" /\ starter.copy \in Rows /\ starter.copy.phase = "pending"
      /\ StarterOnly /\ UNCHANGED <<prebuild, pods, answerLost, updates>>
      /\ MayFail \/ UNCHANGED failures
  BY DEF StorePending, At, TypeOK, StarterOnly
<1>2. CASE row' = starter.copy /\ Goto("startWorkspace")
  <2>1. StarterOK(starter') /\ starter'.at = "startWorkspace" /\ starter'.copy = starter.copy
    BY <1>1, <1>2, GotoOK DEF Labels
  <2>. QED
    BY <1>1, <1>2, <2>1, Bounds, StarterPreserves DEF StarterOnly
<1>3. CASE Goto("next") /\ UNCHANGED row
  <2>1. StarterOK(starter') /\ starter'.at # "startWorkspace" /\ starter'.copy = starter.copy
    BY <1>1, <1>3, GotoOK DEF Labels
  <2>. QED
    BY <1>1, <1>3, <2>1, QuietStarterPreserves
<1>. QED
  BY <1>2, <1>3 DEF StorePending

LEMMA FailuresPreserve ==
    ASSUME Inner, BuildFails \/ FailInstanceStart
    PROVE  Inner'
<1>. USE DEF Inner
<1>1. /\ starter.at \in {"build", "building", "fail"}
      /\ StarterOnly /\ UNCHANGED <<prebuild, pods, answerLost, updates>>
      /\ Done \/ Goto("failPrebuild")
      /\ MayFail \/ UNCHANGED failures
  BY DEF BuildFails, FailInstanceStart, At, StarterOnly
<1>2. row' \in {row, [row EXCEPT !.phase = "stopped"], [starter.copy EXCEPT !.phase = "stopped"]}
  BY DEF BuildFails, FailInstanceStart
<1>3. row' = row \/ (row' \in Rows /\ row'.phase = "stopped")
  <2>1. row \in Rows \cup {NoRecord} /\ starter.copy \in Rows \cup {NoRecord} /\ "stopped" \in Phases
    BY DEF TypeOK, Phases
  <2>2. ASSUME NEW rec \in Rows \cup {NoRecord}, row' = [rec EXCEPT !.phase = "stopped"]
        PROVE  row' \in Rows /\ row'.phase = "stopped"
    BY <2>1, <2>2, RecordFields
  <2>. QED
    BY <1>2, <2>1, <2>2
<1>4. /\ StarterOK(starter') /\ starter'.at \in {"done", "failPrebuild"}
      /\ starter'.copy.phase = "none" \/ starter'.copy = starter.copy
  BY <1>1, DoneOK, GotoOK DEF Labels
<1>5. row' \in Rows \cup {NoRecord} /\ prebuild' \in {"none", "queued", "unqueued"}
  BY <1>1, <1>3, Bounds DEF TypeOK
<1>. QED
  BY <1>1, <1>3, <1>4, <1>5, Bounds, StarterPreserves DEF StarterOnly

LEMMA RegistryUnchanged ==
    ASSUME RegistryTypeOK, UNCHANGED registryVars
    PROVE  RegistryTypeOK'
<1>1. Listed' = Listed
  BY DEF registryVars, Listed
<1>. QED
  BY <1>1 DEF RegistryTypeOK, registryVars

(* Neither writes the row. *)
LEMMA EndOfStarterPreserves ==
    ASSUME Inner, FailPrebuildWorkspace \/ ServerCrashes
    PROVE  Inner'
<1>. USE DEF Inner
<1>1. /\ Done /\ (MayFail \/ UNCHANGED failures)
      /\ UNCHANGED prebuild \/ prebuild' = Unqueued
      /\ UNCHANGED <<row, pods, updates, held, control, old, answerLost, late, registryVars>>
  BY DEF FailPrebuildWorkspace, ServerCrashes
<1>2. StarterOK(starter') /\ starter'.at = "done"
  BY <1>1, DoneOK
<1>3. TypeOK'
  BY <1>1, <1>2, Bounds, RegistryUnchanged DEF TypeOK, StarterOK, Starters, Labels
<1>4. StoppedMeansNoPod'
  BY <1>1 DEF StoppedMeansNoPod, Live
<1>5. WritersTakeTurns'
  BY <1>1, <1>2 DEF WritersTakeTurns, Live
<1>. QED
  BY <1>3, <1>4, <1>5

-----------------------------------------------------------------------------
(* The pod is started with the row as the starter stored it, for nobody    *)
(* else writes it before the timeouts.                                     *)
LEMMA StartOnClusterPreserves ==
    ASSUME Inner, StartOnCluster
    PROVE  Inner'
<1>. USE DEF Inner
<1>. DEFINE c == starter.copy.region
<1>1. /\ starter.at = "startWorkspace" /\ starter.copy \in Rows
      /\ starter.copy.phase = "pending" /\ c \in Clusters
      /\ late' = (late \/ old)
      /\ UNCHANGED <<row, prebuild, held, control, old, failures, answerLost, cutShort, registryVars>>
  BY DEF StartOnCluster, At, TypeOK
<1>2. CASE Goto("next") /\ UNCHANGED <<pods, updates>>
  <2>1. StarterOK(starter') /\ starter'.at # "startWorkspace" /\ starter'.copy = starter.copy
    BY <1>1, <1>2, GotoOK DEF Labels
  <2>. QED
    BY <1>1, <1>2, <2>1, QuietStarterPreserves DEF StarterOnly
<1>3. CASE /\ pods[c] = "none" /\ pods' = [pods EXCEPT ![c] = "starting"]
           /\ updates' = updates \cup (bridges \cap {c}) /\ Done
  <2>1. StarterOK(starter') /\ starter'.at = "done"
    BY <1>3, DoneOK
  <2>2. TypeOK'
    <3>1. RegistryTypeOK'
      <4>1. Listed' = Listed
        BY <1>1 DEF registryVars, Listed
      <4>. QED
        BY <1>1, <4>1 DEF TypeOK, RegistryTypeOK, registryVars
    <3>2. pods' \in [Clusters -> {"none", "starting", "running", "stopping", "gone"}]
      BY <1>3 DEF TypeOK
    <3>3. /\ updates' \subseteq {d \in Clusters : pods'[d] # "none"}
          /\ \A d \in Clusters : held'[d] # NoRecord => pods'[d] # "none"
      BY <1>1, <1>3 DEF TypeOK
    <3>. QED
      BY <1>1, <2>1, <3>1, <3>2, <3>3 DEF TypeOK, StarterOK, Starters, Labels
  <2>3. ASSUME ~answerLost', ~late'
        PROVE  /\ row.phase = "pending" /\ row.region = c
               /\ \A r \in Regions : control'[r] = NoRecord
               /\ \A d \in Clusters : d # c => pods'[d] = "none"
               /\ held'[c] = NoRecord
    BY <1>1, <1>3, <2>3 DEF WritersTakeTurns, TypeOK
  <2>4. StoppedMeansNoPod'
    BY <1>1, <2>3 DEF StoppedMeansNoPod
  <2>5. WritersTakeTurns'
    BY <1>1, <2>1, <2>3 DEF WritersTakeTurns
  <2>. QED
    BY <2>2, <2>4, <2>5
<1>. QED
  BY <1>2, <1>3 DEF StartOnCluster

(* Without a lost answer, a failing start leaves no pod. *)
LEMMA StartFailsPreserves ==
    ASSUME Inner, StartFails
    PROVE  Inner'
<1>. USE DEF Inner
<1>. DEFINE c == starter.copy.region
<1>1. /\ starter.at = "startWorkspace" /\ starter.copy \in Rows /\ c \in Clusters
      /\ late' = (late \/ old) /\ MayFail
      /\ UNCHANGED <<row, prebuild, held, control, old, cutShort, registryVars>>
  BY DEF StartFails, At, TypeOK
<1>2. CASE (Goto("next") \/ Fail) /\ UNCHANGED <<pods, updates, answerLost>>
  <2>1. StarterOK(starter') /\ starter'.at # "startWorkspace" /\ starter'.copy = starter.copy
    BY <1>1, <1>2, GotoOK, FailOK DEF Labels
  <2>. QED
    BY <1>1, <1>2, <2>1, QuietStarterPreserves DEF StarterOnly
<1>3. CASE /\ pods[c] = "none" /\ pods' = [pods EXCEPT ![c] = "starting"]
           /\ updates' = updates \cup (bridges \cap {c}) /\ answerLost' = TRUE /\ Goto("next")
  <2>1. StarterOK(starter')
    BY <1>1, <1>3, GotoOK DEF Labels
  <2>2. TypeOK'
    <3>1. RegistryTypeOK'
      <4>1. Listed' = Listed
        BY <1>1 DEF registryVars, Listed
      <4>. QED
        BY <1>1, <4>1 DEF TypeOK, RegistryTypeOK, registryVars
    <3>2. pods' \in [Clusters -> {"none", "starting", "running", "stopping", "gone"}]
      BY <1>3 DEF TypeOK
    <3>3. /\ updates' \subseteq {d \in Clusters : pods'[d] # "none"}
          /\ \A d \in Clusters : held'[d] # NoRecord => pods'[d] # "none"
      BY <1>1, <1>3 DEF TypeOK
    <3>. QED
      BY <1>1, <2>1, <3>1, <3>2, <3>3, Bounds DEF TypeOK, StarterOK, Starters, Labels
  <2>. QED
    BY <1>3, <2>2 DEF StoppedMeansNoPod, WritersTakeTurns
<1>. QED
  BY <1>2, <1>3 DEF StartFails

(* Steps of everybody else: the starter's record stays. *)
LEMMA TimePassesPreserves ==
    ASSUME Inner, TimePasses
    PROVE  Inner'
<1>. USE DEF Inner
<1>1. TypeOK'
  BY RegistryUnchanged DEF TimePasses, TypeOK
<1>2. StoppedMeansNoPod' /\ WritersTakeTurns'
  BY DEF TimePasses, StoppedMeansNoPod, WritersTakeTurns, Live
<1>. QED
  BY <1>1, <1>2

LEMMA PodsPreserve ==
    ASSUME Inner, StopWorkspace \/ (\E c \in Clusters : PodMoves(c))
    PROVE  Inner'
<1>. USE DEF Inner
<1>1. PICK c \in Clusters, state \in {"running", "stopping", "gone"} :
         /\ Report(c, state)
         /\ pods[c] \in {"starting", "running", "stopping"}
  BY DEF StopWorkspace, PodMoves
<1>2. /\ pods' = [pods EXCEPT ![c] = state]
      /\ updates' = updates \cup (bridges \cap {c})
      /\ UNCHANGED <<row, prebuild, starter, held, control, old, failures, answerLost, late,
                     registryVars>>
  BY <1>1 DEF Report
<1>3. /\ \A d \in Clusters : pods'[d] # "none" <=> pods[d] # "none"
      /\ \A d \in Clusters : Live(d)' => Live(d)
  BY <1>1, <1>2 DEF TypeOK, Live
<1>4. TypeOK'
  <2>1. pods' \in [Clusters -> {"none", "starting", "running", "stopping", "gone"}]
    BY <1>1, <1>2 DEF TypeOK
  <2>2. /\ updates' \subseteq {d \in Clusters : pods'[d] # "none"}
        /\ \A d \in Clusters : held'[d] # NoRecord => pods'[d] # "none"
    BY <1>1, <1>2, <1>3 DEF TypeOK
  <2>. QED
    BY <1>2, <2>1, <2>2, RegistryUnchanged DEF TypeOK
<1>5. StoppedMeansNoPod'
  BY <1>2, <1>3 DEF StoppedMeansNoPod
<1>6. WritersTakeTurns'
  BY <1>2, <1>3 DEF WritersTakeTurns
<1>. QED
  BY <1>4, <1>5, <1>6

(* The bridge reads a row that names its cluster; "stopped" is what it     *)
(* makes of it when the pod, the only one there is, has gone. *)
LEMMA HandleStatusPreserves ==
    ASSUME Inner, NEW c \in Clusters, HandleStatus(c)
    PROVE  Inner'
<1>. USE DEF Inner
<1>1. /\ c \in updates /\ pods[c] \in {"starting", "running", "stopping", "gone"}
      /\ updates' = updates \ {c}
      /\ UNCHANGED <<row, starter, pods, control, old, failures, answerLost, late, registryVars>>
      /\ UNCHANGED prebuild \/ prebuild' = Unqueued
  BY DEF HandleStatus, TypeOK
<1>. DEFINE phase == IF pods[c] = "stopping" /\ row.phase = "stopped" THEN row.phase
                     ELSE PodPhase[pods[c]]
            new == [row EXCEPT !.phase = phase]
<1>2. held' = [held EXCEPT ![c] = new]
  BY DEF HandleStatus
<1>3. /\ phase \in {"creating", "running", "stopping", "stopped"}
      /\ phase = "stopped" => row.phase = "stopped" \/ pods[c] = "gone"
  BY <1>1 DEF PodPhase
<1>. HIDE DEF phase
<1>4. new \in Rows /\ new.phase = phase /\ new.region = row.region
  <2>1. row \in Rows \cup {NoRecord} /\ phase \in Phases
    BY <1>3 DEF TypeOK, Phases
  <2>. QED
    BY <2>1, RecordFields
<1>. HIDE DEF new
<1>5. /\ held' \in [Clusters -> Rows \cup {NoRecord}]
      /\ held'[c] = new /\ \A d \in Clusters : d # c => held'[d] = held[d]
  BY <1>2, <1>4 DEF TypeOK
<1>6. TypeOK'
  BY <1>1, <1>5, Bounds, RegistryUnchanged DEF TypeOK
<1>7. StoppedMeansNoPod'
  BY <1>1 DEF StoppedMeansNoPod, Live
<1>8. ASSUME ~answerLost, ~late
      PROVE  /\ new.region = c /\ new.phase \notin {"none", "preparing", "building"}
             /\ new.phase = "stopped" => ~Live(c)
  BY <1>1, <1>3, <1>4, <1>8 DEF WritersTakeTurns, StoppedMeansNoPod, Live
<1>9. WritersTakeTurns'
  BY <1>1, <1>5, <1>8 DEF WritersTakeTurns, Live
<1>. QED
  BY <1>6, <1>7, <1>9

(* The copy a bridge stores names the pod's cluster, as the row does, and  *)
(* is stopped only if the pod has gone. *)
LEMMA StoreStatusPreserves ==
    ASSUME Inner, NEW c \in Clusters, StoreStatus(c)
    PROVE  Inner'
<1>. USE DEF Inner
<1>1. /\ held[c] # NoRecord /\ held[c] \in Rows /\ row' = held[c]
      /\ held' = [held EXCEPT ![c] = NoRecord] /\ pods[c] # "none"
      /\ UNCHANGED <<prebuild, starter, pods, updates, control, old, failures, answerLost, late,
                     registryVars>>
  BY DEF StoreStatus, TypeOK
<1>2. /\ held' \in [Clusters -> Rows \cup {NoRecord}]
      /\ \A d \in Clusters : held'[d] # NoRecord => held'[d] = held[d]
  BY <1>1 DEF TypeOK
<1>3. TypeOK'
  BY <1>1, <1>2, RegistryUnchanged DEF TypeOK
<1>4. ASSUME ~answerLost, ~late
      PROVE  /\ \A d \in Clusters : pods[d] # "none" => d = c
             /\ row'.region = c /\ row'.phase \notin {"none", "preparing", "building"}
             /\ row'.phase = "stopped" => ~Live(c)
  BY <1>1, <1>4 DEF WritersTakeTurns
<1>5. StoppedMeansNoPod'
  BY <1>1, <1>4 DEF StoppedMeansNoPod, Live
<1>6. WritersTakeTurns'
  BY <1>1, <1>2, <1>4 DEF WritersTakeTurns, Live
<1>. QED
  BY <1>3, <1>5, <1>6

LEMMA HandlerFailsPreserves ==
    ASSUME Inner, NEW c \in Clusters, HandlerFails(c)
    PROVE  Inner'
<1>. USE DEF Inner
<1>1. /\ MayFail /\ updates' \subseteq updates
      /\ UNCHANGED <<row, prebuild, starter, pods, control, old, answerLost, late, registryVars>>
  BY DEF HandlerFails
<1>2. /\ held' \in [Clusters -> Rows \cup {NoRecord}]
      /\ \A d \in Clusters : held'[d] # NoRecord => held'[d] = held[d]
  BY DEF HandlerFails, TypeOK
<1>3. TypeOK'
  BY <1>1, <1>2, Bounds, RegistryUnchanged DEF TypeOK
<1>4. StoppedMeansNoPod' /\ WritersTakeTurns'
  BY <1>1, <1>2 DEF StoppedMeansNoPod, WritersTakeTurns, Live
<1>. QED
  BY <1>3, <1>4

LEMMA BridgesPreserve ==
    ASSUME Inner, BridgesReconcile \/ BridgeRestarts
    PROVE  Inner'
<1>. USE DEF Inner
<1>1. RegistryTypeOK'
  BY ReconcilePreserves, RestartPreserves DEF BridgesReconcile, BridgeRestarts, TypeOK, RegistryTypeOK
<1>2. /\ updates' \subseteq {c \in Clusters : pods[c] # "none"}
      /\ UNCHANGED <<row, prebuild, starter, pods, old, answerLost, late>>
      /\ UNCHANGED control \/ control' = [r \in Regions |-> NoRecord]
      /\ UNCHANGED held \/ held' = [c \in Clusters |-> NoRecord]
      /\ MayFail \/ UNCHANGED failures
  BY DEF BridgesReconcile, BridgeRestarts, TypeOK, Live, Listed
<1>3. TypeOK'
  BY <1>1, <1>2, Bounds, RecordFields DEF TypeOK
<1>4. StoppedMeansNoPod' /\ WritersTakeTurns'
  BY <1>2 DEF StoppedMeansNoPod, WritersTakeTurns, Live
<1>. QED
  BY <1>3, <1>4

(* A controller marks what has no live pod: with a pod, the row's phase is *)
(* past the timeouts of the first phases, and the region is the pod's. *)
LEMMA ControlInstancePreserves ==
    ASSUME Inner, NEW r \in Regions, ControlInstance(r)
    PROVE  Inner'
<1>. USE DEF Inner
<1>1. /\ row.region = r /\ control' = [control EXCEPT ![r] = row]
      /\ TimedOut(row) \/ (r # App /\ UnknownToManager(row, r))
      /\ UNCHANGED <<row, prebuild, starter, pods, updates, held, old, failures, answerLost, late,
                     registryVars>>
  BY DEF ControlInstance
<1>2. row \in Rows
  BY <1>1, RecordFields DEF TypeOK, TimedOut, UnknownToManager
<1>3. TypeOK'
  BY <1>1, <1>2, RegistryUnchanged DEF TypeOK
<1>4. StoppedMeansNoPod'
  BY <1>1 DEF StoppedMeansNoPod, Live
<1>5. WritersTakeTurns'
  <2>. SUFFICES ASSUME ~answerLost, ~late
                PROVE  /\ starter.at # "done" /\ ~old => \A s \in Regions : control'[s] = NoRecord
                       /\ \A c \in Clusters : pods[c] # "none" =>
                             \A s \in Regions : control'[s] # NoRecord => s = c /\ ~Live(c)
    BY <1>1 DEF WritersTakeTurns, Live
  <2>1. starter.at # "done" => old
    BY <1>1 DEF WritersTakeTurns, TimedOut, UnknownToManager
  <2>2. ASSUME NEW c \in Clusters, pods[c] # "none" PROVE r = c /\ ~Live(c)
    BY <1>1, <2>2 DEF WritersTakeTurns, TimedOut, UnknownToManager
  <2>3. \A s \in Regions : control'[s] = IF s = r THEN row ELSE control[s]
    BY <1>1 DEF TypeOK
  <2>. QED
    BY <2>1, <2>2, <2>3 DEF WritersTakeTurns
<1>. QED
  BY <1>3, <1>4, <1>5

LEMMA MarkStoppedPreserves ==
    ASSUME Inner, NEW r \in Regions, MarkStopped(r) \/ ControlFails(r)
    PROVE  Inner'
<1>. USE DEF Inner
<1>1. /\ control[r] # NoRecord /\ control' = [control EXCEPT ![r] = NoRecord]
      /\ row' = row \/ row' = [control[r] EXCEPT !.phase = "stopped"]
      /\ UNCHANGED prebuild \/ prebuild' = Unqueued
      /\ MayFail \/ UNCHANGED failures
      /\ UNCHANGED <<starter, pods, updates, held, old, answerLost, late, registryVars>>
  BY DEF MarkStopped, ControlFails
<1>. DEFINE rec == control[r]
<1>2. rec \in Rows /\ rec.region = r
  <2>1. rec \in Rows
    BY <1>1 DEF TypeOK
  <2>2. rec.phase # "none"
    BY <2>1, RecordFields DEF Phases
  <2>. QED
    BY <2>1, <2>2 DEF TypeOK
<1>3. row' = row \/ (row' \in Rows /\ row'.phase = "stopped" /\ row'.region = r)
  <2>1. row' = row \/ row' = [rec EXCEPT !.phase = "stopped"]
    BY <1>1
  <2>2. "stopped" \in Phases
    BY DEF Phases
  <2>. HIDE DEF rec
  <2>3. ASSUME row' = [rec EXCEPT !.phase = "stopped"]
        PROVE  row' \in Rows /\ row'.phase = "stopped" /\ row'.region = r
    BY <1>2, <2>2, <2>3, RecordFields
  <2>. QED
    BY <2>1, <2>3
<1>4. TypeOK'
  BY <1>1, <1>3, Bounds, RegistryUnchanged, RecordFields DEF TypeOK
<1>5. ~answerLost /\ ~late => \A c \in Clusters : ~Live(c) /\ (pods[c] # "none" => c = r)
  BY <1>1 DEF WritersTakeTurns, Live
<1>6. StoppedMeansNoPod'
  BY <1>1, <1>5 DEF StoppedMeansNoPod, Live
<1>7. \A s \in Regions : control'[s] # NoRecord => control[s] # NoRecord
  BY <1>1 DEF TypeOK
<1>8. WritersTakeTurns'
  <2>. SUFFICES ASSUME ~answerLost, ~late
                PROVE  /\ starter.at # "done" =>
                             /\ row'.phase # "running"
                             /\ ~old => \A s \in Regions : control'[s] = NoRecord
                             /\ starter.at = "startWorkspace" /\ ~old => row' = starter.copy
                       /\ \A c \in Clusters : pods[c] # "none" =>
                             /\ row'.region = c
                             /\ row'.phase \notin {"none", "preparing", "building"}
                             /\ \A s \in Regions : control'[s] # NoRecord => s = c /\ ~Live(c)
    BY <1>1 DEF WritersTakeTurns, Live
  <2>1. starter.at # "done" => old /\ row.phase # "running"
    BY <1>1 DEF WritersTakeTurns
  <2>. QED
    BY <1>3, <1>5, <1>7, <2>1 DEF WritersTakeTurns
<1>. QED
  BY <1>4, <1>6, <1>8

LEMMA RegistryStepPreserves ==
    ASSUME Inner, RegistryStep, UNCHANGED startVars
    PROVE  Inner'
<1>. USE DEF Inner
<1>1. RegistryTypeOK'
  <2>1. ASSUME NEW c \in Clusters, NEW force \in BOOLEAN, Deregister(c, Busy(c), force)
        PROVE  RegistryTypeOK'
    <3>1. RegistryTypeOK /\ Enqueue("deregister", c, "none")
      BY <2>1 DEF Deregister, TypeOK
    <3>. QED
      BY <3>1, EnqueuePreserves DEF States
  <2>. QED
    BY <2>1, ServiceSavePreserves DEF RegistryStep, TypeOK
<1>2. TypeOK'
  BY <1>1 DEF startVars, TypeOK
<1>3. StoppedMeansNoPod' /\ WritersTakeTurns'
  BY DEF startVars, StoppedMeansNoPod, WritersTakeTurns, Live
<1>. QED
  BY <1>2, <1>3

-----------------------------------------------------------------------------
(* The row of an instance names the cluster of its pod, and the row is     *)
(* written by one party at a time (workspace-starter.ts,                   *)
(* workspace-instance-controller.ts, bridge.ts), unless an answer is lost  *)
(* or the starter outlasts the timeouts.                                   *)
THEOREM InnerInvariant == Spec => []Inner
<1>1. ASSUME Init PROVE Inner
  <2>1. RegistryTypeOK
    <3>1. clusterDB \in [Clusters -> DBRows]
      <4>1. {NoRow} \cup [state : {"available", "cordoned"}, deleted : {FALSE}] \subseteq DBRows
        BY RowFields DEF DBRows, States
      <4>. QED
        BY <1>1, <4>1 DEF Init, RegistryInit
    <3>2. service = NoCall /\ sync = {} /\ deletions = [s \in Servers |-> {}] /\ deleters \subseteq Servers /\ bridges = Registered
          /\ controlled = Registered /\ calls = 0 /\ syncs = 0
      BY <1>1 DEF Init, RegistryInit
    <3>. QED
      BY <3>1, <3>2, RowFields, RegistryAssumption DEF RegistryTypeOK, DBRows, States
  <2>2. starter \in Starters /\ starter.at = "begin" /\ starter.copy = NoRecord
    BY <1>1 DEF Init, Begin, Starters, Labels, MAX_INSTANCE_START_RETRIES
  <2>3. TypeOK
    BY <1>1, <2>1, <2>2, StartAssumption, RecordFields DEF Init, TypeOK, Starters, Labels
  <2>4. StoppedMeansNoPod /\ WritersTakeTurns
    BY <1>1, <2>2, RecordFields DEF Init, StoppedMeansNoPod, WritersTakeTurns, Live
  <2>. QED
    BY <2>3, <2>4 DEF Inner
<1>2. Inner /\ [Next]_vars => Inner'
  <2>. SUFFICES ASSUME Inner, [Next]_vars PROVE Inner'
    OBVIOUS
  <2>1. ASSUME StoreNewInstance \/ StarterStep \/ BuildFails \/ StartFails \/ ServerCrashes
        PROVE  Inner'
    BY <2>1, StoreNewInstancePreserves, ImageAndSpecPreserve, StartBuildPreserves, ChoosePreserves,
       StorePendingPreserves, StartOnClusterPreserves, FailuresPreserve, StartFailsPreserves,
       EndOfStarterPreserves DEF StarterStep
  <2>2. ASSUME NEW c \in Clusters, HandleStatus(c) \/ StoreStatus(c) \/ HandlerFails(c)
        PROVE  Inner'
    BY <2>2, HandleStatusPreserves, StoreStatusPreserves, HandlerFailsPreserves
  <2>3. ASSUME NEW r \in Regions, ControlInstance(r) \/ MarkStopped(r) \/ ControlFails(r)
        PROVE  Inner'
    BY <2>3, ControlInstancePreserves, MarkStoppedPreserves
  <2>4. CASE UNCHANGED vars
    <3>1. RegistryTypeOK'
      BY <2>4, RegistryUnchanged DEF vars, Inner, TypeOK
    <3>. QED
      BY <2>4, <3>1 DEF vars, startVars, Inner, TypeOK, StoppedMeansNoPod, WritersTakeTurns, Live
  <2>. QED
    BY <2>1, <2>2, <2>3, <2>4, TimePassesPreserves, PodsPreserve, BridgesPreserve,
       RegistryStepPreserves DEF Next
<1>. QED
  BY <1>1, <1>2, PTL DEF Spec

(* The row's region names the cluster that has the pod, the starter keeps  *)
(* to its number of tries (workspace-starter.ts, startWorkspace and        *)
(* failInstanceStart), and no writer stores a copy that another has made   *)
(* outdated. *)
THEOREM StartInvariant == Spec => []StartInv
<1>1. Inner => StartInv
  BY DEF Inner, StartInv, RegionNamesPod, WritersTakeTurns, Live
<1>. QED
  BY <1>1, InnerInvariant, PTL

(* An instance is not stopped in the database while its pod is alive:      *)
(* failInstanceStart fails only what no cluster has started, and the       *)
(* controllers stop only what is gone. *)
THEOREM StoppedHasNoPod == Spec => []StoppedMeansNoPod
<1>1. Inner => StoppedMeansNoPod
  BY DEF Inner
<1>. QED
  BY <1>1, InnerInvariant, PTL
=============================================================================
