----------------------- MODULE WorkspaceDeletionProofs -----------------------
(***************************************************************************)
(* Proofs about WorkspaceDeletion, for any number of starts, overlapping   *)
(* collectors, calls and failures.                                         *)
(*                                                                         *)
(* The collector acts on rows it has listed before, and so do starts that  *)
(* are under way.  StagesInOrder says what each of them may still rely on: *)
(* content is at risk only while the workspace is marked for deletion and  *)
(* nothing runs, and a later stage of the collector is reached only when   *)
(* the earlier one is done.  An administrator who restores a workspace     *)
(* when the deletion of its content has begun breaks this for good, and    *)
(* the history variable restoredAtRisk remembers it; the types, and        *)
(* DeletionSticks, do not depend on that.                                  *)
(***************************************************************************)
EXTENDS WorkspaceDeletion, TLAPS

Core == TypeOK /\ StagesInOrder

(* The rows the operations write, field by field. *)
LEMMA NoWorkspaceIsNone == NoWorkspace \notin Workspaces /\ NoWorkspace.deleted = FALSE
BY DEF NoWorkspace, Workspaces

LEMMA MarkedRow ==
    ASSUME NEW w \in Workspaces, NEW v, v = [w EXCEPT !.softDeleted = TRUE, !.softDeletedTime = "new"]
    PROVE  /\ v \in Workspaces /\ v.softDeleted /\ v.softDeletedTime = "new"
           /\ v.contentDeletedTime = w.contentDeletedTime
           /\ v.deleted = w.deleted /\ v.instancesDeleted = w.instancesDeleted
BY DEF Workspaces, Times

LEMMA PinnedRow ==
    ASSUME NEW w \in Workspaces, NEW b \in BOOLEAN, NEW v, v = [w EXCEPT !.pinned = b]
    PROVE  /\ v \in Workspaces /\ v.softDeleted = w.softDeleted
           /\ v.softDeletedTime = w.softDeletedTime
           /\ v.contentDeletedTime = w.contentDeletedTime
           /\ v.deleted = w.deleted /\ v.instancesDeleted = w.instancesDeleted
BY DEF Workspaces

LEMMA RestoredRow ==
    ASSUME NEW w \in Workspaces,
           NEW v, v = [w EXCEPT !.softDeleted = FALSE, !.softDeletedTime = "", !.pinned = TRUE]
    PROVE  /\ v \in Workspaces /\ ~v.softDeleted
           /\ v.contentDeletedTime = w.contentDeletedTime
           /\ v.deleted = w.deleted /\ v.instancesDeleted = w.instancesDeleted
BY DEF Workspaces, Times

Progress == [at : {"read", "checked", "created"}, copy : Workspaces]

LEMMA StartGoesOn ==
    ASSUME NEW p \in Progress, NEW l \in {"read", "checked", "created"},
           NEW q, q = [p EXCEPT !.at = l]
    PROVE  q \in Progress /\ q.copy = p.copy /\ q # NoStart
BY DEF Progress, NoStart

LEMMA StageNames ==
    DOMAIN NextWrite = {"soft", "content", "contentTime", "prebuild", "prebuildTime", "purge",
                        "purgeWorkspace"}
BY DEF NextWrite

-----------------------------------------------------------------------------
LEMMA StartReadsPreserves ==
    ASSUME Core, NEW s \in Starts, StartReads(s)
    PROVE  Core'
<1>. USE NoWorkspaceIsNone DEF Core, Present, Running, InFlight
<1>1. TypeOK'
  BY DEF TypeOK, StartReads, StartOnly, NoStart, MayFail, RunningInstance, MayStart, Store
<1>2. StagesInOrder'
  BY DEF TypeOK, StagesInOrder, Quiet, ContentAtRisk, StartReads, StartOnly, NoStart, MayFail, RunningInstance, MayStart, Store
<1>. QED
  BY <1>1, <1>2

LEMMA StartChecksPreserves ==
    ASSUME Core, NEW s \in Starts, StartChecks(s)
    PROVE  Core'
<1>. USE NoWorkspaceIsNone DEF Core, Present, Running, InFlight
<1>. DEFINE q == [start[s] EXCEPT !.at = "checked"]
<1>1. start[s] # NoStart /\ start[s] \in Progress
  BY DEF TypeOK, StartChecks, NoStart, Progress
<1>2. q \in Progress /\ q.copy = start[s].copy /\ q # NoStart
  BY <1>1, StartGoesOn
<1>3. /\ start' = [start EXCEPT ![s] = NoStart] \/ start' = [start EXCEPT ![s] = q]
      /\ UNCHANGED <<type, ws, content, instance, current, gc, deleters, selected>>
  BY DEF StartChecks, StartOnly
<1>. HIDE DEF q
<1>4. TypeOK'
  BY <1>1, <1>2, <1>3 DEF TypeOK, Progress
<1>5. StagesInOrder'
  BY <1>1, <1>2, <1>3 DEF TypeOK, StagesInOrder, Quiet, ContentAtRisk
<1>. QED
  BY <1>4, <1>5

(* While a start is under way the content is not at risk, so the row is    *)
(* there and its copy brings back nothing that was deleted.                *)
LEMMA StarterStoresPreserves ==
    ASSUME Core, NEW s \in Starts, StarterStores(s)
    PROVE  Core'
<1>. USE NoWorkspaceIsNone DEF Core, Present, Running, InFlight
<1>. DEFINE c == start[s].copy
            sd == IF c.softDeletedTime = "" THEN ws.softDeletedTime ELSE c.softDeletedTime
            cd == IF c.contentDeletedTime = "" THEN ws.contentDeletedTime ELSE c.contentDeletedTime
<1>1. InFlight(s) /\ start[s] \in Progress /\ c \in Workspaces
  BY DEF TypeOK, StarterStores, NoStart, Progress
<1>2. ~Quiet /\ ~ContentAtRisk
  BY <1>1 DEF StagesInOrder, Quiet
<1>3. content = "kept" /\ Present /\ ws \in Workspaces /\ ws.contentDeletedTime = "" /\ selected = {}
  BY <1>2 DEF TypeOK, StagesInOrder, ContentAtRisk
<1>4. c.softDeleted = FALSE /\ c.deleted = FALSE /\ c.contentDeletedTime = "" /\ c.pinned \in BOOLEAN
  BY <1>1 DEF StagesInOrder, Workspaces
<1>5. sd \in Times /\ cd = ""
  BY <1>1, <1>3, <1>4 DEF Workspaces
<1>6. ws' = [ws EXCEPT !.softDeleted = c.softDeleted, !.pinned = c.pinned, !.deleted = c.deleted,
                       !.softDeletedTime = sd, !.contentDeletedTime = cd]
  BY <1>3 DEF StarterStores, Store
<1>7. /\ ws' \in Workspaces /\ ~ws'.softDeleted /\ ~ws'.deleted /\ ws'.contentDeletedTime = ""
      /\ ws'.instancesDeleted = ws.instancesDeleted
  <2>. DEFINE b == c.softDeleted
              pin == c.pinned
              d == c.deleted
  <2>1. ws' = [ws EXCEPT !.softDeleted = b, !.pinned = pin, !.deleted = d,
                         !.softDeletedTime = sd, !.contentDeletedTime = cd]
    BY <1>6
  <2>2. b = FALSE /\ d = FALSE /\ pin \in BOOLEAN
    BY <1>4
  <2>3. cd \in Times
    BY <1>5 DEF Times
  <2>. HIDE DEF c, sd, cd, b, pin, d
  <2>4. /\ ws' \in Workspaces /\ ws'.softDeleted = b /\ ws'.deleted = d
        /\ ws'.contentDeletedTime = cd /\ ws'.instancesDeleted = ws.instancesDeleted
    BY <1>3, <1>5, <2>1, <2>2, <2>3 DEF Workspaces
  <2>. QED
    BY <1>5, <2>2, <2>4
<1>8. UNCHANGED <<type, content, start, instance, current, gc, deleters, selected>>
  BY DEF StarterStores, StartOnly
<1>9. TypeOK'
  BY <1>7, <1>8 DEF TypeOK
<1>10. StagesInOrder'
  BY <1>2, <1>3, <1>7, <1>8 DEF TypeOK, StagesInOrder, Quiet, ContentAtRisk
<1>. QED
  BY <1>9, <1>10

LEMMA StoreInstancePreserves ==
    ASSUME Core, NEW s \in Starts, StoreInstance(s)
    PROVE  Core'
<1>. USE NoWorkspaceIsNone DEF Core, Present, Running, InFlight
<1>. DEFINE q == [start[s] EXCEPT !.at = "created"]
<1>1. start[s] # NoStart /\ start[s] \in Progress
  BY DEF TypeOK, StoreInstance, NoStart, Progress
<1>2. q \in Progress /\ q.copy = start[s].copy /\ q # NoStart
  BY <1>1, StartGoesOn
<1>3. /\ start' = [start EXCEPT ![s] = q]
      /\ instance' = [instance EXCEPT ![s] = "running"] /\ current' = s
      /\ UNCHANGED <<type, ws, content, gc, deleters, selected>>
  BY DEF StoreInstance, StartOnly
<1>. HIDE DEF q
<1>4. type # "prebuild"
  BY <1>1 DEF TypeOK
<1>5. TypeOK'
  BY <1>2, <1>3, <1>4 DEF TypeOK, Progress
<1>6. StagesInOrder'
  BY <1>1, <1>2, <1>3 DEF TypeOK, StagesInOrder, Quiet, ContentAtRisk
<1>. QED
  BY <1>5, <1>6

LEMMA StarterDonePreserves ==
    ASSUME Core, NEW s \in Starts, StarterDone(s)
    PROVE  Core'
<1>. USE NoWorkspaceIsNone DEF Core, Present, Running, InFlight
<1>1. TypeOK'
  BY DEF TypeOK, StarterDone, StartOnly, NoStart, MayFail, RunningInstance, MayStart, Store
<1>2. StagesInOrder'
  BY DEF TypeOK, StagesInOrder, Quiet, ContentAtRisk, StarterDone, StartOnly, NoStart, MayFail, RunningInstance, MayStart, Store
<1>. QED
  BY <1>1, <1>2

LEMMA StartFailsPreserves ==
    ASSUME Core, NEW s \in Starts, StartFails(s)
    PROVE  Core'
<1>. USE NoWorkspaceIsNone DEF Core, Present, Running, InFlight
<1>1. TypeOK'
  BY DEF TypeOK, StartFails, StartOnly, NoStart, MayFail, RunningInstance, MayStart, Store
<1>2. StagesInOrder'
  BY DEF TypeOK, StagesInOrder, Quiet, ContentAtRisk, StartFails, StartOnly, NoStart, MayFail, RunningInstance, MayStart, Store
<1>. QED
  BY <1>1, <1>2

LEMMA InstanceStopsPreserves ==
    ASSUME Core, NEW s \in Starts, InstanceStops(s)
    PROVE  Core'
<1>. USE NoWorkspaceIsNone DEF Core, Present, Running, InFlight
<1>1. TypeOK'
  BY DEF TypeOK, InstanceStops, StartOnly, NoStart, MayFail, RunningInstance, MayStart, Store
<1>2. StagesInOrder'
  BY DEF TypeOK, StagesInOrder, Quiet, ContentAtRisk, InstanceStops, StartOnly, NoStart, MayFail, RunningInstance, MayStart, Store
<1>. QED
  BY <1>1, <1>2

LEMMA StopWorkspacePreserves ==
    ASSUME Core, StopWorkspace
    PROVE  Core'
<1>. USE NoWorkspaceIsNone DEF Core, Present, Running, InFlight
<1>1. TypeOK'
  BY DEF TypeOK, StopWorkspace, UserOnly, StopRunning, RunningInstance, SoftDeleted, UpdatePartial, Call, MayFail
<1>2. StagesInOrder'
  BY DEF TypeOK, StagesInOrder, Quiet, ContentAtRisk, StopWorkspace, UserOnly, StopRunning, RunningInstance, SoftDeleted, UpdatePartial, Call, MayFail
<1>. QED
  BY <1>1, <1>2

LEMMA DeleteStopsPreserves ==
    ASSUME Core, DeleteStops
    PROVE  Core'
<1>. USE NoWorkspaceIsNone DEF Core, Present, Running, InFlight
<1>1. TypeOK'
  BY DEF TypeOK, DeleteStops, UserOnly, StopRunning, RunningInstance, SoftDeleted, UpdatePartial, Call, MayFail
<1>2. StagesInOrder'
  BY DEF TypeOK, StagesInOrder, Quiet, ContentAtRisk, DeleteStops, UserOnly, StopRunning, RunningInstance, SoftDeleted, UpdatePartial, Call, MayFail
<1>. QED
  BY <1>1, <1>2

LEMMA DeleteFailsPreserves ==
    ASSUME Core, DeleteFails
    PROVE  Core'
<1>. USE NoWorkspaceIsNone DEF Core, Present, Running, InFlight
<1>1. TypeOK'
  BY DEF TypeOK, DeleteFails, UserOnly, StopRunning, RunningInstance, SoftDeleted, UpdatePartial, Call, MayFail
<1>2. StagesInOrder'
  BY DEF TypeOK, StagesInOrder, Quiet, ContentAtRisk, DeleteFails, UserOnly, StopRunning, RunningInstance, SoftDeleted, UpdatePartial, Call, MayFail
<1>. QED
  BY <1>1, <1>2

LEMMA DeleteMarksPreserves ==
    ASSUME Core, DeleteMarks
    PROVE  Core'
<1>. USE NoWorkspaceIsNone DEF Core, Present, Running, InFlight
<1>1. UNCHANGED <<content, start, instance, current, gc, deleters, selected, type>>
  BY DEF DeleteMarks, UserOnly
<1>2. CASE ~Present /\ UNCHANGED ws
  <2>1. TypeOK'
    BY <1>1, <1>2 DEF TypeOK
  <2>. QED
    BY <1>1, <1>2, <2>1 DEF TypeOK, StagesInOrder, Quiet, ContentAtRisk
<1>3. CASE Present /\ ws' = SoftDeleted
  <2>1. ws \in Workspaces
    BY <1>3 DEF TypeOK
  <2>2. /\ ws' \in Workspaces /\ ws'.softDeleted /\ ws'.softDeletedTime = "new"
        /\ ws'.contentDeletedTime = ws.contentDeletedTime
        /\ ws'.deleted = ws.deleted /\ ws'.instancesDeleted = ws.instancesDeleted
    BY <1>3, <2>1, MarkedRow DEF SoftDeleted
  <2>3. TypeOK'
    BY <1>1, <2>2 DEF TypeOK
  <2>. QED
    BY <1>1, <1>3, <2>1, <2>2, <2>3 DEF TypeOK, StagesInOrder, Quiet, ContentAtRisk
<1>. QED
  BY <1>2, <1>3 DEF DeleteMarks, UpdatePartial

LEMMA RestoreReadsPreserves ==
    ASSUME Core, RestoreReads
    PROVE  Core'
<1>. USE NoWorkspaceIsNone DEF Core, Present, Running, InFlight
<1>1. TypeOK'
  BY DEF TypeOK, RestoreReads, UserOnly, StopRunning, RunningInstance, SoftDeleted, UpdatePartial, Call, MayFail
<1>2. StagesInOrder'
  BY DEF TypeOK, StagesInOrder, Quiet, ContentAtRisk, RestoreReads, UserOnly, StopRunning, RunningInstance, SoftDeleted, UpdatePartial, Call, MayFail
<1>. QED
  BY <1>1, <1>2

LEMMA PrebuildIsUsedPreserves ==
    ASSUME Core, PrebuildIsUsed
    PROVE  Core'
<1>. USE NoWorkspaceIsNone DEF Core, Present, Running, InFlight
<1>1. TypeOK'
  BY DEF TypeOK, PrebuildIsUsed, UserOnly, StopRunning, RunningInstance, SoftDeleted, UpdatePartial, Call, MayFail
<1>2. StagesInOrder'
  BY DEF TypeOK, StagesInOrder, Quiet, ContentAtRisk, PrebuildIsUsed, UserOnly, StopRunning, RunningInstance, SoftDeleted, UpdatePartial, Call, MayFail
<1>. QED
  BY <1>1, <1>2

LEMMA PinPreserves ==
    ASSUME Core, NEW pinned \in BOOLEAN, UpdateWorkspaceUserPin(pinned)
    PROVE  Core'
<1>. USE NoWorkspaceIsNone DEF Core, Present, Running, InFlight
<1>1. UNCHANGED <<content, start, instance, current, gc, deleters, selected, type>>
  BY DEF UpdateWorkspaceUserPin, UserOnly
<1>2. CASE ~Present /\ UNCHANGED ws
  <2>1. TypeOK'
    BY <1>1, <1>2 DEF TypeOK
  <2>. QED
    BY <1>1, <1>2, <2>1 DEF TypeOK, StagesInOrder, Quiet, ContentAtRisk
<1>3. CASE Present /\ ws' = Pinned(pinned)
  <2>1. ws \in Workspaces
    BY <1>3 DEF TypeOK
  <2>2. /\ ws' \in Workspaces /\ ws'.softDeleted = ws.softDeleted
        /\ ws'.softDeletedTime = ws.softDeletedTime
        /\ ws'.contentDeletedTime = ws.contentDeletedTime
        /\ ws'.deleted = ws.deleted /\ ws'.instancesDeleted = ws.instancesDeleted
    BY <1>3, <2>1, PinnedRow DEF Pinned
  <2>3. TypeOK'
    BY <1>1, <2>2 DEF TypeOK
  <2>. QED
    BY <1>1, <1>3, <2>1, <2>2, <2>3 DEF TypeOK, StagesInOrder, Quiet, ContentAtRisk
<1>. QED
  BY <1>2, <1>3 DEF UpdateWorkspaceUserPin, UpdatePartial

(* A restore of what is not at risk. *)
LEMMA RestoreStoresPreserves ==
    ASSUME Core, RestoreStores, ~restoredAtRisk'
    PROVE  Core'
<1>. USE NoWorkspaceIsNone DEF Core, Present, Running, InFlight
<1>1. UNCHANGED <<content, start, instance, current, gc, deleters, selected, type>>
  BY DEF RestoreStores
<1>2. CASE UNCHANGED ws
  <2>1. TypeOK'
    BY <1>1, <1>2 DEF TypeOK
  <2>. QED
    BY <1>1, <1>2, <2>1 DEF TypeOK, StagesInOrder, Quiet, ContentAtRisk
<1>3. CASE Present /\ ~ContentAtRisk /\ ws' = [ws EXCEPT !.softDeleted = FALSE, !.softDeletedTime = "",
                                                !.pinned = TRUE]
  <2>1. ws \in Workspaces
    BY <1>3 DEF TypeOK
  <2>2. /\ ws' \in Workspaces /\ ~ws'.softDeleted
        /\ ws'.contentDeletedTime = ws.contentDeletedTime
        /\ ws'.deleted = ws.deleted /\ ws'.instancesDeleted = ws.instancesDeleted
    BY <1>3, <2>1, RestoredRow
  <2>3. TypeOK'
    BY <1>1, <2>2 DEF TypeOK
  <2>. QED
    BY <1>1, <1>3, <2>1, <2>2, <2>3 DEF TypeOK, StagesInOrder, Quiet, ContentAtRisk
<1>. QED
  BY <1>2, <1>3 DEF RestoreStores, UpdatePartial

(* What is listed for the deletion of its content was marked so long ago   *)
(* that nothing is under way.                                              *)
LEMMA ListsPreserves ==
    ASSUME Core, NEW g \in Collectors, ListsWorkspaces(g)
    PROVE  Core'
<1>. USE NoWorkspaceIsNone DEF Core, Present, Running, InFlight
<1>1. PICK stage \in {"soft", "content", "prebuild", "purge"} :
         /\ gc' = [gc EXCEPT ![g] = stage]
         /\ stage = "content" => ws.softDeleted /\ ws.softDeletedTime # "new"
         /\ stage = "prebuild" => type = "prebuild"
         /\ stage = "purge" => ws.contentDeletedTime # ""
  BY DEF ListsWorkspaces, SoftDeleteOldWorkspaces, DeleteWorkspaceContent, DeleteOldPrebuilds,
         PurgeWorkspaces, DueForSoftDeletion, DueForContentDeletion, DueForPrebuildDeletion,
         DueForPurging, Lists
<1>2. Present /\ UNCHANGED <<content, start, instance, current, ws, deleters, selected, type>>
  BY DEF ListsWorkspaces, SoftDeleteOldWorkspaces, DeleteWorkspaceContent, DeleteOldPrebuilds,
         PurgeWorkspaces, Lists, GCOnly
<1>3. TypeOK'
  BY <1>1, <1>2, StageNames DEF TypeOK
<1>4. \A h \in Collectors : gc'[h] = IF h = g THEN stage ELSE gc[h]
  BY <1>1 DEF TypeOK
<1>5. stage = "content" => Quiet
  BY <1>1, <1>2 DEF StagesInOrder
<1>6. ContentAtRisk' => Quiet' /\ (type' # "prebuild" /\ Present' => ws'.softDeleted)
  BY <1>1, <1>2, <1>4, <1>5 DEF StagesInOrder, Quiet, ContentAtRisk
<1>7. ASSUME NEW h \in Collectors
      PROVE  /\ gc'[h] \in {"prebuild", "prebuildTime"} => type' = "prebuild"
             /\ gc'[h] \in {"contentTime", "prebuildTime", "purge", "purgeWorkspace"}
                   => content' = "none"
             /\ gc'[h] = "purgeWorkspace" /\ Present' => ws'.instancesDeleted
  BY <1>1, <1>2, <1>4 DEF StagesInOrder
<1>8. StagesInOrder'
  BY <1>2, <1>6, <1>7 DEF StagesInOrder, Quiet
<1>. QED
  BY <1>3, <1>8

(* A write of the collector.  The deletion of the content comes with       *)
(* nothing under way; the times and marks written later find it gone.      *)
LEMMA CollectPreserves ==
    ASSUME Core, NEW g \in Collectors, Collect(g)
    PROVE  Core'
<1>. USE NoWorkspaceIsNone DEF Core, Present, Running, InFlight
<1>1. /\ gc[g] \in {"soft", "content", "contentTime", "prebuild", "prebuildTime", "purge",
                    "purgeWorkspace"}
      /\ UNCHANGED <<start, instance, current, deleters, selected, type>>
  BY StageNames DEF TypeOK, Collect, GCOnly
<1>2. /\ NextWrite["soft"] = "idle" /\ NextWrite["content"] = "contentTime"
      /\ NextWrite["contentTime"] = "idle" /\ NextWrite["prebuild"] = "prebuildTime"
      /\ NextWrite["prebuildTime"] = "idle" /\ NextWrite["purge"] = "purgeWorkspace"
      /\ NextWrite["purgeWorkspace"] = "idle"
  BY DEF NextWrite
<1>. DEFINE next == NextWrite[gc[g]]
<1>3. /\ \A h \in Collectors : gc'[h] = IF h = g THEN next ELSE gc[h]
      /\ gc' = [gc EXCEPT ![g] = next]
      /\ gc[g] = "soft" => next = "idle"
      /\ gc[g] = "content" => next = "contentTime"
      /\ gc[g] = "contentTime" => next = "idle"
      /\ gc[g] = "prebuild" => next = "prebuildTime"
      /\ gc[g] = "prebuildTime" => next = "idle"
      /\ gc[g] = "purge" => next = "purgeWorkspace"
      /\ gc[g] = "purgeWorkspace" => next = "idle"
  BY <1>2 DEF TypeOK, Collect
<1>4. next \in {"idle"} \cup DOMAIN NextWrite
  BY <1>1, <1>3, StageNames
<1>. HIDE DEF next
<1>5. content' = (IF gc[g] \in {"content", "prebuild"} THEN "none" ELSE content)
  BY DEF Collect
<1>6. ~Present => ws' = ws
  BY DEF Collect, UpdatePartial
<1>7. ASSUME Present
      PROVE  /\ ws' \in Workspaces
             /\ ws.softDeleted => ws'.softDeleted
             /\ ws'.softDeleted /\ ws'.softDeletedTime # "new" =>
                   ws.softDeleted /\ ws.softDeletedTime # "new"
             /\ ws'.contentDeletedTime # "" =>
                   ws.contentDeletedTime # "" \/ gc[g] \in {"contentTime", "prebuildTime"}
             /\ ws.instancesDeleted \/ gc[g] = "purge" => ws'.instancesDeleted
             /\ ws'.deleted => ws.deleted \/ gc[g] = "purgeWorkspace"
             /\ ws.deleted => ws'.deleted
  <2>1. ws \in Workspaces /\ ws' = Written(gc[g])
    BY <1>7 DEF TypeOK, Collect, UpdatePartial
  <2>2. CASE gc[g] = "soft"
    BY <2>1, <2>2, MarkedRow DEF Written, SoftDeleted
  <2>3. CASE gc[g] = "contentTime"
    <3>1. ws' = [ws EXCEPT !.contentDeletedTime = "new"]
      BY <2>1, <2>3 DEF Written
    <3>. QED
      BY <2>1, <2>3, <3>1 DEF Workspaces, Times
  <2>4. CASE gc[g] = "prebuildTime"
    <3>1. ws' = [SoftDeleted EXCEPT !.contentDeletedTime = "new"]
      BY <2>1, <2>4 DEF Written
    <3>2. /\ SoftDeleted \in Workspaces /\ SoftDeleted.softDeleted /\ SoftDeleted.softDeletedTime = "new"
          /\ SoftDeleted.deleted = ws.deleted /\ SoftDeleted.instancesDeleted = ws.instancesDeleted
      BY <2>1, MarkedRow DEF SoftDeleted
    <3>. QED
      BY <2>1, <2>4, <3>1, <3>2 DEF Workspaces, Times
  <2>5. CASE gc[g] = "purge"
    <3>1. ws' = [ws EXCEPT !.instancesDeleted = TRUE]
      BY <2>1, <2>5 DEF Written
    <3>. QED
      BY <2>1, <2>5, <3>1 DEF Workspaces
  <2>6. CASE gc[g] = "purgeWorkspace"
    <3>1. ws' = [ws EXCEPT !.deleted = TRUE]
      BY <2>1, <2>6 DEF Written
    <3>. QED
      BY <2>1, <2>6, <3>1 DEF Workspaces
  <2>7. CASE gc[g] \in {"content", "prebuild"}
    BY <2>1, <2>7 DEF Written
  <2>. QED
    BY <1>1, <2>2, <2>3, <2>4, <2>5, <2>6, <2>7
<1>8. TypeOK'
  BY <1>1, <1>3, <1>4, <1>5, <1>6, <1>7 DEF TypeOK
<1>9. gc[g] \in {"content", "prebuild"} => ContentAtRisk \/ type = "prebuild"
  BY DEF StagesInOrder, ContentAtRisk
<1>10. gc[g] \in {"contentTime", "prebuildTime", "purge", "purgeWorkspace"} => content = "none"
  BY DEF StagesInOrder
<1>11. content' # content => content' = "none"
  BY <1>5
<1>12. ContentAtRisk' => ContentAtRisk \/ type = "prebuild"
  <2>1. content' # "kept" => ContentAtRisk \/ type = "prebuild"
    BY <1>5, <1>9 DEF ContentAtRisk
  <2>2. Present' /\ ws'.contentDeletedTime # "" => ContentAtRisk
    BY <1>6, <1>7, <1>10 DEF ContentAtRisk
  <2>3. ASSUME NEW h \in Collectors, gc'[h] = "content" PROVE ContentAtRisk
    BY <1>1, <1>3, <2>3 DEF ContentAtRisk
  <2>. QED
    BY <2>1, <2>2, <2>3 DEF ContentAtRisk
<1>13. ContentAtRisk' => Quiet' /\ (type' # "prebuild" /\ Present' => ws'.softDeleted)
  <2>1. ContentAtRisk' => Quiet'
    BY <1>1, <1>12 DEF TypeOK, StagesInOrder, Quiet
  <2>2. ContentAtRisk' /\ type' # "prebuild" /\ Present' => ws'.softDeleted
    BY <1>1, <1>6, <1>7, <1>12 DEF TypeOK, StagesInOrder
  <2>. QED
    BY <2>1, <2>2
<1>14. Present' <=> Present
  BY <1>6, <1>7
<1>15. /\ ~Present' => content' = "none"
       /\ Present' /\ ws'.contentDeletedTime # "" => content' = "none"
       /\ ws'.deleted => content' = "none" /\ ws'.instancesDeleted
       /\ selected' # {} => ws'.deleted \/ ~Present'
  <2>1. CASE Present
    <3>1. gc[g] = "purgeWorkspace" => ws.instancesDeleted
      BY <2>1 DEF StagesInOrder
    <3>. QED
      BY <1>1, <1>5, <1>7, <1>10, <1>14, <2>1, <3>1 DEF StagesInOrder
  <2>2. CASE ~Present
    BY <1>1, <1>5, <1>6, <2>2 DEF StagesInOrder
  <2>. QED
    BY <2>1, <2>2
<1>16. ASSUME NEW h \in Collectors
       PROVE  /\ gc'[h] \in {"prebuild", "prebuildTime"} => type' = "prebuild"
              /\ gc'[h] \in {"contentTime", "prebuildTime", "purge", "purgeWorkspace"}
                    => content' = "none"
              /\ gc'[h] = "purgeWorkspace" /\ Present' => ws'.instancesDeleted
  <2>1. CASE h = g
    BY <1>1, <1>3, <1>5, <1>7, <1>10, <1>14, <2>1 DEF StagesInOrder
  <2>2. CASE h # g
    BY <1>1, <1>3, <1>5, <1>7, <1>14, <2>2 DEF StagesInOrder
  <2>. QED
    BY <2>1, <2>2
<1>17. Present' /\ ws'.softDeleted /\ ws'.softDeletedTime # "new" => Quiet'
  BY <1>1, <1>7, <1>14 DEF StagesInOrder, Quiet
<1>18. StagesInOrder'
  BY <1>1, <1>13, <1>15, <1>16, <1>17 DEF StagesInOrder, Quiet
<1>. QED
  BY <1>8, <1>18

LEMMA CollectFailsPreserves ==
    ASSUME Core, NEW g \in Collectors, CollectFails(g)
    PROVE  Core'
<1>. USE NoWorkspaceIsNone DEF Core, Present, Running, InFlight
<1>1. TypeOK'
  BY DEF TypeOK, CollectFails, GCOnly, MayFail
<1>2. StagesInOrder'
  BY DEF TypeOK, StagesInOrder, Quiet, ContentAtRisk, CollectFails, GCOnly, MayFail
<1>. QED
  BY <1>1, <1>2

LEMMA StartDbDeleterPreserves ==
    ASSUME Core, NEW v \in Servers, StartDbDeleter(v)
    PROVE  Core'
<1>. USE NoWorkspaceIsNone DEF Core, Present, Running, InFlight
<1>1. TypeOK'
  BY DEF TypeOK, StartDbDeleter
<1>2. StagesInOrder'
  BY DEF TypeOK, StagesInOrder, Quiet, ContentAtRisk, StartDbDeleter
<1>. QED
  BY <1>1, <1>2

LEMMA CollectRowsToBeDeletedPreserves ==
    ASSUME Core, NEW v \in Servers, CollectRowsToBeDeleted(v)
    PROVE  Core'
<1>. USE NoWorkspaceIsNone DEF Core, Present, Running, InFlight
<1>1. TypeOK'
  BY DEF TypeOK, CollectRowsToBeDeleted
<1>2. StagesInOrder'
  BY DEF TypeOK, StagesInOrder, Quiet, ContentAtRisk, CollectRowsToBeDeleted
<1>. QED
  BY <1>1, <1>2

LEMMA DeleteRowPreserves ==
    ASSUME Core, NEW v \in Servers, DeleteRow(v)
    PROVE  Core'
<1>. USE NoWorkspaceIsNone DEF Core, Present, Running, InFlight
<1>1. TypeOK'
  BY DEF TypeOK, DeleteRow
<1>2. content = "none" /\ ws' = NoWorkspace /\ Quiet
  BY DEF DeleteRow, StagesInOrder, ContentAtRisk
<1>3. StagesInOrder'
  BY <1>2 DEF TypeOK, StagesInOrder, Quiet, ContentAtRisk, DeleteRow
<1>. QED
  BY <1>1, <1>3

LEMMA DaysPassPreserves ==
    ASSUME Core, DaysPass
    PROVE  Core'
<1>. USE NoWorkspaceIsNone DEF Core, Present, Running, InFlight
<1>. DEFINE sd == IF ws.softDeletedTime = "new" THEN "old" ELSE ws.softDeletedTime
            cd == IF ws.contentDeletedTime = "new" THEN "old" ELSE ws.contentDeletedTime
<1>1. UNCHANGED <<content, start, instance, current, gc, deleters, selected, type>>
  BY DEF DaysPass
<1>2. Present /\ ws \in Workspaces /\ (ws.softDeleted => Quiet)
  BY DEF TypeOK, DaysPass, Quiet
<1>3. sd \in Times /\ cd \in Times /\ (cd = "" <=> ws.contentDeletedTime = "")
  BY <1>2 DEF Workspaces, Times
<1>4. ws' = [ws EXCEPT !.softDeletedTime = sd, !.contentDeletedTime = cd]
  BY DEF DaysPass
<1>5. /\ ws' \in Workspaces /\ ws'.softDeleted = ws.softDeleted /\ ws'.deleted = ws.deleted
      /\ (ws'.contentDeletedTime = "" <=> ws.contentDeletedTime = "")
      /\ ws'.instancesDeleted = ws.instancesDeleted
  <2>. HIDE DEF sd, cd
  <2>1. /\ ws' \in Workspaces /\ ws'.softDeleted = ws.softDeleted /\ ws'.deleted = ws.deleted
        /\ ws'.softDeletedTime = sd /\ ws'.contentDeletedTime = cd
        /\ ws'.instancesDeleted = ws.instancesDeleted
    BY <1>2, <1>3, <1>4 DEF Workspaces
  <2>. QED
    BY <1>3, <2>1
<1>6. TypeOK'
  BY <1>1, <1>5 DEF TypeOK
<1>7. StagesInOrder'
  BY <1>1, <1>2, <1>5 DEF TypeOK, StagesInOrder, Quiet, ContentAtRisk
<1>. QED
  BY <1>6, <1>7

-----------------------------------------------------------------------------
(* Once the workspace was restored at risk, it stays so. *)
LEMMA AtRiskStays ==
    ASSUME restoredAtRisk, [Next]_vars
    PROVE  restoredAtRisk'
BY DEF Next, vars, StartReads, StartChecks, StarterStores, StoreInstance, StarterDone, StartFails,
       InstanceStops, StartOnly, StopWorkspace, DeleteStops, DeleteFails, DeleteMarks,
       UpdateWorkspaceUserPin, RestoreReads, UserOnly, RestoreStores, PrebuildIsUsed,
       ListsWorkspaces, SoftDeleteOldWorkspaces, DeleteWorkspaceContent, DeleteOldPrebuilds,
       PurgeWorkspaces, Lists, Collect, CollectFails, GCOnly, StartDbDeleter,
       CollectRowsToBeDeleted, DeleteRow, DaysPass

(* Unless the workspace was restored when the deletion of its content had  *)
(* begun, the stages stay in order (garbage-collector.ts,                  *)
(* workspace-deletion-service.ts, workspace-starter.ts,                    *)
(* gitpod-server-impl.ts). *)
THEOREM CoreInvariant == Spec => [](restoredAtRisk \/ Core)
<1>1. Init => Core
  <2>1. NewWorkspace \in Workspaces /\ [NewWorkspace EXCEPT !.softDeleted = TRUE] \in Workspaces
    BY DEF NewWorkspace, Workspaces, Times
  <2>2. ASSUME Init PROVE ws.contentDeletedTime = "" /\ ws.deleted = FALSE
    <3>1. NewWorkspace.contentDeletedTime = "" /\ NewWorkspace.deleted = FALSE
      BY DEF NewWorkspace
    <3>2. \A w \in Workspaces : LET v == [w EXCEPT !.softDeleted = TRUE]
                               IN  v.contentDeletedTime = w.contentDeletedTime /\ v.deleted = w.deleted
      BY DEF Workspaces
    <3>. QED
      BY <2>1, <2>2, <3>1, <3>2 DEF Init
  <2>3. ASSUME Init PROVE TypeOK
    BY <2>1, <2>3 DEF Init, TypeOK
  <2>4. ASSUME Init PROVE StagesInOrder
    BY <2>1, <2>2, <2>4, NoWorkspaceIsNone DEF Init, StagesInOrder, Quiet, InFlight, Running, Present,
       ContentAtRisk
  <2>. QED
    BY <2>3, <2>4 DEF Core
<1>2. Core /\ [Next]_vars => restoredAtRisk' \/ Core'
  <2>. SUFFICES ASSUME Core, [Next]_vars, ~restoredAtRisk' PROVE Core'
    OBVIOUS
  <2>1. ASSUME NEW s \in Starts,
               \/ StartReads(s) \/ StartChecks(s) \/ StarterStores(s) \/ StoreInstance(s)
               \/ StarterDone(s) \/ StartFails(s) \/ InstanceStops(s)
        PROVE  Core'
    BY <2>1, StartReadsPreserves, StartChecksPreserves, StarterStoresPreserves,
       StoreInstancePreserves, StarterDonePreserves, StartFailsPreserves, InstanceStopsPreserves
  <2>2. ASSUME StopWorkspace \/ DeleteStops \/ DeleteFails \/ DeleteMarks
        PROVE  Core'
    BY <2>2, StopWorkspacePreserves, DeleteStopsPreserves, DeleteFailsPreserves, DeleteMarksPreserves
  <2>3. ASSUME NEW pinned \in BOOLEAN, UpdateWorkspaceUserPin(pinned) PROVE Core'
    BY <2>3, PinPreserves
  <2>4. ASSUME RestoreReads \/ RestoreStores \/ PrebuildIsUsed PROVE Core'
    BY <2>4, RestoreReadsPreserves, RestoreStoresPreserves, PrebuildIsUsedPreserves
  <2>5. ASSUME NEW g \in Collectors, ListsWorkspaces(g) \/ Collect(g) \/ CollectFails(g)
        PROVE  Core'
    BY <2>5, ListsPreserves, CollectPreserves, CollectFailsPreserves
  <2>6. ASSUME NEW v \in Servers, StartDbDeleter(v) \/ CollectRowsToBeDeleted(v) \/ DeleteRow(v)
        PROVE  Core'
    BY <2>6, StartDbDeleterPreserves, CollectRowsToBeDeletedPreserves, DeleteRowPreserves
  <2>7. CASE UNCHANGED vars
    <3>1. TypeOK'
      BY <2>7 DEF vars, Core, TypeOK
    <3>2. StagesInOrder'
      BY <2>7 DEF vars, Core, StagesInOrder, Quiet, InFlight, Running, Present, ContentAtRisk
    <3>. QED
      BY <3>1, <3>2 DEF Core
  <2>. QED
    BY <2>1, <2>2, <2>3, <2>4, <2>5, <2>6, <2>7, DaysPassPreserves DEF Next
<1>. QED
  BY <1>1, <1>2, AtRiskStays, PTL DEF Spec

-----------------------------------------------------------------------------
(* The types of the row and of its copies, whoever races with whom. *)
RowsOK ==
    /\ ws \in Workspaces \cup {NoWorkspace}
    /\ start \in [Starts -> {NoStart} \cup Progress]

(* A step that brings a deleted workspace back. *)
Undeletes == Present /\ ws.softDeleted /\ ws' # NoWorkspace /\ ~ws'.softDeleted

LEMMA StartsStick ==
    ASSUME RowsOK, NEW s \in Starts,
           StartReads(s) \/ StartChecks(s) \/ StoreInstance(s) \/ StarterDone(s) \/ StartFails(s)
           \/ InstanceStops(s)
    PROVE  RowsOK' /\ ~Undeletes
<1>. USE NoWorkspaceIsNone DEF RowsOK, Present, Undeletes
<1>1. UNCHANGED ws
  BY DEF StartReads, StartChecks, StoreInstance, StarterDone, StartFails, InstanceStops
<1>2. CASE StartReads(s)
  BY <1>1, <1>2 DEF StartReads, Progress
<1>3. CASE StartChecks(s) \/ StoreInstance(s)
  <2>. DEFINE q(l) == [start[s] EXCEPT !.at = l]
  <2>1. start[s] \in Progress
    BY <1>3 DEF StartChecks, StoreInstance, NoStart
  <2>2. q("checked") \in Progress /\ q("created") \in Progress
    BY <2>1, StartGoesOn
  <2>3. \/ start' = [start EXCEPT ![s] = NoStart] \/ start' = [start EXCEPT ![s] = q("checked")]
        \/ start' = [start EXCEPT ![s] = q("created")]
    BY <1>3 DEF StartChecks, StoreInstance
  <2>. HIDE DEF q
  <2>. QED
    BY <1>1, <2>2, <2>3
<1>4. CASE StarterDone(s) \/ StartFails(s) \/ InstanceStops(s)
  BY <1>1, <1>4 DEF StarterDone, StartFails, InstanceStops
<1>. QED
  BY <1>2, <1>3, <1>4

(* The starter's stores are the exception that DeletionSticks allows. *)
LEMMA StoresStick ==
    ASSUME RowsOK, NEW s \in Starts, StarterStores(s)
    PROVE  RowsOK' /\ start[s].at \in {"checked", "created"}
<1>. USE NoWorkspaceIsNone DEF RowsOK, Present
<1>. DEFINE c == start[s].copy
            sd == IF c.softDeletedTime = "" THEN ws.softDeletedTime ELSE c.softDeletedTime
            cd == IF c.contentDeletedTime = "" THEN ws.contentDeletedTime ELSE c.contentDeletedTime
<1>1. start[s].at \in {"checked", "created"} /\ UNCHANGED start
  BY DEF StarterStores
<1>2. c \in Workspaces
  BY <1>1 DEF NoStart, Progress
<1>3. CASE ~Present
  BY <1>1, <1>2, <1>3 DEF StarterStores, Store
<1>4. CASE Present
  <2>. DEFINE b == c.softDeleted
              pin == c.pinned
              d == c.deleted
  <2>1. ws' = [ws EXCEPT !.softDeleted = b, !.pinned = pin, !.deleted = d,
                         !.softDeletedTime = sd, !.contentDeletedTime = cd]
    BY <1>4 DEF StarterStores, Store
  <2>2. ws \in Workspaces
    BY <1>4
  <2>3. /\ b \in BOOLEAN /\ pin \in BOOLEAN /\ d \in BOOLEAN
        /\ sd \in Times /\ cd \in Times
    BY <1>2, <2>2 DEF Workspaces
  <2>. HIDE DEF c, b, pin, d, sd, cd
  <2>4. ws' \in Workspaces
    BY <2>1, <2>2, <2>3 DEF Workspaces
  <2>. QED
    BY <1>1, <2>4
<1>. QED
  BY <1>1, <1>3, <1>4

LEMMA CallsStick ==
    ASSUME RowsOK,
           \/ StopWorkspace \/ DeleteStops \/ DeleteFails \/ DeleteMarks
           \/ (\E pinned \in BOOLEAN : UpdateWorkspaceUserPin(pinned))
           \/ RestoreReads \/ PrebuildIsUsed
    PROVE  RowsOK' /\ ~Undeletes
<1>. USE NoWorkspaceIsNone DEF RowsOK, Present, Undeletes
<1>1. UNCHANGED start
  BY DEF StopWorkspace, DeleteStops, DeleteFails, DeleteMarks, UpdateWorkspaceUserPin, RestoreReads,
         PrebuildIsUsed, UserOnly
<1>2. \/ UNCHANGED ws
      \/ Present /\ ws' = SoftDeleted
      \/ Present /\ \E pinned \in BOOLEAN : ws' = Pinned(pinned)
  BY DEF StopWorkspace, DeleteStops, DeleteFails, DeleteMarks, UpdateWorkspaceUserPin, RestoreReads,
         PrebuildIsUsed, UserOnly, UpdatePartial
<1>3. CASE UNCHANGED ws
  BY <1>1, <1>3
<1>4. CASE Present /\ ws' = SoftDeleted
  <2>1. ws' \in Workspaces /\ ws'.softDeleted
    BY <1>4, MarkedRow DEF SoftDeleted
  <2>. QED
    BY <1>1, <2>1
<1>5. ASSUME Present, NEW pinned \in BOOLEAN, ws' = Pinned(pinned) PROVE RowsOK' /\ ~Undeletes
  <2>1. ws' \in Workspaces /\ ws'.softDeleted = ws.softDeleted
    BY <1>5, PinnedRow DEF Pinned
  <2>. QED
    BY <1>1, <2>1
<1>. QED
  BY <1>2, <1>3, <1>4, <1>5

LEMMA RestoreSticks ==
    ASSUME RowsOK, RestoreStores
    PROVE  RowsOK' /\ admin = "restore"
<1>. USE NoWorkspaceIsNone DEF RowsOK, Present
<1>1. UNCHANGED start /\ admin = "restore"
  BY DEF RestoreStores
<1>2. \/ UNCHANGED ws
      \/ Present /\ ws' = [ws EXCEPT !.softDeleted = FALSE, !.softDeletedTime = "", !.pinned = TRUE]
  BY DEF RestoreStores, UpdatePartial
<1>3. ws' \in Workspaces \cup {NoWorkspace}
  BY <1>2, RestoredRow
<1>. QED
  BY <1>1, <1>3

LEMMA CollectorsStick ==
    ASSUME RowsOK, NEW g \in Collectors, ListsWorkspaces(g) \/ Collect(g) \/ CollectFails(g)
    PROVE  RowsOK' /\ ~Undeletes
<1>. USE NoWorkspaceIsNone DEF RowsOK, Present, Undeletes
<1>1. UNCHANGED start
  BY DEF ListsWorkspaces, SoftDeleteOldWorkspaces, DeleteWorkspaceContent, DeleteOldPrebuilds,
         PurgeWorkspaces, Lists, Collect, CollectFails, GCOnly
<1>2. UNCHANGED ws \/ (Present /\ ws' = Written(gc[g]))
  BY DEF ListsWorkspaces, SoftDeleteOldWorkspaces, DeleteWorkspaceContent, DeleteOldPrebuilds,
         PurgeWorkspaces, Lists, Collect, CollectFails, UpdatePartial
<1>3. CASE UNCHANGED ws
  BY <1>1, <1>3
<1>4. CASE Present /\ ws' = Written(gc[g])
  <2>1. \/ ws' = ws \/ ws' = SoftDeleted \/ ws' = [SoftDeleted EXCEPT !.contentDeletedTime = "new"]
        \/ ws' = [ws EXCEPT !.contentDeletedTime = "new"]
        \/ ws' = [ws EXCEPT !.instancesDeleted = TRUE] \/ ws' = [ws EXCEPT !.deleted = TRUE]
    BY <1>4 DEF Written
  <2>2. \A w \in Workspaces :
          LET v == [w EXCEPT !.contentDeletedTime = "new"]
          IN  v \in Workspaces /\ v.softDeleted = w.softDeleted
    BY DEF Workspaces, Times
  <2>3. \A w \in Workspaces :
          LET v == [w EXCEPT !.instancesDeleted = TRUE]
          IN  v \in Workspaces /\ v.softDeleted = w.softDeleted
    BY DEF Workspaces
  <2>4. \A w \in Workspaces :
          LET v == [w EXCEPT !.deleted = TRUE]
          IN  v \in Workspaces /\ v.softDeleted = w.softDeleted
    BY DEF Workspaces
  <2>5. ws \in Workspaces /\ SoftDeleted \in Workspaces /\ SoftDeleted.softDeleted
    BY <1>4, MarkedRow DEF SoftDeleted
  <2>6. ws' \in Workspaces /\ (ws.softDeleted => ws'.softDeleted)
    BY <2>1, <2>2, <2>3, <2>4, <2>5
  <2>. QED
    BY <1>1, <2>6
<1>. QED
  BY <1>2, <1>3, <1>4

LEMMA TheRestSticks ==
    ASSUME RowsOK,
           \/ \E v \in Servers : StartDbDeleter(v) \/ CollectRowsToBeDeleted(v) \/ DeleteRow(v)
           \/ DaysPass \/ UNCHANGED vars
    PROVE  RowsOK' /\ ~Undeletes
<1>. USE NoWorkspaceIsNone DEF RowsOK, Present, Undeletes
<1>1. CASE UNCHANGED vars \/ \E v \in Servers : StartDbDeleter(v) \/ CollectRowsToBeDeleted(v)
  BY <1>1 DEF StartDbDeleter, CollectRowsToBeDeleted, vars
<1>2. CASE \E v \in Servers : DeleteRow(v)
  BY <1>2 DEF DeleteRow
<1>3. CASE DaysPass
  <2>. DEFINE sd == IF ws.softDeletedTime = "new" THEN "old" ELSE ws.softDeletedTime
              cd == IF ws.contentDeletedTime = "new" THEN "old" ELSE ws.contentDeletedTime
  <2>1. ws \in Workspaces /\ UNCHANGED start
    BY <1>3 DEF DaysPass
  <2>2. sd \in Times /\ cd \in Times
    BY <2>1 DEF Workspaces, Times
  <2>3. ws' = [ws EXCEPT !.softDeletedTime = sd, !.contentDeletedTime = cd]
    BY <1>3 DEF DaysPass
  <2>. HIDE DEF sd, cd
  <2>4. ws' \in Workspaces /\ ws'.softDeleted = ws.softDeleted
    BY <2>1, <2>2, <2>3 DEF Workspaces
  <2>. QED
    BY <2>1, <2>4
<1>. QED
  BY <1>1, <1>2, <1>3

(* Every step keeps the types of the row, and brings a deleted workspace   *)
(* back only where DeletionSticks allows it. *)
Allowed == admin = "restore" \/ \E s \in Starts : start[s].at \in {"checked", "created"}

LEMMA RowsStep ==
    ASSUME RowsOK, [Next]_vars
    PROVE  RowsOK' /\ (Undeletes => Allowed)
<1>1. ASSUME NEW s \in Starts,
             \/ StartReads(s) \/ StartChecks(s) \/ StarterStores(s) \/ StoreInstance(s)
             \/ StarterDone(s) \/ StartFails(s) \/ InstanceStops(s)
      PROVE  RowsOK' /\ (Undeletes => Allowed)
  BY <1>1, StartsStick, StoresStick DEF Allowed
<1>2. ASSUME NEW g \in Collectors, ListsWorkspaces(g) \/ Collect(g) \/ CollectFails(g)
      PROVE  RowsOK' /\ (Undeletes => Allowed)
  BY <1>2, CollectorsStick
<1>. QED
  BY <1>1, <1>2, CallsStick, RestoreSticks, TheRestSticks DEF Next, Allowed

LEMMA InitialRows == Init => RowsOK
<1>1. NewWorkspace \in Workspaces /\ [NewWorkspace EXCEPT !.softDeleted = TRUE] \in Workspaces
  BY DEF NewWorkspace, Workspaces, Times
<1>. QED
  BY <1>1 DEF Init, RowsOK

(* A deletion is undone only by an administrator's restore or by the store *)
(* of a start that was under way (workspace-starter.ts), whatever was at   *)
(* risk. *)
THEOREM DeletionStays == Spec => DeletionSticks
<1>1. RowsOK /\ [Next]_vars => RowsOK' /\ [Undeletes => Allowed]_vars
  BY RowsStep
<1>. QED
  BY <1>1, InitialRows, PTL DEF Spec, DeletionSticks, Undeletes, Allowed

-----------------------------------------------------------------------------
(* The other conjuncts of TypeOK. *)
RestOK ==
    /\ type \in {"regular", "probe", "prebuild"}
    /\ content \in {"kept", "some", "none"}
    /\ instance \in [Starts -> {"none", "running", "stopping", "stopped"}]
    /\ type = "prebuild" => \A s \in Starts : start[s] = NoStart /\ instance[s] = "none"
    /\ current \in Starts \cup {Nobody}
    /\ selected \subseteq deleters /\ deleters \subseteq Servers
    /\ gc \in [Collectors -> {"idle"} \cup DOMAIN NextWrite]

LEMMA TypeParts == TypeOK <=> RowsOK /\ RestOK
BY DEF TypeOK, RowsOK, RestOK, Progress

LEMMA RestStep ==
    ASSUME RowsOK, RestOK, [Next]_vars
    PROVE  RestOK'
<1>. USE DEF RestOK, RowsOK
<1>1. ASSUME NEW s \in Starts,
             \/ StartReads(s) \/ StartChecks(s) \/ StarterStores(s) \/ StoreInstance(s)
             \/ StarterDone(s) \/ StartFails(s) \/ InstanceStops(s)
      PROVE  RestOK'
  <2>1. type # "prebuild"
    BY <1>1 DEF StartReads, MayStart, StartChecks, StarterStores, StoreInstance, StarterDone,
                StartFails, InFlight, InstanceStops, Running, NoStart
  <2>. QED
    BY <1>1, <2>1 DEF StartReads, StartChecks, StarterStores, StoreInstance, StarterDone,
                      StartFails, InstanceStops, StartOnly
<1>2. ASSUME \/ StopWorkspace \/ DeleteStops \/ DeleteFails \/ DeleteMarks
             \/ \E pinned \in BOOLEAN : UpdateWorkspaceUserPin(pinned)
             \/ RestoreReads \/ RestoreStores \/ PrebuildIsUsed \/ DaysPass \/ UNCHANGED vars
      PROVE  RestOK'
  <2>1. UNCHANGED <<type, content, start, current, deleters, selected, gc>>
    BY <1>2 DEF StopWorkspace, DeleteStops, DeleteFails, DeleteMarks, UpdateWorkspaceUserPin,
                RestoreReads, UserOnly, RestoreStores, PrebuildIsUsed, DaysPass, vars
  <2>2. \/ UNCHANGED instance
        \/ RunningInstance /\ instance' = [instance EXCEPT ![current] = "stopping"]
    BY <1>2 DEF StopWorkspace, DeleteStops, StopRunning, DeleteFails, DeleteMarks,
                UpdateWorkspaceUserPin, RestoreReads, RestoreStores, PrebuildIsUsed, DaysPass, vars
  <2>. QED
    BY <2>1, <2>2 DEF RunningInstance, Running
<1>3. ASSUME NEW g \in Collectors, ListsWorkspaces(g) \/ Collect(g) \/ CollectFails(g)
      PROVE  RestOK'
  <2>1. UNCHANGED <<type, start, instance, current, deleters, selected>>
    BY <1>3 DEF ListsWorkspaces, SoftDeleteOldWorkspaces, DeleteWorkspaceContent,
                DeleteOldPrebuilds, PurgeWorkspaces, Lists, Collect, CollectFails, GCOnly
  <2>2. content' \in {content, "some", "none"}
    BY <1>3 DEF ListsWorkspaces, SoftDeleteOldWorkspaces, DeleteWorkspaceContent,
                DeleteOldPrebuilds, PurgeWorkspaces, Lists, Collect, CollectFails
  <2>3. \A stage \in DOMAIN NextWrite : NextWrite[stage] \in {"idle"} \cup DOMAIN NextWrite
    BY StageNames DEF NextWrite
  <2>4. \E stage \in {"idle"} \cup DOMAIN NextWrite : gc' = [gc EXCEPT ![g] = stage]
    BY <1>3, <2>3, StageNames
       DEF ListsWorkspaces, SoftDeleteOldWorkspaces, DeleteWorkspaceContent,
           DeleteOldPrebuilds, PurgeWorkspaces, Lists, Collect, CollectFails
  <2>. QED
    BY <2>1, <2>2, <2>4
<1>4. ASSUME NEW v \in Servers, StartDbDeleter(v) \/ CollectRowsToBeDeleted(v) \/ DeleteRow(v)
      PROVE  RestOK'
  BY <1>4 DEF StartDbDeleter, CollectRowsToBeDeleted, DeleteRow
<1>. QED
  BY <1>1, <1>2, <1>3, <1>4 DEF Next

(* The state is well formed; and unless the workspace was restored when    *)
(* the deletion of its content had begun, what runs keeps its content and  *)
(* its row, and no stage of the collector gets ahead of the one before     *)
(* (garbage-collector.ts, workspace-deletion-service.ts). *)
THEOREM DeletionInvariant == Spec => []DeletionInv
<1>1. Init => RowsOK /\ RestOK
  BY InitialRows, StageNames DEF Init, RestOK
<1>2. RowsOK /\ RestOK /\ [Next]_vars => (RowsOK /\ RestOK)'
  BY RowsStep, RestStep
<1>3. RowsOK /\ RestOK /\ (restoredAtRisk \/ Core) => DeletionInv
  BY TypeParts DEF Core, DeletionInv, TypeOK, StagesInOrder, RunningKeepsContent, ContentAtRisk,
                   Quiet, Present
<1>. QED
  BY <1>1, <1>2, <1>3, CoreInvariant, PTL DEF Spec

(* A workspace that nobody has deleted keeps its content, though the       *)
(* collector works from a list it read before and the starter may store an *)
(* outdated row (workspace-deletion-service.ts, workspace-starter.ts);     *)
(* unless it was restored when the deletion of its content had begun. *)
THEOREM VisibleContent == Spec => []VisibleKeepsContent
<1>1. restoredAtRisk \/ Core => VisibleKeepsContent
  BY DEF Core, VisibleKeepsContent, StagesInOrder, ContentAtRisk
<1>. QED
  BY <1>1, CoreInvariant, PTL

(* What is marked for the database's deleter, or gone, has left nothing in *)
(* the storage and no instance, however the stages of overlapping          *)
(* collectors fail and repeat (garbage-collector.ts); unless it was        *)
(* restored when the deletion of its content had begun. *)
THEOREM PurgedLeavesNothing == Spec => []PurgedCompletely
<1>1. restoredAtRisk \/ Core => PurgedCompletely
  BY DEF Core, PurgedCompletely, StagesInOrder, Present
<1>. QED
  BY <1>1, CoreInvariant, PTL
=============================================================================
