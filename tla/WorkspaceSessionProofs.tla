----------------------- MODULE WorkspaceSessionProofs ----------------------
(***************************************************************************)
(* Proofs about WorkspaceSession, for any number of concurrent finalizers, *)
(* failures and crashes, whether they ask for a backup or not.  The parts  *)
(* of the invariant about disposal are about finalizers that do: without a *)
(* backup DisposeWorkspace also takes sessions that are still initializing *)
(* and three finalizers can be at it at once.                              *)
(*                                                                         *)
(* OneDisposer is not inductive.  It follows from OneLiveSession: a        *)
(* finalizer can only start to dispose of a session that is ready, and as  *)
(* long as another is at it no session is ready or can become so.          *)
(* BackedUpBeforeRemoval follows from NothingRemovedYet, which says of the *)
(* time before the first complete backup that the state files and the      *)
(* sessions restored from them only call content ready that is on disk; a  *)
(* file that is being written, or was torn, restores no session.           *)
(*                                                                         *)
(* The last part is about BackupLimiter, ws-daemon's limit on concurrent   *)
(* backups: the tokens in the channel are exactly the uploads that hold    *)
(* one (TokensExact).                                                      *)
(***************************************************************************)
EXTENDS WorkspaceSession, BackupLimiter, FiniteSetTheorems, TLAPS

Core == TypeOK /\ GoroutinesAtWork /\ OneLiveSession /\ NothingRemovedYet

(* Where Persist continues *)
LEMMA PersistTables ==
    /\ DOMAIN PersistAt = {"persistInit", "persistReady", "persistDisposing", "persistGitStatus"}
    /\ PersistAt["persistInit"] = "openInit"
    /\ PersistAt["persistReady"] = "openReady"
    /\ PersistAt["persistDisposing"] = "openDisposing"
    /\ PersistAt["persistGitStatus"] = "openGitStatus"
BY DEF PersistAt

LEMMA OpenTables ==
    /\ DOMAIN OpenAt = {"openInit", "openReady", "openDisposing", "openGitStatus"}
    /\ OpenAt["openInit"] = "writeInit"
    /\ OpenAt["openReady"] = "writeReady"
    /\ OpenAt["openDisposing"] = "writeDisposing"
    /\ OpenAt["openGitStatus"] = "writeGitStatus"
BY DEF OpenAt

LEMMA WriteTables ==
    /\ DOMAIN AfterWrite = {"writeInit", "writeReady", "writeDisposing", "writeGitStatus"}
    /\ AfterWrite["writeInit"] = "markReady"
    /\ AfterWrite["writeReady"] = "answer"
    /\ AfterWrite["writeDisposing"] \in {"upload", "persistGitStatus"}
    /\ Backup => AfterWrite["writeDisposing"] = "upload"
    /\ AfterWrite["writeGitStatus"] = "delete"
BY DEF AfterWrite

LEMMA FailureTables ==
    /\ DOMAIN AfterFailure = {"upload", "openDisposing", "writeDisposing", "openGitStatus",
                              "writeGitStatus"}
    /\ AfterFailure["upload"] = "failed"
    /\ AfterFailure["openDisposing"] = "failed"
    /\ AfterFailure["writeDisposing"] = "failed"
    /\ AfterFailure["openGitStatus"] = "delete"
    /\ AfterFailure["writeGitStatus"] = "delete"
BY DEF AfterFailure

(* NewWorkspace: there is a free number for a new object, and no other     *)
(* session is left that would still have to be disposed of.                *)
LEMMA InitWorkspacePreserves ==
    ASSUME Core, InitWorkspace
    PROVE  Core'
<1>. USE SessionAssumption, OpenTables, WriteTables DEF Core, Goroutines, Objects, States,
         Resting, DeleteLabels, InitLabels, UploadLabels, DisposalLabels, DisposerLabels, Labels
<1>. UNCHANGED <<file, backup, doc, readyTold, failures, crashes>>
  BY DEF InitWorkspace
<1>1. CASE store # 0
  <2>. asked' = "ok" /\ asked = "pending" /\ UNCHANGED <<store, state, sess, content, pc, redone>>
    BY <1>1 DEF InitWorkspace
  <2>1. TypeOK' /\ GoroutinesAtWork'
    BY DEF TypeOK, GoroutinesAtWork
  <2>2. OneLiveSession'
    BY DEF OneLiveSession, Live, Disposing
  <2>3. NothingRemovedYet'
    BY DEF NothingRemovedYet, EmptyStore, ReadyIsComplete, BeforeUpload, Disposing
  <2>. QED
    BY <2>1, <2>2, <2>3
<1>2. CASE store = 0
  <2>1. PICK o \in Objects :
           /\ state[o] = "none" /\ store' = o
           /\ state' = [state EXCEPT ![o] = "initializing"]
           /\ sess' = [sess EXCEPT ![Init_] = o]
    <3>1. \E o \in Objects : state[o] = "none"
      BY DEF InitWorkspace, GoroutinesAtWork
    <3>2. store' = CHOOSE o \in Objects : state[o] = "none"
      BY <1>2 DEF InitWorkspace
    <3>3. store' \in Objects /\ state[store'] = "none"
      BY <3>1, <3>2
    <3>. QED
      BY <1>2, <3>3 DEF InitWorkspace
  <2>. /\ content' = "partial" /\ UNCHANGED asked /\ pc[Init_] = "idle" /\ asked = "pending"
       /\ pc' = [pc EXCEPT ![Init_] = "runInitializer"]
       /\ redone' = (redone \/ file \in States)
    BY <1>2 DEF InitWorkspace, Goto
  <2>2. TypeOK'
    BY <2>1 DEF TypeOK
  <2>3. GoroutinesAtWork'
    BY <2>1 DEF TypeOK, GoroutinesAtWork
  <2>4. Backup => Live = {} /\ Disposing = {} /\ Live' = {o}
    BY <1>2, <2>1 DEF TypeOK, OneLiveSession, Live, Disposing
  <2>5. OneLiveSession'
    BY <2>1, <2>4 DEF TypeOK, GoroutinesAtWork, OneLiveSession, Disposing
  <2>6. NothingRemovedYet'
    <3>. SUFFICES ASSUME Backup, ~backup', asked' # "failed", ~redone'
                  PROVE  (content # "removed" /\ EmptyStore /\ ReadyIsComplete /\ BeforeUpload)'
      BY DEF NothingRemovedYet
    <3>1. ~backup /\ asked # "failed" /\ ~redone /\ file \notin States /\ EmptyStore
      BY DEF TypeOK, NothingRemovedYet
    <3>2. EmptyStore' /\ BeforeUpload'
      BY <2>1, <2>4, <3>1 DEF TypeOK, GoroutinesAtWork, EmptyStore, BeforeUpload, Disposing
    <3>3. ReadyIsComplete'
      BY <1>2, <2>1, <3>1 DEF TypeOK, GoroutinesAtWork, EmptyStore, ReadyIsComplete
    <3>. QED
      BY <3>2, <3>3
  <2>. QED
    BY <2>2, <2>3, <2>5, <2>6
<1>. QED
  BY <1>1, <1>2

(* InitWorkspace, from the initializer to its answer. *)
LEMMA RunInitializerPreserves ==
    ASSUME Core, RunInitializer
    PROVE  Core'
<1>. USE SessionAssumption, OpenTables, WriteTables
     DEF RunInitializer, Goto, Core, Goroutines, Objects, States,
         Resting, DeleteLabels, InitLabels, UploadLabels, DisposalLabels, DisposerLabels, Labels
<1>1. TypeOK'
  BY DEF TypeOK, GoroutinesAtWork
<1>2. GoroutinesAtWork'
  BY DEF TypeOK, GoroutinesAtWork, OneLiveSession, Live, Disposing
<1>3. OneLiveSession'
  BY DEF TypeOK, GoroutinesAtWork, OneLiveSession, Live, Disposing
<1>4. NothingRemovedYet'
  BY DEF TypeOK, GoroutinesAtWork, OneLiveSession, NothingRemovedYet, EmptyStore,
         ReadyIsComplete, BeforeUpload, Disposing
<1>. QED
  BY <1>1, <1>2, <1>3, <1>4

LEMMA MarkReadyPreserves ==
    ASSUME Core, MarkReady
    PROVE  Core'
<1>. USE SessionAssumption, OpenTables, WriteTables
     DEF MarkReady, SetState, Broadcast, Core, Goroutines, Objects, States,
         Resting, DeleteLabels, InitLabels, UploadLabels, DisposalLabels, DisposerLabels, Labels
<1>1. TypeOK'
  BY DEF TypeOK, GoroutinesAtWork
<1>2. GoroutinesAtWork'
  BY DEF TypeOK, GoroutinesAtWork, OneLiveSession, Live, Disposing
<1>3. OneLiveSession'
  BY DEF TypeOK, GoroutinesAtWork, OneLiveSession, Live, Disposing
<1>4. NothingRemovedYet'
  BY DEF TypeOK, GoroutinesAtWork, OneLiveSession, NothingRemovedYet, EmptyStore,
         ReadyIsComplete, BeforeUpload, Disposing
<1>. QED
  BY <1>1, <1>2, <1>3, <1>4

LEMMA RunHooksPreserves ==
    ASSUME Core, RunHooks
    PROVE  Core'
<1>. USE SessionAssumption, OpenTables, WriteTables
     DEF RunHooks, Goto, Core, Goroutines, Objects, States,
         Resting, DeleteLabels, InitLabels, UploadLabels, DisposalLabels, DisposerLabels, Labels
<1>1. TypeOK'
  BY DEF TypeOK, GoroutinesAtWork
<1>2. GoroutinesAtWork'
  BY DEF TypeOK, GoroutinesAtWork, OneLiveSession, Live, Disposing
<1>3. OneLiveSession'
  BY DEF TypeOK, GoroutinesAtWork, OneLiveSession, Live, Disposing
<1>4. NothingRemovedYet'
  BY DEF TypeOK, GoroutinesAtWork, OneLiveSession, NothingRemovedYet, EmptyStore,
         ReadyIsComplete, BeforeUpload, Disposing
<1>. QED
  BY <1>1, <1>2, <1>3, <1>4

LEMMA AnswerInitPreserves ==
    ASSUME Core, AnswerInit
    PROVE  Core'
<1>. USE SessionAssumption, OpenTables, WriteTables
     DEF AnswerInit, Goto, Core, Goroutines, Objects, States,
         Resting, DeleteLabels, InitLabels, UploadLabels, DisposalLabels, DisposerLabels, Labels
<1>1. TypeOK'
  BY DEF TypeOK, GoroutinesAtWork
<1>2. GoroutinesAtWork'
  BY DEF TypeOK, GoroutinesAtWork, OneLiveSession, Live, Disposing
<1>3. OneLiveSession'
  BY DEF TypeOK, GoroutinesAtWork, OneLiveSession, Live, Disposing
<1>4. NothingRemovedYet'
  <2>. SUFFICES ASSUME Backup, ~backup', asked' # "failed", ~redone'
                PROVE  (content # "removed" /\ EmptyStore /\ ReadyIsComplete /\ BeforeUpload)'
    BY DEF NothingRemovedYet
  <2>1. /\ ~backup /\ asked # "failed" /\ ~redone /\ content # "removed"
        /\ EmptyStore /\ ReadyIsComplete /\ BeforeUpload
    BY DEF TypeOK, NothingRemovedYet, GoroutinesAtWork
  <2>2. (content # "removed")'
    BY <2>1 DEF TypeOK, GoroutinesAtWork, BeforeUpload, Disposing
  <2>3. EmptyStore'
    BY <2>1 DEF TypeOK, GoroutinesAtWork, EmptyStore
  <2>4. ReadyIsComplete'
    BY <2>1 DEF TypeOK, GoroutinesAtWork, EmptyStore, ReadyIsComplete
  <2>5. BeforeUpload'
    BY <2>1 DEF TypeOK, GoroutinesAtWork, BeforeUpload, Disposing
  <2>. QED
    BY <2>2, <2>3, <2>4, <2>5
<1>. QED
  BY <1>1, <1>2, <1>3, <1>4

LEMMA NewWorkspaceFailsPreserves ==
    ASSUME Core, NewWorkspaceFails
    PROVE  Core'
<1>. USE SessionAssumption, OpenTables, WriteTables
     DEF NewWorkspaceFails, Goto, MayFail, Core, Goroutines, Objects, States,
         Resting, DeleteLabels, InitLabels, UploadLabels, DisposalLabels, DisposerLabels, Labels
<1>1. TypeOK'
  BY DEF TypeOK, GoroutinesAtWork
<1>2. GoroutinesAtWork'
  BY DEF TypeOK, GoroutinesAtWork, OneLiveSession, Live, Disposing
<1>3. OneLiveSession'
  BY DEF TypeOK, GoroutinesAtWork, OneLiveSession, Live, Disposing
<1>4. NothingRemovedYet'
  BY DEF TypeOK, GoroutinesAtWork, OneLiveSession, NothingRemovedYet, EmptyStore,
         ReadyIsComplete, BeforeUpload, Disposing
<1>. QED
  BY <1>1, <1>2, <1>3, <1>4

LEMMA InitFailsPreserves ==
    ASSUME Core, InitFails
    PROVE  Core'
<1>. USE SessionAssumption, OpenTables, WriteTables
     DEF InitFails, CutShort, Goto, MayFail, Core, Goroutines, Objects, States,
         Resting, DeleteLabels, InitLabels, UploadLabels, DisposalLabels, DisposerLabels, Labels
<1>1. TypeOK'
  BY DEF TypeOK, GoroutinesAtWork
<1>2. GoroutinesAtWork'
  BY DEF TypeOK, GoroutinesAtWork, OneLiveSession, Live, Disposing
<1>3. OneLiveSession'
  BY DEF TypeOK, GoroutinesAtWork, OneLiveSession, Live, Disposing
<1>4. NothingRemovedYet'
  <2>. SUFFICES ASSUME Backup, ~backup', asked' # "failed", ~redone'
                PROVE  (content # "removed" /\ EmptyStore /\ ReadyIsComplete /\ BeforeUpload)'
    BY DEF NothingRemovedYet
  <2>1. /\ ~backup /\ asked # "failed" /\ ~redone /\ content # "removed"
        /\ EmptyStore /\ ReadyIsComplete /\ BeforeUpload
    BY DEF TypeOK, NothingRemovedYet, GoroutinesAtWork
  <2>2. (content # "removed")'
    BY <2>1 DEF TypeOK, GoroutinesAtWork, BeforeUpload, Disposing
  <2>3. EmptyStore'
    BY <2>1 DEF TypeOK, GoroutinesAtWork, EmptyStore
  <2>4. ReadyIsComplete'
    BY <2>1 DEF TypeOK, GoroutinesAtWork, EmptyStore, ReadyIsComplete
  <2>5. BeforeUpload'
    BY <2>1 DEF TypeOK, GoroutinesAtWork, BeforeUpload, Disposing
  <2>. QED
    BY <2>2, <2>3, <2>4, <2>5
<1>. QED
  BY <1>1, <1>2, <1>3, <1>4

(* Persist, by whichever goroutine. *)
LEMMA MarshalPreserves ==
    ASSUME Core, NEW g \in Goroutines, Marshal(g)
    PROVE  Core'
<1>. USE SessionAssumption, OpenTables, WriteTables, PersistTables
     DEF Marshal, Goto, StateOf, Core, Goroutines, Objects, States,
         Resting, DeleteLabels, InitLabels, UploadLabels, DisposalLabels, DisposerLabels, Labels
<1>1. TypeOK'
  BY DEF TypeOK, GoroutinesAtWork
<1>2. GoroutinesAtWork'
  BY DEF TypeOK, GoroutinesAtWork, OneLiveSession, Live, Disposing
<1>3. OneLiveSession'
  BY DEF TypeOK, GoroutinesAtWork, OneLiveSession, Live, Disposing
<1>4. NothingRemovedYet'
  BY DEF TypeOK, GoroutinesAtWork, OneLiveSession, NothingRemovedYet, EmptyStore,
         ReadyIsComplete, BeforeUpload, Disposing
<1>. QED
  BY <1>1, <1>2, <1>3, <1>4

LEMMA OpenFilePreserves ==
    ASSUME Core, NEW g \in Goroutines, OpenFile(g)
    PROVE  Core'
<1>. USE SessionAssumption, OpenTables, WriteTables
     DEF OpenFile, Goto, Core, Goroutines, Objects, States,
         Resting, DeleteLabels, InitLabels, UploadLabels, DisposalLabels, DisposerLabels, Labels
<1>1. TypeOK'
  BY DEF TypeOK, GoroutinesAtWork
<1>2. GoroutinesAtWork'
  BY DEF TypeOK, GoroutinesAtWork, OneLiveSession, Live, Disposing
<1>3. OneLiveSession'
  BY DEF TypeOK, GoroutinesAtWork, OneLiveSession, Live, Disposing
<1>4. NothingRemovedYet'
  BY DEF TypeOK, GoroutinesAtWork, OneLiveSession, NothingRemovedYet, EmptyStore,
         ReadyIsComplete, BeforeUpload, Disposing
<1>. QED
  BY <1>1, <1>2, <1>3, <1>4

LEMMA WriteFilePreserves ==
    ASSUME Core, NEW g \in Goroutines, WriteFile(g)
    PROVE  Core'
<1>. USE SessionAssumption, OpenTables, WriteTables
     DEF WriteFile, Overlay, Goto, Core, Goroutines, Objects, States,
         Resting, DeleteLabels, InitLabels, UploadLabels, DisposalLabels, DisposerLabels, Labels
<1>1. TypeOK'
  BY DEF TypeOK, GoroutinesAtWork
<1>2. GoroutinesAtWork'
  BY DEF TypeOK, GoroutinesAtWork, OneLiveSession, Live, Disposing
<1>3. OneLiveSession'
  BY DEF TypeOK, GoroutinesAtWork, OneLiveSession, Live, Disposing
<1>4. NothingRemovedYet'
  BY DEF TypeOK, GoroutinesAtWork, OneLiveSession, NothingRemovedYet, EmptyStore,
         ReadyIsComplete, BeforeUpload, Disposing
<1>. QED
  BY <1>1, <1>2, <1>3, <1>4

(* The finalizers: WaitForInit, then DisposeWorkspace. *)
LEMMA CallWaitForInitPreserves ==
    ASSUME Core, NEW d \in Disposers, CallWaitForInit(d)
    PROVE  Core'
<1>. USE SessionAssumption, OpenTables, WriteTables
     DEF CallWaitForInit, Goto, Core, Goroutines, Objects, States,
         Resting, DeleteLabels, InitLabels, UploadLabels, DisposalLabels, DisposerLabels, Labels
<1>1. TypeOK'
  BY DEF TypeOK, GoroutinesAtWork
<1>2. GoroutinesAtWork'
  BY DEF TypeOK, GoroutinesAtWork, OneLiveSession, Live, Disposing
<1>3. OneLiveSession'
  BY DEF TypeOK, GoroutinesAtWork, OneLiveSession, Live, Disposing
<1>4. NothingRemovedYet'
  BY DEF TypeOK, GoroutinesAtWork, OneLiveSession, NothingRemovedYet, EmptyStore,
         ReadyIsComplete, BeforeUpload, Disposing
<1>. QED
  BY <1>1, <1>2, <1>3, <1>4

LEMMA WaitForInitPreserves ==
    ASSUME Core, NEW d \in Disposers, WaitForInit(d)
    PROVE  Core'
<1>. USE SessionAssumption, OpenTables, WriteTables
     DEF WaitForInit, Goto, AnswerReady, StateOf, Core, Goroutines, Objects, States,
         Resting, DeleteLabels, InitLabels, UploadLabels, DisposalLabels, DisposerLabels, Labels
<1>1. TypeOK'
  <2>1. readyTold' \in BOOLEAN
    BY DEF TypeOK
  <2>2. /\ pc' \in [Goroutines -> Labels]
        /\ \A g \in Goroutines : pc'[g] # pc[g] => pc'[g] \notin DOMAIN AfterWrite
    BY DEF TypeOK
  <2>. QED
    BY <2>1, <2>2 DEF TypeOK
<1>2. GoroutinesAtWork'
  BY DEF TypeOK, GoroutinesAtWork, OneLiveSession, Live, Disposing
<1>3. OneLiveSession'
  BY DEF TypeOK, GoroutinesAtWork, OneLiveSession, Live, Disposing
<1>4. NothingRemovedYet'
  BY DEF TypeOK, GoroutinesAtWork, OneLiveSession, NothingRemovedYet, EmptyStore,
         ReadyIsComplete, BeforeUpload, Disposing
<1>. QED
  BY <1>1, <1>2, <1>3, <1>4

LEMMA EnterWaitPreserves ==
    ASSUME Core, NEW d \in Disposers, EnterWait(d)
    PROVE  Core'
<1>. USE SessionAssumption, OpenTables, WriteTables
     DEF EnterWait, Goto, Core, Goroutines, Objects, States,
         Resting, DeleteLabels, InitLabels, UploadLabels, DisposalLabels, DisposerLabels, Labels
<1>1. TypeOK'
  BY DEF TypeOK, GoroutinesAtWork
<1>2. GoroutinesAtWork'
  BY DEF TypeOK, GoroutinesAtWork, OneLiveSession, Live, Disposing
<1>3. OneLiveSession'
  BY DEF TypeOK, GoroutinesAtWork, OneLiveSession, Live, Disposing
<1>4. NothingRemovedYet'
  BY DEF TypeOK, GoroutinesAtWork, OneLiveSession, NothingRemovedYet, EmptyStore,
         ReadyIsComplete, BeforeUpload, Disposing
<1>. QED
  BY <1>1, <1>2, <1>3, <1>4

LEMMA WokenForInitPreserves ==
    ASSUME Core, NEW d \in Disposers, WokenForInit(d)
    PROVE  Core'
<1>. USE SessionAssumption, OpenTables, WriteTables
     DEF WokenForInit, Goto, AnswerReady, StateOf, Core, Goroutines, Objects, States,
         Resting, DeleteLabels, InitLabels, UploadLabels, DisposalLabels, DisposerLabels, Labels
<1>1. TypeOK'
  BY DEF TypeOK, GoroutinesAtWork
<1>2. GoroutinesAtWork'
  BY DEF TypeOK, GoroutinesAtWork, OneLiveSession, Live, Disposing
<1>3. OneLiveSession'
  BY DEF TypeOK, GoroutinesAtWork, OneLiveSession, Live, Disposing
<1>4. NothingRemovedYet'
  BY DEF TypeOK, GoroutinesAtWork, OneLiveSession, NothingRemovedYet, EmptyStore,
         ReadyIsComplete, BeforeUpload, Disposing
<1>. QED
  BY <1>1, <1>2, <1>3, <1>4

LEMMA DisposeWorkspacePreserves ==
    ASSUME Core, NEW d \in Disposers, DisposeWorkspace(d)
    PROVE  Core'
<1>. USE SessionAssumption, OpenTables, WriteTables
     DEF DisposeWorkspace, Goto, Core, Goroutines, Objects, States,
         Resting, DeleteLabels, InitLabels, UploadLabels, DisposalLabels, DisposerLabels, Labels
<1>1. TypeOK'
  BY DEF TypeOK, GoroutinesAtWork
<1>2. GoroutinesAtWork'
  BY DEF TypeOK, GoroutinesAtWork, OneLiveSession, Live, Disposing
<1>3. OneLiveSession'
  BY DEF TypeOK, GoroutinesAtWork, OneLiveSession, Live, Disposing
<1>4. NothingRemovedYet'
  BY DEF TypeOK, GoroutinesAtWork, OneLiveSession, NothingRemovedYet, EmptyStore,
         ReadyIsComplete, BeforeUpload, Disposing
<1>. QED
  BY <1>1, <1>2, <1>3, <1>4

LEMMA WaitOrMarkForDisposalPreserves ==
    ASSUME Core, NEW d \in Disposers, WaitOrMarkForDisposal(d)
    PROVE  Core'
<1>. USE SessionAssumption, OpenTables, WriteTables
     DEF WaitOrMarkForDisposal, Goto, StateOf, SetState, Core, Goroutines, Objects, States,
         Resting, DeleteLabels, InitLabels, UploadLabels, DisposalLabels, DisposerLabels, Labels
<1>1. TypeOK'
  BY DEF TypeOK, GoroutinesAtWork
<1>2. GoroutinesAtWork'
  BY DEF TypeOK, GoroutinesAtWork, OneLiveSession, Live, Disposing
<1>3. OneLiveSession'
  BY DEF TypeOK, GoroutinesAtWork, OneLiveSession, Live, Disposing
<1>4. NothingRemovedYet'
  BY DEF TypeOK, GoroutinesAtWork, OneLiveSession, NothingRemovedYet, EmptyStore,
         ReadyIsComplete, BeforeUpload, Disposing
<1>. QED
  BY <1>1, <1>2, <1>3, <1>4

LEMMA WokenForDisposalPreserves ==
    ASSUME Core, NEW d \in Disposers, WokenForDisposal(d)
    PROVE  Core'
<1>. USE SessionAssumption, OpenTables, WriteTables
     DEF WokenForDisposal, Goto, Core, Goroutines, Objects, States,
         Resting, DeleteLabels, InitLabels, UploadLabels, DisposalLabels, DisposerLabels, Labels
<1>1. TypeOK'
  BY DEF TypeOK, GoroutinesAtWork
<1>2. GoroutinesAtWork'
  BY DEF TypeOK, GoroutinesAtWork, OneLiveSession, Live, Disposing
<1>3. OneLiveSession'
  BY DEF TypeOK, GoroutinesAtWork, OneLiveSession, Live, Disposing
<1>4. NothingRemovedYet'
  BY DEF TypeOK, GoroutinesAtWork, OneLiveSession, NothingRemovedYet, EmptyStore,
         ReadyIsComplete, BeforeUpload, Disposing
<1>. QED
  BY <1>1, <1>2, <1>3, <1>4

LEMMA UploadContentPreserves ==
    ASSUME Core, NEW d \in Disposers, UploadContent(d)
    PROVE  Core'
<1>. USE SessionAssumption, OpenTables, WriteTables
     DEF UploadContent, Goto, Core, Goroutines, Objects, States,
         Resting, DeleteLabels, InitLabels, UploadLabels, DisposalLabels, DisposerLabels, Labels
<1>1. TypeOK'
  BY DEF TypeOK, GoroutinesAtWork
<1>2. GoroutinesAtWork'
  BY DEF TypeOK, GoroutinesAtWork, OneLiveSession, Live, Disposing
<1>3. OneLiveSession'
  BY DEF TypeOK, GoroutinesAtWork, OneLiveSession, Live, Disposing
<1>4. NothingRemovedYet'
  <2>. SUFFICES ASSUME Backup, ~backup', asked' # "failed", ~redone'
                PROVE  (content # "removed" /\ EmptyStore /\ ReadyIsComplete /\ BeforeUpload)'
    BY DEF NothingRemovedYet
  <2>1. /\ ~backup /\ asked # "failed" /\ ~redone /\ content # "removed"
        /\ EmptyStore /\ ReadyIsComplete /\ BeforeUpload
    BY DEF TypeOK, NothingRemovedYet, GoroutinesAtWork
  <2>. content = "complete"
    BY <2>1 DEF ReadyIsComplete
  <2>2. (content # "removed")'
    BY <2>1 DEF TypeOK, GoroutinesAtWork, BeforeUpload, Disposing
  <2>3. EmptyStore'
    BY <2>1 DEF TypeOK, GoroutinesAtWork, EmptyStore
  <2>4. ReadyIsComplete'
    BY <2>1 DEF TypeOK, GoroutinesAtWork, EmptyStore, ReadyIsComplete
  <2>5. BeforeUpload'
    BY <2>1 DEF TypeOK, GoroutinesAtWork, BeforeUpload, Disposing
  <2>. QED
    BY <2>2, <2>3, <2>4, <2>5
<1>. QED
  BY <1>1, <1>2, <1>3, <1>4

LEMMA DisposeFailsPreserves ==
    ASSUME Core, NEW d \in Disposers, DisposeFails(d)
    PROVE  Core'
<1>. USE SessionAssumption, OpenTables, WriteTables, FailureTables
     DEF DisposeFails, CutShort, Goto, MayFail, Core, Goroutines, Objects, States,
         Resting, DeleteLabels, InitLabels, UploadLabels, DisposalLabels, DisposerLabels, Labels
<1>1. TypeOK'
  BY DEF TypeOK, GoroutinesAtWork
<1>2. GoroutinesAtWork'
  BY DEF TypeOK, GoroutinesAtWork, OneLiveSession, Live, Disposing
<1>3. OneLiveSession'
  BY DEF TypeOK, GoroutinesAtWork, OneLiveSession, Live, Disposing
<1>4. NothingRemovedYet'
  BY DEF TypeOK, GoroutinesAtWork, OneLiveSession, NothingRemovedYet, EmptyStore,
         ReadyIsComplete, BeforeUpload, Disposing
<1>. QED
  BY <1>1, <1>2, <1>3, <1>4

(* Store.Delete, by whichever goroutine, and the end of the process. *)
LEMMA DeletePreserves ==
    ASSUME Core, NEW g \in Goroutines, Delete(g)
    PROVE  Core'
<1>. USE SessionAssumption, OpenTables, WriteTables
     DEF Delete, Goto, EndDelete, Core, Goroutines, Objects, States,
         Resting, DeleteLabels, InitLabels, UploadLabels, DisposalLabels, DisposerLabels, Labels
<1>1. TypeOK'
  BY DEF TypeOK, GoroutinesAtWork
<1>2. GoroutinesAtWork'
  BY DEF TypeOK, GoroutinesAtWork, OneLiveSession, Live, Disposing
<1>3. OneLiveSession'
  BY DEF TypeOK, GoroutinesAtWork, OneLiveSession, Live, Disposing
<1>4. NothingRemovedYet'
  BY DEF TypeOK, GoroutinesAtWork, OneLiveSession, NothingRemovedYet, EmptyStore,
         ReadyIsComplete, BeforeUpload, Disposing
<1>. QED
  BY <1>1, <1>2, <1>3, <1>4

LEMMA RemoveFilePreserves ==
    ASSUME Core, NEW g \in Goroutines, RemoveFile(g)
    PROVE  Core'
<1>. USE SessionAssumption, OpenTables, WriteTables
     DEF RemoveFile, Goto, Core, Goroutines, Objects, States,
         Resting, DeleteLabels, InitLabels, UploadLabels, DisposalLabels, DisposerLabels, Labels
<1>1. TypeOK'
  BY DEF TypeOK, GoroutinesAtWork
<1>2. GoroutinesAtWork'
  BY DEF TypeOK, GoroutinesAtWork, OneLiveSession, Live, Disposing
<1>3. OneLiveSession'
  BY DEF TypeOK, GoroutinesAtWork, OneLiveSession, Live, Disposing
<1>4. NothingRemovedYet'
  <2>. SUFFICES ASSUME Backup, ~backup', asked' # "failed", ~redone'
                PROVE  (content # "removed" /\ EmptyStore /\ ReadyIsComplete /\ BeforeUpload)'
    BY DEF NothingRemovedYet
  <2>1. /\ ~backup /\ asked # "failed" /\ ~redone /\ content # "removed"
        /\ EmptyStore /\ ReadyIsComplete /\ BeforeUpload
    BY DEF TypeOK, NothingRemovedYet, GoroutinesAtWork
  <2>2. (content # "removed")'
    BY <2>1 DEF TypeOK, GoroutinesAtWork, BeforeUpload, Disposing
  <2>3. EmptyStore'
    BY <2>1 DEF TypeOK, GoroutinesAtWork, EmptyStore
  <2>4. ReadyIsComplete'
    BY <2>1 DEF TypeOK, GoroutinesAtWork, EmptyStore, ReadyIsComplete
  <2>5. BeforeUpload'
    BY <2>1 DEF TypeOK, GoroutinesAtWork, BeforeUpload, Disposing
  <2>. QED
    BY <2>2, <2>3, <2>4, <2>5
<1>. QED
  BY <1>1, <1>2, <1>3, <1>4

LEMMA MarkDisposedPreserves ==
    ASSUME Core, NEW g \in Goroutines, MarkDisposed(g)
    PROVE  Core'
<1>. USE SessionAssumption, OpenTables, WriteTables
     DEF MarkDisposed, SetState, Broadcast, Core, Goroutines, Objects, States,
         Resting, DeleteLabels, InitLabels, UploadLabels, DisposalLabels, DisposerLabels, Labels
<1>1. TypeOK'
  BY DEF TypeOK, GoroutinesAtWork
<1>2. GoroutinesAtWork'
  BY DEF TypeOK, GoroutinesAtWork, OneLiveSession, Live, Disposing
<1>3. OneLiveSession'
  BY DEF TypeOK, GoroutinesAtWork, OneLiveSession, Live, Disposing
<1>4. NothingRemovedYet'
  <2>. SUFFICES ASSUME Backup, ~backup', asked' # "failed", ~redone'
                PROVE  (content # "removed" /\ EmptyStore /\ ReadyIsComplete /\ BeforeUpload)'
    BY DEF NothingRemovedYet
  <2>1. /\ ~backup /\ asked # "failed" /\ ~redone /\ content # "removed"
        /\ EmptyStore /\ ReadyIsComplete /\ BeforeUpload
    BY DEF TypeOK, NothingRemovedYet, GoroutinesAtWork
  <2>2. (content # "removed")'
    BY <2>1 DEF TypeOK, GoroutinesAtWork, BeforeUpload, Disposing
  <2>3. EmptyStore'
    BY <2>1 DEF TypeOK, GoroutinesAtWork, EmptyStore
  <2>4. ReadyIsComplete'
    BY <2>1 DEF TypeOK, GoroutinesAtWork, EmptyStore, ReadyIsComplete
  <2>5. BeforeUpload'
    BY <2>1 DEF TypeOK, GoroutinesAtWork, BeforeUpload, Disposing
  <2>. QED
    BY <2>2, <2>3, <2>4, <2>5
<1>. QED
  BY <1>1, <1>2, <1>3, <1>4

LEMMA RemoveContentPreserves ==
    ASSUME Core, NEW g \in Goroutines, RemoveContent(g)
    PROVE  Core'
<1>. USE SessionAssumption, OpenTables, WriteTables
     DEF RemoveContent, Goto, EndDelete, Core, Goroutines, Objects, States,
         Resting, DeleteLabels, InitLabels, UploadLabels, DisposalLabels, DisposerLabels, Labels
<1>1. TypeOK'
  BY DEF TypeOK, GoroutinesAtWork
<1>2. GoroutinesAtWork'
  BY DEF TypeOK, GoroutinesAtWork, OneLiveSession, Live, Disposing
<1>3. OneLiveSession'
  BY DEF TypeOK, GoroutinesAtWork, OneLiveSession, Live, Disposing
<1>4. NothingRemovedYet'
  BY DEF TypeOK, GoroutinesAtWork, OneLiveSession, NothingRemovedYet, EmptyStore,
         ReadyIsComplete, BeforeUpload, Disposing
<1>. QED
  BY <1>1, <1>2, <1>3, <1>4

LEMMA DeleteFailsPreserves ==
    ASSUME Core, NEW g \in Goroutines, DeleteFails(g)
    PROVE  Core'
<1>. USE SessionAssumption, OpenTables, WriteTables
     DEF DeleteFails, Goto, EndDelete, MayFail, Core, Goroutines, Objects, States,
         Resting, DeleteLabels, InitLabels, UploadLabels, DisposalLabels, DisposerLabels, Labels
<1>1. TypeOK'
  BY DEF TypeOK, GoroutinesAtWork
<1>2. GoroutinesAtWork'
  BY DEF TypeOK, GoroutinesAtWork, OneLiveSession, Live, Disposing
<1>3. OneLiveSession'
  BY DEF TypeOK, GoroutinesAtWork, OneLiveSession, Live, Disposing
<1>4. NothingRemovedYet'
  BY DEF TypeOK, GoroutinesAtWork, OneLiveSession, NothingRemovedYet, EmptyStore,
         ReadyIsComplete, BeforeUpload, Disposing
<1>. QED
  BY <1>1, <1>2, <1>3, <1>4

LEMMA CrashPreserves ==
    ASSUME Core, Crash
    PROVE  Core'
<1>. USE SessionAssumption, OpenTables, WriteTables
     DEF Crash, Restore, Restored, NotRestored, MayFail, Core, Goroutines, Objects, States,
         Resting, DeleteLabels, InitLabels, UploadLabels, DisposalLabels, DisposerLabels, Labels
<1>1. TypeOK'
  BY DEF TypeOK, GoroutinesAtWork
<1>2. GoroutinesAtWork'
  BY DEF TypeOK, GoroutinesAtWork, OneLiveSession, Live, Disposing
<1>3. OneLiveSession'
  BY DEF TypeOK, GoroutinesAtWork, OneLiveSession, Live, Disposing
<1>4. NothingRemovedYet'
  <2>. SUFFICES ASSUME Backup, ~backup', asked' # "failed", ~redone'
                PROVE  (content # "removed" /\ EmptyStore /\ ReadyIsComplete /\ BeforeUpload)'
    BY DEF NothingRemovedYet
  <2>1. /\ ~backup /\ asked # "failed" /\ ~redone /\ content # "removed"
        /\ EmptyStore /\ ReadyIsComplete /\ BeforeUpload
    BY DEF TypeOK, NothingRemovedYet, GoroutinesAtWork
  <2>2. (content # "removed")'
    BY <2>1 DEF TypeOK, GoroutinesAtWork, BeforeUpload, Disposing
  <2>3. EmptyStore'
    BY <2>1 DEF TypeOK, GoroutinesAtWork, EmptyStore
  <2>4. ReadyIsComplete'
    BY <2>1 DEF TypeOK, GoroutinesAtWork, EmptyStore, ReadyIsComplete
  <2>5. BeforeUpload'
    BY <2>1 DEF TypeOK, GoroutinesAtWork, BeforeUpload, Disposing
  <2>. QED
    BY <2>2, <2>3, <2>4, <2>5
<1>. QED
  BY <1>1, <1>2, <1>3, <1>4

(* The first ws-daemon, and every step. *)
LEMMA InitEstablishes == Init => Core
<1>. SUFFICES ASSUME Init PROVE Core
  OBVIOUS
<1>. USE SessionAssumption DEF Init, Goroutines, Objects, States,
         Resting, DeleteLabels, InitLabels, UploadLabels, DisposalLabels, DisposerLabels, Labels
<1>1. TypeOK
  <2>1. "idle" \notin DOMAIN AfterWrite /\ "idle" \notin DOMAIN OpenAt
    BY DEF AfterWrite, OpenAt
  <2>2. /\ state \in [Objects -> States \cup {"none"}]
        /\ sess \in [Goroutines -> Objects \cup {0}]
        /\ doc \in [Goroutines -> States \cup {"none", "unlinked"}]
        /\ pc \in [Goroutines -> Labels] /\ \A g \in Goroutines : pc[g] = "idle"
    OBVIOUS
  <2>3. failures \in 0..MaxFailures /\ crashes \in 0..MaxCrashes
    OBVIOUS
  <2>. QED
    BY <2>1, <2>2, <2>3 DEF TypeOK
<1>2. GoroutinesAtWork
  BY DEF GoroutinesAtWork
<1>3. OneLiveSession
  BY DEF OneLiveSession, Live, Disposing
<1>4. NothingRemovedYet
  BY DEF NothingRemovedYet, EmptyStore, ReadyIsComplete, BeforeUpload, Disposing
<1>. QED
  BY <1>1, <1>2, <1>3, <1>4 DEF Core

LEMMA NextPreserves ==
    ASSUME Core, [Next]_vars
    PROVE  Core'
<1>1. CASE InitStep \/ NewWorkspaceFails \/ InitFails
  BY <1>1, InitWorkspacePreserves, RunInitializerPreserves, MarkReadyPreserves,
     RunHooksPreserves, AnswerInitPreserves, NewWorkspaceFailsPreserves, InitFailsPreserves
     DEF InitStep
<1>2. CASE \E d \in Disposers : DisposerStep(d) \/ DisposeFails(d)
  <2>1. PICK d \in Disposers : DisposerStep(d) \/ DisposeFails(d)
    BY <1>2
  <2>. QED
    BY <2>1, CallWaitForInitPreserves, WaitForInitPreserves, EnterWaitPreserves,
       WokenForInitPreserves, DisposeWorkspacePreserves, WaitOrMarkForDisposalPreserves,
       WokenForDisposalPreserves, UploadContentPreserves, DisposeFailsPreserves DEF DisposerStep
<1>3. CASE \E g \in Goroutines : SharedStep(g) \/ DeleteFails(g)
  <2>1. PICK g \in Goroutines : SharedStep(g) \/ DeleteFails(g)
    BY <1>3
  <2>. QED
    BY <2>1, MarshalPreserves, OpenFilePreserves, WriteFilePreserves, DeletePreserves,
       RemoveFilePreserves, MarkDisposedPreserves, RemoveContentPreserves, DeleteFailsPreserves
       DEF SharedStep
<1>4. CASE Crash
  BY <1>4, CrashPreserves
<1>5. CASE UNCHANGED vars
  <2>. USE <1>5 DEF vars, Core
  <2>1. TypeOK'
    BY DEF TypeOK
  <2>2. GoroutinesAtWork'
    BY DEF GoroutinesAtWork
  <2>3. OneLiveSession'
    BY DEF OneLiveSession, Live, Disposing
  <2>4. NothingRemovedYet'
    BY DEF NothingRemovedYet, EmptyStore, ReadyIsComplete, BeforeUpload, Disposing
  <2>. QED
    BY <2>1, <2>2, <2>3, <2>4
<1>. QED
  BY <1>1, <1>2, <1>3, <1>4, <1>5 DEF Next

(* Two finalizers that dispose at the same time are one: the set of those  *)
(* that do has at most one element.                                        *)
LEMMA CoreImpliesOneDisposer == Core => OneDisposer
<1>. SUFFICES ASSUME Core, Backup PROVE OneDisposer
  BY DEF OneDisposer
<1>1. CASE Disposing = {}
  BY <1>1, FS_EmptySet DEF OneDisposer
<1>2. CASE Disposing # {}
  <2>1. PICK d : d \in Disposing
    BY <1>2
  <2>2. Disposing = {d}
    BY <2>1 DEF Core, OneLiveSession
  <2>3. Cardinality({d}) = 1
    BY FS_Singleton
  <2>. QED
    BY <2>2, <2>3 DEF OneDisposer
<1>. QED
  BY <1>1, <1>2

(* The inductive invariant. *)
THEOREM CoreInvariant == Spec => []Core
<1>1. Core /\ [Next]_vars => Core'
  BY NextPreserves
<1>. QED
  BY InitEstablishes, <1>1, PTL DEF Spec

(* However many finalizers call, in whatever order they are woken, and     *)
(* across failures, crashes of ws-daemon and sessions it cannot restore:   *)
(* at most one of those that ask for a backup backs up and disposes of the *)
(* workspace (WaitOrMarkForDisposal).                                      *)
THEOREM SessionInvariant == Spec => []SessionInv
<1>1. Core => SessionInv
  BY CoreImpliesOneDisposer DEF Core, SessionInv
<1>. QED
  BY CoreInvariant, <1>1, PTL

(* The content of a workspace whose initialization did not fail is removed *)
(* only after a complete backup of it, whatever fails or crashes, though   *)
(* InitWorkspace may write the state file of a session that has been       *)
(* disposed of meanwhile, and a state file may be torn (DisposeWorkspace,  *)
(* Persist, NewStore); unless InitWorkspace was repeated beside the valid  *)
(* state file of a session lost to a failing hook.                         *)
THEOREM RemovalIsSafe == Spec => []BackedUpBeforeRemoval
<1>1. Core => BackedUpBeforeRemoval
  BY DEF Core, NothingRemovedYet, BackedUpBeforeRemoval
<1>. QED
  BY CoreInvariant, <1>1, PTL

-----------------------------------------------------------------------------
(* The limit on concurrent backups, by itself: what uploadWorkspaceContent *)
(* of workspace_operations.go does before and after an upload, for any     *)
(* number of uploads and any limit. *)
LEMMA LimiterStarts ==
    ASSUME LimiterInit
    PROVE  TokensExact
<1>1. Running = {}
  BY DEF LimiterInit, Running
<1>2. Running \ timedOut = {} /\ Cardinality({}) = 0
  BY <1>1, FS_EmptySet
<1>. QED
  BY <1>1, <1>2, LimiterAssumption DEF LimiterInit, TokensExact

(* An upload that gets a token is a new one among those that hold one; the *)
(* one that gives it back, and did not time out, was one of them. *)
LEMMA LimiterStep ==
    ASSUME RemembersTimeout = TRUE,
           TokensExact, [LimiterNext]_limiterVars
    PROVE  TokensExact'
<1>. DEFINE Holders == Running \ timedOut
<1>1. /\ upload \in [Uploads -> {"idle", "waiting", "uploading", "releasing"}]
      /\ timedOut \subseteq Running /\ tokens = Cardinality(Holders) /\ tokens \in 0..Limit
  BY DEF TokensExact
<1>2. IsFiniteSet(Holders)
  <2>1. Holders \in SUBSET Uploads
    BY DEF Running
  <2>. QED
    BY <2>1, FS_Subset, LimiterAssumption
<1>3. CASE UNCHANGED limiterVars
  BY <1>1, <1>3 DEF limiterVars, TokensExact, Running
<1>4. ASSUME NEW u \in Uploads, Call(u) \/ UploadEnds(u)
      PROVE  TokensExact'
  <2>1. /\ upload' \in [Uploads -> {"idle", "waiting", "uploading", "releasing"}]
        /\ UNCHANGED <<tokens, timedOut>> /\ Running' = Running
    BY <1>1, <1>4 DEF Call, UploadEnds, Running
  <2>. QED
    BY <1>1, <2>1 DEF TokensExact
<1>5. ASSUME NEW u \in Uploads, Acquire(u) PROVE TokensExact'
  <2>1. /\ upload' \in [Uploads -> {"idle", "waiting", "uploading", "releasing"}]
        /\ UNCHANGED timedOut /\ Running' = Running \cup {u} /\ u \notin Running
        /\ tokens' = tokens + 1 /\ tokens < Limit
    BY <1>1, <1>5 DEF Acquire, HasRoom, Running
  <2>2. Holders' = Holders \cup {u} /\ u \notin Holders
    BY <1>1, <2>1
  <2>3. Cardinality(Holders') = Cardinality(Holders) + 1
    BY <1>2, <2>2, FS_AddElement
  <2>. QED
    BY <1>1, <2>1, <2>3, LimiterAssumption DEF TokensExact
<1>6. ASSUME NEW u \in Uploads, TimeOut(u) PROVE TokensExact'
  <2>1. /\ upload' \in [Uploads -> {"idle", "waiting", "uploading", "releasing"}]
        /\ timedOut' = timedOut \cup {u} /\ Running' = Running \cup {u} /\ u \notin Running
        /\ UNCHANGED tokens
    BY <1>1, <1>6 DEF TimeOut, Running
  <2>2. Holders' = Holders
    BY <1>1, <2>1
  <2>. QED
    BY <1>1, <2>1, <2>2 DEF TokensExact
<1>7. ASSUME NEW u \in Uploads, Release(u) PROVE TokensExact'
  <2>1. /\ upload' \in [Uploads -> {"idle", "waiting", "uploading", "releasing"}]
        /\ timedOut' = timedOut \ {u} /\ Running' = Running \ {u} /\ u \in Running
    BY <1>1, <1>7 DEF Release, Running
  <2>2. CASE u \in timedOut
    <3>1. Holders' = Holders /\ UNCHANGED tokens
      BY <1>1, <1>7, <2>1, <2>2 DEF Release, Owes
    <3>. QED
      BY <1>1, <2>1, <3>1 DEF TokensExact
  <2>3. CASE u \notin timedOut
    <3>1. Holders' = Holders \ {u} /\ u \in Holders /\ tokens > 0 /\ tokens' = tokens - 1
      BY <1>1, <1>7, <2>1, <2>3 DEF Release, Owes
    <3>2. Cardinality(Holders') = Cardinality(Holders) - 1
      BY <1>2, <3>1, FS_RemoveElement
    <3>. QED
      BY <1>1, <2>1, <3>1, <3>2, LimiterAssumption DEF TokensExact
  <2>. QED
    BY <2>2, <2>3
<1>. QED
  BY <1>3, <1>4, <1>5, <1>6, <1>7 DEF LimiterNext

(* The channel holds one token for every upload that is under way and did  *)
(* not time out waiting, in every order of timeouts and deferred receives, *)
(* as long as an upload remembers that it holds none                       *)
(* (workspace_operations.go, uploadWorkspaceContent). *)
THEOREM LimiterInvariant ==
    ASSUME RemembersTimeout = TRUE
    PROVE  LimiterSpec => []TokensExact
<1>1. LimiterInit => TokensExact
  BY LimiterStarts
<1>2. TokensExact /\ [LimiterNext]_limiterVars => TokensExact'
  BY LimiterStep
<1>. QED
  BY <1>1, <1>2, PTL DEF LimiterSpec

(* Hence at most Limit uploads run at a time besides the ones that timed   *)
(* out waiting: no token is given away that is in use                      *)
(* (workspace_operations.go, uploadWorkspaceContent). *)
THEOREM LimiterHolds ==
    ASSUME RemembersTimeout = TRUE
    PROVE  LimiterSpec => []BackupsLimited
<1>1. TokensExact => BackupsLimited
  BY DEF TokensExact, BackupsLimited
<1>. QED
  BY <1>1, LimiterInvariant, PTL
=============================================================================
