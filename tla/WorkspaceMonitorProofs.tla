----------------------- MODULE WorkspaceMonitorProofs ----------------------
(***************************************************************************)
(* Proofs about WorkspaceMonitor, for any number of goroutines, events in  *)
(* the pool, failures and restarts, with and without timeouts and aborts.  *)
(*                                                                         *)
(* NoSilentLoss spans the whole life of a workspace.  What carries it:     *)
(* marks that matter are never taken back, so that a decision made on an   *)
(* outdated copy of the pod is still right for the pod (CopiesInOrder);    *)
(* the finalizer only leaves the pod when nothing can be lost any more     *)
(* (SettledBeforeRelease); and a goroutine only records a disposal without *)
(* failure when there is a backup, or none is needed (FinalizersKnow).     *)
(***************************************************************************)
EXTENDS WorkspaceMonitor, TLAPS

(* What the phase of a pod tells about it. *)
LEMMA PhaseFacts ==
    ASSUME NEW p \in Pods
    PROVE  /\ Phase(p) = "RUNNING" /\ ~Failed(p) => MayRun(p)
           /\ Phase(p) = "STOPPED" => p.deleted
           /\ Phase(p) = "STOPPED" => IsDisposed(p) \/ ~p.finalizer
BY DEF Pods, Phase, Failed, MayRun

LEMMA OlderFacts ==
    /\ \A p \in ProperPods : Older(p, p)
    /\ \A p, q, r \in ProperPods : Older(p, q) /\ Older(q, r) => Older(p, r)
BY DEF Older

(* The copies of the pod, seen from the queue. *)
LEMMA CopiesFacts ==
    ASSUME TypeOK
    PROVE  /\ pod \in Copies
           /\ \A i \in 1..Len(events) : events[i] \in Copies
           /\ Copies \subseteq ProperPods /\ ProperPods \subseteq Pods
           /\ events # <<>> => Head(events) \in Copies
<1>1. /\ pod \in Copies /\ \A i \in 1..Len(events) : events[i] \in Copies
      /\ Copies \subseteq ProperPods
  BY DEF Copies, TypeOK
<1>2. ProperPods \subseteq Pods
  BY DEF ProperPods
<1>3. events # <<>> => Head(events) = events[1] /\ 1 \in 1..Len(events)
  BY DEF TypeOK
<1>. QED
  BY <1>1, <1>2, <1>3

(* How the queue may change. *)
LEMMA QueueFacts ==
    ASSUME TypeOK, CopiesInOrder, pod' \in ProperPods, Older(pod, pod'),
           \/ UNCHANGED events
           \/ events # <<>> /\ events' = Tail(events)
           \/ events' = <<>>
           \/ events' = Append(events, pod) /\ Len(events) < MaxEvents
    PROVE  /\ events' \in Seq(ProperPods) /\ Len(events') <= MaxEvents
           /\ Copies' \subseteq Copies \cup {pod'}
           /\ CopiesInOrder'
<1>0. /\ pod \in ProperPods /\ events \in Seq(ProperPods)
      /\ Len(events) \in Nat /\ Len(events) <= MaxEvents /\ MaxEvents \in Nat
      /\ \A i \in 1..Len(events) : events[i] \in ProperPods
  BY MonitorAssumption DEF TypeOK
<1>1. \A i \in 1..Len(events) : Older(events[i], pod) /\ Older(events[i], pod')
  BY <1>0, OlderFacts DEF CopiesInOrder
<1>2. CASE UNCHANGED events
  BY <1>0, <1>1, <1>2 DEF Copies, CopiesInOrder, Older
<1>3. CASE events # <<>> /\ events' = Tail(events)
  <2>1. /\ events' \in Seq(ProperPods) /\ Len(events') = Len(events) - 1
        /\ \A i \in 1..Len(events') : events'[i] = events[i + 1] /\ i + 1 \in 1..Len(events)
    BY <1>0, <1>3
  <2>2. Copies' \subseteq Copies \cup {pod'}
    BY <2>1 DEF Copies
  <2>3. \A i \in 1..Len(events') : Older(events'[i], pod')
    BY <1>1, <2>1
  <2>4. \A i \in 1..Len(events') : \A j \in i..Len(events') : Older(events'[i], events'[j])
    <3>1. SUFFICES ASSUME NEW i \in 1..Len(events'), NEW j \in i..Len(events')
                   PROVE  Older(events'[i], events'[j])
      OBVIOUS
    <3>2. /\ j \in 1..Len(events') /\ i + 1 \in 1..Len(events)
          /\ j + 1 \in (i + 1)..Len(events)
      BY <1>0, <2>1
    <3>3. events'[i] = events[i + 1] /\ events'[j] = events[j + 1]
      BY <2>1, <3>2
    <3>4. Older(events[i + 1], events[j + 1])
      BY <3>2 DEF CopiesInOrder
    <3>. QED
      BY <3>3, <3>4
  <2>. QED
    BY <1>0, <2>1, <2>2, <2>3, <2>4 DEF CopiesInOrder, Older
<1>4. CASE events' = <<>>
  BY <1>0, <1>4 DEF Copies, CopiesInOrder
<1>5. CASE events' = Append(events, pod) /\ Len(events) < MaxEvents
  <2>1. /\ events' \in Seq(ProperPods) /\ Len(events') = Len(events) + 1
        /\ \A i \in 1..Len(events) : events'[i] = events[i]
        /\ events'[Len(events) + 1] = pod
    BY <1>0, <1>5
  <2>2. \A i \in 1..Len(events') : i \in 1..Len(events) \/ i = Len(events) + 1
    BY <1>0, <2>1
  <2>3. Copies' \subseteq Copies \cup {pod'}
    BY <2>1, <2>2 DEF Copies
  <2>4. \A i \in 1..Len(events') : Older(events'[i], pod')
    BY <1>1, <2>1, <2>2
  <2>5. \A i \in 1..Len(events') : \A j \in i..Len(events') : Older(events'[i], events'[j])
    <3>1. SUFFICES ASSUME NEW i \in 1..Len(events'), NEW j \in i..Len(events')
                   PROVE  Older(events'[i], events'[j])
      OBVIOUS
    <3>2. CASE j = Len(events) + 1
      BY <1>0, <1>1, <2>1, <2>2, <3>2, OlderFacts
    <3>3. CASE j # Len(events) + 1
      <4>1. i \in 1..Len(events) /\ j \in i..Len(events) /\ j \in 1..Len(events)
        BY <1>0, <2>1, <3>3
      <4>. QED
        BY <2>1, <4>1 DEF CopiesInOrder
    <3>. QED
      BY <3>2, <3>3
  <2>. QED
    BY <1>0, <1>5, <2>1, <2>3, <2>4, <2>5 DEF CopiesInOrder, Older
<1>. QED
  BY <1>2, <1>3, <1>4, <1>5

(* What a step may do to the pod, its copies and what is known of them. *)
PodStep ==
    /\ pod' \in ProperPods /\ Older(pod, pod')
    /\ Copies' \subseteq Copies \cup {pod'}
    /\ starting' => starting /\ "attemptingToCreate" \in pod'.marks
    /\ ~starting /\ "attemptingToCreate" \in pod.marks => "attemptingToCreate" \in pod'.marks
    /\ backup => backup'
    /\ Told => Told' \/ \A p \in Copies' : p.finalizer
    /\ wasRunning' => \/ wasRunning
                      \/ \E p \in Copies : MayRun(p) /\ \A q \in Copies' : Older(p, q)
    /\ ~pod'.exists => ~pod'.finalizer
    /\ ~pod'.finalizer => ~pod.finalizer \/ Settled \/ Settled'
    /\ IsDisposed(pod') /\ ~pod'.backupFailure =>
          (IsDisposed(pod) /\ ~pod.backupFailure) \/ backup' \/ NeverRuns

(* It cannot unsettle what is settled. *)
LEMMA PodStepPreserves ==
    ASSUME TypeOK, SettledBeforeRelease, PodStep
    PROVE  /\ NeverRuns => NeverRuns'
           /\ SettledBeforeRelease'
<1>0. /\ pod \in ProperPods /\ pod \in Copies /\ Copies \subseteq ProperPods
      /\ pod' \in ProperPods
  BY CopiesFacts DEF PodStep, TypeOK
<1>1. ASSUME NeverRuns PROVE NeverRuns'
  <2>1. ~wasRunning'
    BY <1>1 DEF PodStep, NeverRuns
  <2>2. pod'.deleted \/ ("attemptingToCreate" \in pod'.marks /\ ~starting')
    BY <1>1 DEF PodStep, NeverRuns, Older
  <2>3. \A p \in Copies' : ~MayRun(p)
    BY <1>1, <2>2 DEF PodStep, NeverRuns, MayRun
  <2>. QED
    BY <2>1, <2>2, <2>3 DEF NeverRuns, MayRun
<1>2. ASSUME Settled PROVE Settled' \/ \A p \in Copies' : p.finalizer
  BY <1>1, <1>2 DEF Settled, PodStep, Older
<1>3. ASSUME wasRunning'
      PROVE  \A p \in Copies' : {"neverReady", "attemptingToCreate"} \cap p.marks = {}
  BY <1>0, <1>3 DEF PodStep, SettledBeforeRelease, Older, MayRun
<1>4. ASSUME NEW p \in Copies', ~p.finalizer PROVE Settled'
  BY <1>0, <1>2, <1>4 DEF PodStep, SettledBeforeRelease
<1>5. ASSUME NEW p \in Copies', IsDisposed(p), ~p.backupFailure
      PROVE  backup' \/ NeverRuns'
  BY <1>0, <1>1, <1>5 DEF PodStep, SettledBeforeRelease
<1>6. (starting' => "attemptingToCreate" \in pod'.marks) /\ (~pod'.exists => ~pod'.finalizer)
  BY DEF PodStep
<1>. QED
  BY <1>1, <1>2, <1>3, <1>4, <1>5, <1>6 DEF SettledBeforeRelease, IsDisposed

-----------------------------------------------------------------------------
(* The invariant in three parts: the pod and its copies, the goroutines,   *)
(* and everything else. *)
PodInv ==
    /\ pod \in ProperPods /\ events \in Seq(ProperPods) /\ Len(events) <= MaxEvents
    /\ CopiesInOrder /\ SettledBeforeRelease

RoutineInv ==
    /\ routine \in [Goroutines -> Routines]
    /\ \A g \in Goroutines :
          /\ routine[g].kind = "finalize" <=> routine[g].at \in FinalizeLabels
          /\ routine[g].kind = "none" => At(g, "idle")
    /\ FinalizerMapExact /\ FinalizersKnow

RestInv ==
    /\ dirty \in BOOLEAN /\ starting \in BOOLEAN /\ initializerMap \in BOOLEAN
    /\ probeMap \in BOOLEAN /\ finalizerMap \in BOOLEAN /\ content \in BOOLEAN
    /\ backup \in BOOLEAN /\ reporting \in BOOLEAN /\ wasRunning \in BOOLEAN
    /\ reported \in BOOLEAN /\ lost \in BOOLEAN
    /\ session \in {"none", "initializing", "ready", "disposing"}
    /\ failures \in 0..MaxFailures /\ restarts \in 0..MaxRestarts

LEMMA Parts == MonitorInv <=> PodInv /\ RoutineInv /\ RestInv
<1>1. {dirty, starting, initializerMap, probeMap, finalizerMap, content, backup,
       reporting, wasRunning, reported, lost} \subseteq BOOLEAN
        <=> /\ dirty \in BOOLEAN /\ starting \in BOOLEAN /\ initializerMap \in BOOLEAN
            /\ probeMap \in BOOLEAN /\ finalizerMap \in BOOLEAN /\ content \in BOOLEAN
            /\ backup \in BOOLEAN /\ reporting \in BOOLEAN /\ wasRunning \in BOOLEAN
            /\ reported \in BOOLEAN /\ lost \in BOOLEAN
  OBVIOUS
<1>. QED
  BY <1>1 DEF MonitorInv, TypeOK, PodInv, RoutineInv, RestInv

LEMMA PartsAfter ==
    ASSUME PodInv', RoutineInv', RestInv'
    PROVE  MonitorInv'
<1>1. ({dirty, starting, initializerMap, probeMap, finalizerMap, content, backup,
        reporting, wasRunning, reported, lost} \subseteq BOOLEAN)'
  BY DEF RestInv
<1>. QED
  BY <1>1 DEF MonitorInv, TypeOK, PodInv, RoutineInv, RestInv

(* What the goroutines rely on stays true. *)
Stable ==
    /\ pod.deleted => pod'.deleted
    /\ backup => backup'
    /\ NeverRuns => NeverRuns'

LEMMA StepIsStable ==
    ASSUME MonitorInv, PodStep,
           \/ UNCHANGED events
           \/ events # <<>> /\ events' = Tail(events)
           \/ events' = <<>>
           \/ events' = Append(events, pod) /\ Len(events) < MaxEvents
    PROVE  PodInv' /\ Stable
<1>1. TypeOK /\ CopiesInOrder /\ SettledBeforeRelease
  BY DEF MonitorInv
<1>2. pod' \in ProperPods /\ Older(pod, pod')
  BY DEF PodStep
<1>3. /\ events' \in Seq(ProperPods) /\ Len(events') <= MaxEvents
      /\ CopiesInOrder'
  BY <1>1, <1>2, QueueFacts
<1>4. SettledBeforeRelease' /\ (NeverRuns => NeverRuns')
  BY <1>1, PodStepPreserves
<1>. QED
  BY <1>2, <1>3, <1>4 DEF PodInv, Stable, PodStep, Older

(* Edits of the pod that a step may make at any time: they take no mark    *)
(* back but neverReady, keep the finalizer, and do not claim a disposal    *)
(* without failure. *)
Tame(p, q) ==
    /\ q \in ProperPods /\ Older(p, q)
    /\ q.exists = p.exists
    /\ p.finalizer => q.finalizer
    /\ "attemptingToCreate" \in p.marks => "attemptingToCreate" \in q.marks
    /\ IsDisposed(q) /\ ~q.backupFailure => IsDisposed(p) /\ ~p.backupFailure

LEMMA TameSteps ==
    /\ \A p \in ProperPods : Tame(p, p)
    /\ \A p, q, r \in ProperPods : Tame(p, q) /\ Tame(q, r) => Tame(p, r)
BY DEF Tame, Older

LEMMA MarkIsTame ==
    ASSUME NEW p \in ProperPods,
           NEW names \in SUBSET (Marks \ {"neverReady", "attemptingToCreate"})
    PROVE  Tame(p, Mark(p, names)) /\ names \subseteq Mark(p, names).marks
<1>1. p \in Pods /\ Marks \ {"neverReady", "attemptingToCreate"} \subseteq Marks
  BY DEF ProperPods
<1>2. /\ Mark(p, names) \in Pods
      /\ Mark(p, names).marks = p.marks \cup names
      /\ Mark(p, names).exists = p.exists /\ Mark(p, names).deleted = p.deleted
      /\ Mark(p, names).finalizer = p.finalizer /\ Mark(p, names).disposal = p.disposal
      /\ Mark(p, names).backupFailure = p.backupFailure
  BY <1>1 DEF Mark, Pods
<1>. QED
  BY <1>2 DEF Tame, Older, ProperPods, IsDisposed

LEMMA StopIsTame ==
    ASSUME NEW p \in ProperPods
    PROVE  Tame(p, Stop(p))
BY DEF Tame, Stop, Older, ProperPods, Pods, IsDisposed

LEMMA UnmarkIsTame ==
    ASSUME NEW p \in ProperPods
    PROVE  Tame(p, Unmark(p, "neverReady"))
BY DEF Tame, Unmark, Older, ProperPods, Pods, IsDisposed

LEMMA DisposalIsTame ==
    ASSUME NEW p \in ProperPods, NEW status \in Disposals, NEW failed \in BOOLEAN,
           status = "finished" <=> failed
    PROVE  Tame(p, MarkDisposal(p, status, failed))
BY DEF Tame, MarkDisposal, Older, ProperPods, Pods, IsDisposed

LEMMA FinalizerIsTame ==
    ASSUME NEW p \in ProperPods
    PROVE  Tame(p, WithFinalizer(p, TRUE))
BY DEF Tame, WithFinalizer, Older, ProperPods, Pods, IsDisposed

(* A tame update of the pod, alone or with a step of the queue. *)
LEMMA TameUpdate ==
    ASSUME MonitorInv, NEW new, Tame(pod, new), Update(new),
           UNCHANGED <<starting, published>>, backup => backup',
           \/ UNCHANGED events
           \/ events # <<>> /\ events' = Tail(events)
    PROVE  PodInv' /\ Stable /\ dirty' \in BOOLEAN
<1>1. TypeOK /\ CopiesInOrder /\ SettledBeforeRelease /\ pod \in ProperPods
  BY DEF MonitorInv, TypeOK
<1>2. (pod' = pod \/ pod' = new) /\ (~pod.exists => pod' = pod)
  BY DEF Update
<1>3. Tame(pod, pod')
  BY <1>1, <1>2, TameSteps
<1>4. Copies' \subseteq Copies \cup {pod'}
  BY <1>1, <1>3, QueueFacts DEF Tame
<1>5. PodStep
  <2>1. /\ pod' \in ProperPods /\ Older(pod, pod') /\ pod'.exists = pod.exists
        /\ pod.finalizer => pod'.finalizer
        /\ "attemptingToCreate" \in pod.marks => "attemptingToCreate" \in pod'.marks
        /\ IsDisposed(pod') /\ ~pod'.backupFailure => IsDisposed(pod) /\ ~pod.backupFailure
    BY <1>3 DEF Tame
  <2>2. ~pod'.exists => pod' = pod
    BY <1>2, <2>1
  <2>. QED
    BY <1>1, <1>4, <2>1, <2>2 DEF PodStep, SettledBeforeRelease, published, Told
<1>. QED
  BY <1>5, StepIsStable DEF Update

LEMMA NoUpdate ==
    ASSUME MonitorInv, UNCHANGED <<pod, events, starting, wasRunning>>, Told => Told',
           backup => backup'
    PROVE  PodInv' /\ Stable
<1>1. TypeOK /\ CopiesInOrder /\ SettledBeforeRelease /\ pod \in ProperPods
  BY DEF MonitorInv, TypeOK
<1>2. Tame(pod, pod')
  BY <1>1, TameSteps
<1>3. Copies' \subseteq Copies \cup {pod'}
  BY DEF Copies
<1>4. PodStep
  BY <1>1, <1>2, <1>3 DEF PodStep, Tame, SettledBeforeRelease, Older
<1>. QED
  BY <1>4, StepIsStable

-----------------------------------------------------------------------------
(* The goroutines. *)
LEMMA RoutinesStay ==
    ASSUME MonitorInv, Stable, UNCHANGED <<routine, finalizerMap>>
    PROVE  RoutineInv'
BY DEF MonitorInv, TypeOK, RoutineInv, Stable, FinalizerMapExact, FinalizersKnow, Finalizing, At

(* One goroutine becomes r; finalizerMap follows what it does. *)
LEMMA RoutineMoves ==
    ASSUME MonitorInv, Stable, NEW g \in Goroutines, NEW r \in Routines,
           routine' = [routine EXCEPT ![g] = r],
           r.kind = "finalize" <=> r.at \in FinalizeLabels,
           r.kind = "none" => r.at = "idle",
           r.kind = "finalize" =>
              /\ pod'.deleted
              /\ r.doBackup \/ NeverRuns'
              /\ r.at = "finish" => r.failed \/ backup' \/ NeverRuns',
           \/ UNCHANGED finalizerMap /\ (Finalizing(g) <=> r.kind = "finalize" /\ r.at # "finalize")
           \/ finalizerMap' = FALSE /\ Finalizing(g) /\ r.kind # "finalize"
           \/ finalizerMap' = TRUE /\ ~finalizerMap /\ r.kind = "finalize" /\ r.at # "finalize"
    PROVE  RoutineInv'
<1>1. /\ routine \in [Goroutines -> Routines] /\ routine' \in [Goroutines -> Routines]
      /\ routine'[g] = r
      /\ \A h \in Goroutines : h # g => routine'[h] = routine[h]
  BY DEF MonitorInv, TypeOK
<1>2. \A h \in Goroutines :
         /\ routine'[h].kind = "finalize" <=> routine'[h].at \in FinalizeLabels
         /\ routine'[h].kind = "none" => routine'[h].at = "idle"
  BY <1>1 DEF MonitorInv, TypeOK, At
<1>3. FinalizersKnow'
  BY <1>1 DEF MonitorInv, FinalizersKnow, Stable, At
<1>4. FinalizerMapExact'
  BY <1>1 DEF MonitorInv, FinalizerMapExact, Finalizing, At
<1>. QED
  BY <1>1, <1>2, <1>3, <1>4 DEF RoutineInv, At

(* The ways a goroutine moves. *)
LEMMA IdleFields ==
    Idle \in Routines /\ Idle.kind = "none" /\ Idle.at = "idle" /\ "idle" \notin FinalizeLabels
BY DEF Idle, Routines, Labels, FinalizeLabels

LEMMA GotoFields ==
    ASSUME MonitorInv, NEW g \in Goroutines, NEW label \in Labels, Goto(g, label)
    PROVE  \E r \in Routines :
              /\ routine' = [routine EXCEPT ![g] = r]
              /\ r.at = label /\ r.kind = routine[g].kind
              /\ r.doBackup = routine[g].doBackup /\ r.failed = routine[g].failed
<1>. DEFINE r == [routine[g] EXCEPT !.at = label]
<1>1. routine[g] \in Routines /\ routine \in [Goroutines -> Routines]
  BY DEF MonitorInv, TypeOK
<1>2. /\ r \in Routines /\ r.at = label /\ r.kind = routine[g].kind
      /\ r.doBackup = routine[g].doBackup /\ r.failed = routine[g].failed
  BY <1>1 DEF Routines
<1>3. routine' = [routine EXCEPT ![g] = r]
  BY <1>1 DEF Goto
<1>. QED
  BY <1>2, <1>3

LEMMA KindOf ==
    ASSUME MonitorInv, NEW g \in Goroutines
    PROVE  /\ routine[g] \in Routines
           /\ routine[g].kind = "finalize" <=> routine[g].at \in FinalizeLabels
           /\ routine[g].kind = "none" => routine[g].at = "idle"
           /\ Finalizing(g) <=> routine[g].at \in FinalizeLabels \ {"finalize"}
BY DEF MonitorInv, TypeOK, Finalizing, At, FinalizeLabels

(* Of the goroutines that initialize and probe *)
LEMMA PlainGoto ==
    ASSUME MonitorInv, Stable, NEW g \in Goroutines,
           NEW label \in Labels \ FinalizeLabels, label # "idle",
           routine[g].at \notin FinalizeLabels, routine[g].at # "idle",
           Goto(g, label), UNCHANGED finalizerMap
    PROVE  RoutineInv'
<1>1. PICK r \in Routines :
         /\ routine' = [routine EXCEPT ![g] = r]
         /\ r.at = label /\ r.kind = routine[g].kind
  BY GotoFields
<1>2. r.kind # "finalize" /\ r.kind # "none" /\ ~Finalizing(g)
  BY <1>1, KindOf
<1>. QED
  BY <1>1, <1>2, RoutineMoves

LEMMA PlainEnd ==
    ASSUME MonitorInv, Stable, NEW g \in Goroutines,
           routine[g].at \notin FinalizeLabels \ {"finalize"},
           End(g), UNCHANGED finalizerMap
    PROVE  RoutineInv'
<1>1. routine' = [routine EXCEPT ![g] = Idle] /\ ~Finalizing(g)
  BY KindOf DEF End
<1>. QED
  BY <1>1, IdleFields, RoutineMoves

(* Of the goroutine that finalizes *)
LEMMA FinalizeGoto ==
    ASSUME MonitorInv, Stable, NEW g \in Goroutines,
           NEW label \in FinalizeLabels \ {"finalize"},
           routine[g].at \in FinalizeLabels \ {"finalize"},
           label = "finish" => backup' \/ NeverRuns',
           Goto(g, label), UNCHANGED finalizerMap
    PROVE  RoutineInv'
<1>1. label \in Labels
  BY DEF Labels, FinalizeLabels
<1>2. PICK r \in Routines :
         /\ routine' = [routine EXCEPT ![g] = r]
         /\ r.at = label /\ r.kind = routine[g].kind /\ r.doBackup = routine[g].doBackup
  BY <1>1, GotoFields
<1>3. /\ routine[g].kind = "finalize" /\ Finalizing(g)
      /\ pod'.deleted /\ (routine[g].doBackup \/ NeverRuns')
  BY KindOf DEF MonitorInv, FinalizersKnow, Stable
<1>. QED
  BY <1>2, <1>3, RoutineMoves

LEMMA FinalizeGiveUp ==
    ASSUME MonitorInv, Stable, NEW g \in Goroutines,
           routine[g].at \in FinalizeLabels \ {"finalize"},
           GiveUp(g), UNCHANGED finalizerMap
    PROVE  RoutineInv'
<1>. DEFINE r == [routine[g] EXCEPT !.at = "finish", !.failed = TRUE]
<1>1. routine[g] \in Routines /\ routine \in [Goroutines -> Routines]
  BY DEF MonitorInv, TypeOK
<1>2. /\ r \in Routines /\ r.at = "finish" /\ r.kind = routine[g].kind
      /\ r.doBackup = routine[g].doBackup /\ r.failed = TRUE
  BY <1>1 DEF Routines, Labels
<1>3. routine' = [routine EXCEPT ![g] = r]
  BY <1>1 DEF GiveUp
<1>. HIDE DEF r
<1>4. /\ routine[g].kind = "finalize" /\ Finalizing(g)
      /\ pod'.deleted /\ (routine[g].doBackup \/ NeverRuns')
  BY KindOf DEF MonitorInv, FinalizersKnow, Stable
<1>5. "finish" \in FinalizeLabels \ {"finalize"}
  BY DEF FinalizeLabels
<1>. QED
  BY <1>2, <1>3, <1>4, <1>5, RoutineMoves

LEMMA FinalizeEnd ==
    ASSUME MonitorInv, Stable, NEW g \in Goroutines,
           routine[g].at \in FinalizeLabels \ {"finalize"},
           End(g), finalizerMap' = FALSE
    PROVE  RoutineInv'
<1>1. routine' = [routine EXCEPT ![g] = Idle] /\ Finalizing(g)
  BY KindOf DEF End
<1>. QED
  BY <1>1, IdleFields, RoutineMoves

-----------------------------------------------------------------------------
(* Kubernetes and the clients of ws-manager. *)
LEMMA ContainerChangesPreserves ==
    ASSUME MonitorInv, ContainerChanges
    PROVE  MonitorInv'
<1>. USE Parts, PartsAfter
<1>1. PICK c \in {"waiting", "pullFailed", "running", "failed", "succeeded", "stopped"} :
         Update([pod EXCEPT !.container = c, !.node = @ \/ c = "waiting"])
  BY MonitorAssumption DEF ContainerChanges
<1>2. UNCHANGED <<events, starting, maps, routine, daemon, published, limits>>
  BY DEF ContainerChanges
<1>. DEFINE new == [pod EXCEPT !.container = c, !.node = @ \/ c = "waiting"]
<1>3. Tame(pod, new)
  <2>1. pod \in Pods /\ (pod.backupFailure => IsDisposed(pod))
    BY DEF MonitorInv, TypeOK, ProperPods
  <2>2. /\ new \in Pods /\ new.marks = pod.marks
        /\ new.exists = pod.exists /\ new.deleted = pod.deleted
        /\ new.finalizer = pod.finalizer /\ new.disposal = pod.disposal
        /\ new.backupFailure = pod.backupFailure
    BY <2>1 DEF Pods
  <2>. QED
    BY <2>1, <2>2 DEF Tame, Older, ProperPods, IsDisposed
<1>. HIDE DEF new
<1>4. PodInv' /\ Stable /\ dirty' \in BOOLEAN
  BY <1>1, <1>2, <1>3, TameUpdate DEF daemon, published, new
<1>5. RoutineInv'
  BY <1>2, <1>4, RoutinesStay DEF maps
<1>6. RestInv'
  BY <1>2, <1>4 DEF maps, daemon, published, limits, RestInv
<1>. QED
  BY <1>4, <1>5, <1>6

LEMMA PodRemovedPreserves ==
    ASSUME MonitorInv, PodRemoved
    PROVE  MonitorInv'
<1>. USE Parts, PartsAfter
<1>1. UNCHANGED <<events, starting, maps, routine, daemon, published, limits>>
  BY DEF PodRemoved
<1>2. /\ pod' = [pod EXCEPT !.exists = FALSE] /\ ~pod.finalizer /\ dirty' \in BOOLEAN
  BY DEF PodRemoved, Update
<1>3. pod \in Pods /\ (pod.backupFailure => IsDisposed(pod))
  BY DEF MonitorInv, TypeOK, ProperPods
<1>4. /\ pod' \in Pods /\ pod'.marks = pod.marks /\ pod'.deleted = pod.deleted
      /\ pod'.finalizer = pod.finalizer /\ pod'.disposal = pod.disposal
      /\ pod'.backupFailure = pod.backupFailure
  BY <1>2, <1>3 DEF Pods
<1>5. pod' \in ProperPods /\ Older(pod, pod')
  BY <1>3, <1>4 DEF ProperPods, IsDisposed, Older
<1>6. Copies' \subseteq Copies \cup {pod'}
  BY <1>1 DEF Copies
<1>7. PodStep
  BY <1>1, <1>2, <1>4, <1>5, <1>6
     DEF PodStep, daemon, published, Told, IsDisposed, MonitorInv, SettledBeforeRelease
<1>8. PodInv' /\ Stable
  BY <1>1, <1>7, StepIsStable
<1>9. RoutineInv'
  BY <1>1, <1>8, RoutinesStay DEF maps
<1>10. RestInv'
  BY <1>1, <1>2 DEF maps, daemon, published, limits, RestInv
<1>. QED
  BY <1>8, <1>9, <1>10

(* A mark, by StopWorkspace or by markTimedoutWorkspaces *)
LEMMA MarkPreserves ==
    ASSUME MonitorInv, NEW names \in SUBSET (Marks \ {"neverReady", "attemptingToCreate"}),
           Update(Mark(pod, names)),
           UNCHANGED <<events, starting, maps, routine, daemon, published, limits>>
    PROVE  MonitorInv'
<1>. USE Parts, PartsAfter
<1>1. pod \in ProperPods
  BY DEF MonitorInv, TypeOK
<1>2. Tame(pod, Mark(pod, names))
  BY <1>1, MarkIsTame
<1>3. PodInv' /\ Stable /\ dirty' \in BOOLEAN
  BY <1>2, TameUpdate DEF daemon, published
<1>4. RoutineInv'
  BY <1>3, RoutinesStay DEF maps
<1>5. RestInv'
  BY <1>3 DEF maps, daemon, published, limits, RestInv
<1>. QED
  BY <1>3, <1>4, <1>5

LEMMA StopWorkspacePreserves ==
    ASSUME MonitorInv, NEW abort \in BOOLEAN, StopWorkspace(abort)
    PROVE  MonitorInv'
<1>1. {"stoppedByRequest"} \cup (IF abort THEN {"abort"} ELSE {})
         \in SUBSET (Marks \ {"neverReady", "attemptingToCreate"})
  BY DEF Marks
<1>. QED
  BY <1>1, MarkPreserves DEF StopWorkspace

LEMMA TimesOutPreserves ==
    ASSUME MonitorInv, NEW reason \in {"timedOut", "timedOutBackup"}, TimesOut(reason)
    PROVE  MonitorInv'
<1>1. {reason} \in SUBSET (Marks \ {"neverReady", "attemptingToCreate"})
  BY DEF Marks
<1>. QED
  BY <1>1, MarkPreserves DEF TimesOut

(* The ways StartWorkspace ends *)
LEMMA StartEndsPreserves ==
    ASSUME MonitorInv, StartDone \/ StartRetries \/ StartGivesUp
    PROVE  MonitorInv'
<1>. USE Parts, PartsAfter
<1>1. /\ starting /\ starting' = FALSE
      /\ UNCHANGED <<events, maps, routine, daemon, published, limits>>
  BY DEF StartDone, StartRetries, StartGivesUp
<1>2. dirty' \in BOOLEAN
  BY DEF StartDone, StartRetries, StartGivesUp, Update, kube, RestInv
<1>3. /\ pod \in Pods /\ (pod.backupFailure => IsDisposed(pod))
      /\ "attemptingToCreate" \in pod.marks /\ ~wasRunning
  <2>1. pod \in Copies
    BY DEF Copies
  <2>. QED
    BY <1>1, <2>1 DEF MonitorInv, TypeOK, ProperPods, SettledBeforeRelease
<1>4. Copies' \subseteq Copies \cup {pod'}
  BY <1>1 DEF Copies
<1>5. CASE StartDone \/ StartGivesUp
  <2>1. pod' = pod \/ (pod.exists /\ pod' = Unmark(pod, "attemptingToCreate"))
    BY <1>5 DEF StartDone, StartGivesUp, Update, kube
  <2>2. /\ pod' \in Pods /\ pod'.marks \subseteq pod.marks /\ ("abort" \in pod.marks => "abort" \in pod'.marks)
        /\ pod'.exists = pod.exists /\ pod'.deleted = pod.deleted
        /\ pod'.finalizer = pod.finalizer /\ pod'.disposal = pod.disposal
        /\ pod'.backupFailure = pod.backupFailure
    BY <1>3, <2>1 DEF Pods, Unmark
  <2>3. pod' \in ProperPods /\ Older(pod, pod')
    BY <1>3, <2>2 DEF ProperPods, IsDisposed, Older
  <2>4. PodStep
    BY <1>1, <1>4, <2>2, <2>3
       DEF PodStep, daemon, published, Told, IsDisposed, MonitorInv, SettledBeforeRelease
  <2>5. PodInv' /\ Stable
    BY <1>1, <2>4, StepIsStable
  <2>. QED
    BY <1>1, <1>2, <2>5, RoutinesStay DEF maps, daemon, published, limits, RestInv
<1>6. CASE StartRetries
  <2>1. pod' = [pod EXCEPT !.finalizer = FALSE] /\ pod.exists
    BY <1>6 DEF StartRetries, Update
  <2>2. /\ pod' \in Pods /\ pod'.marks = pod.marks
        /\ pod'.exists = pod.exists /\ pod'.deleted = pod.deleted /\ pod'.disposal = pod.disposal
        /\ pod'.backupFailure = pod.backupFailure /\ ~pod'.finalizer
    BY <1>3, <2>1 DEF Pods
  <2>3. pod' \in ProperPods /\ Older(pod, pod')
    BY <1>3, <2>2 DEF ProperPods, IsDisposed, Older
  <2>4. Settled'
    <3>1. \A p \in Copies : "attemptingToCreate" \in p.marks
      BY <1>3 DEF Copies, MonitorInv, CopiesInOrder, Older
    <3>2. \A p \in Copies' : "attemptingToCreate" \in p.marks
      BY <1>3, <1>4, <2>2, <3>1
    <3>3. NeverRuns'
      BY <1>1, <1>3, <2>2, <3>2 DEF NeverRuns, MayRun, published
    <3>. QED
      BY <3>3 DEF Settled
  <2>5. PodStep
    BY <1>1, <1>3, <1>4, <2>2, <2>3, <2>4 DEF PodStep, daemon, published, Told, IsDisposed
  <2>6. PodInv' /\ Stable
    BY <1>1, <2>5, StepIsStable
  <2>. QED
    BY <1>1, <1>2, <2>6, RoutinesStay DEF maps, daemon, published, limits, RestInv
<1>. QED
  BY <1>5, <1>6

LEMMA ReconcilePreserves ==
    ASSUME MonitorInv, Reconcile \/ Resync
    PROVE  MonitorInv'
<1>. USE Parts, PartsAfter
<1>1. /\ UNCHANGED <<pod, starting, maps, routine, daemon, published, limits>>
      /\ dirty' \in BOOLEAN
  BY DEF Reconcile, Resync
<1>2. \/ UNCHANGED events
      \/ events' = Append(events, pod) /\ Len(events) < MaxEvents
  BY DEF Reconcile, Resync
<1>3. TypeOK /\ CopiesInOrder /\ SettledBeforeRelease /\ pod \in ProperPods
  BY DEF MonitorInv, TypeOK
<1>4. pod' \in ProperPods /\ Older(pod, pod')
  BY <1>1, <1>3, OlderFacts
<1>5. Copies' \subseteq Copies \cup {pod'}
  BY <1>2, <1>3, <1>4, QueueFacts
<1>6. PodStep
  BY <1>1, <1>3, <1>4, <1>5 DEF PodStep, daemon, published, Told, SettledBeforeRelease
<1>7. PodInv' /\ Stable
  BY <1>2, <1>6, StepIsStable
<1>8. RoutineInv'
  BY <1>1, <1>7, RoutinesStay DEF maps
<1>9. RestInv'
  BY <1>1 DEF maps, daemon, published, limits, RestInv
<1>. QED
  BY <1>7, <1>8, <1>9

-----------------------------------------------------------------------------
(* The goroutines that initialize and probe.  Their steps have one shape:  *)
(* the goroutine goes on or ends, and the pod is marked or left alone.     *)
PlainMove(g) ==
    /\ routine[g].at \notin FinalizeLabels /\ routine[g].at # "idle"
    /\ \/ End(g)
       \/ \E label \in Labels \ FinalizeLabels : label # "idle" /\ Goto(g, label)
    /\ UNCHANGED <<events, starting, finalizerMap, backup, published, restarts>>

LEMMA PlainMovePreserves ==
    ASSUME MonitorInv, NEW g \in Goroutines, PlainMove(g),
           UNCHANGED kube \/ \E new : Tame(pod, new) /\ Update(new),
           initializerMap' \in BOOLEAN, probeMap' \in BOOLEAN, content' \in BOOLEAN,
           session' \in {"none", "initializing", "ready", "disposing"},
           failures' \in 0..MaxFailures
    PROVE  MonitorInv'
<1>. USE Parts, PartsAfter
<1>1. PodInv' /\ Stable /\ dirty' \in BOOLEAN
  <2>1. CASE UNCHANGED kube
    <3>1. PodInv' /\ Stable
      BY <2>1, NoUpdate DEF PlainMove, kube, published, Told
    <3>. QED
      BY <2>1, <3>1 DEF RestInv, kube
  <2>2. CASE \E new : Tame(pod, new) /\ Update(new)
    <3>1. PICK new : Tame(pod, new) /\ Update(new)
      BY <2>2
    <3>. QED
      BY <3>1, TameUpdate DEF PlainMove, published
  <2>. QED
    BY <2>1, <2>2
<1>2. RoutineInv'
  BY <1>1, PlainGoto, PlainEnd DEF PlainMove
<1>3. RestInv'
  BY <1>1 DEF PlainMove, RestInv, published
<1>. QED
  BY <1>1, <1>2, <1>3

LEMMA FailureCounted ==
    ASSUME RestInv, MayFail
    PROVE  failures' \in 0..MaxFailures /\ UNCHANGED restarts
BY MonitorAssumption DEF RestInv, MayFail

LEMMA InitializerPreserves ==
    ASSUME MonitorInv, NEW g \in Goroutines,
           StartInit(g) \/ InitWorkspace(g) \/ InitDone(g) \/ InitFails(g)
    PROVE  MonitorInv'
<1>. USE Parts, PlainMovePreserves
     DEF PlainMove, RestInv, At, Labels, FinalizeLabels, kube, maps, daemon, limits
<1>1. AfterInit(g) \in {"markReady", "markInitializing"}
  BY DEF AfterInit
<1>2. CASE StartInit(g)
  BY <1>1, <1>2 DEF StartInit
<1>3. CASE InitWorkspace(g)
  BY <1>1, <1>3 DEF InitWorkspace
<1>4. CASE InitDone(g)
  BY <1>1, <1>4 DEF InitDone
<1>5. CASE InitFails(g)
  BY <1>5, FailureCounted DEF InitFails
<1>. QED
  BY <1>2, <1>3, <1>4, <1>5

LEMMA ProbePreserves ==
    ASSUME MonitorInv, NEW g \in Goroutines,
           \/ StartProbe(g) \/ ProbeEnds(g) \/ IsWorkspaceExists(g) \/ WaitForInit(g)
           \/ ClearInitializer(g) \/ ProbeFails(g)
    PROVE  MonitorInv'
<1>. USE Parts, PlainMovePreserves
     DEF PlainMove, RestInv, At, Labels, FinalizeLabels, kube, maps, daemon, limits
<1>1. CASE StartProbe(g)
  BY <1>1 DEF StartProbe
<1>2. CASE ProbeEnds(g)
  BY <1>2 DEF ProbeEnds
<1>3. CASE IsWorkspaceExists(g)
  BY <1>3 DEF IsWorkspaceExists
<1>4. CASE WaitForInit(g)
  BY <1>4 DEF WaitForInit
<1>5. CASE ClearInitializer(g)
  BY <1>5 DEF ClearInitializer
<1>6. CASE ProbeFails(g)
  BY <1>6, FailureCounted DEF ProbeFails
<1>. QED
  BY <1>1, <1>2, <1>3, <1>4, <1>5, <1>6

LEMMA MarksPreserve ==
    ASSUME MonitorInv, NEW g \in Goroutines,
           MarkInitializing(g) \/ MarkAsFailed(g) \/ MarkReady(g)
    PROVE  MonitorInv'
<1>. USE Parts, PlainMovePreserves
     DEF PlainMove, RestInv, At, Labels, FinalizeLabels, maps, daemon, limits
<1>1. pod \in ProperPods
  BY DEF MonitorInv, TypeOK
<1>2. CASE MarkInitializing(g)
  <2>1. Tame(pod, Mark(pod, {"alreadyInitializing"}))
    BY <1>1, MarkIsTame DEF Marks
  <2>. QED
    BY <1>2, <2>1 DEF MarkInitializing
<1>3. CASE MarkAsFailed(g)
  <2>1. Tame(pod, MarkFailed(pod))
    BY <1>1, MarkIsTame DEF MarkFailed, Marks
  <2>. QED
    BY <1>3, <2>1 DEF MarkAsFailed
<1>4. CASE MarkReady(g)
  <2>1. Tame(pod, Unmark(pod, "neverReady"))
    BY <1>1, UnmarkIsTame
  <2>. QED
    BY <1>4, <2>1 DEF MarkReady
<1>. QED
  BY <1>2, <1>3, <1>4

-----------------------------------------------------------------------------
(* finalizeWorkspaceContent.  What is written to the pod's disposal status *)
(* is true. *)
LEMMA DisposalUpdate ==
    ASSUME MonitorInv, NEW status \in Disposals, NEW failed \in BOOLEAN,
           failed => status = "finished",
           status = "finished" => failed \/ backup \/ NeverRuns,
           Update(MarkDisposal(pod, status, failed)),
           UNCHANGED <<events, starting, published, backup>>
    PROVE  PodInv' /\ Stable /\ dirty' \in BOOLEAN
<1>. DEFINE new == MarkDisposal(pod, status, failed)
<1>1. pod \in ProperPods /\ pod \in Pods /\ SettledBeforeRelease
  BY DEF MonitorInv, TypeOK, ProperPods
<1>2. /\ new \in Pods /\ new.marks = pod.marks /\ new.exists = pod.exists
      /\ new.deleted = pod.deleted /\ new.finalizer = pod.finalizer
      /\ new.disposal = status /\ new.backupFailure = failed
  BY <1>1 DEF MarkDisposal, Pods
<1>3. new \in ProperPods /\ Older(pod, new)
  BY <1>2 DEF ProperPods, IsDisposed, Older
<1>. HIDE DEF new
<1>4. pod' = pod \/ pod' = new
  BY DEF Update, new
<1>5. pod' \in ProperPods /\ Older(pod, pod')
  BY <1>1, <1>3, <1>4, OlderFacts
<1>6. Copies' \subseteq Copies \cup {pod'}
  BY DEF Copies
<1>7. PodStep
  BY <1>1, <1>2, <1>4, <1>5, <1>6
     DEF PodStep, SettledBeforeRelease, IsDisposed, published, Told
<1>. QED
  BY <1>7, StepIsStable DEF Update

LEMMA StartFinalizePreserves ==
    ASSUME MonitorInv, NEW g \in Goroutines, StartFinalize(g)
    PROVE  MonitorInv'
<1>. USE Parts, PartsAfter
<1>1. /\ routine[g].at = "finalize" /\ finalizerMap' = TRUE
      /\ UNCHANGED <<kube, events, starting, initializerMap, probeMap, daemon, published, limits>>
  BY DEF StartFinalize, At
<1>2. PodInv' /\ Stable
  BY <1>1, NoUpdate DEF kube, daemon, published, Told
<1>3. RestInv'
  BY <1>1 DEF RestInv, kube, daemon, published, limits
<1>4. RoutineInv'
  <2>1. CASE finalizerMap
    <3>1. End(g) /\ UNCHANGED finalizerMap
      BY <1>1, <2>1 DEF StartFinalize, RestInv
    <3>. QED
      BY <1>1, <1>2, <3>1, PlainEnd
  <2>2. CASE ~finalizerMap
    <3>1. PICK label \in {"finalizeExists", "finish"} :
             /\ Goto(g, label)
             /\ label = "finish" => ~routine[g].doBackup
      BY <2>2 DEF StartFinalize
    <3>2. label \in Labels /\ label \in FinalizeLabels \ {"finalize"}
      BY DEF Labels, FinalizeLabels
    <3>3. PICK r \in Routines :
             /\ routine' = [routine EXCEPT ![g] = r]
             /\ r.at = label /\ r.kind = routine[g].kind /\ r.doBackup = routine[g].doBackup
      BY <3>1, <3>2, GotoFields
    <3>4. routine[g].kind = "finalize"
      BY <1>1, KindOf DEF FinalizeLabels
    <3>5. pod'.deleted /\ (routine[g].doBackup \/ NeverRuns')
      BY <1>2, <3>4 DEF MonitorInv, FinalizersKnow, Stable
    <3>. QED
      BY <1>1, <1>2, <2>2, <3>1, <3>2, <3>3, <3>4, <3>5, RoutineMoves
  <2>. QED
    BY <2>1, <2>2
<1>. QED
  BY <1>2, <1>3, <1>4

(* The ways it returns *)
LEMMA ReturnPreserves ==
    ASSUME MonitorInv, NEW g \in Goroutines, NotFound(g) \/ Finish(g)
    PROVE  MonitorInv'
<1>. USE Parts, PartsAfter
<1>1. /\ finalizerMap' = FALSE /\ End(g)
      /\ UNCHANGED <<events, starting, initializerMap, probeMap, daemon, published, limits>>
  BY DEF NotFound, Finish, Return
<1>2. routine[g].at \in FinalizeLabels \ {"finalize"}
  BY DEF NotFound, Finish, At, FinalizeLabels
<1>3. routine[g].failed \in BOOLEAN /\ routine[g].kind = "finalize"
  BY <1>2, KindOf DEF Routines
<1>4. PodInv' /\ Stable /\ dirty' \in BOOLEAN
  <2>1. CASE NotFound(g) /\ routine[g].retrying
    <3>1. Update(MarkDisposal(pod, "retrying", FALSE))
      BY <2>1 DEF NotFound, Return
    <3>. QED
      BY <1>1, <3>1, DisposalUpdate DEF Disposals, daemon, published
  <2>2. CASE NotFound(g) /\ ~routine[g].retrying
    <3>1. Update(pod) /\ Tame(pod, pod)
      BY <2>2, TameSteps DEF NotFound, Return, MonitorInv, TypeOK
    <3>. QED
      BY <1>1, <3>1, TameUpdate DEF daemon, published
  <2>3. CASE Finish(g)
    <3>1. Update(MarkDisposal(pod, "finished", routine[g].failed))
      BY <2>3 DEF Finish, Return
    <3>2. routine[g].failed \/ backup \/ NeverRuns
      BY <1>3, <2>3 DEF Finish, MonitorInv, FinalizersKnow
    <3>. QED
      BY <1>1, <1>3, <3>1, <3>2, DisposalUpdate DEF Disposals, daemon, published
  <2>. QED
    BY <2>1, <2>2, <2>3
<1>5. RoutineInv'
  BY <1>1, <1>2, <1>4, FinalizeEnd
<1>6. RestInv'
  BY <1>1, <1>4 DEF RestInv, daemon, published, limits
<1>. QED
  BY <1>4, <1>5, <1>6

(* Steps in which only ws-daemon and the goroutine move *)
LEMMA FinalizeWaitPreserves ==
    ASSUME MonitorInv, NEW g \in Goroutines, FinalizeWait(g)
    PROVE  MonitorInv'
<1>. USE Parts, PartsAfter
<1>1. /\ routine[g].at \in {"finalizeExists", "finalizeWait"}
      /\ UNCHANGED <<kube, events, starting, maps, daemon, published, limits>>
      /\ GiveUp(g) \/ \E label \in {"finalizeWait", "markStarted"} : Goto(g, label)
  BY DEF FinalizeWait, At
<1>2. PodInv' /\ Stable
  BY <1>1, NoUpdate DEF kube, daemon, published, Told
<1>3. RoutineInv'
  BY <1>1, <1>2, FinalizeGoto, FinalizeGiveUp DEF FinalizeLabels, maps
<1>4. RestInv'
  BY <1>1 DEF RestInv, kube, maps, daemon, published, limits
<1>. QED
  BY <1>2, <1>3, <1>4

LEMMA DisposePreserves ==
    ASSUME MonitorInv, NEW g \in Goroutines, Dispose(g) \/ DisposeDone(g)
    PROVE  MonitorInv'
<1>. USE Parts, PartsAfter
<1>1. /\ routine[g].at \in FinalizeLabels \ {"finalize"}
      /\ UNCHANGED <<kube, events, starting, maps, content, published, limits>>
  BY DEF Dispose, DisposeDone, At, FinalizeLabels
<1>2. routine[g].kind = "finalize" /\ routine[g].doBackup \in BOOLEAN
  BY <1>1, KindOf DEF Routines
<1>3. backup' \in BOOLEAN /\ (backup => backup')
  BY <1>2 DEF Dispose, DisposeDone, RestInv
<1>4. PodInv' /\ Stable
  BY <1>1, <1>3, NoUpdate DEF kube, published, Told
<1>5. RoutineInv'
  <2>1. CASE Dispose(g)
    <3>1. Goto(g, "disposing") \/ GiveUp(g)
      BY <2>1 DEF Dispose
    <3>. QED
      BY <1>1, <1>4, <3>1, FinalizeGoto, FinalizeGiveUp DEF FinalizeLabels, maps
  <2>2. CASE DisposeDone(g)
    <3>1. routine[g].doBackup \/ NeverRuns'
      BY <1>2, <1>4 DEF MonitorInv, FinalizersKnow, Stable
    <3>2. backup' \/ NeverRuns'
      BY <2>2, <3>1 DEF DisposeDone
    <3>. QED
      BY <1>1, <1>4, <2>2, <3>2, FinalizeGoto DEF DisposeDone, FinalizeLabels, maps
  <2>. QED
    BY <2>1, <2>2
<1>6. RestInv'
  BY <1>1, <1>3 DEF RestInv, kube, maps, published, limits, Dispose, DisposeDone
<1>. QED
  BY <1>4, <1>5, <1>6

LEMMA FinalizeFailsPreserves ==
    ASSUME MonitorInv, NEW g \in Goroutines, FinalizeFails(g)
    PROVE  MonitorInv'
<1>. USE Parts, PartsAfter
<1>1. /\ routine[g].at \in FinalizeLabels \ {"finalize"}
      /\ UNCHANGED <<kube, events, starting, maps, content, published>>
      /\ GiveUp(g) \/ Goto(g, "retry")
      /\ failures' \in 0..MaxFailures /\ UNCHANGED restarts
  BY FailureCounted DEF FinalizeFails, At, FinalizeLabels, daemon
<1>2. routine[g].kind = "finalize" /\ routine[g].doBackup \in BOOLEAN
  BY <1>1, KindOf DEF Routines
<1>3. backup' \in BOOLEAN /\ (backup => backup') /\ (UNCHANGED session \/ session' = "none")
  BY <1>2 DEF FinalizeFails, RestInv, daemon
<1>4. PodInv' /\ Stable
  BY <1>1, <1>3, NoUpdate DEF kube, published, Told
<1>5. RoutineInv'
  BY <1>1, <1>4, FinalizeGoto, FinalizeGiveUp DEF FinalizeLabels, maps
<1>6. RestInv'
  BY <1>1, <1>3 DEF RestInv, kube, maps, published
<1>. QED
  BY <1>4, <1>5, <1>6

(* Steps that mark the pod on the way *)
LEMMA MarkStartedPreserves ==
    ASSUME MonitorInv, NEW g \in Goroutines, MarkStarted(g)
    PROVE  MonitorInv'
<1>. USE Parts, PartsAfter
<1>1. /\ routine[g].at = "markStarted"
      /\ UNCHANGED <<events, starting, maps, daemon, published, limits>>
      /\ Update(pod) \/ Update(MarkDisposal(pod, "started", FALSE))
  BY DEF MarkStarted, At
<1>2. routine[g].kind = "finalize" /\ Finalizing(g)
  BY <1>1, KindOf DEF FinalizeLabels
<1>3. PodInv' /\ Stable /\ dirty' \in BOOLEAN
  <2>1. Tame(pod, pod)
    BY TameSteps DEF MonitorInv, TypeOK
  <2>. QED
    BY <1>1, <2>1, TameUpdate, DisposalUpdate DEF Disposals, daemon, published
<1>. DEFINE r == [routine[g] EXCEPT !.at = "dispose", !.started = TRUE]
<1>4. routine[g] \in Routines /\ routine \in [Goroutines -> Routines]
  BY DEF MonitorInv, TypeOK
<1>5. /\ r \in Routines /\ r.at = "dispose" /\ r.kind = routine[g].kind
      /\ r.doBackup = routine[g].doBackup
  BY <1>4 DEF Routines, Labels
<1>6. routine' = [routine EXCEPT ![g] = r]
  BY <1>4 DEF MarkStarted
<1>. HIDE DEF r
<1>7. pod'.deleted /\ (routine[g].doBackup \/ NeverRuns')
  BY <1>2, <1>3 DEF MonitorInv, FinalizersKnow, Stable
<1>8. RoutineInv'
  BY <1>1, <1>2, <1>3, <1>5, <1>6, <1>7, RoutineMoves DEF FinalizeLabels, maps
<1>9. RestInv'
  BY <1>1, <1>3 DEF RestInv, maps, daemon, published, limits
<1>. QED
  BY <1>3, <1>8, <1>9

LEMMA TryAgainMoves ==
    ASSUME MonitorInv, Stable, NEW g \in Goroutines, routine[g].at = "retry", TryAgain(g),
           UNCHANGED finalizerMap
    PROVE  RoutineInv'
<1>1. routine[g].kind = "finalize" /\ Finalizing(g)
  BY KindOf DEF FinalizeLabels
<1>2. PICK failed \in BOOLEAN :
         routine' = [routine EXCEPT ![g].at = IF failed THEN "finish" ELSE "finalizeExists",
                                    ![g].failed = failed, ![g].retrying = TRUE]
  BY DEF TryAgain
<1>. DEFINE label == IF failed THEN "finish" ELSE "finalizeExists"
            r == [routine[g] EXCEPT !.at = label, !.failed = failed, !.retrying = TRUE]
<1>3. routine[g] \in Routines /\ routine \in [Goroutines -> Routines]
  BY DEF MonitorInv, TypeOK
<1>4. /\ r \in Routines /\ r.at = label /\ r.kind = routine[g].kind
      /\ r.doBackup = routine[g].doBackup /\ r.failed = failed
  BY <1>3 DEF Routines, Labels
<1>5. routine' = [routine EXCEPT ![g] = r]
  BY <1>2, <1>3
<1>. HIDE DEF r
<1>6. pod'.deleted /\ (routine[g].doBackup \/ NeverRuns')
  BY <1>1 DEF MonitorInv, FinalizersKnow, Stable
<1>7. label \in FinalizeLabels /\ label # "finalize" /\ (label = "finish" => failed)
  BY DEF FinalizeLabels
<1>. HIDE DEF label
<1>. QED
  BY <1>1, <1>4, <1>5, <1>6, <1>7, RoutineMoves

LEMMA RetryPreserves ==
    ASSUME MonitorInv, NEW g \in Goroutines, Retry(g)
    PROVE  MonitorInv'
<1>. USE Parts, PartsAfter
<1>1. /\ routine[g].at = "retry"
      /\ UNCHANGED <<events, starting, maps, daemon, published, limits>>
      /\ Update(pod) \/ Update(MarkDisposal(pod, "retrying", FALSE))
  BY DEF Retry, At
<1>3. PodInv' /\ Stable /\ dirty' \in BOOLEAN
  <2>1. Tame(pod, pod)
    BY TameSteps DEF MonitorInv, TypeOK
  <2>. QED
    BY <1>1, <2>1, TameUpdate, DisposalUpdate DEF Disposals, daemon, published
<1>4. TryAgain(g)
  BY DEF Retry
<1>5. RoutineInv'
  BY <1>1, <1>3, <1>4, TryAgainMoves DEF maps
<1>6. RestInv'
  BY <1>1, <1>3 DEF RestInv, maps, daemon, published, limits
<1>. QED
  BY <1>3, <1>5, <1>6

(* A mark cannot be written. *)
LEMMA MarkFailsPreserves ==
    ASSUME MonitorInv, NEW g \in Goroutines, MarkFails(g)
    PROVE  MonitorInv'
<1>. USE Parts, PartsAfter
<1>1. /\ UNCHANGED <<kube, events, starting, probeMap, daemon, published>>
      /\ initializerMap' \in BOOLEAN
      /\ finalizerMap' = (finalizerMap /\ ~At(g, "finish"))
      /\ MayFail
  BY DEF MarkFails
<1>2. PodInv' /\ Stable
  BY <1>1, NoUpdate DEF kube, daemon, published, Told
<1>3. RoutineInv'
  <2>1. CASE At(g, "finish")
    BY <1>1, <1>2, <2>1, FinalizeEnd DEF MarkFails, At, FinalizeLabels
  <2>2. CASE At(g, "markStarted")
    <3>1. UNCHANGED finalizerMap
      BY <1>1, <2>2 DEF At, RestInv
    <3>. QED
      BY <1>2, <2>2, <3>1, FinalizeGoto DEF MarkFails, At, FinalizeLabels
  <2>3. CASE At(g, "markInitializing") \/ At(g, "markFailed") \/ At(g, "markReady")
    <3>1. UNCHANGED finalizerMap
      BY <1>1, <2>3 DEF At, RestInv
    <3>2. End(g) \/ Goto(g, "markInitializing") \/ Goto(g, "markFailed")
      BY <2>3 DEF MarkFails, At
    <3>. QED
      BY <1>2, <2>3, <3>1, <3>2, PlainEnd, PlainGoto DEF At, Labels, FinalizeLabels
  <2>4. CASE At(g, "retry")
    <3>1. UNCHANGED finalizerMap
      BY <1>1, <2>4 DEF At, RestInv
    <3>. QED
      BY <1>2, <2>4, <3>1, TryAgainMoves DEF MarkFails, At
  <2>. QED
    BY <2>1, <2>2, <2>3, <2>4 DEF MarkFails
<1>4. failures' \in 0..MaxFailures /\ UNCHANGED restarts /\ finalizerMap' \in BOOLEAN
  BY <1>1, FailureCounted
<1>5. RestInv'
  BY <1>1, <1>4 DEF RestInv, kube, daemon, published
<1>. QED
  BY <1>2, <1>3, <1>5

-----------------------------------------------------------------------------
(* The event handler, on the copy at the head of the queue.  Every other   *)
(* copy, and the pod, is at least as new. *)
LEMMA HeadIsOldest ==
    ASSUME MonitorInv, events # <<>>
    PROVE  /\ Head(events) \in Copies /\ Head(events) \in Pods
           /\ \A q \in Copies : Older(Head(events), q)
<1>1. TypeOK /\ CopiesInOrder
  BY DEF MonitorInv
<1>2. /\ Head(events) = events[1] /\ 1 \in 1..Len(events)
      /\ \A i \in 1..Len(events) : i \in 1..Len(events)
  BY <1>1 DEF TypeOK
<1>3. \A q \in Copies : Older(events[1], q)
  BY <1>1, <1>2 DEF Copies, CopiesInOrder
<1>. QED
  BY <1>1, <1>2, <1>3, CopiesFacts

(* A pod that was deleted before it was ready has never been reported to   *)
(* run and never will be. *)
LEMMA UnreadyNeverRuns ==
    ASSUME MonitorInv, events # <<>>, Head(events).deleted,
           "neverReady" \in Head(events).marks
    PROVE  NeverRuns
<1>1. /\ Head(events) \in Copies /\ pod \in Copies
      /\ \A q \in Copies : Older(Head(events), q)
  BY HeadIsOldest DEF Copies
<1>2. ~wasRunning
  BY <1>1 DEF MonitorInv, SettledBeforeRelease
<1>3. \A q \in Copies : q.deleted
  BY <1>1 DEF Older
<1>. QED
  BY <1>1, <1>2, <1>3 DEF NeverRuns, MayRun

(* The handler takes the finalizer from a stopped pod: its status is on    *)
(* its way to the clients, with the failure of the backup if there was     *)
(* one. *)
LEMMA StoppedIsSettled ==
    ASSUME MonitorInv, events # <<>>, PublishStatus(Head(events)),
           Phase(Head(events)) = "STOPPED"
    PROVE  Settled \/ reporting'
<1>. DEFINE p == Head(events)
<1>1. p \in Copies /\ p \in Pods
  BY HeadIsOldest
<1>2. p.deleted /\ (IsDisposed(p) \/ ~p.finalizer)
  BY <1>1, PhaseFacts
<1>3. p.backupFailure => reporting'
  BY <1>2 DEF PublishStatus
<1>. QED
  BY <1>1, <1>2, <1>3 DEF MonitorInv, SettledBeforeRelease, Settled

LEMMA HandlerUpdate ==
    ASSUME MonitorInv, events # <<>>, events' = Tail(events), PublishStatus(Head(events)),
           UNCHANGED <<starting, backup>>, NEW new, Update(new),
           \/ Tame(pod, new)
           \/ \E q \in ProperPods : /\ Tame(pod, q) /\ new = WithFinalizer(q, FALSE)
                                    /\ Settled \/ reporting'
    PROVE  /\ PodInv' /\ Stable
           /\ dirty' \in BOOLEAN /\ wasRunning' \in BOOLEAN /\ reporting' \in BOOLEAN
           /\ UNCHANGED <<reported, lost>>
<1>. DEFINE p == Head(events)
<1>1. TypeOK /\ CopiesInOrder /\ SettledBeforeRelease /\ pod \in ProperPods
  BY DEF MonitorInv, TypeOK
<1>2. /\ new \in ProperPods /\ Older(pod, new) /\ new.exists = pod.exists
      /\ "attemptingToCreate" \in pod.marks => "attemptingToCreate" \in new.marks
      /\ IsDisposed(new) /\ ~new.backupFailure => IsDisposed(pod) /\ ~pod.backupFailure
      /\ ~new.finalizer => ~pod.finalizer \/ Settled \/ reporting'
  <2>1. CASE Tame(pod, new)
    BY <2>1 DEF Tame
  <2>2. ASSUME NEW q \in ProperPods, Tame(pod, q), new = WithFinalizer(q, FALSE),
               Settled \/ reporting'
        PROVE  <1>2!:
    <3>1. q \in Pods /\ (q.backupFailure => IsDisposed(q))
      BY DEF ProperPods
    <3>2. /\ new \in Pods /\ new.marks = q.marks /\ new.exists = q.exists
          /\ new.deleted = q.deleted /\ new.disposal = q.disposal
          /\ new.backupFailure = q.backupFailure
      BY <2>2, <3>1 DEF WithFinalizer, Pods
    <3>. QED
      BY <2>2, <3>1, <3>2 DEF Tame, Older, ProperPods, IsDisposed
  <2>. QED
    BY <2>1, <2>2
<1>3. (pod' = pod \/ pod' = new) /\ (~pod.exists => pod' = pod) /\ dirty' \in BOOLEAN
  BY DEF Update
<1>4. pod' \in ProperPods /\ Older(pod, pod')
  BY <1>1, <1>2, <1>3, OlderFacts
<1>5. Copies' \subseteq Copies \cup {pod'}
  BY <1>1, <1>4, QueueFacts
<1>6. wasRunning' => \/ wasRunning
                     \/ \E c \in Copies : MayRun(c) /\ \A q \in Copies' : Older(c, q)
  <2>1. /\ p \in Copies /\ p \in Pods /\ pod \in Copies
        /\ \A q \in Copies : Older(p, q)
    BY HeadIsOldest DEF Copies
  <2>2. Copies \subseteq ProperPods
    BY <1>1, CopiesFacts
  <2>3. \A q \in Copies' : Older(p, q)
    BY <1>4, <1>5, <2>1, <2>2, OlderFacts
  <2>4. wasRunning' => wasRunning \/ MayRun(p)
    BY <2>1, PhaseFacts DEF PublishStatus
  <2>. QED
    BY <2>1, <2>3, <2>4
<1>7. /\ Told => Told'
      /\ wasRunning' \in BOOLEAN /\ reporting' \in BOOLEAN /\ UNCHANGED <<reported, lost>>
  BY Parts DEF PublishStatus, RestInv, Told
<1>8. ~pod'.finalizer => ~pod.finalizer \/ Settled \/ Settled'
  BY <1>2, <1>3 DEF Settled, Told
<1>9. PodStep
  BY <1>1, <1>2, <1>3, <1>4, <1>5, <1>6, <1>7, <1>8 DEF PodStep, SettledBeforeRelease
<1>. QED
  BY <1>3, <1>7, <1>9, StepIsStable

(* It may start a goroutine, for a finalization only when the pod is       *)
(* deleted. *)
LEMMA SpawnPreserves ==
    ASSUME MonitorInv, Stable, NEW kind \in {"initialize", "probe", "finalize"}, NEW p \in Pods,
           Spawn(kind, p), UNCHANGED finalizerMap,
           kind = "finalize" => pod'.deleted /\ ("neverReady" \in p.marks => NeverRuns')
    PROVE  RoutineInv'
<1>1. PICK g \in Goroutines :
         /\ routine[g] = Idle
         /\ routine' = [routine EXCEPT ![g] =
               [Idle EXCEPT !.kind = kind, !.at = kind, !.node = p.node,
                            !.doBackup = "neverReady" \notin p.marks]]
  BY DEF Spawn
<1>. DEFINE r == [Idle EXCEPT !.kind = kind, !.at = kind, !.node = p.node,
                              !.doBackup = "neverReady" \notin p.marks]
<1>2. /\ r \in Routines /\ r.kind = kind /\ r.at = kind
      /\ r.doBackup = ("neverReady" \notin p.marks)
  BY DEF Idle, Routines, Labels, Pods
<1>3. routine' = [routine EXCEPT ![g] = r]
  BY <1>1
<1>. HIDE DEF r
<1>4. ~Finalizing(g)
  BY <1>1, KindOf, IdleFields
<1>. QED
  BY <1>2, <1>3, <1>4, RoutineMoves DEF FinalizeLabels

LEMMA TimeoutIsTame ==
    ASSUME MonitorInv, NEW p
    PROVE  Tame(pod, AfterBackupTimeout(p)) /\ Tame(pod, pod) /\ pod \in ProperPods
<1>1. pod \in ProperPods
  BY DEF MonitorInv, TypeOK
<1>. QED
  BY <1>1, TameSteps, DisposalIsTame DEF AfterBackupTimeout, Disposals

(* The handler of a pod that is stopping or has stopped, whether or not    *)
(* the mark of a backup that timed out could be written. *)
LEMMA ActOnDeletionPreserves ==
    ASSUME MonitorInv, events # <<>>, events' = Tail(events), PublishStatus(Head(events)),
           UNCHANGED <<starting, probeMap, finalizerMap, daemon, restarts>>,
           failures' \in 0..MaxFailures, NEW now, Tame(pod, now),
           ActOnStopping(Head(events), now) \/ ActOnStopped(Head(events), now)
    PROVE  MonitorInv'
<1>. USE Parts, PartsAfter
<1>. DEFINE p == Head(events)
<1>1. /\ p \in Pods /\ p \in Copies /\ (p.deleted => pod.deleted)
      /\ "abort" \in p.marks => "abort" \in pod.marks
      /\ Phase(p) = "STOPPED" => p.deleted
  BY HeadIsOldest, PhaseFacts DEF Older, Copies
<1>2. initializerMap' = FALSE /\ now \in ProperPods
  BY DEF ActOnStopping, ActOnStopped, Tame
<1>0. CASE ~p.deleted
  <2>1. Update(Stop(now)) /\ UNCHANGED routine
    BY <1>0, <1>1 DEF ActOnStopping, ActOnStopped
  <2>2. Tame(pod, Stop(now))
    <3>1. Tame(now, Stop(now)) /\ Stop(now) \in ProperPods
      BY <1>2, StopIsTame DEF Tame
    <3>. QED
      BY <1>2, <3>1, TameSteps, TimeoutIsTame
  <2>3. /\ PodInv' /\ Stable
        /\ dirty' \in BOOLEAN /\ wasRunning' \in BOOLEAN /\ reporting' \in BOOLEAN
        /\ UNCHANGED <<reported, lost>>
    BY <2>1, <2>2, HandlerUpdate DEF daemon
  <2>4. RoutineInv'
    BY <2>1, <2>3, RoutinesStay
  <2>5. RestInv'
    BY <1>2, <2>3 DEF RestInv, daemon
  <2>. QED
    BY <2>3, <2>4, <2>5
<1>3. CASE p.deleted /\ Update(now) /\ (UNCHANGED routine \/ Spawn("finalize", p))
  <2>1. /\ PodInv' /\ Stable
        /\ dirty' \in BOOLEAN /\ wasRunning' \in BOOLEAN /\ reporting' \in BOOLEAN
        /\ UNCHANGED <<reported, lost>>
    BY <1>3, HandlerUpdate DEF daemon
  <2>2. "neverReady" \in p.marks => NeverRuns'
    BY <1>1, <1>3, <2>1, UnreadyNeverRuns DEF Stable
  <2>3. RoutineInv'
    BY <1>1, <1>3, <2>1, <2>2, RoutinesStay, SpawnPreserves DEF Stable
  <2>4. RestInv'
    BY <1>2, <2>1 DEF RestInv, daemon
  <2>. QED
    BY <2>1, <2>3, <2>4
<1>4. CASE p.deleted /\ ~(Update(now) /\ (UNCHANGED routine \/ Spawn("finalize", p)))
  <2>1. /\ UNCHANGED routine
        /\ \/ /\ "neverReady" \in p.marks
              /\ Update(WithFinalizer(MarkFailed(now), FALSE))
           \/ "abort" \in p.marks /\ Update(WithFinalizer(now, FALSE))
           \/ Phase(p) = "STOPPED" /\ Update(WithFinalizer(now, FALSE))
    BY <1>4 DEF ActOnStopping, ActOnStopped
  <2>2. Settled \/ reporting'
    BY <1>1, <1>4, <2>1, UnreadyNeverRuns, StoppedIsSettled DEF Settled
  <2>3. Tame(pod, MarkFailed(now)) /\ MarkFailed(now) \in ProperPods
    <3>1. Tame(now, MarkFailed(now))
      BY <1>2, MarkIsTame DEF MarkFailed, Marks
    <3>. QED
      BY <1>2, <3>1, TameSteps, TimeoutIsTame DEF Tame
  <2>4. \E q \in ProperPods : Tame(pod, q) /\ Update(WithFinalizer(q, FALSE))
    BY <1>2, <2>1, <2>3
  <2>5. /\ PodInv' /\ Stable
        /\ dirty' \in BOOLEAN /\ wasRunning' \in BOOLEAN /\ reporting' \in BOOLEAN
        /\ UNCHANGED <<reported, lost>>
    BY <2>2, <2>4, HandlerUpdate DEF daemon
  <2>6. RoutineInv'
    BY <2>1, <2>5, RoutinesStay
  <2>7. RestInv'
    BY <1>2, <2>5 DEF RestInv, daemon
  <2>. QED
    BY <2>5, <2>6, <2>7
<1>. QED
  BY <1>0, <1>3, <1>4

(* The handler of any other pod: it edits the pod tamely and may start a   *)
(* goroutine that initializes or probes. *)
LEMMA ActOnOthersPreserves ==
    ASSUME MonitorInv, events # <<>>, events' = Tail(events), PublishStatus(Head(events)),
           UNCHANGED <<starting, probeMap, finalizerMap, daemon, restarts>>,
           failures' \in 0..MaxFailures, initializerMap' \in BOOLEAN,
           NEW new, Tame(pod, new), Update(new),
           \/ UNCHANGED routine
           \/ \E kind \in {"initialize", "probe"} : Spawn(kind, Head(events))
    PROVE  MonitorInv'
<1>. USE Parts, PartsAfter
<1>1. /\ PodInv' /\ Stable
      /\ dirty' \in BOOLEAN /\ wasRunning' \in BOOLEAN /\ reporting' \in BOOLEAN
      /\ UNCHANGED <<reported, lost>>
  BY HandlerUpdate DEF daemon
<1>2. Head(events) \in Pods
  BY HeadIsOldest
<1>3. RoutineInv'
  BY <1>1, <1>2, RoutinesStay, SpawnPreserves
<1>4. RestInv'
  BY <1>1 DEF RestInv, daemon
<1>. QED
  BY <1>1, <1>3, <1>4

LEMMA FailureEdits ==
    ASSUME NEW q \in ProperPods, NEW names \in SUBSET {"failedBeforeStopping"}
    PROVE  Tame(q, q) /\ Tame(q, Stop(q)) /\ Tame(q, Mark(q, names))
           /\ Tame(q, Stop(Mark(q, names)))
<1>1. Tame(q, q) /\ Tame(q, Stop(q)) /\ Tame(q, Mark(q, names))
  BY TameSteps, StopIsTame, MarkIsTame DEF Marks
<1>2. Mark(q, names) \in ProperPods
  BY <1>1 DEF Tame
<1>3. Tame(Mark(q, names), Stop(Mark(q, names))) /\ Stop(Mark(q, names)) \in ProperPods
  BY <1>2, StopIsTame DEF Tame
<1>. QED
  BY <1>1, <1>2, <1>3, TameSteps

LEMMA HandleEventPreserves ==
    ASSUME MonitorInv, HandleEvent
    PROVE  MonitorInv'
<1>. DEFINE p == Head(events)
<1>1. /\ events # <<>> /\ events' = Tail(events) /\ PublishStatus(p)
      /\ UNCHANGED <<starting, probeMap, finalizerMap, daemon, restarts, failures>>
      /\ \/ ActOnStopping(p, AfterBackupTimeout(p)) \/ ActOnStopped(p, AfterBackupTimeout(p))
         \/ ActOnFailure(p) \/ ActOnLife(p)
  BY DEF HandleEvent, limits
<1>2. failures' \in 0..MaxFailures /\ initializerMap \in BOOLEAN /\ pod \in ProperPods
  BY <1>1, Parts DEF RestInv, PodInv
<1>3. CASE ActOnStopping(p, AfterBackupTimeout(p)) \/ ActOnStopped(p, AfterBackupTimeout(p))
  BY <1>1, <1>2, <1>3, TimeoutIsTame, ActOnDeletionPreserves
<1>4. CASE ActOnFailure(p)
  <2>1. PICK names \in SUBSET {"failedBeforeStopping"} :
           Update(Stop(Mark(pod, names))) /\ UNCHANGED <<initializerMap, routine>>
    BY <1>4 DEF ActOnFailure
  <2>. QED
    BY <1>1, <1>2, <2>1, FailureEdits, ActOnOthersPreserves
<1>5. CASE ActOnLife(p)
  <2>1. PICK now \in {pod, Stop(pod)} :
           /\ Update(now) \/ Update(WithFinalizer(now, TRUE))
           /\ UNCHANGED routine \/ \E kind \in {"initialize", "probe"} : Spawn(kind, p)
           /\ UNCHANGED initializerMap
    BY <1>5 DEF ActOnLife
  <2>2. Tame(pod, now) /\ now \in ProperPods
    BY <1>2, <2>1, TameSteps, StopIsTame DEF Tame
  <2>3. Tame(pod, WithFinalizer(now, TRUE))
    <3>1. Tame(now, WithFinalizer(now, TRUE)) /\ WithFinalizer(now, TRUE) \in ProperPods
      BY <2>2, FinalizerIsTame DEF Tame
    <3>. QED
      BY <1>2, <2>2, <3>1, TameSteps
  <2>. QED
    BY <1>1, <1>2, <2>1, <2>2, <2>3, ActOnOthersPreserves
<1>. QED
  BY <1>1, <1>3, <1>4, <1>5

(* A failing call leaves the handler's work half done. *)
LEMMA HandlerFailsPreserves ==
    ASSUME MonitorInv, HandlerFails
    PROVE  MonitorInv'
<1>. DEFINE p == Head(events)
<1>1. /\ events # <<>> /\ events' = Tail(events) /\ MayFail
      /\ UNCHANGED <<starting, probeMap, finalizerMap, daemon>>
  BY DEF HandlerFails
<1>2. /\ failures' \in 0..MaxFailures /\ UNCHANGED restarts
      /\ initializerMap \in BOOLEAN /\ pod \in ProperPods
  BY <1>1, Parts, FailureCounted DEF RestInv, PodInv
<1>3. CASE UNCHANGED <<kube, initializerMap, routine, published>>
  <2>1. Update(pod) /\ Tame(pod, pod)
    <3>1. dirty' = dirty /\ pod' = pod /\ dirty \in BOOLEAN
      BY <1>3, Parts DEF kube, RestInv
    <3>. QED
      BY <1>2, <3>1, TameSteps DEF Update
  <2>2. PodInv' /\ Stable /\ dirty' \in BOOLEAN
    BY <1>1, <1>3, <2>1, TameUpdate DEF published, daemon
  <2>3. RoutineInv'
    BY <1>1, <1>3, <2>2, RoutinesStay
  <2>4. RestInv'
    BY <1>1, <1>2, <1>3, <2>2, Parts DEF RestInv, published, daemon
  <2>. QED
    BY <2>2, <2>3, <2>4, PartsAfter
<1>4. CASE /\ PublishStatus(p)
           /\ \E now \in Partial(p) : Update(now)
           /\ initializerMap' = (initializerMap /\ Phase(p) \notin {"STOPPING", "STOPPED"})
           /\ UNCHANGED routine
  <2>1. PICK now \in Partial(p) : Update(now)
    BY <1>4
  <2>2. Tame(pod, now)
    <3>1. now \in {pod, AfterBackupTimeout(p), Mark(pod, {"failedBeforeStopping"}), Stop(pod)}
      BY <2>1 DEF Partial
    <3>. QED
      BY <1>2, <3>1, TimeoutIsTame, FailureEdits
  <2>3. initializerMap' \in BOOLEAN
    BY <1>4
  <2>. QED
    BY <1>1, <1>2, <1>4, <2>1, <2>2, <2>3, ActOnOthersPreserves
<1>5. CASE PublishStatus(p) /\ (ActOnStopping(p, pod) \/ ActOnStopped(p, pod))
  BY <1>1, <1>2, <1>5, TimeoutIsTame, ActOnDeletionPreserves
<1>. QED
  BY <1>3, <1>4, <1>5 DEF HandlerFails

-----------------------------------------------------------------------------
(* Restarts forget the queue, the maps and the goroutines, and keep the    *)
(* pod. *)
LEMMA RestartPreserves ==
    ASSUME MonitorInv, Restart
    PROVE  MonitorInv'
<1>1. /\ events' = <<>> /\ starting' = FALSE /\ dirty' = TRUE
      /\ initializerMap' = FALSE /\ probeMap' = FALSE /\ finalizerMap' = FALSE
      /\ routine' = [g \in Goroutines |-> Idle]
      /\ UNCHANGED <<pod, wasRunning, reported, failures>>
      /\ reporting' = FALSE /\ lost' = (lost \/ (reporting /\ ~pod.finalizer))
      /\ restarts < MaxRestarts /\ restarts' = restarts + 1
  BY DEF Restart
<1>2. /\ backup' \in BOOLEAN /\ content' \in BOOLEAN /\ (backup => backup')
      /\ session' \in {"none", "initializing", "ready", "disposing"}
  <2>1. \A g \in Goroutines : routine[g].doBackup \in BOOLEAN
    BY KindOf DEF Routines
  <2>2. /\ backup \in BOOLEAN /\ content \in BOOLEAN
        /\ session \in {"none", "initializing", "ready", "disposing"}
    BY Parts DEF RestInv
  <2>. QED
    BY <2>1, <2>2 DEF Restart
<1>3. TypeOK /\ CopiesInOrder /\ SettledBeforeRelease /\ pod \in ProperPods
  BY DEF MonitorInv, TypeOK
<1>4. pod' \in ProperPods /\ Older(pod, pod')
  BY <1>1, <1>3, OlderFacts
<1>5. Copies' \subseteq Copies \cup {pod'}
  BY <1>1, <1>3, <1>4, QueueFacts
<1>6. PodStep
  <2>1. Copies' = {pod}
    BY <1>1 DEF Copies
  <2>2. Told => Told' \/ \A p \in Copies' : p.finalizer
    BY <1>1, <2>1 DEF Told
  <2>. QED
    BY <1>1, <1>2, <1>3, <1>4, <1>5, <2>2 DEF PodStep, SettledBeforeRelease
<1>7. PodInv'
  BY <1>1, <1>6, StepIsStable
<1>8. RoutineInv'
  <2>1. \A g \in Goroutines : routine'[g] = Idle
    BY <1>1
  <2>. QED
    BY <1>1, <2>1, IdleFields
       DEF RoutineInv, FinalizerMapExact, FinalizersKnow, Finalizing, At
<1>9. restarts' \in 0..MaxRestarts
  <2>1. restarts \in 0..MaxRestarts /\ MaxRestarts \in Nat
    BY Parts, MonitorAssumption DEF RestInv
  <2>. QED
    BY <1>1, <2>1
<1>10. RestInv'
  BY <1>1, <1>2, <1>9, Parts DEF RestInv
<1>. QED
  BY <1>7, <1>8, <1>10, PartsAfter

(* The status reaches the clients. *)
LEMMA OnChangePreserves ==
    ASSUME MonitorInv, OnChange
    PROVE  MonitorInv'
<1>1. /\ UNCHANGED <<kube, events, starting, maps, routine, daemon, wasRunning, lost, limits>>
      /\ reporting' = FALSE /\ reported' = TRUE
  BY DEF OnChange
<1>2. PodInv' /\ Stable
  BY <1>1, NoUpdate DEF kube, daemon, Told
<1>3. RoutineInv'
  BY <1>1, <1>2, RoutinesStay DEF maps
<1>4. RestInv'
  BY <1>1, Parts DEF RestInv, kube, maps, daemon, limits
<1>. QED
  BY <1>2, <1>3, <1>4, PartsAfter

-----------------------------------------------------------------------------
LEMMA InitEstablishes == Init => MonitorInv
<1>. SUFFICES ASSUME Init PROVE MonitorInv
  OBVIOUS
<1>. USE DEF Init
<1>1. NewPod \in ProperPods
  BY DEF NewPod, ProperPods, Pods, Marks, Disposals, IsDisposed
<1>2. Copies = {NewPod} /\ Len(events) = 0 /\ events \in Seq(ProperPods)
  BY DEF Copies
<1>3. CopiesInOrder
  BY <1>2 DEF CopiesInOrder
<1>4. SettledBeforeRelease
  <2>1. /\ NewPod.exists /\ NewPod.finalizer /\ NewPod.disposal = ""
        /\ "attemptingToCreate" \in NewPod.marks
    BY DEF NewPod
  <2>2. ~wasRunning /\ pod = NewPod
    OBVIOUS
  <2>. QED
    BY <1>2, <2>1, <2>2, Zenon DEF SettledBeforeRelease, IsDisposed
<1>5. PodInv
  BY <1>1, <1>2, <1>3, <1>4, MonitorAssumption DEF PodInv
<1>6. RoutineInv
  BY IdleFields DEF RoutineInv, FinalizerMapExact, FinalizersKnow, Finalizing, At
<1>7. failures \in 0..MaxFailures /\ restarts \in 0..MaxRestarts
  BY MonitorAssumption
<1>8. RestInv
  BY <1>7 DEF RestInv
<1>. QED
  BY <1>5, <1>6, <1>8, Parts

LEMMA RoutineStepPreserves ==
    ASSUME MonitorInv, NEW g \in Goroutines, RoutineStep(g)
    PROVE  MonitorInv'
BY InitializerPreserves, ProbePreserves, MarksPreserve, StartFinalizePreserves,
   ReturnPreserves, FinalizeWaitPreserves, MarkStartedPreserves, DisposePreserves,
   RetryPreserves DEF RoutineStep

LEMMA NextPreserves == MonitorInv /\ [Next]_vars => MonitorInv'
<1>. SUFFICES ASSUME MonitorInv, [Next]_vars PROVE MonitorInv'
  OBVIOUS
<1>1. CASE ContainerChanges \/ PodRemoved \/ StartDone \/ StartRetries \/ StartGivesUp
  BY <1>1, ContainerChangesPreserves, PodRemovedPreserves, StartEndsPreserves
<1>2. CASE \/ \E abort \in BOOLEAN : StopWorkspace(abort)
           \/ \E reason \in {"timedOut", "timedOutBackup"} : TimesOut(reason)
  BY <1>2, StopWorkspacePreserves, TimesOutPreserves
<1>3. CASE Reconcile \/ Resync \/ HandleEvent \/ HandlerFails \/ OnChange \/ Restart
  BY <1>3, ReconcilePreserves, HandleEventPreserves, HandlerFailsPreserves,
     OnChangePreserves, RestartPreserves
<1>4. CASE \E g \in Goroutines :
              \/ RoutineStep(g) \/ InitFails(g) \/ ProbeFails(g) \/ FinalizeFails(g)
              \/ MarkFails(g)
  BY <1>4, RoutineStepPreserves, InitializerPreserves, ProbePreserves,
     FinalizeFailsPreserves, MarkFailsPreserves
<1>5. CASE UNCHANGED vars
  <2>1. UNCHANGED <<pod, dirty, events, starting, initializerMap, probeMap, finalizerMap,
                    routine, session, content, backup, reporting, wasRunning, reported,
                    lost, failures, restarts>>
    BY <1>5 DEF vars, kube, maps, daemon, published, limits
  <2>2. PodInv' /\ Stable
    BY <2>1, NoUpdate DEF Told
  <2>3. RoutineInv'
    BY <2>1, <2>2, RoutinesStay
  <2>4. RestInv'
    BY <2>1, Parts DEF RestInv
  <2>. QED
    BY <2>2, <2>3, <2>4, PartsAfter
<1>. QED
  BY <1>1, <1>2, <1>3, <1>4, <1>5 DEF Next

(* The state of monitor.go stays well formed: finalizerMap is exactly the  *)
(* one finalizeWorkspaceContent that is active, decisions on outdated      *)
(* copies of the pod stay right, and the pod's finalizer guards what could *)
(* be lost, for any number of goroutines, events, failures and restarts.   *)
THEOREM MonitorInvariant == Spec => []MonitorInv
<1>1. Init => MonitorInv
  BY InitEstablishes
<1>2. MonitorInv /\ [Next]_vars => MonitorInv'
  BY NextPreserves
<1>. QED
  BY <1>1, <1>2, PTL DEF Spec

(* The monitor never loses user data silently: when the pod of a workspace *)
(* that was running is gone and nobody aborted it, there is a backup, or   *)
(* clients were told or are being told that the last backup failed, or     *)
(* ws-manager crashed after removing the finalizer and before OnChange     *)
(* (onPodEvent, actOnPodEvent, finalizeWorkspaceContent).                  *)
THEOREM NoLossIsSilent == Spec => []NoSilentLoss
<1>1. MonitorInv => NoSilentLoss
  <2>1. SUFFICES ASSUME MonitorInv, ~pod.exists, wasRunning, "abort" \notin pod.marks
                 PROVE  backup \/ reported \/ reporting \/ lost
    BY DEF NoSilentLoss
  <2>2. pod \in Copies
    BY DEF Copies
  <2>3. Settled
    BY <2>1, <2>2 DEF MonitorInv, SettledBeforeRelease
  <2>. QED
    BY <2>1, <2>3 DEF Settled, Told, NeverRuns
<1>2. Spec => []MonitorInv
  BY MonitorInvariant
<1>. QED
  BY <1>1, <1>2, PTL
=============================================================================
