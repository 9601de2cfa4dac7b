------------------------ MODULE StatusSourceProofs -------------------------
(***************************************************************************)
(* Proofs about HybridClock and StatusSource, for every width of the       *)
(* physical and the logical part of a version, every behaviour of the wall *)
(* clock, and any number of pod changes, lists, failures and restarts.     *)
(*                                                                         *)
(* The clock alone: the versions of one process strictly increase, because *)
(* none exceeds what the clock's state encodes (IssuedBelowClock).         *)
(* The statuses: no process issues a version twice, and the statuses       *)
(* computed from events are in the order of the pods.  What carries it: a  *)
(* tick is above everything the process has issued (BelowHorizon), and the *)
(* next event is of no older pod than any status computed from an event    *)
(* before, by whatever process (EventsInOrder).                            *)
(***************************************************************************)
EXTENDS StatusSource, SequenceTheorems, TLAPS

(* The value clock.go packs is ordered first by the physical part, then by *)
(* the logical part: Version is monotone in the lexicographic order.       *)
LEMMA VersionOrder ==
    ASSUME NEW t1 \in Nat, NEW t2 \in Nat,
           NEW l1 \in 0..LogicalMask, NEW l2 \in 0..LogicalMask,
           \/ t1 < t2
           \/ t1 = t2 /\ l1 < l2
    PROVE  /\ Version(t1, l1) \in Nat
           /\ Version(t2, l2) \in Nat
           /\ Version(t1, l1) < Version(t2, l2)
<1>. DEFINE W == LogicalMask + 1
<1>1. W \in Nat /\ W > 0
  BY ClockAssumption
<1>2. l1 % W = l1 /\ l2 % W = l2
  BY ClockAssumption
<1>3. t1 * W \in Nat /\ t2 * W \in Nat
  BY <1>1
<1>4. Version(t1, l1) = t1 * W + l1 /\ Version(t2, l2) = t2 * W + l2
  BY <1>2 DEF Version
<1>5. CASE t1 < t2
  <2>1. (t1 + 1) * W <= t2 * W
    BY <1>1, <1>5
  <2>2. (t1 + 1) * W = t1 * W + W
    BY <1>1
  <2>. HIDE DEF W
  <2>3. l1 < W
    BY ClockAssumption DEF W
  <2>. QED
    BY <1>1, <1>3, <1>4, <2>1, <2>2, <2>3, ClockAssumption
<1>6. CASE t1 = t2 /\ l1 < l2
  <2>. HIDE DEF W
  <2>. QED
    BY <1>1, <1>3, <1>4, <1>6, ClockAssumption
<1>. QED
  BY <1>5, <1>6

LEMMA VersionIsNat ==
    ASSUME NEW t \in Nat, NEW l \in 0..LogicalMask
    PROVE  Version(t, l) \in Nat
<1>1. Version(t, l) = t * (LogicalMask + 1) + l
  BY ClockAssumption DEF Version
<1>2. t * (LogicalMask + 1) \in Nat
  BY ClockAssumption
<1>. QED
  BY <1>1, <1>2, ClockAssumption

LEMMA MaskedInRange ==
    ASSUME NEW now \in WallTimes
    PROVE  Masked(now) \in 0..PhysicalMask
BY ClockAssumption DEF Masked

(* A tick keeps the clock's parts within their width and moves the packed  *)
(* value up.                                                               *)
LEMMA TickAdvances ==
    ASSUME ClockTypeOK, NEW now \in WallTimes, Tick(now)
    PROVE  /\ lastPhysicalTime' \in 0..PhysicalMask
           /\ lc' \in 0..LogicalMask
           /\ Version(lastPhysicalTime', lc') \in Nat
           /\ Version(lastPhysicalTime, lc) \in Nat
           /\ Version(lastPhysicalTime, lc) < Version(lastPhysicalTime', lc')
<1>. DEFINE t == Masked(now)
<1>1. t \in 0..PhysicalMask
  BY MaskedInRange
<1>2. /\ lastPhysicalTime \in Nat /\ lc \in Nat
      /\ PhysicalMask \in Nat /\ LogicalMask \in Nat
  BY ClockAssumption DEF ClockTypeOK
<1>. HIDE DEF t
<1>3. CASE lastPhysicalTime >= t /\ lc' = lc + 1 /\ lastPhysicalTime' = lastPhysicalTime
  <2>1. lc < LogicalMask
    BY <1>1, <1>2, <1>3 DEF Tick, Panics, t
  <2>2. lc' \in 0..LogicalMask /\ lc < lc'
    BY <1>2, <1>3, <2>1
  <2>. QED
    BY <1>2, <1>3, <2>2, VersionOrder DEF ClockTypeOK
<1>4. CASE lastPhysicalTime < t /\ lc' = 0 /\ lastPhysicalTime' = t
  <2>1. lc' \in 0..LogicalMask /\ lastPhysicalTime' \in 0..PhysicalMask
    BY <1>1, <1>2, <1>4
  <2>. QED
    BY <1>1, <1>2, <1>4, <2>1, VersionOrder DEF ClockTypeOK
<1>. QED
  BY <1>3, <1>4 DEF Tick, Advance, t

LEMMA InitClockInv == ClockInit => ClockInv
BY ClockAssumption DEF ClockInit, ClockInv, ClockTypeOK, VersionsIncrease, IssuedBelowClock

LEMMA TickPreserves ==
    ASSUME ClockInv, NEW now \in WallTimes, Tick(now)
    PROVE  ClockInv'
<1>. DEFINE v == Version(lastPhysicalTime', lc')
<1>1. ClockTypeOK
  BY DEF ClockInv
<1>2. /\ lastPhysicalTime' \in 0..PhysicalMask
      /\ lc' \in 0..LogicalMask
      /\ v \in Nat
      /\ Version(lastPhysicalTime, lc) \in Nat
      /\ Version(lastPhysicalTime, lc) < v
  BY <1>1, TickAdvances
<1>3. issued' = Append(issued, v) /\ running' = running
  BY DEF Tick
<1>4. v = Version(lastPhysicalTime, lc)'
  BY DEF Version
<1>. HIDE DEF v
<1>5. ClockTypeOK'
  BY <1>1, <1>2, <1>3 DEF ClockTypeOK
<1>6. \A i \in 1..Len(issued) : issued[i] \in Nat /\ issued[i] < v
  BY <1>1, <1>2 DEF ClockInv, IssuedBelowClock, ClockTypeOK
<1>7. /\ Len(issued') = Len(issued) + 1
      /\ Len(issued) \in Nat
      /\ \A i \in 1..Len(issued) : issued'[i] = issued[i]
      /\ issued'[Len(issued) + 1] = v
  BY <1>1, <1>2, <1>3 DEF ClockTypeOK
<1>8. VersionsIncrease'
  BY <1>2, <1>6, <1>7 DEF ClockInv, VersionsIncrease
<1>9. IssuedBelowClock'
  BY <1>2, <1>4, <1>6, <1>7 DEF IssuedBelowClock
<1>. QED
  BY <1>5, <1>8, <1>9 DEF ClockInv

LEMMA NextClockInv == ClockInv /\ [ClockNext]_clockVars => ClockInv'
<1>. SUFFICES ASSUME ClockInv, [ClockNext]_clockVars PROVE ClockInv'
  OBVIOUS
<1>1. ASSUME NEW now \in WallTimes, Tick(now) PROVE ClockInv'
  BY <1>1, TickPreserves
<1>2. ASSUME NEW now \in WallTimes, Panic(now) PROVE ClockInv'
  BY <1>2 DEF Panic, ClockInv, ClockTypeOK, VersionsIncrease, IssuedBelowClock, Version
<1>3. CASE ClockRestart
  BY <1>3, ClockAssumption
     DEF ClockRestart, ClockInv, ClockTypeOK, VersionsIncrease, IssuedBelowClock
<1>4. CASE UNCHANGED clockVars
  BY <1>4 DEF clockVars, ClockInv, ClockTypeOK, VersionsIncrease, IssuedBelowClock, Version
<1>. QED
  BY <1>1, <1>2, <1>3, <1>4 DEF ClockNext

(* The clock's parts keep their width and every version issued so far is   *)
(* at most what the clock's state encodes (clock.go Tick).                 *)
THEOREM ClockInvariant == ClockSpec => []ClockInv
BY InitClockInv, NextClockInv, PTL DEF ClockSpec

(* Versions handed out by one process strictly increase (clock.go Tick),   *)
(* however the wall clock moves.                                           *)
THEOREM ClockMonotone == ClockSpec => []VersionsIncrease
<1>1. ClockInv => VersionsIncrease
  BY DEF ClockInv
<1>. QED
  BY <1>1, ClockInvariant, PTL

-----------------------------------------------------------------------------
(* StatusSource.  The invariant in three parts: the clock, the statuses,   *)
(* and the rest. *)
StatusInv ==
    /\ Issued \subseteq [gen : 1..gen, version : Nat, origin : {"event", "list"}, era : 0..era]
    /\ \A a, b \in Issued : a.era = b.era /\ a.version = b.version => a = b
    /\ EventVersionsOrdered
    /\ BelowHorizon

QueueInv ==
    /\ gen \in Gens /\ exists \in BOOLEAN /\ dirty \in BOOLEAN
    /\ lastSeen \in 0..gen /\ listing \in 0..gen
    /\ events \in Seq(1..gen)
    /\ lists \in 0..MaxLists /\ failures \in 0..MaxFailures
    /\ era \in Nat
    /\ EventsInOrder

LEMMA SourceParts ==
    /\ SourceInv <=> StatusInv /\ QueueInv
    /\ StatusInv' /\ QueueInv' => SourceInv'
BY DEF SourceInv, TypeOK, StatusInv, QueueInv

LEMMA Bounds == {MaxChanges, MaxLists, MaxFailures, PhysicalMask, LogicalMask} \subseteq Nat
BY SourceAssumption, ClockAssumption

(* A step that computes no status *)
LEMMA NoStamp ==
    ASSUME SourceInv, Issued' \subseteq Issued, gen' \in Nat, gen <= gen',
           UNCHANGED <<lastPhysicalTime, lc, era>>
    PROVE  StatusInv'
<1>1. StatusInv /\ gen \in Nat
  BY SourceParts, Bounds DEF QueueInv, Gens
<1>2. \A n \in 1..gen : n \in 1..gen'
  BY <1>1
<1>3. Issued' \subseteq [gen : 1..gen', version : Nat, origin : {"event", "list"}, era : 0..era']
  BY <1>1, <1>2 DEF StatusInv
<1>4. BelowHorizon'
  BY <1>1 DEF StatusInv, BelowHorizon, Version
<1>. QED
  BY <1>1, <1>3, <1>4 DEF StatusInv, EventVersionsOrdered, Before

(* A step that computes a status of pod g, no older than the pods of the   *)
(* events before when it is an event's: its version is above everything    *)
(* this process has issued, and no later process has issued anything. *)
LEMMA Stamp ==
    ASSUME ClockInv, SourceInv, NEW now \in WallTimes, Tick(now), UNCHANGED <<gen, era>>,
           NEW g \in 1..gen, NEW origin \in {"event", "list"},
           Issued' \subseteq Issued \cup {Status(g, origin)},
           origin = "event" => \A a \in Issued : a.origin = "event" => a.gen <= g
    PROVE  StatusInv'
<1>. DEFINE v == Version(lastPhysicalTime', lc')
            new == Status(g, origin)
<1>1. StatusInv /\ era \in Nat /\ gen \in Nat
  BY SourceParts, Bounds DEF QueueInv, Gens
<1>2. /\ v \in Nat /\ Version(lastPhysicalTime, lc) \in Nat
      /\ Version(lastPhysicalTime, lc) < v
  BY TickAdvances DEF ClockInv
<1>3. /\ new \in [gen : 1..gen, version : Nat, origin : {"event", "list"}, era : 0..era]
      /\ new.gen = g /\ new.version = v /\ new.origin = origin /\ new.era = era
  BY <1>1, <1>2 DEF Status
<1>4. \A a \in Issued : /\ a.version \in Nat /\ a.gen \in Nat /\ a.era \in Nat /\ a.era <= era
                        /\ a.era = era => a.version < v
  BY <1>1, <1>2 DEF StatusInv, BelowHorizon
<1>5. BelowHorizon' <=> \A a \in Issued' : a.era = era => a.version <= v
  BY DEF BelowHorizon, Version
<1>. HIDE DEF v, new
<1>6. \A a \in Issued' : a \in Issued \/ a = new
  BY DEF new
<1>7. BelowHorizon'
  BY <1>2, <1>3, <1>4, <1>5, <1>6
<1>8. EventVersionsOrdered'
  <2>1. SUFFICES ASSUME NEW a \in Issued', NEW b \in Issued', a.origin = "event",
                        b.origin = "event", Before(a, b)
                 PROVE  a.gen <= b.gen
    BY DEF EventVersionsOrdered
  <2>2. CASE a = new
    BY <1>1, <1>2, <1>3, <1>4, <1>6, <2>1, <2>2 DEF Before
  <2>3. CASE a \in Issued
    BY <1>1, <1>3, <1>6, <2>1, <2>3 DEF StatusInv, EventVersionsOrdered
  <2>. QED
    BY <1>6, <2>2, <2>3
<1>9. \A a, b \in Issued' : a.era = b.era /\ a.version = b.version => a = b
  BY <1>1, <1>2, <1>3, <1>4, <1>6 DEF StatusInv
<1>10. Issued' \subseteq [gen : 1..gen', version : Nat, origin : {"event", "list"}, era : 0..era']
  BY <1>1, <1>3, <1>6 DEF StatusInv
<1>. QED
  BY <1>7, <1>8, <1>9, <1>10 DEF StatusInv

(* The clock in a step that does not touch it *)
LEMMA ClockStays ==
    ASSUME ClockInv, UNCHANGED clockVars
    PROVE  ClockInv'
BY NextClockInv

LEMMA PodChangesPreserves ==
    ASSUME ClockInv, SourceInv, PodChanges
    PROVE  ClockInv' /\ SourceInv'
<1>1. /\ UNCHANGED <<lastSeen, events, publishing, listing, lists, failures, published, timeVars>>
      /\ dirty' = TRUE
  BY DEF PodChanges
<1>2. QueueInv /\ gen \in Nat /\ MaxChanges \in Nat
  BY SourceParts, Bounds DEF QueueInv, Gens
<1>3. gen' \in Gens /\ gen <= gen' /\ gen' \in Nat /\ exists' \in BOOLEAN
  <2>1. gen' = gen \/ (gen <= MaxChanges /\ gen' = gen + 1)
    BY DEF PodChanges
  <2>2. exists' \in BOOLEAN
    BY <1>2 DEF PodChanges, QueueInv
  <2>. QED
    BY <1>2, <2>1, <2>2 DEF QueueInv, Gens
<1>4. StatusInv'
  BY <1>1, <1>3, NoStamp DEF Issued, timeVars, clockVars
<1>5. EventsInOrder'
  BY <1>1, <1>2 DEF QueueInv, EventsInOrder, Issued
<1>6. lastSeen \in 0..gen' /\ listing \in 0..gen' /\ events \in Seq(1..gen')
  <2>1. 0..gen \subseteq 0..gen' /\ 1..gen \subseteq 1..gen'
    BY <1>2, <1>3
  <2>2. events \in Seq(1..gen')
    BY <1>2, <2>1, SeqMonotonic DEF QueueInv
  <2>. QED
    BY <1>2, <2>1, <2>2 DEF QueueInv
<1>7. QueueInv'
  BY <1>1, <1>2, <1>3, <1>5, <1>6 DEF QueueInv, timeVars, Gens
<1>. QED
  BY <1>1, <1>4, <1>7, SourceParts, ClockStays DEF timeVars

(* Reconcile adds the pod, which is the newest there is, or the one it saw *)
(* last. *)
LEMMA AppendEvent ==
    ASSUME SourceInv, NEW e \in 1..gen, events' = Append(events, e),
           UNCHANGED <<gen, publishing, published>>,
           lastSeen' # 0 => lastSeen' = e,
           \/ e = gen
           \/ lastSeen # 0 /\ e = lastSeen
    PROVE  events' \in Seq(1..gen) /\ EventsInOrder'
<1>1. StatusInv /\ QueueInv /\ gen \in Nat
  BY SourceParts, Bounds DEF QueueInv, Gens
<1>2. /\ Len(events) \in Nat /\ events' \in Seq(1..gen) /\ Len(events') = Len(events) + 1
      /\ \A i \in 1..Len(events) : events'[i] = events[i] /\ events[i] \in 1..gen
      /\ events'[Len(events) + 1] = e
  BY <1>1 DEF QueueInv
<1>3. \A i \in 1..Len(events) : events[i] <= e
  BY <1>1, <1>2 DEF QueueInv, EventsInOrder
<1>4. \A status \in Issued : status.gen \in Nat /\ (status.origin = "event" => status.gen <= e)
  BY <1>1 DEF StatusInv, QueueInv, EventsInOrder
<1>5. \A i \in 1..Len(events') : i \in 1..Len(events) \/ i = Len(events) + 1
  BY <1>2
<1>6. Issued' = Issued
  BY DEF Issued
<1>7. \A i \in 1..Len(events') : /\ \A j \in i..Len(events') : events'[i] <= events'[j]
                                 /\ lastSeen' # 0 => events'[i] <= lastSeen'
  <2>1. SUFFICES ASSUME NEW i \in 1..Len(events')
                 PROVE  /\ \A j \in i..Len(events') : events'[i] <= events'[j]
                        /\ lastSeen' # 0 => events'[i] <= lastSeen'
    OBVIOUS
  <2>2. events'[i] \in 1..gen /\ events'[i] <= e
    BY <1>1, <1>2, <1>3, <1>5
  <2>3. ASSUME NEW j \in i..Len(events') PROVE events'[i] <= events'[j]
    <3>1. CASE j = Len(events) + 1
      BY <1>2, <2>2, <3>1
    <3>2. CASE j # Len(events) + 1
      <4>1. i \in 1..Len(events) /\ j \in i..Len(events) /\ j \in 1..Len(events)
        BY <1>2, <3>2
      <4>. QED
        BY <1>1, <1>2, <4>1 DEF QueueInv, EventsInOrder
    <3>. QED
      BY <3>1, <3>2
  <2>. QED
    BY <2>2, <2>3
<1>8. \A status \in Issued' : status.origin = "event" =>
         /\ \A i \in 1..Len(events') : status.gen <= events'[i]
         /\ lastSeen' # 0 => status.gen <= lastSeen'
  BY <1>1, <1>2, <1>4, <1>5, <1>6 DEF QueueInv, EventsInOrder
<1>. QED
  BY <1>2, <1>7, <1>8 DEF EventsInOrder

LEMMA ReconcilePreserves ==
    ASSUME ClockInv, SourceInv, Reconcile \/ ReconcileGetFails
    PROVE  ClockInv' /\ SourceInv'
<1>1. UNCHANGED <<gen, exists, publishing, listing, lists, published, timeVars>> /\ dirty' = FALSE
  BY DEF Reconcile, ReconcileGetFails
<1>2. QueueInv /\ gen \in Nat /\ gen \in 1..gen /\ MaxFailures \in Nat
  BY SourceParts, Bounds DEF QueueInv, Gens
<1>3. lastSeen' \in 0..gen /\ failures' \in 0..MaxFailures
  BY <1>2 DEF Reconcile, ReconcileGetFails, QueueInv
<1>4. events' \in Seq(1..gen) /\ EventsInOrder'
  <2>1. CASE Reconcile /\ exists
    BY <1>1, <1>2, <2>1, AppendEvent DEF Reconcile
  <2>2. CASE Reconcile /\ ~exists /\ lastSeen # 0
    <3>1. lastSeen \in 1..gen
      BY <1>2, <2>2 DEF QueueInv
    <3>. QED
      BY <1>1, <2>2, <3>1, AppendEvent DEF Reconcile
  <2>3. CASE ~(Reconcile /\ exists) /\ ~(Reconcile /\ ~exists /\ lastSeen # 0)
    <3>1. UNCHANGED events /\ lastSeen' = 0 /\ Issued' = Issued
      BY <1>1, <2>3 DEF Reconcile, ReconcileGetFails, Issued
    <3>. QED
      BY <1>2, <3>1 DEF QueueInv, EventsInOrder
  <2>. QED
    BY <2>1, <2>2, <2>3
<1>5. StatusInv'
  BY <1>1, <1>2, NoStamp DEF Issued, timeVars, clockVars
<1>6. QueueInv'
  BY <1>1, <1>2, <1>3, <1>4 DEF QueueInv, timeVars, Gens
<1>. QED
  BY <1>1, <1>5, <1>6, SourceParts, ClockStays DEF timeVars

(* An event is taken from the queue; what is issued then is of its pod. *)
LEMMA TakeEvent ==
    ASSUME SourceInv, events # <<>>, events' = Tail(events), UNCHANGED <<gen, lastSeen>>,
           \A status \in Issued' : status \in Issued \/ status.gen = Head(events)
    PROVE  /\ Head(events) \in 1..gen
           /\ \A status \in Issued : status.origin = "event" => status.gen <= Head(events)
           /\ events' \in Seq(1..gen) /\ EventsInOrder'
<1>1. StatusInv /\ QueueInv /\ gen \in Nat
  BY SourceParts, Bounds DEF QueueInv, Gens
<1>2. /\ Len(events) \in Nat /\ Len(events) >= 1 /\ Head(events) = events[1]
      /\ events' \in Seq(1..gen) /\ Len(events') = Len(events) - 1
      /\ \A i \in 1..Len(events') : events'[i] = events[i + 1] /\ i + 1 \in 1..Len(events)
      /\ \A i \in 1..Len(events) : events[i] \in 1..gen
  BY <1>1 DEF QueueInv
<1>3. Head(events) \in 1..gen
  BY <1>2
<1>4. \A status \in Issued : status.origin = "event" => status.gen <= Head(events)
  BY <1>1, <1>2 DEF QueueInv, EventsInOrder
<1>5. \A i \in 1..Len(events) : Head(events) <= events[i]
  BY <1>1, <1>2 DEF QueueInv, EventsInOrder
<1>6. \A i \in 1..Len(events') : /\ \A j \in i..Len(events') : events'[i] <= events'[j]
                                 /\ lastSeen # 0 => events'[i] <= lastSeen
  <2>1. SUFFICES ASSUME NEW i \in 1..Len(events'), NEW j \in i..Len(events')
                 PROVE  /\ events'[i] <= events'[j]
                        /\ lastSeen # 0 => events'[i] <= lastSeen
    <3>1. \A i \in 1..Len(events') : i \in i..Len(events')
      BY <1>2
    <3>. QED
      BY <2>1, <3>1
  <2>2. /\ j \in 1..Len(events') /\ i + 1 \in 1..Len(events)
        /\ j + 1 \in (i + 1)..Len(events)
    BY <1>2
  <2>. QED
    BY <1>1, <1>2, <2>2 DEF QueueInv, EventsInOrder
<1>7. \A status \in Issued' : status.origin = "event" =>
         /\ \A i \in 1..Len(events') : status.gen <= events'[i]
         /\ lastSeen # 0 => status.gen <= lastSeen
  BY <1>1, <1>2, <1>5 DEF QueueInv, EventsInOrder
<1>. QED
  BY <1>2, <1>3, <1>4, <1>6, <1>7 DEF EventsInOrder

LEMMA OnPodEventPreserves ==
    ASSUME ClockInv, SourceInv, OnPodEvent
    PROVE  ClockInv' /\ SourceInv'
<1>1. /\ events # <<>> /\ events' = Tail(events)
      /\ UNCHANGED <<gen, exists, dirty, lastSeen, listing, lists, failures, published, era>>
      /\ Issued' = Issued \cup {Status(Head(events), "event")}
  BY DEF OnPodEvent, Issued
<1>2. PICK now \in WallTimes : Tick(now)
  BY DEF OnPodEvent
<1>3. Status(Head(events), "event").gen = Head(events)
  BY DEF Status
<1>4. /\ Head(events) \in 1..gen
      /\ \A status \in Issued : status.origin = "event" => status.gen <= Head(events)
      /\ events' \in Seq(1..gen) /\ EventsInOrder'
  BY <1>1, <1>3, TakeEvent
<1>5. StatusInv'
  BY <1>1, <1>2, <1>4, Stamp
<1>6. QueueInv'
  BY <1>1, <1>4, SourceParts DEF QueueInv, Gens
<1>7. ClockInv'
  BY <1>2, TickPreserves
<1>. QED
  BY <1>5, <1>6, <1>7, SourceParts

LEMMA OnPodEventFailsPreserves ==
    ASSUME ClockInv, SourceInv, OnPodEventFails
    PROVE  ClockInv' /\ SourceInv'
<1>1. /\ events # <<>> /\ events' = Tail(events)
      /\ failures < MaxFailures /\ failures' = failures + 1
      /\ UNCHANGED <<gen, exists, dirty, lastSeen, publishing, listing, lists, published, timeVars>>
  BY DEF OnPodEventFails
<1>2. QueueInv /\ gen \in Nat /\ MaxFailures \in Nat
  BY SourceParts, Bounds DEF QueueInv, Gens
<1>3. Issued' = Issued
  BY <1>1 DEF Issued
<1>4. events' \in Seq(1..gen) /\ EventsInOrder'
  BY <1>1, <1>3, TakeEvent
<1>5. StatusInv'
  BY <1>1, <1>2, <1>3, NoStamp DEF timeVars, clockVars
<1>6. failures' \in 0..MaxFailures
  BY <1>1, <1>2 DEF QueueInv
<1>7. QueueInv'
  BY <1>1, <1>2, <1>4, <1>6 DEF QueueInv, timeVars, Gens
<1>. QED
  BY <1>1, <1>5, <1>7, SourceParts, ClockStays DEF timeVars

(* Publishing moves a status; listing the pods reads one. *)
LEMMA PublishPreserves ==
    ASSUME ClockInv, SourceInv, (\E status \in publishing : Publish(status)) \/ ListPods
    PROVE  ClockInv' /\ SourceInv'
<1>1. UNCHANGED <<gen, exists, dirty, lastSeen, events, failures, timeVars>>
  BY DEF Publish, ListPods
<1>2. QueueInv /\ gen \in Nat /\ gen \in 0..gen /\ MaxLists \in Nat
  BY SourceParts, Bounds DEF QueueInv, Gens
<1>3. Issued' \subseteq Issued
  BY DEF Publish, ListPods, Issued
<1>4. listing' \in 0..gen /\ lists' \in 0..MaxLists
  BY <1>2 DEF Publish, ListPods, QueueInv
<1>5. StatusInv'
  BY <1>1, <1>2, <1>3, NoStamp DEF timeVars, clockVars
<1>6. EventsInOrder'
  BY <1>1, <1>2, <1>3 DEF QueueInv, EventsInOrder
<1>7. QueueInv'
  BY <1>1, <1>2, <1>4, <1>6 DEF QueueInv, timeVars, Gens
<1>. QED
  BY <1>1, <1>5, <1>7, SourceParts, ClockStays DEF timeVars

LEMMA AnswerListPreserves ==
    ASSUME ClockInv, SourceInv, AnswerList
    PROVE  ClockInv' /\ SourceInv'
<1>1. /\ listing # 0 /\ listing' = 0
      /\ UNCHANGED <<gen, exists, dirty, lastSeen, events, publishing, lists, failures, era>>
      /\ Issued' = Issued \cup {Status(listing, "list")}
  BY DEF AnswerList, Issued
<1>2. PICK now \in WallTimes : Tick(now)
  BY DEF AnswerList
<1>3. QueueInv /\ gen \in Nat /\ listing \in 1..gen /\ 0 \in 0..gen
  BY <1>1, SourceParts, Bounds DEF QueueInv, Gens
<1>4. StatusInv'
  BY <1>1, <1>2, <1>3, Stamp
<1>5. Status(listing, "list").origin = "list"
  BY DEF Status
<1>6. EventsInOrder'
  BY <1>1, <1>3, <1>5 DEF QueueInv, EventsInOrder
<1>7. QueueInv'
  BY <1>1, <1>3, <1>6 DEF QueueInv, Gens
<1>8. ClockInv'
  BY <1>2, TickPreserves
<1>. QED
  BY <1>4, <1>7, <1>8, SourceParts

LEMMA StatusPanicsPreserves ==
    ASSUME ClockInv, SourceInv, StatusPanics
    PROVE  ClockInv' /\ SourceInv'
<1>1. PICK now \in WallTimes : Panic(now)
  BY DEF StatusPanics
<1>2. /\ UNCHANGED <<gen, exists, dirty, lastSeen, events, era, publishing, listing, lists,
                     failures, published>>
      /\ UNCHANGED <<lastPhysicalTime, lc>>
  BY <1>1 DEF StatusPanics, Panic
<1>3. QueueInv /\ gen \in Nat
  BY SourceParts, Bounds DEF QueueInv, Gens
<1>4. ClockInv'
  BY <1>1, NextClockInv DEF ClockNext
<1>5. StatusInv'
  BY <1>2, <1>3, NoStamp DEF Issued
<1>6. QueueInv'
  BY <1>2, <1>3 DEF QueueInv, EventsInOrder, Issued, Gens
<1>. QED
  BY <1>4, <1>5, <1>6, SourceParts

(* The new process has issued nothing yet. *)
LEMMA RestartPreserves ==
    ASSUME ClockInv, SourceInv, Restart
    PROVE  ClockInv' /\ SourceInv'
<1>1. /\ era' = era + 1
      /\ running' = TRUE /\ lastPhysicalTime' = 0 /\ lc' = 0 /\ issued' = <<>>
      /\ dirty' = exists /\ lastSeen' = 0 /\ events' = <<>> /\ listing' = 0
      /\ publishing' = {} /\ failures < MaxFailures /\ failures' = failures + 1
      /\ UNCHANGED <<gen, exists, lists, published>>
  BY DEF Restart
<1>2. StatusInv /\ QueueInv /\ gen \in Nat /\ 0 \in 0..gen /\ era \in Nat
  BY SourceParts, Bounds DEF QueueInv, Gens
<1>3. ClockInv'
  BY <1>1, ClockAssumption
     DEF ClockInv, ClockTypeOK, VersionsIncrease, IssuedBelowClock
<1>4. Issued' \subseteq Issued
  BY <1>1 DEF Issued
<1>5. \A status \in Issued' : status.era \in 0..era' /\ status.era # era'
  BY <1>1, <1>2, <1>4 DEF StatusInv
<1>6. BelowHorizon'
  BY <1>5 DEF BelowHorizon
<1>7. Issued' \subseteq [gen : 1..gen', version : Nat, origin : {"event", "list"}, era : 0..era']
  BY <1>1, <1>2, <1>4, <1>5 DEF StatusInv
<1>8. StatusInv'
  BY <1>2, <1>4, <1>6, <1>7 DEF StatusInv, EventVersionsOrdered, Before
<1>9. failures' \in 0..MaxFailures
  BY <1>1, <1>2, Bounds DEF QueueInv
<1>10. events' \in Seq(1..gen) /\ EventsInOrder'
  BY <1>1 DEF EventsInOrder
<1>11. QueueInv'
  BY <1>1, <1>2, <1>9, <1>10 DEF QueueInv, Gens
<1>. QED
  BY <1>3, <1>8, <1>11, SourceParts

LEMMA InitSource == Init => ClockInv /\ SourceInv
<1>. SUFFICES ASSUME Init PROVE ClockInv /\ SourceInv
  OBVIOUS
<1>1. /\ gen = 1 /\ exists = TRUE /\ dirty = TRUE /\ lastSeen = 0 /\ events = <<>> /\ era = 0
      /\ publishing = {} /\ listing = 0 /\ lists = 0 /\ failures = 0 /\ published = {}
      /\ ClockInit /\ lastPhysicalTime = 0
  BY DEF Init, ClockInit
<1>2. Issued = {}
  BY <1>1 DEF Issued
<1>3. StatusInv
  BY <1>1, <1>2 DEF StatusInv, EventVersionsOrdered, BelowHorizon
<1>4. EventsInOrder /\ events \in Seq(1..gen)
  BY <1>1, <1>2 DEF EventsInOrder
<1>5. QueueInv
  BY <1>1, <1>4, Bounds DEF QueueInv, Gens
<1>. QED
  BY <1>1, <1>3, <1>5, InitClockInv, SourceParts

LEMMA NextSource == ClockInv /\ SourceInv /\ [Next]_vars => ClockInv' /\ SourceInv'
<1>. SUFFICES ASSUME ClockInv, SourceInv, [Next]_vars PROVE ClockInv' /\ SourceInv'
  OBVIOUS
<1>1. CASE Next
  BY <1>1, PodChangesPreserves, ReconcilePreserves, OnPodEventPreserves,
     OnPodEventFailsPreserves, PublishPreserves, AnswerListPreserves, StatusPanicsPreserves,
     RestartPreserves DEF Next
<1>2. CASE UNCHANGED vars
  <2>1. UNCHANGED <<gen, exists, dirty, lastSeen, events, era, publishing, listing, lists,
                    failures, published, clockVars>>
    BY <1>2 DEF vars
  <2>2. QueueInv /\ gen \in Nat
    BY SourceParts, Bounds DEF QueueInv, Gens
  <2>3. StatusInv'
    BY <2>1, <2>2, NoStamp DEF Issued, clockVars
  <2>4. QueueInv'
    BY <2>1, <2>2 DEF QueueInv, EventsInOrder, Issued, Gens
  <2>. QED
    BY <2>1, <2>3, <2>4, SourceParts, ClockStays
<1>. QED
  BY <1>1, <1>2

(* No process stamps two statuses with one version, across goroutines and  *)
(* lists, and the statuses computed from events are in the order of the    *)
(* pods they are of: by version within a process, and from one process to  *)
(* the next (getWorkspaceStatus, onPodEvent, PodReconciler.Reconcile).     *)
(* Nothing is assumed of the wall clock, restarts included.                *)
THEOREM SourceInvariant == Spec => []SourceInv
<1>1. Init => ClockInv /\ SourceInv
  BY InitSource
<1>2. ClockInv /\ SourceInv /\ [Next]_vars => (ClockInv /\ SourceInv)'
  BY NextSource
<1>. QED
  BY <1>1, <1>2, PTL DEF Spec

(* The clock keeps its promise where it is used: the versions ws-manager   *)
(* stamps its statuses with strictly increase while a process runs, and no *)
(* version exceeds what the clock's state encodes (clock.go Tick).         *)
THEOREM SourceClock == Spec => [](ClockInv /\ VersionsIncrease)
<1>1. Init => ClockInv /\ SourceInv
  BY InitSource
<1>2. ClockInv /\ SourceInv /\ [Next]_vars => (ClockInv /\ SourceInv)'
  BY NextSource
<1>3. ClockInv => VersionsIncrease
  BY DEF ClockInv
<1>. QED
  BY <1>1, <1>2, <1>3, PTL DEF Spec
=============================================================================
