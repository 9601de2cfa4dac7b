---------------------------- MODULE HybridClock ----------------------------
(***************************************************************************)
(* The hybrid logical clock of ws-manager                                  *)
(* (components/ws-manager/pkg/clock/clock.go).                             *)
(*                                                                         *)
(* Tick() is the only source of WorkspaceStatus.statusVersion.  It runs    *)
(* under c.mu, so one call is one step.  The wall clock is the             *)
(* environment: each call may read any member of WallTimes, so the wall    *)
(* clock may stand still, jump ahead or run backwards.  lastPhysicalTime   *)
(* and lc live in memory only: a panic ends the process and the next       *)
(* process starts again from zero.                                         *)
(***************************************************************************)
EXTENDS Integers, Sequences

CONSTANTS
    PhysicalMask,   \* physicalTimeMask, 0xFFFFFFFFFFFF in the code
    LogicalMask,    \* logicalTimeMask, 0xFFFF in the code
    WallTimes,      \* the values physicalTime() may return
    MaxTicks        \* bound: versions issued by one process

ASSUME ClockAssumption ==
    /\ PhysicalMask \in Nat
    /\ LogicalMask \in Nat
    /\ WallTimes \subseteq Nat
    /\ MaxTicks \in Nat

VARIABLES
    lastPhysicalTime,   \* c.mu.lastPhysicalTime
    lc,                 \* c.mu.lc
    running,            \* FALSE once Tick() has panicked
    issued              \* history: the versions this process has handed out

clockVars == <<lastPhysicalTime, lc, running, issued>>

-----------------------------------------------------------------------------
(* physicalTime() & physicalTimeMask *)
Masked(now) == now % (PhysicalMask + 1)

(* (t << 16) | c.mu.lc & logicalTimeMask: a shift by the width of the      *)
(* logical part is a multiplication, and or-ing in a number below it is an *)
(* addition.                                                               *)
Version(t, l) == t * (LogicalMask + 1) + (l % (LogicalMask + 1))

\* Mutant of Panics: the logical clock may run past its mask.
MutPanicsOnlyOnZero(now) == Masked(now) = 0

(* The condition under which Tick() panics at wall time now. *)
Panics(now) ==
    LET t == Masked(now)
    IN  \/ t = 0
        \/ lastPhysicalTime >= t /\ lc >= LogicalMask

\* Mutant of Advance: an unchanged wall clock counts as progress.
MutAdvanceOnEqual(now) ==
    LET t == Masked(now)
    IN  \/ /\ lastPhysicalTime > t
           /\ lc' = lc + 1
           /\ UNCHANGED lastPhysicalTime
        \/ /\ lastPhysicalTime <= t
           /\ lc' = 0
           /\ lastPhysicalTime' = t

(* The two branches of Tick(): the wall clock did not advance, so the      *)
(* logical clock does; or it did, and the logical clock starts over.       *)
Advance(now) ==
    LET t == Masked(now)
    IN  \/ /\ lastPhysicalTime >= t
           /\ lc' = lc + 1
           /\ UNCHANGED lastPhysicalTime
        \/ /\ lastPhysicalTime < t
           /\ lc' = 0
           /\ lastPhysicalTime' = t

-----------------------------------------------------------------------------
ClockInit ==
    /\ lastPhysicalTime = 0
    /\ lc = 0
    /\ running = TRUE
    /\ issued = <<>>

Tick(now) ==
    /\ running
    /\ Len(issued) < MaxTicks
    /\ ~Panics(now)
    /\ Advance(now)
    /\ issued' = Append(issued, Version(lastPhysicalTime', lc'))
    /\ UNCHANGED running

Panic(now) ==
    /\ running
    /\ Panics(now)
    /\ running' = FALSE
    /\ UNCHANGED <<lastPhysicalTime, lc, issued>>

(* A new process: the clock's state was never persisted. *)
ClockRestart ==
    /\ ~running
    /\ running' = TRUE
    /\ lastPhysicalTime' = 0
    /\ lc' = 0
    /\ issued' = <<>>

ClockNext ==
    \/ \E now \in WallTimes : Tick(now) \/ Panic(now)
    \/ ClockRestart

ClockSpec == ClockInit /\ [][ClockNext]_clockVars

-----------------------------------------------------------------------------
ClockTypeOK ==
    /\ lastPhysicalTime \in 0..PhysicalMask
    /\ lc \in 0..LogicalMask
    /\ running \in BOOLEAN
    /\ issued \in Seq(Nat)

(* What the bridge's stale check relies on (clock.go Tick): whatever the   *)
(* wall clock does, a process never issues a version twice and never       *)
(* issues one below an earlier one.                                        *)
VersionsIncrease ==
    \A i, j \in 1..Len(issued) : i < j => issued[i] < issued[j]

(* The strengthening that makes VersionsIncrease inductive: no version     *)
(* handed out exceeds what the clock's current state encodes.              *)
IssuedBelowClock ==
    \A i \in 1..Len(issued) : issued[i] <= Version(lastPhysicalTime, lc)

ClockInv == ClockTypeOK /\ VersionsIncrease /\ IssuedBelowClock
=============================================================================
