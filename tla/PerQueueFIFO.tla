--------------------------- MODULE PerQueueFIFO ----------------------------
(***************************************************************************)
(* What components/ws-manager/pkg/manager/internal/workpool promises, with *)
(* no journal, worker or channel: events arrive per queue, each queue      *)
(* hands its events to the handler one at a time, in order and exactly     *)
(* once.  Events of a queue are numbered in the order of their Add.        *)
(***************************************************************************)
EXTENDS Naturals, Sequences

CONSTANT Queues

VARIABLES
    added,      \* added[q]: the number of events added to q
    handled,    \* handled[q]: the events of q the handler was called with
    ended       \* ended[q]: how many of those calls have returned

absVars == <<added, handled, ended>>

Init ==
    /\ added = [q \in Queues |-> 0]
    /\ handled = [q \in Queues |-> <<>>]
    /\ ended = [q \in Queues |-> 0]

Enqueue(q) ==
    /\ added' = [added EXCEPT ![q] = @ + 1]
    /\ UNCHANGED <<handled, ended>>

Begin(q) ==
    /\ ended[q] = Len(handled[q])
    /\ Len(handled[q]) < added[q]
    /\ handled' = [handled EXCEPT ![q] = Append(@, Len(@) + 1)]
    /\ UNCHANGED <<added, ended>>

End(q) ==
    /\ ended[q] < Len(handled[q])
    /\ ended' = [ended EXCEPT ![q] = @ + 1]
    /\ UNCHANGED <<added, handled>>

Next == \E q \in Queues : Enqueue(q) \/ Begin(q) \/ End(q)

Spec == Init /\ [][Next]_absVars
=============================================================================
