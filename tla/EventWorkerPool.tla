-------------------------- MODULE EventWorkerPool --------------------------
(***************************************************************************)
(* The worker pool through which ws-manager handles pod events             *)
(* (components/ws-manager/pkg/manager/internal/workpool/workpool.go).      *)
(*                                                                         *)
(* Callers of Add append to a shared journal and then block on the         *)
(* unbuffered channel `incoming`; a worker takes the first journal item    *)
(* whose queue is free, calls WorkOn, frees the queue, offers a token on   *)
(* `incoming` without blocking, and looks again; a worker that finds       *)
(* nothing waits on `stop` and `incoming`.  One step is one critical       *)
(* section of p.mu or one channel operation, so every interleaving of      *)
(* these is explored, including the window between a worker's unlock and   *)
(* its select.                                                             *)
(*                                                                         *)
(* An event is the pair of its queue and its number within the queue.      *)
(***************************************************************************)
EXTENDS Integers, Sequences

CONSTANTS
    Workers,    \* the goroutines Start() creates
    Adders,     \* the goroutines that call Add()
    Queues,     \* queue names: workspace ids
    Stuck,      \* queues whose WorkOn may never return
    MaxAdds,    \* bound: events added per queue
    WithStop    \* whether Stop() is called

ASSUME PoolAssumption ==
    /\ Stuck \subseteq Queues
    /\ MaxAdds \in Nat
    /\ WithStop \in BOOLEAN

VARIABLES
    journal,    \* p.journal, each item [queue, n]
    queueSet,   \* p.queueSet
    worker,     \* worker[w]: where goroutine w is
    item,       \* item[w]: the item w has claimed, NoItem if none
    adder,      \* adder[a]: "idle", or "sending" on p.incoming
    wg,         \* workers counted by p.wg
    stopper,    \* the caller of Stop: "running", "waiting" (stop is closed), "returned"
    added,      \* history: events added per queue
    handled,    \* history: handled[q], the events of q WorkOn was called with
    ended       \* history: WorkOn calls that returned, per queue

vars == <<journal, queueSet, worker, item, adder, wg, stopper, added, handled, ended>>
history == <<added, handled, ended>>

WorkerStates ==
    {"new",         \* before Start, or the goroutine has not reached wg.Add(1)
     "scan",        \* about to lock p.mu and look at the journal
     "working",     \* inside WorkOn
     "notify",      \* has freed its queue, about to offer a token
     "unlocked",    \* found nothing and released p.mu
     "waiting",     \* blocked in select on stop and incoming
     "done"}

Items == [queue : Queues, n : Nat]
NoItem == [queue |-> "none", n |-> 0]

\* Mutant of Without: the claimed item stays in the journal.
MutWithoutNothing(s, i) == s

(* append(p.journal[:i], p.journal[i+1:]...) *)
Without(s, i) == [k \in 1..(Len(s) - 1) |-> IF k < i THEN s[k] ELSE s[k + 1]]

\* Mutant of FirstFree: the journal is not searched from its start.
MutFirstFreeAny(i) == journal[i].queue \notin queueSet

\* Mutant of FirstFree: the queueSet is not consulted.
MutFirstFreeHead(i) == i = 1

(* Index i is the one the for loop over the journal stops at. *)
FirstFree(i) ==
    /\ journal[i].queue \notin queueSet
    /\ \A k \in 1..(i - 1) : journal[k].queue \in queueSet

-----------------------------------------------------------------------------
Init ==
    /\ journal = <<>>
    /\ queueSet = {}
    /\ worker = [w \in Workers |-> "new"]
    /\ item = [w \in Workers |-> NoItem]
    /\ adder = [a \in Adders |-> "idle"]
    /\ wg = 0
    /\ stopper = "running"
    /\ added = [q \in Queues |-> 0]
    /\ handled = [q \in Queues |-> <<>>]
    /\ ended = [q \in Queues |-> 0]

(* workUntilStopped: the goroutine counts itself, then starts looking. *)
BeginWorker(w) ==
    /\ worker[w] = "new"
    /\ worker' = [worker EXCEPT ![w] = "scan"]
    /\ wg' = wg + 1
    /\ UNCHANGED <<journal, queueSet, item, adder, stopper, history>>

(* Add, first half: append under p.mu.  The caller is then in the send. *)
Add(a, q) ==
    /\ adder[a] = "idle"
    /\ added[q] < MaxAdds
    /\ journal' = Append(journal, [queue |-> q, n |-> added[q] + 1])
    /\ added' = [added EXCEPT ![q] = @ + 1]
    /\ adder' = [adder EXCEPT ![a] = "sending"]
    /\ UNCHANGED <<queueSet, worker, item, wg, stopper, handled, ended>>

(* Add, second half, and the receiving branch of a worker's select. *)
Deliver(a, w) ==
    /\ adder[a] = "sending"
    /\ worker[w] = "waiting"
    /\ adder' = [adder EXCEPT ![a] = "idle"]
    /\ worker' = [worker EXCEPT ![w] = "scan"]
    /\ UNCHANGED <<journal, queueSet, item, wg, stopper, history>>

(* work: claim the queue, take the item off the journal, call WorkOn. *)
Claim(w, i) ==
    /\ worker[w] = "scan"
    /\ FirstFree(i)
    /\ LET it == journal[i]
       IN  /\ queueSet' = queueSet \cup {it.queue}
           /\ item' = [item EXCEPT ![w] = it]
           /\ handled' = [handled EXCEPT ![it.queue] = Append(@, it.n)]
    /\ journal' = Without(journal, i)
    /\ worker' = [worker EXCEPT ![w] = "working"]
    /\ UNCHANGED <<adder, wg, stopper, added, ended>>

\* Mutant of Finish: frees every queue instead of the worker's own.
MutFinishFreesAll(w) ==
    /\ worker[w] = "working"
    /\ queueSet' = {}
    /\ ended' = [ended EXCEPT ![item[w].queue] = @ + 1]
    /\ item' = [item EXCEPT ![w] = NoItem]
    /\ worker' = [worker EXCEPT ![w] = "notify"]
    /\ UNCHANGED <<journal, adder, wg, stopper, added, handled>>

(* WorkOn has returned: release the queue under p.mu. *)
Finish(w) ==
    /\ worker[w] = "working"
    /\ queueSet' = queueSet \ {item[w].queue}
    /\ ended' = [ended EXCEPT ![item[w].queue] = @ + 1]
    /\ item' = [item EXCEPT ![w] = NoItem]
    /\ worker' = [worker EXCEPT ![w] = "notify"]
    /\ UNCHANGED <<journal, adder, wg, stopper, added, handled>>

\* Mutant of Notify: the worker waits instead of looking again.
MutNotifyThenWait(w) ==
    /\ worker[w] = "notify"
    /\ IF \E v \in Workers : worker[v] = "waiting"
       THEN \E v \in Workers :
              /\ worker[v] = "waiting"
              /\ worker' = [worker EXCEPT ![w] = "unlocked", ![v] = "scan"]
       ELSE worker' = [worker EXCEPT ![w] = "unlocked"]
    /\ UNCHANGED <<journal, queueSet, item, adder, wg, stopper, history>>

\* Mutant of Notify: work reports true, so the worker ends after one item.
MutNotifyThenStop(w) ==
    /\ worker[w] = "notify"
    /\ worker' = [worker EXCEPT ![w] = "done"]
    /\ wg' = wg - 1
    /\ UNCHANGED <<journal, queueSet, item, adder, stopper, history>>

(* The non-blocking send: it wakes a worker blocked in select, if there is *)
(* one, and is dropped otherwise.  Either way the worker looks again.      *)
Notify(w) ==
    /\ worker[w] = "notify"
    /\ IF \E v \in Workers : worker[v] = "waiting"
       THEN \E v \in Workers :
              /\ worker[v] = "waiting"
              /\ worker' = [worker EXCEPT ![w] = "scan", ![v] = "scan"]
       ELSE worker' = [worker EXCEPT ![w] = "scan"]
    /\ UNCHANGED <<journal, queueSet, item, adder, wg, stopper, history>>

(* work: every item's queue is in use (or there is no item). *)
FindNothing(w) ==
    /\ worker[w] = "scan"
    /\ \A i \in 1..Len(journal) : ~FirstFree(i)
    /\ worker' = [worker EXCEPT ![w] = "unlocked"]
    /\ UNCHANGED <<journal, queueSet, item, adder, wg, stopper, history>>

EnterSelect(w) ==
    /\ worker[w] = "unlocked"
    /\ worker' = [worker EXCEPT ![w] = "waiting"]
    /\ UNCHANGED <<journal, queueSet, item, adder, wg, stopper, history>>

(* select's stop branch, and wg.Done() *)
StopWorker(w) ==
    /\ worker[w] = "waiting"
    /\ stopper # "running"
    /\ worker' = [worker EXCEPT ![w] = "done"]
    /\ wg' = wg - 1
    /\ UNCHANGED <<journal, queueSet, item, adder, stopper, history>>

(* Stop: close(p.stop), then p.wg.Wait() *)
CloseStop ==
    /\ WithStop
    /\ stopper = "running"
    /\ stopper' = "waiting"
    /\ UNCHANGED <<journal, queueSet, worker, item, adder, wg, history>>

StopReturns ==
    /\ stopper = "waiting"
    /\ wg = 0
    /\ stopper' = "returned"
    /\ UNCHANGED <<journal, queueSet, worker, item, adder, wg, history>>

WorkerStep(w) ==
    \/ BeginWorker(w)
    \/ \E i \in 1..Len(journal) : Claim(w, i)
    \/ Notify(w)
    \/ FindNothing(w)
    \/ EnterSelect(w)
    \/ StopWorker(w)

Next ==
    \/ \E w \in Workers : WorkerStep(w) \/ Finish(w)
    \/ \E a \in Adders, q \in Queues : Add(a, q)
    \/ \E a \in Adders, w \in Workers : Deliver(a, w)
    \/ CloseStop
    \/ StopReturns

Spec == Init /\ [][Next]_vars

(* The Go scheduler runs every goroutine that can run, and a send and a    *)
(* receive that are both ready meet.  WorkOn returns, except that on a     *)
(* Stuck queue it need not.                                                *)
Fairness ==
    /\ \A w \in Workers :
        /\ WF_vars(WorkerStep(w))
        /\ WF_vars(item[w].queue \notin Stuck /\ Finish(w))
    /\ WF_vars(\E a \in Adders, w \in Workers : Deliver(a, w))

FairSpec == Spec /\ Fairness

-----------------------------------------------------------------------------
TypeOK ==
    /\ journal \in Seq(Items)
    /\ queueSet \subseteq Queues
    /\ worker \in [Workers -> WorkerStates]
    /\ item \in [Workers -> Items \cup {NoItem}]
    /\ adder \in [Adders -> {"idle", "sending"}]
    /\ wg \in Int
    /\ stopper \in {"running", "waiting", "returned"}
    /\ added \in [Queues -> Nat]
    /\ handled \in [Queues -> Seq(Nat)]
    /\ ended \in [Queues -> Nat]

(* Guarantee 2, first half (workpool.go, "we skip any queue that we're     *)
(* already working on"): no two workers are in WorkOn for one queue.       *)
OneWorkerPerQueue ==
    \A v, w \in Workers :
        /\ v # w
        /\ worker[v] = "working"
        /\ worker[w] = "working"
        => item[v].queue # item[w].queue

(* Guarantees 1 and 2: WorkOn gets the events of a queue in the order of   *)
(* their Add, none twice and none left out.                                *)
HandledInOrder ==
    \A q \in Queues : \A k \in 1..Len(handled[q]) : handled[q][k] = k

(* queueSet is exactly the set of queues some worker is in WorkOn for, so  *)
(* an idle pool holds nothing (guarantee 4).                               *)
QueueSetExact ==
    /\ \A w \in Workers : worker[w] = "working" =>
            /\ item[w] \in Items
            /\ item[w].queue \in queueSet
            /\ ended[item[w].queue] + 1 = Len(handled[item[w].queue])
    /\ \A q \in queueSet :
            \E w \in Workers : worker[w] = "working" /\ item[w].queue = q
    /\ \A q \in Queues \ queueSet : ended[q] = Len(handled[q])

(* The journal holds, in order and once each, exactly the events that were *)
(* added and not yet handed to WorkOn.                                     *)
JournalExact ==
    /\ \A q \in Queues : Len(handled[q]) <= added[q]
    /\ \A i \in 1..Len(journal) :
            /\ journal[i].n > Len(handled[journal[i].queue])
            /\ journal[i].n <= added[journal[i].queue]
    /\ \A i, j \in 1..Len(journal) :
            i < j /\ journal[i].queue = journal[j].queue
            => journal[i].n < journal[j].n
    /\ \A q \in Queues : \A n \in (Len(handled[q]) + 1)..added[q] :
            \E i \in 1..Len(journal) :
                journal[i].queue = q /\ journal[i].n = n

PoolInv ==
    /\ TypeOK
    /\ OneWorkerPerQueue
    /\ HandledInOrder
    /\ QueueSetExact
    /\ JournalExact

(* The pool implements the per-queue FIFO its documentation describes.     *)
FIFO == INSTANCE PerQueueFIFO
ImplementsFIFO == FIFO!Spec

(* Guarantee 3 ("one queue does not block another"): as long as there are  *)
(* more workers than queues whose handler hangs, every event of every      *)
(* other queue is handled, unless the pool is stopped; no token is missed  *)
(* by a worker on its way to the select.                                   *)
EveryEventHandled ==
    \A q \in Queues \ Stuck : \A n \in 1..MaxAdds :
        added[q] = n ~> ended[q] >= n \/ stopper # "running"

(* A caller of Add (the pod reconciler) is not blocked forever: the        *)
(* unbuffered send meets a worker, although a worker offers its own token  *)
(* only if somebody happens to listen.                                     *)
AddReturns ==
    \A a \in Adders : adder[a] = "sending" ~> adder[a] = "idle" \/ stopper # "running"

-----------------------------------------------------------------------------
(* Statements of the repository's comments that the code does not keep:    *)
(* TLC refutes them, and README.md says how and where.                     *)

(* workpool.go, Stop: "This function waits for the workers to actually     *)
(* stop working."                                                          *)
StopWaitsForWorkers ==
    stopper = "returned" => \A w \in Workers : worker[w] # "working"
=============================================================================
