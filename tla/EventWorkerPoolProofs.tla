----------------------- MODULE EventWorkerPoolProofs -----------------------
(***************************************************************************)
(* For any number of workers, callers and queues: no queue has two         *)
(* workers, WorkOn sees each queue's events exactly once and in order, and *)
(* every step of the pool is a step of PerQueueFIFO.                       *)
(***************************************************************************)
EXTENDS EventWorkerPool, SequenceTheorems, TLAPS

(* Taking element i out of a sequence keeps the others and their order     *)
(* (workpool.go: append(p.journal[:i], p.journal[i+1:]...)).               *)
LEMMA WithoutProperties ==
    ASSUME NEW S, NEW s \in Seq(S), NEW i \in 1..Len(s)
    PROVE  /\ Without(s, i) \in Seq(S)
           /\ Len(Without(s, i)) = Len(s) - 1
           /\ \A k \in 1..(Len(s) - 1) :
                Without(s, i)[k] = IF k < i THEN s[k] ELSE s[k + 1]
<1>. DEFINE t == Without(s, i)
<1>1. Len(s) \in Nat /\ Len(s) - 1 \in Nat /\ \A k \in 1..Len(s) : s[k] \in S
  BY LenProperties, ElementOfSeq
<1>2. t \in [1..(Len(s) - 1) -> S]
  BY <1>1 DEF Without
<1>3. t \in Seq(S)
  BY <1>1, <1>2, SeqDef
<1>4. Len(t) = Len(s) - 1
  <2>1. DOMAIN t = 1..Len(t) /\ Len(t) \in Nat
    BY <1>3, LenProperties
  <2>2. DOMAIN t = 1..(Len(s) - 1)
    BY <1>2
  <2>. HIDE DEF t
  <2>. QED
    BY <1>1, <2>1, <2>2
<1>5. \A k \in 1..(Len(s) - 1) : t[k] = IF k < i THEN s[k] ELSE s[k + 1]
  BY DEF Without
<1>. QED
  BY <1>3, <1>4, <1>5

LEMMA InitPoolInv == Init => PoolInv
<1>. SUFFICES ASSUME Init PROVE PoolInv
  OBVIOUS
<1>1. TypeOK
  BY DEF Init, TypeOK, WorkerStates
<1>2. OneWorkerPerQueue /\ HandledInOrder /\ QueueSetExact /\ JournalExact
  BY DEF Init, OneWorkerPerQueue, HandledInOrder, QueueSetExact, JournalExact
<1>. QED
  BY <1>1, <1>2 DEF PoolInv

-----------------------------------------------------------------------------
(* Steps that neither touch the journal nor enter or leave WorkOn. *)
LEMMA QuietStep ==
    ASSUME PoolInv, TypeOK',
           UNCHANGED <<journal, queueSet, item, history>>,
           \A w \in Workers : worker'[w] = "working" <=> worker[w] = "working"
    PROVE  PoolInv'
<1>1. OneWorkerPerQueue'
  BY DEF PoolInv, OneWorkerPerQueue
<1>2. HandledInOrder'
  BY DEF PoolInv, HandledInOrder, history
<1>3. QueueSetExact'
  BY DEF PoolInv, QueueSetExact, history
<1>4. JournalExact'
  BY DEF PoolInv, JournalExact, history
<1>. QED
  BY <1>1, <1>2, <1>3, <1>4 DEF PoolInv

LEMMA BeginWorkerPreserves ==
    ASSUME PoolInv, NEW w \in Workers, BeginWorker(w)
    PROVE  PoolInv'
<1>1. TypeOK' /\ \A v \in Workers : worker'[v] = "working" <=> worker[v] = "working"
  BY DEF PoolInv, TypeOK, BeginWorker, WorkerStates, history
<1>. QED
  BY <1>1, QuietStep DEF BeginWorker

LEMMA DeliverPreserves ==
    ASSUME PoolInv, NEW a \in Adders, NEW w \in Workers, Deliver(a, w)
    PROVE  PoolInv'
<1>1. TypeOK' /\ \A v \in Workers : worker'[v] = "working" <=> worker[v] = "working"
  BY DEF PoolInv, TypeOK, Deliver, WorkerStates, history
<1>. QED
  BY <1>1, QuietStep DEF Deliver

LEMMA NotifyPreserves ==
    ASSUME PoolInv, NEW w \in Workers, Notify(w)
    PROVE  PoolInv'
<1>1. TypeOK' /\ \A v \in Workers : worker'[v] = "working" <=> worker[v] = "working"
  BY DEF PoolInv, TypeOK, Notify, WorkerStates, history
<1>. QED
  BY <1>1, QuietStep DEF Notify

LEMMA FindNothingPreserves ==
    ASSUME PoolInv, NEW w \in Workers, FindNothing(w)
    PROVE  PoolInv'
<1>1. TypeOK' /\ \A v \in Workers : worker'[v] = "working" <=> worker[v] = "working"
  BY DEF PoolInv, TypeOK, FindNothing, WorkerStates, history
<1>. QED
  BY <1>1, QuietStep DEF FindNothing

LEMMA EnterSelectPreserves ==
    ASSUME PoolInv, NEW w \in Workers, EnterSelect(w)
    PROVE  PoolInv'
<1>1. TypeOK' /\ \A v \in Workers : worker'[v] = "working" <=> worker[v] = "working"
  BY DEF PoolInv, TypeOK, EnterSelect, WorkerStates, history
<1>. QED
  BY <1>1, QuietStep DEF EnterSelect

LEMMA StopWorkerPreserves ==
    ASSUME PoolInv, NEW w \in Workers, StopWorker(w)
    PROVE  PoolInv'
<1>1. TypeOK' /\ \A v \in Workers : worker'[v] = "working" <=> worker[v] = "working"
  BY DEF PoolInv, TypeOK, StopWorker, WorkerStates, history
<1>. QED
  BY <1>1, QuietStep DEF StopWorker

LEMMA StopPreserves ==
    ASSUME PoolInv, CloseStop \/ StopReturns
    PROVE  PoolInv'
<1>1. TypeOK' /\ \A v \in Workers : worker'[v] = "working" <=> worker[v] = "working"
  BY DEF PoolInv, TypeOK, CloseStop, StopReturns, history
<1>. QED
  BY <1>1, QuietStep DEF CloseStop, StopReturns

-----------------------------------------------------------------------------
(* Add puts the newest event of q at the end of the journal. *)
LEMMA AddPreserves ==
    ASSUME PoolInv, NEW a \in Adders, NEW q \in Queues, Add(a, q)
    PROVE  PoolInv'
<1>. DEFINE it == [queue |-> q, n |-> added[q] + 1]
<1>1. TypeOK
  BY DEF PoolInv
<1>2. it \in Items
  BY <1>1 DEF TypeOK, Items
<1>3. TypeOK'
  BY <1>1, <1>2 DEF TypeOK, Add
<1>4. /\ Len(journal) \in Nat
      /\ Len(journal') = Len(journal) + 1
      /\ \A i \in 1..Len(journal) : journal'[i] = journal[i] /\ journal[i] \in Items
      /\ journal'[Len(journal) + 1] = it
  BY <1>1, <1>2 DEF TypeOK, Add
<1>5. /\ handled' = handled
      /\ \A r \in Queues : /\ added[r] \in Nat
                           /\ Len(handled[r]) \in Nat
                           /\ added'[r] = IF r = q THEN added[r] + 1 ELSE added[r]
  BY <1>1 DEF TypeOK, Add
<1>6. OneWorkerPerQueue' /\ HandledInOrder' /\ QueueSetExact'
  BY DEF PoolInv, OneWorkerPerQueue, HandledInOrder, QueueSetExact, Add
<1>7. JournalExact'
  <2>1. \A r \in Queues : Len(handled'[r]) <= added'[r]
    BY <1>5 DEF PoolInv, JournalExact
  <2>2. \A i \in 1..Len(journal') :
            /\ journal'[i].n > Len(handled'[journal'[i].queue])
            /\ journal'[i].n <= added'[journal'[i].queue]
    <3>. SUFFICES ASSUME NEW i \in 1..Len(journal')
                 PROVE  /\ journal'[i].n > Len(handled'[journal'[i].queue])
                        /\ journal'[i].n <= added'[journal'[i].queue]
      OBVIOUS
    <3>1. CASE i \in 1..Len(journal)
      <4>1. journal[i].queue \in Queues /\ journal[i].n \in Nat
        BY <1>4, <3>1 DEF Items
      <4>2. /\ journal[i].n > Len(handled[journal[i].queue])
            /\ journal[i].n <= added[journal[i].queue]
        BY <3>1 DEF PoolInv, JournalExact
      <4>. QED
        BY <1>4, <1>5, <3>1, <4>1, <4>2
    <3>2. CASE i = Len(journal) + 1
      <4>1. journal'[i].queue = q /\ journal'[i].n = added[q] + 1
        BY <1>4, <3>2
      <4>. QED
        BY <1>5, <2>1, <4>1 DEF PoolInv, JournalExact
    <3>. QED
      BY <1>4, <3>1, <3>2
  <2>3. \A i, j \in 1..Len(journal') :
            i < j /\ journal'[i].queue = journal'[j].queue
            => journal'[i].n < journal'[j].n
    <3>. SUFFICES ASSUME NEW i \in 1..Len(journal'), NEW j \in 1..Len(journal'),
                        i < j, journal'[i].queue = journal'[j].queue
                 PROVE  journal'[i].n < journal'[j].n
      OBVIOUS
    <3>1. i \in 1..Len(journal)
      BY <1>4
    <3>2. CASE j \in 1..Len(journal)
      BY <1>4, <3>1, <3>2 DEF PoolInv, JournalExact
    <3>3. CASE j = Len(journal) + 1
      <4>1. journal[i].queue = q /\ journal'[j].n = added[q] + 1
        BY <1>4, <3>1, <3>3
      <4>2. journal[i].n \in Nat /\ journal[i].n <= added[q]
        BY <1>4, <3>1, <4>1 DEF PoolInv, JournalExact, Items
      <4>. QED
        BY <1>4, <1>5, <3>1, <4>1, <4>2
    <3>. QED
      BY <1>4, <3>2, <3>3
  <2>4. ASSUME NEW r \in Queues, NEW n \in (Len(handled'[r]) + 1)..added'[r]
        PROVE  \E i \in 1..Len(journal') : journal'[i].queue = r /\ journal'[i].n = n
    <3>1. CASE n <= added[r]
      <4>1. PICK i \in 1..Len(journal) : journal[i].queue = r /\ journal[i].n = n
        BY <1>5, <2>4, <3>1 DEF PoolInv, JournalExact
      <4>. QED
        BY <1>4, <4>1
    <3>2. CASE n > added[r]
      <4>1. r = q /\ n = added[q] + 1
        BY <1>5, <2>4, <3>2
      <4>. QED
        BY <1>4, <4>1
    <3>. QED
      BY <1>5, <2>4, <3>1, <3>2
  <2>. QED
    BY <2>1, <2>2, <2>3, <2>4 DEF JournalExact
<1>. QED
  BY <1>3, <1>6, <1>7 DEF PoolInv

(* The item a worker finds first for its queue is that queue's oldest. *)
LEMMA FirstFreeIsOldest ==
    ASSUME PoolInv, NEW i \in 1..Len(journal), FirstFree(i)
    PROVE  journal[i].n = Len(handled[journal[i].queue]) + 1
<1>. DEFINE q == journal[i].queue
            m == Len(handled[q]) + 1
<1>1. /\ Len(journal) \in Nat
      /\ \A k \in 1..Len(journal) : journal[k] \in Items
      /\ q \in Queues /\ added[q] \in Nat /\ Len(handled[q]) \in Nat
  <2>1. TypeOK
    BY DEF PoolInv
  <2>2. Len(journal) \in Nat /\ \A k \in 1..Len(journal) : journal[k] \in Items
    BY <2>1, LenProperties, ElementOfSeq DEF TypeOK
  <2>3. q \in Queues
    BY <2>2 DEF Items
  <2>. QED
    BY <2>1, <2>2, <2>3 DEF TypeOK
<1>2. journal[i].n >= m /\ journal[i].n <= added[q]
  BY <1>1 DEF PoolInv, JournalExact, Items
<1>3. m \in (Len(handled[q]) + 1)..added[q]
  BY <1>1, <1>2 DEF Items
<1>4. PICK k \in 1..Len(journal) : journal[k].queue = q /\ journal[k].n = m
  BY <1>1, <1>3 DEF PoolInv, JournalExact
<1>5. ~(k < i)
  BY <1>4 DEF FirstFree
<1>6. i < k => journal[i].n < journal[k].n
  BY <1>4 DEF PoolInv, JournalExact
<1>. QED
  BY <1>1, <1>2, <1>4, <1>5, <1>6 DEF Items

LEMMA ClaimPreserves ==
    ASSUME PoolInv, NEW w \in Workers, NEW i \in 1..Len(journal), Claim(w, i)
    PROVE  PoolInv'
<1>. DEFINE it == journal[i]
            q == it.queue
<1>1. TypeOK
  BY DEF PoolInv
<1>2. it \in Items /\ q \in Queues /\ it.n \in Nat
  <2>1. it \in Items
    BY <1>1, ElementOfSeq DEF TypeOK
  <2>. QED
    BY <2>1 DEF Items
<1>3. FirstFree(i) /\ q \notin queueSet
  BY DEF Claim, FirstFree
<1>4. it.n = Len(handled[q]) + 1
  BY <1>3, FirstFreeIsOldest
<1>5. /\ journal' \in Seq(Items)
      /\ Len(journal) \in Nat
      /\ Len(journal') = Len(journal) - 1
      /\ \A k \in 1..(Len(journal) - 1) :
            journal'[k] = IF k < i THEN journal[k] ELSE journal[k + 1]
  <2>1. journal \in Seq(Items) /\ journal' = Without(journal, i)
    BY <1>1 DEF TypeOK, Claim
  <2>2. Len(journal) \in Nat
    BY <2>1, LenProperties
  <2>3. /\ Without(journal, i) \in Seq(Items)
        /\ Len(Without(journal, i)) = Len(journal) - 1
        /\ \A k \in 1..(Len(journal) - 1) :
              Without(journal, i)[k] = IF k < i THEN journal[k] ELSE journal[k + 1]
    BY <2>1, WithoutProperties
  <2>. QED
    BY <2>1, <2>2, <2>3
<1>6. /\ handled' = [handled EXCEPT ![q] = Append(@, it.n)]
      /\ queueSet' = queueSet \cup {q}
      /\ item' = [item EXCEPT ![w] = it]
      /\ worker' = [worker EXCEPT ![w] = "working"]
      /\ worker[w] = "scan"
      /\ UNCHANGED <<adder, wg, stopper, added, ended>>
  BY DEF Claim
<1>. HIDE DEF it, q
<1>7. TypeOK'
  BY <1>1, <1>2, <1>5, <1>6 DEF TypeOK, WorkerStates
<1>8. /\ \A r \in Queues : Len(handled[r]) \in Nat /\ added[r] \in Nat /\ ended[r] \in Nat
      /\ \A r \in Queues : r # q => handled'[r] = handled[r]
      /\ Len(handled'[q]) = Len(handled[q]) + 1
      /\ \A k \in 1..Len(handled[q]) : handled'[q][k] = handled[q][k]
      /\ handled'[q][Len(handled[q]) + 1] = it.n
  BY <1>1, <1>2, <1>6 DEF TypeOK
<1>9. \A v \in Workers : v # w =>
        item'[v] = item[v] /\ worker'[v] = worker[v]
  BY <1>1, <1>6 DEF TypeOK
<1>10. item'[w] = it /\ worker'[w] = "working"
  BY <1>1, <1>6 DEF TypeOK
<1>11. \A v \in Workers : worker[v] = "working" => item[v].queue # q
  BY <1>3 DEF PoolInv, QueueSetExact, it, q
<1>12. OneWorkerPerQueue'
  BY <1>9, <1>10, <1>11 DEF PoolInv, OneWorkerPerQueue, q
<1>13. HandledInOrder'
  <2>. SUFFICES ASSUME NEW r \in Queues, NEW k \in 1..Len(handled'[r])
               PROVE  handled'[r][k] = k
    BY DEF HandledInOrder
  <2>1. CASE r # q
    BY <1>8, <2>1 DEF PoolInv, HandledInOrder
  <2>2. CASE r = q
    BY <1>2, <1>4, <1>8, <2>2 DEF PoolInv, HandledInOrder
  <2>. QED
    BY <2>1, <2>2
<1>14. QueueSetExact'
  <2>1. ASSUME NEW v \in Workers, worker'[v] = "working"
        PROVE  /\ item'[v] \in Items
               /\ item'[v].queue \in queueSet'
               /\ ended'[item'[v].queue] + 1 = Len(handled'[item'[v].queue])
    <3>1. CASE v = w
      <4>1. ended[q] = Len(handled[q])
        BY <1>2, <1>3 DEF PoolInv, QueueSetExact
      <4>. QED
        BY <1>2, <1>6, <1>8, <1>10, <3>1, <4>1 DEF q
    <3>2. CASE v # w
      <4>1. /\ item[v] \in Items
            /\ item[v].queue \in queueSet
            /\ ended[item[v].queue] + 1 = Len(handled[item[v].queue])
        BY <1>9, <2>1, <3>2 DEF PoolInv, QueueSetExact
      <4>2. item[v].queue \in Queues /\ item[v].queue # q
        BY <1>9, <1>11, <2>1, <3>2, <4>1 DEF Items
      <4>. QED
        BY <1>6, <1>8, <1>9, <3>2, <4>1, <4>2
    <3>. QED
      BY <3>1, <3>2
  <2>2. ASSUME NEW r \in queueSet'
        PROVE  \E v \in Workers : worker'[v] = "working" /\ item'[v].queue = r
    <3>1. CASE r = q
      BY <1>10, <3>1 DEF q
    <3>2. CASE r # q
      <4>1. PICK v \in Workers : worker[v] = "working" /\ item[v].queue = r
        BY <1>6, <2>2, <3>2 DEF PoolInv, QueueSetExact
      <4>2. v # w
        BY <1>6, <4>1
      <4>. QED
        BY <1>9, <4>1, <4>2
    <3>. QED
      BY <3>1, <3>2
  <2>3. \A r \in Queues \ queueSet' : ended'[r] = Len(handled'[r])
    BY <1>6, <1>8 DEF PoolInv, QueueSetExact
  <2>. QED
    BY <2>1, <2>2, <2>3 DEF QueueSetExact
<1>15. JournalExact'
  <2>1. \A k \in 1..Len(journal) : journal[k] \in Items
    BY <1>1 DEF TypeOK
  <2>2. \A k \in 1..Len(journal) : k # i /\ journal[k].queue = q => journal[k].n > it.n
    <3>. SUFFICES ASSUME NEW k \in 1..Len(journal), k # i, journal[k].queue = q
                 PROVE  journal[k].n > it.n
      OBVIOUS
    <3>1. ~(k < i)
      BY <1>3 DEF FirstFree, q, it
    <3>2. i < k
      BY <1>5, <3>1
    <3>. QED
      BY <1>2, <2>1, <3>2 DEF PoolInv, JournalExact, q, it, Items
  <2>3. \A r \in Queues : Len(handled'[r]) <= added'[r]
    <3>1. it.n <= added[q]
      BY DEF PoolInv, JournalExact, it, q
    <3>. QED
      BY <1>4, <1>6, <1>8, <3>1 DEF PoolInv, JournalExact
  <2>4. ASSUME NEW k \in 1..Len(journal')
        PROVE  \E l \in 1..Len(journal) :
                  l # i /\ journal'[k] = journal[l] /\ l = (IF k < i THEN k ELSE k + 1)
    BY <1>5, <2>4
  <2>5. ASSUME NEW k \in 1..Len(journal')
        PROVE  /\ journal'[k].n > Len(handled'[journal'[k].queue])
               /\ journal'[k].n <= added'[journal'[k].queue]
    <3>1. PICK l \in 1..Len(journal) : l # i /\ journal'[k] = journal[l]
      BY <2>4, <2>5
    <3>2. journal[l].n > Len(handled[journal[l].queue]) /\ journal[l].n <= added[journal[l].queue]
      BY DEF PoolInv, JournalExact
    <3>3. journal[l].queue \in Queues /\ journal[l].n \in Nat
      BY <2>1 DEF Items
    <3>. QED
      BY <1>2, <1>4, <1>6, <1>8, <2>2, <3>1, <3>2, <3>3
  <2>6. ASSUME NEW k \in 1..Len(journal'), NEW l \in 1..Len(journal'),
               k < l, journal'[k].queue = journal'[l].queue
        PROVE  journal'[k].n < journal'[l].n
    <3>1. PICK k0 \in 1..Len(journal) :
             journal'[k] = journal[k0] /\ k0 = (IF k < i THEN k ELSE k + 1)
      BY <2>4
    <3>2. PICK l0 \in 1..Len(journal) :
             journal'[l] = journal[l0] /\ l0 = (IF l < i THEN l ELSE l + 1)
      BY <2>4
    <3>3. k0 < l0
      BY <1>5, <2>6, <3>1, <3>2
    <3>. QED
      BY <2>6, <3>1, <3>2, <3>3 DEF PoolInv, JournalExact
  <2>7. ASSUME NEW r \in Queues, NEW n \in (Len(handled'[r]) + 1)..added'[r]
        PROVE  \E k \in 1..Len(journal') : journal'[k].queue = r /\ journal'[k].n = n
    <3>1. n \in (Len(handled[r]) + 1)..added[r] /\ (r = q => n # it.n)
      BY <1>2, <1>4, <1>6, <1>8, <2>7
    <3>2. PICK l \in 1..Len(journal) : journal[l].queue = r /\ journal[l].n = n
      BY <3>1 DEF PoolInv, JournalExact
    <3>3. l # i
      BY <3>1, <3>2 DEF it, q
    <3>4. CASE l < i
      BY <1>5, <3>2, <3>4
    <3>5. CASE l > i
      <4>1. l - 1 \in 1..Len(journal') /\ ~(l - 1 < i) /\ (l - 1) + 1 = l
        BY <1>5, <3>5
      <4>2. journal'[l - 1] = journal[l]
        BY <1>5, <4>1
      <4>. QED
        BY <3>2, <4>1, <4>2
    <3>. QED
      BY <3>3, <3>4, <3>5
  <2>. QED
    BY <2>3, <2>5, <2>6, <2>7 DEF JournalExact
<1>. QED
  BY <1>7, <1>12, <1>13, <1>14, <1>15 DEF PoolInv

(* A worker that returns from WorkOn frees its own queue and no other. *)
LEMMA FinishPreserves ==
    ASSUME PoolInv, NEW w \in Workers, Finish(w)
    PROVE  PoolInv'
<1>. DEFINE q == item[w].queue
<1>1. TypeOK
  BY DEF PoolInv
<1>2. /\ worker[w] = "working"
      /\ item[w] \in Items
      /\ q \in queueSet
      /\ ended[q] + 1 = Len(handled[q])
  BY DEF PoolInv, QueueSetExact, Finish
<1>3. q \in Queues
  BY <1>2 DEF Items
<1>4. /\ queueSet' = queueSet \ {q}
      /\ ended' = [ended EXCEPT ![q] = @ + 1]
      /\ item' = [item EXCEPT ![w] = NoItem]
      /\ worker' = [worker EXCEPT ![w] = "notify"]
      /\ UNCHANGED <<journal, adder, wg, stopper, added, handled>>
  BY DEF Finish
<1>5. \A v \in Workers : v # w /\ worker[v] = "working" => item[v].queue # q
  BY <1>2 DEF PoolInv, OneWorkerPerQueue
<1>. HIDE DEF q
<1>6. TypeOK'
  BY <1>1, <1>3, <1>4 DEF TypeOK, WorkerStates
<1>7. /\ \A v \in Workers : v # w => item'[v] = item[v] /\ worker'[v] = worker[v]
      /\ worker'[w] = "notify"
      /\ ended'[q] = Len(handled[q])
      /\ \A r \in Queues : r # q => ended'[r] = ended[r]
  BY <1>1, <1>2, <1>3, <1>4 DEF TypeOK
<1>8. OneWorkerPerQueue'
  BY <1>7 DEF PoolInv, OneWorkerPerQueue
<1>9. HandledInOrder' /\ JournalExact'
  BY <1>4 DEF PoolInv, HandledInOrder, JournalExact
<1>10. QueueSetExact'
  <2>1. ASSUME NEW v \in Workers, worker'[v] = "working"
        PROVE  /\ item'[v] \in Items
               /\ item'[v].queue \in queueSet'
               /\ ended'[item'[v].queue] + 1 = Len(handled'[item'[v].queue])
    <3>1. v # w /\ worker[v] = "working" /\ item'[v] = item[v]
      BY <1>7, <2>1
    <3>2. /\ item[v] \in Items
          /\ item[v].queue \in queueSet
          /\ ended[item[v].queue] + 1 = Len(handled[item[v].queue])
      BY <3>1 DEF PoolInv, QueueSetExact
    <3>3. item[v].queue \in Queues /\ item[v].queue # q
      BY <1>5, <3>1, <3>2 DEF Items
    <3>. QED
      BY <1>4, <1>7, <3>1, <3>2, <3>3
  <2>2. ASSUME NEW r \in queueSet'
        PROVE  \E v \in Workers : worker'[v] = "working" /\ item'[v].queue = r
    <3>1. r # q /\ r \in queueSet
      BY <1>4, <2>2
    <3>2. PICK v \in Workers : worker[v] = "working" /\ item[v].queue = r
      BY <3>1 DEF PoolInv, QueueSetExact
    <3>3. v # w
      BY <3>1, <3>2 DEF q
    <3>. QED
      BY <1>7, <3>2, <3>3
  <2>3. \A r \in Queues \ queueSet' : ended'[r] = Len(handled'[r])
    BY <1>4, <1>7 DEF PoolInv, QueueSetExact
  <2>. QED
    BY <2>1, <2>2, <2>3 DEF QueueSetExact
<1>. QED
  BY <1>6, <1>8, <1>9, <1>10 DEF PoolInv

LEMMA NextPoolInv == PoolInv /\ [Next]_vars => PoolInv'
<1>. SUFFICES ASSUME PoolInv, [Next]_vars PROVE PoolInv'
  OBVIOUS
<1>1. ASSUME NEW w \in Workers, WorkerStep(w) PROVE PoolInv'
  BY <1>1, BeginWorkerPreserves, ClaimPreserves, NotifyPreserves,
     FindNothingPreserves, EnterSelectPreserves, StopWorkerPreserves
     DEF WorkerStep
<1>2. ASSUME NEW w \in Workers, Finish(w) PROVE PoolInv'
  BY <1>2, FinishPreserves
<1>3. ASSUME NEW a \in Adders, NEW q \in Queues, Add(a, q) PROVE PoolInv'
  BY <1>3, AddPreserves
<1>4. ASSUME NEW a \in Adders, NEW w \in Workers, Deliver(a, w) PROVE PoolInv'
  BY <1>4, DeliverPreserves
<1>5. CASE CloseStop \/ StopReturns
  BY <1>5, StopPreserves
<1>6. CASE UNCHANGED vars
  <2>1. TypeOK'
    BY <1>6 DEF vars, PoolInv, TypeOK
  <2>. QED
    BY <1>6, <2>1, QuietStep DEF vars, history
<1>. QED
  BY <1>1, <1>2, <1>3, <1>4, <1>5, <1>6 DEF Next

(* The inductive invariant: the journal and queueSet always account for    *)
(* every event that was added (workpool.go, Add and work).                 *)
THEOREM PoolInvariant == Spec => []PoolInv
BY InitPoolInv, NextPoolInv, PTL DEF Spec

(* No two workers are ever in WorkOn for the same queue (workpool.go, the  *)
(* queueSet check in work).                                                *)
THEOREM PoolMutualExclusion == Spec => []OneWorkerPerQueue
<1>1. PoolInv => OneWorkerPerQueue
  BY DEF PoolInv
<1>. QED
  BY <1>1, PoolInvariant, PTL

(* WorkOn sees the events of a queue exactly once and in the order of Add  *)
(* (guarantees 1 and 2 of workpool.go).                                    *)
THEOREM PoolOrder == Spec => []HandledInOrder
<1>1. PoolInv => HandledInOrder
  BY DEF PoolInv
<1>. QED
  BY <1>1, PoolInvariant, PTL

-----------------------------------------------------------------------------
(* Every pool step is a PerQueueFIFO step or changes nothing it can see. *)
LEMMA StepSimulation == PoolInv /\ [Next]_vars => [FIFO!Next]_(FIFO!absVars)
<1>. SUFFICES ASSUME PoolInv, [Next]_vars PROVE [FIFO!Next]_(FIFO!absVars)
  OBVIOUS
<1>1. TypeOK
  BY DEF PoolInv
<1>2. ASSUME NEW w \in Workers, NEW i \in 1..Len(journal), Claim(w, i)
      PROVE  FIFO!Next
  <2>. DEFINE q == journal[i].queue
  <2>1. journal[i] \in Items
    BY <1>1, ElementOfSeq DEF TypeOK
  <2>2. q \in Queues /\ q \notin queueSet /\ FirstFree(i)
    BY <1>2, <2>1 DEF Items, Claim, FirstFree
  <2>3. journal[i].n = Len(handled[q]) + 1
    BY <2>2, FirstFreeIsOldest
  <2>4. ended[q] = Len(handled[q])
    BY <2>2 DEF PoolInv, QueueSetExact
  <2>5. Len(handled[q]) < added[q]
    <3>1. journal[i].n <= added[q]
      BY DEF PoolInv, JournalExact
    <3>. QED
      BY <1>1, <2>2, <2>3, <3>1 DEF TypeOK
  <2>6. /\ handled' = [handled EXCEPT ![q] = Append(@, journal[i].n)]
        /\ UNCHANGED <<added, ended>>
    BY <1>2 DEF Claim
  <2>7. handled' = [handled EXCEPT ![q] = Append(@, Len(@) + 1)]
    BY <2>3, <2>6
  <2>8. FIFO!Begin(q)
    BY <2>4, <2>5, <2>6, <2>7 DEF FIFO!Begin
  <2>. QED
    BY <2>2, <2>8 DEF FIFO!Next
<1>3. ASSUME NEW w \in Workers, Finish(w) PROVE FIFO!Next
  <2>. DEFINE q == item[w].queue
  <2>1. item[w] \in Items /\ ended[q] + 1 = Len(handled[q])
    BY <1>3 DEF PoolInv, QueueSetExact, Finish
  <2>2. q \in Queues
    BY <2>1 DEF Items
  <2>3. ended[q] < Len(handled[q])
    BY <1>1, <2>1, <2>2 DEF TypeOK
  <2>4. FIFO!End(q)
    BY <1>3, <2>3 DEF FIFO!End, Finish
  <2>. QED
    BY <2>2, <2>4 DEF FIFO!Next
<1>4. ASSUME NEW a \in Adders, NEW q \in Queues, Add(a, q) PROVE FIFO!Next
  BY <1>4 DEF Add, FIFO!Next, FIFO!Enqueue
<1>5. ASSUME NEW w \in Workers, WorkerStep(w), ~(\E i \in 1..Len(journal) : Claim(w, i))
      PROVE  UNCHANGED FIFO!absVars
  BY <1>5 DEF WorkerStep, BeginWorker, Notify, FindNothing, EnterSelect,
              StopWorker, history, FIFO!absVars
<1>6. ASSUME NEW a \in Adders, NEW w \in Workers, Deliver(a, w)
      PROVE  UNCHANGED FIFO!absVars
  BY <1>6 DEF Deliver, history, FIFO!absVars
<1>7. ASSUME CloseStop \/ StopReturns \/ UNCHANGED vars
      PROVE  UNCHANGED FIFO!absVars
  BY <1>7 DEF CloseStop, StopReturns, vars, history, FIFO!absVars
<1>. QED
  BY <1>2, <1>3, <1>4, <1>5, <1>6, <1>7 DEF Next

(* The pool implements PerQueueFIFO: what workpool.go documents as         *)
(* guarantees 1 and 2, for any number of workers, callers and queues.      *)
THEOREM PoolImplementsFIFO == Spec => ImplementsFIFO
<1>1. Init => FIFO!Init
  BY DEF Init, FIFO!Init
<1>. QED
  BY <1>1, PoolInvariant, StepSimulation, PTL DEF Spec, ImplementsFIFO, FIFO!Spec
=============================================================================
