SPECIFICATION FairSpec
CONSTANTS
    Workers = {w1, w2, w3}
    Adders = {a1, a2}
    Queues = {q1, q2}
    Stuck = {q1}
    MaxAdds = 2
    WithStop = TRUE
INVARIANT PoolInv
INVARIANT OneWorkerPerQueue
INVARIANT HandledInOrder
PROPERTY ImplementsFIFO
PROPERTY EveryEventHandled
PROPERTY AddReturns
CHECK_DEADLOCK FALSE
