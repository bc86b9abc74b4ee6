CONSTANTS
    e1 = e1
    e2 = e2
    w1 = w1
    w2 = w2
    NoWorker = NoWorker
    Events = {e1, e2}
    Workers = {w1, w2}
    MaxAttempts = 2
    MaxFaults = 2
    MaxAppends = 3
SPECIFICATION Spec
SYMMETRY Symmetry
INVARIANTS
    TypeOK
    AckedIsSettled
    RowsBackedByRedis
PROPERTIES
    PublishedLeavesTheQueue
    KeepsToChannel
