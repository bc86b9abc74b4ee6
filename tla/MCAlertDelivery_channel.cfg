CONSTANTS
    e1 = e1
    e2 = e2
    w1 = w1
    w2 = w2
    NoWorker = NoWorker
    Events = {e1}
    Workers = {w1, w2}
    MaxAttempts = 2
    MaxFaults = 2
    MaxAppends = 4
SPECIFICATION FairSpec
PROPERTIES
    ImplementsChannel
