CONSTANTS
    w1 = w1
    w2 = w2
    Workers = {w1, w2}
    Probed = 3
    MaxTip = 6
    Confirmations = 1
    ChunkSize = 2
    MaxPerPoll = 2
    MaxJobAttempts = 2
    MaxOutageAttempts = 3
    MaxJobs = 2
    MaxTroubles = 2
SPECIFICATION Spec
INVARIANT
    CompletedMeansScanned
CHECK_DEADLOCK FALSE
