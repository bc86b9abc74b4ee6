CONSTANTS
    w1 = w1
    w2 = w2
    Workers = {w1, w2}
    Probed = 3
    MaxTip = 5
    Confirmations = 0
    ChunkSize = 2
    MaxPerPoll = 2
    MaxJobAttempts = 2
    MaxOutageAttempts = 3
    MaxJobs = 2
    MaxTroubles = 1
SPECIFICATION FairSpec
INVARIANTS
    TypeOK
    CoverageIsReal
    PlansAreExact
    CompletedWindowsAreRead
    LiveTailHasNoGap
PROPERTIES
    BackfillsEnd
    LiveTailCatchesUp
CHECK_DEADLOCK FALSE
