CONSTANTS
    w1 = w1
    w2 = w2
    r1 = r1
    r2 = r2
    Assets = {1}
    Workers = {w1, w2}
    Requests = {r1}
    MaxAttempts = 2
    BatchSize = 1
    MaxMishaps = 2
SPECIFICATION FairSpec
INVARIANTS
    TypeOK
    OneActiveJobPerAsset
    NoTwoAssessAtOnce
    AttemptsDecide
PROPERTIES
    NoJobPendsForever
    DueAssetsAreAssessed
    SettledJobsStaySettled
CHECK_DEADLOCK FALSE
