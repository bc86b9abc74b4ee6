CONSTANTS
    w1 = w1
    w2 = w2
    r1 = r1
    r2 = r2
    Assets = {1, 2}
    Workers = {w1}
    Requests = {r1}
    MaxAttempts = 2
    BatchSize = 2
    MaxMishaps = 3
SPECIFICATION Spec
INVARIANTS
    BoundedAttempts
CHECK_DEADLOCK FALSE
