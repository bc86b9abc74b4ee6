CONSTANTS
    Nothing = Nothing
    Permits <- MCPermits
    cleared = cleared
    open = open
    unknown = unknown
    a1 = a1
    a2 = a2
    p1 = p1
    p2 = p2
    p3 = p3
    e1 = e1
    e2 = e2
    Actions = {a1, a2}
    Passes = {p1, p2}
    Edits = {e1, e2}
    Facts = {cleared, unknown}
    Identified = {cleared}
    Amount = 1
    Cap = 1
    MaxDay = 2
    MaxVersion = 3
    MaxChanges = 1
SPECIFICATION Spec
SYMMETRY Symmetry
\* passes and edits are one-shot: every instance runs out of them
CHECK_DEADLOCK FALSE
INVARIANTS
    TypeOK
    GateRestsOnAVerdict
    HistoryMatchesPolicy
    ReportedVerdictExists
    EachAllowFits
    DecidedAgainOnlyBlind
