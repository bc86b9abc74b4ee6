CONSTANTS
    Nothing = Nothing
    Permits <- MCPermits
    cleared = cleared
    open = open
    unknown = unknown
    a1 = a1
    a2 = a2
    p1 = p1
    p2 = p2
    p3 = p3
    e1 = e1
    e2 = e2
    Actions = {a1}
    Passes = {p1, p2, p3}
    Edits = {}
    Facts = {cleared, open}
    Identified = {cleared, open}
    Amount = 0
    Cap = 0
    MaxDay = 1
    MaxVersion = 1
    MaxChanges = 2
SPECIFICATION Spec
\* passes and edits are one-shot: every instance runs out of them
CHECK_DEADLOCK FALSE
INVARIANTS
    ReevaluationIsCurrent
