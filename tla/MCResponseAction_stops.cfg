CONSTANTS
    p = p
    a = a
    b = b
    treasury = treasury
    compliance = compliance
    q1 = q1
    q2 = q2
    q3 = q3
    q4 = q4
    NoUser = NoUser
    NoRole = NoRole
    Users = {p, a, b}
    Proposer = p
    Requests = {q1, q2, q3}
    PolicyRoles = {}
    HoldsRole <- MCHoldsRole
    Modes = {"live", "simulated", "recommended"}
    LivePath = "freeze"
    RequiresApproval = TRUE
    RequiredQuorum = 1
    Governed = TRUE
    MaxVersion = 1
    Admitted = {"approve", "reject", "execute", "rollback", "simulate", "evaluate", "incident", "plan", "abort"}
SPECIFICATION Spec
SYMMETRY RequestSymmetry
\* requests are one-shot: every instance runs out of them
CHECK_DEADLOCK FALSE
INVARIANTS
    HonoursStandingStops
    QuorumReachedIsRecorded
PROPERTIES
    OnlyOvertakenReopens
