CONSTANTS
    p = p
    a = a
    b = b
    treasury = treasury
    compliance = compliance
    q1 = q1
    q2 = q2
    q3 = q3
    q4 = q4
    NoUser = NoUser
    NoRole = NoRole
    Users = {p, a, b}
    Proposer = p
    Requests = {q1, q2, q3}
    PolicyRoles = {treasury, compliance}
    HoldsRole <- MCHoldsRole
    Modes = {"live"}
    LivePath = "safe"
    RequiresApproval = TRUE
    RequiredQuorum = 1
    Governed = TRUE
    MaxVersion = 2
    Admitted = {"approve", "execute", "evaluate", "sibling", "publish", "demote", "abort"}
SPECIFICATION Spec
SYMMETRY RequestSymmetry
\* requests are one-shot: every instance runs out of them
CHECK_DEADLOCK FALSE
INVARIANTS
    TypeOK
    OneDecisionPerApprover
    RowApproverOnRecord
    QuorumBacked
    SeparationOfDuties
