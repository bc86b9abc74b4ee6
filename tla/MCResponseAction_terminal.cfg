CONSTANTS
    p = p
    a = a
    b = b
    treasury = treasury
    compliance = compliance
    q1 = q1
    q2 = q2
    q3 = q3
    q4 = q4
    NoUser = NoUser
    NoRole = NoRole
    Users = {p, a, b}
    Proposer = p
    Requests = {q1, q2, q3}
    PolicyRoles = {}
    HoldsRole <- MCHoldsRole
    Modes = {"simulated"}
    LivePath = "safe"
    RequiresApproval = TRUE
    RequiredQuorum = 1
    Governed = FALSE
    MaxVersion = 1
    Admitted = {"approve", "execute"}
SPECIFICATION Spec
\* requests are one-shot: every instance runs out of them
CHECK_DEADLOCK FALSE
PROPERTIES
    TerminalIsFinal
