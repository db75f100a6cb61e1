SPECIFICATION Spec
CONSTANTS
    Requests = {r1}
    Sensitive = {r1}
    Parties = {p1, p2}
    NoToken = NoToken
    Modes = {"auto", "ask", "deny"}
    Timeout = 1
    TokenLife = 1
    MaxTime = 3
SYMMETRY Symmetry
INVARIANTS TypeOK DecisionStands ActsOnApproval
CHECK_DEADLOCK FALSE
