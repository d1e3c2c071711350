SPECIFICATION Spec
CONSTANTS
    Backend = "sqlite"
    Processes = {p1, p2}
    Names = {n1}
    Bodies = {b1}
    KeyIsRequestId = TRUE
    None = None
    MaxDecisions = 2
INVARIANT OneDecisionPerKey
SYMMETRY IngressSymmetry
CHECK_DEADLOCK FALSE
