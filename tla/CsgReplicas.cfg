SPECIFICATION Spec
CONSTANTS
    Backend = "postgresql"
    Processes = {p1, p2, p3}
    Names = {n1, n2}
    Bodies = {b1, b2}
    KeyIsRequestId = TRUE
    None = None
    MaxDecisions = 4
INVARIANTS OneDecisionPerKey AnsweredReplays
PROPERTIES IdempotentSpec
SYMMETRY IngressSymmetry
CHECK_DEADLOCK FALSE
