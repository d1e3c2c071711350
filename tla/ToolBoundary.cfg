SPECIFICATION Spec
CONSTANTS
    Decisions = {d1, d2}
    Calls = {c1, c2, c3}
    MaxTime = 2
    MaxWorld = 2
    MaxIssued = 2
INVARIANTS NoReplayWhileValid StaleAuthorityRejected
SYMMETRY ToolSymmetry
CHECK_DEADLOCK FALSE
