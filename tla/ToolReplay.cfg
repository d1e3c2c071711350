SPECIFICATION Spec
CONSTANTS
    Decisions = {d1}
    Calls = {c1, c2}
    MaxTime = 2
    MaxWorld = 1
    MaxIssued = 1
INVARIANT SingleUse
SYMMETRY ToolSymmetry
CHECK_DEADLOCK FALSE
