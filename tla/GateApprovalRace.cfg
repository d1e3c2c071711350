SPECIFICATION Spec
CONSTANTS
    Decisions = {d1}
    Requests = {r1, r2, r3, r4, r5}
    Nil = Nil
    Backend = "sqlite"
    Production = FALSE
    SerialApprovals = FALSE
    MaxWorld = 2
INVARIANT SingleReservation
SYMMETRY RequestSymmetry
CHECK_DEADLOCK FALSE
