SPECIFICATION Spec
CONSTANTS
    Decisions = {d1}
    Requests = {r1, r2, r3, r4, r5}
    Nil = Nil
    Backend = "postgresql"
    Production = FALSE
    SerialApprovals = FALSE
    MaxWorld = 2
INVARIANT ReconciledOnce BlockedNeverAuthorised
SYMMETRY RequestSymmetry
CHECK_DEADLOCK FALSE
