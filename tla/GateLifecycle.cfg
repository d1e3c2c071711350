SPECIFICATION Spec
CONSTANTS
    Decisions = {d1}
    Requests = {r1, r2, r3, r4, r5}
    Nil = Nil
    Backend = "sqlite"
    Production = FALSE
    SerialApprovals = TRUE
    MaxWorld = 2
INVARIANTS SingleReservation SettledOnce StaleWorldNotAdmitted
PROPERTIES InterruptedStaysDead LifecycleSpec
SYMMETRY RequestSymmetry
CHECK_DEADLOCK FALSE
