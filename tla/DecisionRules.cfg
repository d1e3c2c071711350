SPECIFICATION RulesSpec
CONSTANTS
    EvidenceSets <- MCEvidenceSets
    KeyIds = {k1, k2}
    LegacySignals = {"none", "PROCEED", "HOLD", "INHIBIT", "UNKNOWN"}
    Unset = Unset
    NoDecision = NoDecision
    LastDay = 1
    Ticks = {t1, t2}
    MaxAge = 1
    LastTime = 2
    Items = {a, b, c}
    Supporting = {a}
    Claims = {p, q}
    Facts = {f}
    Unit = 10
    Levels = {0, 30, 34, 35, 60, 90, 100}
    MaxEvidence = 3
    MaxTrajectory = 11
    Amounts = {m1, m2}
    Currencies = {"usdt", "USDT", "EUR"}
    Upper <- MCUpper
    Digests = {g1}
    Nothing = Nothing
    Components = {x, y}
    Terms <- MCTerms
    ROOT = ROOT
    Human = Human
    EvidenceIds = {e1, e2, e3}
    Bodies <- MCBodies
    NoSource = NoSource
    Missing = Missing
    Bindings = {h1, h2, h3}
    Traces = {w1}
    MaxClock = 1
    MaxTrail = 3
INVARIANTS
     ReplayReports 
    NothingProceedsUnproved PaidBeforeEntitled ServedByRight
    SpentByPermitOnly 
PROPERTIES EvidenceNeverRevokes EvidenceNeverHurts SupportNeverHurts
CHECK_DEADLOCK FALSE
