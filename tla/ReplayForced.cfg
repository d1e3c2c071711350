SPECIFICATION PolicySpec
CONSTANTS
    EvidenceSets <- MCEvidenceSets
    KeyIds = {k1, k2}
    LegacySignals = {}
    Unset = Unset
    NoDecision = NoDecision
    LastDay = 1
INVARIANT RecordedDecisionReplays
CHECK_DEADLOCK FALSE
