SPECIFICATION StoresSpec
CONSTANTS
    Delay = 1
    MaxTime = 6
    Requests = {r1, r2, r3, r4}
    Limit = 2
    Window = 3
    Calls = {c1, c2}
    Nonces = {n1}
    Lifetime = 2
    Retention = 3
    None = None
    Commits = {s1, s2, s3}
    Versions = {v1, v2, v3}
    MaxId = 3
    Operations = {o1, o2}
    Candidates = {d1}
    NoCandidate = NoCandidate
    NoRecord = NoRecord
    AuditEvents = {e1, e2, e3, e4}
    Genesis = GENESIS
    Writers = {w1, w2}
    NoLock = NoLock
    Observers = {b1, b2}
    AlarmCount = 3
    AnomalyWindow = 2
    MaxObserved = 4
    Executors = {x1}
    Parts = {context, evidence}
    Contents = {a, b}
    AuthorityLife = 1
    MaxVersion = 2
    NoRun = NoRun
    Runs = {g1, g2}
    Architecture <- MCArchitecture
    MaxAttempts = 2
    MaxReruns = 1
    MaxOthers = 2
    Malformed = Malformed
    Prices = {1, 2}
    CacheFor = 1
    MaxCycles = 2
    NoPrice = NoPrice
    CsgCalls = {h1, h2}
    RequestIds = {i1, i2}
    m1 = m1
    m2 = m2
    Bodies = {m1, m2}
    DecisionOf <- MCDecisionOf
    Stamps = {0, 2}
    Skew = 1
    CsgKeyIds = {q1, q2}
    NoRow = NoRow
INVARIANTS
    WindowBounded ClaimedOnce  LaterCommitWins
    DispatchedOnce BurstNoticed RunsInDecidedWorld
    RunsStayOnRecord LiveIsOneRound AnswersStayReplayable
PROPERTIES RefusalsHaveCause AppendOnlySpec
CHECK_DEADLOCK FALSE
