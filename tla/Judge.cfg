SPECIFICATION Spec
CONSTANTS
    e1 = e1
    e2 = e2
    e3 = e3
    p1 = p1
    p2 = p2
    i1 = i1
    i2 = i2
    m1 = m1
    m2 = m2
    Nobody = Nobody
    Evaluations = {e1, e2, e3}
    Protocols = {p1, p2}
    Instances = {i1, i2}
    Models = {m1, m2}
    Expected <- TwoModels
    MaximumAttempts <- TwoAttempts
    Jobs <- MCJobs
    Assignments <- MCAssignments
    Texts <- MCTexts
INVARIANTS
    TypeOK
    BypassIsFresh
    ProvenanceTellsTheRun
    FailsClosed
    CostBounded
    CacheIsGenuine
    WarmReplay
PROPERTY EvaluationsEnd
CHECK_DEADLOCK FALSE
