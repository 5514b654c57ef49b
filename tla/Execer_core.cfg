SPECIFICATION FairSpec
CONSTANTS
    a = a
    b = b
    c = c
    p1 = p1
    p2 = p2
    Nobody = Nobody
    Pipeline = {p1, p2}
    Step = {a, b, c}
    Order <- MCOrder
    Plans <- MCPlans
    Threads = 2
CHECK_DEADLOCK FALSE
INVARIANTS TypeOK SuccessIsHonest FailureStopsDependents AlwaysStepsRun OnlyKnownFailuresPublish
PROPERTIES ExecReturns
