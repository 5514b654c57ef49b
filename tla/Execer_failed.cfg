SPECIFICATION Spec
CONSTANTS
    a = a
    b = b
    c = c
    p1 = p1
    p2 = p2
    Nobody = Nobody
    Pipeline = {p1}
    Step = {a, b}
    Order <- MCOrder2
    Plans <- MCPlansFailing
    Threads = 1
CHECK_DEADLOCK FALSE
INVARIANTS FailedProducersPublishNothing
