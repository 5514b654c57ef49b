SPECIFICATION Spec
CONSTANTS
    image = image
    name = name
    NoValue = NoValue
    Key <- MCKey
    Value <- MCValue
    Below <- MCBelow
    Batch <- MCBatchOne
    Pipeline = {p1}
    Step = {s1}
    Publisher = {w1, w2}
    Consumer = {c1}
    TTL = 1
CHECK_DEADLOCK FALSE
INVARIANTS NoConcurrentMapAccess
