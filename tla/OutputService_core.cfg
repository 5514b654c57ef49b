SPECIFICATION FairSpec
CONSTANTS
    image = image
    name = name
    NoValue = NoValue
    Key <- MCKey
    Value <- MCValue
    Below <- MCBelow
    Batch <- MCBatch
    Pipeline = {p1}
    Step = {s1, s2}
    Publisher = {w1, w2}
    Consumer = {c1}
    TTL = 1
CHECK_DEADLOCK FALSE
INVARIANTS IInv AnswersAreOwn LiveTokenHasPipeline ClosedStaysClosed
PROPERTIES ImplementsOutputStore OnlyClosedOrExpired LeakedStateExpires
