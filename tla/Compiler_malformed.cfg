SPECIFICATION Spec
CONSTANTS
    clone = clone
    a = a
    b = b
    c = c
    db = db
    None = None
    Malformed = Malformed
    Clone = clone
    Name <- MCName
    Inputs <- MCInputs
    Restricted <- MCRestricted
CHECK_DEADLOCK FALSE
INVARIANTS MalformedRefsRejected
