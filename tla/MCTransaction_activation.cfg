SPECIFICATION Spec
CONSTANTS
    a = a
    b = b
    Aliases = {a, b}
    NoAlias = NoAlias
    MaxSteps = 1
    Requests <- MCRequests
INVARIANT
    UncertaintyReported
CHECK_DEADLOCK FALSE
