SPECIFICATION ListeningSpec
CONSTANTS
    mutation = mutation
    read = read
    tab1 = tab1
    tab2 = tab2
    Commands = {mutation, read}
    Idempotent = {read}
    Targets = {tab1, tab2}
    TargetOf <- MCTargetOf
    MaxWires = 2
    Abrupt = FALSE
    Shutdown = TRUE
    None = None
    p1 = p1
    p2 = p2
    Pids = {p1, p2}
    Kinds <- AllKinds
    MaxChanges = 2
    MaxChecks = 2
INVARIANTS
    SentOnce
    OneTransport
    LossIsReal
    LateCallerHarmless
    NoLostWakeup
PROPERTIES
    LossNoticed
    LockPasses
    NoDuplicateOpen
    AppearedIsSeen
CHECK_DEADLOCK FALSE
