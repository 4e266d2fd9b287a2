SPECIFICATION Spec
CONSTANTS
    mutation = mutation
    read = read
    tab1 = tab1
    tab2 = tab2
    Commands = {mutation, read}
    Idempotent = {read}
    Targets = {tab1, tab2}
    TargetOf <- MCTargetOf
    MaxWires = 2
    Abrupt = TRUE
    Shutdown = FALSE
    None = None
INVARIANT
    OneTransport
CHECK_DEADLOCK FALSE
