SPECIFICATION FairSpec
CONSTANTS
    c1 = c1
    c2 = c2
    i1 = i1
    i2 = i2
    i3 = i3
    k1 = k1
    l1 = l1
    l2 = l2
    Callers = {c1, c2}
    Idlers = {i1, i2, i3}
    Closers = {k1}
    Hung = {c1}
    Loops = {l1, l2}
    LoopOf <- MCLoopOf
    NoTask = NoTask
ACTION_CONSTRAINT OneCast
INVARIANTS
    OneOwner
    LaneNeverLost
    EvidenceHonest
PROPERTIES
    ImplementsSerialProvider
    BarrierPasses
    CloseEnds
CHECK_DEADLOCK FALSE
