SPECIFICATION CoordinatorSpec
CONSTANTS
    c1 = c1
    c2 = c2
    c3 = c3
    c4 = c4
    w1 = w1
    w2 = w2
    target = target
    Foreground = Foreground
    Clients = {c1, c2, c3, c4}
    Lanes = {Foreground, target}
    LaneOf <- MCLaneOf
    Workers = {w1, w2}
    WorkerOf <- MCWorkerOf
    Hung = {c2}
    o1 = o1
    o2 = o2
    o3 = o3
    o4 = o4
    k1 = k1
    k2 = k2
    Observers = {o1, o2, o3, o4}
    Keys = {k1, k2}
    Stubborn = {o2}
    None = None
    KeyOf <- MCKeyOf
    NoFlight = NoFlight
INVARIANTS
    LockTableExact
    Quarantine
    NothingLeftBehind
    OneProducer
    NoCollateral
PROPERTIES
    QueueDrains
    PoisonLifts
    CloseAnswers
CHECK_DEADLOCK FALSE
