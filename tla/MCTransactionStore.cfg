SPECIFICATION PartsSpec
CONSTANTS
    a = a
    b = b
    Aliases = {a, b}
    NoAlias = NoAlias
    MaxSteps = 4
    Requests <- MCRequests
    t1 = t1
    t2 = t2
    t3 = t3
    pid = pid
    window = window
    tab = tab
    native = native
    cdp = cdp
    foreground = foreground
    shadow = shadow
    None = None
    Tokens <- MCTokens
    Kinds <- MCKinds
    Expectations <- MCExpectations
    ProviderOf <- MCProviderOf
    ModeOf <- MCModeOf
    MaxSnapshots = 2
    TTL = 2
    MaxClock = 2
    Modes <- MCModes
    Nothing = Nothing
    MaxEffects = 3
    MaxDocs = 2
SYMMETRY TokensAreAlike
INVARIANTS
    FreshReferences
    SnapshotCurrent
    ProgressHonest
    ReleasedOnce
    AnswersLive
PROPERTIES
    ImplementsReplayContract
    ImplementsPorts
CHECK_DEADLOCK FALSE
