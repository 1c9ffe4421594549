SPECIFICATION CleanupSpec
CONSTANTS
    r1 = r1
    r2 = r2
    w1 = w1
    w2 = w2
    c1 = c1
    c2 = c2
    NoRun = NoRun
    Runs = {r1, r2}
    Workers = {w1, w2}
    Cleaners = {c1, c2}
    MaxAttempts = 1
    MaxVersion = 2
    MaxCleanupAttempts = 2
    SharedPool = TRUE
SYMMETRY Symmetry
CHECK_DEADLOCK FALSE
INVARIANTS
    CleanupTypeOK
    LastCleanupIsComplete
PROPERTIES
    DropsOnlyWithdrawn
    SupersededCleanerWritesNothing
    WithdrawableImplementsPublication
