SPECIFICATION Spec
CONSTANTS
    r1 = r1
    r2 = r2
    r3 = r3
    w1 = w1
    w2 = w2
    NoRun = NoRun
    Runs = {r1, r2, r3}
    Workers = {w1, w2}
    MaxAttempts = 1
    MaxVersion = 2
    SharedPool = FALSE
SYMMETRY Symmetry
CHECK_DEADLOCK FALSE
INVARIANTS
    ActiveRowIsSound
PROPERTIES
    IncrementalOverItsBase
