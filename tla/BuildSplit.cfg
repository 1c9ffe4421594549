SPECIFICATION FairSpec
CONSTANTS
    r1 = r1
    r2 = r2
    w1 = w1
    w2 = w2
    NoRun = NoRun
    Runs = {r1, r2}
    Workers = {w1, w2}
    MaxAttempts = 2
    MaxVersion = 1
    SharedPool = FALSE
CHECK_DEADLOCK FALSE
PROPERTIES
    OutcomeIsFinal
    ServedDataFrozen
    SupersededWorkerWritesOneNode
    EveryRunFinishes
