SPECIFICATION QuestionSpec
CONSTANTS
    r1 = r1
    w1 = w1
    w2 = w2
    NoRun = NoRun
    Runs = {r1}
    Workers = {w1, w2}
    Limit = 8
    Mishaps = 1
    Delays = 1
CHECK_DEADLOCK FALSE
INVARIANTS
    ClarificationAnswerable
