SPECIFICATION FairIdempotencySpec
CONSTANTS
    q1 = q1
    q2 = q2
    q3 = q3
    b1 = b1
    b2 = b2
    None = None
    Requests = {q1, q2, q3}
    Bodies = {b1, b2}
CHECK_DEADLOCK FALSE
INVARIANTS
    IdempotencyTypeOK
    AnswersAgree
    AnswerStands
    OneExecution
PROPERTIES
    KeyIsFreed
