SPECIFICATION Spec
CONSTANTS
    s1 = s1
    w1 = w1
    w2 = w2
    None = None
    Subscriptions = {s1}
    Workers = {w1, w2}
    Last = 2
    MissAfter = 0
    MaxAttempts = 2
    Column = 3
    MaxFailures = 2
CHECK_DEADLOCK FALSE
INVARIANTS
    ScheduleTypeOK
    FailuresAreDeliveries
PROPERTIES
    OutcomeStands
    DeliverySettles
