SPECIFICATION Spec
CONSTANTS
    r1 = r1
    r2 = r2
    r3 = r3
    c1 = c1
    c2 = c2
    q1 = q1
    q2 = q2
    None = None
    Releases = {r1, r2, r3}
    Conversations = {c1, c2}
    Questions = {q1, q2}
    Bucket <- MCBucket
    MaxReferences = 1
SYMMETRY Symmetric
CHECK_DEADLOCK FALSE
INVARIANTS
    LifecycleTypeOK
    ServedReleaseIsCompared
    ReferencedReleaseIsKept
PROPERTIES
    PinMovesByOwner
