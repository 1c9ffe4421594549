SPECIFICATION LockSpec
CONSTANTS
    s1 = s1
    s2 = s2
    s3 = s3
    d1 = d1
    d2 = d2
    r1 = r1
    r2 = r2
    r3 = r3
    Sessions = {s1, s2, s3}
    Datasets = {d1, d2}
    Runs = {r1, r2, r3}
    MaxSwept = 2
SYMMETRY Symmetry
INVARIANTS
    CircleNeedsDisorder
