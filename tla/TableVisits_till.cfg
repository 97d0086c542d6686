SPECIFICATION FaultySpec
CONSTANTS
    s1 = s1
    s2 = s2
    s3 = s3
    r1 = r1
    r2 = r2
    Scans = {s1, s2, s3}
    Requests = {r1, r2}
    MAX_ACTIVE_PER_TABLE = 1
    MaxSettled = 2
    MaxResets = 0
    None = None
SYMMETRY Symmetric
CONSTRAINT ThirdScanUndisturbed
INVARIANTS
    InductiveInvariant
    SettlementIsFinal
    OldestVisitSurvives
CHECK_DEADLOCK FALSE
