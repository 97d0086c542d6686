SPECIFICATION FairSpec
CONSTANTS
    s1 = s1
    s2 = s2
    r1 = r1
    Scans = {s1, s2}
    Requests = {r1}
    MAX_ACTIVE_PER_TABLE = 1
    MaxSettled = 0
    MaxResets = 1
    None = None
INVARIANTS
    SeatsBounded
PROPERTIES
    TableFreed
CHECK_DEADLOCK FALSE
