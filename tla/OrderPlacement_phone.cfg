SPECIFICATION Spec
CONSTANTS
    Phones = {p1}
    Requests = {r1, r2}
    Dishes = {d1, d2}
    MAX_ORDERS_PER_SESSION_WINDOW = 2
    MAX_OPEN_ORDERS_PER_TABLE = 1
    NUMBER_RETRIES = 2
    MaxKeys = 3
    MaxSessions = 1
    MaxRevived = 1
    None = None
SYMMETRY Symmetric
INVARIANTS
    OrderedOnceUnlessAdrift
    OpenOrdersBounded
    InductiveInvariant
PROPERTY KeepsOrderBook
CHECK_DEADLOCK FALSE
