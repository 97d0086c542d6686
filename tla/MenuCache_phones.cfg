SPECIFICATION Spec
CONSTANTS
    Items = {i1}
    Cats = {c1}
    FirstItems = {i1}
    FirstCats = {c1}
    FirstCat = c1
    Requests = {r1}
    MaxPresses = 1
    None = None
    Phones = {p1}
    Loads = {l1, l2}
    RETRY_COUNT = 1
    MaxLines = 1
    MaxFaults = 2
CHECK_DEADLOCK FALSE
INVARIANTS
    CacheIsCurrent
    SilentPhoneIsCurrent
    SoldOutNotServed
    InductiveInvariant
PROPERTIES
    PhoneCatchesUp
