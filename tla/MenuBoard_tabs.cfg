SPECIFICATION BoardSpec
CONSTANTS
    Items = {i1, i2}
    Cats = {c1, c2, c3}
    FirstItems = {i1}
    FirstCats = {c1, c2}
    FirstCat = c1
    Requests = {r1, r2}
    MaxPresses = 3
    None = None
    Tabs = {a1}
SYMMETRY Symmetry
INVARIANTS
    OnlyStaleFormRevives
    ReferencesHold
CHECK_DEADLOCK FALSE
