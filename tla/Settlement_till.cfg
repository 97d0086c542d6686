SPECIFICATION Spec
CONSTANTS
    Orders = {o1}
    Phones = {p1}
    Tills = {t1}
    Sweeper = Sweeper
    MaxWorth = 1
    Outdated = Outdated
    MaxOps = 2
CONSTRAINT SweepMeetsOneRequest
INVARIANTS
    BillIsExact
    CollectedIsRecorded
    WallMeansOver
    InductiveInvariant
