SPECIFICATION FairSpec
CONSTANTS
    MaxChanges = 1
    MaxLoads = 2
    MaxFaults = 1
INVARIANTS
    SilentScreenIsCurrent
    GuessIsReconciled
    InductiveInvariant
PROPERTY BoardCatchesUp
