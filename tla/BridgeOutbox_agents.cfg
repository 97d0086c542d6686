SPECIFICATION FairSpec
CONSTANTS
    N = 1
    Agents = {a1, a2}
    Sweepers = {s1, s2}
    MAX_ATTEMPTS = 2
    BATCH = 1
    MaxRetries = 0
INVARIANTS
    PrintedOnceUnlessExcused
    FailedOnlyWhenExhausted
PROPERTY EveryTicketSettles
