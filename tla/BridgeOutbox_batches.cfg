SPECIFICATION Spec
CONSTANTS
    N = 2
    Agents = {a1, a2}
    Sweepers = {s1}
    MAX_ATTEMPTS = 1
    BATCH = 2
    MaxRetries = 1
SYMMETRY SymAgents
INVARIANTS
    InductiveInvariant
PROPERTY KeepsTicketLife
