SPECIFICATION Spec
CONSTANTS
    d1 = d1
    d2 = d2
    Accounts = {u1, u2}
    Admins = {u1}
    Devices = {d1, d2}
    ACCOUNT_CACHE = 2
    MaxRead = 1
    MaxChanges = 2
    None = None
SYMMETRY SymDevices
INVARIANTS
    RevocationLands
    TokensFollowPassword
    InductiveInvariant
PROPERTY LastAdminStays
