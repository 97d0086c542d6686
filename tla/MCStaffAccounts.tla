--------------------------- MODULE MCStaffAccounts ---------------------------
EXTENDS StaffAccounts, TLC

CONSTANTS d1, d2

SymDevices == Permutations({d1, d2})
=============================================================================
