SPECIFICATION FaultySpec
CONSTANTS
    l1 = l1
    l2 = l2
    r1 = r1
    r2 = r2
    Lines = {l1, l2}
    Placed <- OneEach
    Dish <- OneDish
    Requests = {r1, r2}
    Phones = {p1}
    MaxQty = 1
    MaxEntries = 2
SYMMETRY Sym
INVARIANT CancelNeverBeatsAccept
INVARIANT AmendmentFollowsTicket
INVARIANT InductiveInvariant
PROPERTY BillFrozenOutsideKitchen
CHECK_DEADLOCK FALSE
