SPECIFICATION FairSpec
CONSTANTS
    l1 = l1
    l2 = l2
    r1 = r1
    r2 = r2
    Lines = {l1, l2}
    Placed <- TwoAndOne
    Dish <- TwoDishes
    Requests = {r1, r2}
    Phones = {}
    MaxQty = 2
    MaxEntries = 1
INVARIANTS
    StoredTotalCoversBill
    AuditExplainsQuantities
PROPERTIES
    KitchenGetsTicket
CHECK_DEADLOCK FALSE
