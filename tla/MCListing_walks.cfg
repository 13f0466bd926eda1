\* Ties of a second, limits below, at and above the page, a second merchant.
SPECIFICATION Spec
CONSTANTS
    alice = alice
    bob = bob
    Merchants = {alice, bob}
    Caller = alice
    Filters = {"pending", "failed", "none"}
    Ids = {1, 2, 3}
    MaxTime = 2
    DefaultLimit = 2
    MaxLimit = 2
    Asked = {0, 3}
    NotSent = NotSent
    MaxRows = 3
    MaxChanges = 2
INVARIANTS
    ListingInv
    WalkIsComplete
    
