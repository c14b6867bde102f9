SPECIFICATION Spec
CONSTANTS
    i1 = i1
    a = a
    b = b
    Issues = {i1}
    ChangeRequests = {a, b}
    Malformed = Malformed
    None = None
    All = All
    Deliveries <- MCDeliveries
    Windows <- MCWindows
    Workers = {w1}
    MaxRows = 3
    MaxRebuilds = 1
    MaxRaces = 0
INVARIANT LoneRecomputeSucceeds
