SPECIFICATION Spec
CONSTANTS
    w1 = w1
    w2 = w2
    Workers = {w1, w2}
    Requests = {r1}
    Ops = {"cancel", "resume", "seats", "release", "plan", "delete", "erase", "remove"}
    Plans = {1, 2}
    Seats = {1, 2}
    MaxChanges = 2
    MaxRetries = 1
    MaxFaults = 2
INVARIANTS MirrorTypeOK MirrorConverges CheckoutPersistsRow DeletedOwnersStopPaying
SYMMETRY Interchangeable
CHECK_DEADLOCK FALSE
