SPECIFICATION Spec
CONSTANTS
    People = {own, p, q}
    Owner = own
    Invitations = {i, j}
    Requests = {r1, r2}
    Limit = 2
    SeatRequests = {}
    Reports = {}
SYMMETRY Interchangeable
INVARIANT SeatBudgetHolds
CHECK_DEADLOCK FALSE
