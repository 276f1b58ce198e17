SPECIFICATION Spec
CONSTANTS
    People = {own, p, q}
    Owner = own
    Invitations = {i, j, k}
    Requests = {r1, r2}
    Limit = 2
    SeatRequests = {2}
    Reports <- ActiveReports
SYMMETRY Interchangeable
INVARIANTS TypeOK OnePendingPerEmail
PROPERTY JoinsFitSeats
CHECK_DEADLOCK FALSE
