SPECIFICATION Spec
CONSTANTS
    Links = {l1, l2}
    Sessions = {s1, s2}
    Requests = {r1, r2}
    Ops = {"register", "add", "invite", "oauth", "forgot", "verify", "social", "redeem", "login",
           "refresh", "logout", "exchange", "api", "change", "edit", "admin_reset"}
    MaxVersion = 1
SYMMETRY Interchangeable
ACTION_CONSTRAINT Apart
INVARIANTS TokensTypeOK RedeemedOnce ChangesEndSessions CopyIsCurrent
CHECK_DEADLOCK FALSE
