SPECIFICATION Spec
CONSTANTS
    Users = {u1, u2}
    Orgs = {a, b}
    Requests = {r1, r2}
    Ops = {"transfer", "patch", "remove", "delete", "erase"}
    Paying = {u2}
SYMMETRY Interchangeable
INVARIANTS TypeOK OwnersAreBilling OneOrgPerOwner MembershipsAreRooted
PROPERTY StandingDecisionsKeepOneOwner
CHECK_DEADLOCK FALSE
