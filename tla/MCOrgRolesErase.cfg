SPECIFICATION Spec
CONSTANTS
    Users = {u1, u2}
    Orgs = {a}
    Requests = {r1}
    Ops = {"transfer", "erase"}
    Paying = {}
SYMMETRY Interchangeable
PROPERTY ErasureTakesOwnedOrg
CHECK_DEADLOCK FALSE
