SPECIFICATION Spec
CONSTANTS
    Users = {u1, u2, u3}
    Orgs = {a}
    Requests = {r1, r2}
    Ops = {"transfer"}
    Paying = {}
SYMMETRY Interchangeable
INVARIANT ExactlyOneOwner
CHECK_DEADLOCK FALSE
