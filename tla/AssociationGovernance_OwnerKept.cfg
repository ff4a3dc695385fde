SPECIFICATION Spec
CONSTANTS
    User = {u1, u2, u3}
    Req = {r1, r2}
    Cap = 0
    None = None
PROPERTY OwnerKept
CHECK_DEADLOCK FALSE
