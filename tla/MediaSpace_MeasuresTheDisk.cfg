SPECIFICATION Spec
CONSTANTS
    Post = {p1, p2}
    Object = {1, 2}
    Quota = 3
    Req = {r1}
    None = None
CHECK_DEADLOCK FALSE
INVARIANT MeasuresTheDisk
