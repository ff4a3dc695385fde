SPECIFICATION MCSpec
CONSTANTS
    User = {u1, u2, u3}
    Third = u3
    Req = {r1, r2}
    Cap = 0
    None = None
SYMMETRY Interchangeable
INVARIANTS CountMirrorsMembers RunBySomebody BoardSits
PROPERTY OwnershipIsClaimed
\* once the association is gone, or its members' accounts are, nothing is left to do
CHECK_DEADLOCK FALSE
