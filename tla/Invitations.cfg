SPECIFICATION MCSpec
CONSTANTS
    Inviter = {u1, u2}
    SpareInviter = u2
    Email = {e1, e2}
    SpareEmail = e2
    Inv = {i1, i2}
    Req = {r1, r2}
    Root = Root
    None = None
SYMMETRY Interchangeable
INVARIANTS SingleUseLetsOneIn AddressPurged CreditFollowsConsumption
PROPERTY AdmissionSpec
