SPECIFICATION MCSpec
CONSTANTS
    User = {u1, u2}
    Token = {t1, t2, t3}
    Req = {r1, r2}
    Spare = u2
    None = None
SYMMETRY Interchangeable
INVARIANTS ExchangedRowIsSpent CutSeversFamilies ForkBound
PROPERTY LedgerSpec
