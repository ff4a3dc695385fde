SPECIFICATION MCSpec
CONSTANTS
    User = {a, b}
    Row = {f1, f2}
    Req = {r1, r2}
    None = None
INVARIANT Consent
PROPERTIES BlockHolds VerdictSettles BarredIsCutOff
