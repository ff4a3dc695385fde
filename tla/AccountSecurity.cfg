SPECIFICATION MCSpec
CONSTANTS
    Req = {r1, r2}
    MaxMail = 2
    MaxAttempts = 2
    MaxFailed = 3
    MaxCount = 4
    Secret = {s1, s2, s3}
    Recovery = {c1, c2}
    None = None
    User = {u1, u2}
    NoOne = NoOne
    Back = {b}
    MaxPairs = 3
    MaxFaults = 1
SYMMETRY Interchangeable
CHECK_DEADLOCK FALSE
INVARIANTS PartsTyped GuessesBounded ResendsDoNotPile LockedInTime
    EnrolledCanAnswer SecondUseOverlaps
    VaultFollowsScreen SignedOutStaysOut NoFalseAlarm
