SPECIFICATION MCSpec
CONSTANTS
    User = {u1, u2}
    Req = {r1, r2}
    MaxMsg = 2
    MaxComment = 3
    MaxTrust = 4
    Emoji = {e1, e2}
    Option = {o1, o2}
    Multi = FALSE
    MaxRating = 2
    None = None
SYMMETRY Symmetric
CHECK_DEADLOCK FALSE
INVARIANTS PartsTyped PreviewIsNewest TombstonesEmpty BadgeIsExact BellIsUnread CountersExact
