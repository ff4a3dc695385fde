SPECIFICATION Spec
CONSTANTS
    User = {u1, u2}
    Emoji = {e1}
    Req = {r1}
    MaxComment = 2
    None = None
INVARIANT RepliesFollow
CHECK_DEADLOCK FALSE
