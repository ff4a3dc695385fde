SPECIFICATION MCSpec
CONSTANTS
    Address = {a1, a2}
    Extra = {a2}
    Req = {r1, r2}
    MaxSent = 2
    Bot = {"b1", "b2"}
    MaxItem = 3
    Held = {2}
    Broken = {1}
    Sweep = {s1, s2}
    Reviewer = {v1, v2}
    Batch = 2
    MaxCap = 1
    MaxQuota = 1
    MaxTrouble = 1
    Member = {m1, m2}
    Few = 1
    None = None
CHECK_DEADLOCK FALSE
INVARIANTS PartsTyped SentOnce 
PROPERTIES SendingEnds QueueMoves
