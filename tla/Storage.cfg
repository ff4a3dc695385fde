SPECIFICATION MCSpec
CONSTANTS
    MaxDoc = 1
    MaxArchive = 4
    Desk = {q}
    MaxElapsed = 1
    MaxFaults = 1
    ObjectLock = TRUE
    Post = {p1, p2}
    Object = {1, 2}
    Quota = 3
    Video = {w1, w2, w3, w4}
    MaxActive = 2
    MaxUploads = 2
    MaxDay = 1
    Req = {r1, r2}
    None = None
CHECK_DEADLOCK FALSE
INVARIANTS ArchiveIsBacked QuotasHold
PROPERTIES VerdictStands DueLeaves
