CONSTANTS
    MaxDoc = 1
    MaxArchive = 4
    MaxElapsed = 1
    MaxFaults = 1
    Desk = {q}
    ObjectLock = TRUE
SPECIFICATION Spec
PROPERTIES SealedBeforeRemoved
