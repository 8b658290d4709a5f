SPECIFICATION FairSpec
CONSTANTS
    Planes = {0, 1}
    Cursor = 9
    MaxSurfaces = 8
    Frames = {1,2,3,4}
    NoFrame = 0
    Torn = 99
    Buffers = {b1}
    b1 = b1
    NoBuffer = nb
    PrimaryArgb = TRUE
    HasOutFence = TRUE
    Events <- NoEvents
CHECK_DEADLOCK TRUE
INVARIANTS
    TypeOK
    TargetsDistinct
    BusyHasFence
    PoolBounded
PROPERTIES
    PresentReturns
