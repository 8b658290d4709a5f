SPECIFICATION Spec
CONSTANTS
    Planes = {0, 1}
    Cursor = 1
    MaxSurfaces = 4
    Frames = {1,2,3,4,5}
    NoFrame = 0
    Torn = 99
    Buffers = {b1}
    b1 = b1
    NoBuffer = nb
    PrimaryArgb = FALSE
    HasOutFence = TRUE
    Events <- Disturbances
CONSTRAINT BrokenInSmallPool
CHECK_DEADLOCK FALSE
INVARIANTS
    TargetsOffScreen
PROPERTIES
    ImplementsContract
    CommitShowsComposition
    OnlyCommitsChangeScreen
    ModesetNotForgotten
