SPECIFICATION ClientSpec
CONSTANTS
    Planes = {0}
    Cursor = 9
    MaxSurfaces = 4
    Frames = {1,2,3,4,5}
    NoFrame = 0
    Torn = 99
    Buffers = {0, 1}
    NoBuffer = 2
    PrimaryArgb = TRUE
    HasOutFence = TRUE
    MaxQueued = 3
    Events <- Interruptions
INVARIANTS
    ClientTypeOK
    NoTearing
    ReleaseNeverBlocks
PROPERTIES
    PresentedIsShown
