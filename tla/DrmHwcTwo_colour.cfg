SPECIFICATION Spec
CONSTANTS
    MaxLayers = 2
    NumBuffers = 2
    Kinds = {"internal"}
    Frames = {1, 2}
    NoFrame = 0
INVARIANT
    ColoursAreComposed
CHECK_DEADLOCK FALSE
