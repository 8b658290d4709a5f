SPECIFICATION Spec
CONSTANTS
    MaxLayers = 2
    NumBuffers = 2
    Kinds = {"internal", "headless", "virtual"}
    Frames = {1, 2}
    NoFrame = 0
INVARIANTS
    TypeOK
    ShownAsAgreed
    OneLayerOffscreen
    NoTearing
CHECK_DEADLOCK FALSE
