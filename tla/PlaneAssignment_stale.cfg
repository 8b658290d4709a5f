SPECIFICATION Spec
CONSTANTS
    PlaneLists <- Lists
    Looks <- OneDemand
    MaxLayers = 3
INVARIANTS
    RenderedPlanesGetTargets
CHECK_DEADLOCK FALSE
