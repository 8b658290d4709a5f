SPECIFICATION Spec
CONSTANTS
    PlaneLists <- Lists
    Looks <- OneDemand
    MaxLayers = 4
INVARIANTS
    TypeOK
    LayersInOrder
    ScannedOutWasTested
    FitsPipeline
    ScannedOutIsSupported
CHECK_DEADLOCK FALSE
