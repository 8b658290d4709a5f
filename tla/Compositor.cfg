SPECIFICATION DrawSpec
CONSTANTS
    Width = 3
    Height = 3
    Inputs <- NoInputs
    Compositions <- SmallCompositions
CHECK_DEADLOCK FALSE
INVARIANTS
    DrawTypeOK
    RegionsDisjoint
    EndedLayersLeave
    CutIsExact
    TargetsAreExact
