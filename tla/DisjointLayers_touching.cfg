SPECIFICATION Spec
CONSTANTS
    Width = 2
    Height = 1
    Inputs <- AnyTwo
CHECK_DEADLOCK FALSE
INVARIANTS
    EndedLayersLeave
