SPECIFICATION FairSpec
CONSTANTS
    NumConnectors = 2
    NumDisplays = 2
    Encoders <- LastHasTwo
    MaxChanges = 2
    MaxFaults = 1
    Nobody = Nobody
INVARIANTS
    TypeOK
    ListMatchesPower
    ClientSeesList
    OneDisplayPerEncoder
    HandedOutStaysAlive
    NoChangeOverlooked
PROPERTIES
    UnpluggedGoesDark
CHECK_DEADLOCK FALSE
