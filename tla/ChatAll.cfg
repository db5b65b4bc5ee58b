SPECIFICATION Spec
CONSTANTS
    a1 = a1
    a2 = a2
    b1 = b1
    Ids <- MCIds
    Owner <- MCOwner
    NoTask = NoTask
    MaxSessions = 2
    MaxQueue = 1
    MaxUpdates = 2
    MaxCalls = 1
    HalfPage = 1
INVARIANTS OwnState    SavesAgentInUse
SYMMETRY Symmetry
