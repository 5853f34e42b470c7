\* Three frames, a slice of one packet or of two groups of them: enough for a lost slice
\* to be asked for twice and for a parameter set to be sent again in a slice's place.
CONSTANTS
    FecGroupSize = 3
    MaxCachedFrames = 6
    ParameterSets = 1
    SliceSizes = {1, 4}
    MaxFrames = 3
    MaxLost = 3
    MaxNacks = 3
SPECIFICATION Spec
\* The stream ends.
CHECK_DEADLOCK FALSE
INVARIANTS
    TypeOK
    DeliveredIntact
    OneLossIsRepaired
PROPERTIES
    DropsOnlyUnrepairable
