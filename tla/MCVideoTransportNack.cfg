\* Frames of one NAL unit and a cache that still holds all of them, one NACK.
CONSTANTS
    FecGroupSize = 2
    MaxCachedFrames = 3
    ParameterSets = 0
    SliceSizes = {2}
    MaxFrames = 2
    MaxLost = 2
    MaxNacks = 1
SPECIFICATION Spec
CHECK_DEADLOCK FALSE
INVARIANT NackRecovers
