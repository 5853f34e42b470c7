SPECIFICATION FairSpec
CONSTANTS
    MaxEncoders = 2
    MaxFrames = 2
    SlotCount = 2
    Bitrates = {8, 11}
    Wrap = 2
INVARIANTS
    BitrateInRange
    EncoderOutlivesItsFrames
    SlotsAreOwedOnce
PROPERTIES
    DroppedEncoderIsDestroyed
CHECK_DEADLOCK FALSE
