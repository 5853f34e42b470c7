CONSTANT imageCount = 3
SPECIFICATION SCSpec
INVARIANTS
    ReleasedImageStaysVisible
    SliceWasReleased
PROPERTIES
    ImplementsRing
