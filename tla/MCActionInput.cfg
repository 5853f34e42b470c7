\* Every type of action; one value the automation extension gives to the right stick.
CONSTANTS
    Types = {"boolean", "float", "vector", "pose"}
    Suggestions <- MCSuggestions
    Packets <- MCPackets
    Overrides <- MCOverrides
    Automated <- MCAutomated
    AutomatedProfiles = {"inactive", "hand"}
    Scale = 2
    Tolerance = 1
SPECIFICATION Spec
INVARIANTS
    TypeOK
    WaysToCombineAgree
    SpaceFollowsItsHand
PROPERTIES
    SyncTellsInput
    NoChangeUntold
