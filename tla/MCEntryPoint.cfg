\* Two names, of action sets and of actions; five handles: an instance, a session,
\* two action sets and an action, or one set and two other objects.  The application
\* destroys a set's actions before the set.
CONSTANTS
    ExtensionSets = {{"metal", "hand", "debug"}, {"metal", "vulkan2"}, {"vulkan"}}
    Names = {"gameplay", "menu"}
    MaxHandles = 5
    OrphansActions = FALSE
SPECIFICATION Spec
CHECK_DEADLOCK FALSE
INVARIANTS
    ParentsOutliveChildren
    AttachedSetsLive
PROPERTIES
    FailureChangesNothing
    AttachFreezes
