\* Up to two layers, one of them a projection; frames, clients and the stop in
\* any order.
CONSTANTS
    Layers = {"projection", "badProjection", "quad", "badQuad"}
    MaxLayers = 2
    MaxProjections = 1
SPECIFICATION FairSpec
\* A stopped server does nothing more.
CHECK_DEADLOCK FALSE
 
PROPERTIES
    ImplementsSlot
    QueuedFrameIsTaken
