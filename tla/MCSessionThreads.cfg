\* Every role has a thread of its own, and xrEndSession does not wait for the
\* application to be told.
CONSTANTS
    WaitThread = pacer
    ControlThread = main
    FrameThread = render
    EventDriven = FALSE
    MaxSessions = 1
    MaxWaited = 1
SPECIFICATION FairSpec
CHECK_DEADLOCK FALSE
INVARIANTS
    NoFrameSurvivesEnd
PROPERTIES
    ExitCompletes
