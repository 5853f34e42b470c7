\* The application renders on one thread and does everything else on another.
CONSTANTS
    WaitThread = main
    ControlThread = main
    FrameThread = render
    EventDriven = TRUE
    MaxSessions = 2
    MaxWaited = 2
SPECIFICATION Spec
\* After MaxSessions sessions there is nothing left for the application to do.
CHECK_DEADLOCK FALSE
INVARIANTS
    TypeOK
    NoDanglingServerUse
    ReceiverHasServer
    EventsTellLifecycle
