\* The default setting: both transports, whose handlers overlap.
CONSTANTS
    Transports = {"auto"}
    UsbSockets = {}
    UsbTracking = FALSE
    StrayGoodbyes = FALSE
SPECIFICATION Spec
CHECK_DEADLOCK FALSE
INVARIANTS
    CleanAfterDestruction
