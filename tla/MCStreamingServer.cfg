\* One transport at a time, as the setting wifi or usb_adb asks for.
CONSTANTS
    Transports = {"wifi", "usb_adb"}
    UsbSockets = {"usb1", "usb2"}
    UsbTracking = TRUE
    StrayGoodbyes = FALSE
SPECIFICATION FairSpec
\* A destroyed server does nothing more.
CHECK_DEADLOCK FALSE
INVARIANTS
    TypeOK
    ConnectionAgrees
    NeverAssignedJoinable
    CleanAfterDestruction
PROPERTIES
    OnlyEncodeKeepsStop
