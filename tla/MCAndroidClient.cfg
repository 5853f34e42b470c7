\* A server within reach over WiFi, USB or both.
CONSTANT
    Reaches = {{"wifi"}, {"usb"}, {"wifi", "usb"}}
SPECIFICATION FairSpec
\* The application may be destroyed.
CHECK_DEADLOCK FALSE
INVARIANTS
    TypeOK
    ResetLeavesNothing
    ConnectedReceives
PROPERTIES
    ListensBeforeConnect
    UsbLossReturnsToRetry
