SPECIFICATION WatchSpec
CONSTANTS
    Transports = {usb1, tcp1}
    Devices = {d1}
    DeviceOf <- MCDeviceOf
    AddressOf <- MCAddressOf
    InScope = {usb1}
    Scans = {"manual"}
    Idents = {1, 2}
    MayAnswerEmpty = TRUE
    None = None
    d1 = d1
    usb1 = usb1
    tcp1 = tcp1
INVARIANT WatchTypeOK
PROPERTIES
    ArrivalsAreRecorded
    OnlyUnseenIsEnded
