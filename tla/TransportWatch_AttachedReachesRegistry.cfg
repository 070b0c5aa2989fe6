SPECIFICATION WatchSpec
CONSTANTS
    Transports = {usb1}
    Devices = {d1}
    DeviceOf <- MCDeviceOf
    AddressOf <- MCAddressOf
    InScope = {usb1}
    Scans = {"startup"}
    Idents = {1, 2}
    MayAnswerEmpty = FALSE
    None = None
    d1 = d1
    usb1 = usb1
    tcp1 = tcp1
PROPERTY AttachedReachesRegistry
