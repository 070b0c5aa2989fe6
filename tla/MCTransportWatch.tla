-------------------------- MODULE MCTransportWatch --------------------------
\* One device that is reachable over USB and over the network.
EXTENDS TransportWatch, TLC
CONSTANTS d1, usb1, tcp1
MCDeviceOf == [t \in Transports |-> d1]
MCAddressOf == [t \in Transports |-> IF t = tcp1 THEN "host" ELSE "none"]
=============================================================================
