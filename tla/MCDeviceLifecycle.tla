------------------------- MODULE MCDeviceLifecycle -------------------------
(* Model-checking instances of DeviceLifecycle: the configurations give    *)
(* the number of devices, the requests in flight and what may fail.        *)
EXTENDS DeviceLifecycle
=============================================================================
