--------------------------- MODULE MCDeviceAccess ----------------------------
(* Instances of DeviceAccess for TLC. *)
EXTENDS DeviceAccess
=============================================================================
