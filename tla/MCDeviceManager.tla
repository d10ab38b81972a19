--------------------------- MODULE MCDeviceManager ---------------------------
(* DeviceManager for TLC.                                                   *)
EXTENDS DeviceManager
=============================================================================
