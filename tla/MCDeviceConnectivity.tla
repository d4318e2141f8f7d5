------------------------ MODULE MCDeviceConnectivity ------------------------
(* Instances of DeviceConnectivity for TLC.                                *)
EXTENDS DeviceConnectivity
=============================================================================
