------------------------- MODULE MCDeviceLifecycle --------------------------
(* Small instances of DeviceLifecycle for TLC.                             *)
EXTENDS DeviceLifecycle

CONSTANTS s1, s2, l1, l2, d1, w1
=============================================================================
