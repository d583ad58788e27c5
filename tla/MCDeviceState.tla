--------------------------- MODULE MCDeviceState ----------------------------
(* A small instance of DeviceState for TLC.                                *)
EXTENDS DeviceState

CONSTANTS s1, s2, w1, a1, a2, k1, k2

\* Two events of the first tick and one of the second.
ThreeEvents == <<[at |-> 1, key |-> k1], [at |-> 1, key |-> k2],
                 [at |-> 2, key |-> k1]>>
=============================================================================
