-------------------------- MODULE MCDialEstablish ---------------------------
(* Establishment with name lookup, instantiated for TLC.                   *)
EXTENDS DialEstablish

CONSTANTS i1, i2

\* defaultRetransmitSchedule, in seconds.
OneAndThree == <<1, 3>>
=============================================================================
