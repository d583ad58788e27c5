--------------------------- MODULE MCBlinkDevice ----------------------------
(* The blink device and its command expectations, instantiated for TLC.    *)
EXTENDS BlinkDevice

CONSTANT w1

\* Off once, then on twice.
OffOnOn == << [command |-> "off", count |-> 1], [command |-> "on", count |-> 2] >>
=============================================================================
