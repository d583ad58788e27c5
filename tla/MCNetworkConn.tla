--------------------------- MODULE MCNetworkConn ----------------------------
(* The simulated network, instantiated for TLC.                            *)
EXTENDS NetworkConn, TLC

CONSTANTS loop, advancer

\* One request has its reply fragmented and held back, another coalesced.
TwoTriggers ==
    {[fragment |-> TRUE, coalesce |-> FALSE, delay |-> 1],
     [fragment |-> FALSE, coalesce |-> TRUE, delay |-> 0]}
=============================================================================
