-------------------------- MODULE MCClientDispatch --------------------------
(* A small instance of ClientDispatch for TLC.                             *)
EXTENDS ClientDispatch, TLC

CONSTANTS s1, s2, a, b

\* s1 is a state subscription with two IDs, s2 one with the first of them.
SubscribedIds == s1 :> <<a, b>> @@ s2 :> <<a>>

\* One ID only, and the IDs in turn.
MixedTraffic == {<<a, a, a>>, <<a, b, a>>}
=============================================================================
