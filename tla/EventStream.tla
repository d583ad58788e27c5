---------------------------- MODULE EventStream -----------------------------
(***************************************************************************)
(* What the receive side of the client promises its user, without loops,   *)
(* queues or locks: the messages of the wire are accepted and dispatched   *)
(* one by one, in order and without a gap, none is accepted once the       *)
(* client is closed, and no more than Window of them are ever waiting.     *)
(* The message accepted before the client was closed may still be          *)
(* dispatched after it: it is the only one.                                *)
(***************************************************************************)
EXTENDS Naturals

CONSTANT Window  \* messages that may be received and not yet dispatched

VARIABLES
    received,    \* messages taken off the wire
    accepted,    \* messages the dispatcher has decided to dispatch
    dispatched,  \* messages applied to the registry and given to callbacks
    closed       \* the done channel is closed

vars == <<received, accepted, dispatched, closed>>

Init == received = 0 /\ accepted = 0 /\ dispatched = 0 /\ closed = FALSE

Receive ==
    /\ received - dispatched < Window
    /\ received' = received + 1
    /\ UNCHANGED <<accepted, dispatched, closed>>

Accept ==
    /\ ~closed
    /\ accepted = dispatched
    /\ accepted < received
    /\ accepted' = accepted + 1
    /\ UNCHANGED <<received, dispatched, closed>>

Dispatch ==
    /\ dispatched < accepted
    /\ dispatched' = dispatched + 1
    /\ UNCHANGED <<received, accepted, closed>>

Close ==
    /\ closed' = TRUE
    /\ UNCHANGED <<received, accepted, dispatched>>

Next == Receive \/ Accept \/ Dispatch \/ Close

Spec == Init /\ [][Next]_vars
=============================================================================
