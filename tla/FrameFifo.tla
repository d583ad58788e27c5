----------------------------- MODULE FrameFifo ------------------------------
(***************************************************************************)
(* What the simulated network promises the peer of a session, whatever it  *)
(* does to the frames on the way (simulator/network.go): every frame that  *)
(* was encrypted arrives once, whole and in the order of its nonce, or the *)
(* connection ends before it; none arrives before it is due.               *)
(***************************************************************************)
EXTENDS Naturals, Sequences

CONSTANT MaxDuration    \* largest time of the clock

VARIABLES
    now,        \* virtual time
    due,        \* due[n]: when the n-th frame may arrive
    delivered   \* the frames that arrived

vars == <<now, due, delivered>>

Init == now = 0 /\ due = <<>> /\ delivered = <<>>

\* The next frame is encrypted.
Send ==
    /\ Len(due') = Len(due) + 1
    /\ due = SubSeq(due', 1, Len(due))
    /\ UNCHANGED <<now, delivered>>

\* A due time beyond the clock's range delays nothing.
Arrives(n) == due[n] <= now \/ due[n] > MaxDuration

Deliver ==
    /\ Len(delivered) < Len(due)
    /\ Arrives(Len(delivered) + 1)
    /\ delivered' = Append(delivered, Len(delivered) + 1)
    /\ UNCHANGED <<now, due>>

Advance ==
    /\ now' \in now .. MaxDuration
    /\ UNCHANGED <<due, delivered>>

Next == Send \/ Deliver \/ Advance

Spec == Init /\ [][Next]_vars
=============================================================================
