-------------------------- MODULE MCClientListing ---------------------------
(* Small instances of ClientListing for TLC.                               *)
EXTENDS ClientListing, TLC

CONSTANTS l1, l2, e1, e2, v1, v2

TwoEntities == <<e1, e2>>
ListerSymmetry == Permutations(Listers)

\* The scenario without a duplicated completion, and those with one fault.
NoFault == [t \in Triggers |-> 0]
FaultFree == {NoFault}
OneFaultOrNone == {NoFault} \cup {[NoFault EXCEPT ![t] = 1] : t \in Triggers}
=============================================================================
