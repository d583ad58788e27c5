----------------------------- MODULE MCExchange -----------------------------
(* Small instances of Exchange for TLC.                                    *)
EXTENDS Exchange, TLC

CONSTANTS p1, p2, k1, k2, i1

\* The two callers of Ping are interchangeable where both are bounded.
PingSymmetry == Permutations({p1, p2})
=============================================================================
