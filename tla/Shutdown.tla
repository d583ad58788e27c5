------------------------------ MODULE Shutdown ------------------------------
(***************************************************************************)
(* Client.shutdown (client.go), shared by every module of the client.      *)
(* closeOnce lets the first caller run the body; later callers wait until  *)
(* it has run.  The body records the reason and clears connected, closes   *)
(* the framer, and last closes the done channel.                           *)
(***************************************************************************)

VARIABLES
    phase,   \* progress of the closeOnce body
    reason   \* closeReason

connVars == <<phase, reason>>

Phases == {"open", "recorded", "framerClosed", "done"}

OpenConnection(noReason) == phase = "open" /\ reason = noReason

FramerClosed == phase \in {"framerClosed", "done"}

\* The first statements of the body, or nothing when another caller ran them.
EnterShutdown(r) ==
    IF phase = "open"
    THEN phase' = "recorded" /\ reason' = r
    ELSE UNCHANGED connVars

\* Mutant: done is closed again, which panics, as if closeOnce were missing.
CloseBodyTwice ==
    /\ phase # "open"
    /\ phase' = CASE phase = "recorded" -> "framerClosed"
                  [] phase = "framerClosed" -> "done"
                  [] OTHER -> "panic"
    /\ UNCHANGED reason

\* The rest of the body.
CloseBody ==
    /\ phase \in {"recorded", "framerClosed"}
    /\ phase' = IF phase = "recorded" THEN "framerClosed" ELSE "done"
    /\ UNCHANGED reason
=============================================================================
