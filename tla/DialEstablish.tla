--------------------------- MODULE DialEstablish ----------------------------
(***************************************************************************)
(* One DialWithContext (client.go): name lookup, dial, Noise handshake and *)
(* Hello under one deadline, against a peer that answers, misbehaves,      *)
(* closes or is silent.  The deadline acts twice, through the context,     *)
(* whose AfterFunc closes the connection, and through the connection's own *)
(* deadline; their order is not fixed.                                     *)
(***************************************************************************)
EXTENDS MdnsLookup

CONSTANTS
    Timeouts,    \* the timeouts of the caller, 0 for none
    Transports   \* "noise", "plain", "badKey" or "conflict"

ASSUME DialAssumption ==
    /\ Timeouts \subseteq Nat
    /\ Transports \subseteq {"noise", "plain", "badKey", "conflict"}

VARIABLES
    transport,
    pc,
    conn,          \* "none", "open" or "closed": the client's end
    connDeadline,  \* the connection's deadline, 0 for none
    peerClosed,
    closer,        \* the AfterFunc: "none", "armed", "started", "ran", "stopped"
    result         \* what DialWithContext returned: [kind, at, io, cause]

dialVars == <<transport, pc, conn, connDeadline, peerClosed, closer, result>>
vars == <<contextVars, lookupVars, dialVars>>

NoResult == [kind |-> "none", at |-> "none", io |-> "none", cause |-> "none"]

Init ==
    /\ InitLookup
    /\ timeout \in Timeouts
    /\ transport \in Transports
    /\ pc = "policy"
    /\ conn = "none" /\ connDeadline = 0 /\ peerClosed = FALSE
    /\ closer = "none"
    /\ result = NoResult

-----------------------------------------------------------------------------
(* The end of an attempt.  The deferred calls stop the AfterFunc, unless   *)
(* it has started, and cancel the context.                                 *)

Stopped == IF closer = "armed" THEN "stopped" ELSE closer

Cancelled == IF ctx = "live" THEN "canceled" ELSE ctx

Return(r) ==
    /\ pc' = "returned"
    /\ result' = r
    /\ closer' = Stopped
    /\ ctx' = Cancelled

Error(io, cause) == [kind |-> "error", at |-> pc, io |-> io, cause |-> cause]

\* Mutant: only the context is asked.
EstablishmentCauseContext(io) == IF ctx # "live" THEN ctx ELSE "none"

EstablishmentCause(io) ==
    IF ctx # "live" THEN ctx
    ELSE IF timeout > 0 /\ io = "deadline" THEN "deadline"
    ELSE "none"

\* An error after the dial closes the connection.
Abandon(io, cause) ==
    /\ conn' = "closed"
    /\ Return(Error(io, cause))
    /\ UNCHANGED <<now, timeout, lookupVars, transport, connDeadline, peerClosed>>

-----------------------------------------------------------------------------
(* DialWithContext, step by step.                                          *)

\* Exactly one of a key and the opt-in to plaintext.
CheckPolicy ==
    /\ pc = "policy"
    /\ IF transport = "conflict"
       THEN Return(Error("policy", "none"))
       ELSE pc' = "dial" /\ UNCHANGED <<result, closer, ctx>>
    /\ UNCHANGED <<now, timeout, lookupVars, transport, conn, connDeadline, peerClosed>>

\* The dialer of a .local name begins with the lookup.
Lookup ==
    /\ pc = "dial"
    /\ LookupCall
    /\ UNCHANGED <<contextVars, dialVars>>

DialError ==
    /\ pc = "dial" /\ lookup \in {"answered", "failed"}
    /\ Return(Error("dial", "none"))
    /\ UNCHANGED <<now, timeout, lookupVars, transport, conn, connDeadline, peerClosed>>

\* Mutant: the connection of an attempt without a deadline is not closed
\* with its context.
DialTimed ==
    /\ pc = "dial" /\ lookup = "answered"
    /\ conn' = "open"
    /\ closer' = IF timeout = 0 THEN "stopped"
                 ELSE IF ctx = "live" THEN "armed" ELSE "started"
    /\ pc' = "setDeadline"
    /\ UNCHANGED <<contextVars, lookupVars, transport, connDeadline, peerClosed, result>>

\* The AfterFunc of a context that has ended starts at once.
Dial ==
    /\ pc = "dial" /\ lookup = "answered"
    /\ conn' = "open"
    /\ closer' = IF ctx = "live" THEN "armed" ELSE "started"
    /\ pc' = "setDeadline"
    /\ UNCHANGED <<contextVars, lookupVars, transport, connDeadline, peerClosed, result>>

\* SetDeadline before the handshake; a closed pipe is left to the handshake.
SetDeadline ==
    /\ pc = "setDeadline"
    /\ \/ /\ connDeadline' = timeout
          /\ pc' = "handshake"
          /\ UNCHANGED <<contextVars, lookupVars, transport, conn, peerClosed, closer, result>>
       \/ conn = "closed" /\ timeout > 0 /\ Abandon("closed", "none")

Expired == connDeadline > 0 /\ now >= connDeadline

\* The ways a read or write of the handshake or of Hello can fail.
IOError(io) ==
    \/ io = "closed" /\ (conn = "closed" \/ peerClosed)
    \/ io = "deadline" /\ Expired
    \/ io = "protocol" /\ conn = "open" /\ ~peerClosed

HandshakeError(io) ==
    /\ pc = "handshake" /\ transport = "noise"
    /\ IOError(io)
    /\ Abandon(io, EstablishmentCause(io))

\* A key that is no 32-byte base64 is refused only now.
KeyError ==
    /\ pc = "handshake" /\ transport = "badKey"
    /\ Abandon("key", "none")

\* NewNoiseClientFramer clears the deadline when it returns.
Handshake ==
    /\ pc = "handshake" /\ transport \in {"noise", "plain"}
    /\ transport = "noise" => conn = "open" /\ ~Expired
    /\ connDeadline' = IF transport = "noise" THEN 0 ELSE connDeadline
    /\ pc' = "restore"
    /\ UNCHANGED <<contextVars, lookupVars, transport, conn, peerClosed, closer, result>>

RestoreDeadline ==
    /\ pc = "restore"
    /\ \/ /\ timeout > 0 => conn = "open"
          /\ connDeadline' = timeout
          /\ pc' = "hello"
          /\ UNCHANGED <<contextVars, lookupVars, transport, conn, peerClosed, closer, result>>
       \/ conn = "closed" /\ timeout > 0 /\ Abandon("closed", "none")

HelloError(io) ==
    /\ pc = "hello"
    /\ IOError(io)
    /\ Abandon(io, EstablishmentCause(io))

Hello ==
    /\ pc = "hello"
    /\ conn = "open" /\ ~Expired
    /\ pc' = "clear"
    /\ UNCHANGED <<contextVars, lookupVars, transport, conn, connDeadline,
                   peerClosed, closer, result>>

\* A closed pipe is left to the next step.
ClearDeadline ==
    /\ pc = "clear"
    /\ \/ /\ connDeadline' = 0
          /\ pc' = "stop"
          /\ UNCHANGED <<contextVars, lookupVars, transport, conn, peerClosed, closer, result>>
       \/ conn = "closed" /\ Abandon("closed", "none")

\* Mutant: nobody looks at what stopEstablishmentClose returns.
StopEstablishmentCloseBlind ==
    /\ pc = "stop"
    /\ Return([NoResult EXCEPT !.kind = "client"])
    /\ UNCHANGED <<now, timeout, lookupVars, transport, conn, connDeadline, peerClosed>>

\* The client is handed out only if the AfterFunc had not started.
StopEstablishmentClose ==
    /\ pc = "stop"
    /\ IF closer = "armed"
       THEN /\ Return([NoResult EXCEPT !.kind = "client"])
            /\ UNCHANGED <<now, timeout, lookupVars, transport, conn,
                           connDeadline, peerClosed>>
       ELSE Abandon("closed", ctx)

DialWithContext ==
    \/ CheckPolicy \/ Lookup \/ DialError \/ Dial \/ SetDeadline
    \/ Handshake \/ RestoreDeadline \/ Hello \/ ClearDeadline
    \/ StopEstablishmentClose \/ KeyError
    \/ \E io \in {"closed", "deadline"} : HandshakeError(io) \/ HelloError(io)

-----------------------------------------------------------------------------
(* The context, the clock and the peer.                                    *)

EndContext(cause) ==
    /\ ctx = "live" /\ pc # "returned"
    /\ cause = "deadline" => timeout > 0 /\ now >= timeout
    /\ ctx' = cause
    /\ closer' = IF closer = "armed" THEN "started" ELSE closer
    /\ UNCHANGED <<now, timeout, lookupVars, transport, pc, conn, connDeadline,
                   peerClosed, result>>

\* The AfterFunc runs, maybe after DialWithContext has returned.
CloseConn ==
    /\ closer = "started"
    /\ closer' = "ran"
    /\ conn' = "closed"
    /\ UNCHANGED <<contextVars, lookupVars, transport, pc, connDeadline, peerClosed, result>>

\* The peer answers with something that is refused, or closes.
PeerMisbehaves ==
    \/ HandshakeError("protocol")
    \/ HelloError("protocol")
    \/ /\ conn = "open" /\ ~peerClosed
       /\ peerClosed' = TRUE
       /\ UNCHANGED <<contextVars, lookupVars, transport, pc, conn, connDeadline,
                      closer, result>>

\* Time passes when no worker is due; an attempt starts its lookup at once.
Tick ==
    /\ now < Horizon /\ pc \notin {"policy", "returned"} /\ lookup # "idle"
    /\ \A i \in Interfaces : ~Due(i)
    /\ now' = now + 1
    /\ UNCHANGED <<timeout, ctx, lookupVars, dialVars>>

Next ==
    \/ DialWithContext
    \/ \E i \in Interfaces : Worker(i) /\ UNCHANGED <<contextVars, dialVars>>
    \/ ContextClose /\ UNCHANGED <<contextVars, dialVars>>
    \/ \E i \in Interfaces, p \in {"answer", "unrelated"} :
          Multicast(i, p) /\ UNCHANGED <<contextVars, dialVars>>
    \/ \E cause \in {"deadline", "canceled"} : EndContext(cause)
    \/ CloseConn
    \/ PeerMisbehaves
    \/ Tick

Spec == Init /\ [][Next]_vars

\* Goroutines, timers and time go on; peers, other hosts and the caller's
\* cancellation owe nothing.  The handshake and Hello may stay unanswered.
Fairness ==
    /\ WF_vars(CheckPolicy \/ Lookup \/ SetDeadline \/ RestoreDeadline
               \/ ClearDeadline \/ StopEstablishmentClose \/ KeyError
               \/ (transport = "plain" /\ Handshake)
               \/ \E io \in {"closed", "deadline"} : HandshakeError(io) \/ HelloError(io))
    /\ WF_vars(Dial \/ DialError)
    /\ \A i \in Interfaces : WF_vars(Worker(i) /\ UNCHANGED <<contextVars, dialVars>>)
    /\ WF_vars(ContextClose /\ UNCHANGED <<contextVars, dialVars>>)
    /\ WF_vars(EndContext("deadline"))
    /\ WF_vars(CloseConn)
    /\ WF_vars(Tick)

FairSpec == Spec /\ Fairness

-----------------------------------------------------------------------------
(* Properties.                                                             *)

\* What an attempt leaves behind, then and ever after: a client that was
\* returned has an open connection without a deadline, which no late end of
\* the establishment closes; an attempt that failed has closed its
\* connection and its sockets, and no worker still reads.
OutcomeClean ==
    pc = "returned" =>
        /\ result.kind = "client" =>
              conn = "open" /\ connDeadline = 0 /\ closer = "stopped"
        /\ result.kind = "error" => conn # "open"
        /\ \A i \in Interfaces : socket[i] # "open" /\ worker[i].at \notin {"write", "read"}

\* A handshake or Hello that ends because time is up or the caller gave up
\* says so, whichever of the context and the connection's deadline was first.
DeadlineNamed ==
    /\ pc = "returned" /\ result.at \in {"handshake", "hello"}
    /\ result.io = "deadline" \/ (result.io = "closed" /\ ~peerClosed)
    => result.cause # "none"

\* With a timeout, or once its context has ended, an attempt returns, however
\* silent the peer and the network are.
DialReturns == (timeout > 0 \/ ctx # "live") ~> pc = "returned"
=============================================================================
