------------------------------ MODULE Exchange ------------------------------
(***************************************************************************)
(* The request/response exchanges of an established client (client.go):    *)
(* Ping, the keepalive loop's probes and DeviceInfo.  The Native API has   *)
(* no correlation ID, so each message type has a one-token gate, and every *)
(* exchange is bounded by a watchdog that closes the connection when the   *)
(* caller's context ends while the request may be in flight.               *)
(*                                                                         *)
(* A call is one activation of probe or DeviceInfo.  Requests and          *)
(* responses travel in FIFO order; a message is represented by the call    *)
(* whose request it carries or answers, a fact the real frames do not      *)
(* carry and no action tests, except to say which gate the frame is for.   *)
(***************************************************************************)
EXTENDS Shutdown, Naturals, Sequences, FiniteSets

CONSTANTS
    PingCalls,       \* activations of Ping by callers
    KeepaliveCalls,  \* activations of probe by the keepalive loop
    InfoCalls,       \* activations of DeviceInfo
    BoundedCalls,    \* the calls whose context ends some day
    WireCap,         \* requests the transport buffers before a write blocks
    None             \* no call

Calls == PingCalls \cup KeepaliveCalls \cup InfoCalls

ASSUME CallsAssumption ==
    /\ InfoCalls \cap (PingCalls \cup KeepaliveCalls) = {}
    /\ PingCalls \cap KeepaliveCalls = {}
    /\ KeepaliveCalls \subseteq BoundedCalls
    /\ BoundedCalls \subseteq Calls
    /\ None \notin Calls

ASSUME WireCapAssumption == WireCap \in Nat \ {0}

Gates == {"pingGate", "deviceInfoGate"}
GateOf(c) == IF c \in InfoCalls THEN "deviceInfoGate" ELSE "pingGate"

VARIABLES
    pc,        \* where each call is
    ctxEnded,  \* ctxEnded[c]: the call's context is done
    gate,      \* gate[g]: the token is in the channel
    watchdog,  \* the context.AfterFunc of each call
    verdict,   \* the atomic verdict of each call
    resp,      \* content of the call's response channel (capacity 1)
    result,    \* what the call returned
    toPeer,    \* requests on the wire
    toClient,  \* responses on the wire or in the read buffer
    wireUp,    \* the peer has not reset the connection
    reader,    \* readLoop
    keepalive  \* keepaliveLoop

callVars == <<pc, ctxEnded, verdict, resp, result>>
wireVars == <<toPeer, toClient, wireUp>>
vars == <<pc, ctxEnded, gate, watchdog, verdict, resp, result, phase, reason,
          toPeer, toClient, wireUp, reader, keepalive>>

PCs == {"idle", "ctxCheck", "doneCheck", "waitGate", "register", "send",
        "await", "expire", "join", "return", "returned"}
Results == {"none", "ok", "notStarted", "closed", "sendErr", "timeout"}
ReasonKinds == {"none", "other", "timeout", "probe"}

Pending == "pending"
Completed == "completed"
Expired == "expired"

NoReason == [kind |-> "none", call |-> None]
Holding == {"register", "send", "await", "expire", "join", "return"}
Waiting == {"idle", "ctxCheck", "doneCheck", "waitGate", "register"}
Registered == {"send", "await", "expire", "join", "return"}

Init ==
    /\ pc = [c \in Calls |-> "idle"]
    /\ ctxEnded = [c \in Calls |-> FALSE]
    /\ gate = [g \in Gates |-> TRUE]
    /\ watchdog = [c \in Calls |-> "none"]
    /\ verdict = [c \in Calls |-> Pending]
    /\ resp = [c \in Calls |-> None]
    /\ result = [c \in Calls |-> "none"]
    /\ OpenConnection(NoReason)
    /\ toPeer = <<>>
    /\ toClient = <<>>
    /\ wireUp = TRUE
    /\ reader = [state |-> "reading", msg |-> None, to |-> {}]
    /\ keepalive = [state |-> IF KeepaliveCalls = {} THEN "ended" ELSE "timer",
                    call |-> None]

-----------------------------------------------------------------------------
CloseStep ==
    /\ CloseBody
    /\ UNCHANGED <<callVars, gate, watchdog, wireVars, reader, keepalive>>

\* Close by the owner, and the dial context watcher started by readLoop.
Close ==
    /\ phase = "open"
    /\ EnterShutdown([kind |-> "other", call |-> None])
    /\ UNCHANGED <<callVars, gate, watchdog, wireVars, reader, keepalive>>

-----------------------------------------------------------------------------
(* One exchange.                                                           *)

Goto(c, label) == pc' = [pc EXCEPT ![c] = label]

Return(c, r) ==
    /\ pc' = [pc EXCEPT ![c] = "returned"]
    /\ result' = [result EXCEPT ![c] = r]

\* The caller runs the deferred calls, then returns r.
Leave(c, r) ==
    /\ pc' = [pc EXCEPT ![c] = "return"]
    /\ result' = [result EXCEPT ![c] = r]

CheckContext(c) ==
    /\ pc[c] = "ctxCheck"
    /\ IF ctxEnded[c] THEN Return(c, "notStarted")
                      ELSE Goto(c, "doneCheck") /\ UNCHANGED result
    /\ UNCHANGED <<ctxEnded, gate, watchdog, verdict, resp, connVars, wireVars,
                   reader, keepalive>>

CheckDone(c) ==
    /\ pc[c] = "doneCheck"
    /\ IF phase = "done" THEN Return(c, "closed")
                         ELSE Goto(c, "waitGate") /\ UNCHANGED result
    /\ UNCHANGED <<ctxEnded, gate, watchdog, verdict, resp, connVars, wireVars,
                   reader, keepalive>>

\* The select on the context, the client's done and the gate: any ready
\* branch may be taken.
AcquireGate(c) ==
    /\ pc[c] = "waitGate"
    /\ gate[GateOf(c)]
    /\ gate' = [gate EXCEPT ![GateOf(c)] = FALSE]
    /\ Goto(c, "register")
    /\ UNCHANGED <<ctxEnded, watchdog, verdict, resp, result, connVars,
                   wireVars, reader, keepalive>>

\* Mutant: the deferred release is installed before the select.
LeaveGateQueueReleasing(c) ==
    /\ pc[c] = "waitGate"
    /\ \/ ctxEnded[c] /\ Return(c, "notStarted")
       \/ phase = "done" /\ Return(c, "closed")
    /\ gate' = [gate EXCEPT ![GateOf(c)] = TRUE]
    /\ UNCHANGED <<ctxEnded, watchdog, verdict, resp, connVars, wireVars,
                   reader, keepalive>>

\* Mutant: the queue for the gate ignores the context.
LeaveGateQueueOnDoneOnly(c) ==
    /\ pc[c] = "waitGate"
    /\ phase = "done" /\ Return(c, "closed")
    /\ UNCHANGED <<ctxEnded, gate, watchdog, verdict, resp, connVars, wireVars,
                   reader, keepalive>>

LeaveGateQueue(c) ==
    /\ pc[c] = "waitGate"
    /\ \/ ctxEnded[c] /\ Return(c, "notStarted")
       \/ phase = "done" /\ Return(c, "closed")
    /\ UNCHANGED <<ctxEnded, gate, watchdog, verdict, resp, connVars, wireVars,
                   reader, keepalive>>

\* Mutant: no watchdog bounds the write.
RegisterUnwatched(c) ==
    /\ pc[c] = "register"
    /\ Goto(c, "send")
    /\ UNCHANGED <<ctxEnded, gate, watchdog, verdict, resp, result, connVars,
                   wireVars, reader, keepalive>>

\* The completion handler and the watchdog are installed.
Register(c) ==
    /\ pc[c] = "register"
    /\ watchdog' = [watchdog EXCEPT ![c] = "armed"]
    /\ Goto(c, "send")
    /\ UNCHANGED <<ctxEnded, gate, verdict, resp, result, connVars, wireVars,
                   reader, keepalive>>

\* send: it blocks while the transport is full and fails once the framer is
\* closed or the peer is gone.
Send(c) ==
    /\ pc[c] = "send"
    /\ \/ /\ FramerClosed \/ ~wireUp
          /\ Leave(c, "sendErr")
          /\ UNCHANGED toPeer
       \/ /\ ~FramerClosed /\ wireUp
          /\ Len(toPeer) < WireCap
          /\ toPeer' = Append(toPeer, c)
          /\ Goto(c, "await")
          /\ UNCHANGED result
    /\ UNCHANGED <<ctxEnded, gate, watchdog, verdict, resp, connVars, toClient,
                   wireUp, reader, keepalive>>

\* The final select: response, context, done.
AwaitResponse(c) ==
    /\ pc[c] = "await"
    /\ resp[c] # None
    /\ IF verdict[c] = Pending
       THEN verdict' = [verdict EXCEPT ![c] = Completed] /\ Leave(c, "ok")
       ELSE UNCHANGED verdict /\ Leave(c, "timeout")
    /\ UNCHANGED <<ctxEnded, gate, watchdog, resp, connVars, wireVars, reader,
                   keepalive>>

\* Mutant: an exchange that gives up leaves the connection open.
AwaitContextKeepingOpen(c) ==
    /\ pc[c] = "await"
    /\ ctxEnded[c]
    /\ verdict' = [verdict EXCEPT ![c] = Expired]
    /\ Leave(c, "timeout")
    /\ UNCHANGED <<ctxEnded, gate, watchdog, resp, connVars, wireVars, reader,
                   keepalive>>

AwaitContext(c) ==
    /\ pc[c] = "await"
    /\ ctxEnded[c]
    /\ IF verdict[c] = Pending
       THEN /\ verdict' = [verdict EXCEPT ![c] = Expired]
            /\ Goto(c, "expire")
            /\ UNCHANGED result
       ELSE UNCHANGED verdict /\ Leave(c, "timeout")
    /\ UNCHANGED <<ctxEnded, gate, watchdog, resp, connVars, wireVars, reader,
                   keepalive>>

AwaitDone(c) ==
    /\ pc[c] = "await"
    /\ phase = "done"
    /\ Leave(c, "closed")
    /\ UNCHANGED <<ctxEnded, gate, watchdog, verdict, resp, connVars, wireVars,
                   reader, keepalive>>

\* The caller itself won the verdict: shutdown(reason), then return reason.
ExpireShutdown(c) ==
    /\ pc[c] = "expire"
    /\ EnterShutdown([kind |-> "timeout", call |-> c])
    /\ Goto(c, "join")
    /\ UNCHANGED <<ctxEnded, gate, watchdog, verdict, resp, result, wireVars,
                   reader, keepalive>>

JoinShutdown(c) ==
    /\ pc[c] = "join"
    /\ phase = "done"
    /\ Leave(c, "timeout")
    /\ UNCHANGED <<ctxEnded, gate, watchdog, verdict, resp, connVars, wireVars,
                   reader, keepalive>>

\* The deferred calls: stop the watchdog unless it runs already, remove the
\* handler, put the token back.
Finish(c) ==
    /\ pc[c] = "return"
    /\ watchdog' = [watchdog EXCEPT ![c] = IF @ = "armed" THEN "over" ELSE @]
    /\ gate' = [gate EXCEPT ![GateOf(c)] = TRUE]
    /\ Goto(c, "returned")
    /\ UNCHANGED <<ctxEnded, verdict, resp, result, connVars, wireVars, reader,
                   keepalive>>

ExchangeStep(c) ==
    \/ CheckContext(c)
    \/ CheckDone(c)
    \/ AcquireGate(c)
    \/ LeaveGateQueue(c)
    \/ Register(c)
    \/ Send(c)
    \/ AwaitResponse(c)
    \/ AwaitContext(c)
    \/ AwaitDone(c)
    \/ ExpireShutdown(c)
    \/ JoinShutdown(c)
    \/ Finish(c)

Probe(c) == c \in PingCalls \cup KeepaliveCalls /\ ExchangeStep(c)
DeviceInfo(c) == c \in InfoCalls /\ ExchangeStep(c)

\* A caller calls Ping or DeviceInfo.
Begin(c) ==
    /\ c \in PingCalls \cup InfoCalls
    /\ pc[c] = "idle"
    /\ Goto(c, "ctxCheck")
    /\ UNCHANGED <<ctxEnded, gate, watchdog, verdict, resp, result, connVars,
                   wireVars, reader, keepalive>>

\* A deadline passes or a caller cancels.
EndContext(c) ==
    /\ c \in BoundedCalls
    /\ c \in KeepaliveCalls => pc[c] # "idle"
    /\ pc[c] # "returned"
    /\ ~ctxEnded[c]
    /\ ctxEnded' = [ctxEnded EXCEPT ![c] = TRUE]
    /\ UNCHANGED <<pc, gate, watchdog, verdict, resp, result, connVars,
                   wireVars, reader, keepalive>>

-----------------------------------------------------------------------------
(* The watchdog goroutine: it starts when the context ends unless it was   *)
(* stopped, tries to win the verdict, and closes the connection if it does.*)

WatchdogStart(c) ==
    /\ watchdog[c] = "armed"
    /\ ctxEnded[c]
    /\ watchdog' = [watchdog EXCEPT ![c] = "running"]
    /\ UNCHANGED <<callVars, gate, connVars, wireVars, reader, keepalive>>

\* Mutant: the watchdog stores the verdict instead of comparing and swapping.
WatchdogVerdictStore(c) ==
    /\ watchdog[c] = "running"
    /\ verdict' = [verdict EXCEPT ![c] = Expired]
    /\ watchdog' = [watchdog EXCEPT ![c] = "fired"]
    /\ UNCHANGED <<pc, ctxEnded, resp, result, gate, connVars, wireVars, reader,
                   keepalive>>

WatchdogVerdict(c) ==
    /\ watchdog[c] = "running"
    /\ IF verdict[c] = Pending
       THEN /\ verdict' = [verdict EXCEPT ![c] = Expired]
            /\ watchdog' = [watchdog EXCEPT ![c] = "fired"]
       ELSE /\ UNCHANGED verdict
            /\ watchdog' = [watchdog EXCEPT ![c] = "over"]
    /\ UNCHANGED <<pc, ctxEnded, resp, result, gate, connVars, wireVars, reader,
                   keepalive>>

WatchdogShutdown(c) ==
    /\ watchdog[c] = "fired"
    /\ EnterShutdown([kind |-> "timeout", call |-> c])
    /\ watchdog' = [watchdog EXCEPT ![c] = "over"]
    /\ UNCHANGED <<callVars, gate, wireVars, reader, keepalive>>

Watchdog(c) == WatchdogStart(c) \/ WatchdogVerdict(c) \/ WatchdogShutdown(c)

-----------------------------------------------------------------------------
(* keepaliveLoop.                                                          *)

KeepaliveTick ==
    /\ keepalive.state = "timer"
    /\ \E c \in KeepaliveCalls :
          /\ pc[c] = "idle"
          /\ keepalive' = [state |-> "probing", call |-> c]
          /\ Goto(c, "ctxCheck")
    /\ UNCHANGED <<ctxEnded, gate, watchdog, verdict, resp, result, connVars,
                   wireVars, reader>>

KeepaliveDone ==
    /\ keepalive.state = "timer"
    /\ phase = "done"
    /\ keepalive' = [state |-> "ended", call |-> None]
    /\ UNCHANGED <<callVars, gate, watchdog, connVars, wireVars, reader>>

\* Mutant: a cycle that never acquired the gate condemns the connection.
KeepaliveOutcomeUnyielding ==
    /\ keepalive.state = "probing"
    /\ pc[keepalive.call] = "returned"
    /\ IF result[keepalive.call] = "ok"
       THEN /\ keepalive' = [state |-> "timer", call |-> None]
            /\ UNCHANGED connVars
       ELSE /\ EnterShutdown([kind |-> "probe", call |-> keepalive.call])
            /\ keepalive' = [state |-> "ended", call |-> None]
    /\ UNCHANGED <<callVars, gate, watchdog, wireVars, reader>>

\* A probe that did not start yields to the next interval; any other failure
\* closes the connection and ends the loop.
KeepaliveOutcome ==
    /\ keepalive.state = "probing"
    /\ pc[keepalive.call] = "returned"
    /\ IF result[keepalive.call] \in {"ok", "notStarted"}
       THEN /\ keepalive' = [state |-> "timer", call |-> None]
            /\ UNCHANGED connVars
       ELSE /\ EnterShutdown([kind |-> "probe", call |-> keepalive.call])
            /\ keepalive' = [state |-> "ended", call |-> None]
    /\ UNCHANGED <<callVars, gate, watchdog, wireVars, reader>>

KeepaliveLoop == KeepaliveTick \/ KeepaliveDone \/ KeepaliveOutcome

-----------------------------------------------------------------------------
(* The peer and readLoop.  The peer answers in order, late or never.  A    *)
(* frame that is already in the read buffer can be read after the framer   *)
(* is closed.                                                              *)

PeerAnswer ==
    /\ wireUp /\ ~FramerClosed
    /\ toPeer # <<>>
    /\ toPeer' = Tail(toPeer)
    /\ toClient' = Append(toClient, Head(toPeer))
    /\ UNCHANGED <<callVars, gate, watchdog, connVars, wireUp, reader, keepalive>>

PeerReset ==
    /\ wireUp
    /\ wireUp' = FALSE
    /\ toPeer' = <<>>
    /\ UNCHANGED <<callVars, gate, watchdog, connVars, toClient, reader, keepalive>>

\* deliverDirect takes its snapshot of the handlers under the lock ...
ReadFrame ==
    /\ reader.state = "reading"
    /\ toClient # <<>>
    /\ toClient' = Tail(toClient)
    /\ LET m == Head(toClient) IN
       reader' = [state |-> "deliver", msg |-> m,
                  to |-> {c \in Calls : pc[c] \in Registered
                                        /\ GateOf(c) = GateOf(m)}]
    /\ UNCHANGED <<callVars, gate, watchdog, connVars, toPeer, wireUp, keepalive>>

\* ... and runs them after it: a full response channel drops the message.
Deliver ==
    /\ reader.state = "deliver"
    /\ resp' = [c \in Calls |-> IF c \in reader.to /\ resp[c] = None
                                THEN reader.msg ELSE resp[c]]
    /\ reader' = [state |-> "reading", msg |-> None, to |-> {}]
    /\ UNCHANGED <<pc, ctxEnded, verdict, result, gate, watchdog, connVars,
                   wireVars, keepalive>>

ReadError ==
    /\ reader.state = "reading"
    /\ FramerClosed \/ (~wireUp /\ toClient = <<>>)
    /\ EnterShutdown([kind |-> "other", call |-> None])
    /\ reader' = [state |-> "stopped", msg |-> None, to |-> {}]
    /\ UNCHANGED <<callVars, gate, watchdog, wireVars, keepalive>>

ReadLoop == ReadFrame \/ Deliver \/ ReadError

-----------------------------------------------------------------------------
\* Everything has returned and the connection is closed.
Terminated ==
    /\ phase = "done"
    /\ \A c \in Calls : pc[c] \in {"idle", "returned"}
    /\ UNCHANGED vars

Next ==
    \/ \E c \in Calls :
          Begin(c) \/ Probe(c) \/ DeviceInfo(c) \/ EndContext(c) \/ Watchdog(c)
    \/ CloseStep
    \/ Close
    \/ KeepaliveLoop
    \/ ReadLoop
    \/ PeerAnswer
    \/ PeerReset
    \/ Terminated

Spec == Init /\ [][Next]_vars

(* Scheduling: every goroutine that can run does, deadlines of bounded     *)
(* contexts pass, a full response or a closed done wakes its select.  The  *)
(* peer owes nothing, and nobody has to call Close.                        *)
Fairness ==
    /\ \A c \in Calls : /\ WF_vars(ExchangeStep(c))
                         /\ WF_vars(EndContext(c))
                         /\ WF_vars(Watchdog(c))
    /\ WF_vars(CloseStep)
    /\ WF_vars(KeepaliveLoop)
    /\ WF_vars(ReadLoop)

FairSpec == Spec /\ Fairness

-----------------------------------------------------------------------------
(* Properties.                                                             *)

CallOrNone == Calls \cup {None}
Verdicts == {Pending, Completed, Expired}
WatchdogStates == {"none", "armed", "running", "fired", "over"}
Reasons == [kind : ReasonKinds, call : CallOrNone]
Readers == [state : {"reading", "deliver", "stopped"},
            msg : CallOrNone, to : SUBSET Calls]
KeepaliveStates == [state : {"timer", "probing", "ended"}, call : CallOrNone]

\* The types of the client's, the wire's and the goroutines' state.
TypeOK ==
    /\ pc \in [Calls -> PCs]
    /\ ctxEnded \in [Calls -> BOOLEAN]
    /\ gate \in [Gates -> BOOLEAN]
    /\ watchdog \in [Calls -> WatchdogStates]
    /\ verdict \in [Calls -> Verdicts]
    /\ resp \in [Calls -> CallOrNone]
    /\ result \in [Calls -> Results]
    /\ phase \in Phases
    /\ reason \in Reasons
    /\ toPeer \in Seq(Calls)
    /\ toClient \in Seq(Calls)
    /\ wireUp \in BOOLEAN
    /\ reader \in Readers
    /\ keepalive \in KeepaliveStates

\* Concurrent exchanges of one kind are serialized by the gate channel, so
\* deliverDirect never finds two of them registered for one response.
GateExclusive ==
    \A c, d \in Calls :
        /\ pc[c] \in Holding /\ pc[d] \in Holding
        /\ GateOf(c) = GateOf(d)
        => c = d

\* The connection is closing, or a watchdog that won its verdict is about
\* to call shutdown.
Condemned == phase # "open" \/ \E d \in Calls : watchdog[d] = "fired"

\* The answer to another exchange, which the protocol cannot tell from one's
\* own, reaches a caller's response channel only when the connection is
\* condemned: an exchange that gives up always takes the connection with it.
LateAnswerCondemned ==
    \A c \in Calls : resp[c] \notin {None, c} => Condemned

\* What the comment on Ping promises outright: a late response never
\* satisfies a later probe, so a call that succeeds got its own answer.
ResponseIsOwn ==
    \A c \in Calls : result[c] = "ok" => resp[c] = c

\* Exactly one of completion and expiry wins the verdict: an exchange
\* reported as success is never the reason the connection was closed.
VerdictExclusive ==
    \A c \in Calls :
        result[c] = "ok" => watchdog[c] # "fired" /\ reason.call # c

\* A probe that never acquired the gate proved nothing about the peer: the
\* exchange named by the close reason had installed its watchdog.
OnlyStartedCondemns ==
    reason.call # None => watchdog[reason.call] # "none"

\* Every exchange whose context ends returns, even with its write blocked by
\* a peer that stopped reading, or while queueing for a gate held for ever.
BoundedCallReturns ==
    \A c \in BoundedCalls : pc[c] = "ctxCheck" ~> pc[c] = "returned"

\* A keepalive probe the device never answers closes the connection.
SilentPeerDetected ==
    \A c \in KeepaliveCalls :
        pc[c] = "send" ~> result[c] = "ok" \/ phase = "done"

-----------------------------------------------------------------------------
(* The inductive strengthening of the safety properties.                   *)

\* A call that holds the gate has taken its token.
GateInv ==
    /\ \A c \in Calls : pc[c] \in Holding => ~gate[GateOf(c)]
    /\ GateExclusive

\* What the verdict, the watchdog, the result and the close reason say of a
\* call.
VerdictOf(c) ==
    /\ pc[c] \in Registered => watchdog[c] # "none"
    /\ pc[c] \in Waiting => watchdog[c] = "none"
    /\ watchdog[c] = "fired" => verdict[c] = Expired
    /\ pc[c] = "expire" => verdict[c] = Expired
    /\ verdict[c] = Completed => pc[c] \in {"return", "returned"}
    /\ verdict[c] = Expired => Condemned \/ pc[c] = "expire"
    /\ result[c] # "none" <=> pc[c] \in {"return", "returned"}
    /\ result[c] = "ok" => verdict[c] = Completed
    /\ result[c] = "closed" => phase = "done"
    /\ result[c] \in {"ok", "sendErr", "timeout"} => watchdog[c] # "none"
    /\ reason.call = c => /\ watchdog[c] # "none"
                         /\ \/ verdict[c] = Expired
                            \/ pc[c] = "returned" /\ result[c] # "ok"

VerdictInv == \A c \in Calls : VerdictOf(c)

\* Call c is among the requests or answers of s.
On(s, c) == \E i \in 1..Len(s) : s[i] = c

Injective(s) == \A i, j \in 1..Len(s) : s[i] = s[j] => i = j

\* The request of call c or the answer to it is under way.
InFlight(c) == On(toPeer, c) \/ On(toClient, c) \/ reader.msg = c

\* A request is answered at most once.
WireInv ==
    /\ Injective(toPeer) /\ Injective(toClient)
    /\ \A c \in Calls :
          /\ ~(On(toPeer, c) /\ On(toClient, c))
          /\ reader.msg = c => ~On(toPeer, c) /\ ~On(toClient, c)

\* The labels of a call before it has written its request.
Unsent == {"idle", "ctxCheck", "doneCheck", "waitGate", "register", "send"}

\* An exchange that left its answer behind has condemned the connection, and
\* so has every answer that reaches the wrong caller.
FlightOf(c) ==
    /\ InFlight(c) => pc[c] \notin Unsent
    /\ InFlight(c) /\ pc[c] \in {"return", "returned"} => Condemned
    /\ resp[c] = c => ~InFlight(c) /\ pc[c] \notin Unsent
    /\ resp[c] \notin {None, c} => Condemned
    /\ c \in reader.to => c = reader.msg \/ Condemned

FlightInv == \A c \in Calls : FlightOf(c)

ExchangeInv == GateInv /\ VerdictInv /\ WireInv /\ FlightInv
=============================================================================
