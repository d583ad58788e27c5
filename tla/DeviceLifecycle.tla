-------------------------- MODULE DeviceLifecycle ---------------------------
(***************************************************************************)
(* The resources of a simulated device (simulator/simulator.go): sessions  *)
(* started by DialContext and by the accept loops of Serve, their slots    *)
(* and teardown, DropConnections, Close, and WaitForIdle, which sleeps on  *)
(* a notification channel of capacity one.  What a session serves is the   *)
(* subject of DeviceState and ClientListing; here it serves, stalls in a   *)
(* fault, and returns.                                                     *)
(***************************************************************************)
EXTENDS Naturals, FiniteSets

CONSTANTS
    Sessions,        \* connections clients try to open
    Listeners,       \* activations of Serve
    Droppers,        \* activations of DropConnections
    Waiters,         \* activations of WaitForIdle
    MaxConnections,  \* MaxDeviceConnections
    MaxListeners     \* MaxDeviceListeners

ASSUME LimitAssumption == MaxConnections \in Nat /\ MaxListeners \in Nat

VARIABLES
    closer,          \* progress of the closeOnce body of Close
    session,         \* the serve goroutine of each session
    localClosed,     \* networkConn.closed: the device closed the connection
    peerClosed,      \* the client closed the connection
    connections,     \* Device.connections
    sessionTasks,    \* Device.sessionTasks
    server,          \* each Serve call
    listenerClosed,  \* its listener is closed
    listeners,       \* Device.listeners
    dropper,         \* each DropConnections call and what it has yet to close
    resourceNotify,  \* the notification channel holds its token
    waiter           \* each WaitForIdle call

sessionVars == <<session, localClosed, peerClosed, connections, sessionTasks>>
serverVars == <<server, listenerClosed, listeners>>
vars == <<closer, sessionVars, serverVars, dropper, resourceNotify, waiter>>

Init ==
    /\ closer = "idle"
    /\ session = [s \in Sessions |-> "none"]
    /\ localClosed = [s \in Sessions |-> FALSE]
    /\ peerClosed = [s \in Sessions |-> FALSE]
    /\ connections = {}
    /\ sessionTasks = 0
    /\ server = [l \in Listeners |-> "idle"]
    /\ listenerClosed = [l \in Listeners |-> FALSE]
    /\ listeners = {}
    /\ dropper = [d \in Droppers |-> [state |-> "idle", todo |-> {}]]
    /\ resourceNotify = FALSE
    /\ waiter = [w \in Waiters |-> "idle"]

\* The done channel is closed.
Done == closer # "idle"
CommandsClosed == closer = "returned"

NotifyResourceChange == resourceNotify' = TRUE

-----------------------------------------------------------------------------
(* Starting a session, under the device's mutex.                           *)

Admitted(s) ==
    /\ connections' = connections \cup {s}
    /\ sessionTasks' = sessionTasks + 1
    /\ session' = [session EXCEPT ![s] = "serving"]
    /\ NotifyResourceChange
    /\ UNCHANGED <<localClosed, peerClosed>>

Rejected(s) ==
    /\ session' = [session EXCEPT ![s] = "refused"]
    /\ UNCHANGED <<localClosed, peerClosed, connections, sessionTasks, resourceNotify>>

\* Mutant: the limit is on the connections of the map.
StartConnectionKnown(s) ==
    /\ session[s] = "none"
    /\ IF Done \/ Cardinality(connections) >= MaxConnections THEN Rejected(s)
                                                             ELSE Admitted(s)

StartConnection(s) ==
    /\ session[s] = "none"
    /\ IF Done \/ sessionTasks >= MaxConnections THEN Rejected(s)
                                                 ELSE Admitted(s)

DialContext(s) ==
    /\ StartConnection(s)
    /\ UNCHANGED <<closer, serverVars, dropper, waiter>>

-----------------------------------------------------------------------------
(* Serve.                                                                  *)

\* Mutant: done is not looked at under the mutex.
ServeStartLate(l) ==
    /\ server[l] = "idle"
    /\ IF Cardinality(listeners) >= MaxListeners
       THEN /\ server' = [server EXCEPT ![l] = "returned"]
            /\ UNCHANGED <<listeners, resourceNotify>>
       ELSE /\ server' = [server EXCEPT ![l] = "accepting"]
            /\ listeners' = listeners \cup {l}
            /\ NotifyResourceChange
    /\ UNCHANGED <<closer, sessionVars, listenerClosed, dropper, waiter>>

ServeStart(l) ==
    /\ server[l] = "idle"
    /\ IF Done \/ Cardinality(listeners) >= MaxListeners
       THEN /\ server' = [server EXCEPT ![l] = "returned"]
            /\ UNCHANGED <<listeners, resourceNotify>>
       ELSE /\ server' = [server EXCEPT ![l] = "accepting"]
            /\ listeners' = listeners \cup {l}
            /\ NotifyResourceChange
    /\ UNCHANGED <<closer, sessionVars, listenerClosed, dropper, waiter>>

\* A connection is accepted and started; a closed device ends the loop, a
\* full one does not.
Accept(l) ==
    /\ server[l] = "accepting"
    /\ ~listenerClosed[l]
    /\ \E s \in Sessions : StartConnection(s)
    /\ server' = IF Done THEN [server EXCEPT ![l] = "leaving"] ELSE server
    /\ UNCHANGED <<closer, listenerClosed, listeners, dropper, waiter>>

\* The listener was closed by Close, or failed.
AcceptError(l) ==
    /\ server[l] = "accepting"
    /\ server' = [server EXCEPT ![l] = "leaving"]
    /\ UNCHANGED <<closer, sessionVars, listenerClosed, listeners, dropper,
                   resourceNotify, waiter>>

\* The deferred function: forget the listener, then notify.
ServeRemove(l) ==
    /\ server[l] = "leaving"
    /\ listenerClosed' = [listenerClosed EXCEPT ![l] = TRUE]
    /\ listeners' = listeners \ {l}
    /\ server' = [server EXCEPT ![l] = "removed"]
    /\ UNCHANGED <<closer, sessionVars, dropper, resourceNotify, waiter>>

ServeReturn(l) ==
    /\ server[l] = "removed"
    /\ NotifyResourceChange
    /\ server' = [server EXCEPT ![l] = "returned"]
    /\ UNCHANGED <<closer, sessionVars, listenerClosed, listeners, dropper, waiter>>

-----------------------------------------------------------------------------
(* serve.                                                                  *)

PeerClose(s) ==
    /\ session[s] \in {"serving", "stalled"}
    /\ ~peerClosed[s]
    /\ peerClosed' = [peerClosed EXCEPT ![s] = TRUE]
    /\ UNCHANGED <<closer, session, localClosed, connections, sessionTasks,
                   serverVars, dropper, resourceNotify, waiter>>

\* FaultStall: the session waits for the device's or its connection's end.
Stall(s) ==
    /\ session[s] = "serving"
    /\ session' = [session EXCEPT ![s] = "stalled"]
    /\ UNCHANGED <<closer, localClosed, peerClosed, connections, sessionTasks,
                   serverVars, dropper, resourceNotify, waiter>>

\* serve returns, for an error of the connection, a message it cannot
\* decode, a disconnect request or a fault, and closes the connection.
SessionReturn(s) ==
    /\ \/ session[s] = "serving"
       \/ session[s] = "stalled" /\ (Done \/ localClosed[s])
    /\ session' = [session EXCEPT ![s] = "leaving"]
    /\ localClosed' = [localClosed EXCEPT ![s] = TRUE]
    /\ UNCHANGED <<closer, peerClosed, connections, sessionTasks, serverVars,
                   dropper, resourceNotify, waiter>>

\* The deferred function: forget the session and free its slot, then notify
\* and let the WaitGroup know.
SessionRemove(s) ==
    /\ session[s] = "leaving"
    /\ connections' = connections \ {s}
    /\ sessionTasks' = sessionTasks - 1
    /\ session' = [session EXCEPT ![s] = "removed"]
    /\ UNCHANGED <<closer, localClosed, peerClosed, serverVars, dropper,
                   resourceNotify, waiter>>

\* Mutant: the end of a session is not announced.
SessionEndSilent(s) ==
    /\ session[s] = "removed"
    /\ session' = [session EXCEPT ![s] = "ended"]
    /\ UNCHANGED <<closer, localClosed, peerClosed, connections, sessionTasks,
                   serverVars, dropper, resourceNotify, waiter>>

SessionEnd(s) ==
    /\ session[s] = "removed"
    /\ NotifyResourceChange
    /\ session' = [session EXCEPT ![s] = "ended"]
    /\ UNCHANGED <<closer, localClosed, peerClosed, connections, sessionTasks,
                   serverVars, dropper, waiter>>

-----------------------------------------------------------------------------
(* DropConnections: the sessions are forgotten under the mutex and closed  *)
(* one by one after it.                                                    *)

Drop(d) ==
    /\ dropper[d].state = "idle"
    /\ dropper' = [dropper EXCEPT ![d] = [state |-> "closing", todo |-> connections]]
    /\ connections' = {}
    /\ NotifyResourceChange
    /\ UNCHANGED <<closer, session, localClosed, peerClosed, sessionTasks,
                   serverVars, waiter>>

\* Mutant: a closed device is left to close its connections.
DropCloseUnlessDone(d) ==
    /\ dropper[d].state = "closing"
    /\ IF dropper[d].todo = {} \/ Done
       THEN /\ dropper' = [dropper EXCEPT ![d] = [state |-> "returned", todo |-> {}]]
            /\ UNCHANGED localClosed
       ELSE \E s \in dropper[d].todo :
               /\ localClosed' = [localClosed EXCEPT ![s] = TRUE]
               /\ dropper' = [dropper EXCEPT ![d].todo = @ \ {s}]
    /\ UNCHANGED <<closer, session, peerClosed, connections, sessionTasks,
                   serverVars, resourceNotify, waiter>>

DropClose(d) ==
    /\ dropper[d].state = "closing"
    /\ IF dropper[d].todo = {}
       THEN /\ dropper' = [dropper EXCEPT ![d].state = "returned"]
            /\ UNCHANGED localClosed
       ELSE \E s \in dropper[d].todo :
               /\ localClosed' = [localClosed EXCEPT ![s] = TRUE]
               /\ dropper' = [dropper EXCEPT ![d].todo = @ \ {s}]
    /\ UNCHANGED <<closer, session, peerClosed, connections, sessionTasks,
                   serverVars, resourceNotify, waiter>>

-----------------------------------------------------------------------------
(* Close: done, then every listener and connection under the mutex, then   *)
(* the wait for the sessions, and last the commands channel.               *)

CloseSignal ==
    /\ closer = "idle"
    /\ closer' = "signalled"
    /\ UNCHANGED <<sessionVars, serverVars, dropper, resourceNotify, waiter>>

CloseSweep ==
    /\ closer = "signalled"
    /\ closer' = "waiting"
    /\ listenerClosed' = [l \in Listeners |-> listenerClosed[l] \/ l \in listeners]
    /\ localClosed' = [s \in Sessions |-> localClosed[s] \/ s \in connections]
    /\ UNCHANGED <<session, peerClosed, connections, sessionTasks, server,
                   listeners, dropper, resourceNotify, waiter>>

\* Mutant: Close waits for the connections it knows of.
CloseFinishKnown ==
    /\ closer = "waiting"
    /\ connections = {}
    /\ closer' = "returned"
    /\ UNCHANGED <<sessionVars, serverVars, dropper, resourceNotify, waiter>>

CloseFinish ==
    /\ closer = "waiting"
    /\ \A s \in Sessions : session[s] \in {"none", "refused", "ended"}
    /\ closer' = "returned"
    /\ UNCHANGED <<sessionVars, serverVars, dropper, resourceNotify, waiter>>

Close == CloseSignal \/ CloseSweep \/ CloseFinish

-----------------------------------------------------------------------------
(* WaitForIdle, with a context that does not end.                          *)

Idle == connections = {} /\ listeners = {} /\ sessionTasks = 0

WaitCheck(w) ==
    /\ waiter[w] \in {"idle", "check"}
    /\ waiter' = [waiter EXCEPT ![w] = IF Idle THEN "returned" ELSE "waiting"]
    /\ UNCHANGED <<closer, sessionVars, serverVars, dropper, resourceNotify>>

WaitWake(w) ==
    /\ waiter[w] = "waiting"
    /\ resourceNotify
    /\ resourceNotify' = FALSE
    /\ waiter' = [waiter EXCEPT ![w] = "check"]
    /\ UNCHANGED <<closer, sessionVars, serverVars, dropper>>

WaitForIdle(w) == WaitCheck(w) \/ WaitWake(w)

-----------------------------------------------------------------------------
Terminated == CommandsClosed /\ UNCHANGED vars

Next ==
    \/ \E s \in Sessions :
          \/ DialContext(s) \/ PeerClose(s) \/ Stall(s)
          \/ SessionReturn(s) \/ SessionRemove(s) \/ SessionEnd(s)
    \/ \E l \in Listeners :
          ServeStart(l) \/ Accept(l) \/ AcceptError(l) \/ ServeRemove(l) \/ ServeReturn(l)
    \/ \E d \in Droppers : Drop(d) \/ DropClose(d)
    \/ \E w \in Waiters : WaitForIdle(w)
    \/ Close
    \/ Terminated

Spec == Init /\ [][Next]_vars

\* Goroutines run on; a session leaves when its connection is closed, a
\* Serve call when its listener is.  Nobody has to call Close, and a stalled
\* session does not notice its client leaving.
Fairness ==
    /\ \A s \in Sessions :
          /\ WF_vars((localClosed[s] \/ peerClosed[s]) /\ SessionReturn(s))
          /\ WF_vars(Done /\ session[s] = "stalled" /\ SessionReturn(s))
          /\ WF_vars(SessionRemove(s) \/ SessionEnd(s))
    /\ \A l \in Listeners :
          /\ WF_vars(listenerClosed[l] /\ AcceptError(l))
          /\ WF_vars(ServeRemove(l) \/ ServeReturn(l))
    /\ \A d \in Droppers : WF_vars(DropClose(d))
    /\ \A w \in Waiters : WF_vars(waiter[w] # "idle" /\ WaitForIdle(w))
    /\ WF_vars(CloseSweep \/ CloseFinish)

FairSpec == Spec /\ Fairness

-----------------------------------------------------------------------------
(* Properties.                                                             *)

\* The goroutine of a session is running and owns a slot.
Active == {s \in Sessions : session[s] \in {"serving", "stalled", "leaving"}}

\* The types of the resources and of the calls on them.
TypeOK ==
    /\ closer \in {"idle", "signalled", "waiting", "returned"}
    /\ session \in [Sessions -> {"none", "refused", "serving", "stalled",
                                 "leaving", "removed", "ended"}]
    /\ localClosed \in [Sessions -> BOOLEAN]
    /\ peerClosed \in [Sessions -> BOOLEAN]
    /\ connections \subseteq Sessions
    /\ sessionTasks \in 0..MaxConnections
    /\ server \in [Listeners -> {"idle", "accepting", "leaving", "removed", "returned"}]
    /\ listenerClosed \in [Listeners -> BOOLEAN]
    /\ listeners \subseteq Listeners /\ Cardinality(listeners) <= MaxListeners
    /\ dropper \in [Droppers -> [state : {"idle", "closing", "returned"},
                                 todo : SUBSET Sessions]]
    /\ resourceNotify \in BOOLEAN
    /\ waiter \in [Waiters -> {"idle", "check", "waiting", "returned"}]

\* At most MaxConnections session goroutines run, also after DropConnections
\* forgot sessions that have not left yet: a slot belongs to a session until
\* its goroutine has left, none leaks and none is freed twice, and the map
\* holds no session without a slot.
SlotsAccounted ==
    /\ Cardinality(Active) <= MaxConnections
    /\ sessionTasks = Cardinality(Active)
    /\ connections \subseteq Active

\* The commands channel is closed when no session can send on it any more,
\* whoever was dialling, accepting or dropping while Close ran.
CommandsOpenWhileServing == CommandsClosed => Active = {}

\* Close returns, stalled sessions and sessions that DropConnections took
\* from the map included.
CloseReturns == closer = "signalled" ~> closer = "returned"

\* No Serve call outlives the device, not even one that began during Close.
ServersStop ==
    \A l \in Listeners : Done ~> server[l] \in {"idle", "returned"}

\* The notification channel holds one token, which wakes one call of
\* WaitForIdle; with several calls the others may sleep on, although the
\* device is idle (simulator.go:409-422).
OneWaiter == \A v, w \in Waiters : v = w

\* Where one call waits, it returns if the device becomes idle for good: no
\* last notification is missed between its look at the counts and its sleep.
IdleNoticed ==
    OneWaiter =>
        \A w \in Waiters : <>[]Idle => <>[](waiter[w] \in {"idle", "returned"})
=============================================================================
