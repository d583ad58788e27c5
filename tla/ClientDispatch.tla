--------------------------- MODULE ClientDispatch ---------------------------
(***************************************************************************)
(* The receive side of an established client (client.go): readLoop decodes *)
(* frames, answers the peer's own requests, and hands every other message  *)
(* to dispatchLoop through a bounded queue it never waits on; dispatchLoop *)
(* calls the subscribers serially, outside every lock.  The ping and       *)
(* device-info responses that bypass the queue are the subject of          *)
(* Exchange.                                                               *)
(*                                                                         *)
(* Messages for dispatchLoop are numbered in wire order; the numbers are   *)
(* the model's, not the protocol's.  Each has the message ID of its type,  *)
(* by which the handlers are registered: SubscribeStates registers its     *)
(* handler for every state message ID in turn, each under its own lock.    *)
(***************************************************************************)
EXTENDS Shutdown, Naturals, Sequences

CONSTANTS
    Subscribers,  \* activations of SubscribeStates or SubscribeLogs
    MessageIds,   \* message IDs of the protocol
    Ids,          \* IDs an activation registers, in order; none without handler
    QueueSize,    \* callbackQueueSize
    Traffic,      \* the sequences of message IDs the peer may send
    MaxEvents     \* bound: messages for dispatchLoop the peer sends

ASSUME IdsAssumption ==
    /\ Ids \in [Subscribers -> Seq(MessageIds)]
    /\ \A s \in Subscribers : \A i, j \in 1..Len(Ids[s]) :
          Ids[s][i] = Ids[s][j] => i = j
ASSUME QueueAssumption == QueueSize \in Nat \ {0}
ASSUME BoundAssumption == MaxEvents \in Nat
ASSUME TrafficAssumption == Traffic \subseteq [1..MaxEvents -> MessageIds]

VARIABLES
    reader,       \* readLoop
    received,     \* number of messages for dispatchLoop read so far
    events,       \* the callback queue
    handled,      \* last message applied to the registry and the listing
    dispatcher,   \* dispatchLoop: where it is, its message, callbacks to run
    sub,          \* progress of each subscription
    added,        \* number of IDs it has registered its handler for so far
    removed,      \* number of IDs it has removed its handler from so far
    idOf,         \* message IDs of the messages the peer sends: never changes
    delivered,    \* history: messages whose callback was started
    lateCalls,    \* history: callbacks started after done was closed
    staleCalls    \* history: callbacks started after unsubscribe returned

readVars == <<reader, received>>
historyVars == <<delivered, lateCalls, staleCalls>>
dispatchVars == <<handled, dispatcher, historyVars>>
subVars == <<sub, added, removed, idOf>>
vars == <<connVars, readVars, events, dispatchVars, subVars>>

NoReason == "none"
Reasons == {NoReason, "close", "failure", "peerDisconnected", "eventQueueFull"}

\* handlers[id]: the activations whose handler of id is added, not removed.
Handlers(id) ==
    {s \in Subscribers :
        \E i \in (removed[s] + 1)..added[s] : Ids[s][i] = id}

\* unsubscribe has returned, or the failed activation has removed everything.
Left(s) == sub[s] = "leaving" /\ removed[s] = added[s]

Init ==
    /\ OpenConnection(NoReason)
    /\ reader = "reading"
    /\ received = 0
    /\ events = <<>>
    /\ handled = 0
    /\ dispatcher = [state |-> "top", msg |-> 0, todo |-> {}]
    /\ sub = [s \in Subscribers |-> "adding"]
    /\ added = [s \in Subscribers |-> 0]
    /\ removed = [s \in Subscribers |-> 0]
    /\ idOf \in Traffic
    /\ delivered = [s \in Subscribers |-> <<>>]
    /\ lateCalls = 0
    /\ staleCalls = [s \in Subscribers |-> 0]

-----------------------------------------------------------------------------
CloseStep ==
    /\ CloseBody
    /\ UNCHANGED <<readVars, events, dispatchVars, subVars>>

\* Close by the owner, from a callback too, and the dial context's watcher.
Close ==
    /\ phase = "open"
    /\ EnterShutdown("close")
    /\ UNCHANGED <<readVars, events, dispatchVars, subVars>>

-----------------------------------------------------------------------------
(* readLoop.  A frame in the read buffer can still be read when the framer *)
(* is closed.  Pings and unknown messages come in any number.              *)

\* shutdown(r); return
StopReading(r) == EnterShutdown(r) /\ reader' = "stopped"

ReadEvent ==
    /\ reader = "reading"
    /\ received < MaxEvents
    /\ received' = received + 1
    /\ reader' = "enqueue"
    /\ UNCHANGED <<connVars, events, dispatchVars, subVars>>

ReadControl ==
    /\ reader = "reading"
    /\ \/ reader' = "answerPing" /\ UNCHANGED connVars
       \/ reader' = "answerDisconnect" /\ UNCHANGED connVars
       \/ UNCHANGED <<reader, connVars>>      \* unknown message: continue
       \/ StopReading("failure")
    /\ UNCHANGED <<received, events, dispatchVars, subVars>>

ReadError ==
    /\ reader = "reading"
    /\ StopReading("failure")
    /\ UNCHANGED <<received, events, dispatchVars, subVars>>

\* send of a PingResponse: written, or failed because the framer is closed
\* or the peer is gone.
AnswerPing ==
    /\ reader = "answerPing"
    /\ \/ ~FramerClosed /\ reader' = "reading" /\ UNCHANGED connVars
       \/ StopReading("failure")
    /\ UNCHANGED <<received, events, dispatchVars, subVars>>

AnswerDisconnect ==
    /\ reader = "answerDisconnect"
    /\ \/ ~FramerClosed /\ reader' = "disconnect" /\ UNCHANGED connVars
       \/ StopReading("failure")
    /\ UNCHANGED <<received, events, dispatchVars, subVars>>

Disconnect ==
    /\ reader = "disconnect"
    /\ StopReading("peerDisconnected")
    /\ UNCHANGED <<received, events, dispatchVars, subVars>>

\* Mutant: a message that finds the queue full is dropped.
EnqueueDropping ==
    /\ reader = "enqueue"
    /\ \/ /\ Len(events) < QueueSize
          /\ events' = Append(events, received)
          /\ reader' = "reading"
          /\ UNCHANGED connVars
       \/ /\ phase = "done"
          /\ reader' = "stopped"
          /\ UNCHANGED <<events, connVars>>
       \/ /\ Len(events) = QueueSize /\ phase # "done"
          /\ reader' = "reading"
          /\ UNCHANGED <<events, connVars>>
    /\ UNCHANGED <<received, dispatchVars, subVars>>

\* The select with a default: queue the message, stop because the client is
\* closed, or, when neither is possible, close it.
Enqueue ==
    /\ reader = "enqueue"
    /\ \/ /\ Len(events) < QueueSize
          /\ events' = Append(events, received)
          /\ reader' = "reading"
          /\ UNCHANGED connVars
       \/ /\ phase = "done"
          /\ reader' = "stopped"
          /\ UNCHANGED <<events, connVars>>
       \/ /\ Len(events) = QueueSize /\ phase # "done"
          /\ StopReading("eventQueueFull")
          /\ UNCHANGED events
    /\ UNCHANGED <<received, dispatchVars, subVars>>

ReadLoop ==
    \/ ReadEvent
    \/ ReadControl
    \/ ReadError
    \/ AnswerPing
    \/ AnswerDisconnect
    \/ Disconnect
    \/ Enqueue

-----------------------------------------------------------------------------
(* dispatchLoop.                                                           *)

DispatchTo(state) == dispatcher' = [dispatcher EXCEPT !.state = state]

\* callbacksDone is closed.
DispatchEnd == dispatcher' = [state |-> "ended", msg |-> 0, todo |-> {}]

DispatchTop ==
    /\ dispatcher.state = "top"
    /\ IF phase = "done" THEN DispatchEnd ELSE DispatchTo("select")
    /\ UNCHANGED <<connVars, readVars, events, handled, historyVars, subVars>>

\* Mutant: an idle dispatcher waits for messages only.
DispatchSelectDeaf ==
    /\ dispatcher.state = "select"
    /\ events # <<>>
    /\ events' = Tail(events)
    /\ dispatcher' = [state |-> "recheck", msg |-> Head(events), todo |-> {}]
    /\ UNCHANGED <<connVars, readVars, handled, historyVars, subVars>>

DispatchSelect ==
    /\ dispatcher.state = "select"
    /\ \/ /\ events # <<>>
          /\ events' = Tail(events)
          /\ dispatcher' = [state |-> "recheck", msg |-> Head(events), todo |-> {}]
       \/ phase = "done" /\ DispatchEnd /\ UNCHANGED events
    /\ UNCHANGED <<connVars, readVars, handled, historyVars, subVars>>

\* Mutant: the message is applied whatever happened while it was awaited.
DispatchRecheckBlind ==
    /\ dispatcher.state = "recheck"
    /\ DispatchTo("handle")
    /\ UNCHANGED <<connVars, readVars, events, handled, historyVars, subVars>>

DispatchRecheck ==
    /\ dispatcher.state = "recheck"
    /\ IF phase = "done" THEN DispatchEnd ELSE DispatchTo("handle")
    /\ UNCHANGED <<connVars, readVars, events, handled, historyVars, subVars>>

\* The message goes to the registry and the pending listing, also when done
\* was closed since the check.
DispatchHandle ==
    /\ dispatcher.state = "handle"
    /\ handled' = dispatcher.msg
    /\ DispatchTo("snapshot")
    /\ UNCHANGED <<connVars, readVars, events, historyVars, subVars>>

\* Mutant: the snapshot still holds removed handlers.
DispatchSnapshotCached ==
    /\ dispatcher.state = "snapshot"
    /\ dispatcher' = [dispatcher EXCEPT !.state = "iterate",
           !.todo = {s \in Subscribers :
                        \E i \in 1..added[s] : Ids[s][i] = idOf[dispatcher.msg]}]
    /\ UNCHANGED <<connVars, readVars, events, handled, historyVars, subVars>>

\* The handlers of the message's ID are copied under the read lock.
DispatchSnapshot ==
    /\ dispatcher.state = "snapshot"
    /\ dispatcher' = [dispatcher EXCEPT !.state = "iterate",
                                        !.todo = Handlers(idOf[dispatcher.msg])]
    /\ UNCHANGED <<connVars, readVars, events, handled, historyVars, subVars>>

\* Mutant: the loop over the callbacks does not look at done.
DispatchIterateBlind ==
    /\ dispatcher.state = "iterate"
    /\ IF dispatcher.todo = {} THEN DispatchTo("top")
       ELSE DispatchTo("call")
    /\ UNCHANGED <<connVars, readVars, events, handled, historyVars, subVars>>

\* One iteration of the callback loop up to the check of done.
DispatchIterate ==
    /\ dispatcher.state = "iterate"
    /\ IF dispatcher.todo = {} THEN DispatchTo("top")
       ELSE IF phase = "done" THEN DispatchEnd
       ELSE DispatchTo("call")
    /\ UNCHANGED <<connVars, readVars, events, handled, historyVars, subVars>>

\* fn(message) begins, for the callbacks in any order: handlers is a map.
CallbackStart ==
    /\ dispatcher.state = "call"
    /\ \E s \in dispatcher.todo :
          /\ dispatcher' = [dispatcher EXCEPT !.state = "running", !.todo = @ \ {s}]
          /\ delivered' = [delivered EXCEPT ![s] = Append(@, dispatcher.msg)]
          /\ staleCalls' = IF Left(s) THEN [staleCalls EXCEPT ![s] = @ + 1]
                           ELSE staleCalls
    /\ lateCalls' = IF phase = "done" THEN lateCalls + 1 ELSE lateCalls
    /\ UNCHANGED <<connVars, readVars, events, handled, subVars>>

CallbackReturn ==
    /\ dispatcher.state = "running"
    /\ DispatchTo("iterate")
    /\ UNCHANGED <<connVars, readVars, events, handled, historyVars, subVars>>

DispatchLoop ==
    \/ DispatchTop
    \/ DispatchSelect
    \/ DispatchRecheck
    \/ DispatchHandle
    \/ DispatchSnapshot
    \/ DispatchIterate
    \/ CallbackStart
    \/ CallbackReturn

-----------------------------------------------------------------------------
(* Subscribing: the handler is registered for one ID after the other, then *)
(* the request is sent; a failed send removes the handlers again.          *)
(* Unsubscribe, which removes them one by one, may be called anywhere,     *)
(* from a callback too; called again it removes nothing.                   *)

SubscribeAdd(s) ==
    /\ sub[s] = "adding"
    /\ added[s] < Len(Ids[s])
    /\ added' = [added EXCEPT ![s] = @ + 1]
    /\ UNCHANGED <<connVars, readVars, events, dispatchVars, sub, removed, idOf>>

SubscribeSend(s) ==
    /\ sub[s] = "adding"
    /\ added[s] = Len(Ids[s])
    /\ \/ ~FramerClosed /\ sub' = [sub EXCEPT ![s] = "on"]
       \/ sub' = [sub EXCEPT ![s] = "leaving"]
    /\ UNCHANGED <<connVars, readVars, events, dispatchVars, added, removed, idOf>>

Unsubscribe(s) ==
    /\ sub[s] \in {"on", "leaving"}
    /\ removed[s] < added[s]
    /\ sub' = [sub EXCEPT ![s] = "leaving"]
    /\ removed' = [removed EXCEPT ![s] = @ + 1]
    /\ UNCHANGED <<connVars, readVars, events, dispatchVars, added, idOf>>

Subscription(s) ==
    \/ SubscribeAdd(s)
    \/ SubscribeSend(s)
    \/ Unsubscribe(s)

-----------------------------------------------------------------------------
Terminated ==
    /\ phase = "done" /\ reader = "stopped" /\ dispatcher.state = "ended"
    /\ UNCHANGED vars

Next ==
    \/ CloseStep
    \/ Close
    \/ ReadLoop
    \/ DispatchLoop
    \/ \E s \in Subscribers : Subscription(s)
    \/ Terminated

Spec == Init /\ [][Next]_vars

\* The goroutines run, callbacks return, reads and writes on a closed framer
\* fail.  A write to an open framer may block for ever.
Fairness ==
    /\ WF_vars(CloseStep)
    /\ WF_vars(Enqueue \/ Disconnect)
    /\ WF_vars(FramerClosed /\ ReadLoop)
    /\ WF_vars(DispatchLoop)

FairSpec == Spec /\ Fairness

-----------------------------------------------------------------------------
(* Properties.                                                             *)

\* The types of the loops' and the subscriptions' state.
TypeOK ==
    /\ phase \in Phases
    /\ reason \in Reasons
    /\ reader \in {"reading", "enqueue", "answerPing", "answerDisconnect",
                   "disconnect", "stopped"}
    /\ received \in 0..MaxEvents
    /\ events \in Seq(1..MaxEvents)
    /\ Len(events) <= QueueSize
    /\ handled \in 0..MaxEvents
    /\ dispatcher \in [state : {"top", "select", "recheck", "handle",
                                "snapshot", "iterate", "call", "running",
                                "ended"},
                       msg : 0..MaxEvents, todo : SUBSET Subscribers]
    /\ sub \in [Subscribers -> {"adding", "on", "leaving"}]
    /\ added \in [Subscribers -> Nat]
    /\ removed \in [Subscribers -> Nat]
    /\ \A s \in Subscribers :
          removed[s] <= added[s] /\ added[s] <= Len(Ids[s])
    /\ idOf \in [1..MaxEvents -> MessageIds]
    /\ delivered \in [Subscribers -> Seq(1..MaxEvents)]
    /\ lateCalls \in Nat
    /\ staleCalls \in [Subscribers -> Nat]

\* A subscriber is called in wire order, never twice with a message, and
\* between two messages of one ID it is called with all of that ID, however
\* slowly it returns and whoever subscribes or leaves meanwhile.  Across IDs
\* there can be a gap: while a handler is being registered or removed it is
\* there for some IDs and not for others.
ConsecutiveDelivery ==
    \A s \in Subscribers :
        LET calls == delivered[s]
        IN  \A i, j \in 1..Len(calls) : i < j =>
               /\ calls[i] < calls[j]
               /\ idOf[calls[i]] = idOf[calls[j]] =>
                     \A n \in calls[i]..calls[j] : idOf[n] = idOf[calls[i]] =>
                        \E k \in 1..Len(calls) : calls[k] = n

\* dispatchLoop checks done before each callback, so at most the one whose
\* check had already passed starts after done is closed.
OneLateCallback == lateCalls <= 1

\* After unsubscribe has returned, its subscriber may still be called for the
\* message whose snapshot was taken before the removal, and for no later one.
OneStaleCallback == \A s \in Subscribers : staleCalls[s] <= 1

\* Closing the client, by any party, ends both loops even with a full queue
\* or a peer that no longer reads, provided the callbacks return.
CloseEndsLoops ==
    phase # "open" ~> dispatcher.state = "ended" /\ reader = "stopped"

\* The receive side keeps the promise of EventStream: it applies and
\* dispatches the messages in wire order without a gap and never holds more
\* than the queue and one message per loop; it takes up none once done is
\* closed, but the one whose check of done had passed is still applied.
Stream == INSTANCE EventStream
    WITH Window <- QueueSize + 2, received <- received,
         accepted <- IF dispatcher.state = "handle" THEN handled + 1 ELSE handled,
         dispatched <- handled, closed <- (phase = "done")

ImplementsEventStream == Stream!Spec
=============================================================================
