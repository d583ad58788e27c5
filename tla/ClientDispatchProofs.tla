------------------------ MODULE ClientDispatchProofs ------------------------
(***************************************************************************)
(* Proofs about ClientDispatch, for any subscribers, any size of the queue *)
(* and any number of messages, and of its refinement of EventStream.       *)
(***************************************************************************)
EXTENDS ClientDispatch, Integers, TLAPS

\* Messages that readLoop has read and not queued yet, and that dispatchLoop
\* has taken and not applied yet.
Held == IF reader = "enqueue" THEN 1 ELSE 0
Taken == IF dispatcher.state \in {"recheck", "handle"} THEN 1 ELSE 0

\* dispatchLoop is in the loop over the callbacks, and has applied its message.
Calling == {"iterate", "call", "running"}
Applied == Calling \cup {"snapshot"}

\* The queue holds the messages after the last one taken, without a gap; a
\* message is lost only when a loop ends with it.
QueueInv ==
    /\ reader = "enqueue" => received >= 1
    /\ reader # "stopped" => received <= handled + 1 + Len(events) + Held
    /\ dispatcher.state # "ended" =>
          /\ \A i \in 1..Len(events) : events[i] = handled + Taken + i
          /\ handled + Taken + Len(events) + Held <= received
          /\ reader # "stopped" => received = handled + Taken + Len(events) + Held
    /\ dispatcher.state \in {"recheck", "handle"} => dispatcher.msg = handled + 1
    /\ dispatcher.state \in Applied => dispatcher.msg = handled /\ handled >= 1

\* The messages subscriber s was called with, and the last message it can no
\* longer be called with.
Got(s) == {delivered[s][i] : i \in 1..Len(delivered[s])}
Settled(s) ==
    IF dispatcher.state = "snapshot" \/ s \in dispatcher.todo
    THEN handled - 1 ELSE handled

\* s has a handler of id, or will be called with the message of id under way.
Listening(s, id) ==
    \/ s \in Handlers(id)
    \/ s \in dispatcher.todo /\ idOf[handled] = id

\* s has, or had, a handler of id.
Added(s, id) == \E i \in 1..added[s] : Ids[s][i] = id

Ascending(q) == \A i, j \in 1..Len(q) : i < j => q[i] < q[j]

\* Subscriber s has been called in order, and for each ID with every message
\* since the first of that ID, up to the last settled one while it listens.
DeliveryOf(s) ==
    /\ Ascending(delivered[s])
    /\ \A m \in Got(s) : m <= Settled(s) /\ Added(s, idOf[m])
    /\ s \in dispatcher.todo => Added(s, idOf[handled])
    /\ \A m, n \in Got(s) : \A l \in m..n :
          idOf[l] = idOf[m] /\ idOf[n] = idOf[m] => l \in Got(s)
    /\ dispatcher.state # "ended" =>
          \A m \in Got(s) : \A l \in m..Settled(s) :
             idOf[l] = idOf[m] /\ Listening(s, idOf[m]) => l \in Got(s)

DeliveryInv ==
    /\ dispatcher.todo # {} => dispatcher.state \in Calling
    /\ \A s \in Subscribers : DeliveryOf(s)

\* Callbacks started too late: none before done is closed, and none can
\* follow the one whose check of done had passed.
LateInv ==
    /\ lateCalls <= 1
    /\ phase # "done" \/ dispatcher.state = "call" => lateCalls = 0

\* Callbacks started after unsubscribe: none of a subscriber that has not
\* left or is still to be called.
StaleInv ==
    \A s \in Subscribers :
        /\ staleCalls[s] <= 1
        /\ ~Left(s) \/ s \in dispatcher.todo => staleCalls[s] = 0

DispatchInv == QueueInv /\ DeliveryInv /\ LateInv /\ StaleInv

-----------------------------------------------------------------------------
(* Types and the queue.                                                    *)

\* The steps of shutdown and of the owner move the connection only.
ConnStep == CloseStep \/ Close
\* The steps, one by one.
LEMMA Steps ==
    ASSUME [Next]_vars
    PROVE  \/ ConnStep
           \/ ReadEvent \/ ReadControl \/ ReadError \/ AnswerPing
           \/ AnswerDisconnect \/ Disconnect \/ Enqueue
           \/ DispatchTop \/ DispatchSelect \/ DispatchRecheck \/ DispatchHandle
           \/ DispatchSnapshot \/ DispatchIterate \/ CallbackStart \/ CallbackReturn
           \/ \E s \in Subscribers : Subscription(s)
           \/ UNCHANGED vars
  BY DEF Next, ConnStep, ReadLoop, DispatchLoop, Terminated

\* What readLoop does apart from reading and queueing a message.
ReadOther ==
    \/ ReadControl \/ ReadError \/ AnswerPing \/ AnswerDisconnect \/ Disconnect

\* It leaves the messages alone, and may stop.
LEMMA ReadOtherEffect ==
    ASSUME TypeOK, ReadOther
    PROVE  /\ phase' \in Phases /\ reason' \in Reasons
           /\ phase = "done" <=> phase' = "done"
           /\ reader \notin {"enqueue", "stopped"}
           /\ reader' \in {"reading", "answerPing", "answerDisconnect",
                           "disconnect", "stopped"}
           /\ UNCHANGED <<received, events, dispatchVars, subVars>>
<1>0. \A r \in Reasons : EnterShutdown(r) \/ UNCHANGED connVars =>
         /\ phase' \in Phases /\ reason' \in Reasons
         /\ phase = "done" <=> phase' = "done"
      BY DEF TypeOK, EnterShutdown, connVars, Phases
<1>1. "failure" \in Reasons /\ "peerDisconnected" \in Reasons
      BY DEF Reasons
<1> QED
    BY <1>0, <1>1
    DEF ReadOther, ReadControl, ReadError, AnswerPing, AnswerDisconnect, Disconnect,
        StopReading

\* Queueing a message: it is queued, or readLoop stops with it.
LEMMA EnqueueEffect ==
    ASSUME TypeOK, Enqueue
    PROVE  /\ phase' \in Phases /\ reason' \in Reasons
           /\ phase = "done" <=> phase' = "done"
           /\ reader = "enqueue"
           /\ \/ /\ Len(events) < QueueSize
                 /\ events' = Append(events, received) /\ reader' = "reading"
              \/ events' = events /\ reader' = "stopped"
           /\ UNCHANGED <<received, dispatchVars, subVars>>
<1>1. "eventQueueFull" \in Reasons
      BY DEF Reasons
<1>2. EnterShutdown("eventQueueFull") \/ UNCHANGED connVars =>
         /\ phase' \in Phases /\ reason' \in Reasons
         /\ phase = "done" <=> phase' = "done"
      BY <1>1 DEF TypeOK, EnterShutdown, connVars, Phases
<1> QED
    BY <1>2 DEF Enqueue, StopReading

\* The dispatcher's record, when a step changes its state only.
LEMMA DispatchToType ==
    ASSUME TypeOK, NEW t, DispatchTo(t)
    PROVE  /\ dispatcher'.state = t /\ dispatcher'.msg = dispatcher.msg
           /\ dispatcher'.todo = dispatcher.todo
           /\ dispatcher' = [state |-> t, msg |-> dispatcher.msg,
                             todo |-> dispatcher.todo]
  BY DEF TypeOK, DispatchTo

\* Where dispatchLoop can be, and its whole state.
DispatchStates == {"top", "select", "recheck", "handle", "snapshot", "iterate",
                   "call", "running", "ended"}
Dispatchers == [state : DispatchStates, msg : 0..MaxEvents, todo : SUBSET Subscribers]

\* The steps of dispatchLoop by what they do to the messages: taking one,
\* accepting it, applying it, copying its handlers,
TakeStep ==
    /\ dispatcher.state = "select" /\ events # <<>> /\ events' = Tail(events)
    /\ dispatcher' = [state |-> "recheck", msg |-> Head(events), todo |-> {}]
    /\ UNCHANGED <<connVars, readVars, handled, historyVars, subVars>>

AcceptStep ==
    /\ dispatcher.state = "recheck" /\ phase # "done"
    /\ dispatcher' = [state |-> "handle", msg |-> dispatcher.msg,
                      todo |-> dispatcher.todo]
    /\ UNCHANGED <<connVars, readVars, events, handled, historyVars, subVars>>

ApplyStep ==
    /\ dispatcher.state = "handle" /\ handled' = dispatcher.msg
    /\ dispatcher' = [state |-> "snapshot", msg |-> dispatcher.msg,
                      todo |-> dispatcher.todo]
    /\ UNCHANGED <<connVars, readVars, events, historyVars, subVars>>

CopyStep ==
    /\ dispatcher.state = "snapshot"
    /\ dispatcher' = [state |-> "iterate", msg |-> dispatcher.msg,
                      todo |-> Handlers(idOf[dispatcher.msg])]
    /\ UNCHANGED <<connVars, readVars, events, handled, historyVars, subVars>>

\* and the ones that only move, starting no callback.
DispatchMove ==
    /\ \/ \E t \in {"top", "select", "iterate", "call"} :
             /\ dispatcher' = [state |-> t, msg |-> dispatcher.msg,
                               todo |-> dispatcher.todo]
             /\ \/ t = "select" /\ dispatcher.state = "top"
                \/ t = "top" /\ dispatcher.state = "iterate" /\ dispatcher.todo = {}
                \/ t = "call" /\ dispatcher.state = "iterate" /\ phase # "done"
                \/ t = "iterate" /\ dispatcher.state = "running"
       \/ phase = "done" /\ dispatcher.state # "handle" /\ DispatchEnd
    /\ UNCHANGED <<connVars, readVars, events, handled, historyVars, subVars>>

\* Every step of dispatchLoop that starts no callback is one of these.
LEMMA DispatchSteps ==
    ASSUME TypeOK,
           \/ DispatchTop \/ DispatchSelect \/ DispatchRecheck \/ DispatchHandle
           \/ DispatchSnapshot \/ DispatchIterate \/ CallbackReturn
    PROVE  DispatchMove \/ TakeStep \/ AcceptStep \/ ApplyStep \/ CopyStep
<1>1. CASE DispatchTop
      BY <1>1, DispatchToType DEF DispatchTop, DispatchMove
<1>2. CASE DispatchSelect
      BY <1>2 DEF DispatchSelect, DispatchMove, TakeStep
<1>3. CASE DispatchRecheck
      BY <1>3, DispatchToType DEF DispatchRecheck, DispatchMove, AcceptStep
<1>4. CASE DispatchHandle
      BY <1>4, DispatchToType DEF DispatchHandle, ApplyStep
<1>5. CASE DispatchSnapshot
      BY <1>5 DEF DispatchSnapshot, CopyStep, TypeOK
<1>6. CASE DispatchIterate
      BY <1>6, DispatchToType DEF DispatchIterate, DispatchMove
<1>7. CASE CallbackReturn
      BY <1>7, DispatchToType DEF CallbackReturn, DispatchMove
<1> QED
    BY <1>1, <1>2, <1>3, <1>4, <1>5, <1>6, <1>7

\* A callback starts for one of the subscribers still to be called.
LEMMA CallbackEffect ==
    ASSUME TypeOK, CallbackStart
    PROVE  \E s \in dispatcher.todo :
              /\ s \in Subscribers /\ dispatcher.state = "call"
              /\ dispatcher' = [state |-> "running", msg |-> dispatcher.msg,
                                todo |-> dispatcher.todo \ {s}]
              /\ delivered' = [delivered EXCEPT ![s] = Append(@, dispatcher.msg)]
              /\ staleCalls' = IF Left(s) THEN [staleCalls EXCEPT ![s] = @ + 1]
                               ELSE staleCalls
              /\ lateCalls' = IF phase = "done" THEN lateCalls + 1 ELSE lateCalls
              /\ UNCHANGED <<connVars, readVars, events, handled, subVars>>
  BY DEF CallbackStart, TypeOK

\* A step of a subscription changes its own record only: a handler is added,
\* the request is sent or not, or a handler is removed.
LEMMA SubscriptionEffect ==
    ASSUME TypeOK, NEW s \in Subscribers, Subscription(s)
    PROVE  /\ sub' \in [Subscribers -> {"adding", "on", "leaving"}]
           /\ added' \in [Subscribers -> Nat] /\ removed' \in [Subscribers -> Nat]
           /\ \A t \in Subscribers : t # s =>
                 sub'[t] = sub[t] /\ added'[t] = added[t] /\ removed'[t] = removed[t]
           /\ removed'[s] <= added'[s] /\ added'[s] <= Len(Ids[s])
           /\ removed[s] <= removed'[s] /\ added'[s] \in {added[s], added[s] + 1}
           /\ ~Left(s)
           /\ UNCHANGED <<connVars, readVars, events, dispatchVars, idOf>>
<1>1. /\ removed[s] \in Nat /\ added[s] \in Nat /\ Len(Ids[s]) \in Nat
      /\ removed[s] <= added[s] /\ added[s] <= Len(Ids[s])
      BY IdsAssumption DEF TypeOK
<1>2. CASE SubscribeAdd(s)
      BY <1>1, <1>2 DEF SubscribeAdd, TypeOK, Left
<1>3. CASE SubscribeSend(s)
  <2>1. PICK b \in {"on", "leaving"} : sub' = [sub EXCEPT ![s] = b]
        BY <1>3 DEF SubscribeSend
  <2> QED
      BY <1>1, <1>3, <2>1 DEF SubscribeSend, TypeOK, Left
<1>4. CASE Unsubscribe(s)
      BY <1>1, <1>4 DEF Unsubscribe, TypeOK, Left
<1> QED
    BY <1>2, <1>3, <1>4 DEF Subscription

\* Every step keeps the types; the numbers of the messages in the loops are
\* those of messages.
LEMMA TypeStep == TypeOK /\ QueueInv /\ [Next]_vars => TypeOK'
<1> SUFFICES ASSUME TypeOK, QueueInv, [Next]_vars PROVE TypeOK'
    OBVIOUS
<1> USE DEF connVars, readVars, dispatchVars, historyVars, subVars
<1>0. /\ dispatcher \in Dispatchers /\ QueueSize \in Nat \ {0}
      /\ MaxEvents \in Nat
      BY QueueAssumption, BoundAssumption DEF TypeOK, Dispatchers, DispatchStates
<1>1. CASE ConnStep
  <2>1. phase' \in Phases /\ reason' \in Reasons
        BY <1>1 DEF ConnStep, CloseStep, Close, CloseBody, EnterShutdown, TypeOK,
           Phases, Reasons
  <2> QED
      BY <1>1, <2>1 DEF ConnStep, CloseStep, Close, TypeOK
<1>2. CASE ReadEvent
  <2>1. received' \in 0..MaxEvents
        BY <1>0, <1>2 DEF ReadEvent, TypeOK
  <2> QED
      BY <1>2, <2>1 DEF ReadEvent, TypeOK
<1>3. CASE ReadOther
      BY <1>3, ReadOtherEffect DEF TypeOK
<1>4. CASE Enqueue
  <2>1. received \in 1..MaxEvents
        BY <1>4, EnqueueEffect DEF TypeOK, QueueInv
  <2>2. events' \in Seq(1..MaxEvents) /\ Len(events') <= QueueSize
    <3>1. CASE events' = Append(events, received) /\ Len(events) < QueueSize
          BY <1>0, <2>1, <3>1 DEF TypeOK
    <3> QED
        BY <1>4, <3>1, EnqueueEffect DEF TypeOK
  <2> QED
      BY <1>4, <2>2, EnqueueEffect DEF TypeOK
<1>5. CASE DispatchMove
  <2>1. dispatcher' \in Dispatchers
        BY <1>0, <1>5 DEF DispatchMove, DispatchEnd, Dispatchers, DispatchStates
  <2> QED
      BY <1>5, <2>1 DEF DispatchMove, TypeOK, Dispatchers, DispatchStates
<1>6. CASE TakeStep
  <2>1. events' \in Seq(1..MaxEvents) /\ Len(events') <= QueueSize
        BY <1>0, <1>6 DEF TakeStep, TypeOK
  <2>2. Head(events) \in 0..MaxEvents
    <3> DEFINE Messages == 1..MaxEvents
    <3>1. events \in Seq(Messages) /\ events # <<>>
          BY <1>6 DEF TakeStep, TypeOK
    <3> HIDE DEF Messages
    <3>2. Head(events) \in Messages
          BY <3>1
    <3> QED
        BY <1>0, <3>2 DEF Messages
  <2>3. dispatcher' \in Dispatchers
        BY <1>6, <2>2 DEF TakeStep, Dispatchers, DispatchStates
  <2> QED
      BY <1>6, <2>1, <2>3 DEF TakeStep, TypeOK, Dispatchers, DispatchStates
<1>7. CASE AcceptStep \/ ApplyStep \/ CopyStep
  <2>1. Handlers(idOf[dispatcher.msg]) \in SUBSET Subscribers
        BY DEF Handlers
  <2>2. dispatcher' \in Dispatchers /\ handled' \in 0..MaxEvents
        BY <1>0, <1>7, <2>1
        DEF AcceptStep, ApplyStep, CopyStep, Dispatchers, DispatchStates, TypeOK
  <2> QED
      BY <1>7, <2>2
      DEF AcceptStep, ApplyStep, CopyStep, TypeOK, Dispatchers, DispatchStates
<1>8. CASE CallbackStart
  <2>1. PICK s \in dispatcher.todo :
          /\ s \in Subscribers /\ dispatcher.state = "call"
          /\ dispatcher' = [state |-> "running", msg |-> dispatcher.msg,
                            todo |-> dispatcher.todo \ {s}]
          /\ delivered' = [delivered EXCEPT ![s] = Append(@, dispatcher.msg)]
          /\ staleCalls' = IF Left(s) THEN [staleCalls EXCEPT ![s] = @ + 1]
                           ELSE staleCalls
          /\ lateCalls' = IF phase = "done" THEN lateCalls + 1 ELSE lateCalls
          /\ UNCHANGED <<connVars, readVars, events, handled, subVars>>
        BY <1>8, CallbackEffect
  <2>2. dispatcher' \in Dispatchers
        BY <1>0, <2>1 DEF Dispatchers, DispatchStates
  <2>3. dispatcher.msg \in 1..MaxEvents
        BY <1>0, <2>1 DEF QueueInv, Applied, Calling, TypeOK
  <2>4. delivered' \in [Subscribers -> Seq(1..MaxEvents)]
        BY <2>1, <2>3 DEF TypeOK
  <2>5. lateCalls' \in Nat /\ staleCalls' \in [Subscribers -> Nat]
        BY <2>1 DEF TypeOK
  <2> QED
      BY <2>1, <2>2, <2>4, <2>5 DEF TypeOK, Dispatchers, DispatchStates
<1>9. ASSUME NEW s \in Subscribers, Subscription(s) PROVE TypeOK'
      BY <1>9, SubscriptionEffect DEF TypeOK
<1>10. CASE UNCHANGED vars
      BY <1>10 DEF vars, TypeOK
<1> QED
    BY <1>1, <1>2, <1>3, <1>4, <1>5, <1>6, <1>7, <1>8, <1>9, <1>10, Steps,
       DispatchSteps DEF ReadOther

\* The sequence of the messages survives every step.
LEMMA QueueStep == TypeOK /\ QueueInv /\ [Next]_vars => QueueInv'
<1> SUFFICES ASSUME TypeOK, QueueInv, [Next]_vars PROVE QueueInv'
    OBVIOUS
<1> USE DEF connVars, readVars, dispatchVars, historyVars, subVars
<1>0. /\ Len(events) \in Nat /\ Len(events) <= QueueSize
      /\ handled \in Nat /\ received \in Nat /\ QueueSize \in Nat
      /\ events \in Seq(1..MaxEvents)
      BY QueueAssumption, BoundAssumption DEF TypeOK
<1>1. ASSUME UNCHANGED <<reader, received, events, handled, dispatcher>>
      PROVE  QueueInv'
      BY <1>1 DEF QueueInv, Held, Taken
<1>2. CASE ConnStep
      BY <1>1, <1>2 DEF ConnStep, CloseStep, Close
<1>3. CASE ReadEvent
  <2>1. /\ reader = "reading" /\ reader' = "enqueue" /\ received' = received + 1
        /\ UNCHANGED <<events, handled, dispatcher>>
        BY <1>3 DEF ReadEvent
  <2>2. Held = 0 /\ Held' = 1 /\ Taken' = Taken /\ Taken \in {0, 1}
        BY <2>1 DEF Held, Taken
  <2> QED
      BY <1>0, <2>1, <2>2 DEF QueueInv
<1>4. CASE ReadOther
  <2>1. /\ reader \notin {"enqueue", "stopped"} /\ reader' # "enqueue"
        /\ UNCHANGED <<received, events, handled, dispatcher>>
        BY <1>4, ReadOtherEffect
  <2>2. Held = 0 /\ Held' = 0 /\ Taken' = Taken
        BY <2>1 DEF Held, Taken
  <2> QED
      BY <2>1, <2>2 DEF QueueInv
<1>5. CASE Enqueue
  <2>1. /\ reader = "enqueue"
        /\ \/ /\ Len(events) < QueueSize
              /\ events' = Append(events, received) /\ reader' = "reading"
           \/ events' = events /\ reader' = "stopped"
        /\ UNCHANGED <<received, handled, dispatcher>>
        BY <1>5, EnqueueEffect
  <2>2. Held = 1 /\ Held' = 0 /\ Taken' = Taken /\ Taken \in {0, 1}
        BY <2>1 DEF Held, Taken
  <2>3. CASE events' = Append(events, received) /\ reader' = "reading"
    <3>1. received \in 1..MaxEvents
          BY <2>1 DEF QueueInv, TypeOK
    <3>2. /\ Len(events') = Len(events) + 1
          /\ events'[Len(events) + 1] = received
          /\ \A i \in 1..Len(events) : events'[i] = events[i]
          /\ \A i \in 1..Len(events') : i \in 1..Len(events) \/ i = Len(events) + 1
          BY <1>0, <2>3, <3>1
    <3>3. ASSUME dispatcher.state # "ended", NEW i \in 1..Len(events')
          PROVE  events'[i] = handled + Taken + i
      <4>1. received = handled + Taken + Len(events) + 1
            BY <2>1, <2>2, <3>3 DEF QueueInv
      <4>2. CASE i \in 1..Len(events)
            BY <3>2, <3>3, <4>2 DEF QueueInv
      <4>3. CASE i = Len(events) + 1
            BY <1>0, <2>2, <3>2, <4>1, <4>3
      <4> QED
          BY <3>2, <4>2, <4>3
    <3> QED
        BY <1>0, <2>1, <2>2, <2>3, <3>2, <3>3 DEF QueueInv
  <2>4. CASE events' = events /\ reader' = "stopped"
        BY <1>0, <2>1, <2>2, <2>4 DEF QueueInv
  <2> QED
      BY <2>1, <2>3, <2>4
<1>6. CASE DispatchMove
  <2>1. UNCHANGED <<reader, received, events, handled>> /\ Held' = Held /\ Held \in {0, 1}
        BY <1>6 DEF DispatchMove, Held
  <2>2. CASE dispatcher'.state = "ended"
        BY <2>1, <2>2 DEF QueueInv, Applied, Calling
  <2>3. CASE dispatcher'.state # "ended"
    <3>1. /\ dispatcher'.state \notin {"recheck", "handle"}
          /\ dispatcher'.msg = dispatcher.msg
          /\ dispatcher.state \notin {"recheck", "handle", "ended"}
          /\ dispatcher'.state \in Applied => dispatcher.state \in Applied
          BY <1>6, <2>3 DEF DispatchMove, DispatchEnd, Applied, Calling
    <3>2. Taken = 0 /\ Taken' = 0
          BY <2>1, <3>1 DEF Taken
    <3> QED
        BY <2>1, <3>1, <3>2 DEF QueueInv
  <2> QED
      BY <2>2, <2>3
<1>7. CASE TakeStep
  <2>1. Taken = 0 /\ Taken' = 1 /\ Held' = Held /\ Held \in {0, 1}
        BY <1>7 DEF TakeStep, Taken, Held
  <2>2. /\ Len(events') = Len(events) - 1 /\ 1 \in 1..Len(events)
        /\ Head(events) = events[1]
        /\ \A i \in 1..Len(events') : events'[i] = events[i + 1] /\ i + 1 \in 1..Len(events)
        BY <1>0, <1>7 DEF TakeStep
  <2>3. Head(events) = handled + 1 /\ \A i \in 1..Len(events') : events'[i] = handled + 1 + i
        BY <1>0, <1>7, <2>1, <2>2 DEF TakeStep, QueueInv
  <2> QED
      BY <1>0, <1>7, <2>1, <2>2, <2>3 DEF TakeStep, QueueInv, Applied, Calling
<1>8. CASE AcceptStep \/ ApplyStep \/ CopyStep
  <2>1. CASE AcceptStep
    <3>1. Taken = 1 /\ Taken' = 1 /\ Held' = Held
          BY <2>1 DEF AcceptStep, Taken, Held
    <3> QED
        BY <2>1, <3>1 DEF AcceptStep, QueueInv, Applied, Calling
  <2>2. CASE ApplyStep
    <3>1. Taken = 1 /\ Taken' = 0 /\ Held' = Held /\ Held \in {0, 1}
          BY <2>2 DEF ApplyStep, Taken, Held
    <3>2. handled' = handled + 1
          BY <2>2 DEF ApplyStep, QueueInv
    <3> QED
        BY <1>0, <2>2, <3>1, <3>2 DEF ApplyStep, QueueInv, Applied, Calling
  <2>3. CASE CopyStep
    <3>1. Taken = 0 /\ Taken' = 0 /\ Held' = Held
          BY <2>3 DEF CopyStep, Taken, Held
    <3> QED
        BY <2>3, <3>1 DEF CopyStep, QueueInv, Applied, Calling
  <2> QED
      BY <1>8, <2>1, <2>2, <2>3
<1>9. CASE CallbackStart
  <2>1. /\ dispatcher.state = "call" /\ dispatcher'.state = "running"
        /\ dispatcher'.msg = dispatcher.msg
        /\ UNCHANGED <<reader, received, events, handled>>
        BY <1>9, CallbackEffect
  <2>2. Taken = 0 /\ Taken' = 0 /\ Held' = Held
        BY <2>1 DEF Taken, Held
  <2> QED
      BY <2>1, <2>2 DEF QueueInv, Applied, Calling
<1>10. ASSUME NEW s \in Subscribers, Subscription(s) PROVE QueueInv'
      BY <1>1, <1>10, SubscriptionEffect
<1>11. CASE UNCHANGED vars
      BY <1>1, <1>11 DEF vars
<1> QED
    BY <1>2, <1>3, <1>4, <1>5, <1>6, <1>7, <1>8, <1>9, <1>10, <1>11, Steps,
       DispatchSteps DEF ReadOther

\* The types and the queue, in every reachable state.
LEMMA QueueCorrect == Spec => [](TypeOK /\ QueueInv)
<1>1. Init => TypeOK
      BY QueueAssumption, BoundAssumption, TrafficAssumption, IdsAssumption
      DEF Init, OpenConnection, NoReason, Reasons, Phases, TypeOK
<1>2. Init => QueueInv
      BY DEF Init, QueueInv, Held, Taken, Applied, Calling
<1> QED
    BY <1>1, <1>2, TypeStep, QueueStep, PTL DEF Spec

\* The loops' and the subscriptions' state is always typed, and the queue
\* never holds more than its size.
THEOREM TypeCorrect == Spec => []TypeOK
  BY QueueCorrect, PTL

\* The receive side implements EventStream: it applies the messages in wire
\* order without a gap, takes up none once done is closed, so that at most
\* the one it had taken up is applied after that, and never has more than
\* the queue and one message per loop outstanding.
THEOREM StreamRefinement == Spec => ImplementsEventStream
<1>1. Init => Stream!Init
      BY DEF Init, OpenConnection, Stream!Init
<1>2. TypeOK /\ QueueInv /\ [Next]_vars => [Stream!Next]_Stream!vars
  <2> SUFFICES ASSUME TypeOK, QueueInv, [Next]_vars PROVE [Stream!Next]_Stream!vars
      OBVIOUS
  <2> USE DEF connVars, readVars, dispatchVars, historyVars, subVars
  <2>0. /\ Len(events) \in Nat /\ Len(events) <= QueueSize
        /\ handled \in Nat /\ received \in Nat /\ QueueSize \in Nat
        BY QueueAssumption, BoundAssumption DEF TypeOK
  <2>1. ASSUME received' = received, handled' = handled, (phase = "done")' = (phase = "done"),
               dispatcher.state = "handle" <=> dispatcher'.state = "handle"
        PROVE  [Stream!Next]_Stream!vars
        BY <2>1 DEF Stream!vars
  <2>2. CASE ConnStep
    <3>1. received' = received /\ handled' = handled /\ dispatcher' = dispatcher
          BY <2>2 DEF ConnStep, CloseStep, Close
    <3>2. CASE phase' = "done"
      <4>1. Stream!Close
            BY <3>1, <3>2 DEF Stream!Close
      <4> QED
          BY <4>1 DEF Stream!Next
    <3>3. CASE phase' # "done"
      <4>1. phase # "done"
            BY <2>2, <3>3 DEF ConnStep, CloseStep, Close, CloseBody
      <4> QED
          BY <2>1, <3>1, <3>3, <4>1
    <3> QED
        BY <3>2, <3>3
  <2>3. CASE ReadEvent
    <3>1. /\ reader = "reading" /\ received' = received + 1
          /\ UNCHANGED <<phase, handled, dispatcher>>
          BY <2>3 DEF ReadEvent
    <3>2. received <= handled + 1 + Len(events)
          BY <2>0, <3>1 DEF QueueInv, Held
    <3>3. received - handled < QueueSize + 2
          BY <2>0, <3>2
    <3>4. Stream!Receive
          BY <3>1, <3>3 DEF Stream!Receive
    <3> QED
        BY <3>4 DEF Stream!Next
  <2>4. CASE ReadOther
        BY <2>1, <2>4, ReadOtherEffect
  <2>5. CASE Enqueue
        BY <2>1, <2>5, EnqueueEffect
  <2>6. CASE DispatchMove
        BY <2>1, <2>6 DEF DispatchMove, DispatchEnd
  <2>7. CASE TakeStep \/ CopyStep
        BY <2>1, <2>7 DEF TakeStep, CopyStep
  <2>8. CASE AcceptStep \/ ApplyStep
    <3>1. handled < received
      <4>1. Taken = 1 /\ Held \in {0, 1}
            BY <2>8 DEF AcceptStep, ApplyStep, Taken, Held
      <4>2. handled + Taken + Len(events) + Held <= received
            BY <2>8 DEF AcceptStep, ApplyStep, QueueInv
      <4> QED
          BY <2>0, <4>1, <4>2
    <3>2. CASE AcceptStep
      <4>1. Stream!Accept
            BY <3>1, <3>2 DEF AcceptStep, Stream!Accept
      <4> QED
          BY <4>1 DEF Stream!Next
    <3>3. CASE ApplyStep
      <4>1. handled' = handled + 1
            BY <3>3 DEF ApplyStep, QueueInv
      <4>2. Stream!Dispatch
            BY <2>0, <3>3, <4>1 DEF ApplyStep, Stream!Dispatch
      <4> QED
          BY <4>2 DEF Stream!Next
    <3> QED
        BY <2>8, <3>2, <3>3
  <2>9. CASE CallbackStart
        BY <2>1, <2>9, CallbackEffect
  <2>10. ASSUME NEW s \in Subscribers, Subscription(s) PROVE [Stream!Next]_Stream!vars
        BY <2>1, <2>10, SubscriptionEffect
  <2>11. CASE UNCHANGED vars
        BY <2>1, <2>11 DEF vars
  <2> QED
      BY <2>2, <2>3, <2>4, <2>5, <2>6, <2>7, <2>8, <2>9, <2>10, <2>11, Steps,
         DispatchSteps DEF ReadOther
<1> QED
    BY <1>1, <1>2, QueueCorrect, PTL DEF Spec, ImplementsEventStream, Stream!Spec
-----------------------------------------------------------------------------
(* The callbacks.                                                          *)

\* Appending a greater number keeps a sequence of numbers ascending and adds
\* the number to its elements.
LEMMA AscendingAppend ==
    ASSUME NEW q \in Seq(1..MaxEvents), NEW n \in 1..MaxEvents,
           Ascending(q), \A i \in 1..Len(q) : q[i] < n
    PROVE  LET r == Append(q, n)
           IN  /\ Ascending(r)
               /\ {r[i] : i \in 1..Len(r)} = {q[i] : i \in 1..Len(q)} \cup {n}
<1> DEFINE r == Append(q, n)
<1>1. /\ Len(q) \in Nat /\ Len(r) = Len(q) + 1 /\ r[Len(q) + 1] = n
      /\ \A i \in 1..Len(q) : r[i] = q[i]
      OBVIOUS
<1>2. \A i \in 1..Len(r) : i \in 1..Len(q) \/ i = Len(q) + 1
      BY <1>1
<1>3. 1..Len(q) \subseteq 1..Len(r) /\ Len(q) + 1 \in 1..Len(r)
      BY <1>1
<1> HIDE DEF r
<1>4. ASSUME NEW i \in 1..Len(r), NEW j \in 1..Len(r), i < j PROVE r[i] < r[j]
  <2>1. i \in 1..Len(q)
        BY <1>1, <1>2, <1>4
  <2>2. CASE j \in 1..Len(q)
        BY <1>1, <1>4, <2>1, <2>2 DEF Ascending
  <2>3. CASE j = Len(q) + 1
        BY <1>1, <2>1, <2>3
  <2> QED
      BY <1>2, <2>2, <2>3
<1>5. {r[i] : i \in 1..Len(r)} = {q[i] : i \in 1..Len(q)} \cup {n}
      BY <1>1, <1>2, <1>3
<1> QED
    BY <1>4, <1>5 DEF Ascending, r

\* The messages a subscriber was called with are messages.
LEMMA GotType == TypeOK => \A s \in Subscribers : Got(s) \subseteq 1..MaxEvents
<1> SUFFICES ASSUME TypeOK, NEW s \in Subscribers PROVE Got(s) \subseteq 1..MaxEvents
    OBVIOUS
<1> DEFINE Messages == 1..MaxEvents
<1>1. delivered[s] \in Seq(Messages)
      BY DEF TypeOK
<1> HIDE DEF Messages
<1>2. \A i \in 1..Len(delivered[s]) : delivered[s][i] \in Messages
      BY <1>1
<1> QED
    BY <1>2 DEF Got, Messages

\* A handler that is there was added.
LEMMA HandlersAdded ==
    ASSUME TypeOK, NEW s \in Subscribers, NEW id, s \in Handlers(id)
    PROVE  Added(s, id) /\ ~Left(s)
  BY DEF TypeOK, Handlers, Added, Left

\* What DeliveryOf says of a subscriber depends on these alone.
LEMMA DeliverySame ==
    ASSUME NEW s \in Subscribers, DeliveryOf(s),
           UNCHANGED <<handled, idOf, sub, added, removed>>, delivered'[s] = delivered[s],
           dispatcher.state = "snapshot" <=> dispatcher'.state = "snapshot",
           s \in dispatcher.todo <=> s \in dispatcher'.todo,
           dispatcher.state = "ended" => dispatcher'.state = "ended"
    PROVE  DeliveryOf(s)'
<1>1. Got(s)' = Got(s) /\ Settled(s)' = Settled(s)
      BY DEF Got, Settled
<1>2. \A id : (Listening(s, id)' <=> Listening(s, id)) /\ (Added(s, id)' <=> Added(s, id))
      BY DEF Listening, Added, Handlers
<1> QED
    BY <1>1, <1>2 DEF DeliveryOf, Ascending

\* A subscriber is called in order, and with every message of an ID from the
\* first of that ID on.
LEMMA DeliveryStep ==
    TypeOK /\ QueueInv /\ DeliveryInv /\ [Next]_vars => DeliveryInv'
<1> SUFFICES ASSUME TypeOK, QueueInv, DeliveryInv, [Next]_vars PROVE DeliveryInv'
    OBVIOUS
<1> USE DEF connVars, readVars, dispatchVars, historyVars, subVars
<1>0. handled \in Nat /\ MaxEvents \in Nat
      BY BoundAssumption DEF TypeOK
<1>1. ASSUME UNCHANGED <<handled, dispatcher, delivered, subVars>> PROVE DeliveryInv'
      BY <1>1, DeliverySame DEF DeliveryInv
<1>2. CASE ConnStep \/ ReadEvent
      BY <1>1, <1>2 DEF ConnStep, CloseStep, Close, ReadEvent
<1>3. CASE ReadOther
      BY <1>1, <1>3, ReadOtherEffect
<1>4. CASE Enqueue
      BY <1>1, <1>4, EnqueueEffect
<1>5. CASE DispatchMove
  <2>1. UNCHANGED <<handled, delivered, subVars>>
        BY <1>5 DEF DispatchMove
  <2>2. CASE dispatcher'.state = "ended"
    <3>1. dispatcher'.todo = {}
          BY <1>5, <2>2 DEF DispatchMove, DispatchEnd
    <3>2. ASSUME NEW s \in Subscribers PROVE DeliveryOf(s)'
      <4>1. /\ Got(s)' = Got(s) /\ Settled(s)' = handled /\ Settled(s) <= handled
            /\ Settled(s) \in Int /\ delivered'[s] = delivered[s]
            /\ \A id : (Added(s, id)' <=> Added(s, id))
            BY <1>0, <2>1, <2>2, <3>1 DEF Got, Settled, Added
      <4>2. \A m \in Got(s) : m \in Int /\ idOf' = idOf
            BY <1>0, <2>1, GotType
      <4> QED
          BY <1>0, <2>2, <3>1, <4>1, <4>2 DEF DeliveryInv, DeliveryOf, Ascending
    <3> QED
        BY <3>1, <3>2 DEF DeliveryInv
  <2>3. CASE dispatcher'.state # "ended"
    <3>1. /\ dispatcher.state # "ended" /\ dispatcher'.todo = dispatcher.todo
          /\ dispatcher'.todo # {} => dispatcher'.state \in Calling
          /\ dispatcher.state # "snapshot" /\ dispatcher'.state # "snapshot"
          BY <1>5, <2>3 DEF DispatchMove, DispatchEnd, DeliveryInv, Calling
    <3> QED
        BY <2>1, <3>1, DeliverySame DEF DeliveryInv
  <2> QED
      BY <2>2, <2>3
<1>6. CASE TakeStep \/ AcceptStep
  <2>1. dispatcher.todo = {} /\ dispatcher'.todo = {}
        BY <1>6 DEF TakeStep, AcceptStep, DeliveryInv, Calling
  <2>2. /\ UNCHANGED <<handled, delivered, subVars>>
        /\ dispatcher.state \notin {"snapshot", "ended"} /\ dispatcher'.state # "snapshot"
        BY <1>6 DEF TakeStep, AcceptStep
  <2> QED
      BY <2>1, <2>2, DeliverySame DEF DeliveryInv
<1>7. CASE ApplyStep
  <2>1. /\ dispatcher.todo = {} /\ dispatcher'.todo = {} /\ handled' = handled + 1
        /\ dispatcher'.state = "snapshot" /\ dispatcher.state = "handle"
        /\ UNCHANGED <<delivered, subVars>>
        BY <1>7 DEF ApplyStep, DeliveryInv, QueueInv, Calling
  <2>2. ASSUME NEW s \in Subscribers PROVE DeliveryOf(s)'
    <3>1. Got(s)' = Got(s) /\ Settled(s)' = Settled(s) /\ delivered'[s] = delivered[s]
          BY <1>0, <2>1 DEF Got, Settled
    <3>2. \A id : (Listening(s, id)' <=> Listening(s, id)) /\ (Added(s, id)' <=> Added(s, id))
          BY <2>1 DEF Listening, Added, Handlers
    <3> QED
        BY <2>1, <3>1, <3>2 DEF DeliveryInv, DeliveryOf, Ascending
  <2> QED
      BY <2>1, <2>2 DEF DeliveryInv
<1>8. CASE CopyStep
  <2>1. /\ dispatcher.state = "snapshot" /\ dispatcher.msg = handled /\ dispatcher.todo = {}
        /\ dispatcher'.state = "iterate" /\ dispatcher'.todo = Handlers(idOf[handled])
        /\ UNCHANGED <<handled, delivered, subVars>>
        BY <1>8 DEF CopyStep, DeliveryInv, QueueInv, Applied, Calling
  <2>2. ASSUME NEW s \in Subscribers PROVE DeliveryOf(s)'
    <3>1. /\ Got(s)' = Got(s) /\ delivered'[s] = delivered[s] /\ Settled(s) = handled - 1
          /\ Settled(s)' = IF s \in Handlers(idOf[handled]) THEN handled - 1 ELSE handled
          BY <2>1 DEF Got, Settled
    <3>2. \A id : (Listening(s, id)' <=> s \in Handlers(id)) /\ (Added(s, id)' <=> Added(s, id))
          BY <2>1 DEF Listening, Added, Handlers
    <3>3. DeliveryOf(s) /\ \A id : s \in Handlers(id) => Added(s, id) /\ Listening(s, id)
          BY HandlersAdded DEF DeliveryInv, Listening
    <3>4. \A m \in Got(s) : m \in Int
          BY GotType
    <3>5. ASSUME NEW m \in Got(s), NEW l \in m..Settled(s)',
                 idOf[l] = idOf[m], s \in Handlers(idOf[m])
          PROVE  l \in Got(s)
      <4>1. l # handled \/ s \in Handlers(idOf[handled])
            BY <3>5
      <4>2. l \in m..Settled(s)
            BY <1>0, <3>1, <3>4, <3>5, <4>1
      <4> QED
          BY <2>1, <3>3, <3>5, <4>2 DEF DeliveryOf
    <3>6. \A m \in Got(s) : m <= Settled(s)'
          BY <1>0, <3>1, <3>3, <3>4 DEF DeliveryOf
    <3> QED
        BY <2>1, <3>1, <3>2, <3>3, <3>5, <3>6 DEF DeliveryOf, Ascending
  <2> QED
      BY <2>1, <2>2 DEF DeliveryInv, Calling
<1>9. CASE CallbackStart
  <2>1. PICK s \in dispatcher.todo :
          /\ s \in Subscribers /\ dispatcher.state = "call"
          /\ dispatcher' = [state |-> "running", msg |-> dispatcher.msg,
                            todo |-> dispatcher.todo \ {s}]
          /\ delivered' = [delivered EXCEPT ![s] = Append(@, dispatcher.msg)]
          /\ UNCHANGED <<handled, subVars>>
        BY <1>9, CallbackEffect
  <2>2. /\ dispatcher.msg = handled /\ dispatcher.msg \in 1..MaxEvents
        /\ delivered[s] \in Seq(1..MaxEvents) /\ DeliveryOf(s)
        BY <1>0, <2>1 DEF QueueInv, Applied, Calling, TypeOK, DeliveryInv
  <2>3. /\ delivered'[s] = Append(delivered[s], handled)
        /\ \A t \in Subscribers : t # s => delivered'[t] = delivered[t]
        BY <2>1, <2>2 DEF TypeOK
  <2>4. Settled(s) = handled - 1 /\ Settled(s)' = handled
        BY <2>1 DEF Settled
  <2>5. \A m \in Got(s) : m \in Int /\ m < handled
        BY <1>0, <2>1, <2>2, <2>4, GotType DEF DeliveryOf
  <2>6. Ascending(delivered'[s]) /\ Got(s)' = Got(s) \cup {handled}
    <3>1. \A i \in 1..Len(delivered[s]) : delivered[s][i] < handled
          BY <2>5 DEF Got
    <3> QED
        BY <2>2, <2>3, <3>1, AscendingAppend DEF DeliveryOf, Got
  <2>7. \A m :
          /\ Added(s, idOf[m])' <=> Added(s, idOf[m])
          /\ Listening(s, idOf[m])' => Listening(s, idOf[m])
        BY <2>1 DEF Added, Listening, Handlers
  <2>8. \A m \in Got(s), l \in Int : m <= l /\ l < handled /\ idOf[l] = idOf[m]
             /\ Listening(s, idOf[m]) => l \in Got(s)
        BY <1>0, <2>1, <2>2, <2>4, <2>5 DEF DeliveryOf
  <2>9. Listening(s, idOf[handled])
        BY <2>1 DEF Listening
  <2>10. DeliveryOf(s)'
    <3>1. \A m \in Got(s)' : m <= Settled(s)' /\ Added(s, idOf[m])
          BY <1>0, <2>1, <2>2, <2>4, <2>5, <2>6 DEF DeliveryOf
    <3>2. ASSUME NEW m \in Got(s)', NEW n \in Got(s)', NEW l \in m..n,
                 idOf[l] = idOf[m], idOf[n] = idOf[m]
          PROVE  l \in Got(s)'
      <4>1. CASE m \in Got(s) /\ n \in Got(s)
            BY <2>2, <2>6, <3>2, <4>1 DEF DeliveryOf
      <4>2. CASE n = handled
        <5>1. l = handled \/ (l < handled /\ m \in Got(s))
              BY <1>0, <2>5, <2>6, <3>2, <4>2
        <5>2. l \in Int /\ m <= l
              BY <3>2
        <5> QED
            BY <2>6, <2>8, <2>9, <3>2, <4>2, <5>1, <5>2
      <4>3. CASE m = handled
        <5>1. l = handled
              BY <1>0, <2>5, <2>6, <3>2, <4>3
        <5> QED
            BY <2>6, <5>1
      <4> QED
          BY <2>6, <4>1, <4>2, <4>3
    <3>3. ASSUME NEW m \in Got(s)', NEW l \in m..handled,
                 idOf[l] = idOf[m], Listening(s, idOf[m])'
          PROVE  l \in Got(s)'
      <4>1. l = handled \/ (l < handled /\ m \in Got(s))
            BY <1>0, <2>5, <2>6, <3>3
      <4>2. l \in Int /\ m <= l
            BY <3>3
      <4> QED
          BY <2>6, <2>7, <2>8, <3>3, <4>1, <4>2
    <3>4. /\ idOf' = idOf /\ s \notin dispatcher'.todo /\ Settled(s)' = handled
          /\ Ascending(delivered'[s])
          BY <2>1, <2>4, <2>6
    <3>5. \A m \in Got(s)' : Added(s, idOf[m])'
          BY <2>7, <3>1
    <3> QED
        BY <3>1, <3>2, <3>3, <3>4, <3>5 DEF DeliveryOf, Ascending
  <2>11. ASSUME NEW t \in Subscribers, t # s PROVE DeliveryOf(t)'
        BY <2>1, <2>3, <2>11, DeliverySame DEF DeliveryInv
  <2> QED
      BY <2>1, <2>10, <2>11 DEF DeliveryInv, Calling
<1>10. ASSUME NEW s \in Subscribers, Subscription(s) PROVE DeliveryInv'
  <2>1. /\ UNCHANGED <<handled, dispatcher, delivered, idOf>>
        /\ \A t \in Subscribers : t # s =>
              sub'[t] = sub[t] /\ added'[t] = added[t] /\ removed'[t] = removed[t]
        /\ removed[s] <= removed'[s] /\ added'[s] \in {added[s], added[s] + 1}
        /\ added'[s] <= Len(Ids[s]) /\ removed'[s] \in Nat
        BY <1>10, SubscriptionEffect
  <2>2. /\ removed[s] \in Nat /\ added[s] \in Nat /\ Len(Ids[s]) \in Nat
        BY IdsAssumption DEF TypeOK
  <2>3. \A t \in Subscribers : Got(t)' = Got(t) /\ Settled(t)' = Settled(t)
        BY <2>1 DEF Got, Settled
  <2>4. ASSUME NEW t \in Subscribers, NEW id
        PROVE  /\ Added(t, id) => Added(t, id)'
               /\ Added(t, id) /\ Listening(t, id)' => Listening(t, id)
    <3>1. CASE t # s
          BY <2>1, <3>1 DEF Added, Listening, Handlers
    <3>2. CASE t = s
      <4>1. Added(s, id) => Added(s, id)'
            BY <2>1, <2>2 DEF Added
      <4>2. ASSUME Added(s, id), s \in Handlers(id)' PROVE s \in Handlers(id)
        <5>1. PICK i \in (removed'[s] + 1)..added'[s] : Ids[s][i] = id
              BY <4>2 DEF Handlers
        <5>2. PICK j \in 1..added[s] : Ids[s][j] = id
              BY <4>2 DEF Added
        <5>3. i \in 1..Len(Ids[s]) /\ j \in 1..Len(Ids[s])
          <6>1. added[s] <= Len(Ids[s])
                BY DEF TypeOK
          <6> QED
              BY <2>1, <2>2, <5>1, <5>2, <6>1
        <5>4. i = j
              BY <5>1, <5>2, <5>3, IdsAssumption
        <5>5. i \in (removed[s] + 1)..added[s]
              BY <2>1, <2>2, <5>1, <5>2, <5>4
        <5> QED
            BY <5>1, <5>5 DEF Handlers
      <4> QED
          BY <2>1, <3>2, <4>1, <4>2 DEF Listening
    <3> QED
        BY <3>1, <3>2
  <2>5. ASSUME NEW t \in Subscribers PROVE DeliveryOf(t)'
    <3>1. DeliveryOf(t)
          BY DEF DeliveryInv
    <3> QED
        BY <2>1, <2>3, <2>4, <3>1 DEF DeliveryOf, Ascending
  <2> QED
      BY <2>1, <2>5 DEF DeliveryInv
<1>11. CASE UNCHANGED vars
      BY <1>1, <1>11 DEF vars
<1> QED
    BY <1>2, <1>3, <1>4, <1>5, <1>6, <1>7, <1>8, <1>9, <1>10, <1>11, Steps,
       DispatchSteps DEF ReadOther

\* Only the callback whose check of done had passed starts after done is
\* closed.
LEMMA LateStep == TypeOK /\ LateInv /\ [Next]_vars => LateInv'
<1> SUFFICES ASSUME TypeOK, LateInv, [Next]_vars PROVE LateInv'
    OBVIOUS
<1> USE DEF connVars, readVars, dispatchVars, historyVars, subVars
<1>1. ASSUME UNCHANGED <<dispatcher, lateCalls>>, phase = "done" => phase' = "done"
      PROVE  LateInv'
      BY <1>1 DEF LateInv
<1>2. CASE ConnStep \/ ReadEvent
      BY <1>1, <1>2 DEF ConnStep, CloseStep, Close, CloseBody, ReadEvent
<1>3. CASE ReadOther
      BY <1>1, <1>3, ReadOtherEffect
<1>4. CASE Enqueue
      BY <1>1, <1>4, EnqueueEffect
<1>5. CASE DispatchMove
      BY <1>5 DEF DispatchMove, DispatchEnd, LateInv
<1>6. CASE TakeStep \/ AcceptStep
      BY <1>6 DEF TakeStep, AcceptStep, LateInv
<1>7. CASE ApplyStep \/ CopyStep
      BY <1>7 DEF ApplyStep, CopyStep, LateInv
<1>8. CASE CallbackStart
  <2>1. /\ dispatcher.state = "call" /\ dispatcher'.state = "running"
        /\ lateCalls' = IF phase = "done" THEN lateCalls + 1 ELSE lateCalls
        /\ phase' = phase
        BY <1>8, CallbackEffect
  <2> QED
      BY <2>1 DEF LateInv
<1>9. ASSUME NEW s \in Subscribers, Subscription(s) PROVE LateInv'
      BY <1>1, <1>9, SubscriptionEffect
<1>10. CASE UNCHANGED vars
      BY <1>1, <1>10 DEF vars
<1> QED
    BY <1>2, <1>3, <1>4, <1>5, <1>6, <1>7, <1>8, <1>9, <1>10, Steps,
       DispatchSteps DEF ReadOther

\* A removed subscriber is called for the snapshot that holds it only.
LEMMA StaleStep == TypeOK /\ DeliveryInv /\ StaleInv /\ [Next]_vars => StaleInv'
<1> SUFFICES ASSUME TypeOK, DeliveryInv, StaleInv, [Next]_vars PROVE StaleInv'
    OBVIOUS
<1> USE DEF connVars, readVars, dispatchVars, historyVars, subVars
<1>1. ASSUME UNCHANGED <<staleCalls, subVars>>, dispatcher'.todo \subseteq dispatcher.todo
      PROVE  StaleInv'
      BY <1>1 DEF StaleInv, Left
<1>2. CASE ConnStep \/ ReadEvent
      BY <1>1, <1>2 DEF ConnStep, CloseStep, Close, ReadEvent
<1>3. CASE ReadOther
      BY <1>1, <1>3, ReadOtherEffect
<1>4. CASE Enqueue
      BY <1>1, <1>4, EnqueueEffect
<1>5. CASE DispatchMove
      BY <1>1, <1>5 DEF DispatchMove, DispatchEnd
<1>6. CASE TakeStep \/ AcceptStep \/ ApplyStep
      BY <1>1, <1>6 DEF TakeStep, AcceptStep, ApplyStep
<1>7. CASE CopyStep
  <2>1. /\ dispatcher'.todo = Handlers(idOf[dispatcher.msg])
        /\ UNCHANGED <<staleCalls, subVars>>
        BY <1>7 DEF CopyStep
  <2> QED
      BY <2>1, HandlersAdded DEF StaleInv, Left
<1>8. CASE CallbackStart
  <2>1. PICK s \in dispatcher.todo :
          /\ s \in Subscribers
          /\ dispatcher'.todo = dispatcher.todo \ {s}
          /\ staleCalls' = IF Left(s) THEN [staleCalls EXCEPT ![s] = @ + 1]
                           ELSE staleCalls
          /\ UNCHANGED subVars
        BY <1>8, CallbackEffect
  <2>2. staleCalls[s] = 0 /\ staleCalls' \in [Subscribers -> Nat]
        BY <2>1 DEF StaleInv, TypeOK
  <2>3. CASE ~Left(s)
        BY <1>1, <2>1, <2>3
  <2>4. CASE Left(s)
    <3>1. /\ staleCalls'[s] = 1
          /\ \A t \in Subscribers : t # s => staleCalls'[t] = staleCalls[t]
          BY <2>1, <2>2, <2>4 DEF TypeOK
    <3>2. \A t \in Subscribers : Left(t)' <=> Left(t)
          BY <2>1 DEF Left
    <3> QED
        BY <2>1, <2>4, <3>1, <3>2 DEF StaleInv
  <2> QED
      BY <2>3, <2>4
<1>9. ASSUME NEW s \in Subscribers, Subscription(s) PROVE StaleInv'
  <2>1. /\ UNCHANGED <<dispatcher, staleCalls>> /\ ~Left(s)
        /\ \A t \in Subscribers : t # s =>
              sub'[t] = sub[t] /\ added'[t] = added[t] /\ removed'[t] = removed[t]
        BY <1>9, SubscriptionEffect
  <2> QED
      BY <2>1 DEF StaleInv, Left
<1>10. CASE UNCHANGED vars
      BY <1>1, <1>10 DEF vars
<1> QED
    BY <1>2, <1>3, <1>4, <1>5, <1>6, <1>7, <1>8, <1>9, <1>10, Steps,
       DispatchSteps DEF ReadOther

\* The queue, the deliveries and the late and stale callbacks, in every
\* reachable state.
LEMMA DispatchCorrect == Spec => []DispatchInv
<1>1. Init => DispatchInv
  <2> SUFFICES ASSUME Init PROVE DispatchInv
      OBVIOUS
  <2>1. QueueInv
        BY DEF Init, QueueInv, Held, Taken, Applied, Calling
  <2>2. DeliveryInv
        BY DEF Init, DeliveryInv, DeliveryOf, Got, Ascending
  <2>3. LateInv /\ StaleInv
        BY DEF Init, LateInv, StaleInv
  <2> QED
      BY <2>1, <2>2, <2>3 DEF DispatchInv
<1>2. TypeOK /\ DispatchInv /\ [Next]_vars => DispatchInv'
      BY QueueStep, DeliveryStep, LateStep, StaleStep DEF DispatchInv
<1> QED
    BY <1>1, <1>2, TypeCorrect, PTL DEF Spec

\* A subscriber is called in wire order, with no message twice, and between
\* two messages of one ID with every message of that ID.
THEOREM DeliverySafety == Spec => []ConsecutiveDelivery
<1>1. TypeOK /\ DispatchInv => ConsecutiveDelivery
  <2> SUFFICES ASSUME TypeOK, DispatchInv, NEW s \in Subscribers,
                      NEW i \in 1..Len(delivered[s]), NEW j \in 1..Len(delivered[s]), i < j
               PROVE  /\ delivered[s][i] < delivered[s][j]
                      /\ idOf[delivered[s][i]] = idOf[delivered[s][j]] =>
                            \A n \in delivered[s][i]..delivered[s][j] :
                               idOf[n] = idOf[delivered[s][i]] =>
                                  \E k \in 1..Len(delivered[s]) : delivered[s][k] = n
      BY DEF ConsecutiveDelivery
  <2>1. DeliveryOf(s)
        BY DEF DispatchInv, DeliveryInv
  <2>2. delivered[s][i] \in Got(s) /\ delivered[s][j] \in Got(s)
        BY DEF Got
  <2>3. ASSUME NEW n \in delivered[s][i]..delivered[s][j],
               idOf[delivered[s][i]] = idOf[delivered[s][j]],
               idOf[n] = idOf[delivered[s][i]]
        PROVE  n \in Got(s)
        BY <2>1, <2>2, <2>3 DEF DeliveryOf
  <2>4. delivered[s][i] < delivered[s][j]
        BY <2>1 DEF DeliveryOf, Ascending
  <2> QED
      BY <2>3, <2>4 DEF Got
<1> QED
    BY <1>1, DispatchCorrect, TypeCorrect, PTL

\* At most one callback starts after done is closed.
THEOREM LateSafety == Spec => []OneLateCallback
<1>1. DispatchInv => OneLateCallback
      BY DEF DispatchInv, LateInv, OneLateCallback
<1> QED
    BY <1>1, DispatchCorrect, PTL

\* At most one callback of a subscriber starts after unsubscribe returned.
THEOREM StaleSafety == Spec => []OneStaleCallback
<1>1. DispatchInv => OneStaleCallback
      BY DEF DispatchInv, StaleInv, OneStaleCallback
<1> QED
    BY <1>1, DispatchCorrect, PTL
=============================================================================
