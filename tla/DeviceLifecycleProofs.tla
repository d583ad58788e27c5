------------------------ MODULE DeviceLifecycleProofs -----------------------
(***************************************************************************)
(* Proofs about DeviceLifecycle, for any sessions, Serve calls, droppers   *)
(* and waiters and any limits.                                             *)
(***************************************************************************)
EXTENDS DeviceLifecycle, FiniteSetTheorems, TLAPS

\* The slots taken are those of the running sessions.
SlotCount == sessionTasks = Cardinality(Active) /\ connections \subseteq Active

\* The slots are counted, the sets that are counted are finite, and a device
\* whose commands channel is closed serves nobody.
LifecycleInv ==
    /\ TypeOK
    /\ IsFiniteSet(Active) /\ IsFiniteSet(listeners)
    /\ SlotCount
    /\ CommandsOpenWhileServing

\* The states of a session, and those in which its goroutine owns a slot.
SessionStates == {"none", "refused", "serving", "stalled", "leaving", "removed", "ended"}
Running == {"serving", "stalled", "leaving"}

\* The steps, one by one, with the actors that take them.
LEMMA Steps ==
    ASSUME [Next]_vars
    PROVE  \/ \E s \in Sessions : \/ DialContext(s) \/ PeerClose(s) \/ Stall(s)
                                  \/ SessionReturn(s) \/ SessionRemove(s) \/ SessionEnd(s)
           \/ \E l \in Listeners : \/ ServeStart(l) \/ Accept(l) \/ AcceptError(l)
                                   \/ ServeRemove(l) \/ ServeReturn(l)
           \/ \E d \in Droppers : Drop(d) \/ DropClose(d)
           \/ \E w \in Waiters : WaitCheck(w) \/ WaitWake(w)
           \/ CloseSignal \/ CloseSweep \/ CloseFinish
           \/ UNCHANGED vars
  BY DEF Next, WaitForIdle, Close, Terminated

\* A session that starts takes a slot or is refused.
LEMMA StartEffect ==
    ASSUME LifecycleInv, NEW s \in Sessions, StartConnection(s)
    PROVE  /\ session' \in [Sessions -> SessionStates]
           /\ connections' \subseteq Sessions
           /\ resourceNotify' \in BOOLEAN
           /\ UNCHANGED <<localClosed, peerClosed>>
           /\ \/ Active' = Active /\ UNCHANGED <<sessionTasks, connections>>
              \/ /\ ~Done /\ sessionTasks < MaxConnections
                 /\ s \notin Active /\ Active' = Active \cup {s}
                 /\ sessionTasks' = sessionTasks + 1
                 /\ connections' = connections \cup {s}
<1> USE DEF LifecycleInv, TypeOK, SessionStates
<1>1. session[s] = "none" /\ s \notin Active
      BY DEF StartConnection, Active
<1>2. CASE Rejected(s)
  <2>1. session' = [session EXCEPT ![s] = "refused"]
        BY <1>2 DEF Rejected
  <2>2. session' \in [Sessions -> SessionStates]
        BY <2>1
  <2>3. Active' = Active
        BY <1>1, <2>1 DEF Active
  <2> QED
      BY <1>2, <2>2, <2>3 DEF Rejected
<1>3. CASE ~Done /\ ~(sessionTasks >= MaxConnections) /\ Admitted(s)
  <2>1. session' = [session EXCEPT ![s] = "serving"]
        BY <1>3 DEF Admitted
  <2>2. session' \in [Sessions -> SessionStates]
        BY <2>1
  <2>3. Active' = Active \cup {s}
        BY <1>1, <2>1 DEF Active
  <2>4. sessionTasks < MaxConnections
        BY <1>3, LimitAssumption
  <2> QED
      BY <1>1, <1>3, <2>2, <2>3, <2>4 DEF Admitted, NotifyResourceChange
<1> QED
    BY <1>2, <1>3 DEF StartConnection

\* A slot more, or none, keeps the count right and below the limit.
LEMMA SlotTaken ==
    ASSUME LifecycleInv, NEW s \in Sessions, StartConnection(s)
    PROVE  /\ IsFiniteSet(Active') /\ SlotCount' /\ sessionTasks' \in 0..MaxConnections
           /\ CommandsClosed => Active' = Active
<1>1. CASE Active' = Active /\ UNCHANGED <<sessionTasks, connections>>
      BY <1>1 DEF LifecycleInv, SlotCount, TypeOK
<1>2. CASE /\ ~Done /\ sessionTasks < MaxConnections
           /\ s \notin Active /\ Active' = Active \cup {s}
           /\ sessionTasks' = sessionTasks + 1
           /\ connections' = connections \cup {s}
  <2>1. IsFiniteSet(Active') /\ Cardinality(Active') = Cardinality(Active) + 1
        BY <1>2, FS_AddElement DEF LifecycleInv
  <2>2. SlotCount'
        BY <1>2, <2>1 DEF LifecycleInv, SlotCount
  <2>3. sessionTasks' \in 0..MaxConnections
        BY <1>2, LimitAssumption DEF LifecycleInv, TypeOK
  <2> QED
      BY <1>2, <2>1, <2>2, <2>3 DEF Done, CommandsClosed
<1> QED
    BY <1>1, <1>2, StartEffect

\* A step that starts and ends no session keeps what is counted.
LEMMA SlotsKept ==
    ASSUME LifecycleInv, Active' = Active, sessionTasks' = sessionTasks,
           connections' \subseteq connections
    PROVE  IsFiniteSet(Active') /\ SlotCount'
  BY DEF LifecycleInv, SlotCount

\* Every step of a session, a Serve call, a dropper, a waiter and Close keeps
\* the types and the account of the slots.
LEMMA LifecycleStep == LifecycleInv /\ [Next]_vars => LifecycleInv'
<1> SUFFICES ASSUME LifecycleInv, [Next]_vars PROVE LifecycleInv'
    OBVIOUS
<1>0. TypeOK /\ IsFiniteSet(listeners) /\ CommandsOpenWhileServing
      BY DEF LifecycleInv
<1> USE DEF sessionVars, serverVars
<1>1. ASSUME NEW s \in Sessions, DialContext(s) PROVE LifecycleInv'
  <2>1. StartConnection(s) /\ UNCHANGED <<closer, serverVars, dropper, waiter>>
        BY <1>1 DEF DialContext
  <2>2. TypeOK'
        BY <1>0, <2>1, StartEffect, SlotTaken DEF TypeOK, SessionStates
  <2> QED
      BY <1>0, <2>1, <2>2, SlotTaken
      DEF LifecycleInv, CommandsOpenWhileServing, CommandsClosed
<1>2. ASSUME NEW s \in Sessions, PeerClose(s) PROVE LifecycleInv'
  <2>1. TypeOK' /\ Active' = Active
        BY <1>0, <1>2 DEF TypeOK, PeerClose, Active
  <2> QED
      BY <1>0, <1>2, <2>1, SlotsKept
      DEF PeerClose, LifecycleInv, CommandsOpenWhileServing, CommandsClosed
<1>3. ASSUME NEW s \in Sessions, Stall(s) \/ SessionReturn(s) PROVE LifecycleInv'
  <2>1. \E r \in {"stalled", "leaving"} : session' = [session EXCEPT ![s] = r]
        BY <1>3 DEF Stall, SessionReturn
  <2>2. session[s] \in Running
        BY <1>3 DEF Stall, SessionReturn, Running
  <2>3. session' \in [Sessions -> SessionStates] /\ Active' = Active
        BY <1>0, <2>1, <2>2 DEF TypeOK, SessionStates, Active, Running
  <2>4. localClosed' \in [Sessions -> BOOLEAN]
        BY <1>0, <1>3 DEF TypeOK, Stall, SessionReturn
  <2>5. TypeOK'
        BY <1>0, <1>3, <2>3, <2>4 DEF TypeOK, SessionStates, Stall, SessionReturn
  <2> QED
      BY <1>0, <1>3, <2>3, <2>5, SlotsKept
      DEF Stall, SessionReturn, LifecycleInv, CommandsOpenWhileServing, CommandsClosed
<1>4. ASSUME NEW s \in Sessions, SessionRemove(s) PROVE LifecycleInv'
  <2>1. s \in Active
        BY <1>4 DEF SessionRemove, Active
  <2>2. session' \in [Sessions -> SessionStates] /\ Active' = Active \ {s}
        BY <1>0, <1>4 DEF SessionRemove, TypeOK, SessionStates, Active
  <2>3. /\ IsFiniteSet(Active') /\ Cardinality(Active') = Cardinality(Active) - 1
        BY <2>1, <2>2, FS_RemoveElement DEF LifecycleInv
  <2>4. Cardinality(Active') \in Nat
        BY <2>3, FS_CardinalityType
  <2>5. SlotCount'
        BY <1>4, <2>2, <2>3 DEF SessionRemove, LifecycleInv, SlotCount
  <2>6. sessionTasks' \in 0..MaxConnections
        BY <1>0, <1>4, <2>4, <2>5, LimitAssumption
        DEF SessionRemove, TypeOK, SlotCount
  <2>7. TypeOK'
        BY <1>0, <1>4, <2>2, <2>6 DEF SessionRemove, TypeOK, SessionStates
  <2>8. CommandsOpenWhileServing'
        BY <1>0, <1>4, <2>2 DEF SessionRemove, CommandsOpenWhileServing, CommandsClosed
  <2> QED
      BY <1>0, <1>4, <2>3, <2>5, <2>7, <2>8 DEF LifecycleInv, SessionRemove
<1>5. ASSUME NEW s \in Sessions, SessionEnd(s) PROVE LifecycleInv'
  <2>1. session' \in [Sessions -> SessionStates] /\ Active' = Active
        BY <1>0, <1>5 DEF SessionEnd, TypeOK, SessionStates, Active
  <2>2. TypeOK'
        BY <1>0, <1>5, <2>1 DEF SessionEnd, TypeOK, SessionStates, NotifyResourceChange
  <2> QED
      BY <1>0, <1>5, <2>1, <2>2, SlotsKept
      DEF SessionEnd, LifecycleInv, CommandsOpenWhileServing, CommandsClosed
<1>6. ASSUME NEW l \in Listeners, ServeStart(l) PROVE LifecycleInv'
  <2>1. Active' = Active /\ UNCHANGED <<closer, sessionVars, dropper, waiter, listenerClosed>>
        BY <1>6 DEF ServeStart, Active
  <2>2. CASE Done \/ Cardinality(listeners) >= MaxListeners
    <3>1. TypeOK'
          BY <1>0, <1>6, <2>2 DEF ServeStart, TypeOK
    <3> QED
        BY <1>0, <1>6, <2>1, <2>2, <3>1, SlotsKept
        DEF ServeStart, LifecycleInv, CommandsOpenWhileServing, CommandsClosed
  <2>3. CASE ~(Done \/ Cardinality(listeners) >= MaxListeners)
    <3>1. /\ server' = [server EXCEPT ![l] = "accepting"]
          /\ listeners' = listeners \cup {l} /\ resourceNotify' = TRUE
          BY <1>6, <2>3 DEF ServeStart, NotifyResourceChange
    <3>2. /\ IsFiniteSet(listeners')
          /\ \/ Cardinality(listeners') = Cardinality(listeners)
             \/ Cardinality(listeners') = Cardinality(listeners) + 1
          BY <1>0, <3>1, FS_AddElement
    <3>3. Cardinality(listeners) \in Nat
          BY <1>0, FS_CardinalityType
    <3>4. Cardinality(listeners') <= MaxListeners
          BY <2>3, <3>2, <3>3, LimitAssumption
    <3>5. TypeOK'
          BY <1>0, <2>1, <3>1, <3>4 DEF TypeOK
    <3> QED
        BY <1>0, <2>1, <3>2, <3>5, SlotsKept
        DEF LifecycleInv, CommandsOpenWhileServing, CommandsClosed
  <2> QED
      BY <2>2, <2>3
<1>7. ASSUME NEW l \in Listeners, Accept(l) PROVE LifecycleInv'
  <2>1. PICK s \in Sessions : StartConnection(s)
        BY <1>7 DEF Accept
  <2>2. /\ server' \in [Listeners -> {"idle", "accepting", "leaving", "removed", "returned"}]
        /\ UNCHANGED <<closer, listenerClosed, listeners, dropper, waiter>>
        BY <1>0, <1>7 DEF Accept, TypeOK
  <2>3. TypeOK'
        BY <1>0, <2>1, <2>2, StartEffect, SlotTaken DEF TypeOK, SessionStates
  <2> QED
      BY <1>0, <2>1, <2>2, <2>3, SlotTaken
      DEF LifecycleInv, CommandsOpenWhileServing, CommandsClosed
<1>8. ASSUME NEW l \in Listeners, AcceptError(l) \/ ServeRemove(l) \/ ServeReturn(l)
      PROVE  LifecycleInv'
  <2>1. Active' = Active /\ UNCHANGED <<closer, sessionVars, dropper, waiter>>
        BY <1>8 DEF AcceptError, ServeRemove, ServeReturn, Active
  <2>2. listeners' \subseteq listeners
        BY <1>8 DEF AcceptError, ServeRemove, ServeReturn
  <2>3. /\ IsFiniteSet(listeners')
        /\ Cardinality(listeners') <= Cardinality(listeners)
        BY <1>0, <2>2, FS_Subset
  <2>4. Cardinality(listeners') <= MaxListeners
        BY <1>0, <2>3, FS_CardinalityType, LimitAssumption DEF TypeOK
  <2>5. /\ server' \in [Listeners -> {"idle", "accepting", "leaving", "removed", "returned"}]
        /\ listenerClosed' \in [Listeners -> BOOLEAN]
        /\ resourceNotify' \in BOOLEAN
        BY <1>0, <1>8 DEF AcceptError, ServeRemove, ServeReturn, TypeOK, NotifyResourceChange
  <2>6. TypeOK'
        BY <1>0, <2>1, <2>2, <2>4, <2>5 DEF TypeOK
  <2> QED
      BY <1>0, <2>1, <2>3, <2>6, SlotsKept
      DEF LifecycleInv, CommandsOpenWhileServing, CommandsClosed
<1>9. ASSUME NEW d \in Droppers, Drop(d) \/ DropClose(d) PROVE LifecycleInv'
  <2>1. /\ Active' = Active /\ connections' \subseteq connections
        /\ UNCHANGED <<closer, session, peerClosed, sessionTasks, serverVars, waiter>>
        BY <1>9 DEF Drop, DropClose, Active
  <2>2. /\ dropper' \in [Droppers -> [state : {"idle", "closing", "returned"},
                                      todo : SUBSET Sessions]]
        /\ localClosed' \in [Sessions -> BOOLEAN]
        /\ resourceNotify' \in BOOLEAN
    <3>1. CASE Drop(d)
          BY <1>0, <3>1 DEF Drop, TypeOK, NotifyResourceChange
    <3>2. CASE DropClose(d)
      <4>1. /\ dropper[d].state = "closing" /\ dropper[d].todo \in SUBSET Sessions
            /\ resourceNotify' = resourceNotify
            BY <1>0, <3>2 DEF DropClose, TypeOK
      <4>2. CASE dropper' = [dropper EXCEPT ![d].state = "returned"] /\ localClosed' = localClosed
            BY <1>0, <4>1, <4>2 DEF TypeOK
      <4>3. CASE \E s \in dropper[d].todo :
                    /\ localClosed' = [localClosed EXCEPT ![s] = TRUE]
                    /\ dropper' = [dropper EXCEPT ![d].todo = @ \ {s}]
            BY <1>0, <4>1, <4>3 DEF TypeOK
      <4> QED
          BY <3>2, <4>2, <4>3 DEF DropClose
    <3> QED
        BY <1>9, <3>1, <3>2
  <2>3. TypeOK'
        BY <1>0, <2>1, <2>2 DEF TypeOK
  <2> QED
      BY <1>0, <2>1, <2>3, SlotsKept
      DEF LifecycleInv, CommandsOpenWhileServing, CommandsClosed
<1>10. ASSUME NEW w \in Waiters, WaitCheck(w) \/ WaitWake(w) PROVE LifecycleInv'
  <2>1. Active' = Active /\ UNCHANGED <<closer, sessionVars, serverVars, dropper>>
        BY <1>10 DEF WaitCheck, WaitWake, Active
  <2>2. /\ waiter' \in [Waiters -> {"idle", "check", "waiting", "returned"}]
        /\ resourceNotify' \in BOOLEAN
        BY <1>0, <1>10 DEF WaitCheck, WaitWake, TypeOK
  <2>3. TypeOK'
        BY <1>0, <2>1, <2>2 DEF TypeOK
  <2> QED
      BY <1>0, <2>1, <2>3, SlotsKept
      DEF LifecycleInv, CommandsOpenWhileServing, CommandsClosed
<1>11. CASE CloseSignal \/ CloseSweep \/ CloseFinish
  <2>1. /\ Active' = Active
        /\ UNCHANGED <<session, peerClosed, connections, sessionTasks, server,
                       listeners, dropper, resourceNotify, waiter>>
        BY <1>11 DEF CloseSignal, CloseSweep, CloseFinish, Active
  <2>2. /\ closer' \in {"signalled", "waiting", "returned"}
        /\ listenerClosed' \in [Listeners -> BOOLEAN]
        /\ localClosed' \in [Sessions -> BOOLEAN]
        BY <1>0, <1>11 DEF CloseSignal, CloseSweep, CloseFinish, TypeOK
  <2>3. TypeOK'
        BY <1>0, <2>1, <2>2 DEF TypeOK
  <2>4. closer' = "returned" => Active = {}
        BY <1>11 DEF CloseSignal, CloseSweep, CloseFinish, Active
  <2> QED
      BY <1>0, <2>1, <2>3, <2>4, SlotsKept
      DEF LifecycleInv, CommandsOpenWhileServing, CommandsClosed
<1>12. CASE UNCHANGED vars
  <2>1. Active' = Active /\ TypeOK'
        BY <1>0, <1>12 DEF vars, Active, TypeOK
  <2> QED
      BY <1>0, <1>12, <2>1, SlotsKept
      DEF vars, LifecycleInv, CommandsOpenWhileServing, CommandsClosed
<1> QED
    BY <1>1, <1>2, <1>3, <1>4, <1>5, <1>6, <1>7, <1>8, <1>9, <1>10, <1>11,
       <1>12, Steps

\* The account of the device's resources holds in every reachable state.
LEMMA LifecycleCorrect == Spec => []LifecycleInv
<1>1. Init => LifecycleInv
  <2> SUFFICES ASSUME Init PROVE LifecycleInv
      OBVIOUS
  <2>1. Active = {} /\ listeners = {} /\ connections = {} /\ sessionTasks = 0
        BY DEF Init, Active
  <2>2. IsFiniteSet({}) /\ Cardinality({}) = 0
        BY FS_EmptySet
  <2>3. /\ sessionTasks \in 0..MaxConnections
        /\ Cardinality(listeners) <= MaxListeners
        BY <2>1, <2>2, LimitAssumption
  <2>4. TypeOK
        BY <2>1, <2>3 DEF Init, TypeOK
  <2> QED
      BY <2>1, <2>2, <2>4 DEF LifecycleInv, SlotCount, CommandsOpenWhileServing
<1> QED
    BY <1>1, LifecycleStep, PTL DEF Spec

\* The device's resources are always typed, and within their limits.
THEOREM TypeCorrect == Spec => []TypeOK
<1>1. LifecycleInv => TypeOK
      BY DEF LifecycleInv
<1> QED
    BY <1>1, LifecycleCorrect, PTL

\* No more session goroutines run than the limit allows, in every interleaving
\* of dials, accepts, drops and teardowns, and the slots taken are theirs: no
\* slot leaks and none is freed twice.
THEOREM SlotSafety == Spec => []SlotsAccounted
<1>1. LifecycleInv => SlotsAccounted
      BY DEF LifecycleInv, SlotCount, SlotsAccounted, TypeOK
<1> QED
    BY <1>1, LifecycleCorrect, PTL

\* No session runs, and none starts, once Close has closed the commands
\* channel.
THEOREM CommandsSafety == Spec => []CommandsOpenWhileServing
<1>1. LifecycleInv => CommandsOpenWhileServing
      BY DEF LifecycleInv
<1> QED
    BY <1>1, LifecycleCorrect, PTL

-----------------------------------------------------------------------------
(* Who closes a session that DropConnections or Close has met.             *)

\* The connection of s is closed, or a DropConnections call is about to close
\* it.
Reached(s) == localClosed[s] \/ \E d \in Droppers : s \in dropper[d].todo

\* Every running session is in the map, where Close finds it, or is being
\* closed; and once Close has swept the map, every one is.
NobodyForgotten ==
    \A s \in Active : /\ s \in connections \/ Reached(s)
                      /\ closer \in {"waiting", "returned"} => Reached(s)

\* A DropConnections call that has not begun has nothing to close.
ReachInv == NobodyForgotten /\ \A d \in Droppers : dropper[d].state = "idle" => dropper[d].todo = {}

\* No step loses sight of a running session.
LEMMA ReachStep == TypeOK /\ ReachInv /\ LifecycleInv /\ [Next]_vars => ReachInv'
<1> SUFFICES ASSUME TypeOK, ReachInv, LifecycleInv, [Next]_vars PROVE ReachInv'
    OBVIOUS
<1> USE DEF sessionVars, serverVars
<1>1. ASSUME Active' \subseteq Active, UNCHANGED <<connections, dropper, closer>>,
             \A s \in Sessions : localClosed[s] => localClosed'[s]
      PROVE  ReachInv'
      BY <1>1 DEF ReachInv, NobodyForgotten, Reached, Active
<1>2. ASSUME NEW s \in Sessions, StartConnection(s), UNCHANGED <<closer, dropper>>
      PROVE  ReachInv'
  <2>1. CASE Active' = Active /\ UNCHANGED <<sessionTasks, connections>>
        BY <1>1, <1>2, <2>1, StartEffect
  <2>2. CASE ~Done /\ Active' = Active \cup {s} /\ connections' = connections \cup {s}
    <3>1. closer' = "idle" /\ localClosed' = localClosed
          BY <1>2, <2>2, StartEffect DEF Done
    <3> QED
        BY <1>2, <2>2, <3>1 DEF ReachInv, NobodyForgotten, Reached
  <2> QED
      BY <1>2, <2>1, <2>2, StartEffect
<1>3. ASSUME NEW s \in Sessions, DialContext(s) PROVE ReachInv'
      BY <1>2, <1>3 DEF DialContext
<1>4. ASSUME NEW l \in Listeners, Accept(l) PROVE ReachInv'
      BY <1>2, <1>4 DEF Accept
<1>5. ASSUME NEW s \in Sessions, PeerClose(s) \/ Stall(s) \/ SessionEnd(s) PROVE ReachInv'
  <2>1. Active' \subseteq Active
        BY <1>5 DEF PeerClose, Stall, SessionEnd, Active, TypeOK
  <2> QED
      BY <1>1, <1>5, <2>1 DEF PeerClose, Stall, SessionEnd
<1>6. ASSUME NEW s \in Sessions, SessionReturn(s) PROVE ReachInv'
  <2>1. Active' \subseteq Active
        BY <1>6 DEF SessionReturn, Active, TypeOK
  <2>2. \A t \in Sessions : localClosed[t] => localClosed'[t]
        BY <1>6 DEF SessionReturn, TypeOK
  <2> QED
      BY <1>1, <1>6, <2>1, <2>2 DEF SessionReturn
<1>7. ASSUME NEW s \in Sessions, SessionRemove(s) PROVE ReachInv'
  <2>1. Active' = Active \ {s} /\ connections' = connections \ {s}
        BY <1>7 DEF SessionRemove, Active, TypeOK
  <2>2. UNCHANGED <<localClosed, dropper, closer>>
        BY <1>7 DEF SessionRemove
  <2> QED
      BY <2>1, <2>2 DEF ReachInv, NobodyForgotten, Reached
<1>8. ASSUME NEW l \in Listeners,
             ServeStart(l) \/ AcceptError(l) \/ ServeRemove(l) \/ ServeReturn(l)
      PROVE  ReachInv'
  <2>1. UNCHANGED <<session, localClosed, connections, dropper, closer>>
        BY <1>8 DEF ServeStart, AcceptError, ServeRemove, ServeReturn
  <2> QED
      BY <1>1, <2>1 DEF Active
<1>9. ASSUME NEW d \in Droppers, Drop(d) PROVE ReachInv'
  <2>1. /\ dropper' = [dropper EXCEPT ![d] = [state |-> "closing", todo |-> connections]]
        /\ dropper[d].state = "idle" /\ connections' = {}
        /\ UNCHANGED <<session, localClosed, closer>>
        BY <1>9 DEF Drop
  <2>2. /\ dropper'[d].todo = connections /\ dropper'[d].state = "closing"
        /\ dropper[d].todo = {}
        /\ \A e \in Droppers : e # d => dropper'[e] = dropper[e]
        BY <2>1 DEF TypeOK, ReachInv
  <2>3. \A s \in Sessions : Reached(s) \/ s \in connections => Reached(s)'
        BY <2>1, <2>2 DEF Reached
  <2> QED
      BY <2>1, <2>2, <2>3 DEF ReachInv, NobodyForgotten, Active
<1>10. ASSUME NEW d \in Droppers, DropClose(d) PROVE ReachInv'
  <2>1. /\ dropper[d].state = "closing"
        /\ UNCHANGED <<session, connections, closer>>
        BY <1>10 DEF DropClose
  <2>2. CASE dropper' = [dropper EXCEPT ![d].state = "returned"] /\ localClosed' = localClosed
    <3>1. /\ dropper'[d].todo = dropper[d].todo /\ dropper'[d].state # "idle"
          /\ \A e \in Droppers : e # d => dropper'[e] = dropper[e]
          BY <2>2 DEF TypeOK
    <3>2. \A s \in Sessions : Reached(s) => Reached(s)'
          BY <2>2, <3>1 DEF Reached
    <3> QED
        BY <2>1, <3>1, <3>2 DEF ReachInv, NobodyForgotten, Active
  <2>3. ASSUME NEW t \in dropper[d].todo,
               localClosed' = [localClosed EXCEPT ![t] = TRUE],
               dropper' = [dropper EXCEPT ![d].todo = @ \ {t}]
        PROVE  ReachInv'
    <3>1. /\ dropper'[d].todo = dropper[d].todo \ {t} /\ dropper'[d].state # "idle"
          /\ \A e \in Droppers : e # d => dropper'[e] = dropper[e]
          /\ t \in Sessions
          BY <2>1, <2>3 DEF TypeOK
    <3>2. \A s \in Sessions : localClosed'[s] = (localClosed[s] \/ s = t)
          BY <2>3, <3>1 DEF TypeOK
    <3>3. \A s \in Sessions : Reached(s) => Reached(s)'
          BY <3>1, <3>2 DEF Reached
    <3> QED
        BY <2>1, <3>1, <3>3 DEF ReachInv, NobodyForgotten, Active
  <2> QED
      BY <1>10, <2>2, <2>3 DEF DropClose
<1>11. ASSUME NEW w \in Waiters, WaitCheck(w) \/ WaitWake(w) PROVE ReachInv'
  <2>1. UNCHANGED <<session, localClosed, connections, dropper, closer>>
        BY <1>11 DEF WaitCheck, WaitWake
  <2> QED
      BY <1>1, <2>1 DEF Active
<1>12. CASE CloseSignal
       BY <1>12 DEF CloseSignal, ReachInv, NobodyForgotten, Reached, Active
<1>13. CASE CloseSweep
  <2>1. /\ \A s \in Sessions : localClosed'[s] = (localClosed[s] \/ s \in connections)
        /\ UNCHANGED <<session, connections, dropper>>
        BY <1>13 DEF CloseSweep
  <2>2. \A s \in Sessions : Reached(s) \/ s \in connections => Reached(s)'
        BY <2>1 DEF Reached
  <2> QED
      BY <2>1, <2>2 DEF ReachInv, NobodyForgotten, Active
<1>14. CASE CloseFinish
       BY <1>14 DEF CloseFinish, ReachInv, NobodyForgotten, Reached, Active
<1>15. CASE UNCHANGED vars
       BY <1>1, <1>15 DEF vars, Active
<1> QED
    BY <1>3, <1>4, <1>5, <1>6, <1>7, <1>8, <1>9, <1>10, <1>11, <1>12, <1>13,
       <1>14, <1>15, Steps

\* Whatever runs when Close sweeps the map is closed by it or by the
\* DropConnections call that had taken it: Close never waits for a session
\* whose connection nobody closes.
THEOREM CloseReachesAll == Spec => []NobodyForgotten
<1>1. Init => ReachInv
      BY DEF Init, ReachInv, NobodyForgotten, Active
<1>2. ReachInv => NobodyForgotten
      BY DEF ReachInv
<1> QED
    BY <1>1, <1>2, ReachStep, TypeCorrect, LifecycleCorrect, PTL DEF Spec

-----------------------------------------------------------------------------
(* Serve calls and waiters.                                                *)

\* A Serve call that accepts is in the map, where Close finds its listener, and
\* once Close has swept the map its listener is closed.
NoServerForgotten ==
    \A l \in Listeners : server[l] = "accepting" =>
        /\ l \in listeners
        /\ closer \in {"waiting", "returned"} => listenerClosed[l]

\* The notification that WaitForIdle sleeps for is there or is about to be sent.
Due ==
    \/ resourceNotify
    \/ \E s \in Sessions : session[s] = "removed"
    \/ \E l \in Listeners : server[l] = "removed"

\* Nobody sleeps on an idle device without it.
NotifyDue == \A w \in Waiters : Idle /\ waiter[w] = "waiting" => Due

\* With several calls, it may have gone to another one.
IdleHeard ==
    Idle /\ (\E w \in Waiters : waiter[w] = "waiting") =>
        Due \/ \E w \in Waiters : waiter[w] \in {"check", "returned"}

\* No step loses sight of a Serve call that accepts.
LEMMA ServerStep == TypeOK /\ NoServerForgotten /\ [Next]_vars => NoServerForgotten'
<1> SUFFICES ASSUME TypeOK, NoServerForgotten, [Next]_vars PROVE NoServerForgotten'
    OBVIOUS
<1> USE DEF sessionVars, serverVars, TypeOK, NoServerForgotten
<1>1. CASE UNCHANGED <<server, listenerClosed, listeners, closer>>
      BY <1>1
<1>2. ASSUME NEW s \in Sessions,
             \/ DialContext(s) \/ PeerClose(s) \/ Stall(s)
             \/ SessionReturn(s) \/ SessionRemove(s) \/ SessionEnd(s)
      PROVE  NoServerForgotten'
      BY <1>1, <1>2 DEF DialContext, PeerClose, Stall, SessionReturn, SessionRemove, SessionEnd
<1>3. ASSUME NEW d \in Droppers, Drop(d) \/ DropClose(d) PROVE NoServerForgotten'
      BY <1>1, <1>3 DEF Drop, DropClose
<1>4. ASSUME NEW w \in Waiters, WaitCheck(w) \/ WaitWake(w) PROVE NoServerForgotten'
      BY <1>1, <1>4 DEF WaitCheck, WaitWake
<1>5. ASSUME NEW l \in Listeners, ServeStart(l) PROVE NoServerForgotten'
      BY <1>5 DEF ServeStart, Done
<1>6. ASSUME NEW l \in Listeners, Accept(l) PROVE NoServerForgotten'
      BY <1>6 DEF Accept
<1>7. ASSUME NEW l \in Listeners, AcceptError(l) \/ ServeReturn(l) PROVE NoServerForgotten'
      BY <1>7 DEF AcceptError, ServeReturn
<1>8. ASSUME NEW l \in Listeners, ServeRemove(l) PROVE NoServerForgotten'
      BY <1>8 DEF ServeRemove
<1>9. CASE CloseSignal \/ CloseFinish
      BY <1>9 DEF CloseSignal, CloseFinish
<1>10. CASE CloseSweep
      BY <1>10 DEF CloseSweep
<1>11. CASE UNCHANGED vars
      BY <1>1, <1>11 DEF vars
<1> QED
    BY <1>2, <1>3, <1>4, <1>5, <1>6, <1>7, <1>8, <1>9, <1>10, <1>11, Steps

\* Whatever listener a Serve call accepts on when Close sweeps the map is closed
\* by it, that of a call which began during Close included: the safety half of
\* ServersStop.
THEOREM CloseReachesServers == Spec => []NoServerForgotten
<1>1. Init => NoServerForgotten
      BY DEF Init, NoServerForgotten
<1> QED
    BY <1>1, ServerStep, TypeCorrect, PTL DEF Spec

\* No step loses a notification that the device is idle.
LEMMA HeardStep == TypeOK /\ IdleHeard /\ [Next]_vars => IdleHeard'
<1> SUFFICES ASSUME TypeOK, IdleHeard, [Next]_vars PROVE IdleHeard'
    OBVIOUS
<1> USE DEF sessionVars, serverVars, TypeOK
<1>1. CASE UNCHANGED <<session, server, waiter, connections, listeners, sessionTasks,
                       resourceNotify>>
      BY <1>1 DEF IdleHeard, Idle, Due
<1>2. ASSUME resourceNotify' PROVE IdleHeard'
      BY <1>2 DEF IdleHeard, Due
<1>3. ASSUME UNCHANGED <<server, waiter, connections, listeners, sessionTasks, resourceNotify>>,
             \A s \in Sessions : session[s] = "removed" => session'[s] = "removed"
      PROVE  IdleHeard'
      BY <1>3 DEF IdleHeard, Idle, Due
<1>4. ASSUME UNCHANGED <<session, waiter, connections, listeners, sessionTasks, resourceNotify>>,
             \A l \in Listeners : server[l] = "removed" => server'[l] = "removed"
      PROVE  IdleHeard'
      BY <1>4 DEF IdleHeard, Idle, Due
<1>5. ASSUME NEW s \in Sessions, DialContext(s) PROVE IdleHeard'
      BY <1>2, <1>3, <1>5 DEF DialContext, StartConnection, Admitted, Rejected,
         NotifyResourceChange
<1>6. ASSUME NEW s \in Sessions, PeerClose(s) PROVE IdleHeard'
      BY <1>1, <1>6 DEF PeerClose
<1>7. ASSUME NEW s \in Sessions, Stall(s) \/ SessionReturn(s) PROVE IdleHeard'
      BY <1>3, <1>7 DEF Stall, SessionReturn
<1>8. ASSUME NEW s \in Sessions, SessionRemove(s) PROVE IdleHeard'
  <2>1. session'[s] = "removed"
        BY <1>8 DEF SessionRemove
  <2> QED
      BY <2>1 DEF IdleHeard, Due
<1>9. ASSUME NEW s \in Sessions, SessionEnd(s) PROVE IdleHeard'
      BY <1>2, <1>9 DEF SessionEnd, NotifyResourceChange
<1>10. ASSUME NEW l \in Listeners, ServeStart(l) PROVE IdleHeard'
      BY <1>2, <1>4, <1>10 DEF ServeStart, NotifyResourceChange
<1>11. ASSUME NEW l \in Listeners, Accept(l) PROVE IdleHeard'
  <2>1. PICK s \in Sessions : StartConnection(s)
        BY <1>11 DEF Accept
  <2>2. CASE Admitted(s)
        BY <1>2, <2>2 DEF Admitted, NotifyResourceChange
  <2>3. CASE Rejected(s)
    <3>1. UNCHANGED <<waiter, connections, listeners, sessionTasks, resourceNotify>>
          BY <1>11, <2>3 DEF Accept, Rejected
    <3>2. \A t \in Sessions : session[t] = "removed" => session'[t] = "removed"
          BY <2>1, <2>3 DEF Rejected, StartConnection
    <3>3. \A k \in Listeners : server[k] = "removed" => server'[k] = "removed"
          BY <1>11 DEF Accept
    <3> QED
        BY <3>1, <3>2, <3>3 DEF IdleHeard, Idle, Due
  <2> QED
      BY <2>1, <2>2, <2>3 DEF StartConnection
<1>12. ASSUME NEW l \in Listeners, AcceptError(l) PROVE IdleHeard'
      BY <1>4, <1>12 DEF AcceptError
<1>13. ASSUME NEW l \in Listeners, ServeRemove(l) PROVE IdleHeard'
  <2>1. server'[l] = "removed"
        BY <1>13 DEF ServeRemove
  <2> QED
      BY <2>1 DEF IdleHeard, Due
<1>14. ASSUME NEW l \in Listeners, ServeReturn(l) PROVE IdleHeard'
      BY <1>2, <1>14 DEF ServeReturn, NotifyResourceChange
<1>15. ASSUME NEW d \in Droppers, Drop(d) \/ DropClose(d) PROVE IdleHeard'
      BY <1>1, <1>2, <1>15 DEF Drop, DropClose, NotifyResourceChange
<1>16. ASSUME NEW w \in Waiters, WaitCheck(w) PROVE IdleHeard'
  <2>1. UNCHANGED <<session, server, connections, listeners, sessionTasks, resourceNotify>>
        BY <1>16 DEF WaitCheck
  <2>2. CASE Idle
    <3>1. waiter'[w] = "returned"
          BY <1>16, <2>2 DEF WaitCheck
    <3> QED
        BY <3>1 DEF IdleHeard, Due
  <2>3. CASE ~Idle
        BY <2>1, <2>3 DEF IdleHeard, Idle
  <2> QED
      BY <2>2, <2>3
<1>17. ASSUME NEW w \in Waiters, WaitWake(w) PROVE IdleHeard'
  <2>1. waiter'[w] = "check"
        BY <1>17 DEF WaitWake
  <2> QED
      BY <2>1 DEF IdleHeard, Due
<1>18. CASE CloseSignal \/ CloseSweep \/ CloseFinish \/ UNCHANGED vars
      BY <1>1, <1>18 DEF CloseSignal, CloseSweep, CloseFinish, vars
<1> QED
    BY <1>5, <1>6, <1>7, <1>8, <1>9, <1>10, <1>11, <1>12, <1>13, <1>14, <1>15, <1>16,
       <1>17, <1>18, Steps

\* A call of WaitForIdle never sleeps on an idle device without a notification to
\* come, also when the device becomes idle between its look at the counts and its
\* sleep: the safety half of IdleNoticed.
THEOREM IdleSafety == OneWaiter => (Spec => []NotifyDue)
<1> SUFFICES ASSUME OneWaiter PROVE Spec => []NotifyDue
    OBVIOUS
<1>1. Init => IdleHeard
      BY DEF Init, IdleHeard
<1>2. IdleHeard => NotifyDue
  <2> SUFFICES ASSUME IdleHeard, NEW w \in Waiters, Idle, waiter[w] = "waiting" PROVE Due
      BY DEF NotifyDue
  <2> QED
      BY DEF IdleHeard, OneWaiter
<1> QED
    BY <1>1, <1>2, HeardStep, TypeCorrect, PTL DEF Spec
=============================================================================
