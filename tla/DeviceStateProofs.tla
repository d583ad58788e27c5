------------------------- MODULE DeviceStateProofs --------------------------
(***************************************************************************)
(* Proofs about DeviceState, for any sessions, writers and entities and    *)
(* any timeline.                                                           *)
(***************************************************************************)
EXTENDS DeviceState, FiniteSetTheorems, TLAPS

\* The holders of stateSerial and of the clock's lock, and who has frames to
\* send: only the holder of stateSerial, and a session only to itself.
LockOf(a) ==
    /\ pc[a] = "sending" => serial = a
    /\ pending[a] # {} => pc[a] = "sending"
    /\ a \in Advancers /\ pc[a] \in {"timeline", "sending"} => advanceMu = a
    /\ a \in Sessions => \A f \in pending[a] : f.to = a

LockInv == \A a \in Actors : LockOf(a)

\* Every frame to be sent carries the current state of its entity, and no
\* session was ever sent a state that was not committed.
FrameInv ==
    /\ \A a \in Actors : \A f \in pending[a] : f.ver = current[f.key]
    /\ \A s \in Sessions, k \in Keys : last[s][k] <= current[k]

\* The state of entity k is on its way to session s.
OnItsWay(s, k) ==
    \E a \in Actors : [to |-> s, key |-> k, ver |-> current[k]] \in pending[a]

\* What a connected subscriber lacks is on its way, if it can be sent.
SubscriberInv ==
    \A s \in Sessions, k \in Keys :
        /\ subscribed[s] /\ conn[s] = "open" /\ pc[s] # "failed"
        /\ origin[k] \in {s, None} /\ k \notin unsendable
        => last[s][k] = current[k] \/ OnItsWay(s, k)

\* No event was committed before it was due, and when no advance is under
\* way none that is due is missing.
ClockInv ==
    /\ \A i \in 1..timelineIndex : Timeline[i].at <= now
    /\ advanceMu = None => ~Due

StateInv == LockInv /\ FrameInv /\ SubscriberInv /\ ClockInv

-----------------------------------------------------------------------------
(* Types.                                                                  *)

\* The steps, one by one, with the actors that take them.
LEMMA Steps ==
    ASSUME [Next]_vars
    PROVE  \/ \E p \in Pushers : PushCommit(p)
           \/ \E a \in Advancers : Advance(a) \/ TimelineLock(a) \/ TimelineCommit(a)
           \/ \E s \in Sessions : Command(s) \/ Subscribe(s) \/ SessionEnd(s)
                                  \/ ClientRead(s) \/ Disconnect(s)
           \/ \E a \in Actors : Transmit(a) \/ TransmitError(a) \/ Release(a)
           \/ UNCHANGED vars
  BY DEF Next, PushState, ClockAdvance, Session, Sending, Terminated, Actors

\* The frames that announce a commit are frames to sessions.
LEMMA CommitType ==
    ASSUME TypeOK, NEW a \in Actors, NEW k \in Keys,
           NEW R \in SUBSET Sessions, Commit(a, k, R)
    PROVE  /\ current' \in [Keys -> Nat]
           /\ origin' \in [Keys -> Sessions \cup {None}]
           /\ unsendable' \subseteq TextKeys
           /\ pending' \in [Actors -> SUBSET Frames]
<1>1. current' \in [Keys -> Nat]
      BY DEF TypeOK, Commit
<1>2. origin' \in [Keys -> Sessions \cup {None}]
      BY DEF TypeOK, Commit
<1>3. {[to |-> s, key |-> k, ver |-> current'[k]] : s \in R} \in SUBSET Frames
      BY <1>1 DEF Frames
<1>4. unsendable' \subseteq TextKeys
      BY DEF TypeOK, Commit
<1> QED
    BY <1>1, <1>2, <1>3, <1>4 DEF TypeOK, Commit

\* The events of the timeline, in the order in which they are due.
LEMMA TimelineType ==
    /\ Len(Timeline) \in Nat
    /\ \A i \in 1..Len(Timeline) : Timeline[i].at \in Nat \ {0} /\ Timeline[i].key \in Keys
    /\ \A i, j \in 1..Len(Timeline) : i < j => Timeline[i].at <= Timeline[j].at
<1> DEFINE Event == [at : Nat \ {0}, key : Keys]
<1>1. Timeline \in Seq(Event)
      BY StateAssumption
<1> HIDE DEF Event
<1>2. Len(Timeline) \in Nat /\ \A i \in 1..Len(Timeline) : Timeline[i] \in Event
      BY <1>1
<1> QED
    BY <1>2, StateAssumption DEF Event

\* An event that is due is an event of the timeline.
LEMMA DueEvent ==
    ASSUME TypeOK, Due
    PROVE  /\ timelineIndex + 1 \in 1..Len(Timeline)
           /\ Timeline[timelineIndex + 1].key \in Keys
           /\ Timeline[timelineIndex + 1].at <= now
<1>1. timelineIndex + 1 \in 1..Len(Timeline)
      BY TimelineType DEF TypeOK, Due
<1> QED
    BY <1>1, TimelineType DEF Due

\* Every step of a writer, a session and a client keeps the types.
LEMMA TypeStep == TypeOK /\ [Next]_vars => TypeOK'
<1> SUFFICES ASSUME TypeOK, [Next]_vars PROVE TypeOK'
    OBVIOUS
<1> USE DEF clockVars, storeVars, sessionVars
<1>0. /\ Subscribed \in SUBSET Sessions /\ \A a \in Actors : a # None
      /\ OutCap \in Nat \ {0} /\ MaxCommands \in Nat
      BY StateAssumption DEF Subscribed
<1>1. ASSUME NEW p \in Pushers, PushCommit(p) PROVE TypeOK'
  <2>1. p \in Actors
        BY DEF Actors
  <2>2. PICK k \in Keys : Commit(p, k, Subscribed)
        BY <1>1 DEF PushCommit
  <2>3. /\ current' \in [Keys -> Nat]
        /\ origin' \in [Keys -> Sessions \cup {None}]
        /\ unsendable' \subseteq TextKeys
        /\ pending' \in [Actors -> SUBSET Frames]
        BY <1>0, <2>1, <2>2, CommitType
  <2> QED
      BY <1>1, <2>1, <2>3 DEF PushCommit, Lock, Goto, TypeOK
<1>2. ASSUME NEW a \in Advancers, Advance(a) \/ TimelineLock(a) PROVE TypeOK'
  <2>1. pc' \in [Actors -> {"idle", "timeline", "sending", "failed", "returned"}]
        BY <1>2 DEF Advance, TimelineLock, Goto, TypeOK
  <2>2. advanceMu' \in Advancers \cup {None} /\ serial' \in Actors \cup {None}
        BY <1>2 DEF Advance, TimelineLock, Lock, TypeOK, Actors
  <2> QED
      BY <1>2, <2>1, <2>2 DEF Advance, TimelineLock, TypeOK
<1>3. ASSUME NEW a \in Advancers, TimelineCommit(a) PROVE TypeOK'
  <2>1. Due /\ Commit(a, Timeline[timelineIndex + 1].key, Subscribed) /\ a \in Actors
        BY <1>3 DEF TimelineCommit, Actors
  <2>2. /\ current' \in [Keys -> Nat]
        /\ origin' \in [Keys -> Sessions \cup {None}]
        /\ unsendable' \subseteq TextKeys
        /\ pending' \in [Actors -> SUBSET Frames]
        BY <1>0, <2>1, DueEvent, CommitType
  <2>3. timelineIndex' \in 0..Len(Timeline)
        BY <1>3, <2>1, DueEvent, StateAssumption DEF TimelineCommit, TypeOK
  <2> QED
      BY <1>3, <2>2, <2>3 DEF TimelineCommit, TypeOK
<1>4. ASSUME NEW s \in Sessions, Command(s) PROVE TypeOK'
  <2>1. s \in Actors /\ {s} \in SUBSET Sessions
        BY DEF Actors
  <2>2. PICK k \in Keys : Commit(s, k, {s})
        BY <1>4, StateAssumption DEF Command
  <2>3. /\ current' \in [Keys -> Nat]
        /\ origin' \in [Keys -> Sessions \cup {None}]
        /\ unsendable' \subseteq TextKeys
        /\ pending' \in [Actors -> SUBSET Frames]
        BY <2>1, <2>2, CommitType
  <2>4. commands' \in 0..MaxCommands
        BY <1>0, <1>4 DEF Command, TypeOK
  <2> QED
      BY <1>4, <2>1, <2>3, <2>4 DEF Command, Lock, Goto, TypeOK
<1>5. ASSUME NEW s \in Sessions, Subscribe(s) PROVE TypeOK'
  <2>1. {[to |-> s, key |-> k, ver |-> current[k]] : k \in Keys} \in SUBSET Frames
        BY DEF Frames, TypeOK
  <2>2. pending' \in [Actors -> SUBSET Frames]
        BY <1>5, <2>1 DEF Subscribe, TypeOK
  <2> QED
      BY <1>5, <2>2 DEF Subscribe, Lock, Goto, TypeOK, Actors
<1>6. ASSUME NEW s \in Sessions, ClientRead(s) \/ Disconnect(s)
      PROVE  TypeOK'
  <2>1. conn' \in [Sessions -> {"open", "closed", "gone"}]
        BY <1>6 DEF ClientRead, Disconnect, TypeOK
  <2>2. out' \in [Sessions -> 0..OutCap]
    <3>1. CASE ClientRead(s)
          BY <1>0, <3>1 DEF ClientRead, TypeOK
    <3>2. CASE Disconnect(s)
      <4>1. 0 \in 0..OutCap
            BY <1>0
      <4> QED
          BY <3>2, <4>1 DEF Disconnect, TypeOK
    <3> QED
        BY <1>6, <3>1, <3>2
  <2> QED
      BY <1>6, <2>1, <2>2 DEF ClientRead, Disconnect, TypeOK
<1>11. ASSUME NEW s \in Sessions, SessionEnd(s) PROVE TypeOK'
  <2>1. 0 \in 0..OutCap /\ s \in Actors
        BY <1>0 DEF Actors
  <2>2. /\ pc' \in [Actors -> {"idle", "timeline", "sending", "failed", "returned"}]
        /\ conn' \in [Sessions -> {"open", "closed", "gone"}]
        /\ subscribed' \in [Sessions -> BOOLEAN]
        /\ out' \in [Sessions -> 0..OutCap]
        BY <1>11, <2>1 DEF SessionEnd, Goto, TypeOK
  <2>3. last' \in [Sessions -> [Keys -> Nat]]
        BY <1>11 DEF SessionEnd, TypeOK
  <2> QED
      BY <1>11, <2>2, <2>3 DEF SessionEnd, TypeOK
<1>7. ASSUME NEW a \in Actors, Transmit(a) PROVE TypeOK'
  <2>1. PICK f \in pending[a] :
          /\ out[f.to] < OutCap
          /\ out' = [out EXCEPT ![f.to] = @ + 1]
          /\ last' = [last EXCEPT ![f.to][f.key] = f.ver]
          /\ pending' = [pending EXCEPT ![a] = @ \ {f}]
        BY <1>7 DEF Transmit
  <2>2. f.to \in Sessions /\ f.key \in Keys /\ f.ver \in Nat
        BY <2>1 DEF TypeOK, Frames
  <2>3. out' \in [Sessions -> 0..OutCap]
        BY <1>0, <2>1, <2>2 DEF TypeOK
  <2>4. last' \in [Sessions -> [Keys -> Nat]]
        BY <2>1, <2>2 DEF TypeOK
  <2>5. pending' \in [Actors -> SUBSET Frames]
        BY <2>1 DEF TypeOK
  <2> QED
      BY <1>7, <2>3, <2>4, <2>5 DEF Transmit, TypeOK
<1>8. ASSUME NEW a \in Actors, TransmitError(a) PROVE TypeOK'
  <2>1. pending' \in [Actors -> SUBSET Frames]
        BY <1>8 DEF TransmitError, TypeOK
  <2>2. /\ pc' \in [Actors -> {"idle", "timeline", "sending", "failed", "returned"}]
        /\ serial' \in Actors \cup {None}
        BY <1>8 DEF TransmitError, Goto, TypeOK
  <2> QED
      BY <1>8, <2>1, <2>2 DEF TransmitError, TypeOK
<1>9. ASSUME NEW a \in Actors, Release(a) PROVE TypeOK'
      BY <1>9 DEF Release, Goto, TypeOK
<1>10. CASE UNCHANGED vars
      BY <1>10 DEF vars, TypeOK
<1> QED
    BY <1>1, <1>2, <1>3, <1>4, <1>5, <1>6, <1>7, <1>8, <1>9, <1>10, <1>11, Steps

\* The state of the device is always typed, whatever the numbers of sessions,
\* pushes and advances.
THEOREM TypeCorrect == Spec => []TypeOK
<1>1. Init => TypeOK
      BY StateAssumption DEF Init, TypeOK
<1> QED
    BY <1>1, TypeStep, PTL DEF Spec

-----------------------------------------------------------------------------
(* The locks.                                                              *)

\* While nobody holds stateSerial nobody has frames to send; while a holds
\* it, nobody else has.
LEMMA SerialExcludes ==
    ASSUME LockInv, NEW a \in Actors, serial \in {a, None}
    PROVE  /\ \A b \in Actors : b # a => pc[b] # "sending" /\ pending[b] = {}
           /\ serial = None => pc[a] # "sending" /\ pending[a] = {}
  BY StateAssumption DEF LockInv, LockOf

\* The locks keep the senders apart, at every step.
LEMMA LockStep == TypeOK /\ LockInv /\ [Next]_vars => LockInv'
<1> SUFFICES ASSUME TypeOK, LockInv, [Next]_vars, NEW b \in Actors
             PROVE  LockOf(b)'
    BY DEF LockInv
<1> USE DEF clockVars, storeVars, sessionVars
<1>0. /\ LockOf(b) /\ b # None
      /\ Sessions \cap Advancers = {} /\ Sessions \cap Pushers = {}
      /\ Pushers \cap Advancers = {}
      BY StateAssumption DEF LockInv
<1>1. ASSUME pc'[b] = pc[b], pending'[b] = pending[b], serial' = serial,
             advanceMu' = advanceMu
      PROVE  LockOf(b)'
      BY <1>0, <1>1 DEF LockOf
\* A commit or a snapshot of actor a, which takes stateSerial.
<1>2. ASSUME NEW a \in Actors, NEW P, pc[a] = "idle", Lock(a), Goto(a, "sending"),
             pending' = [pending EXCEPT ![a] = P], advanceMu' = advanceMu,
             a \notin Advancers, a \in Sessions => \A f \in P : f.to = a
      PROVE  LockOf(b)'
  <2>1. serial = None /\ serial' = a
        BY <1>2 DEF Lock
  <2>2. pc[b] # "sending" /\ pending[b] = {}
        BY <1>2, <2>1, SerialExcludes
  <2>3. CASE b = a
        BY <1>2, <2>1, <2>3 DEF Goto, LockOf, TypeOK
  <2>4. CASE b # a
    <3>1. pc'[b] = pc[b] /\ pending'[b] = {}
          BY <1>2, <2>2, <2>4 DEF Goto, TypeOK
    <3> QED
        BY <1>0, <1>2, <2>2, <3>1 DEF LockOf
  <2> QED
      BY <2>3, <2>4
<1>3. ASSUME NEW p \in Pushers, PushCommit(p) PROVE LockOf(b)'
      BY <1>0, <1>2, <1>3 DEF PushCommit, Commit, Actors
<1>4. ASSUME NEW s \in Sessions, Command(s) PROVE LockOf(b)'
  <2>1. PICK k \in Keys : Commit(s, k, {s})
        BY <1>4, StateAssumption DEF Command
  <2> DEFINE P == {[to |-> t, key |-> k, ver |-> current'[k]] : t \in {s}}
  <2>2. pending' = [pending EXCEPT ![s] = P] /\ \A f \in P : f.to = s
        BY <2>1 DEF Commit
  <2>3. /\ pc[s] = "idle" /\ Lock(s) /\ Goto(s, "sending") /\ advanceMu' = advanceMu
        /\ s \in Actors /\ s \notin Advancers
        BY <1>0, <1>4 DEF Command, Actors
  <2> HIDE DEF P
  <2> QED
      BY <1>2, <2>2, <2>3
<1>5. ASSUME NEW s \in Sessions, Subscribe(s) PROVE LockOf(b)'
  <2> DEFINE P == {[to |-> s, key |-> k, ver |-> current[k]] : k \in Keys}
  <2>1. pending' = [pending EXCEPT ![s] = P] /\ \A f \in P : f.to = s
        BY <1>5 DEF Subscribe
  <2>2. /\ pc[s] = "idle" /\ Lock(s) /\ Goto(s, "sending") /\ advanceMu' = advanceMu
        /\ s \in Actors /\ s \notin Advancers
        BY <1>0, <1>5 DEF Subscribe, Actors
  <2> HIDE DEF P
  <2> QED
      BY <1>2, <2>1, <2>2
<1>6. ASSUME NEW a \in Advancers, Advance(a) PROVE LockOf(b)'
  <2>1. /\ pc[a] = "idle" /\ advanceMu = None /\ advanceMu' = a
        /\ pc' = [pc EXCEPT ![a] = "timeline"]
        /\ pending' = pending /\ serial' = serial
        BY <1>6 DEF Advance, Goto
  <2>2. a \in Actors /\ LockOf(a)
        BY DEF Actors, LockInv
  <2> QED
      BY <1>0, <2>1, <2>2 DEF LockOf, TypeOK
<1>7. ASSUME NEW a \in Advancers, TimelineLock(a) PROVE LockOf(b)'
  <2>1. /\ pc[a] = "timeline" /\ serial = None /\ serial' = a
        /\ pc' = [pc EXCEPT ![a] = "sending"]
        /\ pending' = pending /\ advanceMu' = advanceMu
        BY <1>7 DEF TimelineLock, Lock, Goto
  <2>2. a \in Actors /\ LockOf(a)
        BY DEF Actors, LockInv
  <2>3. pc[b] # "sending" /\ pending[b] = {}
        BY <2>1, <2>2, SerialExcludes
  <2> QED
      BY <1>0, <2>1, <2>2, <2>3 DEF LockOf, TypeOK
<1>8. ASSUME NEW a \in Advancers, TimelineCommit(a) PROVE LockOf(b)'
  <2>1. /\ pc[a] = "sending" /\ UNCHANGED <<pc, serial, advanceMu>>
        /\ \E P : pending' = [pending EXCEPT ![a] = P]
        BY <1>8 DEF TimelineCommit, Commit
  <2>2. a \notin Sessions
        BY <1>0
  <2> QED
      BY <1>0, <2>1, <2>2 DEF LockOf, TypeOK
\* A frame less to send.
<1>9. ASSUME NEW a \in Actors, Transmit(a) \/ (TransmitError(a) /\ a \notin Sessions)
      PROVE  LockOf(b)'
  <2>1. PICK f \in pending[a] : pending' = [pending EXCEPT ![a] = @ \ {f}]
        BY <1>9 DEF Transmit, TransmitError
  <2>2. UNCHANGED <<pc, serial, advanceMu>>
        BY <1>9 DEF Transmit, TransmitError
  <2>3. pending'[b] \subseteq pending[b]
        BY <2>1 DEF TypeOK
  <2> QED
      BY <1>0, <2>2, <2>3 DEF LockOf
\* The end of an operation of actor a, which gives its locks back.
<1>13. ASSUME NEW a \in Actors, pc[a] = "sending", serial' = None,
              pending' = [pending EXCEPT ![a] = {}],
              advanceMu' = (IF a \in Advancers THEN None ELSE advanceMu),
              NEW l \in {"idle", "failed", "returned"}, pc' = [pc EXCEPT ![a] = l]
       PROVE  LockOf(b)'
  <2>2. serial = a /\ (a \in Advancers => advanceMu = a)
        BY <1>13 DEF LockInv, LockOf
  <2>3. b # a => pc[b] # "sending" /\ pending[b] = {}
        BY <2>2, SerialExcludes
  <2>4. pending'[b] = {} /\ pc'[b] # "sending" /\ (b # a => pc'[b] = pc[b])
        /\ (b = a => pc'[b] # "timeline")
        BY <1>13, <2>3 DEF TypeOK
  <2>5. b \in Advancers /\ pc'[b] \in {"timeline", "sending"} => advanceMu' = b
        BY <1>0, <1>13, <2>2, <2>4 DEF LockOf
  <2> QED
      BY <2>4, <2>5 DEF LockOf
<1>10. ASSUME NEW a \in Actors, Release(a) PROVE LockOf(b)'
  <2>1. pending' = [pending EXCEPT ![a] = {}]
        BY <1>10 DEF Release, TypeOK
  <2> QED
      BY <1>10, <1>13, <2>1 DEF Release, Goto
<1>14. ASSUME NEW a \in Sessions, TransmitError(a) PROVE LockOf(b)'
  <2>1. a \in Actors /\ a \notin Advancers
        BY <1>0 DEF Actors
  <2> QED
      BY <1>13, <1>14, <2>1 DEF TransmitError, Goto
<1>11. ASSUME NEW s \in Sessions, ClientRead(s) \/ Disconnect(s)
       PROVE  LockOf(b)'
       BY <1>1, <1>11 DEF ClientRead, Disconnect
<1>15. ASSUME NEW s \in Sessions, SessionEnd(s) PROVE LockOf(b)'
  <2>1. /\ pc[s] \in {"idle", "failed"} /\ pc' = [pc EXCEPT ![s] = "returned"]
        /\ UNCHANGED <<pending, serial, advanceMu>>
        BY <1>15 DEF SessionEnd, Goto
  <2> QED
      BY <1>0, <2>1 DEF LockOf, TypeOK
<1>12. CASE UNCHANGED vars
       BY <1>1, <1>12 DEF vars
<1> QED
    BY <1>3, <1>4, <1>5, <1>6, <1>7, <1>8, <1>9, <1>10, <1>11, <1>12, <1>14, <1>15, Steps

-----------------------------------------------------------------------------
(* The clock.                                                              *)

\* Only the holder of the clock's lock moves the clock or commits an event.
LEMMA ClockStep == TypeOK /\ LockInv /\ ClockInv /\ [Next]_vars => ClockInv'
<1> SUFFICES ASSUME TypeOK, LockInv, ClockInv, [Next]_vars PROVE ClockInv'
    OBVIOUS
<1> USE DEF clockVars
<1>0. Sessions \cap Advancers = {} /\ None \notin Advancers
      BY StateAssumption DEF Actors
<1>1. ASSUME UNCHANGED clockVars PROVE ClockInv'
      BY <1>1 DEF ClockInv, Due
<1>2. ASSUME NEW a \in Advancers, Advance(a) PROVE ClockInv'
  <2>1. now' = now + 1 /\ timelineIndex' = timelineIndex /\ advanceMu' # None
        BY <1>0, <1>2 DEF Advance
  <2>2. \A i \in 1..timelineIndex : i \in 1..Len(Timeline)
        BY TimelineType DEF TypeOK
  <2>3. \A i \in 1..timelineIndex : Timeline[i].at \in Nat
        BY <2>2, TimelineType
  <2>4. \A i \in 1..timelineIndex : Timeline[i].at <= now
        BY DEF ClockInv
  <2>5. \A i \in 1..timelineIndex : Timeline[i].at <= now + 1
        BY <2>3, <2>4 DEF TypeOK
  <2> QED
      BY <2>1, <2>5 DEF ClockInv
<1>3. ASSUME NEW a \in Advancers, TimelineCommit(a) PROVE ClockInv'
  <2>1. /\ Due /\ now' = now /\ timelineIndex' = timelineIndex + 1
        /\ advanceMu' = advanceMu /\ pc[a] = "sending"
        BY <1>3 DEF TimelineCommit
  <2>2. advanceMu' # None
        BY <1>0, <2>1 DEF LockInv, LockOf, Actors
  <2>3. \A i \in 1..timelineIndex' : i \in 1..timelineIndex \/ i = timelineIndex + 1
        BY <2>1 DEF TypeOK
  <2>4. Timeline[timelineIndex + 1].at <= now
        BY <2>1, DueEvent
  <2> QED
      BY <2>1, <2>2, <2>3, <2>4 DEF ClockInv
<1>4. ASSUME NEW a \in Actors, Release(a) PROVE ClockInv'
      BY <1>4 DEF Release, ClockInv, Due
<1>5. ASSUME NEW a \in Actors, Transmit(a) \/ TransmitError(a) PROVE ClockInv'
      BY <1>1, <1>5 DEF Transmit, TransmitError
<1>6. ASSUME NEW a \in Advancers, TimelineLock(a) PROVE ClockInv'
      BY <1>1, <1>6 DEF TimelineLock
<1>7. ASSUME NEW p \in Pushers, PushCommit(p) PROVE ClockInv'
      BY <1>1, <1>7 DEF PushCommit
<1>8. ASSUME NEW s \in Sessions,
             Command(s) \/ Subscribe(s) \/ SessionEnd(s) \/ ClientRead(s) \/ Disconnect(s)
      PROVE  ClockInv'
      BY <1>1, <1>8 DEF Command, Subscribe, SessionEnd, ClientRead, Disconnect
<1>9. CASE UNCHANGED vars
      BY <1>1, <1>9 DEF vars
<1> QED
    BY <1>2, <1>3, <1>4, <1>5, <1>6, <1>7, <1>8, <1>9, Steps

\* The events that are due are the first ones: the timeline is in order.
LEMMA DueCount ==
    ASSUME TypeOK, ClockInv, ~Due
    PROVE  timelineIndex = Cardinality({i \in DOMAIN Timeline : Timeline[i].at <= now})
<1>1. DOMAIN Timeline = 1..Len(Timeline)
      BY StateAssumption
<1>2. timelineIndex \in Nat /\ timelineIndex <= Len(Timeline)
      BY TimelineType DEF TypeOK
<1>3. ASSUME NEW i \in 1..Len(Timeline), i > timelineIndex PROVE ~(Timeline[i].at <= now)
  <2>1. timelineIndex + 1 \in 1..Len(Timeline) /\ ~(Timeline[timelineIndex + 1].at <= now)
        BY <1>2, <1>3, TimelineType DEF Due
  <2>2. Timeline[timelineIndex + 1].at <= Timeline[i].at
        BY <1>2, <1>3, <2>1, TimelineType
  <2> QED
      BY <2>1, <2>2, TimelineType DEF TypeOK
<1>4. {i \in DOMAIN Timeline : Timeline[i].at <= now} = 1..timelineIndex
      BY <1>1, <1>2, <1>3, TimelineType DEF ClockInv
<1>5. Cardinality(1..timelineIndex) = timelineIndex
      BY <1>2, FS_Interval
<1> QED
    BY <1>4, <1>5

-----------------------------------------------------------------------------
(* What the sessions are sent.                                             *)

\* A writer commits a state of k: nobody had frames to send, and it has one
\* for each of the sessions in R.
Commits(a, k, R) ==
    /\ \A b \in Actors : pending[b] = {}
    /\ Commit(a, k, R)
    /\ UNCHANGED sessionVars

\* Who commits what, and for whom.
LEMMA CommitSteps ==
    ASSUME TypeOK, LockInv, NEW a \in Actors, NEW k, NEW R, Commit(a, k, R),
           UNCHANGED sessionVars,
           \/ Lock(a)
           \/ pc[a] = "sending" /\ pending[a] = {}
    PROVE  Commits(a, k, R)
<1>1. serial \in {a, None} /\ (pc[a] = "sending" => serial = a)
      BY DEF Lock, LockInv, LockOf
<1>2. \A b \in Actors : pending[b] = {}
      BY <1>1, SerialExcludes DEF Lock
<1> QED
    BY <1>2 DEF Commits

\* The sessions were sent nothing; one may have ended.
SessionsSame ==
    \A s \in Sessions :
        \/ subscribed'[s] = subscribed[s] /\ last'[s] = last[s]
        \/ conn'[s] = "gone" /\ \A k \in Keys : last'[s][k] = 0

\* The steps, by what they do to the store, the frames and the sessions.
LEMMA StoreSteps ==
    ASSUME TypeOK, LockInv, [Next]_vars
    PROVE  \/ \E a \in Pushers \cup Advancers, k \in Keys : Commits(a, k, Subscribed)
           \/ \E s \in Sessions, k \in Keys : Commits(s, k, {s})
           \/ \E s \in Sessions : Subscribe(s)
           \/ \E a \in Actors : Transmit(a) \/ TransmitError(a)
           \/ UNCHANGED <<current, origin, unsendable, pending>> /\ SessionsSame
<1> USE DEF storeVars, sessionVars
<1>1. ASSUME NEW p \in Pushers, PushCommit(p)
      PROVE  \E k \in Keys : Commits(p, k, Subscribed)
  <2>1. PICK k \in Keys : Commit(p, k, Subscribed)
        BY <1>1 DEF PushCommit
  <2>2. UNCHANGED sessionVars /\ Lock(p) /\ p \in Actors
        BY <1>1 DEF PushCommit, Actors
  <2> QED
      BY <2>1, <2>2, CommitSteps
<1>2. ASSUME NEW a \in Advancers, TimelineCommit(a)
      PROVE  \E k \in Keys : Commits(a, k, Subscribed)
  <2> DEFINE k == Timeline[timelineIndex + 1].key
  <2>1. /\ Due /\ Commit(a, k, Subscribed) /\ UNCHANGED sessionVars
        /\ pc[a] = "sending" /\ pending[a] = {} /\ a \in Actors
        BY <1>2 DEF TimelineCommit, Actors
  <2>2. k \in Keys
        BY <2>1, DueEvent
  <2> HIDE DEF k
  <2> QED
      BY <2>1, <2>2, CommitSteps
<1>3. ASSUME NEW s \in Sessions, Command(s)
      PROVE  \E k \in Keys : Commits(s, k, {s})
  <2>1. PICK k \in Keys : Commit(s, k, {s})
        BY <1>3, StateAssumption DEF Command
  <2>2. UNCHANGED sessionVars /\ Lock(s) /\ s \in Actors
        BY <1>3 DEF Command, Actors
  <2> QED
      BY <2>1, <2>2, CommitSteps
<1> DEFINE Quiet == UNCHANGED <<current, origin, unsendable, pending>> /\ SessionsSame
<1>4. ASSUME NEW a \in Advancers, Advance(a) \/ TimelineLock(a) PROVE Quiet
      BY <1>4 DEF Advance, TimelineLock, SessionsSame
<1>5. ASSUME NEW a \in Actors, Release(a) PROVE Quiet
      BY <1>5 DEF Release, SessionsSame
<1>6. ASSUME NEW s \in Sessions, ClientRead(s) \/ Disconnect(s) PROVE Quiet
      BY <1>6 DEF ClientRead, Disconnect, SessionsSame
<1>8. ASSUME NEW s \in Sessions, SessionEnd(s) PROVE Quiet
  <2>1. /\ conn' = [conn EXCEPT ![s] = "gone"]
        /\ subscribed' = [subscribed EXCEPT ![s] = FALSE]
        /\ last' = [last EXCEPT ![s] = [k \in Keys |-> 0]]
        /\ UNCHANGED <<current, origin, unsendable, pending>>
        BY <1>8 DEF SessionEnd
  <2>2. ASSUME NEW t \in Sessions, t # s
        PROVE  subscribed'[t] = subscribed[t] /\ last'[t] = last[t]
        BY <2>1, <2>2 DEF TypeOK
  <2>3. conn'[s] = "gone" /\ \A k \in Keys : last'[s][k] = 0
        BY <2>1 DEF TypeOK
  <2> QED
      BY <2>1, <2>2, <2>3 DEF SessionsSame
<1>7. CASE UNCHANGED vars
      BY <1>7 DEF vars, SessionsSame
<1> QED
    BY <1>1, <1>2, <1>3, <1>4, <1>5, <1>6, <1>7, <1>8, Steps

\* A session that is connected and has not failed was so before the step.
LEMMA ServedBefore ==
    ASSUME TypeOK, [Next]_vars, NEW s \in Sessions, conn'[s] = "open", pc'[s] # "failed"
    PROVE  conn[s] = "open" /\ pc[s] # "failed"
<1> USE DEF clockVars, storeVars, sessionVars
<1>0. s \in Actors
      BY DEF Actors
<1>1. ASSUME NEW p \in Pushers, PushCommit(p) PROVE conn[s] = "open" /\ pc[s] # "failed"
      BY <1>0, <1>1 DEF PushCommit, Goto, TypeOK
<1>2. ASSUME NEW a \in Advancers, Advance(a) \/ TimelineLock(a) \/ TimelineCommit(a)
      PROVE  conn[s] = "open" /\ pc[s] # "failed"
      BY <1>0, <1>2 DEF Advance, TimelineLock, TimelineCommit, Goto, TypeOK
<1>3. ASSUME NEW t \in Sessions, Command(t) \/ Subscribe(t)
      PROVE  conn[s] = "open" /\ pc[s] # "failed"
      BY <1>0, <1>3 DEF Command, Subscribe, Goto, TypeOK
<1>4. ASSUME NEW t \in Sessions, SessionEnd(t) PROVE conn[s] = "open" /\ pc[s] # "failed"
      BY <1>0, <1>4 DEF SessionEnd, Goto, TypeOK
<1>5. ASSUME NEW t \in Sessions, ClientRead(t) \/ Disconnect(t)
      PROVE  conn[s] = "open" /\ pc[s] # "failed"
      BY <1>5 DEF ClientRead, Disconnect, TypeOK
<1>6. ASSUME NEW a \in Actors, Transmit(a) \/ TransmitError(a) \/ Release(a)
      PROVE  conn[s] = "open" /\ pc[s] # "failed"
  <2>1. pc[a] = "sending" /\ conn' = conn
        BY <1>6 DEF Transmit, TransmitError, Release
  <2>2. pc' = pc \/ \E l : pc' = [pc EXCEPT ![a] = l]
        BY <1>6 DEF Transmit, TransmitError, Release, Goto
  <2> QED
      BY <1>0, <2>1, <2>2 DEF TypeOK
<1>7. CASE UNCHANGED vars
      BY <1>7 DEF vars
<1> QED
    BY <1>1, <1>2, <1>3, <1>4, <1>5, <1>6, <1>7, Steps

\* A commit changes one state, and its frames are the only ones.
LEMMA CommitEffect ==
    ASSUME TypeOK, NEW a \in Actors, NEW k \in Keys, NEW R \in SUBSET Sessions,
           Commits(a, k, R)
    PROVE  /\ \A j \in Keys : current'[j] = IF j = k THEN current[k] + 1 ELSE current[j]
           /\ \A j \in Keys : origin'[j] = IF j # k THEN origin[j]
                                           ELSE IF a \in Sessions THEN a ELSE None
           /\ pending'[a] = {[to |-> s, key |-> k, ver |-> current'[k]] : s \in R}
           /\ \A b \in Actors : pending[b] = {} /\ (b # a => pending'[b] = {})
           /\ \A j \in Keys : j # k => (j \in unsendable' <=> j \in unsendable)
           /\ UNCHANGED <<conn, subscribed, last>>
<1>1. /\ \A j \in Keys : current'[j] = IF j = k THEN current[k] + 1 ELSE current[j]
      /\ \A j \in Keys : origin'[j] = IF j # k THEN origin[j]
                                      ELSE IF a \in Sessions THEN a ELSE None
      BY DEF TypeOK, Commits, Commit
<1>2. /\ pending'[a] = {[to |-> s, key |-> k, ver |-> current'[k]] : s \in R}
      /\ \A b \in Actors : pending[b] = {} /\ (b # a => pending'[b] = {})
      BY DEF TypeOK, Commits, Commit
<1>3. \A j \in Keys : j # k => (j \in unsendable' <=> j \in unsendable)
      BY DEF Commits, Commit
<1> QED
    BY <1>1, <1>2, <1>3 DEF Commits, sessionVars

\* A session that subscribes is given a frame for every state.
LEMMA SubscribeEffect ==
    ASSUME TypeOK, LockInv, NEW s \in Sessions, Subscribe(s)
    PROVE  /\ pending'[s] = {[to |-> s, key |-> k, ver |-> current[k]] : k \in Keys}
           /\ \A b \in Actors : pending[b] = {} /\ (b # s => pending'[b] = {})
           /\ \A t \in Sessions : t # s => subscribed'[t] = subscribed[t]
           /\ UNCHANGED <<current, origin, unsendable, conn, last>>
<1>1. s \in Actors /\ serial = None
      BY DEF Subscribe, Lock, Actors
<1>2. \A b \in Actors : pending[b] = {}
      BY <1>1, SerialExcludes
<1> QED
    BY <1>1, <1>2 DEF Subscribe, TypeOK, storeVars

\* A frame that is sent becomes the last state its session was sent.
LEMMA TransmitEffect ==
    ASSUME TypeOK, NEW a \in Actors, Transmit(a)
    PROVE  \E f \in pending[a] :
              /\ f \in Frames /\ f = [to |-> f.to, key |-> f.key, ver |-> f.ver]
              /\ pending'[a] = pending[a] \ {f}
              /\ \A b \in Actors : b # a => pending'[b] = pending[b]
              /\ \A s \in Sessions, k \in Keys :
                    last'[s][k] = IF s = f.to /\ k = f.key THEN f.ver ELSE last[s][k]
              /\ UNCHANGED <<current, origin, unsendable, conn, subscribed>>
<1>1. PICK f \in pending[a] :
        /\ last' = [last EXCEPT ![f.to][f.key] = f.ver]
        /\ pending' = [pending EXCEPT ![a] = @ \ {f}]
      BY DEF Transmit
<1>2. f \in Frames
      BY <1>1 DEF TypeOK
<1>3. f = [to |-> f.to, key |-> f.key, ver |-> f.ver] /\ f.to \in Sessions /\ f.key \in Keys
      BY <1>2 DEF Frames
<1>4. /\ pending'[a] = pending[a] \ {f}
      /\ \A b \in Actors : b # a => pending'[b] = pending[b]
      BY <1>1 DEF TypeOK
<1>5. \A s \in Sessions, k \in Keys :
         last'[s][k] = IF s = f.to /\ k = f.key THEN f.ver ELSE last[s][k]
      BY <1>1, <1>3 DEF TypeOK
<1>6. UNCHANGED <<current, origin, unsendable, conn, subscribed>>
      BY DEF Transmit, storeVars
<1> QED
    BY <1>2, <1>3, <1>4, <1>5, <1>6

\* A send that fails gives up frames to closed connections, frames that cannot be
\* sent, and those of a session to itself.
LEMMA TransmitErrorEffect ==
    ASSUME TypeOK, LockInv, NEW a \in Actors, TransmitError(a)
    PROVE  /\ \A b \in Actors : pending'[b] \subseteq pending[b]
           /\ \A b \in Actors : \A f \in pending[b] :
                 conn[f.to] = "open" /\ pc'[f.to] # "failed" /\ f.key \notin unsendable
                 => f \in pending'[b]
           /\ UNCHANGED <<current, origin, unsendable, conn, subscribed, last>>
<1>1. UNCHANGED <<current, origin, unsendable, conn, subscribed, last>>
      BY DEF TransmitError, storeVars, sessionVars
<1>2. CASE a \in Sessions
  <2>1. pending' = [pending EXCEPT ![a] = {}] /\ pc' = [pc EXCEPT ![a] = "failed"]
        BY <1>2 DEF TransmitError, Goto
  <2>2. \A b \in Actors : pending'[b] \subseteq pending[b] /\ (b # a => pending'[b] = pending[b])
        BY <2>1 DEF TypeOK
  <2>3. pc'[a] = "failed" /\ \A f \in pending[a] : f.to = a
        BY <1>2, <2>1 DEF TypeOK, LockInv, LockOf
  <2> QED
      BY <1>1, <2>2, <2>3
<1>3. CASE a \notin Sessions
  <2>1. PICK f \in pending[a] :
          /\ conn[f.to] # "open" \/ f.key \in unsendable
          /\ pending' = [pending EXCEPT ![a] = @ \ {f}]
        BY <1>3 DEF TransmitError
  <2>2. pending'[a] = pending[a] \ {f} /\ \A b \in Actors : b # a => pending'[b] = pending[b]
        BY <2>1 DEF TypeOK
  <2> QED
      BY <1>1, <2>1, <2>2
<1> QED
    BY <1>2, <1>3

\* A frame under way is never outdated: its sender holds stateSerial until it
\* is sent, and so what a session is sent never goes back.
LEMMA FrameStep ==
    ASSUME TypeOK, LockInv, FrameInv, [Next]_vars
    PROVE  /\ FrameInv'
           /\ \A s \in Sessions, k \in Keys : conn'[s] # "gone" => last'[s][k] >= last[s][k]
<1>0. /\ \A s \in Sessions, k \in Keys : last[s][k] \in Nat /\ current[k] \in Nat
      /\ \A s \in Sessions, k \in Keys : last[s][k] >= last[s][k]
      /\ \A a \in Actors : \A f \in pending[a] : f.to \in Sessions /\ f.key \in Keys
      BY DEF TypeOK, Frames
<1>1. ASSUME NEW a \in Actors, NEW k \in Keys, NEW R \in SUBSET Sessions,
             Commits(a, k, R)
      PROVE  FrameInv' /\ last' = last
  <2>1. /\ \A j \in Keys : current'[j] = IF j = k THEN current[k] + 1 ELSE current[j]
        /\ pending'[a] = {[to |-> s, key |-> k, ver |-> current'[k]] : s \in R}
        /\ \A b \in Actors : b # a => pending'[b] = {}
        /\ last' = last
        BY <1>1, CommitEffect
  <2>2. \A s \in Sessions, j \in Keys : last'[s][j] <= current'[j]
        BY <1>0, <2>1 DEF FrameInv
  <2>3. \A b \in Actors : \A f \in pending'[b] : f.ver = current'[f.key]
        BY <2>1
  <2> QED
      BY <2>1, <2>2, <2>3 DEF FrameInv
<1>2. ASSUME NEW s \in Sessions, Subscribe(s) PROVE FrameInv' /\ last' = last
  <2>1. /\ pending'[s] = {[to |-> s, key |-> k, ver |-> current[k]] : k \in Keys}
        /\ \A b \in Actors : b # s => pending'[b] = {}
        /\ current' = current /\ last' = last
        BY <1>2, SubscribeEffect
  <2>2. \A b \in Actors : \A f \in pending'[b] : f.ver = current'[f.key]
        BY <2>1
  <2> QED
      BY <2>1, <2>2 DEF FrameInv
<1>3. ASSUME NEW a \in Actors, Transmit(a)
      PROVE  FrameInv' /\ \A s \in Sessions, k \in Keys : last'[s][k] >= last[s][k]
  <2>1. PICK f \in pending[a] :
          /\ pending'[a] = pending[a] \ {f}
          /\ \A b \in Actors : b # a => pending'[b] = pending[b]
          /\ \A s \in Sessions, k \in Keys :
                last'[s][k] = IF s = f.to /\ k = f.key THEN f.ver ELSE last[s][k]
          /\ current' = current
        BY <1>3, TransmitEffect
  <2>2. f.ver = current[f.key] /\ f.to \in Sessions /\ f.key \in Keys
        BY <1>0 DEF FrameInv
  <2>3. \A s \in Sessions, k \in Keys :
           last'[s][k] <= current[k] /\ last'[s][k] >= last[s][k]
        BY <1>0, <2>1, <2>2 DEF FrameInv
  <2>4. \A b \in Actors : \A g \in pending'[b] : g \in pending[b]
        BY <2>1
  <2> QED
      BY <2>1, <2>3, <2>4 DEF FrameInv
<1>4. ASSUME NEW a \in Actors, TransmitError(a) PROVE FrameInv' /\ last' = last
      BY <1>4, TransmitErrorEffect DEF FrameInv
<1>5. ASSUME UNCHANGED <<current, origin, unsendable, pending>>, SessionsSame
      PROVE  /\ FrameInv'
             /\ \A s \in Sessions, k \in Keys : conn'[s] # "gone" => last'[s][k] >= last[s][k]
  <2>1. ASSUME NEW s \in Sessions, NEW k \in Keys
        PROVE  last'[s][k] <= current[k] /\ (conn'[s] # "gone" => last'[s][k] >= last[s][k])
    <3>1. \/ last'[s] = last[s]
          \/ conn'[s] = "gone" /\ last'[s][k] = 0
          BY <1>5 DEF SessionsSame
    <3> QED
        BY <1>0, <3>1 DEF FrameInv
  <2> QED
      BY <1>5, <2>1 DEF FrameInv
<1>6. Subscribed \in SUBSET Sessions /\ \A s \in Sessions : {s} \in SUBSET Sessions
      BY DEF Subscribed
<1>7. \A a \in Pushers \cup Advancers \cup Sessions : a \in Actors
      BY DEF Actors
<1> QED
    BY <1>0, <1>1, <1>2, <1>3, <1>4, <1>5, <1>6, <1>7, StoreSteps

\* What a subscriber lacks stays on its way until it is sent, at every step.
LEMMA SubscriberStep ==
    ASSUME TypeOK, LockInv, FrameInv, SubscriberInv, [Next]_vars
    PROVE  SubscriberInv'
<1> DEFINE Served(s, k) ==
        /\ subscribed[s] /\ conn[s] = "open" /\ pc[s] # "failed"
        /\ origin[k] \in {s, None} /\ k \notin unsendable
        => last[s][k] = current[k] \/ OnItsWay(s, k)
<1>0. None \notin Sessions /\ Sessions \cap (Pushers \cup Advancers) = {}
      BY StateAssumption DEF Actors
<1>1. SUFFICES ASSUME NEW s \in Sessions, NEW k \in Keys, Served(s, k),
                      conn'[s] = "open", pc'[s] # "failed"
               PROVE  Served(s, k)'
      BY DEF SubscriberInv
<1>8. conn[s] = "open" /\ pc[s] # "failed"
      BY <1>1, ServedBefore
<1>2. ASSUME NEW a \in Actors, NEW j \in Keys, NEW R \in SUBSET Sessions,
             Commits(a, j, R),
             \/ a \notin Sessions /\ R = Subscribed
             \/ a \in Sessions /\ R = {a}
      PROVE  Served(s, k)'
  <2>1. /\ \A i \in Keys : current'[i] = IF i = j THEN current[j] + 1 ELSE current[i]
        /\ \A i \in Keys : origin'[i] = IF i # j THEN origin[i]
                                        ELSE IF a \in Sessions THEN a ELSE None
        /\ pending'[a] = {[to |-> t, key |-> j, ver |-> current'[j]] : t \in R}
        /\ \A b \in Actors : pending[b] = {}
        /\ \A i \in Keys : i # j => (i \in unsendable' <=> i \in unsendable)
        /\ UNCHANGED <<conn, subscribed, last>>
        BY <1>2, CommitEffect
  <2>2. CASE k # j
        BY <1>1, <1>8, <2>1, <2>2 DEF OnItsWay
  <2>3. CASE k = j
    <3>1. SUFFICES ASSUME subscribed[s], conn[s] = "open", origin'[k] \in {s, None}
                   PROVE  s \in R
          BY <1>2, <2>1, <2>3 DEF OnItsWay
    <3> QED
        BY <1>0, <1>2, <2>1, <2>3, <3>1 DEF Subscribed
  <2> QED
      BY <2>2, <2>3
<1>3. ASSUME NEW t \in Sessions, Subscribe(t) PROVE Served(s, k)'
  <2>1. /\ pending'[t] = {[to |-> t, key |-> j, ver |-> current[j]] : j \in Keys}
        /\ \A b \in Actors : pending[b] = {}
        /\ t # s => subscribed'[s] = subscribed[s]
        /\ UNCHANGED <<current, origin, unsendable, conn, last>>
        BY <1>3, SubscribeEffect
  <2>2. CASE t = s
        BY <2>1, <2>2 DEF OnItsWay, Actors
  <2>3. CASE t # s
        BY <1>1, <1>8, <2>1, <2>3 DEF OnItsWay
  <2> QED
      BY <2>2, <2>3
<1>4. ASSUME NEW a \in Actors, Transmit(a) PROVE Served(s, k)'
  <2>1. PICK f \in pending[a] :
          /\ f = [to |-> f.to, key |-> f.key, ver |-> f.ver]
          /\ pending'[a] = pending[a] \ {f}
          /\ \A b \in Actors : b # a => pending'[b] = pending[b]
          /\ \A t \in Sessions, j \in Keys :
                last'[t][j] = IF t = f.to /\ j = f.key THEN f.ver ELSE last[t][j]
          /\ UNCHANGED <<current, origin, unsendable, conn, subscribed>>
        BY <1>4, TransmitEffect
  <2>2. f.ver = current[f.key]
        BY DEF FrameInv
  <2>3. CASE s = f.to /\ k = f.key
        BY <2>1, <2>2, <2>3
  <2>4. CASE ~(s = f.to /\ k = f.key)
    <3>1. OnItsWay(s, k) => OnItsWay(s, k)'
      <4>1. SUFFICES ASSUME NEW b \in Actors,
                            [to |-> s, key |-> k, ver |-> current[k]] \in pending[b]
                     PROVE  [to |-> s, key |-> k, ver |-> current'[k]] \in pending'[b]
            BY DEF OnItsWay
      <4>2. [to |-> s, key |-> k, ver |-> current[k]] # f
            BY <2>4
      <4> QED
          BY <2>1, <4>1, <4>2
    <3> QED
        BY <1>1, <1>8, <2>1, <2>4, <3>1
  <2> QED
      BY <2>3, <2>4
<1>5. ASSUME NEW a \in Actors, TransmitError(a) PROVE Served(s, k)'
  <2>1. /\ \A b \in Actors : \A f \in pending[b] :
              conn[f.to] = "open" /\ pc'[f.to] # "failed" /\ f.key \notin unsendable
              => f \in pending'[b]
        /\ UNCHANGED <<current, origin, unsendable, conn, subscribed, last>>
        BY <1>5, TransmitErrorEffect
  <2>2. k \notin unsendable /\ OnItsWay(s, k) => OnItsWay(s, k)'
    <3>1. SUFFICES ASSUME k \notin unsendable, NEW b \in Actors,
                          [to |-> s, key |-> k, ver |-> current[k]] \in pending[b]
                   PROVE  [to |-> s, key |-> k, ver |-> current'[k]] \in pending'[b]
          BY DEF OnItsWay
    <3> DEFINE f == [to |-> s, key |-> k, ver |-> current[k]]
    <3>2. f \in pending[b] /\ f.to = s /\ f.key = k
          BY <3>1
    <3> HIDE DEF f
    <3>3. f \in pending'[b]
          BY <1>1, <1>8, <2>1, <3>1, <3>2
    <3> QED
        BY <2>1, <3>3 DEF f
  <2> QED
      BY <1>1, <1>8, <2>1, <2>2
<1>6. ASSUME UNCHANGED <<current, origin, unsendable, pending>>, SessionsSame
      PROVE  Served(s, k)'
  <2>1. subscribed'[s] = subscribed[s] /\ last'[s] = last[s]
        BY <1>1, <1>6 DEF SessionsSame
  <2> QED
      BY <1>1, <1>6, <1>8, <2>1 DEF OnItsWay
<1>7. /\ Subscribed \in SUBSET Sessions /\ \A t \in Sessions : {t} \in SUBSET Sessions
      /\ \A a \in Pushers \cup Advancers : a \in Actors /\ a \notin Sessions
      /\ \A t \in Sessions : t \in Actors
      BY <1>0 DEF Subscribed, Actors
<1> QED
    BY <1>2, <1>3, <1>4, <1>5, <1>6, <1>7, StoreSteps

-----------------------------------------------------------------------------
\* The locks, the frames, the subscribers and the clock, in every reachable
\* state.
LEMMA StateCorrect == Spec => []StateInv
<1>1. Init => StateInv
  <2> SUFFICES ASSUME Init PROVE StateInv
      OBVIOUS
  <2>1. LockInv /\ FrameInv /\ SubscriberInv
        BY DEF Init, LockInv, LockOf, FrameInv, SubscriberInv
  <2>2. ~Due
        BY TimelineType DEF Init, Due
  <2>3. ClockInv
        BY <2>2 DEF Init, ClockInv
  <2> QED
      BY <2>1, <2>3 DEF StateInv
<1>2. TypeOK /\ StateInv /\ [Next]_vars => StateInv'
      BY LockStep, FrameStep, SubscriberStep, ClockStep DEF StateInv
<1> QED
    BY <1>1, <1>2, TypeCorrect, PTL DEF Spec

\* No session is sent an older state of an entity after a newer one, by any
\* mix of snapshots, pushes, timeline events and commands.
THEOREM NeverBack == Spec => NoRegression
<1>1. TypeOK /\ StateInv /\ [Next]_vars
      => [\A s \in Sessions, k \in Keys :
             conn'[s] # "gone" => last'[s][k] >= last[s][k]]_vars
      BY FrameStep DEF StateInv
<1> QED
    BY <1>1, TypeCorrect, StateCorrect, PTL DEF Spec, NoRegression

\* Whenever stateSerial is free, every connected subscriber was sent the
\* current state of every entity that no other session's command has changed,
\* unless the state cannot be sent or the session has met one that cannot.
THEOREM SubscribersServed == Spec => []SubscribersCurrent
<1>1. ASSUME TypeOK, StateInv PROVE SubscribersCurrent
  <2>1. SUFFICES ASSUME serial = None PROVE \A a \in Actors : pending[a] = {}
        BY <1>1 DEF StateInv, SubscriberInv, OnItsWay, SubscribersCurrent
  <2> QED
      BY <1>1, <2>1, SerialExcludes DEF StateInv
<1> QED
    BY <1>1, TypeCorrect, StateCorrect, PTL

\* When no advance is under way the committed events are those that are due:
\* no advance skips an event, commits one twice or leaves one behind.
THEOREM TimelineServed == Spec => []TimelineCurrent
<1>1. ASSUME TypeOK, StateInv PROVE TimelineCurrent
      BY <1>1, DueCount DEF StateInv, ClockInv, TimelineCurrent
<1> QED
    BY <1>1, TypeCorrect, StateCorrect, PTL

-----------------------------------------------------------------------------
(* The locks.                                                              *)

\* A lock that is taken is held by a call on its way to release it: stateSerial by
\* one that sends, advanceMu by an advance that sends or waits for stateSerial
\* alone.
LocksHeld ==
    /\ serial # None => pc[serial] = "sending"
    /\ advanceMu # None => pc[advanceMu] \in {"timeline", "sending"}

\* No step leaves a lock behind.
LEMMA HeldStep ==
    ASSUME TypeOK, LocksHeld, [Next]_vars
    PROVE  LocksHeld'
<1> USE DEF clockVars, storeVars, sessionVars
<1>0. /\ \A a \in Actors : a # None
      /\ Sessions \cap Advancers = {} /\ Sessions \cap Pushers = {} /\ Pushers \cap Advancers = {}
      /\ Sessions \subseteq Actors /\ Pushers \subseteq Actors /\ Advancers \subseteq Actors
      BY StateAssumption DEF Actors
<1>1. CASE UNCHANGED <<pc, serial, advanceMu>>
      BY <1>1 DEF LocksHeld
<1>2. ASSUME NEW a \in Actors, pc[a] = "idle", Lock(a), Goto(a, "sending"), advanceMu' = advanceMu
      PROVE  LocksHeld'
  <2>1. serial' = a /\ pc'[a] = "sending" /\ \A b \in Actors : b # a => pc'[b] = pc[b]
        BY <1>2 DEF Lock, Goto, TypeOK
  <2>2. advanceMu # None => advanceMu \in Actors /\ advanceMu # a
        BY <1>0, <1>2 DEF TypeOK, LocksHeld
  <2> QED
      BY <1>2, <2>1, <2>2 DEF LocksHeld
<1>3. ASSUME NEW a \in Advancers, Advance(a) PROVE LocksHeld'
  <2>1. advanceMu' = a /\ pc'[a] = "timeline" /\ pc[a] = "idle" /\ serial' = serial
        /\ \A b \in Actors : b # a => pc'[b] = pc[b]
        BY <1>0, <1>3 DEF Advance, Goto, TypeOK
  <2>2. serial # None => serial \in Actors /\ serial # a
        BY <2>1 DEF TypeOK, LocksHeld
  <2> QED
      BY <2>1, <2>2 DEF LocksHeld
<1>4. ASSUME NEW a \in Advancers, TimelineLock(a) PROVE LocksHeld'
  <2>1. serial' = a /\ advanceMu' = advanceMu /\ pc'[a] = "sending"
        /\ \A b \in Actors : b # a => pc'[b] = pc[b]
        BY <1>0, <1>4 DEF TimelineLock, Lock, Goto, TypeOK
  <2>2. advanceMu # None => advanceMu \in Actors
        BY <1>0 DEF TypeOK
  <2> QED
      BY <2>1, <2>2 DEF LocksHeld
<1>5. ASSUME NEW a \in Actors, Release(a) PROVE LocksHeld'
  <2>1. /\ pc[a] = "sending" /\ serial' = None
        /\ advanceMu' = IF a \in Advancers THEN None ELSE advanceMu
        /\ \A b \in Actors : b # a => pc'[b] = pc[b]
        BY <1>5 DEF Release, Goto, TypeOK
  <2>2. a \notin Advancers /\ advanceMu # None => advanceMu \in Actors /\ advanceMu # a
        BY <1>0 DEF TypeOK
  <2> QED
      BY <2>1, <2>2 DEF LocksHeld
<1>6. ASSUME NEW p \in Pushers, PushCommit(p) PROVE LocksHeld'
      BY <1>0, <1>2, <1>6 DEF PushCommit
<1>7. ASSUME NEW s \in Sessions, Command(s) \/ Subscribe(s) PROVE LocksHeld'
      BY <1>0, <1>2, <1>7 DEF Command, Subscribe
<1>8. ASSUME NEW a \in Actors,
             TimelineCommit(a) \/ ClientRead(a) \/ Disconnect(a) \/ Transmit(a)
               \/ (TransmitError(a) /\ a \notin Sessions)
      PROVE  LocksHeld'
      BY <1>1, <1>8 DEF TimelineCommit, ClientRead, Disconnect, Transmit, TransmitError
<1>10. ASSUME NEW s \in Sessions, SessionEnd(s) \/ TransmitError(s) PROVE LocksHeld'
  <2>1. /\ advanceMu' = advanceMu
        /\ serial' = None \/ (serial' = serial /\ pc[s] \in {"idle", "failed"})
        /\ \A b \in Actors : b # s => pc'[b] = pc[b]
        BY <1>0, <1>10 DEF SessionEnd, TransmitError, Goto, TypeOK
  <2>2. advanceMu # None => advanceMu \in Actors /\ advanceMu # s
        BY <1>0 DEF TypeOK
  <2>3. serial # None => serial \in Actors /\ pc[serial] = "sending"
        BY DEF TypeOK, LocksHeld
  <2>4. serial' # None => pc'[serial'] = "sending"
        BY <2>1, <2>3
  <2> QED
      BY <2>1, <2>2, <2>4 DEF LocksHeld
<1>9. CASE UNCHANGED vars
      BY <1>1, <1>9 DEF vars
<1> QED
    BY <1>0, <1>3, <1>4, <1>5, <1>6, <1>7, <1>8, <1>9, <1>10, Steps

\* No lock is left behind: whoever waits for stateSerial waits for a call that
\* sends, and whoever waits for advanceMu for an advance that sends or waits for
\* stateSerial.  With the fairness of goroutines, locks and clients it is what
\* WritersReturn takes.
THEOREM LockSafety == Spec => []LocksHeld
<1>1. Init => LocksHeld
      BY DEF Init, LocksHeld
<1>2. TypeOK /\ LocksHeld /\ [Next]_vars => LocksHeld'
      BY HeldStep
<1> QED
    BY <1>1, <1>2, TypeCorrect, PTL DEF Spec
=============================================================================
