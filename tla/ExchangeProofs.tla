--------------------------- MODULE ExchangeProofs ---------------------------
(***************************************************************************)
(* Proofs about Exchange, for any set of calls and any capacity of the     *)
(* transport.                                                              *)
(***************************************************************************)
EXTENDS Exchange, TLAPS

\* The initial state of the client, the wire and the goroutines is typed.
LEMMA TypeInit == Init => TypeOK
  BY CallsAssumption DEF Init, TypeOK, OpenConnection, NoReason, CallOrNone,
     Reasons, ReasonKinds, PCs, Results, Phases, Verdicts, WatchdogStates,
     Readers, KeepaliveStates

\* A request that is queued for the peer is one of a call.
LEMMA AppendType ==
    ASSUME NEW S, NEW s \in Seq(S), NEW e \in S
    PROVE  Append(s, e) \in Seq(S)
  OBVIOUS

\* Every step of a caller, of a watchdog, of the keepalive loop, of readLoop,
\* of shutdown and of the peer keeps the types.
LEMMA TypeStep == TypeOK /\ [Next]_vars => TypeOK'
<1> SUFFICES ASSUME TypeOK, [Next]_vars PROVE TypeOK'
    OBVIOUS
<1> USE DEF TypeOK, callVars, connVars, wireVars
<1>1. ASSUME NEW c \in Calls, Begin(c) PROVE TypeOK'
      BY <1>1 DEF Begin, Goto, PCs
<1>2. ASSUME NEW c \in Calls, ExchangeStep(c) PROVE TypeOK'
  <2>1. CASE CheckContext(c)
    <3>1. pc' \in [Calls -> PCs]
          BY <2>1 DEF CheckContext, Return, Goto, PCs
    <3>2. result' \in [Calls -> Results]
          BY <2>1 DEF CheckContext, Return, Goto, Results
    <3> QED
        BY <2>1, <3>1, <3>2 DEF CheckContext
  <2>2. CASE CheckDone(c)
    <3>1. pc' \in [Calls -> PCs]
          BY <2>2 DEF CheckDone, Return, Goto, PCs
    <3>2. result' \in [Calls -> Results]
          BY <2>2 DEF CheckDone, Return, Goto, Results
    <3> QED
        BY <2>2, <3>1, <3>2 DEF CheckDone
  <2>3. CASE AcquireGate(c)
    <3>1. pc' \in [Calls -> PCs]
          BY <2>3 DEF AcquireGate, Goto, PCs
    <3>2. gate' \in [Gates -> BOOLEAN]
          BY <2>3 DEF AcquireGate
    <3> QED
        BY <2>3, <3>1, <3>2 DEF AcquireGate
  <2>4. CASE LeaveGateQueue(c)
    <3>1. pc' \in [Calls -> PCs]
          BY <2>4 DEF LeaveGateQueue, Return, PCs
    <3>2. result' \in [Calls -> Results]
          BY <2>4 DEF LeaveGateQueue, Return, Results
    <3> QED
        BY <2>4, <3>1, <3>2 DEF LeaveGateQueue
  <2>5. CASE Register(c)
    <3>1. pc' \in [Calls -> PCs]
          BY <2>5 DEF Register, Goto, PCs
    <3>2. watchdog' \in [Calls -> WatchdogStates]
          BY <2>5 DEF Register, WatchdogStates
    <3> QED
        BY <2>5, <3>1, <3>2 DEF Register
  <2>6. CASE Send(c)
    <3>1. pc' \in [Calls -> PCs]
          BY <2>6 DEF Send, Leave, Goto, PCs
    <3>2. result' \in [Calls -> Results]
          BY <2>6 DEF Send, Leave, Results
    <3>3. toPeer' \in Seq(Calls)
      <4>1. toPeer' = toPeer \/ toPeer' = Append(toPeer, c)
            BY <2>6 DEF Send
      <4>2. toPeer \in Seq(Calls)
            OBVIOUS
      <4>3. Append(toPeer, c) \in Seq(Calls)
        <5> HIDE DEF TypeOK
        <5> QED
            BY <4>2, AppendType
      <4> QED
          BY <4>1, <4>2, <4>3
    <3> QED
        BY <2>6, <3>1, <3>2, <3>3 DEF Send
  <2>7. CASE AwaitResponse(c)
    <3>1. pc' \in [Calls -> PCs]
          BY <2>7 DEF AwaitResponse, Leave, PCs
    <3>2. result' \in [Calls -> Results]
          BY <2>7 DEF AwaitResponse, Leave, Results
    <3>3. verdict' \in [Calls -> Verdicts]
          BY <2>7 DEF AwaitResponse, Verdicts
    <3> QED
        BY <2>7, <3>1, <3>2, <3>3 DEF AwaitResponse
  <2>8. CASE AwaitContext(c)
    <3>1. pc' \in [Calls -> PCs]
          BY <2>8 DEF AwaitContext, Leave, Goto, PCs
    <3>2. result' \in [Calls -> Results]
          BY <2>8 DEF AwaitContext, Leave, Results
    <3>3. verdict' \in [Calls -> Verdicts]
          BY <2>8 DEF AwaitContext, Verdicts
    <3> QED
        BY <2>8, <3>1, <3>2, <3>3 DEF AwaitContext
  <2>9. CASE AwaitDone(c)
    <3>1. pc' \in [Calls -> PCs]
          BY <2>9 DEF AwaitDone, Leave, PCs
    <3>2. result' \in [Calls -> Results]
          BY <2>9 DEF AwaitDone, Leave, Results
    <3> QED
        BY <2>9, <3>1, <3>2 DEF AwaitDone
  <2>10. CASE ExpireShutdown(c)
    <3>1. pc' \in [Calls -> PCs]
          BY <2>10 DEF ExpireShutdown, Goto, PCs
    <3>2. phase' \in Phases /\ reason' \in Reasons
          BY <2>10 DEF ExpireShutdown, EnterShutdown, Phases, Reasons, ReasonKinds, CallOrNone
    <3> QED
        BY <2>10, <3>1, <3>2 DEF ExpireShutdown
  <2>11. CASE JoinShutdown(c)
    <3>1. pc' \in [Calls -> PCs]
          BY <2>11 DEF JoinShutdown, Leave, PCs
    <3>2. result' \in [Calls -> Results]
          BY <2>11 DEF JoinShutdown, Leave, Results
    <3> QED
        BY <2>11, <3>1, <3>2 DEF JoinShutdown
  <2>12. CASE Finish(c)
    <3>1. pc' \in [Calls -> PCs]
          BY <2>12 DEF Finish, Goto, PCs
    <3>2. gate' \in [Gates -> BOOLEAN]
          BY <2>12 DEF Finish
    <3>3. watchdog' \in [Calls -> WatchdogStates]
          BY <2>12 DEF Finish, WatchdogStates
    <3> QED
        BY <2>12, <3>1, <3>2, <3>3 DEF Finish
  <2> QED
      BY <1>2, <2>1, <2>2, <2>3, <2>4, <2>5, <2>6, <2>7, <2>8, <2>9, <2>10, <2>11, <2>12 DEF ExchangeStep
<1>3. ASSUME NEW c \in Calls, EndContext(c) PROVE TypeOK'
      BY <1>3 DEF EndContext
<1>4. ASSUME NEW c \in Calls, Watchdog(c) PROVE TypeOK'
  <2>1. CASE WatchdogStart(c)
    <3>1. watchdog' \in [Calls -> WatchdogStates]
          BY <2>1 DEF WatchdogStart, WatchdogStates
    <3> QED
        BY <2>1, <3>1 DEF WatchdogStart
  <2>2. CASE WatchdogVerdict(c)
    <3>1. watchdog' \in [Calls -> WatchdogStates]
          BY <2>2 DEF WatchdogVerdict, WatchdogStates
    <3>2. verdict' \in [Calls -> Verdicts]
          BY <2>2 DEF WatchdogVerdict, Verdicts
    <3> QED
        BY <2>2, <3>1, <3>2 DEF WatchdogVerdict
  <2>3. CASE WatchdogShutdown(c)
    <3>1. watchdog' \in [Calls -> WatchdogStates]
          BY <2>3 DEF WatchdogShutdown, WatchdogStates
    <3>2. phase' \in Phases /\ reason' \in Reasons
          BY <2>3 DEF WatchdogShutdown, EnterShutdown, Phases, Reasons, ReasonKinds, CallOrNone
    <3> QED
        BY <2>3, <3>1, <3>2 DEF WatchdogShutdown
  <2> QED
      BY <1>4, <2>1, <2>2, <2>3 DEF Watchdog
<1>5. CASE CloseStep
      BY <1>5 DEF CloseStep, CloseBody, Phases
<1>6. CASE Close
      BY <1>6 DEF Close, EnterShutdown, Phases, Reasons, ReasonKinds, CallOrNone
<1>7. CASE KeepaliveLoop
  <2>1. CASE KeepaliveTick
    <3>1. pc' \in [Calls -> PCs]
          BY <2>1 DEF KeepaliveTick, Goto, Calls, PCs
    <3>2. keepalive' \in KeepaliveStates
          BY <2>1 DEF KeepaliveTick, KeepaliveStates, CallOrNone, Calls
    <3> QED
        BY <2>1, <3>1, <3>2 DEF KeepaliveTick
  <2>2. CASE KeepaliveDone
    <3>1. keepalive' \in KeepaliveStates
          BY <2>2 DEF KeepaliveDone, KeepaliveStates, CallOrNone, Calls
    <3> QED
        BY <2>2, <3>1 DEF KeepaliveDone
  <2>3. CASE KeepaliveOutcome
    <3>1. keepalive' \in KeepaliveStates
          BY <2>3 DEF KeepaliveOutcome, KeepaliveStates, CallOrNone, Calls
    <3>2. phase' \in Phases /\ reason' \in Reasons
          BY <2>3 DEF KeepaliveOutcome, EnterShutdown, KeepaliveStates, Phases, Reasons, ReasonKinds, CallOrNone
    <3> QED
        BY <2>3, <3>1, <3>2 DEF KeepaliveOutcome
  <2> QED
      BY <1>7, <2>1, <2>2, <2>3 DEF KeepaliveLoop
<1>8. CASE ReadLoop
  <2>1. CASE ReadFrame
    <3>1. toClient' \in Seq(Calls)
          BY <2>1 DEF ReadFrame
    <3>2. reader' \in Readers
          BY <2>1 DEF ReadFrame, Readers, CallOrNone
    <3> QED
        BY <2>1, <3>1, <3>2 DEF ReadFrame
  <2>2. CASE Deliver
    <3>1. resp' \in [Calls -> CallOrNone]
          BY <2>2 DEF Deliver, CallOrNone, Readers
    <3>2. reader' \in Readers
          BY <2>2 DEF Deliver, Readers, CallOrNone
    <3> QED
        BY <2>2, <3>1, <3>2 DEF Deliver
  <2>3. CASE ReadError
    <3>1. phase' \in Phases /\ reason' \in Reasons
          BY <2>3 DEF ReadError, EnterShutdown, Phases, Reasons, ReasonKinds, CallOrNone
    <3>2. reader' \in Readers
          BY <2>3 DEF ReadError, Readers, CallOrNone
    <3> QED
        BY <2>3, <3>1, <3>2 DEF ReadError
  <2> QED
      BY <1>8, <2>1, <2>2, <2>3 DEF ReadLoop
<1>9. CASE PeerAnswer
  <2>1. toPeer' \in Seq(Calls)
        BY <1>9 DEF PeerAnswer
  <2>2. toClient' \in Seq(Calls)
    <3>1. Head(toPeer) \in Calls
          BY <1>9 DEF PeerAnswer
    <3> QED
        BY <1>9, <3>1 DEF PeerAnswer
  <2> QED
      BY <1>9, <2>1, <2>2 DEF PeerAnswer
<1>10. CASE PeerReset
  <2>1. toPeer' \in Seq(Calls)
        BY <1>10 DEF PeerReset
  <2> QED
      BY <1>10, <2>1, Zenon DEF PeerReset
<1>11. CASE UNCHANGED vars
      BY <1>11 DEF vars
<1> QED
    BY <1>1, <1>2, <1>3, <1>4, <1>5, <1>6, <1>7, <1>8, <1>9, <1>10, <1>11
    DEF Next, Probe, DeviceInfo, Terminated

\* The state of the client is always typed.
THEOREM TypeCorrect == Spec => []TypeOK
  BY TypeInit, TypeStep, PTL DEF Spec

-----------------------------------------------------------------------------
(* The gates.                                                              *)

\* Apart from taking and returning a token, no step makes a call a holder of a
\* gate or ends its being one, or touches the tokens.
LEMMA GateSteps ==
    ASSUME TypeOK, [Next]_vars
    PROVE  \/ \E c \in Calls : AcquireGate(c) \/ Finish(c)
           \/ /\ gate' = gate
              /\ \A d \in Calls : pc'[d] \in Holding <=> pc[d] \in Holding
<1> DEFINE Goal == \/ \E c \in Calls : AcquireGate(c) \/ Finish(c)
                   \/ /\ gate' = gate
                      /\ \A d \in Calls : pc'[d] \in Holding <=> pc[d] \in Holding
<1> USE DEF TypeOK, callVars
<1>1. ASSUME NEW c \in Calls, Begin(c) PROVE Goal
      BY <1>1 DEF Begin, Goto, Holding
<1>2. ASSUME NEW c \in Calls, ExchangeStep(c) PROVE Goal
  <2>1. CASE CheckContext(c)
        BY <2>1 DEF CheckContext, Return, Goto, Holding
  <2>2. CASE CheckDone(c)
        BY <2>2 DEF CheckDone, Return, Goto, Holding
  <2>3. CASE AcquireGate(c)
        BY <2>3
  <2>4. CASE LeaveGateQueue(c)
        BY <2>4 DEF LeaveGateQueue, Return, Holding
  <2>5. CASE Register(c)
        BY <2>5 DEF Register, Goto, Holding
  <2>6. CASE Send(c)
        BY <2>6 DEF Send, Leave, Goto, Holding
  <2>7. CASE AwaitResponse(c)
        BY <2>7 DEF AwaitResponse, Leave, Holding
  <2>8. CASE AwaitContext(c)
        BY <2>8 DEF AwaitContext, Leave, Goto, Holding
  <2>9. CASE AwaitDone(c)
        BY <2>9 DEF AwaitDone, Leave, Holding
  <2>10. CASE ExpireShutdown(c)
        BY <2>10 DEF ExpireShutdown, Goto, Holding
  <2>11. CASE JoinShutdown(c)
        BY <2>11 DEF JoinShutdown, Leave, Holding
  <2>12. CASE Finish(c)
        BY <2>12
  <2> QED
      BY <1>2, <2>1, <2>2, <2>3, <2>4, <2>5, <2>6, <2>7, <2>8, <2>9, <2>10,
         <2>11, <2>12 DEF ExchangeStep
<1>3. ASSUME NEW c \in Calls, EndContext(c) \/ Watchdog(c) PROVE Goal
      BY <1>3 DEF EndContext, Watchdog, WatchdogStart, WatchdogVerdict,
                  WatchdogShutdown
<1>4. CASE KeepaliveTick
      BY <1>4 DEF KeepaliveTick, Goto, Holding, Calls
<1>5. CASE CloseStep \/ Close \/ KeepaliveDone \/ KeepaliveOutcome
      BY <1>5 DEF CloseStep, Close, KeepaliveDone, KeepaliveOutcome
<1>6. CASE ReadLoop \/ PeerAnswer \/ PeerReset
      BY <1>6 DEF ReadLoop, ReadFrame, Deliver, ReadError, PeerAnswer, PeerReset
<1>7. CASE UNCHANGED vars
      BY <1>7 DEF vars
<1> QED
    BY <1>1, <1>2, <1>3, <1>4, <1>5, <1>6, <1>7
    DEF Next, Probe, DeviceInfo, KeepaliveLoop, Terminated

\* The tokens keep the holders of a gate apart.
LEMMA GateStep == TypeOK /\ GateInv /\ [Next]_vars => GateInv'
<1> SUFFICES ASSUME TypeOK, GateInv, [Next]_vars PROVE GateInv'
    OBVIOUS
<1>1. \A c \in Calls : GateOf(c) \in Gates
      BY DEF GateOf, Gates
<1>2. ASSUME NEW c \in Calls, AcquireGate(c) PROVE GateInv'
  <2>1. /\ pc[c] \notin Holding /\ gate[GateOf(c)]
        /\ \A d \in Calls : d # c => pc'[d] = pc[d]
        BY <1>2 DEF TypeOK, AcquireGate, Goto, Holding
  <2>2. gate' = [gate EXCEPT ![GateOf(c)] = FALSE]
        BY <1>2 DEF AcquireGate
  <2>3. \A d \in Calls : pc'[d] \in Holding => ~gate'[GateOf(d)]
        BY <1>1, <2>1, <2>2 DEF TypeOK, GateInv
  <2>4. \A d \in Calls : d # c /\ pc[d] \in Holding => GateOf(d) # GateOf(c)
        BY <2>1 DEF GateInv
  <2>5. GateExclusive'
        BY <2>1, <2>4 DEF GateInv, GateExclusive
  <2> QED
      BY <2>3, <2>5 DEF GateInv
<1>3. ASSUME NEW c \in Calls, Finish(c) PROVE GateInv'
  <2>1. /\ pc[c] \in Holding /\ pc'[c] \notin Holding
        /\ \A d \in Calls : d # c => pc'[d] = pc[d]
        BY <1>3 DEF TypeOK, Finish, Goto, Holding
  <2>2. gate' = [gate EXCEPT ![GateOf(c)] = TRUE]
        BY <1>3 DEF Finish
  <2>3. \A d \in Calls : d # c /\ pc[d] \in Holding => GateOf(d) # GateOf(c)
        BY <2>1 DEF GateInv, GateExclusive
  <2>4. \A d \in Calls : pc'[d] \in Holding => ~gate'[GateOf(d)]
        BY <1>1, <2>1, <2>2, <2>3 DEF TypeOK, GateInv
  <2>5. GateExclusive'
        BY <2>1 DEF GateInv, GateExclusive
  <2> QED
      BY <2>4, <2>5 DEF GateInv
<1>4. ASSUME gate' = gate,
             \A d \in Calls : pc'[d] \in Holding <=> pc[d] \in Holding
      PROVE  GateInv'
      BY <1>4 DEF GateInv, GateExclusive
<1> QED
    BY <1>2, <1>3, <1>4, GateSteps

\* At most one exchange of each kind is under way: the one-token channel
\* keeps every two callers of Ping, and of DeviceInfo, apart.
THEOREM GateSafety == Spec => []GateExclusive
<1>1. Init => GateInv
      BY DEF Init, GateInv, GateExclusive, Holding
<1>2. GateInv => GateExclusive
      BY DEF GateInv
<1> QED
    BY <1>1, <1>2, TypeCorrect, GateStep, PTL DEF Spec
-----------------------------------------------------------------------------
(* The verdicts.                                                           *)

\* What a step leaves alone of a call.
Kept(c) ==
    /\ pc'[c] = pc[c] /\ watchdog'[c] = watchdog[c]
    /\ verdict'[c] = verdict[c] /\ result'[c] = result[c]

\* What no step undoes: done stays closed, a condemned connection condemned.
Onward ==
    /\ phase = "done" => phase' = "done"
    /\ Condemned => Condemned'

\* A step that records a close reason does not name call c.
NotBlamed(c) == reason' = reason \/ reason'.call # c

\* A call that a step leaves alone keeps its part of the invariant.
LEMMA VerdictKept ==
    ASSUME NEW c \in Calls, VerdictOf(c), Kept(c), Onward, NotBlamed(c)
    PROVE  VerdictOf(c)'
  BY DEF VerdictOf, Kept, Onward, NotBlamed

\* A call that enters shutdown leaves it closing, and the reason names it or
\* is the one recorded before.
LEMMA ShutdownEntered ==
    ASSUME NEW r, EnterShutdown(r), phase \in Phases
    PROVE  /\ phase' # "open"
           /\ phase # "open" => phase' = phase /\ reason' = reason
           /\ reason' = reason \/ reason' = r
           /\ phase = "done" => phase' = "done" /\ reason' = reason
  BY DEF EnterShutdown, connVars, Phases

\* No step reopens done or takes back a condemnation: a watchdog that won its
\* verdict keeps it until it has called shutdown.
LEMMA OnwardStep ==
    ASSUME TypeOK, VerdictInv, [Next]_vars
    PROVE  Onward
<1> DEFINE Goal == /\ phase # "open" => phase' # "open"
                   /\ phase = "done" => phase' = "done"
                   /\ \A d \in Calls : watchdog[d] = "fired" =>
                         watchdog'[d] = "fired" \/ phase' # "open"
<1>1. SUFFICES Goal
      BY DEF Onward, Condemned
<1> USE DEF TypeOK, callVars, connVars
<1>2. ASSUME NEW c \in Calls, Begin(c) \/ EndContext(c) PROVE Goal
      BY <1>2 DEF Begin, EndContext
<1>3. ASSUME NEW c \in Calls, ExchangeStep(c) PROVE Goal
  <2>1. CASE CheckContext(c)
        BY <2>1 DEF CheckContext
  <2>2. CASE CheckDone(c)
        BY <2>2 DEF CheckDone
  <2>3. CASE AcquireGate(c)
        BY <2>3 DEF AcquireGate
  <2>4. CASE LeaveGateQueue(c)
        BY <2>4 DEF LeaveGateQueue
  <2>5. CASE Register(c)
    <3>1. watchdog[c] # "fired"
          BY <2>5 DEF Register, VerdictInv, VerdictOf, Waiting
    <3> QED
        BY <2>5, <3>1 DEF Register
  <2>6. CASE Send(c)
        BY <2>6 DEF Send
  <2>7. CASE AwaitResponse(c)
        BY <2>7 DEF AwaitResponse
  <2>8. CASE AwaitContext(c)
        BY <2>8 DEF AwaitContext
  <2>9. CASE AwaitDone(c)
        BY <2>9 DEF AwaitDone
  <2>10. CASE ExpireShutdown(c)
        BY <2>10, ShutdownEntered DEF ExpireShutdown
  <2>11. CASE JoinShutdown(c)
        BY <2>11 DEF JoinShutdown
  <2>12. CASE Finish(c)
        BY <2>12 DEF Finish
  <2> QED
      BY <1>3, <2>1, <2>2, <2>3, <2>4, <2>5, <2>6, <2>7, <2>8,
         <2>9, <2>10, <2>11, <2>12 DEF ExchangeStep
<1>4. ASSUME NEW c \in Calls, Watchdog(c) PROVE Goal
  <2>1. CASE WatchdogStart(c)
        BY <2>1 DEF WatchdogStart
  <2>2. CASE WatchdogVerdict(c)
        BY <2>2 DEF WatchdogVerdict
  <2>3. CASE WatchdogShutdown(c)
        BY <2>3, ShutdownEntered DEF WatchdogShutdown
  <2> QED
      BY <1>4, <2>1, <2>2, <2>3 DEF Watchdog
<1>5. CASE KeepaliveTick \/ KeepaliveDone
      BY <1>5 DEF KeepaliveTick, KeepaliveDone
<1>6. CASE KeepaliveOutcome
      BY <1>6, ShutdownEntered DEF KeepaliveOutcome
<1>7. CASE Close
      BY <1>7, ShutdownEntered DEF Close
<1>8. CASE CloseStep
      BY <1>8 DEF CloseStep, CloseBody
<1>9. CASE ReadError
      BY <1>9, ShutdownEntered DEF ReadError
<1>10. CASE ReadFrame \/ Deliver \/ PeerAnswer \/ PeerReset
      BY <1>10 DEF ReadFrame, Deliver, PeerAnswer, PeerReset
<1>11. CASE UNCHANGED vars
      BY <1>11 DEF vars
<1> QED
    BY <1>2, <1>3, <1>4, <1>5, <1>6, <1>7, <1>8, <1>9, <1>10, <1>11
    DEF Next, Probe, DeviceInfo, KeepaliveLoop, ReadLoop, Terminated

\* The part of the invariant about call c survives every step, its own and
\* those of others.
LEMMA VerdictStep == TypeOK /\ VerdictInv /\ [Next]_vars => VerdictInv'
<1> SUFFICES ASSUME TypeOK, VerdictInv, [Next]_vars, NEW c \in Calls
             PROVE  VerdictOf(c)'
    BY DEF VerdictInv
<1>0. Onward /\ VerdictOf(c) /\ None # c
      BY OnwardStep, CallsAssumption DEF VerdictInv
<1> USE DEF TypeOK, callVars, connVars
<1>1. ASSUME Kept(c), NotBlamed(c) PROVE VerdictOf(c)'
      BY <1>0, <1>1, VerdictKept
<1>2. ASSUME NEW d \in Calls, Begin(d) \/ EndContext(d) PROVE VerdictOf(c)'
  <2>1. CASE EndContext(d)
        BY <1>1, <2>1 DEF EndContext, Kept, NotBlamed
  <2>2. CASE Begin(d) /\ d # c
        BY <1>1, <2>2 DEF Begin, Goto, Kept, NotBlamed
  <2>3. CASE Begin(c)
    <3>1. /\ pc[c] = "idle" /\ pc'[c] = "ctxCheck"
          /\ UNCHANGED <<watchdog, verdict, result, reason, phase>>
          BY <2>3 DEF Begin, Goto
    <3> QED
        BY <1>0, <3>1 DEF VerdictOf, Registered, Waiting, Onward
  <2> QED
      BY <1>2, <2>1, <2>2, <2>3
<1>3. ASSUME NEW d \in Calls, d # c, ExchangeStep(d) PROVE VerdictOf(c)'
  <2>1. CASE CheckContext(d)
        BY <1>1, <1>3, <2>1 DEF CheckContext, Return, Goto, Kept, NotBlamed
  <2>2. CASE CheckDone(d)
        BY <1>1, <1>3, <2>2 DEF CheckDone, Return, Goto, Kept, NotBlamed
  <2>3. CASE AcquireGate(d)
        BY <1>1, <1>3, <2>3 DEF AcquireGate, Goto, Kept, NotBlamed
  <2>4. CASE LeaveGateQueue(d)
        BY <1>1, <1>3, <2>4 DEF LeaveGateQueue, Return, Kept, NotBlamed
  <2>5. CASE Register(d)
        BY <1>1, <1>3, <2>5 DEF Register, Goto, Kept, NotBlamed
  <2>6. CASE Send(d)
        BY <1>1, <1>3, <2>6 DEF Send, Leave, Goto, Kept, NotBlamed
  <2>7. CASE AwaitResponse(d)
        BY <1>1, <1>3, <2>7 DEF AwaitResponse, Leave, Kept, NotBlamed
  <2>8. CASE AwaitContext(d)
        BY <1>1, <1>3, <2>8 DEF AwaitContext, Leave, Goto, Kept, NotBlamed
  <2>9. CASE AwaitDone(d)
        BY <1>1, <1>3, <2>9 DEF AwaitDone, Leave, Kept, NotBlamed
  <2>10. CASE ExpireShutdown(d)
        BY <1>1, <1>3, <2>10 DEF ExpireShutdown, Goto, Kept, NotBlamed, EnterShutdown
  <2>11. CASE JoinShutdown(d)
        BY <1>1, <1>3, <2>11 DEF JoinShutdown, Leave, Kept, NotBlamed
  <2>12. CASE Finish(d)
        BY <1>1, <1>3, <2>12 DEF Finish, Goto, Kept, NotBlamed
  <2> QED
      BY <1>3, <2>1, <2>2, <2>3, <2>4, <2>5, <2>6, <2>7, <2>8,
         <2>9, <2>10, <2>11, <2>12 DEF ExchangeStep
<1>4. ASSUME ExchangeStep(c) PROVE VerdictOf(c)'
  <2>1. CASE CheckContext(c)
    <3>1. /\ pc[c] = "ctxCheck" /\ UNCHANGED <<watchdog, verdict, reason, phase>>
          /\ \/ pc'[c] = "returned" /\ result'[c] = "notStarted"
             \/ pc'[c] = "doneCheck" /\ result'[c] = result[c]
          BY <2>1 DEF CheckContext, Return, Goto
    <3> QED
        BY <1>0, <3>1 DEF VerdictOf, Registered, Waiting, Onward, Pending,
                        Completed, Expired
  <2>2. CASE CheckDone(c)
    <3>1. /\ pc[c] = "doneCheck" /\ UNCHANGED <<watchdog, verdict, reason, phase>>
          /\ \/ pc'[c] = "returned" /\ result'[c] = "closed" /\ phase = "done"
             \/ pc'[c] = "waitGate" /\ result'[c] = result[c]
          BY <2>2 DEF CheckDone, Return, Goto
    <3> QED
        BY <1>0, <3>1 DEF VerdictOf, Registered, Waiting, Onward, Pending,
                        Completed, Expired
  <2>3. CASE AcquireGate(c)
    <3>1. /\ pc[c] = "waitGate" /\ pc'[c] = "register"
          /\ UNCHANGED <<watchdog, verdict, result, reason, phase>>
          BY <2>3 DEF AcquireGate, Goto
    <3> QED
        BY <1>0, <3>1 DEF VerdictOf, Registered, Waiting, Onward, Pending,
                        Completed, Expired
  <2>4. CASE LeaveGateQueue(c)
    <3>1. /\ pc[c] = "waitGate" /\ UNCHANGED <<watchdog, verdict, reason, phase>>
          /\ pc'[c] = "returned"
          /\ \/ result'[c] = "notStarted"
             \/ result'[c] = "closed" /\ phase = "done"
          BY <2>4 DEF LeaveGateQueue, Return
    <3> QED
        BY <1>0, <3>1 DEF VerdictOf, Registered, Waiting, Onward, Pending,
                        Completed, Expired
  <2>5. CASE Register(c)
    <3>1. /\ pc[c] = "register" /\ pc'[c] = "send"
          /\ watchdog'[c] = "armed"
          /\ UNCHANGED <<verdict, result, reason, phase>>
          BY <2>5 DEF Register, Goto
    <3> QED
        BY <1>0, <3>1 DEF VerdictOf, Registered, Waiting, Onward, Pending,
                        Completed, Expired
  <2>6. CASE Send(c)
    <3>1. /\ pc[c] = "send" /\ UNCHANGED <<watchdog, verdict, reason, phase>>
          /\ \/ pc'[c] = "return" /\ result'[c] = "sendErr"
             \/ pc'[c] = "await" /\ result'[c] = result[c]
          BY <2>6 DEF Send, Leave, Goto
    <3> QED
        BY <1>0, <3>1 DEF VerdictOf, Registered, Waiting, Onward, Pending,
                        Completed, Expired
  <2>7. CASE AwaitResponse(c)
    <3>1. /\ pc[c] = "await" /\ pc'[c] = "return"
          /\ UNCHANGED <<watchdog, reason, phase>>
          /\ \/ /\ verdict[c] = Pending
                /\ verdict'[c] = Completed /\ result'[c] = "ok"
             \/ /\ verdict[c] # Pending
                /\ verdict'[c] = verdict[c] /\ result'[c] = "timeout"
          BY <2>7 DEF AwaitResponse, Leave
    <3> QED
        BY <1>0, <3>1 DEF VerdictOf, Registered, Waiting, Onward, Pending,
                        Completed, Expired
  <2>8. CASE AwaitContext(c)
    <3>1. /\ pc[c] = "await" /\ UNCHANGED <<watchdog, reason, phase>>
          /\ \/ /\ verdict'[c] = Expired
                /\ pc'[c] = "expire" /\ result'[c] = result[c]
             \/ /\ verdict'[c] = verdict[c]
                /\ pc'[c] = "return" /\ result'[c] = "timeout"
          BY <2>8 DEF AwaitContext, Leave, Goto
    <3> QED
        BY <1>0, <3>1 DEF VerdictOf, Registered, Waiting, Onward, Pending,
                        Completed, Expired
  <2>9. CASE AwaitDone(c)
    <3>1. /\ pc[c] = "await" /\ UNCHANGED <<watchdog, verdict, reason, phase>>
          /\ pc'[c] = "return" /\ result'[c] = "closed" /\ phase = "done"
          BY <2>9 DEF AwaitDone, Leave
    <3> QED
        BY <1>0, <3>1 DEF VerdictOf, Registered, Waiting, Onward, Pending,
                        Completed, Expired
  <2>10. CASE ExpireShutdown(c)
    <3>1. /\ pc[c] = "expire" /\ pc'[c] = "join"
          /\ UNCHANGED <<watchdog, verdict, result>>
          BY <2>10 DEF ExpireShutdown, Goto
    <3>2. Condemned'
          BY <2>10, ShutdownEntered DEF ExpireShutdown, Condemned
    <3> QED
        BY <1>0, <3>1, <3>2 DEF VerdictOf, Registered, Waiting, Onward
  <2>11. CASE JoinShutdown(c)
    <3>1. /\ pc[c] = "join" /\ UNCHANGED <<watchdog, verdict, reason, phase>>
          /\ pc'[c] = "return" /\ result'[c] = "timeout"
          BY <2>11 DEF JoinShutdown, Leave
    <3> QED
        BY <1>0, <3>1 DEF VerdictOf, Registered, Waiting, Onward, Pending,
                        Completed, Expired
  <2>12. CASE Finish(c)
    <3>1. /\ pc[c] = "return" /\ pc'[c] = "returned"
          /\ \/ watchdog'[c] = watchdog[c]
             \/ watchdog[c] = "armed" /\ watchdog'[c] = "over"
          /\ UNCHANGED <<verdict, result, reason, phase>>
          BY <2>12 DEF Finish, Goto
    <3> QED
        BY <1>0, <3>1 DEF VerdictOf, Registered, Waiting, Onward, Pending,
                        Completed, Expired
  <2> QED
      BY <1>4, <2>1, <2>2, <2>3, <2>4, <2>5, <2>6, <2>7, <2>8,
         <2>9, <2>10, <2>11, <2>12 DEF ExchangeStep
<1>5. ASSUME NEW d \in Calls, d # c, Watchdog(d) PROVE VerdictOf(c)'
      BY <1>1, <1>5 DEF Watchdog, WatchdogStart, WatchdogVerdict,
                        WatchdogShutdown, EnterShutdown, Kept, NotBlamed
<1>6. ASSUME Watchdog(c) PROVE VerdictOf(c)'
  <2>1. CASE WatchdogStart(c)
    <3>1. /\ watchdog[c] = "armed" /\ watchdog'[c] = "running"
          /\ UNCHANGED <<pc, verdict, result, reason, phase>>
          BY <2>1 DEF WatchdogStart
    <3> QED
        BY <1>0, <3>1 DEF VerdictOf, Onward
  <2>2. CASE WatchdogVerdict(c)
    <3>1. /\ watchdog[c] = "running"
          /\ UNCHANGED <<pc, result, reason, phase>>
          /\ \/ /\ verdict[c] = Pending
                /\ verdict'[c] = Expired /\ watchdog'[c] = "fired"
             \/ verdict'[c] = verdict[c] /\ watchdog'[c] = "over"
          BY <2>2 DEF WatchdogVerdict
    <3>2. watchdog'[c] = "fired" => Condemned'
          BY DEF Condemned
    <3> QED
        BY <1>0, <3>1, <3>2 DEF VerdictOf, Onward, Waiting, Pending, Completed,
                                Expired
  <2>3. CASE WatchdogShutdown(c)
    <3>1. /\ watchdog[c] = "fired" /\ watchdog'[c] = "over"
          /\ UNCHANGED <<pc, verdict, result>>
          BY <2>3 DEF WatchdogShutdown
    <3> QED
        BY <1>0, <3>1 DEF VerdictOf, Onward, Waiting
  <2> QED
      BY <1>6, <2>1, <2>2, <2>3 DEF Watchdog
<1>7. CASE KeepaliveTick
  <2>1. PICK d \in KeepaliveCalls : pc[d] = "idle" /\ Goto(d, "ctxCheck")
        BY <1>7 DEF KeepaliveTick
  <2>2. UNCHANGED <<watchdog, verdict, result, reason, phase>>
        BY <1>7 DEF KeepaliveTick
  <2>3. CASE d # c
        BY <1>1, <2>1, <2>2, <2>3 DEF Goto, Kept, NotBlamed
  <2>4. CASE d = c
    <3>1. pc[c] = "idle" /\ pc'[c] = "ctxCheck"
          BY <2>1, <2>4 DEF Goto
    <3> QED
        BY <1>0, <2>2, <3>1 DEF VerdictOf, Registered, Waiting, Onward
  <2> QED
      BY <2>3, <2>4
<1>8. CASE KeepaliveOutcome
  <2>1. UNCHANGED <<pc, watchdog, verdict, result>>
        BY <1>8 DEF KeepaliveOutcome
  <2>2. CASE NotBlamed(c)
        BY <1>1, <2>1, <2>2 DEF Kept
  <2>3. CASE ~NotBlamed(c)
    <3>1. /\ phase = "open" /\ keepalive.call = c /\ pc[c] = "returned"
          /\ result[c] \notin {"ok", "notStarted"}
          BY <1>8, <2>3 DEF KeepaliveOutcome, EnterShutdown, NotBlamed
    <3>2. result[c] \in {"sendErr", "timeout"}
          BY <1>0, <3>1 DEF VerdictOf, Results
    <3> QED
        BY <1>0, <2>1, <3>1, <3>2 DEF VerdictOf, Onward
  <2> QED
      BY <2>2, <2>3
<1>9. CASE Close \/ CloseStep \/ ReadError
      BY <1>0, <1>1, <1>9 DEF Close, CloseStep, CloseBody, ReadError,
         EnterShutdown, Kept, NotBlamed
<1>10. CASE KeepaliveDone \/ ReadFrame \/ Deliver \/ PeerAnswer \/ PeerReset
      BY <1>1, <1>10 DEF KeepaliveDone, ReadFrame, Deliver, PeerAnswer,
         PeerReset, Kept, NotBlamed
<1>11. CASE UNCHANGED vars
      BY <1>1, <1>11 DEF vars, Kept, NotBlamed
<1> QED
    BY <1>2, <1>3, <1>4, <1>5, <1>6, <1>7, <1>8, <1>9, <1>10, <1>11
    DEF Next, Probe, DeviceInfo, KeepaliveLoop, ReadLoop, Terminated

\* VerdictInv holds in every reachable state.
LEMMA VerdictCorrect == Spec => []VerdictInv
<1>1. Init => VerdictInv
      BY CallsAssumption DEF Init, OpenConnection, NoReason, VerdictInv,
         VerdictOf, Registered, Waiting, Pending, Completed, Expired
<1> QED
    BY <1>1, TypeCorrect, VerdictStep, PTL DEF Spec

\* Completion and expiry of an exchange exclude each other: an exchange that
\* reports success is never the one whose timeout closes the connection.
THEOREM VerdictSafety == Spec => []VerdictExclusive
<1>1. VerdictInv => VerdictExclusive
      BY DEF VerdictInv, VerdictOf, VerdictExclusive, Completed, Expired
<1> QED
    BY <1>1, VerdictCorrect, PTL

\* Only an exchange that had acquired its gate and installed its watchdog is
\* ever named by the close reason: a keepalive cycle that never started
\* yields.
THEOREM BlameSafety == Spec => []OnlyStartedCondemns
<1>1. TypeOK /\ VerdictInv => OnlyStartedCondemns
      BY DEF TypeOK, Reasons, CallOrNone, VerdictInv, VerdictOf,
         OnlyStartedCondemns
<1> QED
    BY <1>1, TypeCorrect, VerdictCorrect, PTL

-----------------------------------------------------------------------------
(* The answers in flight.                                                  *)

\* What is on a wire after a request or an answer was added to it.
LEMMA OnAppend ==
    ASSUME NEW s \in Seq(Calls), NEW c \in Calls
    PROVE  /\ \A d \in Calls : On(Append(s, c), d) <=> On(s, d) \/ d = c
           /\ Injective(s) /\ ~On(s, c) => Injective(Append(s, c))
<1> DEFINE t == Append(s, c)
<1>1. /\ Len(t) = Len(s) + 1 /\ t[Len(t)] = c
      /\ \A i \in 1..Len(s) : t[i] = s[i] /\ i \in 1..Len(t)
      /\ \A i \in 1..Len(t) : i \in 1..Len(s) \/ i = Len(t)
      /\ Len(t) \in 1..Len(t)
      OBVIOUS
<1> HIDE DEF t
<1>2. ASSUME NEW d \in Calls PROVE On(t, d) <=> On(s, d) \/ d = c
      BY <1>1 DEF On
<1>3. ASSUME Injective(s), ~On(s, c) PROVE Injective(t)
      BY <1>1, <1>3 DEF Injective, On
<1> QED
    BY <1>2, <1>3 DEF t

\* What is on a wire after its first request or answer was taken.
LEMMA OnTail ==
    ASSUME NEW s \in Seq(Calls), s # <<>>
    PROVE  /\ \A d \in Calls : On(s, d) <=> d = Head(s) \/ On(Tail(s), d)
           /\ Injective(s) => Injective(Tail(s)) /\ ~On(Tail(s), Head(s))
<1> DEFINE t == Tail(s)
<1>1. /\ Len(s) \in Nat /\ Len(t) = Len(s) - 1 /\ s[1] = Head(s) /\ 1 \in 1..Len(s)
      /\ \A i \in 1..Len(t) : t[i] = s[i + 1] /\ i + 1 \in 1..Len(s) /\ i + 1 # 1
      /\ \A i \in 1..Len(s) : i = 1 \/ (i - 1 \in 1..Len(t) /\ s[i] = t[i - 1])
      OBVIOUS
<1> HIDE DEF t
<1>2. ASSUME NEW d \in Calls PROVE On(s, d) <=> d = Head(s) \/ On(t, d)
      BY <1>1 DEF On
<1>3. ASSUME Injective(s) PROVE Injective(t) /\ ~On(t, Head(s))
  <2>1. Injective(t)
    <3>1. ASSUME NEW i \in 1..Len(t), NEW j \in 1..Len(t), t[i] = t[j]
          PROVE  i = j
      <4>1. s[i + 1] = s[j + 1]
            BY <1>1, <3>1
      <4>2. i + 1 = j + 1
            BY <1>1, <1>3, <4>1 DEF Injective
      <4> QED
          BY <4>2
    <3> QED
        BY <3>1 DEF Injective
  <2>2. ~On(t, Head(s))
        BY <1>1, <1>3 DEF On, Injective
  <2> QED
      BY <2>1, <2>2
<1> QED
    BY <1>2, <1>3 DEF t

\* The steps that touch the wire, readLoop or a response channel.
LEMMA WireSteps ==
    ASSUME [Next]_vars
    PROVE  \/ \E c \in Calls : Send(c)
           \/ PeerAnswer \/ PeerReset \/ ReadFrame \/ Deliver \/ ReadError
           \/ UNCHANGED <<toPeer, toClient, reader, resp>>
<1> USE DEF callVars, wireVars
<1>1. ASSUME NEW c \in Calls, Begin(c) \/ EndContext(c) \/ Watchdog(c)
      PROVE  UNCHANGED <<toPeer, toClient, reader, resp>>
      BY <1>1 DEF Begin, EndContext, Watchdog, WatchdogStart, WatchdogVerdict,
                  WatchdogShutdown
<1>2. ASSUME NEW c \in Calls, ExchangeStep(c)
      PROVE  Send(c) \/ UNCHANGED <<toPeer, toClient, reader, resp>>
      BY <1>2 DEF ExchangeStep, CheckContext, CheckDone, AcquireGate,
         LeaveGateQueue, Register, AwaitResponse, AwaitContext, AwaitDone,
         ExpireShutdown, JoinShutdown, Finish
<1>3. CASE CloseStep \/ Close \/ KeepaliveLoop
      BY <1>3 DEF CloseStep, Close, KeepaliveLoop, KeepaliveTick, KeepaliveDone,
                  KeepaliveOutcome
<1>4. CASE UNCHANGED vars
      BY <1>4 DEF vars
<1> QED
    BY <1>1, <1>2, <1>3, <1>4
    DEF Next, Probe, DeviceInfo, ReadLoop, Terminated

\* A request is written once, answered at most once and read at most once.
LEMMA WireStep == TypeOK /\ WireInv /\ FlightInv /\ [Next]_vars => WireInv'
<1> SUFFICES ASSUME TypeOK, WireInv, FlightInv, [Next]_vars PROVE WireInv'
    OBVIOUS
<1> USE DEF WireInv
<1>1. ASSUME NEW c \in Calls, Send(c) PROVE WireInv'
  <2>1. ~On(toPeer, c) /\ ~On(toClient, c) /\ reader.msg # c
        BY <1>1 DEF Send, FlightInv, FlightOf, InFlight, Unsent
  <2>2. CASE toPeer' = Append(toPeer, c)
        BY <1>1, <2>1, <2>2, OnAppend DEF Send, TypeOK
  <2>3. CASE toPeer' = toPeer
        BY <1>1, <2>3 DEF Send
  <2> QED
      BY <1>1, <2>2, <2>3 DEF Send
<1>2. CASE PeerAnswer
  <2> DEFINE h == Head(toPeer)
  <2>1. /\ toPeer \in Seq(Calls) /\ toPeer # <<>> /\ toClient \in Seq(Calls)
        /\ toPeer' = Tail(toPeer) /\ toClient' = Append(toClient, h)
        /\ reader' = reader
        BY <1>2 DEF PeerAnswer, TypeOK
  <2>2. h \in Calls
        BY <2>1
  <2> HIDE DEF h
  <2>3. /\ \A d \in Calls : On(toPeer, d) <=> d = h \/ On(toPeer', d)
        /\ Injective(toPeer') /\ ~On(toPeer', h)
        BY <2>1, OnTail DEF h
  <2>4. ~On(toClient, h) /\ reader.msg # h
        BY <2>2, <2>3
  <2>5. /\ \A d \in Calls : On(toClient', d) <=> On(toClient, d) \/ d = h
        /\ Injective(toClient')
        BY <2>1, <2>2, <2>4, OnAppend
  <2> QED
      BY <2>1, <2>3, <2>4, <2>5
<1>3. CASE PeerReset
  <2>1. toPeer' = <<>> /\ toClient' = toClient /\ reader' = reader
        BY <1>3 DEF PeerReset
  <2>2. Injective(toPeer') /\ \A d \in Calls : ~On(toPeer', d)
        BY <2>1 DEF Injective, On
  <2> QED
      BY <2>1, <2>2
<1>4. CASE ReadFrame
  <2>1. /\ toClient \in Seq(Calls) /\ toClient # <<>> /\ toClient' = Tail(toClient)
        /\ toPeer' = toPeer /\ reader'.msg = Head(toClient)
        BY <1>4 DEF ReadFrame, TypeOK
  <2>2. Head(toClient) \in Calls
        BY <2>1
  <2>3. /\ \A d \in Calls : On(toClient, d) <=> d = Head(toClient) \/ On(toClient', d)
        /\ Injective(toClient') /\ ~On(toClient', Head(toClient))
        BY <2>1, OnTail
  <2> QED
      BY <2>1, <2>2, <2>3
<1>5. CASE Deliver \/ ReadError
  <2>1. toPeer' = toPeer /\ toClient' = toClient /\ reader'.msg = None
        BY <1>5 DEF Deliver, ReadError, wireVars
  <2> QED
      BY <2>1, CallsAssumption
<1>6. CASE UNCHANGED <<toPeer, toClient, reader, resp>>
      BY <1>6
<1> QED
    BY <1>1, <1>2, <1>3, <1>4, <1>5, <1>6, WireSteps

\* How a call moves on once its request is written: it leaves its exchange
\* only when its answer has arrived or the connection is condemned.
Sent(c) ==
    \/ pc'[c] = pc[c]
    \/ pc[c] \in Unsent \ {"send"} /\ pc'[c] \in Unsent \cup {"returned"}
    \/ pc[c] = "send" /\ pc'[c] \in {"await", "return"}
    \/ pc[c] \in {"await", "expire"} /\ pc'[c] \in {"expire", "join"}
    \/ pc[c] \in {"await", "join"} /\ pc'[c] = "return" /\ (InFlight(c) => Condemned)
    \/ pc[c] = "return" /\ pc'[c] = "returned"

\* Every step moves a call in that way, or does not move it.
LEMMA SentSteps ==
    ASSUME TypeOK, VerdictInv, FlightInv, [Next]_vars, NEW c \in Calls
    PROVE  Sent(c)
<1>0. VerdictOf(c) /\ FlightOf(c)
      BY DEF VerdictInv, FlightInv
<1> USE DEF callVars
<1>1. ASSUME pc' = pc PROVE Sent(c)
      BY <1>1 DEF Sent
<1>2. ASSUME NEW d \in Calls, d # c, ExchangeStep(d) \/ Begin(d) PROVE Sent(c)
  <2>1. pc'[c] = pc[c]
        BY <1>2 DEF TypeOK, ExchangeStep, Begin, CheckContext, CheckDone,
           AcquireGate, LeaveGateQueue, Register, Send, AwaitResponse,
           AwaitContext, AwaitDone, ExpireShutdown, JoinShutdown, Finish,
           Goto, Return, Leave
  <2> QED
      BY <2>1 DEF Sent
<1>3. CASE ExchangeStep(c)
  <2> USE DEF TypeOK, Sent
  <2>1. CASE CheckContext(c)
        BY <2>1 DEF CheckContext, Return, Goto, Unsent
  <2>2. CASE CheckDone(c)
        BY <2>2 DEF CheckDone, Return, Goto, Unsent
  <2>3. CASE AcquireGate(c)
        BY <2>3 DEF AcquireGate, Goto, Unsent
  <2>4. CASE LeaveGateQueue(c)
        BY <2>4 DEF LeaveGateQueue, Return, Unsent
  <2>5. CASE Register(c)
        BY <2>5 DEF Register, Goto, Unsent
  <2>6. CASE Send(c)
        BY <2>6 DEF Send, Leave, Goto
  <2>7. CASE AwaitResponse(c)
    <3>1. pc[c] = "await" /\ pc'[c] = "return" /\ resp[c] # None
          BY <2>7 DEF AwaitResponse, Leave
    <3>2. InFlight(c) => Condemned
          BY <1>0, <3>1 DEF FlightOf
    <3> QED
        BY <3>1, <3>2
  <2>8. CASE AwaitContext(c)
    <3>1. CASE verdict[c] = Pending
          BY <2>8, <3>1 DEF AwaitContext, Goto
    <3>2. CASE verdict[c] # Pending
      <4>1. pc[c] = "await" /\ pc'[c] = "return"
            BY <2>8, <3>2 DEF AwaitContext, Leave
      <4>2. Condemned
            BY <1>0, <3>2, <4>1 DEF VerdictOf, Verdicts
      <4> QED
          BY <4>1, <4>2
    <3> QED
        BY <3>1, <3>2
  <2>9. CASE AwaitDone(c)
        BY <2>9 DEF AwaitDone, Leave, Condemned
  <2>10. CASE ExpireShutdown(c)
        BY <2>10 DEF ExpireShutdown, Goto
  <2>11. CASE JoinShutdown(c)
        BY <2>11 DEF JoinShutdown, Leave, Condemned
  <2>12. CASE Finish(c)
        BY <2>12 DEF Finish, Goto
  <2> QED
      BY <1>3, <2>1, <2>2, <2>3, <2>4, <2>5, <2>6, <2>7, <2>8, <2>9, <2>10,
         <2>11, <2>12 DEF ExchangeStep
<1>4. CASE Begin(c) \/ KeepaliveTick
      BY <1>4 DEF TypeOK, Begin, KeepaliveTick, Goto, Sent, Unsent
<1>5. ASSUME NEW d \in Calls, EndContext(d) \/ Watchdog(d) PROVE Sent(c)
      BY <1>1, <1>5 DEF EndContext, Watchdog, WatchdogStart, WatchdogVerdict,
         WatchdogShutdown
<1>6. CASE \/ CloseStep \/ Close \/ KeepaliveDone \/ KeepaliveOutcome
           \/ ReadLoop \/ PeerAnswer \/ PeerReset
      BY <1>1, <1>6 DEF CloseStep, Close, KeepaliveDone, KeepaliveOutcome,
         ReadLoop, ReadFrame, Deliver, ReadError, PeerAnswer, PeerReset
<1>7. CASE UNCHANGED vars
      BY <1>1, <1>7 DEF vars
<1> QED
    BY <1>2, <1>3, <1>4, <1>5, <1>6, <1>7
    DEF Next, Probe, DeviceInfo, KeepaliveLoop, Terminated

\* The part of the invariant about call c survives a step that puts nothing of
\* the call under way and hands it nothing.
LEMMA FlightKept ==
    ASSUME NEW c \in Calls, FlightOf(c), Sent(c), Onward,
           InFlight(c)' => InFlight(c), resp'[c] = resp[c],
           c \in reader'.to => c \in reader.to /\ reader'.msg = reader.msg
    PROVE  FlightOf(c)'
  BY DEF FlightOf, Sent, Onward, Unsent

\* The answers under way and the response channels, at every step: this is
\* where the gates, the verdicts and the wire come together.
LEMMA FlightStep ==
    TypeOK /\ ExchangeInv /\ [Next]_vars => FlightInv'
<1> SUFFICES ASSUME TypeOK, ExchangeInv, [Next]_vars, NEW c \in Calls
             PROVE  FlightOf(c)'
    BY DEF FlightInv
<1>0. Onward /\ FlightOf(c) /\ Sent(c) /\ None # c
      BY OnwardStep, SentSteps, CallsAssumption DEF ExchangeInv, FlightInv
<1>1. ASSUME InFlight(c)' => InFlight(c), resp'[c] = resp[c],
             c \in reader'.to => c \in reader.to /\ reader'.msg = reader.msg
      PROVE  FlightOf(c)'
      BY <1>0, <1>1, FlightKept
<1>2. ASSUME NEW d \in Calls, Send(d) PROVE FlightOf(c)'
  <2>1. toClient' = toClient /\ reader' = reader /\ resp' = resp
        BY <1>2 DEF Send
  <2>2. CASE toPeer' = toPeer
        BY <1>1, <2>1, <2>2 DEF InFlight
  <2>3. CASE toPeer' = Append(toPeer, d) /\ pc' = [pc EXCEPT ![d] = "await"]
    <3>1. On(toPeer', c) <=> On(toPeer, c) \/ c = d
          BY <2>3, OnAppend DEF TypeOK
    <3>2. CASE c # d
          BY <1>1, <2>1, <3>1, <3>2 DEF InFlight
    <3>3. CASE c = d
      <4>1. pc[c] = "send" /\ pc'[c] = "await"
            BY <1>2, <2>3, <3>3 DEF Send, TypeOK
      <4> QED
          BY <1>0, <2>1, <4>1 DEF FlightOf, Unsent, Onward
    <3> QED
        BY <3>2, <3>3
  <2> QED
      BY <1>2, <2>2, <2>3 DEF Send, Goto
<1>3. CASE PeerAnswer
  <2>1. /\ toPeer \in Seq(Calls) /\ toPeer # <<>> /\ toClient \in Seq(Calls)
        /\ toPeer' = Tail(toPeer) /\ toClient' = Append(toClient, Head(toPeer))
        /\ reader' = reader /\ resp' = resp
        BY <1>3 DEF PeerAnswer, TypeOK, callVars
  <2>2. Head(toPeer) \in Calls
        BY <2>1
  <2>3. /\ On(toPeer, c) <=> c = Head(toPeer) \/ On(toPeer', c)
        /\ On(toClient', c) <=> On(toClient, c) \/ c = Head(toPeer)
        BY <2>1, <2>2, OnTail, OnAppend
  <2> QED
      BY <1>1, <2>1, <2>3 DEF InFlight
<1>4. CASE PeerReset
  <2>1. toPeer' = <<>> /\ toClient' = toClient /\ reader' = reader /\ resp' = resp
        BY <1>4 DEF PeerReset, callVars
  <2>2. ~On(toPeer', c)
        BY <2>1 DEF On
  <2> QED
      BY <1>1, <2>1, <2>2 DEF InFlight
<1>5. CASE ReadFrame
  <2> DEFINE m == Head(toClient)
  <2>1. /\ toClient \in Seq(Calls) /\ toClient # <<>> /\ toClient' = Tail(toClient)
        /\ toPeer' = toPeer /\ resp' = resp /\ pc' = pc
        /\ reader'.msg = m
        /\ reader'.to = {d \in Calls : pc[d] \in Registered /\ GateOf(d) = GateOf(m)}
        BY <1>5 DEF ReadFrame, TypeOK, callVars
  <2>2. m \in Calls
        BY <2>1
  <2> HIDE DEF m
  <2>3. On(toClient, m) /\ (On(toClient', c) => On(toClient, c))
        BY <2>1, <2>2, OnTail DEF m
  <2>4. InFlight(c)' => InFlight(c)
        BY <2>1, <2>3 DEF InFlight
  <2>5. c \in reader'.to => c = m \/ Condemned
    <3>1. SUFFICES ASSUME pc[c] \in Registered, GateOf(c) = GateOf(m), ~Condemned
                   PROVE  c = m
          BY <2>1
    <3>2. pc[m] \in {"await", "expire", "join"}
          BY <2>2, <2>3, <3>1 DEF ExchangeInv, FlightInv, FlightOf, InFlight,
             Unsent, TypeOK, PCs
    <3> QED
        BY <2>2, <3>1, <3>2 DEF ExchangeInv, GateInv, GateExclusive, Registered,
           Holding
  <2> QED
      BY <1>0, <2>1, <2>4, <2>5 DEF FlightOf, Onward
<1>6. CASE Deliver
  <2>1. /\ toPeer' = toPeer /\ toClient' = toClient /\ pc' = pc
        /\ reader'.msg = None /\ reader'.to = {}
        /\ \/ resp'[c] = resp[c]
           \/ c \in reader.to /\ resp[c] = None /\ resp'[c] = reader.msg
        BY <1>6 DEF Deliver, wireVars
  <2>2. InFlight(c)' => InFlight(c)
        BY <1>0, <2>1 DEF InFlight
  <2>3. CASE resp'[c] = resp[c]
        BY <1>1, <2>1, <2>2, <2>3
  <2>4. CASE c \in reader.to /\ resp'[c] = reader.msg
    <3>1. CASE reader.msg = c
      <4>1. ~InFlight(c)'
            BY <1>0, <2>1, <3>1 DEF ExchangeInv, WireInv, InFlight
      <4>2. pc'[c] \notin Unsent
            BY <1>0, <2>1, <3>1 DEF FlightOf, InFlight
      <4> QED
          BY <2>1, <2>4, <3>1, <4>1, <4>2 DEF FlightOf
    <3>2. CASE reader.msg # c
          BY <1>0, <2>1, <2>2, <2>4, <3>2 DEF FlightOf, Onward
    <3> QED
        BY <3>1, <3>2
  <2> QED
      BY <2>1, <2>3, <2>4
<1>7. CASE ReadError
  <2>1. /\ toPeer' = toPeer /\ toClient' = toClient /\ resp' = resp
        /\ reader'.msg = None /\ reader'.to = {}
        BY <1>7 DEF ReadError, wireVars, callVars
  <2> QED
      BY <1>0, <1>1, <2>1 DEF InFlight
<1>8. CASE UNCHANGED <<toPeer, toClient, reader, resp>>
      BY <1>1, <1>8 DEF InFlight
<1> QED
    BY <1>2, <1>3, <1>4, <1>5, <1>6, <1>7, <1>8, WireSteps

\* The gates, the verdicts, the wire and the answers in flight: the invariant
\* from which the safety of an exchange follows.
THEOREM ExchangeCorrect == Spec => []ExchangeInv
<1>1. Init => ExchangeInv
  <2>1. Init => GateInv /\ VerdictInv
        BY CallsAssumption DEF Init, OpenConnection, NoReason, GateInv,
           GateExclusive, Holding, VerdictInv, VerdictOf, Registered, Waiting,
           Pending, Completed, Expired
  <2>2. Init => WireInv
        BY CallsAssumption DEF Init, WireInv, Injective, On
  <2>3. Init => FlightInv
        BY CallsAssumption DEF Init, FlightInv, FlightOf, InFlight, On
  <2> QED
      BY <2>1, <2>2, <2>3 DEF ExchangeInv
<1>2. TypeOK /\ ExchangeInv /\ [Next]_vars => ExchangeInv'
      BY GateStep, VerdictStep, WireStep, FlightStep DEF ExchangeInv
<1> QED
    BY <1>1, <1>2, TypeCorrect, PTL DEF Spec

\* An answer that reaches the response channel of another caller finds the
\* connection condemned: no exchange gives up on its answer and leaves the
\* connection to its successor.
THEOREM LateAnswerSafety == Spec => []LateAnswerCondemned
<1>1. ExchangeInv => LateAnswerCondemned
      BY DEF ExchangeInv, FlightInv, FlightOf, LateAnswerCondemned
<1> QED
    BY <1>1, ExchangeCorrect, PTL

-----------------------------------------------------------------------------
(* What a call waits for.                                                  *)

\* No token is lost: one that is not in its channel is with a call that has yet
\* to run its deferred calls.
TokenInv ==
    \A g \in Gates : ~gate[g] => \E c \in Calls : pc[c] \in Holding /\ GateOf(c) = g

\* An exchange that may block on the transport or on the peer has a watchdog
\* that has yet to try for the verdict, unless the connection is condemned.
WatchOf(c) ==
    /\ pc[c] \in {"send", "await"} => watchdog[c] \in {"armed", "running"} \/ Condemned
    /\ pc[c] = "join" => phase # "open"

WatchInv == \A c \in Calls : WatchOf(c)

\* No call is stranded: whatever it waits for is still to come.
NoneStranded == TokenInv /\ WatchInv

\* The tokens, after every step.
LEMMA TokenStep ==
    ASSUME TypeOK, TokenInv, [Next]_vars
    PROVE  TokenInv'
<1>1. \A c \in Calls : GateOf(c) \in Gates
      BY DEF GateOf, Gates
<1>2. ASSUME NEW c \in Calls, AcquireGate(c) PROVE TokenInv'
  <2>1. /\ pc[c] \notin Holding /\ pc'[c] \in Holding
        /\ \A d \in Calls : d # c => pc'[d] = pc[d]
        BY <1>2 DEF TypeOK, AcquireGate, Goto, Holding
  <2>2. \A g \in Gates : g # GateOf(c) => gate'[g] = gate[g]
        BY <1>2 DEF AcquireGate, TypeOK
  <2> QED
      BY <2>1, <2>2 DEF TokenInv
<1>3. ASSUME NEW c \in Calls, Finish(c) PROVE TokenInv'
  <2>1. \A d \in Calls : d # c => pc'[d] = pc[d]
        BY <1>3 DEF TypeOK, Finish, Goto
  <2>2. \A g \in Gates : IF g = GateOf(c) THEN gate'[g] ELSE gate'[g] = gate[g]
        BY <1>3 DEF Finish, TypeOK
  <2> QED
      BY <2>1, <2>2 DEF TokenInv
<1>4. ASSUME gate' = gate,
             \A d \in Calls : pc'[d] \in Holding <=> pc[d] \in Holding
      PROVE  TokenInv'
      BY <1>4 DEF TokenInv
<1> QED
    BY <1>2, <1>3, <1>4, GateSteps

\* The watchdogs, after every step: one that is over has found the verdict
\* taken, and whoever expired the exchange has condemned the connection.
LEMMA WatchStep ==
    ASSUME TypeOK, VerdictInv, WatchInv, [Next]_vars
    PROVE  WatchInv'
<1> SUFFICES ASSUME NEW c \in Calls PROVE WatchOf(c)'
    BY DEF WatchInv
<1>1. WatchOf(c) /\ VerdictOf(c) /\ Onward /\ (phase # "open" => phase' # "open")
  <2>1. phase # "open" => phase' # "open"
    <3>1. ASSUME NEW d \in Calls, ExchangeStep(d) \/ Watchdog(d)
          PROVE  UNCHANGED connVars \/ \E r : EnterShutdown(r)
          BY <3>1 DEF ExchangeStep, CheckContext, CheckDone, AcquireGate, LeaveGateQueue,
             Register, Send, AwaitResponse, AwaitContext, AwaitDone, ExpireShutdown,
             JoinShutdown, Finish, Watchdog, WatchdogStart, WatchdogVerdict, WatchdogShutdown
    <3>2. ASSUME NEW d \in Calls, Begin(d) \/ EndContext(d) PROVE UNCHANGED connVars
          BY <3>2 DEF Begin, EndContext
    <3>3. Close \/ KeepaliveLoop \/ ReadLoop =>
             UNCHANGED connVars \/ \E r : EnterShutdown(r)
          BY DEF Close, KeepaliveLoop, KeepaliveTick, KeepaliveDone, KeepaliveOutcome,
             ReadLoop, ReadFrame, Deliver, ReadError
    <3>4. PeerAnswer \/ PeerReset \/ UNCHANGED vars => UNCHANGED connVars
          BY DEF PeerAnswer, PeerReset, vars, connVars
    <3>5. CloseStep => phase' # "open"
          BY DEF CloseStep, CloseBody
    <3>6. (\E r : EnterShutdown(r)) => phase' # "open"
          BY ShutdownEntered DEF TypeOK
    <3> QED
        BY <3>1, <3>2, <3>3, <3>4, <3>5, <3>6
        DEF Next, Probe, DeviceInfo, Terminated, connVars
  <2> QED
      BY <2>1, OnwardStep DEF WatchInv, VerdictInv
<1>2. ASSUME pc'[c] = pc[c] \/ pc'[c] \notin {"send", "await", "join"},
             watchdog'[c] = watchdog[c]
      PROVE  WatchOf(c)'
      BY <1>1, <1>2 DEF WatchOf, Onward
<1> USE DEF TypeOK, callVars
<1>3. ASSUME NEW d \in Calls, Begin(d) \/ EndContext(d) PROVE WatchOf(c)'
      BY <1>2, <1>3 DEF Begin, EndContext, Goto
<1>4. ASSUME NEW d \in Calls, ExchangeStep(d) PROVE WatchOf(c)'
  <2>1. CASE CheckContext(d) \/ CheckDone(d)
        BY <1>2, <2>1 DEF CheckContext, CheckDone, Return, Goto
  <2>2. CASE AcquireGate(d) \/ LeaveGateQueue(d)
        BY <1>2, <2>2 DEF AcquireGate, LeaveGateQueue, Return, Goto
  <2>3. CASE Register(d)
    <3>1. CASE c = d
      <4>1. watchdog'[c] = "armed" /\ pc'[c] = "send"
            BY <2>3, <3>1 DEF Register, Goto
      <4> QED
          BY <4>1 DEF WatchOf
    <3>2. CASE c # d
          BY <1>2, <2>3, <3>2 DEF Register, Goto
    <3> QED
        BY <3>1, <3>2
  <2>4. CASE Send(d)
    <3>1. CASE c = d
      <4>1. pc[c] = "send" /\ watchdog' = watchdog /\ pc'[c] \in {"await", "return"}
            BY <2>4, <3>1 DEF Send, Leave, Goto
      <4> QED
          BY <1>1, <4>1 DEF WatchOf, Onward
    <3>2. CASE c # d
          BY <1>2, <2>4, <3>2 DEF Send, Leave, Goto
    <3> QED
        BY <3>1, <3>2
  <2>5. CASE AwaitResponse(d) \/ AwaitContext(d)
        BY <1>2, <2>5 DEF AwaitResponse, AwaitContext, Leave, Goto
  <2>6. CASE AwaitDone(d) \/ JoinShutdown(d)
        BY <1>2, <2>6 DEF AwaitDone, JoinShutdown, Leave
  <2>7. CASE ExpireShutdown(d)
    <3>1. CASE c = d
      <4>1. pc'[c] = "join" /\ phase' # "open"
            BY <2>7, <3>1, ShutdownEntered DEF ExpireShutdown, Goto
      <4> QED
          BY <4>1 DEF WatchOf
    <3>2. CASE c # d
          BY <1>2, <2>7, <3>2 DEF ExpireShutdown, Goto
    <3> QED
        BY <3>1, <3>2
  <2>8. CASE Finish(d)
    <3>1. CASE c = d
      <4>1. pc'[c] = "returned"
            BY <2>8, <3>1 DEF Finish, Goto
      <4> QED
          BY <4>1 DEF WatchOf
    <3>2. CASE c # d
          BY <1>2, <2>8, <3>2 DEF Finish, Goto
    <3> QED
        BY <3>1, <3>2
  <2> QED
      BY <1>4, <2>1, <2>2, <2>3, <2>4, <2>5, <2>6, <2>7, <2>8 DEF ExchangeStep
<1>5. ASSUME NEW d \in Calls, Watchdog(d) PROVE WatchOf(c)'
  <2>1. pc' = pc
        BY <1>5 DEF Watchdog, WatchdogStart, WatchdogVerdict, WatchdogShutdown
  <2>2. CASE c # d
    <3>1. watchdog'[c] = watchdog[c]
          BY <1>5, <2>2 DEF Watchdog, WatchdogStart, WatchdogVerdict, WatchdogShutdown
    <3> QED
        BY <1>2, <2>1, <3>1
  <2>3. CASE c = d /\ WatchdogStart(d)
    <3>1. watchdog'[c] = "running"
          BY <2>3 DEF WatchdogStart
    <3> QED
        BY <1>1, <2>1, <3>1 DEF WatchOf
  <2>4. CASE c = d /\ WatchdogVerdict(d)
    <3>1. CASE verdict[c] = Pending
      <4>1. watchdog'[c] = "fired"
            BY <2>4, <3>1 DEF WatchdogVerdict
      <4>2. Condemned'
            BY <4>1 DEF Condemned
      <4> QED
          BY <1>1, <2>1, <4>2 DEF WatchOf
    <3>2. CASE verdict[c] # Pending
      <4>1. verdict[c] = Completed \/ verdict[c] = Expired
            BY <3>2 DEF Verdicts
      <4>2. pc[c] \in {"send", "await"} => Condemned
            BY <1>1, <4>1 DEF VerdictOf
      <4> QED
          BY <1>1, <2>1, <4>2 DEF WatchOf, Onward
    <3> QED
        BY <3>1, <3>2
  <2>5. CASE WatchdogShutdown(d)
    <3>1. phase' # "open"
          BY <2>5, ShutdownEntered DEF WatchdogShutdown
    <3> QED
        BY <3>1 DEF WatchOf, Condemned
  <2> QED
      BY <1>5, <2>2, <2>3, <2>4, <2>5 DEF Watchdog
<1>6. CASE KeepaliveTick
      BY <1>2, <1>6 DEF KeepaliveTick, Goto, Calls
<1>7. CASE CloseStep \/ Close \/ KeepaliveDone \/ KeepaliveOutcome
      BY <1>2, <1>7 DEF CloseStep, Close, KeepaliveDone, KeepaliveOutcome
<1>8. CASE ReadLoop \/ PeerAnswer \/ PeerReset
      BY <1>2, <1>8 DEF ReadLoop, ReadFrame, Deliver, ReadError, PeerAnswer, PeerReset
<1>9. CASE UNCHANGED vars
      BY <1>2, <1>9 DEF vars
<1> QED
    BY <1>3, <1>4, <1>5, <1>6, <1>7, <1>8, <1>9
    DEF Next, Probe, DeviceInfo, KeepaliveLoop, Terminated

\* No call is stranded: a token that is out is with a call that will put it
\* back, a write or a wait that the peer may never end is watched until the
\* connection is condemned, and who waits for shutdown has called it.  With the
\* fairness of goroutines and timers it is what BoundedCallReturns and
\* SilentPeerDetected take.
THEOREM StrandSafety == Spec => []NoneStranded
<1>1. Init => NoneStranded
      BY DEF Init, NoneStranded, TokenInv, WatchInv, WatchOf
<1>2. TypeOK /\ VerdictInv /\ NoneStranded /\ [Next]_vars => NoneStranded'
      BY TokenStep, WatchStep DEF NoneStranded
<1> QED
    BY <1>1, <1>2, TypeCorrect, VerdictCorrect, PTL DEF Spec
=============================================================================
