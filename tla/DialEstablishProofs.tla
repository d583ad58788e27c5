------------------------ MODULE DialEstablishProofs -------------------------
(***************************************************************************)
(* Proofs about DialEstablish and the MdnsLookup inside it, for any        *)
(* interfaces, any nondecreasing schedule, any timeouts and any horizon.   *)
(***************************************************************************)
EXTENDS DialEstablish, FiniteSetTheorems, TLAPS

\* The states of one worker.
Workers == [at : {"none", "write", "read", "send", "done"},
            retransmit : Nat, sent : Nat, result : {"none", "ip", "error"}]

\* The types of the clock's and the lookup's state.
LookupTypes ==
    /\ now \in Nat /\ timeout \in Nat
    /\ lookup \in {"idle", "collect", "found", "none", "answered", "failed"}
    /\ socket \in [Interfaces -> {"none", "open", "closed"}]
    /\ worker \in [Interfaces -> Workers]

\* Where an attempt that has a connection can be.
Connected == {"setDeadline", "handshake", "restore", "hello", "clear", "stop"}

\* The types of the attempt's and its context's state.
DialTypes ==
    /\ ctx \in {"live", "deadline", "canceled"}
    /\ transport \in Transports
    /\ pc \in Connected \cup {"policy", "dial", "returned"}
    /\ conn \in {"none", "open", "closed"}
    /\ connDeadline \in {0, timeout}
    /\ peerClosed \in BOOLEAN
    /\ closer \in {"none", "armed", "started", "ran", "stopped"}
    /\ result.kind \in {"none", "client", "error"}

\* Worker i has sent its query at every instant of the schedule that has
\* passed: time has not gone beyond the next one.
OnSchedule(i) ==
    /\ worker[i].at = "write" => now = 0 /\ worker[i].retransmit = 0
    /\ worker[i].at = "read" =>
          /\ worker[i].sent = worker[i].retransmit + 1
          /\ Retransmits(i) => now <= Schedule[worker[i].retransmit + 1]

\* What the lookup's progress says of worker i and its socket.
Accounted(i) ==
    /\ lookup # "collect" => socket[i] # "open"
    /\ lookup = "idle" => worker[i].at = "none"
    /\ lookup \in {"none", "failed"} => worker[i].at \in {"none", "done"}
    /\ lookup = "answered" => worker[i].at \notin {"write", "read"}
    /\ worker[i].at \in {"none", "write", "read"} => worker[i].result = "none"
    /\ lookup \notin {"found", "answered"} /\ worker[i].at = "done" =>
          worker[i].result # "ip"

\* The inductive invariant of the lookup.
LookupInv ==
    /\ lookup = "idle" => now = 0
    /\ \A i \in Interfaces : OnSchedule(i) /\ Accounted(i)

\* How far the lookup is while the attempt goes on.
ProgressInv ==
    /\ pc = "policy" => lookup = "idle"
    /\ pc \in Connected => lookup = "answered"
    /\ pc = "returned" => lookup \in {"idle", "answered", "failed"}

\* The connection and the AfterFunc that closes it: the AfterFunc has started
\* only if the context has ended, and nothing else closes the connection of
\* an attempt that goes on.
CloserInv ==
    /\ pc \in {"policy", "dial"} => conn = "none" /\ closer = "none"
    /\ pc \in Connected =>
          /\ closer \in {"armed", "started", "ran"}
          /\ conn = IF closer = "ran" THEN "closed" ELSE "open"
    /\ pc = "returned" => closer # "armed"
    /\ closer = "armed" => ctx = "live"
    /\ closer \in {"started", "ran"} => ctx # "live"
    /\ pc = "stop" => connDeadline = 0

\* What the attempt has returned.
ResultInv ==
    /\ pc # "returned" => result = NoResult
    /\ pc = "returned" =>
          /\ result.kind = "client" =>
                conn = "open" /\ connDeadline = 0 /\ closer = "stopped" /\ result.at = "none"
          /\ result.kind = "error" => conn # "open"
          /\ result.kind # "none"
    /\ DeadlineNamed

DialInv == ProgressInv /\ CloserInv /\ ResultInv

-----------------------------------------------------------------------------
(* The lookup.                                                             *)

\* The steps of the attempt, its context and its peer outside the lookup.
DialStep ==
    \/ CheckPolicy \/ DialError \/ Dial \/ SetDeadline \/ Handshake
    \/ RestoreDeadline \/ Hello \/ ClearDeadline \/ StopEstablishmentClose
    \/ KeyError \/ CloseConn \/ PeerMisbehaves
    \/ \E io \in {"closed", "deadline"} : HandshakeError(io) \/ HelloError(io)
    \/ \E cause \in {"deadline", "canceled"} : EndContext(cause)

\* The steps of the lookup and of the network, which leave the attempt alone.
LookupStep ==
    \/ LookupCall /\ pc = "dial"
    \/ \E i \in Interfaces : Worker(i)
    \/ ContextClose
    \/ \E i \in Interfaces, p \in {"answer", "unrelated"} : Multicast(i, p)

\* The steps, one by one.
LEMMA Steps ==
    ASSUME [Next]_vars
    PROVE  \/ LookupStep /\ UNCHANGED <<contextVars, dialVars>>
           \/ DialStep /\ UNCHANGED <<now, timeout, lookupVars>>
           \/ Tick
           \/ UNCHANGED vars
<1>1. ASSUME DialStep PROVE UNCHANGED <<now, timeout, lookupVars>>
      BY <1>1 DEF DialStep, contextVars, CheckPolicy, DialError, Dial, SetDeadline,
         Handshake, RestoreDeadline, Hello, ClearDeadline, StopEstablishmentClose,
         KeyError, CloseConn, PeerMisbehaves, HandshakeError, HelloError,
         EndContext, Abandon
<1>2. CASE DialWithContext
      BY <1>1, <1>2 DEF DialWithContext, DialStep, LookupStep, Lookup
<1>3. CASE ~DialWithContext
      BY <1>1, <1>3 DEF Next, DialStep, LookupStep
<1> QED
    BY <1>2, <1>3

\* The steps of the lookup keep its types.
LEMMA LookupTypesStep ==
    LookupTypes /\ [Next]_vars => LookupTypes'
<1> SUFFICES ASSUME LookupTypes, [Next]_vars PROVE LookupTypes'
    OBVIOUS
<1>1. ASSUME UNCHANGED <<now, timeout, lookup, socket, worker>> PROVE LookupTypes'
      BY <1>1 DEF LookupTypes
<1>2. CASE LookupStep /\ UNCHANGED <<contextVars, dialVars>>
  <2>0. /\ NewWorker \in Workers
        /\ [NewWorker EXCEPT !.at = "write"] \in Workers
        /\ \A r \in {"ip", "error"} :
              [NewWorker EXCEPT !.at = "send", !.result = r] \in Workers
        BY DEF NewWorker, Workers
  <2>1. now' = now /\ timeout' = timeout
        BY <1>2 DEF contextVars
  <2>2. ASSUME CloseSockets
        PROVE  socket' \in [Interfaces -> {"none", "open", "closed"}]
        BY <2>2 DEF CloseSockets, LookupTypes
  <2>3. CASE OpenSockets
        BY <2>0, <2>1, <2>3 DEF OpenSockets, LookupTypes
  <2>4. CASE LookupRefused
        BY <2>1, <2>4 DEF LookupRefused, LookupTypes
  <2>5. CASE Collect
    <3>1. worker' \in [Interfaces -> Workers]
          BY <2>5 DEF Collect, LookupTypes, Workers
    <3> QED
        BY <2>1, <2>2, <2>5, <3>1 DEF Collect, LookupTypes
  <2>6. CASE WaitWorkers
        BY <2>1, <2>6 DEF WaitWorkers, LookupTypes
  <2>7. ASSUME NEW i \in Interfaces, Worker(i) PROVE LookupTypes'
    <3>1. ASSUME NEW r \in {"ip", "error"}, Result(i, r)
          PROVE  worker' \in [Interfaces -> Workers]
          BY <2>0, <3>1 DEF Result, LookupTypes
    <3>2. worker' \in [Interfaces -> Workers] /\ UNCHANGED <<lookup, socket>>
      <4>1. CASE FirstQuery(i)
            BY <3>1, <4>1 DEF FirstQuery, LookupTypes, Workers
      <4>2. CASE ReadPacket(i)
            BY <3>1, <4>2 DEF ReadPacket, LookupTypes
      <4>3. CASE ReadTimeout(i)
            BY <3>1, <4>3 DEF ReadTimeout, LookupTypes, Workers
      <4>4. CASE ReadClosed(i)
            BY <3>1, <4>4 DEF ReadClosed
      <4> QED
          BY <2>7, <4>1, <4>2, <4>3, <4>4 DEF Worker
    <3> QED
        BY <2>1, <3>2 DEF LookupTypes
  <2>8. CASE ContextClose
        BY <2>1, <2>2, <2>8 DEF ContextClose, LookupTypes
  <2>9. CASE \E i \in Interfaces, p \in {"answer", "unrelated"} : Multicast(i, p)
        BY <1>1, <2>1, <2>9 DEF Multicast
  <2> QED
      BY <1>2, <2>3, <2>4, <2>5, <2>6, <2>7, <2>8, <2>9 DEF LookupStep, LookupCall
<1>3. CASE DialStep /\ UNCHANGED <<now, timeout, lookupVars>>
      BY <1>1, <1>3 DEF lookupVars
<1>4. CASE Tick
      BY <1>4 DEF Tick, lookupVars, LookupTypes
<1>5. CASE UNCHANGED vars
      BY <1>1, <1>5 DEF vars, lookupVars, contextVars
<1> QED
    BY <1>2, <1>3, <1>4, <1>5, Steps

\* A step of worker i: an error or an answer is handed over, the query is
\* sent, or nothing changes; the schedule goes on from where it was.
LEMMA WorkerEffect ==
    ASSUME LookupTypes, LookupInv, NEW i \in Interfaces, Worker(i)
    PROVE  /\ worker[i].at \in {"write", "read"}
           /\ UNCHANGED <<lookup, socket>>
           /\ \A j \in Interfaces : j # i => worker'[j] = worker[j]
           /\ \/ worker'[i].at = "send"
              \/ worker'[i] = worker[i]
              \/ /\ worker'[i].at = "read" /\ worker'[i].result = worker[i].result
                 /\ worker'[i].sent = worker'[i].retransmit + 1
                 /\ \/ worker'[i].retransmit = 0 /\ now = 0
                    \/ /\ worker'[i].retransmit = worker[i].retransmit + 1
                       /\ worker[i].at = "read" /\ Retransmits(i)
<1>1. ASSUME NEW r, Result(i, r)
      PROVE  worker'[i].at = "send" /\ \A j \in Interfaces : j # i => worker'[j] = worker[j]
      BY <1>1 DEF Result, NewWorker, LookupTypes
<1>2. CASE FirstQuery(i)
  <2>1. worker[i].at = "write" /\ now = 0 /\ UNCHANGED <<lookup, socket>>
        BY <1>2 DEF FirstQuery, LookupInv, OnSchedule
  <2>2. CASE worker' = [worker EXCEPT ![i].at = "read", ![i].sent = 1]
    <3>1. /\ worker'[i] = [worker[i] EXCEPT !.at = "read", !.sent = 1]
          /\ \A j \in Interfaces : j # i => worker'[j] = worker[j]
          BY <2>2 DEF LookupTypes
    <3>2. worker[i].retransmit = 0
          BY <2>1 DEF LookupInv, OnSchedule
    <3> QED
        BY <2>1, <3>1, <3>2 DEF LookupTypes, Workers
  <2> QED
      BY <1>1, <1>2, <2>1, <2>2 DEF FirstQuery
<1>3. CASE ReadPacket(i)
      BY <1>1, <1>3 DEF ReadPacket
<1>4. CASE ReadTimeout(i)
  <2>1. worker[i].at = "read" /\ UNCHANGED <<lookup, socket>>
        BY <1>4 DEF ReadTimeout
  <2>2. CASE /\ Retransmits(i)
             /\ worker' = [worker EXCEPT ![i].retransmit = @ + 1, ![i].sent = @ + 1]
    <3>1. /\ worker'[i] = [worker[i] EXCEPT !.retransmit = @ + 1, !.sent = @ + 1]
          /\ \A j \in Interfaces : j # i => worker'[j] = worker[j]
          BY <2>2 DEF LookupTypes
    <3>2. worker[i].sent = worker[i].retransmit + 1
          BY <2>1 DEF LookupInv, OnSchedule
    <3> QED
        BY <2>1, <2>2, <3>1, <3>2 DEF LookupTypes, Workers
  <2> QED
      BY <1>1, <1>4, <2>1, <2>2 DEF ReadTimeout
<1>5. CASE ReadClosed(i)
      BY <1>1, <1>5 DEF ReadClosed
<1> QED
    BY <1>2, <1>3, <1>4, <1>5 DEF Worker

\* Workers keep to the schedule, and the lookup accounts for every worker.
LEMMA LookupInvStep ==
    LookupTypes /\ LookupInv /\ [Next]_vars => LookupInv'
<1> SUFFICES ASSUME LookupTypes, LookupInv, [Next]_vars PROVE LookupInv'
    OBVIOUS
<1>0. /\ now \in Nat /\ Len(Schedule) \in Nat
      /\ \A k \in 1..Len(Schedule) : Schedule[k] \in Nat \ {0}
      /\ \A j, k \in 1..Len(Schedule) : j < k => Schedule[j] <= Schedule[k]
      BY LookupAssumption DEF LookupTypes
<1>1. ASSUME UNCHANGED <<now, timeout, lookup, socket, worker>> PROVE LookupInv'
      BY <1>1 DEF LookupInv, OnSchedule, Accounted, Retransmits, LookupDeadline
<1>2. \* A worker that is left alone, or has handed over its result, is on schedule.
      ASSUME NEW i \in Interfaces, UNCHANGED <<now, timeout>>,
             worker'[i] = worker[i] \/ worker'[i].at \in {"none", "send", "done"}
      PROVE  OnSchedule(i)'
      BY <1>2 DEF LookupInv, OnSchedule, Retransmits, LookupDeadline
<1>3. CASE LookupStep /\ UNCHANGED <<contextVars, dialVars>>
  <2>1. now' = now /\ timeout' = timeout
        BY <1>3 DEF contextVars
  <2>2. ASSUME CloseSockets
        PROVE  \A i \in Interfaces : socket'[i] # "open"
        BY <2>2 DEF CloseSockets, LookupTypes
  <2>3. CASE OpenSockets
    <3>1. lookup = "idle" /\ now = 0 /\ lookup' \in {"failed", "collect"}
          BY <2>3 DEF OpenSockets, LookupInv
    <3>2. ASSUME NEW i \in Interfaces
          PROVE  /\ worker'[i].result = "none"
                 /\ \/ worker'[i].at = "none" /\ socket'[i] = "none"
                    \/ /\ worker'[i].at = "write" /\ worker'[i].retransmit = 0
                       /\ lookup' = "collect"
          BY <2>3 DEF OpenSockets, NewWorker
    <3> QED
        BY <2>1, <3>1, <3>2 DEF LookupInv, OnSchedule, Accounted
  <2>4. CASE LookupRefused
    <3>1. lookup = "idle" /\ lookup' = "failed" /\ UNCHANGED <<socket, worker>>
          BY <2>4 DEF LookupRefused
    <3> QED
        BY <1>2, <2>1, <3>1 DEF LookupInv, Accounted
  <2>5. CASE Collect
    <3>1. PICK i \in Interfaces :
            /\ worker[i].at = "send" /\ lookup = "collect"
            /\ worker' = [worker EXCEPT ![i].at = "done"]
            /\ \/ worker[i].result = "ip" /\ CloseSockets /\ lookup' = "found"
               \/ /\ worker[i].result # "ip" /\ CloseSockets /\ lookup' = "none"
                  /\ \A j \in Interfaces \ {i} : worker[j].at \in {"done", "none"}
               \/ worker[i].result # "ip" /\ UNCHANGED <<socket, lookup>>
          BY <2>5 DEF Collect
    <3>2. /\ worker'[i].at = "done" /\ worker'[i].result = worker[i].result
          /\ \A j \in Interfaces : j # i => worker'[j] = worker[j]
          BY <3>1 DEF LookupTypes, Workers
    <3>3. \A j \in Interfaces : OnSchedule(j)'
          BY <1>2, <2>1, <3>2
    <3>4. \A j \in Interfaces : Accounted(j)'
          BY <2>2, <3>1, <3>2 DEF LookupInv, Accounted
    <3> QED
        BY <3>1, <3>3, <3>4 DEF LookupInv
  <2>6. CASE WaitWorkers
    <3>1. /\ lookup \in {"found", "none"} /\ UNCHANGED <<socket, worker>>
          /\ lookup' = IF lookup = "found" THEN "answered" ELSE "failed"
          /\ \A i \in Interfaces : worker[i].at \in {"send", "done", "none"}
          BY <2>6 DEF WaitWorkers
    <3> QED
        BY <1>2, <2>1, <3>1 DEF LookupInv, Accounted
  <2>7. ASSUME NEW i \in Interfaces, Worker(i) PROVE LookupInv'
    <3>1. /\ worker[i].at \in {"write", "read"} /\ UNCHANGED <<lookup, socket>>
          /\ \A j \in Interfaces : j # i => worker'[j] = worker[j]
          BY <2>7, WorkerEffect
    <3>2. \/ worker'[i].at = "send" \/ worker'[i] = worker[i]
          \/ worker'[i].at = "read" /\ worker'[i].result = worker[i].result
          BY <2>7, WorkerEffect
    <3>3. lookup \in {"collect", "found"}
          BY <3>1 DEF LookupInv, Accounted, LookupTypes
    <3>4. \A j \in Interfaces : Accounted(j)'
          BY <3>1, <3>2, <3>3 DEF LookupInv, Accounted
    <3>5. OnSchedule(i)'
      <4>1. CASE worker'[i].at = "send" \/ worker'[i] = worker[i]
            BY <1>2, <2>1, <4>1
      <4>2. CASE /\ worker'[i].at = "read" /\ worker'[i].sent = worker'[i].retransmit + 1
                 /\ worker'[i].retransmit = 0 /\ now = 0
        <5>1. Retransmits(i)' => 1 \in 1..Len(Schedule)
              BY <1>0, <4>2 DEF Retransmits
        <5> QED
            BY <1>0, <2>1, <4>2, <5>1 DEF OnSchedule
      <4>3. CASE /\ worker'[i].at = "read" /\ worker'[i].sent = worker'[i].retransmit + 1
                 /\ worker'[i].retransmit = worker[i].retransmit + 1
                 /\ worker[i].at = "read" /\ Retransmits(i)
        <5> DEFINE r == worker[i].retransmit
        <5>1. r \in Nat /\ now <= Schedule[r + 1]
              BY <4>3 DEF LookupTypes, Workers, LookupInv, OnSchedule
        <5>2. Retransmits(i)' => r + 1 < Len(Schedule)
              BY <4>3 DEF Retransmits
        <5> HIDE DEF r
        <5>3. Retransmits(i)' => now <= Schedule[(r + 1) + 1]
              BY <1>0, <5>1, <5>2
        <5> QED
            BY <2>1, <4>3, <5>1, <5>3 DEF OnSchedule, r
      <4> QED
          BY <2>7, <4>1, <4>2, <4>3, WorkerEffect
    <3>6. \A j \in Interfaces : OnSchedule(j)'
          BY <1>2, <2>1, <3>1, <3>5
    <3> QED
        BY <3>3, <3>1, <3>4, <3>6 DEF LookupInv
  <2>8. CASE ContextClose
    <3>1. lookup = "collect" /\ UNCHANGED <<lookup, worker>> /\ CloseSockets
          BY <2>8 DEF ContextClose
    <3> QED
        BY <1>2, <2>1, <3>1 DEF LookupInv, Accounted
  <2>9. CASE \E i \in Interfaces, p \in {"answer", "unrelated"} : Multicast(i, p)
        BY <1>1, <2>1, <2>9 DEF Multicast
  <2> QED
      BY <1>3, <2>3, <2>4, <2>5, <2>6, <2>7, <2>8, <2>9 DEF LookupStep, LookupCall
<1>4. CASE Tick
  <2>1. /\ now' = now + 1 /\ UNCHANGED <<timeout, lookup, socket, worker>>
        /\ lookup # "idle" /\ \A i \in Interfaces : ~Due(i)
        BY <1>4 DEF Tick, lookupVars
  <2>2. ASSUME NEW i \in Interfaces PROVE OnSchedule(i)' /\ Accounted(i)'
    <3>1. Accounted(i)'
          BY <2>1 DEF LookupInv, Accounted
    <3>2. worker[i].at # "write"
          BY <2>1 DEF Due
    <3>3. ASSUME worker[i].at = "read", Retransmits(i)
          PROVE  now + 1 <= Schedule[worker[i].retransmit + 1]
      <4>1. ~(now >= Schedule[worker[i].retransmit + 1])
            BY <2>1, <3>3 DEF Due, ReadDeadline
      <4>2. worker[i].retransmit + 1 \in 1..Len(Schedule)
            BY <1>0, <3>3 DEF Retransmits, LookupTypes, Workers
      <4> QED
          BY <1>0, <4>1, <4>2
    <3>4. Retransmits(i)' = Retransmits(i)
          BY <2>1 DEF Retransmits, LookupDeadline
    <3> QED
        BY <2>1, <3>1, <3>2, <3>3, <3>4 DEF LookupInv, OnSchedule
  <2> QED
      BY <2>1, <2>2 DEF LookupInv
<1>5. CASE DialStep /\ UNCHANGED <<now, timeout, lookupVars>>
      BY <1>1, <1>5 DEF lookupVars
<1>6. CASE UNCHANGED vars
      BY <1>1, <1>6 DEF vars, lookupVars, contextVars
<1> QED
    BY <1>3, <1>4, <1>5, <1>6, Steps

\* The types and the accounts of the lookup, in every reachable state.
LEMMA LookupCorrect == Spec => [](LookupTypes /\ LookupInv)
<1>1. Init => LookupTypes /\ LookupInv
  <2> SUFFICES ASSUME Init PROVE LookupTypes /\ LookupInv
      OBVIOUS
  <2>1. LookupTypes
        BY DialAssumption DEF Init, InitLookup, LookupTypes, NewWorker, Workers
  <2>2. LookupInv
        BY DEF Init, InitLookup, LookupInv, OnSchedule, Accounted, NewWorker
  <2> QED
      BY <2>1, <2>2
<1> QED
    BY <1>1, LookupTypesStep, LookupInvStep, PTL DEF Spec

\* A lookup does not give up early: a worker that waits has repeated its
\* query at every instant of the schedule that passed, and a lookup that
\* fails has no answer.
THEOREM LookupSafety == Spec => []LookupThorough
<1>1. LookupTypes /\ LookupInv => LookupThorough
  <2> SUFFICES ASSUME LookupTypes, LookupInv PROVE LookupThorough
      OBVIOUS
  <2>0. /\ now \in Nat /\ timeout \in Nat /\ Len(Schedule) \in Nat
        /\ DOMAIN Schedule = 1..Len(Schedule)
        /\ \A k \in 1..Len(Schedule) : Schedule[k] \in Nat
        /\ \A j, k \in 1..Len(Schedule) : j < k => Schedule[j] <= Schedule[k]
        /\ LookupDeadline \in Nat
        BY LookupAssumption DEF LookupTypes, LookupDeadline
  <2>1. ASSUME NEW i \in Interfaces, worker[i].at = "read"
        PROVE  worker[i].sent >= 1 + Cardinality(Repeats)
    <3> DEFINE r == worker[i].retransmit
    <3>1. r \in Nat /\ worker[i].sent = r + 1
          BY <2>1 DEF LookupTypes, Workers, LookupInv, OnSchedule
    <3>2. r < Len(Schedule) =>
             now <= Schedule[r + 1] \/ LookupDeadline <= Schedule[r + 1]
      <4>1. CASE Retransmits(i)
            BY <2>1, <4>1 DEF LookupInv, OnSchedule
      <4>2. CASE ~Retransmits(i) /\ r < Len(Schedule)
        <5>1. r + 1 \in 1..Len(Schedule) /\ ~(Schedule[r + 1] < LookupDeadline)
              BY <2>0, <3>1, <4>2 DEF Retransmits
        <5> QED
            BY <2>0, <5>1
      <4> QED
          BY <4>1, <4>2
    <3> HIDE DEF r
    <3>3. ASSUME NEW k \in Repeats PROVE k \in 1..r
      <4>1. /\ k \in 1..Len(Schedule)
            /\ Schedule[k] < now /\ Schedule[k] < LookupDeadline
            BY <2>0 DEF Repeats
      <4>2. ASSUME k > r PROVE FALSE
        <5>1. /\ r + 1 \in 1..Len(Schedule) /\ r < Len(Schedule)
              /\ r + 1 = k \/ r + 1 < k
              BY <2>0, <3>1, <4>1, <4>2
        <5>2. Schedule[r + 1] <= Schedule[k]
              BY <2>0, <4>1, <5>1
        <5> QED
            BY <2>0, <3>2, <4>1, <5>1, <5>2
      <4> QED
          BY <2>0, <3>1, <4>1, <4>2
    <3>4. IsFiniteSet(1..r) /\ Cardinality(1..r) = r
      <4>1. 1 \in Int /\ r \in Int /\ r \in Nat
            BY <3>1
      <4>2. /\ IsFiniteSet(1..r)
            /\ Cardinality(1..r) = IF 1 > r THEN 0 ELSE r - 1 + 1
            BY <4>1, FS_Interval
      <4> QED
          BY <4>1, <4>2
    <3>5. Cardinality(Repeats) <= r /\ Cardinality(Repeats) \in Nat
          BY <3>3, <3>4, FS_Subset, FS_CardinalityType
    <3> QED
        BY <3>1, <3>5
  <2>2. lookup = "failed" => \A i \in Interfaces : worker[i].result # "ip"
        BY DEF LookupInv, Accounted
  <2> QED
      BY <2>1, <2>2 DEF LookupThorough
<1> QED
    BY <1>1, LookupCorrect, PTL

-----------------------------------------------------------------------------
(* The attempt.                                                            *)

\* What Return does.
LEMMA ReturnEffect ==
    ASSUME DialTypes, CloserInv, NEW r, Return(r)
    PROVE  /\ pc' = "returned" /\ result' = r
           /\ closer' = IF closer = "armed" THEN "stopped" ELSE closer
           /\ ctx' \in {"deadline", "canceled"}
           /\ closer' # "armed"
  BY DEF DialTypes, Return, Stopped, Cancelled

\* What Abandon does.
LEMMA AbandonEffect ==
    ASSUME DialTypes, CloserInv, NEW io, NEW cause, Abandon(io, cause)
    PROVE  /\ pc' = "returned" /\ conn' = "closed"
           /\ result' = [kind |-> "error", at |-> pc, io |-> io, cause |-> cause]
           /\ closer' = IF closer = "armed" THEN "stopped" ELSE closer
           /\ ctx' \in {"deadline", "canceled"}
           /\ UNCHANGED <<timeout, lookup, transport, connDeadline, peerClosed>>
  BY ReturnEffect DEF Abandon, Error, lookupVars

\* An attempt that is abandoned keeps the invariant if the error it returns
\* names a deadline that ended the handshake or Hello.
LEMMA AbandonStep ==
    ASSUME LookupTypes, DialTypes, DialInv, NEW io, NEW cause, Abandon(io, cause),
           pc \in Connected,
           /\ pc \in {"handshake", "hello"}
           /\ io = "deadline" \/ (io = "closed" /\ ~peerClosed)
           => cause # "none"
    PROVE  DialTypes' /\ DialInv'
<1>1. /\ pc' = "returned" /\ conn' = "closed"
      /\ result' = [kind |-> "error", at |-> pc, io |-> io, cause |-> cause]
      /\ closer' = IF closer = "armed" THEN "stopped" ELSE closer
      /\ ctx' \in {"deadline", "canceled"}
      /\ UNCHANGED <<timeout, lookup, transport, connDeadline, peerClosed>>
      BY AbandonEffect DEF DialInv
<1>2. DialTypes'
      BY <1>1 DEF DialTypes
<1>3. ProgressInv' /\ CloserInv'
      BY <1>1 DEF DialInv, ProgressInv, CloserInv, DialTypes, Connected
<1>4. ResultInv'
      BY <1>1 DEF ResultInv, DeadlineNamed
<1> QED
    BY <1>2, <1>3, <1>4 DEF DialInv

\* A handshake or Hello that fails because of a deadline, or on a connection
\* that the peer did not close, has a cause.
LEMMA CauseNamed ==
    ASSUME LookupTypes, DialTypes, DialInv, pc \in {"handshake", "hello"},
           NEW io, IOError(io), io = "deadline" \/ (io = "closed" /\ ~peerClosed)
    PROVE  EstablishmentCause(io) # "none"
<1>1. CASE io = "deadline"
      BY <1>1 DEF IOError, Expired, EstablishmentCause, DialTypes, LookupTypes
<1>2. CASE io = "closed"
  <2>1. closer = "ran"
        BY <1>2 DEF IOError, DialInv, CloserInv, Connected
  <2> QED
      BY <2>1 DEF DialInv, CloserInv, EstablishmentCause, DialTypes
<1> QED
    BY <1>1, <1>2

\* The attempt goes on, with the connection and the AfterFunc as they are.
LEMMA GoOnStep ==
    ASSUME LookupTypes, DialTypes, DialInv,
           UNCHANGED <<timeout, ctx, lookup, transport, conn, closer, result>>,
           pc \in Connected, pc' \in Connected, connDeadline' \in {0, timeout},
           pc' = "stop" => connDeadline' = 0, peerClosed' = peerClosed
    PROVE  DialTypes' /\ DialInv'
<1>1. DialTypes'
      BY DEF DialTypes
<1>2. ProgressInv' /\ CloserInv'
      BY DEF DialInv, ProgressInv, CloserInv, Connected
<1>3. ResultInv'
      BY DEF DialInv, ResultInv, DeadlineNamed, Connected, NoResult
<1> QED
    BY <1>1, <1>2, <1>3 DEF DialInv

\* A step of the attempt, its context or its peer keeps the invariant.
LEMMA AttemptStep ==
    ASSUME LookupTypes, DialTypes, DialInv, DialStep,
           UNCHANGED <<now, timeout, lookupVars>>
    PROVE  DialTypes' /\ DialInv'
<1> USE DEF contextVars, lookupVars
<1>0. timeout \in Nat
      BY DEF LookupTypes
<1>1. CASE CheckPolicy
  <2>1. CASE transport = "conflict"
    <3>1. /\ Return(Error("policy", "none")) /\ pc = "policy"
          /\ UNCHANGED <<transport, conn, connDeadline, peerClosed>>
          BY <1>1, <2>1 DEF CheckPolicy
    <3>2. /\ pc' = "returned" /\ result' = Error("policy", "none")
          /\ closer' = IF closer = "armed" THEN "stopped" ELSE closer
          /\ ctx' \in {"deadline", "canceled"}
          BY <3>1, ReturnEffect DEF DialInv
    <3> QED
        BY <3>1, <3>2 DEF DialTypes, DialInv, ProgressInv, CloserInv, ResultInv,
           DeadlineNamed, Error, Connected
  <2>2. CASE transport # "conflict"
        BY <1>1, <2>2 DEF CheckPolicy, DialTypes, DialInv, ProgressInv, CloserInv,
           ResultInv, DeadlineNamed, Connected
  <2> QED
      BY <2>1, <2>2
<1>2. CASE DialError
  <2>1. /\ Return(Error("dial", "none")) /\ pc = "dial"
        /\ lookup \in {"answered", "failed"}
        /\ UNCHANGED <<transport, conn, connDeadline, peerClosed>>
        BY <1>2 DEF DialError
  <2>2. /\ pc' = "returned" /\ result' = Error("dial", "none")
        /\ closer' = IF closer = "armed" THEN "stopped" ELSE closer
        /\ ctx' \in {"deadline", "canceled"}
        BY <2>1, ReturnEffect DEF DialInv
  <2> QED
      BY <2>1, <2>2 DEF DialTypes, DialInv, ProgressInv, CloserInv, ResultInv,
         DeadlineNamed, Error, Connected
<1>3. CASE Dial
  <2>1. /\ pc = "dial" /\ pc' = "setDeadline" /\ lookup = "answered" /\ conn' = "open"
        /\ closer' = IF ctx = "live" THEN "armed" ELSE "started"
        /\ UNCHANGED <<ctx, transport, connDeadline, peerClosed, result>>
        BY <1>3 DEF Dial
  <2> QED
      BY <2>1 DEF DialTypes, DialInv, ProgressInv, CloserInv, ResultInv,
         DeadlineNamed, Connected
<1>4. CASE SetDeadline
  <2>1. CASE Abandon("closed", "none")
        BY <1>4, <2>1, AbandonStep DEF SetDeadline, Connected
  <2>2. CASE ~Abandon("closed", "none")
        BY <1>4, <2>2, GoOnStep DEF SetDeadline, Connected
  <2> QED
      BY <2>1, <2>2
<1>5. CASE Handshake
      BY <1>5, GoOnStep DEF Handshake, Connected, DialTypes
<1>6. CASE RestoreDeadline
  <2>1. CASE Abandon("closed", "none")
        BY <1>6, <2>1, AbandonStep DEF RestoreDeadline, Connected
  <2>2. CASE ~Abandon("closed", "none")
        BY <1>6, <2>2, GoOnStep DEF RestoreDeadline, Connected
  <2> QED
      BY <2>1, <2>2
<1>7. CASE Hello
      BY <1>7, GoOnStep DEF Hello, Connected, DialTypes
<1>8. CASE ClearDeadline
  <2>1. CASE Abandon("closed", "none")
        BY <1>8, <2>1, AbandonStep DEF ClearDeadline, Connected
  <2>2. CASE ~Abandon("closed", "none")
        BY <1>8, <2>2, GoOnStep DEF ClearDeadline, Connected
  <2> QED
      BY <2>1, <2>2
<1>9. CASE StopEstablishmentClose
  <2>1. CASE closer = "armed"
    <3>1. /\ pc = "stop" /\ Return([NoResult EXCEPT !.kind = "client"])
          /\ UNCHANGED <<transport, conn, connDeadline, peerClosed>>
          BY <1>9, <2>1 DEF StopEstablishmentClose
    <3>2. /\ pc' = "returned" /\ closer' = "stopped"
          /\ result' = [NoResult EXCEPT !.kind = "client"]
          /\ ctx' \in {"deadline", "canceled"}
          BY <2>1, <3>1, ReturnEffect DEF DialInv
    <3>3. conn = "open" /\ connDeadline = 0 /\ lookup = "answered"
          BY <2>1, <3>1 DEF DialInv, CloserInv, ProgressInv, Connected
    <3> QED
        BY <3>1, <3>2, <3>3 DEF DialTypes, DialInv, ProgressInv, CloserInv,
           ResultInv, DeadlineNamed, NoResult, Connected
  <2>2. CASE closer # "armed"
    <3>1. pc = "stop" /\ Abandon("closed", ctx)
          BY <1>9, <2>2 DEF StopEstablishmentClose
    <3> QED
        BY <3>1, AbandonStep DEF Connected
  <2> QED
      BY <2>1, <2>2
<1>10. CASE KeyError
      BY <1>10, AbandonStep DEF KeyError, Connected
<1>11. ASSUME NEW io \in {"closed", "deadline", "protocol"},
              HandshakeError(io) \/ HelloError(io)
       PROVE  DialTypes' /\ DialInv'
  <2>1. /\ pc \in {"handshake", "hello"} /\ IOError(io)
        /\ Abandon(io, EstablishmentCause(io))
        BY <1>11 DEF HandshakeError, HelloError
  <2>2. io = "deadline" \/ (io = "closed" /\ ~peerClosed)
            => EstablishmentCause(io) # "none"
        BY <2>1, CauseNamed
  <2>3. pc \in Connected
        BY <2>1 DEF Connected
  <2> QED
      BY <2>1, <2>2, <2>3, AbandonStep
<1>12. CASE CloseConn
  <2>1. /\ closer = "started" /\ closer' = "ran" /\ conn' = "closed"
        /\ UNCHANGED <<ctx, transport, pc, connDeadline, peerClosed, result>>
        BY <1>12 DEF CloseConn
  <2> QED
      BY <2>1 DEF DialTypes, DialInv, ProgressInv, CloserInv, ResultInv,
         DeadlineNamed, Connected
<1>13. CASE PeerMisbehaves
  <2>1. CASE HandshakeError("protocol") \/ HelloError("protocol")
        BY <1>11, <2>1
  <2>2. CASE /\ conn = "open" /\ peerClosed' = TRUE
             /\ UNCHANGED <<ctx, transport, pc, conn, connDeadline, closer, result>>
        BY <2>2 DEF DialTypes, DialInv, ProgressInv, CloserInv, ResultInv,
           DeadlineNamed, Connected, NoResult
  <2> QED
      BY <1>13, <2>1, <2>2 DEF PeerMisbehaves
<1>14. ASSUME NEW cause \in {"deadline", "canceled"}, EndContext(cause)
       PROVE  DialTypes' /\ DialInv'
  <2>1. /\ ctx = "live" /\ pc # "returned" /\ ctx' = cause
        /\ closer' = IF closer = "armed" THEN "started" ELSE closer
        /\ UNCHANGED <<transport, pc, conn, connDeadline, peerClosed, result>>
        BY <1>14 DEF EndContext
  <2> QED
      BY <2>1 DEF DialTypes, DialInv, ProgressInv, CloserInv, ResultInv,
         DeadlineNamed, Connected
<1> QED
    BY <1>1, <1>2, <1>3, <1>4, <1>5, <1>6, <1>7, <1>8, <1>9, <1>10, <1>11,
       <1>12, <1>13, <1>14 DEF DialStep

\* A step of the lookup keeps the attempt's invariant: once the attempt has a
\* connection or has returned, the lookup is over.
LEMMA LookupKeeps ==
    ASSUME LookupTypes, LookupInv, DialTypes, DialInv, LookupStep,
           UNCHANGED <<contextVars, dialVars>>
    PROVE  DialTypes' /\ DialInv'
<1> USE DEF contextVars, dialVars
<1>1. lookup' = lookup \/ pc = "dial"
  <2>1. ASSUME NEW i \in Interfaces, Worker(i) PROVE lookup' = lookup
        BY <2>1, WorkerEffect
  <2> QED
      BY <2>1 DEF LookupStep, ContextClose, Multicast
<1>2. DialTypes' /\ CloserInv' /\ ResultInv'
      BY DEF DialTypes, DialInv, CloserInv, ResultInv, DeadlineNamed
<1>3. ProgressInv'
      BY <1>1 DEF DialInv, ProgressInv, Connected
<1> QED
    BY <1>2, <1>3 DEF DialInv

\* The attempt, in every reachable state.
LEMMA DialCorrect == Spec => [](LookupTypes /\ LookupInv /\ DialTypes /\ DialInv)
<1>1. Init => DialTypes /\ DialInv
  <2> SUFFICES ASSUME Init PROVE DialTypes /\ DialInv
      OBVIOUS
  <2>1. /\ lookup = "idle" /\ ctx = "live" /\ pc = "policy" /\ transport \in Transports
        /\ conn = "none" /\ connDeadline = 0 /\ peerClosed = FALSE
        /\ closer = "none" /\ result = NoResult
        BY DEF Init, InitLookup
  <2>2. DialTypes
        BY <2>1 DEF DialTypes, NoResult
  <2>3. ProgressInv /\ CloserInv /\ ResultInv
        BY <2>1 DEF ProgressInv, CloserInv, ResultInv, DeadlineNamed, Connected
  <2> QED
      BY <2>2, <2>3 DEF DialInv
<1>2. LookupTypes /\ LookupInv /\ DialTypes /\ DialInv /\ [Next]_vars
          => DialTypes' /\ DialInv'
  <2> SUFFICES ASSUME LookupTypes, LookupInv, DialTypes, DialInv, [Next]_vars
               PROVE  DialTypes' /\ DialInv'
      OBVIOUS
  <2>1. ASSUME UNCHANGED <<timeout, ctx, lookup, dialVars>>
        PROVE  DialTypes' /\ DialInv'
        BY <2>1 DEF dialVars, DialTypes, DialInv, ProgressInv, CloserInv,
           ResultInv, DeadlineNamed
  <2>2. CASE Tick \/ UNCHANGED vars
        BY <2>1, <2>2 DEF Tick, vars, contextVars, lookupVars
  <2> QED
      BY <2>2, Steps, AttemptStep, LookupKeeps
<1> QED
    BY <1>1, <1>2, LookupCorrect, PTL DEF Spec

\* The types of an attempt's state.
THEOREM TypeCorrect == Spec => [](LookupTypes /\ DialTypes)
  BY DialCorrect, PTL

\* A client that was returned keeps an open connection without a deadline,
\* which no late end of the establishment closes; a failed attempt leaves no
\* connection, and neither leaves a socket or a worker.
THEOREM OutcomeSafety == Spec => []OutcomeClean
<1>1. LookupTypes /\ LookupInv /\ DialTypes /\ DialInv => OutcomeClean
  <2> SUFFICES ASSUME LookupInv, DialInv, pc = "returned"
               PROVE  /\ result.kind = "client" =>
                            conn = "open" /\ connDeadline = 0 /\ closer = "stopped"
                      /\ result.kind = "error" => conn # "open"
                      /\ \A i \in Interfaces :
                            socket[i] # "open" /\ worker[i].at \notin {"write", "read"}
      BY DEF OutcomeClean
  <2>1. lookup \in {"idle", "answered", "failed"}
        BY DEF DialInv, ProgressInv
  <2> QED
      BY <2>1 DEF LookupInv, Accounted, DialInv, ResultInv
<1> QED
    BY <1>1, DialCorrect, PTL

\* A handshake or Hello that ends because time is up or the caller gave up
\* says so.
THEOREM DeadlineSafety == Spec => []DeadlineNamed
<1>1. DialInv => DeadlineNamed
      BY DEF DialInv, ResultInv
<1> QED
    BY <1>1, DialCorrect, PTL

=============================================================================
