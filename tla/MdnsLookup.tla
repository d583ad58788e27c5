----------------------------- MODULE MdnsLookup -----------------------------
(***************************************************************************)
(* The bounded multicast query that resolves a .local name                 *)
(* (internal/mdns/resolver.go): one worker for each interface sends the    *)
(* query, sends it again on a schedule, and reads packets until an answer, *)
(* an error, the deadline or the end of the context.  The first answer     *)
(* wins; the lookup closes every socket and waits for every worker before  *)
(* it returns.  Workers are quick compared with the schedule.              *)
(***************************************************************************)
EXTENDS Naturals, Sequences, FiniteSets

CONSTANTS
    Interfaces,
    Schedule,         \* defaultRetransmitSchedule
    FallbackTimeout,
    Horizon,          \* bound on the time that is looked at
    MaxPackets        \* bound on the packets of one interface

ASSUME LookupAssumption ==
    /\ Schedule \in Seq(Nat \ {0})
    /\ \A j, k \in DOMAIN Schedule : j < k => Schedule[j] <= Schedule[k]
    /\ FallbackTimeout \in Nat \ {0} /\ Horizon \in Nat /\ MaxPackets \in Nat

VARIABLES
    now,
    timeout,   \* the caller's timeout, 0 for none
    ctx,       \* the establishment context: "live", or the cause of its end
    lookup,    \* progress of lookupWithSchedule
    socket,    \* "none", "open" or "closed", for each interface
    worker,    \* [at, retransmit, sent, result] of each interface
    packets    \* packets that arrived at each socket

lookupVars == <<lookup, socket, worker, packets>>
contextVars == <<now, timeout, ctx>>

NewWorker == [at |-> "none", retransmit |-> 0, sent |-> 0, result |-> "none"]

InitLookup ==
    /\ now = 0 /\ ctx = "live"
    /\ lookup = "idle"
    /\ socket = [i \in Interfaces |-> "none"]
    /\ worker = [i \in Interfaces |-> NewWorker]
    /\ packets = [i \in Interfaces |-> <<>>]

\* effectiveTimeout: the lookup is the first thing an attempt does.
LookupDeadline == IF timeout > 0 THEN timeout ELSE FallbackTimeout

\* The instant a worker's read wakes for: its next query or the deadline.
Retransmits(i) ==
    /\ worker[i].retransmit < Len(Schedule)
    /\ Schedule[worker[i].retransmit + 1] < LookupDeadline
ReadDeadline(i) ==
    IF Retransmits(i) THEN Schedule[worker[i].retransmit + 1] ELSE LookupDeadline

\* Sockets are opened where that is possible, and their workers started.
OpenSockets ==
    /\ lookup = "idle" /\ ctx = "live"
    /\ \E opened \in SUBSET Interfaces :
          /\ socket' = [i \in Interfaces |-> IF i \in opened THEN "open" ELSE "none"]
          /\ worker' = [i \in Interfaces |->
                IF i \in opened THEN [NewWorker EXCEPT !.at = "write"] ELSE NewWorker]
          /\ lookup' = IF opened = {} THEN "failed" ELSE "collect"
    /\ UNCHANGED packets

Result(i, r) ==
    worker' = [worker EXCEPT ![i] = [NewWorker EXCEPT !.at = "send", !.result = r]]

\* The first query; WriteToUDP may fail, and does on a closed socket.
FirstQuery(i) ==
    /\ worker[i].at = "write"
    /\ \/ /\ socket[i] = "open"
          /\ worker' = [worker EXCEPT ![i].at = "read", ![i].sent = 1]
       \/ Result(i, "error")
    /\ UNCHANGED <<lookup, socket, packets>>

\* Mutant: unrelated traffic uses up a retransmission.
ReadPacketCounted(i) ==
    /\ worker[i].at = "read" /\ socket[i] = "open"
    /\ packets[i] # <<>> /\ now < ReadDeadline(i)
    /\ packets' = [packets EXCEPT ![i] = Tail(@)]
    /\ IF Head(packets[i]) = "answer" THEN Result(i, "ip")
       ELSE worker' = [worker EXCEPT ![i].retransmit = @ + 1]
    /\ UNCHANGED <<lookup, socket>>

\* Unrelated traffic is skipped.
ReadPacket(i) ==
    /\ worker[i].at = "read" /\ socket[i] = "open"
    /\ packets[i] # <<>> /\ now < ReadDeadline(i)
    /\ packets' = [packets EXCEPT ![i] = Tail(@)]
    /\ IF Head(packets[i]) = "answer" THEN Result(i, "ip") ELSE UNCHANGED worker
    /\ UNCHANGED <<lookup, socket>>

\* The read deadline: the query is sent again, or the time is up.
ReadTimeout(i) ==
    /\ worker[i].at = "read" /\ socket[i] = "open"
    /\ now >= ReadDeadline(i)
    /\ \/ /\ Retransmits(i) /\ ctx = "live"
          /\ worker' = [worker EXCEPT ![i].retransmit = @ + 1, ![i].sent = @ + 1]
       \/ Result(i, "error")
    /\ UNCHANGED <<lookup, socket, packets>>

ReadClosed(i) ==
    /\ worker[i].at = "read" /\ socket[i] = "closed"
    /\ Result(i, "error")
    /\ UNCHANGED <<lookup, socket, packets>>

Worker(i) == FirstQuery(i) \/ ReadPacket(i) \/ ReadTimeout(i) \/ ReadClosed(i)

\* closeAll: by the lookup, or by the AfterFunc of its context.
CloseSockets ==
    /\ socket' = [i \in Interfaces |-> IF socket[i] = "open" THEN "closed" ELSE socket[i]]
    /\ packets' = [i \in Interfaces |-> <<>>]

ContextClose ==
    /\ ctx # "live" /\ lookup = "collect"
    /\ \E i \in Interfaces : socket[i] = "open"
    /\ CloseSockets
    /\ UNCHANGED <<lookup, worker>>

\* A result is collected: an answer ends the lookup, and so does the last.
Collect ==
    /\ lookup = "collect"
    /\ \E i \in Interfaces :
          /\ worker[i].at = "send"
          /\ worker' = [worker EXCEPT ![i].at = "done"]
          /\ IF worker[i].result = "ip" THEN CloseSockets /\ lookup' = "found"
             ELSE IF \A j \in Interfaces \ {i} : worker[j].at \in {"done", "none"}
             THEN CloseSockets /\ lookup' = "none"
             ELSE UNCHANGED <<socket, packets, lookup>>

\* The lookup returns when the workers have: their results fit the channel.
WaitWorkers ==
    /\ lookup \in {"found", "none"}
    /\ \A i \in Interfaces : worker[i].at \in {"send", "done", "none"}
    /\ lookup' = IF lookup = "found" THEN "answered" ELSE "failed"
    /\ UNCHANGED <<socket, worker, packets>>

\* The context has ended before the lookup began.
LookupRefused ==
    /\ lookup = "idle" /\ ctx # "live"
    /\ lookup' = "failed"
    /\ UNCHANGED <<socket, worker, packets>>

LookupCall == OpenSockets \/ LookupRefused \/ Collect \/ WaitWorkers

\* Multicast traffic: an answer to a query that was sent, or anything else.
Multicast(i, p) ==
    /\ socket[i] = "open" /\ Len(packets[i]) < MaxPackets
    /\ p = "answer" => worker[i].sent > 0
    /\ packets' = [packets EXCEPT ![i] = Append(@, p)]
    /\ UNCHANGED <<lookup, socket, worker>>

\* A worker that could act keeps time from passing.
Due(i) ==
    \/ worker[i].at = "write"
    \/ worker[i].at = "read" /\ (socket[i] = "closed" \/ now >= ReadDeadline(i))

-----------------------------------------------------------------------------
(* Properties.                                                             *)

Repeats == {k \in DOMAIN Schedule : Schedule[k] < now /\ Schedule[k] < LookupDeadline}

\* A lookup does not give up early: whatever else arrives at its socket, a
\* worker that waits has repeated its query at every instant of the schedule
\* that passed, and no answer is lost to the errors of other interfaces.
LookupThorough ==
    /\ \A i \in Interfaces :
          worker[i].at = "read" /\ socket[i] = "open" =>
              worker[i].sent >= 1 + Cardinality(Repeats)
    /\ lookup = "failed" => \A i \in Interfaces : worker[i].result # "ip"
=============================================================================
