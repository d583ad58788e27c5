---------------------------- MODULE DeviceState -----------------------------
(***************************************************************************)
(* The state store of the simulated device (simulator/simulator.go) and    *)
(* everyone who writes to it: PushState callers, the scenario's timeline   *)
(* driven by the manual clock (simulator/clock.go), and the commands of    *)
(* the sessions.  A writer commits a state and sends it while it holds     *)
(* stateSerial; a subscribing session sends its snapshot under the same    *)
(* lock, so that what one session is sent follows the order of commits.    *)
(*                                                                         *)
(* A state is represented by its number among the commits of its entity.   *)
(***************************************************************************)
EXTENDS Naturals, Sequences, FiniteSets

CONSTANTS
    Sessions,     \* connections to the device
    Pushers,      \* activations of PushState
    Advancers,    \* activations of ManualClock.Advance, by one tick each
    Keys,         \* entities with a state
    CommandKeys,  \* those that take commands: switches, numbers, fans and lights
    TextKeys,     \* those whose state holds text, which no frame may have room for
    Timeline,     \* Scenario.StateTimeline: [at, key], in order of at; what is
                  \* due when New runs is part of the initial states
    OutCap,       \* frames a session's transport buffers before a send blocks
    MaxCommands,  \* bound: commands the sessions send
    None

Actors == Sessions \cup Pushers \cup Advancers

ASSUME StateAssumption ==
    /\ OutCap \in Nat \ {0}
    /\ MaxCommands \in Nat
    /\ CommandKeys \subseteq Keys /\ TextKeys \subseteq Keys
    /\ None \notin Actors
    /\ Sessions \cap (Pushers \cup Advancers) = {} /\ Pushers \cap Advancers = {}
    /\ Timeline \in Seq([at : Nat \ {0}, key : Keys])
    /\ \A i, j \in 1..Len(Timeline) : i < j => Timeline[i].at <= Timeline[j].at

VARIABLES
    pc,             \* where each actor is
    pending,        \* frames an actor still has to send: [to, key, ver]
    serial,         \* holder of stateSerial
    advanceMu,      \* holder of the clock's advanceMu
    now,            \* the clock
    timelineIndex,  \* events committed
    current,        \* currentStates: the commit of each entity's state
    origin,         \* the session whose command made that commit
    unsendable,     \* entities whose state the framer or the encoder refuses
    conn,           \* each session's connection
    subscribed,     \* connected with deviceSession.subscribed
    out,            \* frames in each session's transport
    last,           \* commit of the state last sent to a session that is served
    commands        \* number of commands so far

storeVars == <<current, origin, unsendable>>
clockVars == <<advanceMu, now, timelineIndex>>
sessionVars == <<conn, subscribed, out, last>>
vars == <<pc, pending, serial, clockVars, storeVars, sessionVars, commands>>

Init ==
    /\ pc = [a \in Actors |-> "idle"]
    /\ pending = [a \in Actors |-> {}]
    /\ serial = None
    /\ advanceMu = None
    /\ now = 0
    /\ timelineIndex = 0
    /\ current = [k \in Keys |-> 0]
    /\ origin = [k \in Keys |-> None]
    /\ unsendable \in SUBSET TextKeys
    /\ conn = [s \in Sessions |-> "open"]
    /\ subscribed = [s \in Sessions |-> FALSE]
    /\ out = [s \in Sessions |-> 0]
    /\ last = [s \in Sessions |-> [k \in Keys |-> 0]]
    /\ commands = 0

-----------------------------------------------------------------------------
Goto(a, label) == pc' = [pc EXCEPT ![a] = label]

Lock(a) == serial = None /\ serial' = a

Subscribed == {s \in Sessions : subscribed[s]}

\* storeStateLocked, and the recipients of the frames that announce it.
Commit(a, k, recipients) ==
    /\ current' = [current EXCEPT ![k] = @ + 1]
    /\ origin' = [origin EXCEPT ![k] = IF a \in Sessions THEN a ELSE None]
    /\ unsendable' \in {unsendable \ {k}, unsendable \cup ({k} \cap TextKeys)}
    /\ pending' = [pending EXCEPT
          ![a] = {[to |-> s, key |-> k, ver |-> current'[k]] : s \in recipients}]

\* PushState, from the lock to the copied list of subscribers.
PushCommit(p) ==
    /\ pc[p] = "idle"
    /\ Lock(p)
    /\ \E k \in Keys : Commit(p, k, Subscribed)
    /\ Goto(p, "sending")
    /\ UNCHANGED <<clockVars, sessionVars, commands>>

\* ManualClock.advance up to the call of advanceTimeline.
Advance(a) ==
    /\ pc[a] = "idle"
    /\ advanceMu = None
    /\ advanceMu' = a
    /\ now' = now + 1
    /\ Goto(a, "timeline")
    /\ UNCHANGED <<pending, serial, timelineIndex, storeVars, sessionVars, commands>>

TimelineLock(a) ==
    /\ pc[a] = "timeline"
    /\ Lock(a)
    /\ Goto(a, "sending")
    /\ UNCHANGED <<pending, clockVars, storeVars, sessionVars, commands>>

Due == timelineIndex < Len(Timeline) /\ Timeline[timelineIndex + 1].at <= now

\* One iteration of advanceTimeline, when the frames of the last one are out.
TimelineCommit(a) ==
    /\ a \in Advancers
    /\ pc[a] = "sending" /\ pending[a] = {}
    /\ Due
    /\ timelineIndex' = timelineIndex + 1
    /\ Commit(a, Timeline[timelineIndex + 1].key, Subscribed)
    /\ UNCHANGED <<pc, serial, advanceMu, now, sessionVars, commands>>

-----------------------------------------------------------------------------
(* A session.                                                              *)

\* A switch, number, fan or light command: the new state goes to the session
\* that sent the command.
Command(s) ==
    /\ pc[s] = "idle" /\ conn[s] = "open"
    /\ commands < MaxCommands
    /\ commands' = commands + 1
    /\ Lock(s)
    /\ \E k \in CommandKeys : Commit(s, k, {s})
    /\ Goto(s, "sending")
    /\ UNCHANGED <<clockVars, sessionVars>>

\* Mutant: the snapshot is sent without stateSerial.
SubscribeUnserialized(s) ==
    /\ pc[s] = "idle" /\ conn[s] = "open"
    /\ subscribed' = [subscribed EXCEPT ![s] = TRUE]
    /\ pending' = [pending EXCEPT
          ![s] = {[to |-> s, key |-> k, ver |-> current[k]] : k \in Keys}]
    /\ Goto(s, "sending")
    /\ UNCHANGED <<serial, clockVars, storeVars, conn, out, last, commands>>

Subscribe(s) ==
    /\ pc[s] = "idle" /\ conn[s] = "open"
    /\ Lock(s)
    /\ subscribed' = [subscribed EXCEPT ![s] = TRUE]
    /\ pending' = [pending EXCEPT
          ![s] = {[to |-> s, key |-> k, ver |-> current[k]] : k \in Keys}]
    /\ Goto(s, "sending")
    /\ UNCHANGED <<clockVars, storeVars, conn, out, last, commands>>

\* serve returns, when a read or a send has failed: its deferred function
\* closes and removes the connection, and the session with it.
SessionEnd(s) ==
    /\ \/ pc[s] = "idle" /\ conn[s] = "closed"
       \/ pc[s] = "failed"
    /\ Goto(s, "returned")
    /\ conn' = [conn EXCEPT ![s] = "gone"]
    /\ subscribed' = [subscribed EXCEPT ![s] = FALSE]
    /\ out' = [out EXCEPT ![s] = 0]
    /\ last' = [last EXCEPT ![s] = [k \in Keys |-> 0]]
    /\ UNCHANGED <<pending, serial, clockVars, storeVars, commands>>

-----------------------------------------------------------------------------
(* Sending, for every kind of actor: a send waits for room in the          *)
(* transport of its session.  It fails once the connection is closed, and  *)
(* on an open one when the state is not to be encoded or framed.           *)

\* Mutant: a send into a full transport drops the frame.
TransmitLossy(a) ==
    /\ pc[a] = "sending"
    /\ \E f \in pending[a] :
          /\ conn[f.to] = "open" /\ f.key \notin unsendable
          /\ IF out[f.to] < OutCap
             THEN /\ out' = [out EXCEPT ![f.to] = @ + 1]
                  /\ last' = [last EXCEPT ![f.to][f.key] = f.ver]
             ELSE UNCHANGED <<out, last>>
          /\ pending' = [pending EXCEPT ![a] = @ \ {f}]
    /\ UNCHANGED <<pc, serial, clockVars, storeVars, conn, subscribed, commands>>

Transmit(a) ==
    /\ pc[a] = "sending"
    /\ \E f \in pending[a] :
          /\ conn[f.to] = "open" /\ f.key \notin unsendable
          /\ out[f.to] < OutCap
          /\ out' = [out EXCEPT ![f.to] = @ + 1]
          /\ last' = [last EXCEPT ![f.to][f.key] = f.ver]
          /\ pending' = [pending EXCEPT ![a] = @ \ {f}]
    /\ UNCHANGED <<pc, serial, clockVars, storeVars, conn, subscribed, commands>>

\* Mutant: a writer waits for room on a connection that is closed.
TransmitErrorUnseen(a) ==
    /\ a \in Sessions
    /\ pc[a] = "sending" /\ pending[a] # {}
    /\ conn[a] # "open"
    /\ pending' = [pending EXCEPT ![a] = {}]
    /\ serial' = None
    /\ Goto(a, "failed")
    /\ UNCHANGED <<clockVars, storeVars, sessionVars, commands>>

\* A writer ignores the error and goes on with the next subscriber; a session
\* gives up its remaining frames, and serve is about to return.
TransmitError(a) ==
    /\ pc[a] = "sending"
    /\ \E f \in pending[a] :
          /\ conn[f.to] # "open" \/ f.key \in unsendable
          /\ IF a \in Sessions
             THEN /\ pending' = [pending EXCEPT ![a] = {}]
                  /\ serial' = None
                  /\ Goto(a, "failed")
             ELSE /\ pending' = [pending EXCEPT ![a] = @ \ {f}]
                  /\ UNCHANGED <<pc, serial>>
    /\ UNCHANGED <<clockVars, storeVars, sessionVars, commands>>

\* Mutant: an advance that finds its frames sent leaves the rest for later.
ReleaseEarly(a) ==
    /\ pc[a] = "sending" /\ pending[a] = {}
    /\ serial' = None
    /\ advanceMu' = IF a \in Advancers THEN None ELSE advanceMu
    /\ Goto(a, IF a \in Sessions THEN "idle" ELSE "returned")
    /\ UNCHANGED <<pending, now, timelineIndex, storeVars, sessionVars, commands>>

\* Everything is sent: the locks are released.
Release(a) ==
    /\ pc[a] = "sending" /\ pending[a] = {}
    /\ a \in Advancers => ~Due
    /\ serial' = None
    /\ advanceMu' = IF a \in Advancers THEN None ELSE advanceMu
    /\ Goto(a, IF a \in Sessions THEN "idle" ELSE "returned")
    /\ UNCHANGED <<pending, now, timelineIndex, storeVars, sessionVars, commands>>

Session(s) == Command(s) \/ Subscribe(s) \/ SessionEnd(s)
Sending(a) == Transmit(a) \/ TransmitError(a) \/ Release(a)
PushState(p) == PushCommit(p) \/ Sending(p)
ClockAdvance(a) ==
    \/ Advance(a)
    \/ TimelineLock(a)
    \/ TimelineCommit(a)
    \/ Sending(a)

-----------------------------------------------------------------------------
(* The clients: they read what they are sent, and leave.                   *)

ClientRead(s) ==
    /\ out[s] > 0
    /\ out' = [out EXCEPT ![s] = @ - 1]
    /\ UNCHANGED <<pc, pending, serial, clockVars, storeVars, conn, subscribed,
                   last, commands>>

Disconnect(s) ==
    /\ conn[s] = "open"
    /\ conn' = [conn EXCEPT ![s] = "closed"]
    /\ out' = [out EXCEPT ![s] = 0]
    /\ UNCHANGED <<pc, pending, serial, clockVars, storeVars, subscribed, last, commands>>

\* Every client is gone and every call has returned.
Terminated ==
    /\ \A a \in Actors : pc[a] = "returned"
    /\ UNCHANGED vars

Next ==
    \/ \E p \in Pushers : PushState(p)
    \/ \E a \in Advancers : ClockAdvance(a)
    \/ \E s \in Sessions :
          Session(s) \/ Sending(s) \/ ClientRead(s) \/ Disconnect(s)
    \/ Terminated

Spec == Init /\ [][Next]_vars

\* The goroutines run and the clients read on until they disconnect.  The
\* locks are sync.Mutexes, which hand over to a waiter that starves, so a
\* session that subscribes over and over cannot keep the others out.
Fairness ==
    /\ \A p \in Pushers : SF_vars(PushCommit(p)) /\ WF_vars(Sending(p))
    /\ \A a \in Advancers : /\ SF_vars(Advance(a))
                            /\ SF_vars(TimelineLock(a))
                            /\ WF_vars(TimelineCommit(a) \/ Sending(a))
    /\ \A s \in Sessions : WF_vars(Sending(s)) /\ WF_vars(ClientRead(s))

FairSpec == Spec /\ Fairness

-----------------------------------------------------------------------------
(* Properties.                                                             *)

Frames == [to : Sessions, key : Keys, ver : Nat]

\* The types of the store, the locks and the sessions.
TypeOK ==
    /\ pc \in [Actors -> {"idle", "timeline", "sending", "failed", "returned"}]
    /\ pending \in [Actors -> SUBSET Frames]
    /\ serial \in Actors \cup {None}
    /\ advanceMu \in Advancers \cup {None}
    /\ now \in Nat
    /\ timelineIndex \in 0..Len(Timeline)
    /\ current \in [Keys -> Nat]
    /\ origin \in [Keys -> Sessions \cup {None}]
    /\ unsendable \subseteq TextKeys
    /\ conn \in [Sessions -> {"open", "closed", "gone"}]
    /\ subscribed \in [Sessions -> BOOLEAN]
    /\ out \in [Sessions -> 0..OutCap]
    /\ last \in [Sessions -> [Keys -> Nat]]
    /\ commands \in 0..MaxCommands

\* A session is never sent an older state of an entity after a newer one,
\* whether it comes from the snapshot, a push, the timeline or a command.
NoRegression ==
    [][\A s \in Sessions, k \in Keys :
          conn'[s] # "gone" => last'[s][k] >= last[s][k]]_vars

\* Whenever nobody holds stateSerial, a connected subscriber was sent the
\* current state of every entity: a snapshot and the pushes around it leave
\* no gap.  The exceptions: the state a command of another session made goes
\* to that session alone; a state that cannot be framed or encoded is kept
\* and reported to no subscriber, the push's error being dropped; and a
\* session that met such a state in its own sends is about to end.
SubscribersCurrent ==
    serial = None =>
        \A s \in Sessions, k \in Keys :
            /\ subscribed[s] /\ conn[s] = "open" /\ pc[s] # "failed"
            /\ origin[k] \in {s, None}
            /\ k \notin unsendable
            => last[s][k] = current[k]

\* When no advance is under way, exactly the timeline events that are due
\* were committed, however many advances ran at once.
TimelineCurrent ==
    advanceMu = None =>
        timelineIndex = Cardinality({i \in DOMAIN Timeline : Timeline[i].at <= now})

\* Every push and every advance returns in the end, as long as the subscribers
\* read or disconnect.
WritersReturn == <>(\A a \in Pushers \cup Advancers : pc[a] = "returned")
=============================================================================
