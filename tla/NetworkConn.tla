---------------------------- MODULE NetworkConn -----------------------------
(***************************************************************************)
(* The sending side of a simulated session: senders encrypt frames under   *)
(* the session's writeMu, networkConn collects the segments of a frame,    *)
(* and its write loop fragments, coalesces or holds them back on the       *)
(* virtual clock (simulator/network.go, clock.go, internal/wire/noise.go). *)
(* The clock's Advance is itself a sender: its timeline events go to the   *)
(* session before it returns.                                              *)
(***************************************************************************)
EXTENDS Integers, Sequences

CONSTANTS
    Loop,         \* the session's request loop, which arms the faults
    Advancer,     \* the caller of ManualClock.Advance
    Pushers,      \* callers of PushState
    None,
    QueueSize,    \* networkFrameQueueSize
    Triggers,     \* the faults of each trigger: [fragment, coalesce, delay]
    MaxDuration,  \* largest time.Duration
    MaxFrames, MaxArms  \* bounds on frames and faults

ASSUME NetworkAssumption ==
    /\ QueueSize \in Nat \ {0}
    /\ MaxDuration \in Nat
    /\ Triggers \subseteq [fragment : BOOLEAN, coalesce : BOOLEAN,
                           delay : 0 .. MaxDuration]
    /\ MaxFrames \in Nat /\ MaxArms \in Nat
    /\ None \notin {Loop, Advancer} \cup Pushers

Senders == {Loop, Advancer} \cup Pushers

VARIABLES
    now, waiter,         \* ManualClock: time, and the writer's clockWaiter
    stopped, connClosed, \* stop: closed is closed, and Conn is
    armed,               \* fragmentNext, coalesceNext, delayNextTarget
    arms,                \* faults armed
    writeMu,             \* holder of the session's writeMu
    pc,                  \* place of each sender
    frame,               \* the frame being collected
    due,                 \* due[n]: armed due time of the n-th encrypted frame
    attempts,            \* frames begun
    frames,              \* frames, the queue
    asyncFrames,
    done,                \* frames whose done channel has a result
    writer,              \* writeLoop: place, frame and unwritten chunks
    pendingDelayed,      \* pendingDelayedFrames
    received,            \* bytes the peer has read
    peerGone             \* the peer closed the connection

clockVars == <<now, waiter>>
stopVars == <<stopped, connClosed>>
sendVars == <<armed, arms, writeMu, pc, frame, due, attempts>>
queueVars == <<frames, asyncFrames, done>>
writeVars == <<writer, pendingDelayed>>
peerVars == <<received, peerGone>>
vars == <<clockVars, stopVars, sendVars, queueVars, writeVars, peerVars>>

NoFault == [fragment |-> FALSE, coalesce |-> FALSE, due |-> 0]
NoFrame == [n |-> 0, fault |-> NoFault, async |-> FALSE]
IdleWriter == [at |-> "select", frame |-> NoFrame, rest |-> <<>>]

\* delayNextTarget: the sum of two durations, which wraps below zero.
Target(d) == IF d > MaxDuration THEN d - 2 * (MaxDuration + 1) ELSE d

\* The two writes of writeNoisePacket: a header and a longer ciphertext.
Segments(n) == << <<[n |-> n, at |-> 1]>>, <<[n |-> n, at |-> 2], [n |-> n, at |-> 3]>> >>
FrameBytes(n) == Segments(n)[1] \o Segments(n)[2]

\* What writeFrame hands to Conn.Write.
Chunks(f) ==
    IF f.fault.coalesce THEN <<FrameBytes(f.n)>>
    ELSE IF f.fault.fragment THEN [i \in 1 .. Len(FrameBytes(f.n)) |-> <<FrameBytes(f.n)[i]>>]
    ELSE Segments(f.n)

Init ==
    /\ now = 0 /\ waiter = 0
    /\ stopped = FALSE /\ connClosed = FALSE
    /\ armed = NoFault /\ arms = 0
    /\ writeMu = None
    /\ pc = [s \in Senders |-> "idle"]
    /\ frame = NoFrame /\ due = <<>> /\ attempts = 0
    /\ frames = <<>> /\ asyncFrames = 0 /\ done = {}
    /\ writer = IdleWriter /\ pendingDelayed = 0
    /\ received = <<>> /\ peerGone = FALSE

-----------------------------------------------------------------------------
(* The clock and the faults.                                               *)

\* The waiters of the past are released before the timeline events are sent;
\* an advance past the clock's range is refused.
Advance ==
    /\ pc[Advancer] = "idle"
    /\ now < MaxDuration
    /\ now' = now + 1
    /\ waiter' = IF waiter <= now' THEN 0 ELSE waiter
    /\ \/ UNCHANGED <<pc, attempts>>
       \/ /\ attempts < MaxFrames
          /\ attempts' = attempts + 1
          /\ pc' = [pc EXCEPT ![Advancer] = "lock"]
    /\ UNCHANGED <<stopVars, armed, arms, writeMu, frame, due, queueVars,
                   writeVars, peerVars>>

\* triggerNetwork: a request arms every fault of its trigger.
Arm ==
    /\ pc[Loop] = "idle"
    /\ ~connClosed
    /\ arms < MaxArms
    /\ arms' = arms + 1
    /\ \E t \in Triggers :
          armed' = [fragment |-> armed.fragment \/ t.fragment,
                    coalesce |-> armed.coalesce \/ t.coalesce,
                    due |-> IF t.delay > 0 THEN now + t.delay ELSE armed.due]
    /\ UNCHANGED <<clockVars, stopVars, writeMu, pc, frame, due, attempts,
                   queueVars, writeVars, peerVars>>

-----------------------------------------------------------------------------
(* A sender.                                                               *)

\* A push, or the reply to a request the loop could still read.
Begin(s) ==
    /\ s # Advancer
    /\ pc[s] = "idle"
    /\ s = Loop => ~connClosed
    /\ attempts < MaxFrames
    /\ attempts' = attempts + 1
    /\ pc' = [pc EXCEPT ![s] = "lock"]
    /\ UNCHANGED <<clockVars, stopVars, armed, arms, writeMu, frame, due,
                   queueVars, writeVars, peerVars>>

BeginFrame(s) ==
    /\ pc[s] = "lock"
    /\ writeMu = None
    /\ writeMu' = s
    /\ frame' = [NoFrame EXCEPT !.fault = armed]
    /\ armed' = NoFault
    /\ pc' = [pc EXCEPT ![s] = "write"]
    /\ UNCHANGED <<clockVars, stopVars, arms, due, attempts, queueVars,
                   writeVars, peerVars>>

\* A frame that is too large is refused before it is encrypted; a Write on a
\* stopped connection fails after it was.
WriteFrame(s) ==
    /\ pc[s] = "write"
    /\ \/ /\ pc' = [pc EXCEPT ![s] = "failed"]
          /\ UNCHANGED <<frame, due>>
       \/ /\ due' = Append(due, frame.fault.due)
          /\ frame' = [frame EXCEPT !.n = Len(due')]
          /\ pc' = [pc EXCEPT ![s] = IF stopped THEN "failed" ELSE "end"]
    /\ UNCHANGED <<clockVars, stopVars, armed, arms, writeMu, attempts,
                   queueVars, writeVars, peerVars>>

Return(s) ==
    /\ pc' = [pc EXCEPT ![s] = "idle"]
    /\ writeMu' = None
    /\ frame' = NoFrame

\* endFrame with an error: the frame is forgotten, and so is its fault.
EndFrameError(s) ==
    /\ pc[s] = "failed"
    /\ Return(s)
    /\ UNCHANGED <<clockVars, stopVars, armed, arms, due, attempts, queueVars,
                   writeVars, peerVars>>

\* Mutant: only the delayed frame itself is asynchronous.
EndFrameWaiting(s) ==
    /\ pc[s] = "end"
    /\ LET async == Target(frame.fault.due) > 0 IN
          /\ frame' = [frame EXCEPT !.async = async]
          /\ asyncFrames' = IF async THEN asyncFrames + 1 ELSE asyncFrames
    /\ pc' = [pc EXCEPT ![s] = "enqueue"]
    /\ UNCHANGED <<clockVars, stopVars, armed, arms, writeMu, due, attempts,
                   frames, done, writeVars, peerVars>>

\* A frame behind a delayed one is asynchronous too.
EndFrame(s) ==
    /\ pc[s] = "end"
    /\ LET async == Target(frame.fault.due) > 0 \/ asyncFrames > 0 IN
          /\ frame' = [frame EXCEPT !.async = async]
          /\ asyncFrames' = IF async THEN asyncFrames + 1 ELSE asyncFrames
    /\ pc' = [pc EXCEPT ![s] = "enqueue"]
    /\ UNCHANGED <<clockVars, stopVars, armed, arms, writeMu, due, attempts,
                   frames, done, writeVars, peerVars>>

\* enqueue accepted the frame: a synchronous sender waits for its result.
Enqueue(s) ==
    /\ pc[s] = "enqueue"
    /\ ~stopped /\ Len(frames) < QueueSize
    /\ frames' = Append(frames, frame)
    /\ IF frame.async THEN Return(s)
       ELSE pc' = [pc EXCEPT ![s] = "await"] /\ UNCHANGED <<writeMu, frame>>
    /\ UNCHANGED <<clockVars, stopVars, armed, arms, due, attempts,
                   asyncFrames, done, writeVars, peerVars>>

\* Mutant: a frame that finds the queue full is dropped.
EnqueueErrorDropping(s) ==
    /\ pc[s] = "enqueue"
    /\ stopped \/ Len(frames) = QueueSize
    /\ asyncFrames' = IF frame.async THEN asyncFrames - 1 ELSE asyncFrames
    /\ Return(s)
    /\ UNCHANGED <<clockVars, stopVars, armed, arms, due, attempts,
                   frames, done, writeVars, peerVars>>

\* enqueue refused the frame: a full queue stops the connection.
EnqueueError(s) ==
    /\ pc[s] = "enqueue"
    /\ stopped \/ Len(frames) = QueueSize
    /\ asyncFrames' = IF frame.async THEN asyncFrames - 1 ELSE asyncFrames
    /\ IF stopped THEN Return(s) /\ UNCHANGED stopped
       ELSE /\ stopped' = TRUE
            /\ pc' = [pc EXCEPT ![s] = "stopping"]
            /\ UNCHANGED <<writeMu, frame>>
    /\ UNCHANGED <<clockVars, connClosed, armed, arms, due, attempts,
                   frames, done, writeVars, peerVars>>

Stopping(s) ==
    /\ pc[s] = "stopping"
    /\ connClosed
    /\ Return(s)
    /\ UNCHANGED <<clockVars, stopVars, armed, arms, due, attempts,
                   queueVars, writeVars, peerVars>>

Await(s) ==
    /\ pc[s] = "await"
    /\ frame.n \in done \/ stopped
    /\ done' = {}
    /\ Return(s)
    /\ UNCHANGED <<clockVars, stopVars, armed, arms, due, attempts, frames,
                   asyncFrames, writeVars, peerVars>>

Sender(s) ==
    \/ BeginFrame(s) \/ WriteFrame(s) \/ EndFrameError(s) \/ EndFrame(s)
    \/ Enqueue(s) \/ EnqueueError(s) \/ Stopping(s) \/ Await(s)

-----------------------------------------------------------------------------
(* The write loop.                                                         *)

\* A write returns when the peer has read it.
Written(chunk) ==
    /\ received' = received \o chunk
    /\ UNCHANGED peerGone

WriterTake ==
    /\ writer.at = "select"
    /\ frames # <<>>
    /\ frames' = Tail(frames)
    /\ LET f == Head(frames)
           delayed == Target(f.fault.due) > 0
       IN  /\ writer' = [at |-> IF delayed THEN "delayed" ELSE "write",
                         frame |-> f, rest |-> Chunks(f)]
           /\ pendingDelayed' = pendingDelayed + (IF delayed THEN 1 ELSE 0)
    /\ UNCHANGED <<clockVars, stopVars, sendVars, asyncFrames, done, peerVars>>

\* waitUntil, as far as the clock's lock is held.
WaitUntil ==
    /\ writer.at = "delayed"
    /\ waiter' = IF now >= Target(writer.frame.fault.due) THEN 0
                 ELSE Target(writer.frame.fault.due)
    /\ writer' = [writer EXCEPT !.at = "wait"]
    /\ UNCHANGED <<now, stopVars, sendVars, queueVars, pendingDelayed, peerVars>>

\* Mutant: waitUntil does not look at the closed channel.
WaitEndDeaf ==
    /\ writer.at = "wait"
    /\ waiter = 0
    /\ writer' = [writer EXCEPT !.at = "write"]
    /\ pendingDelayed' = pendingDelayed - 1
    /\ UNCHANGED <<clockVars, stopVars, sendVars, queueVars, peerVars>>

\* Its select: the clock has come, or the connection is closed.
WaitEnd ==
    /\ writer.at = "wait"
    /\ \/ /\ waiter = 0
          /\ writer' = [writer EXCEPT !.at = "write"]
       \/ /\ stopped
          /\ writer' = [writer EXCEPT !.at = "failed"]
    /\ waiter' = 0
    /\ pendingDelayed' = pendingDelayed - 1
    /\ UNCHANGED <<now, stopVars, sendVars, queueVars, peerVars>>

\* writeAll of one chunk, when the peer takes it.
WriteAll ==
    /\ writer.at = "write"
    /\ writer.rest # <<>>
    /\ ~stopped /\ ~connClosed /\ ~peerGone
    /\ Written(Head(writer.rest))
    /\ writer' = [writer EXCEPT !.rest = Tail(@)]
    /\ UNCHANGED <<clockVars, stopVars, sendVars, queueVars, pendingDelayed>>

\* It fails on a closed connection, with part of a chunk written or none.
WriteError ==
    /\ writer.at = "write"
    /\ writer.rest # <<>>
    /\ stopped \/ peerGone
    /\ writer' = [writer EXCEPT !.at = "failed"]
    /\ \/ UNCHANGED peerVars
       \/ /\ ~peerGone /\ ~connClosed
          /\ Written(SubSeq(Head(writer.rest), 1, Len(Head(writer.rest)) - 1))
    /\ UNCHANGED <<clockVars, stopVars, sendVars, queueVars, pendingDelayed>>

\* The result is reported to the sender.
WriterFinish ==
    /\ \/ writer.at = "write" /\ writer.rest = <<>>
       \/ writer.at = "failed"
    /\ done' = IF writer.frame.async THEN done ELSE done \cup {writer.frame.n}
    /\ asyncFrames' = IF writer.frame.async THEN asyncFrames - 1 ELSE asyncFrames
    /\ writer' = [IdleWriter EXCEPT !.at = IF writer.at = "failed" THEN "error" ELSE "select"]
    /\ UNCHANGED <<clockVars, stopVars, sendVars, frames, pendingDelayed, peerVars>>

\* Only then does an error stop the connection.
WriterStop ==
    /\ writer.at = "error"
    /\ stopped' = TRUE
    /\ writer' = [IdleWriter EXCEPT !.at = "stopping"]
    /\ UNCHANGED <<clockVars, connClosed, sendVars, queueVars, pendingDelayed, peerVars>>

WriterReturn ==
    /\ \/ writer.at = "select" /\ stopped
       \/ writer.at = "stopping" /\ connClosed
    /\ writer' = [IdleWriter EXCEPT !.at = "done"]
    /\ UNCHANGED <<clockVars, stopVars, sendVars, queueVars, pendingDelayed,
                   peerVars>>

WriteLoop ==
    WriterTake \/ WaitUntil \/ WaitEnd \/ WriteAll \/ WriteError
        \/ WriterFinish \/ WriterStop \/ WriterReturn

-----------------------------------------------------------------------------
(* Stopping, and the peer.                                                 *)

\* The session calls Close, which waits for the write loop.
Close ==
    /\ ~stopped
    /\ stopped' = TRUE
    /\ UNCHANGED <<clockVars, connClosed, sendVars, queueVars, writeVars, peerVars>>

\* The end of the closeOnce body.
StopConn ==
    /\ stopped /\ ~connClosed
    /\ connClosed' = TRUE
    /\ UNCHANGED <<clockVars, stopped, sendVars, queueVars, writeVars,
                   peerVars>>

PeerClose ==
    /\ ~peerGone
    /\ peerGone' = TRUE
    /\ UNCHANGED <<clockVars, stopVars, sendVars, queueVars, writeVars, received>>

Next ==
    \/ Advance
    \/ Arm
    \/ \E s \in Senders : Begin(s) \/ Sender(s)
    \/ WriteLoop
    \/ Close
    \/ StopConn
    \/ PeerClose

Spec == Init /\ [][Next]_vars

\* Goroutines run and a peer reads what it is sent or goes away; nobody has
\* to advance the clock, send or close.
Fairness ==
    /\ \A s \in Senders : WF_vars(Sender(s))
    /\ WF_vars(WriteLoop)
    /\ WF_vars(StopConn)

FairSpec == Spec /\ Fairness

-----------------------------------------------------------------------------
(* Properties.                                                             *)

FrameLen == Len(FrameBytes(1))

\* What the peer makes of its bytes: the number of each whole frame, or 0 for
\* one it cannot decrypt.
Decoded ==
    [i \in 1 .. Len(received) \div FrameLen |->
        LET bytes == SubSeq(received, (i - 1) * FrameLen + 1, i * FrameLen)
        IN  IF bytes = FrameBytes(bytes[1].n) THEN bytes[1].n ELSE 0]

Fifo == INSTANCE FrameFifo WITH delivered <- Decoded

\* Fragmented, coalesced, delayed and queued frames arrive whole and in nonce
\* order without a gap, none before it is due, also when a full queue, an
\* oversized frame, a closing peer or a stop come in between.
ImplementsFrameFifo == Fifo!Spec

\* Nobody who sends waits for the clock: a push, a reply and the advance that
\* sends behind a delayed frame all return although time never moves again.
SendersReturn == \A s \in Senders : pc[s] # "idle" ~> pc[s] = "idle"

\* A stopped connection ends its write loop, whatever it was waiting for, and
\* leaves no delayed frame behind for WaitForIdle to count.
StopReleases == stopped ~> writer.at = "done" /\ pendingDelayed = 0 /\ waiter = 0
=============================================================================
