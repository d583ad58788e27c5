-------------------------- MODULE NetworkConnProofs --------------------------
(***************************************************************************)
(* Proofs that NetworkConn implements FrameFifo and that no sender waits   *)
(* for the clock, for any senders, faults and capacity of the queue.       *)
(***************************************************************************)
EXTENDS NetworkConn, SequenceTheorems, TLAPS

\* The a-th byte of the n-th frame.
Byte(n, a) == [n |-> n, at |-> a]
Bytes == [n : Nat, at : 1..3]

Faults == [fragment : BOOLEAN, coalesce : BOOLEAN, due : Nat]
Frames == [n : Nat, fault : Faults, async : BOOLEAN]
Places == {"select", "delayed", "wait", "write", "failed", "error", "stopping", "done"}
PCs == {"idle", "lock", "write", "failed", "end", "enqueue", "stopping", "await"}

\* The types of the state that the refinement depends on.
NetTypes ==
    /\ now \in 0..MaxDuration /\ waiter \in Int
    /\ stopped \in BOOLEAN
    /\ armed \in Faults
    /\ pc \in [Senders -> PCs]
    /\ frame \in Frames
    /\ due \in Seq(Nat)
    /\ frames \in Seq(Frames)
    /\ writer.at \in Places /\ writer.frame \in Frames
    /\ writer = [at |-> writer.at, frame |-> writer.frame, rest |-> writer.rest]

\* What the peer has read is the frames in order, byte by byte.
InOrder(bytes) ==
    /\ bytes \in Seq(Bytes)
    /\ \A n \in Nat \ {0}, a \in 1..3 :
          3 * (n - 1) + a <= Len(bytes) => bytes[3 * (n - 1) + a] = Byte(n, a)

\* The chunks of frame n that are left when r of its bytes are written, for a
\* coalesced frame, for a fragmented one and for one that is left alone.
Rest(chunks, n, r) ==
    \/ r = 3 /\ chunks = <<>>
    \/ r = 0 /\ chunks = << <<Byte(n, 1), Byte(n, 2), Byte(n, 3)>> >>
    \/ r = 0 /\ chunks = << <<Byte(n, 1)>>, <<Byte(n, 2)>>, <<Byte(n, 3)>> >>
    \/ r = 1 /\ chunks = << <<Byte(n, 2)>>, <<Byte(n, 3)>> >>
    \/ r = 2 /\ chunks = << <<Byte(n, 3)>> >>
    \/ r = 0 /\ chunks = << <<Byte(n, 1)>>, <<Byte(n, 2), Byte(n, 3)>> >>
    \/ r = 1 /\ chunks = << <<Byte(n, 2), Byte(n, 3)>> >>

\* The places of a sender that holds writeMu, and those where it also holds an
\* encrypted frame that is not queued yet.
Busy == {"write", "failed", "end", "enqueue", "stopping", "await"}
Holding == {"end", "enqueue"}
InHand == \E s \in Senders : pc[s] \in Holding

\* writeMu keeps the senders apart, and the frame in hand is the last one.
HolderInv ==
    \A s \in Senders :
        /\ pc[s] \in Busy => writeMu = s
        /\ pc[s] \in Holding =>
              frame.n = Len(due) /\ frame.n >= 1 /\ frame.fault.due = due[frame.n]

\* The write loop may still write.
Active == writer.at \in {"select", "delayed", "wait", "write"}

\* The queue continues behind frame b without a gap, and unless the connection
\* is stopped nothing that was encrypted is missing in it.
QueueInv(b) ==
    /\ \A i \in 1..Len(frames) : frames[i].n = b + i /\ frames[i].fault.due = due[b + i]
    /\ b + Len(frames) <= Len(due)
    /\ ~stopped => Len(due) = b + Len(frames) + (IF InHand THEN 1 ELSE 0)

\* Frame b is the one that the write loop has in work.
WorkInv(b) ==
    /\ writer.frame.n = b /\ b >= 1 /\ writer.frame.fault.due = due[b]
    /\ \E r \in 0..3 : Len(received) = 3 * (b - 1) + r /\ Rest(writer.rest, b, r)

PipeInv ==
    Active => \E b \in Nat :
        /\ QueueInv(b)
        /\ IF writer.at = "select" THEN Len(received) = 3 * b ELSE WorkInv(b)

\* A frame is written when it is due, or when it is not delayed.
Ready(d) == d <= now \/ d > MaxDuration
ReadyInv ==
    /\ writer.at = "wait" =>
          IF waiter = 0 THEN now >= Target(writer.frame.fault.due)
          ELSE waiter = Target(writer.frame.fault.due)
    /\ writer.at = "write" => Ready(writer.frame.fault.due)

NetInv == InOrder(received) /\ HolderInv /\ PipeInv /\ ReadyInv

-----------------------------------------------------------------------------
(* Bytes and chunks.                                                       *)

\* The elements of a concatenation.
LEMMA ConcatFacts ==
    ASSUME NEW S, NEW s \in Seq(S), NEW t \in Seq(S)
    PROVE  /\ s \o t \in Seq(S) /\ Len(s \o t) = Len(s) + Len(t)
           /\ \A i \in 1..Len(s) : (s \o t)[i] = s[i]
           /\ \A i \in 1..Len(t) : (s \o t)[Len(s) + i] = t[i]
<1>1. s \o t \in Seq(S) /\ Len(s \o t) = Len(s) + Len(t)
      OBVIOUS
<1>2. \A i \in 1..Len(s) : (s \o t)[i] = s[i]
      OBVIOUS
<1>3. \A i \in 1..Len(t) : (s \o t)[Len(s) + i] = t[i]
      OBVIOUS
<1> QED
    BY <1>1, <1>2, <1>3

\* The bytes of a frame.
LEMMA FrameBytesFacts ==
    /\ \A n : /\ Segments(n) = << <<Byte(n, 1)>>, <<Byte(n, 2), Byte(n, 3)>> >>
              /\ FrameBytes(n) = <<Byte(n, 1), Byte(n, 2), Byte(n, 3)>>
    /\ FrameLen = 3
<1>1. ASSUME NEW n
      PROVE  /\ Segments(n) = << <<Byte(n, 1)>>, <<Byte(n, 2), Byte(n, 3)>> >>
             /\ FrameBytes(n) = <<Byte(n, 1), Byte(n, 2), Byte(n, 3)>>
  <2>1. Segments(n) = << <<Byte(n, 1)>>, <<Byte(n, 2), Byte(n, 3)>> >>
        BY DEF Segments, Byte
  <2>2. FrameBytes(n) = <<Byte(n, 1)>> \o <<Byte(n, 2), Byte(n, 3)>>
        BY <2>1 DEF FrameBytes
  <2>3. PICK s, t : s = <<Byte(n, 1)>> /\ t = <<Byte(n, 2), Byte(n, 3)>>
        OBVIOUS
  <2>4. /\ s \in Seq({Byte(n, 1), Byte(n, 2), Byte(n, 3)}) /\ Len(s) = 1 /\ s[1] = Byte(n, 1)
        /\ t \in Seq({Byte(n, 1), Byte(n, 2), Byte(n, 3)}) /\ Len(t) = 2
        /\ t[1] = Byte(n, 2) /\ t[2] = Byte(n, 3)
        BY <2>3
  <2>5. PICK u : u = s \o t
        OBVIOUS
  <2>6. /\ u \in Seq({Byte(n, 1), Byte(n, 2), Byte(n, 3)}) /\ Len(u) = 3
        /\ u[1] = Byte(n, 1) /\ u[2] = Byte(n, 2) /\ u[3] = Byte(n, 3)
    <3>1. s \in Seq({Byte(n, 1), Byte(n, 2), Byte(n, 3)})
          BY <2>4
    <3>2. t \in Seq({Byte(n, 1), Byte(n, 2), Byte(n, 3)})
          BY <2>4
    <3>3. /\ u \in Seq({Byte(n, 1), Byte(n, 2), Byte(n, 3)}) /\ Len(u) = Len(s) + Len(t)
          /\ \A i \in 1..Len(s) : u[i] = s[i]
          /\ \A i \in 1..Len(t) : u[Len(s) + i] = t[i]
          BY <2>5, <3>1, <3>2, ConcatFacts
    <3>4. 1 \in 1..Len(s) /\ 1 \in 1..Len(t) /\ 2 \in 1..Len(t)
          BY <2>4
    <3>5. u[1] = s[1] /\ u[Len(s) + 1] = t[1] /\ u[Len(s) + 2] = t[2]
          BY <3>3, <3>4
    <3> QED
        BY <2>4, <3>3, <3>5
  <2>7. u = <<Byte(n, 1), Byte(n, 2), Byte(n, 3)>>
        BY <2>6
  <2> QED
      BY <2>1, <2>2, <2>3, <2>5, <2>7
<1>2. FrameLen = 3
  <2>1. Len(<<Byte(1, 1), Byte(1, 2), Byte(1, 3)>>) = 3
        OBVIOUS
  <2> QED
      BY <1>1, <2>1 DEF FrameLen
<1> QED
    BY <1>1, <1>2

\* The chunks of a frame, none written.
LEMMA ChunksFacts ==
    ASSUME NEW f \in Frames
    PROVE  Rest(Chunks(f), f.n, 0)
<1> DEFINE n == f.n
<1>1. CASE f.fault.coalesce
  <2>1. Chunks(f) = << <<Byte(n, 1), Byte(n, 2), Byte(n, 3)>> >>
        BY <1>1, FrameBytesFacts DEF Chunks
  <2> QED
      BY <2>1 DEF Rest
<1>2. CASE ~f.fault.coalesce /\ f.fault.fragment
  <2>1. PICK t : t = <<Byte(n, 1), Byte(n, 2), Byte(n, 3)>>
        OBVIOUS
  <2>2. Len(t) = 3 /\ t[1] = Byte(n, 1) /\ t[2] = Byte(n, 2) /\ t[3] = Byte(n, 3)
        BY <2>1
  <2>3. Chunks(f) = [i \in 1..3 |-> <<t[i]>>]
        BY <1>2, <2>1, <2>2, FrameBytesFacts DEF Chunks
  <2>4. [i \in 1..3 |-> <<t[i]>>] = << <<t[1]>>, <<t[2]>>, <<t[3]>> >>
        OBVIOUS
  <2> QED
      BY <2>2, <2>3, <2>4 DEF Rest
<1>3. CASE ~f.fault.coalesce /\ ~f.fault.fragment
  <2>1. Chunks(f) = << <<Byte(n, 1)>>, <<Byte(n, 2), Byte(n, 3)>> >>
        BY <1>3, FrameBytesFacts DEF Chunks
  <2> QED
      BY <2>1 DEF Rest
<1> QED
    BY <1>1, <1>2, <1>3

\* The next chunk c of frame n, after r of its bytes: k bytes of it.
NextChunk(c, n, r, k) ==
    /\ k \in 1..3 /\ r + k <= 3
    /\ c \in Seq(Bytes) /\ Len(c) = k
    /\ \A i \in 1..k : c[i] = Byte(n, r + i)

\* Chunk by chunk the rest gets shorter.
LEMMA RestFacts ==
    ASSUME NEW chunks, NEW n \in Nat, NEW r \in 0..3, Rest(chunks, n, r)
    PROVE  /\ chunks = <<>> => r = 3
           /\ chunks # <<>> =>
                 \E k \in 1..3 : /\ NextChunk(Head(chunks), n, r, k)
                                 /\ Rest(Tail(chunks), n, r + k)
<1>1. \A a \in 1..3 : Byte(n, a) \in Bytes
      BY DEF Byte, Bytes
<1> DEFINE b1 == Byte(n, 1)
           b2 == Byte(n, 2)
           b3 == Byte(n, 3)
<1>2. b1 \in Bytes /\ b2 \in Bytes /\ b3 \in Bytes
      BY <1>1
<1>3. /\ \A q \in {0} : NextChunk(<<b1>>, n, q, 1) /\ NextChunk(<<b1, b2, b3>>, n, q, 3)
      /\ \A q \in {1} : NextChunk(<<b2>>, n, q, 1) /\ NextChunk(<<b2, b3>>, n, q, 2)
      /\ NextChunk(<<b3>>, n, 2, 1)
      BY <1>2 DEF NextChunk
<1> HIDE DEF b1, b2, b3
<1>4. CASE r = 3 /\ chunks = <<>>
      BY <1>4
<1>5. CASE r = 0 /\ chunks = << <<b1, b2, b3>> >>
  <2>1. Head(chunks) = <<b1, b2, b3>> /\ Tail(chunks) = <<>> /\ chunks # <<>>
        BY <1>5
  <2>2. Rest(Tail(chunks), n, r + 3)
        BY <1>5, <2>1 DEF Rest
  <2> QED
      BY <1>3, <1>5, <2>1, <2>2
<1>6. CASE r = 0 /\ chunks = << <<b1>>, <<b2>>, <<b3>> >>
  <2>1. Head(chunks) = <<b1>> /\ Tail(chunks) = << <<b2>>, <<b3>> >> /\ chunks # <<>>
        BY <1>6
  <2>2. Rest(Tail(chunks), n, r + 1)
        BY <1>6, <2>1 DEF Rest, b2, b3
  <2> QED
      BY <1>3, <1>6, <2>1, <2>2
<1>7. CASE r = 1 /\ chunks = << <<b2>>, <<b3>> >>
  <2>1. Head(chunks) = <<b2>> /\ Tail(chunks) = << <<b3>> >> /\ chunks # <<>>
        BY <1>7
  <2>2. Rest(Tail(chunks), n, r + 1)
        BY <1>7, <2>1 DEF Rest, b3
  <2> QED
      BY <1>3, <1>7, <2>1, <2>2
<1>8. CASE r = 2 /\ chunks = << <<b3>> >>
  <2>1. Head(chunks) = <<b3>> /\ Tail(chunks) = <<>> /\ chunks # <<>>
        BY <1>8
  <2>2. Rest(Tail(chunks), n, r + 1)
        BY <1>8, <2>1 DEF Rest
  <2> QED
      BY <1>3, <1>8, <2>1, <2>2
<1>9. CASE r = 0 /\ chunks = << <<b1>>, <<b2, b3>> >>
  <2>1. Head(chunks) = <<b1>> /\ Tail(chunks) = << <<b2, b3>> >> /\ chunks # <<>>
        BY <1>9
  <2>2. Rest(Tail(chunks), n, r + 1)
        BY <1>9, <2>1 DEF Rest, b2, b3
  <2> QED
      BY <1>3, <1>9, <2>1, <2>2
<1>10. CASE r = 1 /\ chunks = << <<b2, b3>> >>
  <2>1. Head(chunks) = <<b2, b3>> /\ Tail(chunks) = <<>> /\ chunks # <<>>
        BY <1>10
  <2>2. Rest(Tail(chunks), n, r + 2)
        BY <1>10, <2>1 DEF Rest
  <2> QED
      BY <1>3, <1>10, <2>1, <2>2
<1> QED
    BY <1>4, <1>5, <1>6, <1>7, <1>8, <1>9, <1>10 DEF Rest, b1, b2, b3

\* A place in what the peer has read belongs to one byte of one frame.
LEMMA PlaceUnique ==
    ASSUME NEW m \in Nat, NEW n \in Nat, NEW a \in 1..3, NEW e \in 1..3,
           3 * (m - 1) + a = 3 * (n - 1) + e
    PROVE  m = n /\ a = e
<1>1. 3 * (m - n) = e - a /\ m - n \in Int
      OBVIOUS
<1>2. m - n = 0
      BY <1>1
<1> QED
    BY <1>1, <1>2

\* The next bytes of the frame in work keep the order, all of them or some.
LEMMA InOrderFacts ==
    ASSUME NEW bytes, InOrder(bytes), NEW n \in Nat \ {0}, NEW r \in 0..3,
           Len(bytes) = 3 * (n - 1) + r,
           NEW c \in Seq(Bytes), r + Len(c) <= 3,
           \A i \in 1..Len(c) : c[i] = Byte(n, r + i)
    PROVE  /\ InOrder(bytes \o c)
           /\ Len(bytes \o c) = 3 * (n - 1) + (r + Len(c))
<1>1. /\ bytes \in Seq(Bytes) /\ Len(bytes) \in Nat /\ Len(c) \in Nat
      /\ \A m \in Nat \ {0}, a \in 1..3 :
            3 * (m - 1) + a <= Len(bytes) => bytes[3 * (m - 1) + a] = Byte(m, a)
      BY DEF InOrder
<1>2. PICK d : d = bytes \o c
      OBVIOUS
<1>3. /\ d \in Seq(Bytes) /\ Len(d) = Len(bytes) + Len(c)
      /\ \A i \in 1..Len(bytes) : d[i] = bytes[i]
      /\ \A i \in 1..Len(c) : d[Len(bytes) + i] = c[i]
  <2>1. d \in Seq(Bytes) /\ Len(d) = Len(bytes) + Len(c)
        BY <1>1, <1>2
  <2>2. \A i \in 1..Len(bytes) : d[i] = bytes[i]
        BY <1>1, <1>2
  <2>3. ASSUME NEW i \in 1..Len(c)
        PROVE  d[Len(bytes) + i] = c[i]
    <3>1. \A j \in 1 .. Len(bytes) + Len(c) :
             d[j] = IF j <= Len(bytes) THEN bytes[j] ELSE c[j - Len(bytes)]
          BY <1>1, <1>2, ConcatProperties
    <3>2. PICK k : k = Len(bytes) + i
          OBVIOUS
    <3>3. k \in 1 .. Len(bytes) + Len(c) /\ ~(k <= Len(bytes)) /\ k - Len(bytes) = i
          BY <1>1, <3>2
    <3>4. d[k] = c[k - Len(bytes)]
          BY <3>1, <3>3, Zenon
    <3> QED
        BY <3>2, <3>3, <3>4, Zenon
  <2> QED
      BY <2>1, <2>2, <2>3
<1>4. ASSUME NEW m \in Nat \ {0}, NEW a \in 1..3, 3 * (m - 1) + a <= Len(d)
      PROVE  d[3 * (m - 1) + a] = Byte(m, a)
  <2>1. CASE 3 * (m - 1) + a <= Len(bytes)
    <3>1. 3 * (m - 1) + a \in 1..Len(bytes)
          BY <1>1, <2>1
    <3> QED
        BY <1>1, <1>3, <2>1, <3>1
  <2>2. CASE ~(3 * (m - 1) + a <= Len(bytes))
    <3>1. PICK j : j = 3 * (m - 1) + a - Len(bytes)
          OBVIOUS
    <3>2. j \in 1..Len(c) /\ 3 * (m - 1) + a = Len(bytes) + j
          BY <1>1, <1>3, <1>4, <2>2, <3>1
    <3>3. m = n /\ a = r + j
      <4>1. /\ r + j \in 1..3 /\ 3 * (m - 1) + a = 3 * (n - 1) + (r + j)
            /\ m \in Int /\ n \in Int
            BY <1>1, <3>2
      <4> QED
          BY <4>1, PlaceUnique
    <3> QED
        BY <1>3, <3>2, <3>3
  <2> QED
      BY <2>1, <2>2
<1>5. Len(d) = 3 * (n - 1) + (r + Len(c))
      BY <1>1, <1>3
<1> QED
    BY <1>2, <1>3, <1>4, <1>5 DEF InOrder

\* What the peer decodes from bytes in order: the frames 1, 2, 3, ...
LEMMA DecodeFacts ==
    ASSUME NEW bytes, InOrder(bytes)
    PROVE  \E D \in Nat :
              /\ 3 * D <= Len(bytes) /\ Len(bytes) < 3 * D + 3
              /\ [i \in 1 .. Len(bytes) \div FrameLen |->
                    LET part == SubSeq(bytes, (i - 1) * FrameLen + 1, i * FrameLen)
                    IN  IF part = FrameBytes(part[1].n) THEN part[1].n ELSE 0]
                 = [i \in 1..D |-> i]
<1>1. bytes \in Seq(Bytes) /\ Len(bytes) \in Nat /\ FrameLen = 3
      BY FrameBytesFacts DEF InOrder
<1>2. PICK D : D = Len(bytes) \div FrameLen
      OBVIOUS
<1>3. D \in Nat /\ 3 * D <= Len(bytes) /\ Len(bytes) < 3 * D + 3
      BY <1>1, <1>2
<1>4. ASSUME NEW i \in 1..D
      PROVE  LET part == SubSeq(bytes, (i - 1) * FrameLen + 1, i * FrameLen)
             IN  part = FrameBytes(part[1].n) /\ part[1].n = i
  <2>1. PICK part : part = SubSeq(bytes, (i - 1) * FrameLen + 1, i * FrameLen)
        OBVIOUS
  <2>2. PICK lo : lo = 3 * (i - 1)
        OBVIOUS
  <2>3. /\ lo \in Nat /\ lo + 3 <= Len(bytes) /\ i \in Nat \ {0}
        /\ (i - 1) * FrameLen + 1 = lo + 1 /\ i * FrameLen = lo + 3
        BY <1>1, <1>3, <2>2
  <2>4. part = SubSeq(bytes, lo + 1, lo + 3)
        BY <2>1, <2>3
  <2>5. /\ part \in Seq(Bytes) /\ Len(part) = 3
        /\ part[1] = bytes[lo + 1] /\ part[2] = bytes[lo + 2] /\ part[3] = bytes[lo + 3]
    <3>1. lo + 1 \in 1..Len(bytes) /\ lo + 2 \in 1..Len(bytes) /\ lo + 3 \in 1..Len(bytes)
          BY <1>1, <2>3
    <3>2. part = [j \in 1..3 |-> bytes[lo + j]]
      <4>1. part = [j \in 1..((lo + 3) - (lo + 1) + 1) |-> bytes[j + (lo + 1) - 1]]
            BY <1>1, <2>3, <2>4, <3>1
      <4>2. (lo + 3) - (lo + 1) + 1 = 3 /\ \A j \in 1..3 : j + (lo + 1) - 1 = lo + j
            BY <2>3
      <4> QED
          BY <4>1, <4>2
    <3>3. \A j \in 1..3 : bytes[lo + j] \in Bytes
          BY <1>1, <2>3
    <3> QED
        BY <3>2, <3>3
  <2>6. ASSUME NEW a \in 1..3
        PROVE  bytes[3 * (i - 1) + a] = Byte(i, a)
    <3>1. 3 * (i - 1) + a <= Len(bytes)
          BY <1>1, <2>2, <2>3
    <3> QED
        BY <2>3, <3>1 DEF InOrder
  <2>7. part[1] = Byte(i, 1) /\ part[2] = Byte(i, 2) /\ part[3] = Byte(i, 3)
        BY <2>2, <2>5, <2>6
  <2>8. part = <<Byte(i, 1), Byte(i, 2), Byte(i, 3)>>
        BY <2>5, <2>7
  <2>9. part[1].n = i
        BY <2>7 DEF Byte
  <2> QED
      BY <2>1, <2>8, <2>9, FrameBytesFacts
<1> QED
    BY <1>2, <1>3, <1>4

-----------------------------------------------------------------------------
(* The steps and the types.                                                *)

\* The steps, one by one.
LEMMA Steps ==
    ASSUME [Next]_vars
    PROVE  \/ Advance
           \/ Arm
           \/ \E s \in Senders : Begin(s)
           \/ \E s \in Senders : BeginFrame(s)
           \/ \E s \in Senders : WriteFrame(s)
           \/ \E s \in Senders : EndFrameError(s) \/ Stopping(s) \/ Await(s)
           \/ \E s \in Senders : EndFrame(s)
           \/ \E s \in Senders : Enqueue(s)
           \/ \E s \in Senders : EnqueueError(s)
           \/ WriterTake
           \/ WaitUntil
           \/ WaitEnd
           \/ WriteAll
           \/ WriteError
           \/ WriterFinish
           \/ WriterStop
           \/ WriterReturn
           \/ Close
           \/ UNCHANGED <<now, waiter, stopped, armed, writeMu, pc, frame, due, frames, writer,
                          received>>
<1>1. StopConn \/ PeerClose \/ UNCHANGED vars =>
         UNCHANGED <<now, waiter, stopped, armed, writeMu, pc, frame, due, frames, writer,
                     received>>
      BY DEF StopConn, PeerClose, vars, clockVars, stopVars, sendVars, queueVars, writeVars,
         peerVars
<1> QED
    BY <1>1 DEF Next, Sender, WriteLoop

\* The types, after every step.
LEMMA TypeStep == NetTypes /\ [Next]_vars => NetTypes'
<1> SUFFICES ASSUME NetTypes, [Next]_vars PROVE NetTypes'
    OBVIOUS
<1> USE DEF clockVars, stopVars, sendVars, queueVars, writeVars, peerVars
<1>0. /\ NoFault \in Faults /\ NoFrame \in Frames
      /\ IdleWriter.at = "select" /\ IdleWriter.frame \in Frames /\ MaxDuration \in Nat
      BY NetworkAssumption DEF NoFault, NoFrame, IdleWriter, Faults, Frames
<1>1. CASE Advance
  <2>1. /\ UNCHANGED <<stopped, armed, frame, due, frames, writer>>
        /\ now < MaxDuration /\ now' = now + 1
        /\ waiter' = IF waiter <= now' THEN 0 ELSE waiter
        /\ pc' = pc \/ pc' = [pc EXCEPT ![Advancer] = "lock"]
        BY <1>1 DEF Advance
  <2>2. now' \in 0..MaxDuration /\ waiter' \in Int
        BY <1>0, <2>1 DEF NetTypes
  <2>3. pc' \in [Senders -> PCs]
        BY <2>1 DEF NetTypes, PCs
  <2> QED
      BY <2>1, <2>2, <2>3 DEF NetTypes
<1>2. CASE Arm
  <2>1. /\ UNCHANGED <<now, waiter, stopped, pc, frame, due, frames, writer>>
        BY <1>2 DEF Arm
  <2>2. PICK t \in Triggers :
           armed' = [fragment |-> armed.fragment \/ t.fragment,
                     coalesce |-> armed.coalesce \/ t.coalesce,
                     due |-> IF t.delay > 0 THEN now + t.delay ELSE armed.due]
        BY <1>2 DEF Arm
  <2>3. t.fragment \in BOOLEAN /\ t.coalesce \in BOOLEAN /\ t.delay \in Nat
        BY NetworkAssumption
  <2>4. armed.fragment \in BOOLEAN /\ armed.coalesce \in BOOLEAN /\ armed.due \in Nat /\ now \in Nat
        BY <1>0 DEF NetTypes, Faults
  <2>5. (IF t.delay > 0 THEN now + t.delay ELSE armed.due) \in Nat
        BY <2>3, <2>4
  <2>6. armed' \in Faults
        BY <2>2, <2>3, <2>4, <2>5 DEF Faults
  <2> QED
      BY <2>1, <2>6 DEF NetTypes
<1>3. ASSUME NEW s \in Senders, Begin(s) PROVE NetTypes'
  <2>1. /\ UNCHANGED <<now, waiter, stopped, armed, frame, due, frames, writer>>
        /\ pc' = [pc EXCEPT ![s] = "lock"]
        BY <1>3 DEF Begin
  <2> QED
      BY <2>1 DEF NetTypes, PCs
<1>4. ASSUME NEW s \in Senders, BeginFrame(s) PROVE NetTypes'
  <2>1. /\ UNCHANGED <<now, waiter, stopped, due, frames, writer>>
        /\ pc' = [pc EXCEPT ![s] = "write"]
        /\ frame' = [NoFrame EXCEPT !.fault = armed] /\ armed' = NoFault
        BY <1>4 DEF BeginFrame
  <2>2. frame' \in Frames
        BY <1>0, <2>1 DEF NetTypes, Frames
  <2> QED
      BY <1>0, <2>1, <2>2 DEF NetTypes, PCs
<1>5. ASSUME NEW s \in Senders, WriteFrame(s) PROVE NetTypes'
  <2>1. /\ UNCHANGED <<now, waiter, stopped, armed, frames, writer>>
        /\ \/ UNCHANGED <<frame, due>>
           \/ due' = Append(due, frame.fault.due) /\ frame' = [frame EXCEPT !.n = Len(due')]
        BY <1>5 DEF WriteFrame
  <2>2. pc' \in [Senders -> PCs]
        BY <1>5 DEF WriteFrame, NetTypes, PCs
  <2>3. frame.fault.due \in Nat /\ due \in Seq(Nat)
        BY DEF NetTypes, Frames, Faults
  <2>4. Append(due, frame.fault.due) \in Seq(Nat) /\ Len(Append(due, frame.fault.due)) \in Nat
        BY <2>3
  <2>5. due' \in Seq(Nat) /\ frame' \in Frames
        BY <2>1, <2>3, <2>4 DEF NetTypes, Frames
  <2> QED
      BY <2>1, <2>2, <2>5 DEF NetTypes
<1>6. ASSUME NEW s \in Senders, EndFrameError(s) \/ Stopping(s) \/ Await(s) PROVE NetTypes'
  <2>1. /\ UNCHANGED <<now, waiter, stopped, armed, due, frames, writer>>
        /\ pc' = [pc EXCEPT ![s] = "idle"] /\ frame' = NoFrame
        BY <1>6 DEF EndFrameError, Stopping, Await, Return
  <2> QED
      BY <1>0, <2>1 DEF NetTypes, PCs
<1>7. ASSUME NEW s \in Senders, EndFrame(s) PROVE NetTypes'
  <2>1. /\ UNCHANGED <<now, waiter, stopped, armed, due, frames, writer>>
        /\ pc' = [pc EXCEPT ![s] = "enqueue"]
        /\ frame' = [frame EXCEPT !.async = Target(frame.fault.due) > 0 \/ asyncFrames > 0]
        BY <1>7 DEF EndFrame
  <2>2. (Target(frame.fault.due) > 0 \/ asyncFrames > 0) \in BOOLEAN
        OBVIOUS
  <2>3. frame' \in Frames
        BY <2>1, <2>2 DEF NetTypes, Frames
  <2> QED
      BY <2>1, <2>3 DEF NetTypes, PCs
<1>8. ASSUME NEW s \in Senders, Enqueue(s) PROVE NetTypes'
  <2>1. /\ UNCHANGED <<now, waiter, stopped, armed, due, writer>>
        /\ frames' = Append(frames, frame)
        /\ pc' = [pc EXCEPT ![s] = "idle"] \/ pc' = [pc EXCEPT ![s] = "await"]
        /\ frame' = frame \/ frame' = NoFrame
        BY <1>8 DEF Enqueue, Return
  <2>2. frames' \in Seq(Frames)
        BY <2>1 DEF NetTypes
  <2> QED
      BY <1>0, <2>1, <2>2 DEF NetTypes, PCs
<1>9. ASSUME NEW s \in Senders, EnqueueError(s) PROVE NetTypes'
  <2>1. /\ UNCHANGED <<now, waiter, armed, due, frames, writer>>
        /\ stopped' = TRUE \/ stopped' = stopped
        /\ pc' = [pc EXCEPT ![s] = "idle"] \/ pc' = [pc EXCEPT ![s] = "stopping"]
        /\ frame' = frame \/ frame' = NoFrame
        BY <1>9 DEF EnqueueError, Return
  <2> QED
      BY <1>0, <2>1 DEF NetTypes, PCs
<1>10. CASE WriterTake
  <2>1. /\ UNCHANGED <<now, waiter, stopped, armed, pc, frame, due>>
        /\ frames # <<>> /\ frames' = Tail(frames)
        BY <1>10 DEF WriterTake
  <2>2. \E a \in {"delayed", "write"} :
           writer' = [at |-> a, frame |-> Head(frames), rest |-> Chunks(Head(frames))]
        BY <1>10 DEF WriterTake
  <2>3. frames' \in Seq(Frames) /\ Head(frames) \in Frames
        BY <2>1 DEF NetTypes
  <2>4. /\ writer'.at \in Places /\ writer'.frame \in Frames
        /\ writer' = [at |-> writer'.at, frame |-> writer'.frame, rest |-> writer'.rest]
        BY <2>2, <2>3 DEF Places
  <2> QED
      BY <2>1, <2>3, <2>4 DEF NetTypes
<1>11. CASE WaitUntil \/ WaitEnd
  <2>1. /\ UNCHANGED <<now, stopped, armed, pc, frame, due, frames>>
        /\ waiter' = 0 \/ waiter' = Target(writer.frame.fault.due)
        BY <1>11 DEF WaitUntil, WaitEnd
  <2>2. \E a \in {"wait", "write", "failed"} : writer' = [writer EXCEPT !.at = a]
        BY <1>11 DEF WaitUntil, WaitEnd
  <2>3. waiter' \in Int
    <3>1. writer.frame.fault.due \in Nat
          BY DEF NetTypes, Frames, Faults
    <3>2. Target(writer.frame.fault.due) \in Int
          BY <1>0, <3>1 DEF Target
    <3> QED
        BY <2>1, <3>2
  <2>4. /\ writer'.at \in Places /\ writer'.frame \in Frames
        /\ writer' = [at |-> writer'.at, frame |-> writer'.frame, rest |-> writer'.rest]
        BY <2>2 DEF NetTypes, Places
  <2> QED
      BY <2>1, <2>3, <2>4 DEF NetTypes
<1>12. CASE WriteAll \/ WriteError
  <2>1. UNCHANGED <<now, waiter, stopped, armed, pc, frame, due, frames>>
        BY <1>12 DEF WriteAll, WriteError
  <2>2. \/ writer' = [writer EXCEPT !.rest = Tail(writer.rest)]
        \/ writer' = [writer EXCEPT !.at = "failed"]
        BY <1>12 DEF WriteAll, WriteError
  <2>3. /\ writer'.at \in Places /\ writer'.frame \in Frames
        /\ writer' = [at |-> writer'.at, frame |-> writer'.frame, rest |-> writer'.rest]
        BY <2>2 DEF NetTypes, Places
  <2> QED
      BY <2>1, <2>3 DEF NetTypes
<1>13. CASE WriterFinish \/ WriterStop \/ WriterReturn \/ Close
  <2>1. /\ UNCHANGED <<now, waiter, armed, pc, frame, due, frames>>
        /\ stopped' = TRUE \/ stopped' = stopped
        BY <1>13 DEF WriterFinish, WriterStop, WriterReturn, Close
  <2>2. \/ writer' = writer
        \/ \E a \in Places : writer' = [IdleWriter EXCEPT !.at = a]
        BY <1>13 DEF WriterFinish, WriterStop, WriterReturn, Close, Places
  <2>3. /\ writer'.at \in Places /\ writer'.frame \in Frames
        /\ writer' = [at |-> writer'.at, frame |-> writer'.frame, rest |-> writer'.rest]
        BY <1>0, <2>2 DEF NetTypes, IdleWriter
  <2> QED
      BY <2>1, <2>3 DEF NetTypes
<1>14. CASE UNCHANGED <<now, waiter, stopped, armed, writeMu, pc, frame, due, frames, writer,
                        received>>
      BY <1>14 DEF NetTypes
<1> QED
    BY <1>1, <1>2, <1>3, <1>4, <1>5, <1>6, <1>7, <1>8, <1>9, <1>10, <1>11, <1>12, <1>13,
       <1>14, Steps

\* The types, in every reachable state.
LEMMA TypesCorrect == Spec => []NetTypes
<1>1. Init => NetTypes
  <2> SUFFICES ASSUME Init PROVE NetTypes
      OBVIOUS
  <2>1. 0 \in 0..MaxDuration
        BY NetworkAssumption
  <2>2. NoFault \in Faults /\ NoFrame \in Frames
        BY DEF NoFault, NoFrame, Faults, Frames
  <2>3. due \in Seq(Nat) /\ frames \in Seq(Frames)
        BY DEF Init
  <2>4. pc \in [Senders -> PCs]
        BY DEF Init, PCs
  <2>5. /\ writer.at \in Places /\ writer.frame \in Frames
        /\ writer = [at |-> writer.at, frame |-> writer.frame, rest |-> writer.rest]
        BY <2>2 DEF Init, IdleWriter, Places
  <2>6. now = 0 /\ waiter = 0 /\ stopped = FALSE
        BY DEF Init
  <2>7. armed \in Faults /\ frame \in Frames
        BY <2>2 DEF Init
  <2>8. now \in 0..MaxDuration /\ waiter \in Int
        BY <2>1, <2>6
  <2>9. stopped \in BOOLEAN
        BY <2>6
  <2> QED
      BY <2>3, <2>4, <2>5, <2>7, <2>8, <2>9, Zenon DEF NetTypes
<1> QED
    BY <1>1, TypeStep, PTL DEF Spec

-----------------------------------------------------------------------------
(* The inductive invariant.                                                *)

\* The holder of writeMu, and the frame in its hand.
LEMMA HolderStep == NetTypes /\ HolderInv /\ [Next]_vars => HolderInv'
<1> SUFFICES ASSUME NetTypes, HolderInv, [Next]_vars PROVE HolderInv'
    OBVIOUS
<1> USE DEF clockVars, stopVars, sendVars, queueVars, writeVars, peerVars
<1>0. Len(due) \in Nat /\ frame.fault.due \in Nat /\ due \in Seq(Nat)
      BY DEF NetTypes, Frames, Faults
<1>1. ASSUME NEW s \in Senders, pc' = [pc EXCEPT ![s] = "lock"], UNCHANGED <<writeMu, frame, due>>
      PROVE  HolderInv'
      BY <1>1 DEF HolderInv, Busy, Holding, NetTypes
<1>2. ASSUME NEW s \in Senders, BeginFrame(s) PROVE HolderInv'
  <2>1. /\ writeMu = None /\ writeMu' = s /\ due' = due
        /\ pc' = [pc EXCEPT ![s] = "write"]
        BY <1>2 DEF BeginFrame
  <2>2. \A t \in Senders : pc[t] \notin Busy
        BY <2>1, NetworkAssumption DEF HolderInv, Senders
  <2>3. \A t \in Senders : IF t = s THEN pc'[t] = "write" ELSE pc'[t] \notin Busy
        BY <2>1, <2>2 DEF NetTypes
  <2> QED
      BY <2>1, <2>3 DEF HolderInv, Busy, Holding
<1>3. ASSUME NEW s \in Senders, pc[s] \in Busy
      PROVE  writeMu = s /\ \A t \in Senders : t # s => pc[t] \notin Busy
      BY <1>3 DEF HolderInv
<1>4. ASSUME NEW s \in Senders, WriteFrame(s) PROVE HolderInv'
  <2>1. pc[s] = "write" /\ writeMu' = writeMu
        BY <1>4 DEF WriteFrame
  <2>2. writeMu = s /\ \A t \in Senders : t # s => pc[t] \notin Busy
        BY <1>3, <2>1 DEF Busy
  <2>3. CASE pc' = [pc EXCEPT ![s] = "failed"]
    <3>1. \A t \in Senders : IF t = s THEN pc'[t] = "failed" ELSE pc'[t] \notin Busy
          BY <2>2, <2>3 DEF NetTypes
    <3> QED
        BY <2>1, <2>2, <3>1 DEF HolderInv, Busy, Holding
  <2>4. CASE /\ pc' = [pc EXCEPT ![s] = "end"]
             /\ due' = Append(due, frame.fault.due) /\ frame' = [frame EXCEPT !.n = Len(due')]
    <3>1. \A t \in Senders : IF t = s THEN pc'[t] = "end" ELSE pc'[t] \notin Busy
          BY <2>2, <2>4 DEF NetTypes
    <3>2. Len(due') = Len(due) + 1 /\ due'[Len(due) + 1] = frame.fault.due
          BY <1>0, <2>4
    <3>3. frame'.n = Len(due') /\ frame'.fault.due = frame.fault.due
          BY <2>4 DEF NetTypes, Frames
    <3>4. frame'.n >= 1 /\ frame'.fault.due = due'[frame'.n]
          BY <1>0, <3>2, <3>3
    <3> QED
        BY <2>1, <2>2, <3>1, <3>3, <3>4 DEF HolderInv, Busy, Holding
  <2> QED
      BY <1>4, <2>3, <2>4 DEF WriteFrame
<1>5. ASSUME NEW s \in Senders, pc[s] \in Busy, Return(s), due' = due PROVE HolderInv'
  <2>1. \A t \in Senders : pc'[t] \notin Busy
    <3>1. \A t \in Senders : pc'[t] = IF t = s THEN "idle" ELSE pc[t]
          BY <1>5 DEF Return, NetTypes
    <3> QED
        BY <1>3, <1>5, <3>1 DEF Busy
  <2> QED
      BY <2>1 DEF HolderInv, Busy, Holding
<1>6. ASSUME NEW s \in Senders, EndFrameError(s) \/ Stopping(s) \/ Await(s) PROVE HolderInv'
  <2>1. pc[s] \in Busy /\ Return(s) /\ due' = due
        BY <1>6 DEF EndFrameError, Stopping, Await, Busy
  <2> QED
      BY <1>5, <2>1
<1>7. ASSUME NEW s \in Senders, EndFrame(s) PROVE HolderInv'
  <2>1. /\ pc[s] = "end" /\ writeMu' = writeMu /\ due' = due
        /\ pc' = [pc EXCEPT ![s] = "enqueue"]
        /\ frame' = [frame EXCEPT !.async = Target(frame.fault.due) > 0 \/ asyncFrames > 0]
        BY <1>7 DEF EndFrame
  <2>2. frame'.n = frame.n /\ frame'.fault = frame.fault
        BY <2>1 DEF NetTypes, Frames
  <2>3. \A t \in Senders : pc'[t] = IF t = s THEN "enqueue" ELSE pc[t]
        BY <2>1 DEF NetTypes
  <2> QED
      BY <2>1, <2>2, <2>3 DEF HolderInv, Busy, Holding
<1>8. ASSUME NEW s \in Senders, Enqueue(s) \/ EnqueueError(s) PROVE HolderInv'
  <2>1. pc[s] \in Busy /\ due' = due
        BY <1>8 DEF Enqueue, EnqueueError, Busy
  <2>2. CASE Return(s)
        BY <1>5, <2>1, <2>2
  <2>3. CASE ~Return(s)
    <3>1. /\ writeMu' = writeMu
          /\ pc' = [pc EXCEPT ![s] = "await"] \/ pc' = [pc EXCEPT ![s] = "stopping"]
          BY <1>8, <2>3 DEF Enqueue, EnqueueError
    <3>2. \A t \in Senders : IF t = s THEN pc'[t] \in {"await", "stopping"}
                                       ELSE pc'[t] = pc[t]
          BY <3>1 DEF NetTypes
    <3>3. writeMu = s /\ \A t \in Senders : t # s => pc[t] \notin Busy
          BY <1>3, <2>1
    <3> QED
        BY <3>1, <3>2, <3>3 DEF HolderInv, Busy, Holding
  <2> QED
      BY <2>2, <2>3
<1>9. CASE UNCHANGED <<writeMu, pc, frame, due>>
      BY <1>9 DEF HolderInv
<1>10. CASE Advance
  <2>1. Advancer \in Senders
        BY DEF Senders
  <2> QED
      BY <1>1, <1>9, <1>10, <2>1 DEF Advance
<1>11. ASSUME NEW s \in Senders, Begin(s) PROVE HolderInv'
      BY <1>1, <1>11 DEF Begin
<1>12. Arm \/ WriterTake \/ WaitUntil \/ WaitEnd \/ WriteAll \/ WriteError \/ WriterFinish
         \/ WriterStop \/ WriterReturn \/ Close => UNCHANGED <<writeMu, pc, frame, due>>
      BY DEF Arm, WriterTake, WaitUntil, WaitEnd, WriteAll, WriteError, WriterFinish,
         WriterStop, WriterReturn, Close
<1> QED
    BY <1>2, <1>4, <1>6, <1>7, <1>8, <1>9, <1>10, <1>11, <1>12, Steps

\* When a frame may be written.
LEMMA ReadyStep == NetTypes /\ ReadyInv /\ [Next]_vars => ReadyInv'
<1> SUFFICES ASSUME NetTypes, ReadyInv, [Next]_vars PROVE ReadyInv'
    OBVIOUS
<1> USE DEF clockVars, stopVars, sendVars, queueVars, writeVars, peerVars
<1>0. /\ now \in Nat /\ now <= MaxDuration /\ waiter \in Int /\ MaxDuration \in Nat
      /\ writer.frame.fault.due \in Nat
      /\ Target(writer.frame.fault.due) \in Int
  <2>1. /\ now \in Nat /\ now <= MaxDuration /\ waiter \in Int /\ MaxDuration \in Nat
        /\ writer.frame.fault.due \in Nat
        BY NetworkAssumption DEF NetTypes, Frames, Faults
  <2> QED
      BY <2>1 DEF Target
<1>1. ASSUME NEW d \in Nat, Target(d) <= 0 \/ now >= Target(d) PROVE Ready(d)
      BY <1>0, <1>1 DEF Ready, Target
<1>2. CASE Advance
  <2>1. /\ now' = now + 1 /\ writer' = writer
        /\ waiter' = IF waiter <= now' THEN 0 ELSE waiter
        BY <1>2 DEF Advance
  <2> QED
      BY <1>0, <2>1 DEF ReadyInv, Ready
<1>3. CASE WriterTake
  <2>1. frames # <<>> /\ now' = now
        BY <1>3 DEF WriterTake
  <2>2. Head(frames) \in Frames
        BY <2>1 DEF NetTypes
  <2>3. Head(frames).fault.due \in Nat
        BY <2>2 DEF Frames, Faults
  <2>4. writer' = [at |-> IF Target(Head(frames).fault.due) > 0 THEN "delayed" ELSE "write",
                   frame |-> Head(frames), rest |-> Chunks(Head(frames))]
        BY <1>3 DEF WriterTake
  <2>5. CASE Target(Head(frames).fault.due) > 0
        BY <2>4, <2>5 DEF ReadyInv
  <2>6. CASE ~(Target(Head(frames).fault.due) > 0)
    <3>1. Target(Head(frames).fault.due) <= 0
          BY <1>0, <2>3, <2>6 DEF Target
    <3>2. Ready(Head(frames).fault.due)
          BY <1>1, <2>3, <3>1
    <3>3. writer'.at = "write" /\ writer'.frame = Head(frames)
          BY <2>4, <2>6
    <3> QED
        BY <2>1, <3>2, <3>3 DEF ReadyInv, Ready
  <2> QED
      BY <2>5, <2>6
<1>4. CASE WaitUntil
  <2>1. /\ now' = now /\ writer' = [writer EXCEPT !.at = "wait"]
        /\ waiter' = IF now >= Target(writer.frame.fault.due) THEN 0
                     ELSE Target(writer.frame.fault.due)
        BY <1>4 DEF WaitUntil
  <2>2. writer'.at = "wait" /\ writer'.frame = writer.frame
        BY <2>1 DEF NetTypes
  <2> QED
      BY <1>0, <2>1, <2>2 DEF ReadyInv
<1>5. CASE WaitEnd
  <2>1. writer.at = "wait" /\ now' = now
        BY <1>5 DEF WaitEnd
  <2>2. \/ waiter = 0 /\ writer' = [writer EXCEPT !.at = "write"]
        \/ writer' = [writer EXCEPT !.at = "failed"]
        BY <1>5 DEF WaitEnd
  <2>3. CASE waiter = 0 /\ writer' = [writer EXCEPT !.at = "write"]
    <3>1. Ready(writer.frame.fault.due)
          BY <1>0, <1>1, <2>1, <2>3 DEF ReadyInv
    <3>2. writer'.at = "write" /\ writer'.frame = writer.frame
          BY <2>3 DEF NetTypes
    <3> QED
        BY <2>1, <3>1, <3>2 DEF ReadyInv, Ready
  <2>4. CASE writer' = [writer EXCEPT !.at = "failed"]
    <3>1. writer'.at = "failed"
          BY <2>4 DEF NetTypes
    <3> QED
        BY <3>1 DEF ReadyInv
  <2> QED
      BY <2>2, <2>3, <2>4
<1>6. CASE WriteAll
  <2>1. UNCHANGED <<now, waiter>> /\ writer' = [writer EXCEPT !.rest = Tail(writer.rest)]
        BY <1>6 DEF WriteAll
  <2>2. writer'.at = writer.at /\ writer'.frame = writer.frame
        BY <2>1 DEF NetTypes
  <2> QED
      BY <2>1, <2>2 DEF ReadyInv, Ready
<1>7. CASE WriteError \/ WriterFinish \/ WriterStop \/ WriterReturn
  <2>1. \/ writer' = [writer EXCEPT !.at = "failed"]
        \/ \E a \in {"error", "select", "stopping", "done"} :
              writer' = [IdleWriter EXCEPT !.at = a]
        BY <1>7 DEF WriteError, WriterFinish, WriterStop, WriterReturn
  <2>2. writer'.at \in {"failed", "error", "select", "stopping", "done"}
        BY <2>1 DEF NetTypes, IdleWriter
  <2> QED
      BY <2>2 DEF ReadyInv
<1>8. CASE UNCHANGED <<now, waiter, writer>>
      BY <1>8 DEF ReadyInv, Ready
<1>9. \/ Advance \/ WriterTake \/ WaitUntil \/ WaitEnd \/ WriteAll
      \/ WriteError \/ WriterFinish \/ WriterStop \/ WriterReturn
      \/ UNCHANGED <<now, waiter, writer>>
      BY Steps DEF Arm, Begin, BeginFrame, WriteFrame, EndFrameError, Stopping, Await, EndFrame,
         Enqueue, EnqueueError, Close
<1> QED
    BY <1>2, <1>3, <1>4, <1>5, <1>6, <1>7, <1>8, <1>9

\* The queue behind frame b, when the senders, the stop or nobody moves.
LEMMA QueueStep ==
    ASSUME NetTypes, HolderInv, NEW b \in Nat, QueueInv(b), [Next]_vars, ~WriterTake
    PROVE  QueueInv(b)'
<1> USE DEF clockVars, stopVars, sendVars, queueVars, writeVars, peerVars
<1>0. /\ Len(due) \in Nat /\ due \in Seq(Nat) /\ Len(frames) \in Nat /\ frames \in Seq(Frames)
      /\ frame \in Frames /\ frame.fault.due \in Nat /\ stopped \in BOOLEAN
      BY DEF NetTypes, Frames, Faults
<1>1. ASSUME NEW s \in Senders, pc[s] \in Busy
      PROVE  writeMu = s /\ \A t \in Senders : t # s => pc[t] \notin Busy
      BY <1>1 DEF HolderInv
<1>2. ASSUME NEW s \in Senders, NEW x \in PCs, pc' = [pc EXCEPT ![s] = x],
             x \in Holding <=> pc[s] \in Holding
      PROVE  InHand' <=> InHand
      BY <1>2 DEF InHand, NetTypes
<1>3. ASSUME UNCHANGED <<frames, due, stopped>>, InHand' <=> InHand PROVE QueueInv(b)'
      BY <1>3 DEF QueueInv
<1>4. ASSUME UNCHANGED <<frames, due>>, stopped' PROVE QueueInv(b)'
      BY <1>4 DEF QueueInv
<1>5. ASSUME NEW s \in Senders, NEW x \in PCs, pc' = [pc EXCEPT ![s] = x],
             x \in Holding <=> pc[s] \in Holding, UNCHANGED <<frames, due, stopped>>
      PROVE  QueueInv(b)'
      BY <1>2, <1>3, <1>5
<1>6. CASE UNCHANGED <<frames, due, stopped, pc>>
      BY <1>3, <1>6 DEF InHand
<1>7. CASE Advance
  <2>1. Advancer \in Senders /\ "lock" \in PCs /\ "lock" \notin Holding
        BY DEF Senders, PCs, Holding
  <2>2. /\ pc[Advancer] = "idle" /\ UNCHANGED <<frames, due, stopped>>
        /\ pc' = pc \/ pc' = [pc EXCEPT ![Advancer] = "lock"]
        BY <1>7 DEF Advance
  <2> QED
      BY <1>5, <1>6, <2>1, <2>2 DEF Holding
<1>8. ASSUME NEW s \in Senders, Begin(s) \/ BeginFrame(s) PROVE QueueInv(b)'
  <2>1. \E x \in {"lock", "write"} : pc' = [pc EXCEPT ![s] = x]
        BY <1>8 DEF Begin, BeginFrame
  <2>2. pc[s] \in {"idle", "lock"} /\ UNCHANGED <<frames, due, stopped>>
        BY <1>8 DEF Begin, BeginFrame
  <2> QED
      BY <1>5, <2>1, <2>2 DEF PCs, Holding
<1>9. ASSUME NEW s \in Senders, WriteFrame(s) PROVE QueueInv(b)'
  <2>1. pc[s] = "write" /\ UNCHANGED <<frames, stopped>>
        BY <1>9 DEF WriteFrame
  <2>2. CASE pc' = [pc EXCEPT ![s] = "failed"] /\ due' = due
        BY <1>5, <2>1, <2>2 DEF PCs, Holding
  <2>3. CASE /\ pc' = [pc EXCEPT ![s] = IF stopped THEN "failed" ELSE "end"]
             /\ due' = Append(due, frame.fault.due)
    <3>1. /\ Len(due') = Len(due) + 1
          /\ \A i \in 1..Len(due) : due'[i] = due[i]
          BY <1>0, <2>3
    <3>2. \A i \in 1..Len(frames) : b + i \in 1..Len(due)
          BY <1>0 DEF QueueInv
    <3>3. /\ \A i \in 1..Len(frames) : frames[i].n = b + i /\ frames[i].fault.due = due'[b + i]
          /\ b + Len(frames) <= Len(due')
      <4>1. \A i \in 1..Len(frames) : frames[i].n = b + i /\ frames[i].fault.due = due[b + i]
            BY DEF QueueInv
      <4>2. \A i \in 1..Len(frames) : due'[b + i] = due[b + i]
            BY <3>1, <3>2
      <4>3. b + Len(frames) <= Len(due')
            BY <1>0, <3>1 DEF QueueInv
      <4> QED
          BY <4>1, <4>2, <4>3
    <3>4. ~stopped => Len(due') = b + Len(frames) + (IF InHand' THEN 1 ELSE 0)
      <4> SUFFICES ASSUME ~stopped PROVE Len(due') = b + Len(frames) + (IF InHand' THEN 1 ELSE 0)
          OBVIOUS
      <4>1. ~InHand
        <5>1. \A t \in Senders : t # s => pc[t] \notin Busy
              BY <1>1, <2>1 DEF Busy
        <5> QED
            BY <2>1, <5>1 DEF InHand, Holding, Busy
      <4>2. InHand'
        <5>1. pc'[s] = "end"
              BY <2>3 DEF NetTypes
        <5> QED
            BY <5>1 DEF InHand, Holding
      <4>3. Len(due) = b + Len(frames)
            BY <1>0, <4>1 DEF QueueInv
      <4> QED
          BY <1>0, <3>1, <4>2, <4>3
    <3> QED
        BY <2>1, <3>3, <3>4 DEF QueueInv
  <2> QED
      BY <1>9, <2>2, <2>3 DEF WriteFrame
<1>10. ASSUME NEW s \in Senders, EndFrameError(s) \/ Stopping(s) \/ Await(s)
       PROVE  QueueInv(b)'
  <2>1. /\ pc[s] \in {"failed", "stopping", "await"} /\ pc' = [pc EXCEPT ![s] = "idle"]
        /\ UNCHANGED <<frames, due, stopped>>
        BY <1>10 DEF EndFrameError, Stopping, Await, Return
  <2> QED
      BY <1>5, <2>1 DEF PCs, Holding
<1>11. ASSUME NEW s \in Senders, EndFrame(s) PROVE QueueInv(b)'
  <2>1. /\ pc[s] = "end" /\ pc' = [pc EXCEPT ![s] = "enqueue"]
        /\ UNCHANGED <<frames, due, stopped>>
        BY <1>11 DEF EndFrame
  <2> QED
      BY <1>5, <2>1 DEF PCs, Holding
<1>12. ASSUME NEW s \in Senders, Enqueue(s) PROVE QueueInv(b)'
  <2>1. /\ pc[s] = "enqueue" /\ ~stopped /\ UNCHANGED <<due, stopped>>
        /\ frames' = Append(frames, frame)
        /\ pc' = [pc EXCEPT ![s] = "idle"] \/ pc' = [pc EXCEPT ![s] = "await"]
        BY <1>12 DEF Enqueue, Return
  <2>2. InHand /\ frame.n = Len(due) /\ frame.fault.due = due[frame.n]
        BY <2>1 DEF InHand, Holding, HolderInv
  <2>3. Len(due) = b + Len(frames) + 1
        BY <1>0, <2>1, <2>2 DEF QueueInv
  <2>4. ~InHand'
    <3>1. \A t \in Senders : t # s => pc[t] \notin Busy
          BY <1>1, <2>1 DEF Busy
    <3>2. \A t \in Senders : IF t = s THEN pc'[t] \in {"idle", "await"} ELSE pc'[t] = pc[t]
          BY <2>1 DEF NetTypes
    <3> QED
        BY <3>1, <3>2 DEF InHand, Holding, Busy
  <2>5. /\ Len(frames') = Len(frames) + 1
        /\ \A i \in 1..Len(frames) : frames'[i] = frames[i]
        /\ frames'[Len(frames) + 1] = frame
        BY <1>0, <2>1
  <2>6. ASSUME NEW i \in 1..Len(frames')
        PROVE  frames'[i].n = b + i /\ frames'[i].fault.due = due[b + i]
    <3>1. CASE i \in 1..Len(frames)
          BY <2>5, <3>1 DEF QueueInv
    <3>2. CASE i = Len(frames) + 1
      <4>1. b + i = Len(due)
            BY <1>0, <2>3, <3>2
      <4> QED
          BY <2>2, <2>5, <3>2, <4>1
    <3> QED
        BY <1>0, <2>5, <3>1, <3>2
  <2>7. Len(due) = b + Len(frames') /\ b + Len(frames') <= Len(due)
        BY <1>0, <2>3, <2>5
  <2>8. Len(due) = b + Len(frames') + (IF InHand' THEN 1 ELSE 0)
        BY <1>0, <2>4, <2>5, <2>7
  <2> QED
      BY <2>1, <2>6, <2>7, <2>8 DEF QueueInv
<1>13. ASSUME NEW s \in Senders, EnqueueError(s) PROVE QueueInv(b)'
  <2>1. UNCHANGED <<frames, due>> /\ stopped'
        BY <1>13 DEF EnqueueError
  <2> QED
      BY <1>4, <2>1
<1>14. CASE WriterStop \/ Close
      BY <1>4, <1>14 DEF WriterStop, Close
<1>15. Arm \/ WaitUntil \/ WaitEnd \/ WriteAll \/ WriteError \/ WriterFinish \/ WriterReturn
          => UNCHANGED <<frames, due, stopped, pc>>
      BY DEF Arm, WaitUntil, WaitEnd, WriteAll, WriteError, WriterFinish, WriterReturn
<1> QED
    BY <1>6, <1>7, <1>8, <1>9, <1>10, <1>11, <1>12, <1>13, <1>14, <1>15, Steps

\* The writer is left alone by the others, and the due time of a frame that is
\* encrypted stays.
LEMMA OtherSteps ==
    ASSUME NetTypes, [Next]_vars
    PROVE  /\ \A i \in 1..Len(due) : due'[i] = due[i]
           /\ \/ UNCHANGED <<writer, received>>
              \/ WriterTake \/ WaitUntil \/ WaitEnd \/ WriteAll \/ WriteError
              \/ WriterFinish \/ WriterStop \/ WriterReturn
<1> USE DEF clockVars, stopVars, sendVars, queueVars, writeVars, peerVars
<1>1. due' = due \/ \E s \in Senders : WriteFrame(s)
      BY Steps DEF Advance, Arm, Begin, BeginFrame, EndFrameError, Stopping, Await, EndFrame,
         Enqueue, EnqueueError, WriterTake, WaitUntil, WaitEnd, WriteAll, WriteError,
         WriterFinish, WriterStop, WriterReturn, Close
<1>2. ASSUME NEW s \in Senders, WriteFrame(s)
      PROVE  due' = due \/ due' = Append(due, frame.fault.due)
      BY <1>2 DEF WriteFrame
<1>3. due \in Seq(Nat) /\ frame.fault.due \in Nat
      BY DEF NetTypes, Frames, Faults
<1>4. \A i \in 1..Len(due) : Append(due, frame.fault.due)[i] = due[i]
      BY <1>3
<1>5. \/ UNCHANGED <<writer, received>>
      \/ WriterTake \/ WaitUntil \/ WaitEnd \/ WriteAll \/ WriteError
      \/ WriterFinish \/ WriterStop \/ WriterReturn
      BY Steps DEF Advance, Arm, Begin, BeginFrame, WriteFrame, EndFrameError, Stopping, Await,
         EndFrame, Enqueue, EnqueueError, Close
<1> QED
    BY <1>1, <1>2, <1>4, <1>5

\* The frame in work, when the write loop goes on with it.
LEMMA WorkStep ==
    ASSUME NetTypes, InOrder(received), NEW b \in Nat, WorkInv(b),
           WriteAll \/ WriteError, writer.at = "write"
    PROVE  \E r \in 0..3, k \in 0..3 :
              /\ Len(received) = 3 * (b - 1) + r /\ r + k <= 3
              /\ InOrder(received') /\ Len(received') = 3 * (b - 1) + (r + k)
              /\ WriteAll => Rest(Tail(writer.rest), b, r + k)
              /\ ~WriteAll => r + k < 3 \/ k = 0
<1>1. PICK r \in 0..3 : Len(received) = 3 * (b - 1) + r /\ Rest(writer.rest, b, r)
      BY DEF WorkInv
<1>2. b \in Nat \ {0}
      BY DEF WorkInv
<1>3. writer.rest # <<>>
      BY DEF WriteAll, WriteError
<1>4. PICK k \in 1..3 :
         NextChunk(Head(writer.rest), b, r, k) /\ Rest(Tail(writer.rest), b, r + k)
      BY <1>1, <1>2, <1>3, RestFacts
<1>5. PICK c : c = Head(writer.rest)
      OBVIOUS
<1>6. /\ r + k <= 3 /\ c \in Seq(Bytes) /\ Len(c) = k
      /\ \A i \in 1..k : c[i] = Byte(b, r + i)
      BY <1>4, <1>5 DEF NextChunk
<1>7. CASE WriteAll
  <2>1. received' = received \o c
        BY <1>5, <1>7 DEF WriteAll, Written
  <2>2. InOrder(received') /\ Len(received') = 3 * (b - 1) + (r + k)
        BY <1>1, <1>2, <1>6, <2>1, InOrderFacts
  <2>3. k \in 0..3
        OBVIOUS
  <2> QED
      BY <1>1, <1>4, <1>6, <1>7, <2>2, <2>3
<1>8. CASE ~WriteAll /\ received' = received
  <2>1. /\ 0 \in 0..3 /\ r + 0 = r /\ r + 0 <= 3
        /\ Len(received') = 3 * (b - 1) + (r + 0)
        BY <1>1, <1>8
  <2>2. InOrder(received')
        BY <1>8
  <2> QED
      BY <1>1, <1>8, <2>1, <2>2
<1>9. CASE ~WriteAll /\ received' # received
  <2>1. received' = received \o SubSeq(c, 1, Len(c) - 1)
        BY <1>5, <1>9 DEF WriteError, Written, peerVars
  <2>2. PICK d : d = SubSeq(c, 1, Len(c) - 1)
        OBVIOUS
  <2>3. /\ d \in Seq(Bytes) /\ Len(d) = k - 1 /\ \A i \in 1..(k - 1) : d[i] = c[i]
        BY <1>6, <2>2
  <2>4. PICK l : l = k - 1
        OBVIOUS
  <2>5. l \in 0..3 /\ r + l < 3 /\ \A i \in 1..l : i \in 1..k
        BY <1>6, <2>4
  <2>6. \A i \in 1..l : d[i] = Byte(b, r + i)
        BY <1>6, <2>3, <2>4, <2>5
  <2>7. Len(d) = l /\ r + Len(d) <= 3
        BY <2>3, <2>4, <2>5
  <2>8. InOrder(received') /\ Len(received') = 3 * (b - 1) + (r + l)
        BY <1>1, <1>2, <2>1, <2>2, <2>3, <2>6, <2>7, InOrderFacts
  <2>9. r + l <= 3
        BY <2>5
  <2> QED
      BY <1>1, <1>9, <2>5, <2>8, <2>9
<1> QED
    BY <1>7, <1>8, <1>9

\* The write loop works on the frames in order.
LEMMA PipeStep ==
    ASSUME NetTypes, InOrder(received), HolderInv, PipeInv, [Next]_vars
    PROVE  PipeInv' /\ InOrder(received')
<1> USE DEF clockVars, stopVars, sendVars, queueVars, writeVars, peerVars
<1>0. /\ Len(due) \in Nat /\ due \in Seq(Nat) /\ Len(frames) \in Nat /\ frames \in Seq(Frames)
      BY DEF NetTypes
<1>1. ASSUME ~Active', received' = received PROVE PipeInv' /\ InOrder(received')
      BY <1>1 DEF PipeInv
<1>2. ASSUME NEW b \in Nat, QueueInv(b), WorkInv(b), writer'.frame = writer.frame,
             writer'.rest = writer.rest, received' = received, ~WriterTake
      PROVE  QueueInv(b)' /\ WorkInv(b)'
  <2>1. b \in 1..Len(due)
        BY <1>0, <1>2 DEF QueueInv, WorkInv
  <2>2. due'[b] = due[b]
        BY <2>1, OtherSteps
  <2> QED
      BY <1>2, <2>2, QueueStep DEF WorkInv
<1>3. CASE UNCHANGED <<writer, received>> /\ ~WriterTake
  <2>1. Active' <=> Active
        BY <1>3 DEF Active
  <2>2. CASE ~Active
        BY <1>1, <1>3, <2>1, <2>2
  <2>3. CASE Active
    <3>1. PICK b \in Nat : /\ QueueInv(b)
                           /\ IF writer.at = "select" THEN Len(received) = 3 * b ELSE WorkInv(b)
          BY <2>3 DEF PipeInv
    <3>2. QueueInv(b)'
          BY <1>3, <3>1, QueueStep
    <3>3. writer.at # "select" => WorkInv(b)'
          BY <1>2, <1>3, <3>1
    <3> QED
        BY <1>3, <3>1, <3>2, <3>3 DEF PipeInv
  <2> QED
      BY <2>2, <2>3
<1>4. CASE WriterTake
  <2>1. /\ writer.at = "select" /\ frames # <<>> /\ frames' = Tail(frames)
        /\ UNCHANGED <<stopped, pc, due, received>>
        BY <1>4 DEF WriterTake
  <2>2. PICK b \in Nat : QueueInv(b) /\ Len(received) = 3 * b
        BY <2>1 DEF PipeInv, Active
  <2>3. /\ Len(frames) >= 1 /\ Head(frames) = frames[1] /\ Head(frames) \in Frames
        /\ Len(frames') = Len(frames) - 1
        /\ \A i \in 1..(Len(frames) - 1) : frames'[i] = frames[i + 1]
        BY <1>0, <2>1
  <2>4. PICK f : f = Head(frames)
        OBVIOUS
  <2>5. \E a \in {"delayed", "write"} : writer' = [at |-> a, frame |-> f, rest |-> Chunks(f)]
        BY <1>4, <2>4 DEF WriterTake
  <2>6. writer'.frame = f /\ writer'.rest = Chunks(f) /\ writer'.at # "select"
        BY <2>5
  <2>7. f.n = b + 1 /\ f.fault.due = due[b + 1]
    <3>1. 1 \in 1..Len(frames)
          BY <1>0, <2>3
    <3> QED
        BY <2>2, <2>3, <2>4, <3>1 DEF QueueInv
  <2>8. QueueInv(b + 1)'
    <3>1. ASSUME NEW i \in 1..Len(frames')
          PROVE  frames'[i].n = b + 1 + i /\ frames'[i].fault.due = due'[b + 1 + i]
      <4>1. i \in 1..(Len(frames) - 1) /\ i + 1 \in 1..Len(frames) /\ b + (i + 1) = b + 1 + i
            BY <1>0, <2>3
      <4> QED
          BY <2>1, <2>2, <2>3, <4>1 DEF QueueInv
    <3>2. b + 1 + Len(frames') <= Len(due')
          BY <1>0, <2>1, <2>2, <2>3 DEF QueueInv
    <3>3. InHand' <=> InHand
          BY <2>1 DEF InHand
    <3>4. ~stopped' => Len(due') = b + 1 + Len(frames') + (IF InHand' THEN 1 ELSE 0)
      <4> SUFFICES ASSUME ~stopped'
                   PROVE  Len(due') = b + 1 + Len(frames') + (IF InHand' THEN 1 ELSE 0)
          OBVIOUS
      <4>1. PICK h : h = IF InHand THEN 1 ELSE 0
            OBVIOUS
      <4>2. h \in Nat /\ h = IF InHand' THEN 1 ELSE 0
            BY <3>3, <4>1
      <4>3. Len(due) = b + Len(frames) + h
            BY <2>1, <2>2, <4>1 DEF QueueInv
      <4>4. Len(due) = b + 1 + Len(frames') + h
            BY <1>0, <2>3, <4>2, <4>3
      <4> QED
          BY <2>1, <4>2, <4>4
    <3> QED
        BY <3>1, <3>2, <3>4 DEF QueueInv
  <2>9. WorkInv(b + 1)'
    <3>1. Rest(writer'.rest, b + 1, 0)
          BY <2>3, <2>4, <2>6, <2>7, ChunksFacts
    <3>2. b + 1 >= 1 /\ 0 \in 0..3 /\ Len(received') = 3 * ((b + 1) - 1) + 0
          BY <2>1, <2>2
    <3> QED
        BY <2>1, <2>6, <2>7, <3>1, <3>2 DEF WorkInv
  <2>10. b + 1 \in Nat
        OBVIOUS
  <2> QED
      BY <2>1, <2>6, <2>8, <2>9, <2>10 DEF PipeInv
<1>5. CASE (WaitUntil \/ WaitEnd) /\ ~WriterTake
  <2>1. writer.at \in {"delayed", "wait"} /\ received' = received
        BY <1>5 DEF WaitUntil, WaitEnd
  <2>2. \E a \in {"wait", "write", "failed"} : writer' = [writer EXCEPT !.at = a]
        BY <1>5 DEF WaitUntil, WaitEnd
  <2>3. /\ writer'.frame = writer.frame /\ writer'.rest = writer.rest
        /\ writer'.at # "select"
        BY <2>2 DEF NetTypes
  <2>4. PICK b \in Nat : QueueInv(b) /\ WorkInv(b)
        BY <2>1 DEF PipeInv, Active
  <2>5. QueueInv(b)' /\ WorkInv(b)'
        BY <1>2, <1>5, <2>1, <2>3, <2>4
  <2> QED
      BY <2>1, <2>3, <2>5 DEF PipeInv
<1>6. CASE WriteAll /\ ~WriterTake
  <2>1. writer.at = "write" /\ writer' = [writer EXCEPT !.rest = Tail(writer.rest)]
        BY <1>6 DEF WriteAll
  <2>2. writer'.frame = writer.frame /\ writer'.rest = Tail(writer.rest) /\ writer'.at = "write"
        BY <2>1 DEF NetTypes
  <2>3. PICK b \in Nat : QueueInv(b) /\ WorkInv(b)
        BY <2>1 DEF PipeInv, Active
  <2>4. PICK r \in 0..3, k \in 0..3 :
           /\ r + k <= 3
           /\ InOrder(received') /\ Len(received') = 3 * (b - 1) + (r + k)
           /\ Rest(Tail(writer.rest), b, r + k)
        BY <1>6, <2>1, <2>3, WorkStep
  <2>5. QueueInv(b)'
        BY <1>6, <2>3, QueueStep
  <2>6. r + k \in 0..3
        BY <2>4
  <2>7. due'[b] = due[b]
    <3>1. b \in 1..Len(due)
          BY <1>0, <2>3 DEF QueueInv, WorkInv
    <3> QED
        BY <3>1, OtherSteps
  <2>8. WorkInv(b)'
        BY <2>2, <2>3, <2>4, <2>6, <2>7 DEF WorkInv
  <2> QED
      BY <2>2, <2>4, <2>5, <2>8 DEF PipeInv
<1>7. CASE WriteError /\ ~WriteAll /\ ~WriterTake
  <2>1. writer.at = "write" /\ writer' = [writer EXCEPT !.at = "failed"]
        BY <1>7 DEF WriteError
  <2>2. ~Active'
    <3>1. writer'.at = "failed"
          BY <2>1 DEF NetTypes
    <3> QED
        BY <3>1 DEF Active
  <2>3. PICK b \in Nat : QueueInv(b) /\ WorkInv(b)
        BY <2>1 DEF PipeInv, Active
  <2>4. InOrder(received')
        BY <1>7, <2>1, <2>3, WorkStep
  <2> QED
      BY <2>2, <2>4 DEF PipeInv
<1>8. CASE WriterFinish /\ ~WriterTake
  <2>1. received' = received
        BY <1>8 DEF WriterFinish
  <2>2. CASE writer.at = "failed"
    <3>1. writer' = [IdleWriter EXCEPT !.at = "error"]
          BY <1>8, <2>2 DEF WriterFinish
    <3>2. ~Active'
          BY <3>1 DEF Active, IdleWriter
    <3> QED
        BY <1>1, <2>1, <3>2
  <2>3. CASE writer.at # "failed"
    <3>1. writer.at = "write" /\ writer.rest = <<>>
          BY <1>8, <2>3 DEF WriterFinish
    <3>2. writer' = [IdleWriter EXCEPT !.at = "select"]
          BY <1>8, <2>3 DEF WriterFinish
    <3>3. PICK b \in Nat : QueueInv(b) /\ WorkInv(b)
          BY <3>1 DEF PipeInv, Active
    <3>4. PICK r \in 0..3 : Len(received) = 3 * (b - 1) + r /\ Rest(<<>>, b, r)
          BY <3>1, <3>3 DEF WorkInv
    <3>5. r = 3
          BY <3>4, RestFacts
    <3>6. Len(received') = 3 * b
          BY <2>1, <3>4, <3>5
    <3>7. QueueInv(b)'
          BY <1>8, <3>3, QueueStep
    <3>8. writer'.at = "select"
          BY <3>2 DEF IdleWriter
    <3> QED
        BY <2>1, <3>6, <3>7, <3>8 DEF PipeInv
  <2> QED
      BY <2>2, <2>3
<1>9. CASE WriterStop \/ WriterReturn
  <2>1. /\ received' = received
        /\ \E a \in {"stopping", "done"} : writer' = [IdleWriter EXCEPT !.at = a]
        BY <1>9 DEF WriterStop, WriterReturn
  <2>2. ~Active'
        BY <2>1 DEF Active, IdleWriter
  <2> QED
      BY <1>1, <2>1, <2>2
<1> QED
    BY <1>3, <1>4, <1>5, <1>6, <1>7, <1>8, <1>9, OtherSteps

\* The inductive invariant holds in every reachable state.
LEMMA NetCorrect == Spec => [](NetTypes /\ NetInv)
<1>1. Init => NetInv
  <2> SUFFICES ASSUME Init PROVE NetInv
      OBVIOUS
  <2>1. /\ received = <<>> /\ frames = <<>> /\ due = <<>> /\ writer.at = "select"
        /\ \A s \in Senders : pc[s] = "idle"
        BY DEF Init, IdleWriter
  <2>2. Len(received) = 0 /\ Len(frames) = 0 /\ Len(due) = 0 /\ received \in Seq(Bytes)
        BY <2>1
  <2>3. InOrder(received)
        BY <2>2 DEF InOrder
  <2>4. HolderInv
        BY <2>1 DEF HolderInv, Busy, Holding
  <2>5. ~InHand
        BY <2>1 DEF InHand, Holding
  <2>6. QueueInv(0)
        BY <2>2, <2>5 DEF QueueInv
  <2>7. 0 \in Nat /\ Len(received) = 3 * 0
        BY <2>2
  <2>8. PipeInv
        BY <2>1, <2>6, <2>7 DEF PipeInv
  <2>9. ReadyInv
        BY <2>1 DEF ReadyInv
  <2> QED
      BY <2>3, <2>4, <2>8, <2>9 DEF NetInv
<1>2. NetTypes /\ NetInv /\ [Next]_vars => NetInv'
  <2> SUFFICES ASSUME NetTypes, NetInv, [Next]_vars PROVE NetInv'
      OBVIOUS
  <2>1. InOrder(received) /\ HolderInv /\ PipeInv /\ ReadyInv
        BY DEF NetInv
  <2>2. HolderInv' /\ ReadyInv'
        BY <2>1, HolderStep, ReadyStep
  <2>3. PipeInv' /\ InOrder(received')
        BY <2>1, PipeStep
  <2> QED
      BY <2>2, <2>3 DEF NetInv
<1> QED
    BY <1>1, <1>2, TypesCorrect, PTL DEF Spec

-----------------------------------------------------------------------------
(* The refinement.                                                         *)

\* What the peer decodes before a step.
LEMMA DecodedFacts ==
    ASSUME InOrder(received)
    PROVE  \E D \in Nat : /\ 3 * D <= Len(received) /\ Len(received) < 3 * D + 3
                          /\ Decoded = [i \in 1..D |-> i]
  BY DecodeFacts DEF Decoded

\* The same after it.
LEMMA DecodedFactsNext ==
    ASSUME InOrder(received')
    PROVE  \E D \in Nat : /\ 3 * D <= Len(received') /\ Len(received') < 3 * D + 3
                          /\ Decoded' = [i \in 1..D |-> i]
  BY DecodeFacts DEF Decoded

\* One more frame.
LEMMA OneMore ==
    ASSUME NEW D \in Nat
    PROVE  /\ [i \in 1..D |-> i] \in Seq(Nat) /\ Len([i \in 1..D |-> i]) = D
           /\ [i \in 1..(D + 1) |-> i] = Append([i \in 1..D |-> i], D + 1)
<1>1. [i \in 1..D |-> i] \in Seq(Nat) /\ Len([i \in 1..D |-> i]) = D
      OBVIOUS
<1>2. PICK s : s = [i \in 1..D |-> i]
      OBVIOUS
<1>3. s \in Seq(Nat) /\ Len(s) = D /\ \A i \in 1..D : s[i] = i
      BY <1>1, <1>2
<1>4. /\ Append(s, D + 1) \in Seq(Nat) /\ Len(Append(s, D + 1)) = D + 1
      /\ \A i \in 1..D : Append(s, D + 1)[i] = i
      /\ Append(s, D + 1)[D + 1] = D + 1
      BY <1>3
<1>5. \A i \in 1..(D + 1) : Append(s, D + 1)[i] = i
      BY <1>4
<1>6. Append(s, D + 1) = [i \in 1..(D + 1) |-> i]
      BY <1>4, <1>5
<1> QED
    BY <1>1, <1>2, <1>6

\* A write delivers the frame in work, when it was its last one, or nothing.
LEMMA WriteRefines ==
    ASSUME NetTypes, NetInv, WriteAll \/ WriteError
    PROVE  [Fifo!Next]_Fifo!vars
<1>1. UNCHANGED <<now, due>> /\ writer.at = "write"
      BY DEF WriteAll, WriteError, clockVars, sendVars
<1>2. PICK b \in Nat : QueueInv(b) /\ WorkInv(b)
      BY <1>1 DEF NetInv, PipeInv, Active
<1>3. PICK r \in 0..3, k \in 0..3 :
         /\ Len(received) = 3 * (b - 1) + r /\ r + k <= 3
         /\ InOrder(received') /\ Len(received') = 3 * (b - 1) + (r + k)
         /\ WriteAll => Rest(Tail(writer.rest), b, r + k)
         /\ ~WriteAll => r + k < 3 \/ k = 0
      BY <1>1, <1>2, WorkStep DEF NetInv
<1>4. PICK D \in Nat : /\ 3 * D <= Len(received) /\ Len(received) < 3 * D + 3
                       /\ Decoded = [i \in 1..D |-> i]
      BY DecodedFacts DEF NetInv
<1>5. PICK E \in Nat : /\ 3 * E <= Len(received') /\ Len(received') < 3 * E + 3
                       /\ Decoded' = [i \in 1..E |-> i]
      BY <1>3, DecodedFactsNext
<1>6. b >= 1 /\ b <= Len(due) /\ Len(due) \in Nat /\ writer.frame.fault.due = due[b]
  <2>1. b >= 1 /\ writer.frame.fault.due = due[b]
        BY <1>2 DEF WorkInv
  <2>2. Len(due) \in Nat /\ Len(frames) \in Nat
        BY DEF NetTypes
  <2>3. b + Len(frames) <= Len(due)
        BY <1>2 DEF QueueInv
  <2> QED
      BY <2>1, <2>2, <2>3
<1>7. CASE r = 3 \/ r + k < 3
  <2>1. E = D
        BY <1>3, <1>4, <1>5, <1>6, <1>7
  <2> QED
      BY <1>1, <1>4, <1>5, <2>1 DEF Fifo!vars
<1>8. CASE r < 3 /\ r + k = 3
  <2>1. D = b - 1 /\ E = D + 1
        BY <1>3, <1>4, <1>5, <1>6, <1>8
  <2>2. Len(Decoded) = D /\ Decoded' = Append(Decoded, D + 1)
        BY <1>4, <1>5, <2>1, OneMore
  <2>3. D < Len(due) /\ D + 1 = b
        BY <1>6, <2>1
  <2>4. due[b] <= now \/ due[b] > MaxDuration
        BY <1>1, <1>6 DEF NetInv, ReadyInv, Ready
  <2>5. Fifo!Arrives(Len(Decoded) + 1)
        BY <2>2, <2>3, <2>4 DEF Fifo!Arrives
  <2>6. Fifo!Deliver
        BY <1>1, <2>2, <2>3, <2>5 DEF Fifo!Deliver
  <2> QED
      BY <2>6 DEF Fifo!Next
<1> QED
    BY <1>3, <1>7, <1>8

\* Fragmented, coalesced, delayed and queued frames arrive whole and in nonce
\* order without a gap, none before it is due, also when a full queue, an
\* oversized frame, a closing peer or a stop come in between.
THEOREM FifoRefinement == Spec => ImplementsFrameFifo
<1>1. Init => Fifo!Init
  <2> SUFFICES ASSUME Init PROVE Fifo!Init
      OBVIOUS
  <2>1. received = <<>> /\ Len(received) = 0 /\ received \in Seq(Bytes)
        BY DEF Init
  <2>2. InOrder(received)
        BY <2>1 DEF InOrder
  <2>3. PICK D \in Nat : /\ 3 * D <= Len(received) /\ Decoded = [i \in 1..D |-> i]
        BY <2>2, DecodedFacts
  <2>4. D = 0
        BY <2>1, <2>3
  <2>5. [i \in 1..D |-> i] = <<>>
        BY <2>4
  <2> QED
      BY <2>3, <2>5 DEF Init, Fifo!Init
<1>2. NetTypes /\ NetInv /\ [Next]_vars => [Fifo!Next]_Fifo!vars
  <2> SUFFICES ASSUME NetTypes, NetInv, [Next]_vars PROVE [Fifo!Next]_Fifo!vars
      OBVIOUS
  <2> USE DEF clockVars, stopVars, sendVars, queueVars, writeVars, peerVars
  <2>1. CASE Advance
    <3>1. now' = now + 1 /\ now < MaxDuration /\ UNCHANGED <<due, received>>
          BY <2>1 DEF Advance
    <3>2. now' \in now..MaxDuration
          BY <3>1, NetworkAssumption DEF NetTypes
    <3>3. Decoded' = Decoded
          BY <3>1 DEF Decoded
    <3> QED
        BY <3>1, <3>2, <3>3 DEF Fifo!Next, Fifo!Advance
  <2>2. ASSUME NEW s \in Senders, WriteFrame(s) PROVE [Fifo!Next]_Fifo!vars
    <3>1. /\ due' = due \/ due' = Append(due, frame.fault.due)
          /\ UNCHANGED <<now, received>>
          BY <2>2 DEF WriteFrame
    <3>2. Decoded' = Decoded
          BY <3>1 DEF Decoded
    <3>3. CASE due' = due
          BY <3>1, <3>2, <3>3 DEF Fifo!vars
    <3>4. CASE due' = Append(due, frame.fault.due)
      <4>1. due \in Seq(Nat) /\ frame.fault.due \in Nat
            BY DEF NetTypes, Frames, Faults
      <4>2. /\ due' \in Seq(Nat) /\ Len(due) \in Nat /\ Len(due') = Len(due) + 1
            /\ \A i \in 1..Len(due) : due'[i] = due[i]
            BY <3>4, <4>1
      <4>3. SubSeq(due', 1, Len(due)) = due
            BY <4>1, <4>2
      <4> QED
          BY <3>1, <3>2, <4>2, <4>3 DEF Fifo!Next, Fifo!Send
    <3> QED
        BY <3>1, <3>3, <3>4
  <2>3. CASE WriteAll \/ WriteError
        BY <2>3, WriteRefines
  <2>4. CASE UNCHANGED <<now, due, received>>
    <3>1. Decoded' = Decoded
          BY <2>4 DEF Decoded
    <3> QED
        BY <2>4, <3>1 DEF Fifo!vars
  <2>5. \/ Advance \/ \E s \in Senders : WriteFrame(s)
        \/ WriteAll \/ WriteError
        \/ UNCHANGED <<now, due, received>>
        BY Steps DEF Arm, Begin, BeginFrame, EndFrameError, Stopping, Await, EndFrame, Enqueue,
           EnqueueError, WriterTake, WaitUntil, WaitEnd, WriterFinish, WriterStop, WriterReturn,
           Close
  <2> QED
      BY <2>1, <2>2, <2>3, <2>4, <2>5
<1> QED
    BY <1>1, <1>2, NetCorrect, PTL DEF Spec, ImplementsFrameFifo, Fifo!Spec

-----------------------------------------------------------------------------
(* Senders and the clock.                                                  *)

\* The write loop has a frame.
Working == writer.at \in {"delayed", "wait", "write", "failed"}
Delayed(f) == Target(f.fault.due) > 0

\* The frames a new frame comes behind.
Ahead == Len(frames) + (IF Working THEN 1 ELSE 0)

\* The place of the sender that holds writeMu.
HolderAt == IF writeMu = None THEN "idle" ELSE pc[writeMu]

\* The frame that a sender awaits is the only one: its result has come, or the
\* write loop takes it next, or writes it without a look at the clock.
OnItsWay ==
    \/ done = {frame.n} /\ frames = <<>> /\ ~Working
    \/ /\ done = {}
       /\ \/ frames = <<frame>> /\ writer.at \in {"select", "error"}
          \/ frames = <<>> /\ writer.at \in {"write", "failed"} /\ writer.frame = frame

\* With the holder of writeMu at the place at: frames that nobody awaits are
\* asynchronous and counted, and a synchronous frame is alone.
Flow(at) ==
    /\ at # "await" =>
          /\ done = {}
          /\ \A i \in 1..Len(frames) : frames[i].async
          /\ Working => writer.frame.async
          /\ asyncFrames = Ahead + (IF at = "enqueue" /\ frame.async THEN 1 ELSE 0)
    /\ at = "enqueue" /\ ~frame.async => Ahead = 0 /\ ~Delayed(frame)
    /\ at = "await" => /\ asyncFrames = 0 /\ ~frame.async /\ ~Delayed(frame)
                       /\ OnItsWay

\* The places that only a stopped connection leads to.
PlaceInv ==
    /\ writer.at \in {"stopping", "done"} => stopped
    /\ \A s \in Senders : pc[s] = "stopping" => stopped
    /\ connClosed => stopped

\* writeMu is not left locked.
MuInv == writeMu # None => writeMu \in Senders /\ pc[writeMu] \in Busy

FlowTypes == asyncFrames \in Int /\ Len(frames) <= QueueSize /\ MuInv

FlowInv == FlowTypes /\ PlaceInv /\ (~stopped => Flow(HolderAt))

\* Nothing that a sender waits for takes the clock: a locked writeMu has a holder
\* that is sending, only a stopped connection makes it wait for the end of Conn,
\* and the frame whose result it waits for is not behind a delayed one.
NobodyAwaitsClock ==
    /\ writeMu # None => pc[writeMu] \in Busy
    /\ connClosed \/ writer.at \in {"stopping", "done"} => stopped
    /\ \A s \in Senders :
          /\ pc[s] = "stopping" => stopped
          /\ pc[s] = "await" => stopped \/ OnItsWay

\* What a step of the holder of writeMu does to its place.
LEMMA HolderMoves ==
    ASSUME NetTypes, HolderInv, NEW s \in Senders, pc[s] \in Busy
    PROVE  /\ HolderAt = pc[s]
           /\ Return(s) => HolderAt' = "idle" /\ MuInv'
           /\ \A p \in Busy : writeMu' = writeMu /\ pc' = [pc EXCEPT ![s] = p] =>
                 HolderAt' = p /\ MuInv'
<1>1. writeMu = s /\ s # None
      BY NetworkAssumption DEF HolderInv, Senders
<1>2. ASSUME NEW p \in Busy, writeMu' = writeMu, pc' = [pc EXCEPT ![s] = p]
      PROVE  HolderAt' = p /\ MuInv'
  <2>1. pc'[s] = p
        BY <1>2 DEF NetTypes
  <2> QED
      BY <1>1, <1>2, <2>1 DEF HolderAt, MuInv
<1> QED
    BY <1>1, <1>2 DEF HolderAt, Return, MuInv

\* A sender that only begins does nothing to it.
LEMMA HolderStays ==
    ASSUME NetTypes, MuInv, writeMu' = writeMu,
           \/ pc' = pc
           \/ \E s \in Senders : pc[s] = "idle" /\ pc' = [pc EXCEPT ![s] = "lock"]
    PROVE  HolderAt' = HolderAt /\ MuInv'
<1>1. CASE writeMu = None
      BY <1>1 DEF HolderAt, MuInv
<1>2. CASE writeMu # None
  <2>1. writeMu \in Senders /\ pc[writeMu] \in Busy
        BY <1>2 DEF MuInv
  <2>2. pc'[writeMu] = pc[writeMu]
        BY <2>1 DEF NetTypes, Busy
  <2> QED
      BY <1>2, <2>1, <2>2 DEF HolderAt, MuInv
<1> QED
    BY <1>1, <1>2

\* Who waits for the end of Conn has stopped the connection.
LEMMA PlaceStep == NetTypes /\ PlaceInv /\ [Next]_vars => PlaceInv'
<1> SUFFICES ASSUME NetTypes, PlaceInv, [Next]_vars PROVE PlaceInv'
    OBVIOUS
<1> USE DEF clockVars, stopVars, sendVars, queueVars, writeVars, peerVars
<1>1. stopped => stopped'
      BY DEF Next, Sender, WriteLoop, Advance, Arm, Begin, BeginFrame, WriteFrame, EndFrameError,
         EndFrame, Enqueue, EnqueueError, Stopping, Await, WriterTake, WaitUntil, WaitEnd,
         WriteAll, WriteError, WriterFinish, WriterStop, WriterReturn, Close, StopConn,
         PeerClose, vars
<1>2. connClosed' => connClosed \/ stopped
      BY DEF Next, Sender, WriteLoop, Advance, Arm, Begin, BeginFrame, WriteFrame, EndFrameError,
         EndFrame, Enqueue, EnqueueError, Stopping, Await, WriterTake, WaitUntil, WaitEnd,
         WriteAll, WriteError, WriterFinish, WriterStop, WriterReturn, Close, StopConn,
         PeerClose, vars
<1>3. ASSUME NEW s \in Senders, pc'[s] = "stopping" PROVE pc[s] = "stopping" \/ stopped'
  <2>1. ASSUME NEW t \in Senders, NEW p \in PCs \ {"stopping"}, pc' = [pc EXCEPT ![t] = p]
        PROVE  pc[s] = "stopping"
        BY <1>3, <2>1 DEF NetTypes
  <2>2. ASSUME NEW t \in Senders, EnqueueError(t)
        PROVE  stopped' \/ pc' = [pc EXCEPT ![t] = "idle"]
        BY <2>2 DEF EnqueueError, Return
  <2>3. Advancer \in Senders
        BY DEF Senders
  <2>4. ASSUME NEW t \in Senders,
               Begin(t) \/ BeginFrame(t) \/ WriteFrame(t) \/ EndFrameError(t) \/ EndFrame(t)
                 \/ Enqueue(t) \/ Stopping(t) \/ Await(t)
        PROVE  \E p \in PCs \ {"stopping"} : pc' = [pc EXCEPT ![t] = p]
        BY <2>4 DEF Begin, BeginFrame, WriteFrame, EndFrameError, EndFrame, Enqueue, Stopping,
           Await, Return, PCs
  <2>5. Advance => pc' = pc \/ pc' = [pc EXCEPT ![Advancer] = "lock"]
        BY DEF Advance
  <2>6. Arm \/ WriteLoop \/ Close \/ StopConn \/ PeerClose \/ UNCHANGED vars => pc' = pc
        BY DEF Arm, WriteLoop, WriterTake, WaitUntil, WaitEnd, WriteAll, WriteError,
           WriterFinish, WriterStop, WriterReturn, Close, StopConn, PeerClose, vars
  <2>7. "idle" \in PCs \ {"stopping"} /\ "lock" \in PCs \ {"stopping"}
        BY DEF PCs
  <2> QED
      BY <1>3, <2>1, <2>2, <2>3, <2>4, <2>5, <2>6, <2>7 DEF Next, Sender
<1>4. writer'.at \in {"stopping", "done"} => writer.at \in {"stopping", "done"} \/ stopped'
  <2>1. writer' = writer \/ WriteLoop
        BY DEF Next, Sender, Advance, Arm, Begin, BeginFrame, WriteFrame, EndFrameError,
           EndFrame, Enqueue, EnqueueError, Stopping, Await, Close, StopConn, PeerClose, vars
  <2>2. WriterTake \/ WaitUntil \/ WaitEnd \/ WriteAll \/ WriteError \/ WriterFinish
          => writer'.at \notin {"stopping", "done"} \/ writer'.at = writer.at
        BY DEF WriterTake, WaitUntil, WaitEnd, WriteAll, WriteError, WriterFinish, IdleWriter,
           NetTypes
  <2>3. WriterStop => stopped'
        BY DEF WriterStop
  <2>4. WriterReturn => writer.at = "stopping" \/ stopped'
        BY DEF WriterReturn
  <2> QED
      BY <2>1, <2>2, <2>3, <2>4 DEF WriteLoop
<1> QED
    BY <1>1, <1>2, <1>3, <1>4 DEF PlaceInv

\* A step that leaves queue, count, results and the frame in work alone.
LEMMA FlowKept ==
    ASSUME NetTypes, NEW a, NEW b, Flow(a), UNCHANGED <<frames, asyncFrames, done>>,
           Working' <=> Working, Working => writer'.frame = writer.frame,
           \/ a = b /\ frame' = frame
           \/ a \notin {"enqueue", "await"} /\ b \notin {"enqueue", "await"},
           \/ writer'.at = writer.at
           \/ writer.at \in {"delayed", "wait"}
           \/ writer.at = "write" /\ writer'.at \in {"write", "failed"}
    PROVE  Flow(b)'
<1>1. Ahead' = Ahead
      BY DEF Ahead
<1>2. CASE a # "await"
  <2>1. b # "await" /\ ~(b # "enqueue" /\ a = "enqueue") /\ ~(b = "enqueue" /\ a # "enqueue")
        BY <1>2
  <2>2. b = "enqueue" => frame' = frame
        BY <2>1
  <2>3. /\ done' = {}
        /\ \A i \in 1..Len(frames') : frames'[i].async
        /\ Working' => writer'.frame.async
        BY <1>2 DEF Flow
  <2>4. asyncFrames' = Ahead' + (IF b = "enqueue" /\ frame'.async THEN 1 ELSE 0)
        BY <1>1, <1>2, <2>1, <2>2 DEF Flow
  <2>5. b = "enqueue" /\ ~frame'.async => Ahead' = 0 /\ ~(Delayed(frame)')
        BY <1>1, <2>1, <2>2 DEF Flow, Delayed
  <2> QED
      BY <2>1, <2>3, <2>4, <2>5 DEF Flow
<1>3. CASE a = "await"
  <2>1. b = "await" /\ frame' = frame
        BY <1>3
  <2>2. asyncFrames = 0 /\ ~frame.async /\ ~Delayed(frame) /\ OnItsWay
        BY <1>3 DEF Flow
  <2>3. OnItsWay'
        BY <2>1, <2>2 DEF OnItsWay, Working
  <2>4. ~(Delayed(frame)')
        BY <2>1, <2>2 DEF Delayed
  <2> QED
      BY <2>1, <2>2, <2>3, <2>4 DEF Flow
<1> QED
    BY <1>2, <1>3

\* The write loop takes a frame: the count ahead stays.
LEMMA FlowTake ==
    ASSUME NetTypes, NEW a, Flow(a), WriterTake
    PROVE  Flow(a)' /\ Len(frames') <= Len(frames)
<1> USE DEF clockVars, stopVars, sendVars, queueVars, writeVars, peerVars
<1>1. PICK f : f = Head(frames)
      OBVIOUS
<1>2. /\ frames \in Seq(Frames) /\ frames # <<>> /\ frames' = Tail(frames) /\ ~Working
      /\ UNCHANGED <<asyncFrames, done, frame>>
      BY DEF NetTypes, WriterTake, Working
<1>3. /\ Len(frames) \in Nat /\ Len(frames) >= 1 /\ Len(frames') = Len(frames) - 1
      /\ f = frames[1] /\ \A i \in 1..Len(frames') : frames'[i] = frames[i + 1]
      BY <1>1, <1>2
<1>4. /\ writer'.frame = f
      /\ writer'.at = IF Delayed(f) THEN "delayed" ELSE "write"
      BY <1>1 DEF WriterTake, Delayed
<1>5. Working'
      BY <1>4 DEF Working
<1>6. Ahead' = Ahead
      BY <1>2, <1>3, <1>5 DEF Ahead
<1>7. CASE a # "await"
  <2>1. /\ done' = {}
        /\ \A i \in 1..Len(frames') : frames'[i].async
        /\ writer'.frame.async
    <3>1. done = {} /\ \A i \in 1..Len(frames) : frames[i].async
          BY <1>7 DEF Flow
    <3>2. \A i \in 1..Len(frames') : i + 1 \in 1..Len(frames)
          BY <1>3
    <3>3. 1 \in 1..Len(frames)
          BY <1>3
    <3> QED
        BY <1>2, <1>3, <1>4, <3>1, <3>2, <3>3
  <2>2. asyncFrames' = Ahead' + (IF a = "enqueue" /\ frame'.async THEN 1 ELSE 0)
        BY <1>2, <1>6, <1>7 DEF Flow
  <2>3. a = "enqueue" /\ ~frame'.async => Ahead' = 0 /\ ~(Delayed(frame)')
        BY <1>2, <1>6 DEF Flow, Delayed
  <2>4. Flow(a)'
        BY <1>7, <2>1, <2>2, <2>3 DEF Flow
  <2> QED
      BY <1>3, <2>4
<1>8. CASE a = "await"
  <2>1. asyncFrames = 0 /\ ~frame.async /\ ~Delayed(frame) /\ OnItsWay
        BY <1>8 DEF Flow
  <2>2. done = {} /\ frames = <<frame>>
        BY <1>2, <2>1 DEF OnItsWay, Working
  <2>3. f = frame /\ frames' = <<>>
        BY <1>1, <1>2, <2>2
  <2>4. OnItsWay'
        BY <1>2, <1>4, <2>1, <2>2, <2>3 DEF OnItsWay
  <2>5. ~(Delayed(frame)')
        BY <1>2, <2>1 DEF Delayed
  <2>6. Flow(a)'
        BY <1>2, <1>8, <2>1, <2>4, <2>5 DEF Flow
  <2> QED
      BY <1>3, <2>6
<1> QED
    BY <1>7, <1>8

\* The write loop is through with a frame.
LEMMA FlowFinish ==
    ASSUME NetTypes, asyncFrames \in Int, NEW a, Flow(a), WriterFinish
    PROVE  Flow(a)'
<1> USE DEF clockVars, stopVars, sendVars, queueVars, writeVars, peerVars
<1>1. /\ Working /\ UNCHANGED <<frames, frame>>
      /\ done' = IF writer.frame.async THEN done ELSE done \cup {writer.frame.n}
      /\ asyncFrames' = IF writer.frame.async THEN asyncFrames - 1 ELSE asyncFrames
      BY DEF WriterFinish, Working
<1>2. ~Working' /\ writer'.at \in {"select", "error"}
      BY DEF WriterFinish, Working, IdleWriter
<1>3. Len(frames) \in Nat /\ Ahead = Len(frames) + 1 /\ Ahead' = Len(frames)
      BY <1>1, <1>2 DEF Ahead, NetTypes
<1>4. CASE a # "await"
  <2>1. /\ done = {} /\ \A i \in 1..Len(frames) : frames[i].async
        /\ writer.frame.async
        /\ asyncFrames = Ahead + (IF a = "enqueue" /\ frame.async THEN 1 ELSE 0)
        BY <1>1, <1>4 DEF Flow
  <2>2. ~(a = "enqueue" /\ ~frame.async)
        BY <1>3 DEF Flow
  <2>3. done' = {} /\ asyncFrames' = asyncFrames - 1
        BY <1>1, <2>1
  <2>4. asyncFrames' = Ahead' + (IF a = "enqueue" /\ frame'.async THEN 1 ELSE 0)
        BY <1>1, <1>3, <2>1, <2>3
  <2> QED
      BY <1>1, <1>2, <1>4, <2>1, <2>2, <2>3, <2>4 DEF Flow
<1>5. CASE a = "await"
  <2>1. asyncFrames = 0 /\ ~frame.async /\ ~Delayed(frame) /\ OnItsWay
        BY <1>5 DEF Flow
  <2>2. done = {} /\ frames = <<>> /\ writer.frame = frame
        BY <1>1, <2>1 DEF OnItsWay, Working
  <2>3. done' = {frame'.n} /\ asyncFrames' = 0
        BY <1>1, <2>1, <2>2
  <2>4. OnItsWay'
        BY <1>1, <1>2, <2>2, <2>3 DEF OnItsWay
  <2>5. ~(Delayed(frame)')
        BY <1>1, <2>1 DEF Delayed
  <2> QED
      BY <1>1, <1>5, <2>1, <2>3, <2>4, <2>5 DEF Flow
<1> QED
    BY <1>4, <1>5

\* A sender decides whether to wait for its frame: only a frame with none ahead,
\* not even a delayed one, is synchronous.
LEMMA FlowEnd ==
    ASSUME NetTypes, asyncFrames \in Int, NEW s \in Senders, EndFrame(s), Flow("end")
    PROVE  Flow("enqueue")' /\ asyncFrames' \in Int
<1> USE DEF clockVars, stopVars, sendVars, queueVars, writeVars, peerVars
<1>1. /\ done = {} /\ \A i \in 1..Len(frames) : frames[i].async
      /\ Working => writer.frame.async
      /\ asyncFrames = Ahead + 0
      BY DEF Flow
<1>2. Len(frames) \in Nat /\ Ahead \in Nat
      BY DEF NetTypes, Ahead
<1>3. UNCHANGED <<frames, done, writer>> /\ (Working' <=> Working)
      BY DEF EndFrame, Working
<1>4. Ahead' = Ahead
      BY <1>3 DEF Ahead, Working
<1>5. PICK async : async = (Target(frame.fault.due) > 0 \/ asyncFrames > 0)
      OBVIOUS
<1>6. /\ frame' = [frame EXCEPT !.async = async]
      /\ asyncFrames' = IF async THEN asyncFrames + 1 ELSE asyncFrames
      BY <1>5 DEF EndFrame
<1>7. frame'.async = async /\ frame'.fault = frame.fault
      BY <1>6 DEF NetTypes, Frames
<1>8. CASE async
  <2>1. frame'.async /\ asyncFrames' = Ahead' + 1
        BY <1>1, <1>2, <1>4, <1>6, <1>7, <1>8
  <2> QED
      BY <1>1, <1>2, <1>3, <1>4, <2>1 DEF Flow
<1>9. CASE ~async
  <2>1. ~frame'.async /\ asyncFrames' = Ahead'
        BY <1>1, <1>2, <1>4, <1>6, <1>7, <1>9
  <2>2. ~(Delayed(frame)') /\ ~(asyncFrames > 0)
        BY <1>5, <1>7, <1>9 DEF Delayed
  <2>3. Ahead' = 0
        BY <1>1, <1>2, <1>4, <2>2
  <2> QED
      BY <1>1, <1>3, <2>1, <2>2, <2>3 DEF Flow
<1> QED
    BY <1>5, <1>8, <1>9

\* A frame that is queued: the sender returns, or awaits the only frame.
LEMMA FlowEnqueue ==
    ASSUME NetTypes, PlaceInv, NEW s \in Senders, Enqueue(s), Flow("enqueue"),
           Len(frames) <= QueueSize
    PROVE  /\ Len(frames') <= QueueSize
           /\ frame.async => Flow("idle")'
           /\ ~frame.async => Flow("await")'
<1> USE DEF clockVars, stopVars, sendVars, queueVars, writeVars, peerVars
<1>1. /\ done = {} /\ \A i \in 1..Len(frames) : frames[i].async
      /\ Working => writer.frame.async
      /\ asyncFrames = Ahead + (IF frame.async THEN 1 ELSE 0)
      BY DEF Flow
<1>2. /\ frames \in Seq(Frames) /\ frame \in Frames /\ frames' = Append(frames, frame)
      /\ UNCHANGED <<asyncFrames, done, writer>> /\ Len(frames) < QueueSize
      /\ Working' <=> Working
      BY DEF NetTypes, Enqueue, Working
<1>3. /\ Len(frames) \in Nat /\ Len(frames') = Len(frames) + 1
      /\ \A i \in 1..Len(frames) : frames'[i] = frames[i]
      /\ frames'[Len(frames) + 1] = frame
      BY <1>2
<1>4. Len(frames') <= QueueSize
      BY <1>2, <1>3, NetworkAssumption
<1>5. Ahead' = Ahead + 1 /\ Ahead \in Nat
      BY <1>2, <1>3 DEF Ahead
<1>6. CASE frame.async
  <2>1. asyncFrames' = Ahead'
        BY <1>1, <1>2, <1>5, <1>6
  <2>2. \A i \in 1..Len(frames') : frames'[i].async
    <3>1. \A i \in 1..Len(frames') : i \in 1..Len(frames) \/ i = Len(frames) + 1
          BY <1>3
    <3> QED
        BY <1>1, <1>3, <1>6, <3>1
  <2>3. Ahead' \in Int
        BY <1>5
  <2>4. Flow("idle")'
        BY <1>1, <1>2, <2>1, <2>2, <2>3 DEF Flow
  <2> QED
      BY <1>4, <1>6, <2>4
<1>7. CASE ~frame.async
  <2>1. Ahead = 0 /\ ~Delayed(frame)
        BY <1>7 DEF Flow
  <2>2. Len(frames) = 0 /\ ~Working
        BY <1>3, <2>1 DEF Ahead
  <2>3. frames = <<>>
        BY <1>2, <2>2
  <2>4. frames' = <<frame>>
        BY <1>2, <2>3
  <2>5. frame' = frame
        BY <1>7 DEF Enqueue
  <2>6. ~stopped
        BY DEF Enqueue
  <2>7. writer.at \in {"select", "error"}
        BY <2>2, <2>6 DEF NetTypes, Places, Working, PlaceInv
  <2>8. OnItsWay'
        BY <1>1, <1>2, <2>4, <2>5, <2>7 DEF OnItsWay
  <2>9. asyncFrames' = 0 /\ ~frame'.async /\ ~(Delayed(frame)')
        BY <1>1, <1>2, <1>7, <2>1, <2>5 DEF Delayed
  <2>10. Flow("await")'
        BY <2>8, <2>9 DEF Flow
  <2> QED
      BY <1>4, <1>7, <2>10
<1> QED
    BY <1>6, <1>7

\* A sender has its result, and takes it along.
LEMMA FlowAwait ==
    ASSUME NetTypes, NEW s \in Senders, Await(s), ~stopped, Flow("await")
    PROVE  Flow("idle")'
<1> USE DEF clockVars, stopVars, sendVars, queueVars, writeVars, peerVars
<1>1. asyncFrames = 0 /\ OnItsWay
      BY DEF Flow
<1>2. frame.n \in done /\ UNCHANGED <<frames, asyncFrames, writer>> /\ done' = {}
      BY DEF Await
<1>3. frames = <<>> /\ ~Working
      BY <1>1, <1>2 DEF OnItsWay
<1>4. Len(frames') = 0 /\ ~Working'
      BY <1>2, <1>3 DEF Working
<1>5. Ahead' = 0
      BY <1>4 DEF Ahead
<1> QED
    BY <1>1, <1>2, <1>4, <1>5 DEF Flow

\* The counts, the lock and the frames on their way, after every step.
LEMMA FlowStep ==
    ASSUME NetTypes, HolderInv, FlowInv, [Next]_vars
    PROVE  FlowInv'
<1> USE DEF clockVars, stopVars, sendVars, queueVars, writeVars, peerVars
<1>0. FlowTypes /\ PlaceInv /\ PlaceInv' /\ MuInv
      BY PlaceStep DEF FlowInv, FlowTypes
<1>1. PICK a, b : a = HolderAt /\ b = HolderAt'
      OBVIOUS
<1>2. ~stopped => Flow(a)
      BY <1>1 DEF FlowInv
<1>3. SUFFICES FlowTypes' /\ (~stopped' => Flow(b)')
  <2>1. Flow(b)' => Flow(HolderAt)'
        BY <1>1 DEF Flow
  <2> QED
      BY <1>0, <2>1 DEF FlowInv
<1>4. ASSUME UNCHANGED <<writeMu, stopped, frames, asyncFrames, done, frame>>,
             \/ pc' = pc
             \/ \E s \in Senders : pc[s] = "idle" /\ pc' = [pc EXCEPT ![s] = "lock"],
             \/ writer' = writer
             \/ WaitUntil \/ WaitEnd \/ WriteAll \/ WriteError
      PROVE  FlowTypes' /\ (~stopped' => Flow(b)')
  <2>1. a = b /\ MuInv'
        BY <1>0, <1>1, <1>4, HolderStays
  <2>2. FlowTypes'
        BY <1>0, <1>4, <2>1 DEF FlowTypes
  <2>3. /\ Working' <=> Working
        /\ Working => writer'.frame = writer.frame
        /\ \/ writer'.at = writer.at
           \/ writer.at \in {"delayed", "wait"}
           \/ writer.at = "write" /\ writer'.at \in {"write", "failed"}
    <3>1. CASE writer' = writer
          BY <3>1 DEF Working
    <3>2. CASE WaitUntil
          BY <3>2 DEF WaitUntil, Working, NetTypes
    <3>3. CASE WaitEnd
          BY <3>3 DEF WaitEnd, Working, NetTypes
    <3>4. CASE WriteAll
          BY <3>4 DEF WriteAll, Working, NetTypes
    <3>5. CASE WriteError
          BY <3>5 DEF WriteError, Working, NetTypes
    <3> QED
        BY <1>4, <3>1, <3>2, <3>3, <3>4, <3>5
  <2> QED
      BY <1>2, <1>4, <2>1, <2>2, <2>3, FlowKept
<1>5. ASSUME UNCHANGED <<stopped, frames, asyncFrames, done, writer>>, MuInv',
             a \notin {"enqueue", "await"}, b \notin {"enqueue", "await"}
      PROVE  FlowTypes' /\ (~stopped' => Flow(b)')
  <2>1. FlowTypes'
        BY <1>0, <1>5 DEF FlowTypes
  <2>2. Working' <=> Working
        BY <1>5 DEF Working
  <2> QED
      BY <1>2, <1>5, <2>1, <2>2, FlowKept
<1>6. ASSUME NEW s \in Senders, BeginFrame(s) PROVE FlowTypes' /\ (~stopped' => Flow(b)')
  <2>1. /\ writeMu = None /\ writeMu' = s /\ pc' = [pc EXCEPT ![s] = "write"] /\ s # None
        BY <1>6, NetworkAssumption DEF BeginFrame, Senders
  <2>2. pc'[s] = "write"
        BY <2>1 DEF NetTypes
  <2>3. a = "idle" /\ b = "write" /\ MuInv'
        BY <1>1, <2>1, <2>2 DEF HolderAt, MuInv, Busy
  <2>4. UNCHANGED <<stopped, frames, asyncFrames, done, writer>>
        BY <1>6 DEF BeginFrame
  <2> QED
      BY <1>5, <2>3, <2>4
<1>7. ASSUME NEW s \in Senders, WriteFrame(s) \/ EndFrameError(s)
      PROVE  FlowTypes' /\ (~stopped' => Flow(b)')
  <2>1. pc[s] \in {"write", "failed"} /\ pc[s] \in Busy
        BY <1>7 DEF WriteFrame, EndFrameError, Busy
  <2>2. \/ Return(s)
        \/ \E p \in Busy : /\ p \notin {"enqueue", "await"} /\ writeMu' = writeMu
                           /\ pc' = [pc EXCEPT ![s] = p]
        BY <1>7 DEF WriteFrame, EndFrameError, Busy
  <2>3. a = pc[s] /\ b \notin {"enqueue", "await"} /\ MuInv'
        BY <1>1, <2>1, <2>2, HolderMoves
  <2>4. UNCHANGED <<stopped, frames, asyncFrames, done, writer>>
        BY <1>7 DEF WriteFrame, EndFrameError
  <2> QED
      BY <1>5, <2>1, <2>3, <2>4
<1>8. ASSUME NEW s \in Senders, EndFrame(s) PROVE FlowTypes' /\ (~stopped' => Flow(b)')
  <2>1. pc[s] = "end" /\ pc[s] \in Busy /\ "enqueue" \in Busy
        BY <1>8 DEF EndFrame, Busy
  <2>2. writeMu' = writeMu /\ pc' = [pc EXCEPT ![s] = "enqueue"] /\ UNCHANGED <<stopped, frames>>
        BY <1>8 DEF EndFrame
  <2>3. a = "end" /\ b = "enqueue" /\ MuInv'
        BY <1>1, <2>1, <2>2, HolderMoves
  <2>4. asyncFrames' \in Int
        BY <1>0, <1>8 DEF FlowTypes, EndFrame
  <2>5. ~stopped => Flow("enqueue")'
        BY <1>0, <1>2, <1>8, <2>3, FlowEnd DEF FlowTypes
  <2> QED
      BY <1>0, <2>2, <2>3, <2>4, <2>5 DEF FlowTypes
<1>9. ASSUME NEW s \in Senders, Enqueue(s) PROVE FlowTypes' /\ (~stopped' => Flow(b)')
  <2>1. pc[s] = "enqueue" /\ pc[s] \in Busy /\ "await" \in Busy /\ ~stopped /\ stopped' = stopped
        BY <1>9 DEF Enqueue, Busy
  <2>2. IF frame.async THEN Return(s)
        ELSE writeMu' = writeMu /\ pc' = [pc EXCEPT ![s] = "await"]
        BY <1>9 DEF Enqueue
  <2>3. a = "enqueue" /\ MuInv' /\ b = IF frame.async THEN "idle" ELSE "await"
        BY <1>1, <2>1, <2>2, HolderMoves
  <2>4. Len(frames') <= QueueSize /\ (frame.async => Flow("idle")')
        /\ (~frame.async => Flow("await")')
        BY <1>0, <1>2, <1>9, <2>1, <2>3, FlowEnqueue DEF FlowTypes
  <2>5. asyncFrames' = asyncFrames
        BY <1>9 DEF Enqueue
  <2> QED
      BY <1>0, <2>3, <2>4, <2>5 DEF FlowTypes
<1>10. ASSUME NEW s \in Senders, EnqueueError(s) \/ Stopping(s)
       PROVE  FlowTypes' /\ (~stopped' => Flow(b)')
  <2>1. pc[s] \in Busy /\ "stopping" \in Busy
        BY <1>10 DEF EnqueueError, Stopping, Busy
  <2>2. Return(s) \/ (writeMu' = writeMu /\ pc' = [pc EXCEPT ![s] = "stopping"])
        BY <1>10 DEF EnqueueError, Stopping
  <2>3. MuInv'
        BY <2>1, <2>2, HolderMoves
  <2>4. stopped' /\ UNCHANGED frames
        BY <1>0, <1>10 DEF EnqueueError, Stopping, PlaceInv
  <2>5. asyncFrames' \in Int
        BY <1>0, <1>10 DEF EnqueueError, Stopping, FlowTypes
  <2> QED
      BY <1>0, <2>3, <2>4, <2>5 DEF FlowTypes
<1>11. ASSUME NEW s \in Senders, Await(s) PROVE FlowTypes' /\ (~stopped' => Flow(b)')
  <2>1. pc[s] = "await" /\ pc[s] \in Busy /\ Return(s)
        /\ UNCHANGED <<stopped, frames, asyncFrames>>
        BY <1>11 DEF Await, Busy
  <2>2. a = "await" /\ b = "idle" /\ MuInv'
        BY <1>1, <2>1, HolderMoves
  <2>3. ~stopped => Flow("idle")'
        BY <1>2, <1>11, <2>2, FlowAwait
  <2> QED
      BY <1>0, <2>1, <2>2, <2>3 DEF FlowTypes
<1>12. ASSUME WriterTake \/ WriterFinish \/ WriterStop \/ WriterReturn \/ Close
       PROVE  FlowTypes' /\ (~stopped' => Flow(b)')
  <2>1. UNCHANGED <<writeMu, pc>>
        BY <1>12 DEF WriterTake, WriterFinish, WriterStop, WriterReturn, Close
  <2>2. a = b /\ MuInv'
        BY <1>0, <1>1, <2>1, HolderStays
  <2>3. asyncFrames' \in Int
        BY <1>0, <1>12 DEF WriterTake, WriterFinish, WriterStop, WriterReturn, Close, FlowTypes
  <2>4. CASE WriterTake
    <3>1. Len(frames') <= QueueSize
      <4>1. Len(frames) <= QueueSize /\ QueueSize \in Nat /\ frames \in Seq(Frames)
            /\ frames # <<>> /\ frames' = Tail(frames)
            BY <1>0, <2>4, NetworkAssumption DEF FlowTypes, NetTypes, WriterTake
      <4>2. Len(frames) \in Nat /\ Len(frames') = Len(frames) - 1
            BY <4>1
      <4> QED
          BY <4>1, <4>2
    <3>2. stopped' = stopped
          BY <2>4 DEF WriterTake
    <3>3. ~stopped => Flow(a)'
          BY <1>2, <2>4, FlowTake
    <3> QED
        BY <2>2, <2>3, <3>1, <3>2, <3>3 DEF FlowTypes
  <2>5. CASE WriterFinish
    <3>1. UNCHANGED <<stopped, frames>>
          BY <2>5 DEF WriterFinish
    <3>2. ~stopped => Flow(a)'
          BY <1>0, <1>2, <2>5, FlowFinish DEF FlowTypes
    <3> QED
        BY <1>0, <2>2, <2>3, <3>1, <3>2 DEF FlowTypes
  <2>6. CASE WriterStop \/ WriterReturn \/ Close
    <3>1. stopped' /\ frames' = frames
          BY <1>0, <2>6 DEF WriterStop, WriterReturn, Close, PlaceInv
    <3> QED
        BY <1>0, <2>2, <2>3, <3>1 DEF FlowTypes
  <2> QED
      BY <1>12, <2>4, <2>5, <2>6
<1>13. CASE Advance
  <2>1. Advancer \in Senders
        BY DEF Senders
  <2> QED
      BY <1>4, <1>13, <2>1 DEF Advance
<1>14. ASSUME NEW s \in Senders, Begin(s) PROVE FlowTypes' /\ (~stopped' => Flow(b)')
      BY <1>4, <1>14 DEF Begin
<1>15. CASE Arm \/ WaitUntil \/ WaitEnd \/ WriteAll \/ WriteError \/ StopConn \/ PeerClose
            \/ UNCHANGED vars
  <2>1. UNCHANGED <<writeMu, stopped, frames, asyncFrames, done, frame, pc>>
        BY <1>15 DEF Arm, WaitUntil, WaitEnd, WriteAll, WriteError, StopConn, PeerClose, vars
  <2>2. writer' = writer \/ WaitUntil \/ WaitEnd \/ WriteAll \/ WriteError
        BY <1>15 DEF Arm, StopConn, PeerClose, vars
  <2> QED
      BY <1>4, <2>1, <2>2
<1> QED
    BY <1>6, <1>7, <1>8, <1>9, <1>10, <1>11, <1>12, <1>13, <1>14, <1>15
       DEF Next, Sender, WriteLoop

\* No sender waits for the clock.  The write loop may hold a frame back for as
\* long as the clock stands still, and a sender that awaited a frame behind that
\* one would keep writeMu, and with it every other sender, the advance of the
\* clock itself among them.  With the fairness of goroutines it is what
\* SendersReturn takes.
THEOREM SendSafety == Spec => []NobodyAwaitsClock
<1>1. Init => FlowInv
  <2> SUFFICES ASSUME Init PROVE FlowInv
      OBVIOUS
  <2>1. /\ frames = <<>> /\ asyncFrames = 0 /\ done = {} /\ writer.at = "select"
        /\ ~stopped /\ ~connClosed /\ writeMu = None /\ \A s \in Senders : pc[s] = "idle"
        BY DEF Init, IdleWriter
  <2>2. Len(frames) = 0 /\ ~Working /\ HolderAt = "idle"
        BY <2>1 DEF Working, HolderAt
  <2>3. FlowTypes
        BY <2>1, <2>2, NetworkAssumption DEF FlowTypes, MuInv
  <2>4. PlaceInv
        BY <2>1 DEF PlaceInv
  <2>5. Ahead = 0
        BY <2>2 DEF Ahead
  <2>6. Flow("idle")
        BY <2>1, <2>2, <2>5 DEF Flow
  <2> QED
      BY <2>2, <2>3, <2>4, <2>6 DEF FlowInv
<1>2. NetTypes /\ NetInv /\ FlowInv /\ [Next]_vars => FlowInv'
      BY FlowStep DEF NetInv
<1>3. NetTypes /\ NetInv /\ FlowInv => NobodyAwaitsClock
  <2> SUFFICES ASSUME NetTypes, NetInv, FlowInv PROVE NobodyAwaitsClock
      OBVIOUS
  <2>1. ASSUME NEW s \in Senders, pc[s] = "await" PROVE stopped \/ OnItsWay
    <3>1. HolderAt = "await"
          BY <2>1, HolderMoves DEF NetInv, Busy
    <3> QED
        BY <3>1 DEF FlowInv, Flow
  <2> QED
      BY <2>1 DEF FlowInv, FlowTypes, MuInv, PlaceInv, NobodyAwaitsClock
<1> QED
    BY <1>1, <1>2, <1>3, NetCorrect, PTL DEF Spec

-----------------------------------------------------------------------------
(* Delayed frames.                                                         *)

\* WaitForIdle counts a delayed frame as long as the write loop holds it back;
\* the clock knows its waiter only while the loop waits for a target to come.
DelaysAccounted ==
    /\ pendingDelayed = IF writer.at \in {"delayed", "wait"} THEN 1 ELSE 0
    /\ waiter # 0 =>
          /\ writer.at = "wait"
          /\ waiter = Target(writer.frame.fault.due)
          /\ waiter > now

\* Only the write loop and the clock touch what is counted.
LEMMA DelaySteps ==
    ASSUME [Next]_vars
    PROVE  \/ Advance /\ UNCHANGED <<writer, pendingDelayed>>
           \/ WriterTake \/ WaitUntil \/ WaitEnd \/ WriteAll
           \/ WriteError \/ WriterFinish \/ WriterStop \/ WriterReturn
           \/ UNCHANGED <<now, waiter, writer, pendingDelayed>>
<1> USE DEF clockVars, stopVars, sendVars, queueVars, writeVars, peerVars
<1>1. Advance => UNCHANGED <<writer, pendingDelayed>>
      BY DEF Advance
<1>2. Arm \/ Close \/ StopConn \/ PeerClose \/ UNCHANGED vars =>
         UNCHANGED <<now, waiter, writer, pendingDelayed>>
      BY DEF Arm, Close, StopConn, PeerClose, vars
<1>3. ASSUME NEW s \in Senders, Begin(s) \/ Sender(s)
      PROVE  UNCHANGED <<now, waiter, writer, pendingDelayed>>
      BY <1>3 DEF Begin, Sender, BeginFrame, WriteFrame, EndFrameError, Stopping, Await, EndFrame,
         Enqueue, EnqueueError
<1> QED
    BY <1>1, <1>2, <1>3 DEF Next, WriteLoop

\* The count and the waiter follow the write loop.
LEMMA DelayStep == NetTypes /\ DelaysAccounted /\ [Next]_vars => DelaysAccounted'
<1> SUFFICES ASSUME NetTypes, DelaysAccounted, [Next]_vars PROVE DelaysAccounted'
    OBVIOUS
<1> USE DEF clockVars, stopVars, sendVars, queueVars, writeVars, peerVars
<1>0. /\ now \in Nat /\ waiter \in Int
      /\ Target(writer.frame.fault.due) \in Int
  <2>1. /\ now \in Nat /\ waiter \in Int /\ MaxDuration \in Nat
        /\ writer.frame.fault.due \in Nat
        BY NetworkAssumption DEF NetTypes, Frames, Faults
  <2> QED
      BY <2>1 DEF Target
<1>1. CASE Advance /\ UNCHANGED <<writer, pendingDelayed>>
  <2>1. now' = now + 1 /\ waiter' = IF waiter <= now' THEN 0 ELSE waiter
        BY <1>1 DEF Advance
  <2> QED
      BY <1>0, <1>1, <2>1 DEF DelaysAccounted
<1>2. CASE WriterTake
  <2>1. /\ writer.at = "select" /\ UNCHANGED <<now, waiter>>
        /\ writer'.at = IF Target(Head(frames).fault.due) > 0 THEN "delayed" ELSE "write"
        /\ pendingDelayed' =
              pendingDelayed + (IF Target(Head(frames).fault.due) > 0 THEN 1 ELSE 0)
        BY <1>2 DEF WriterTake
  <2> QED
      BY <2>1 DEF DelaysAccounted
<1>3. CASE WaitUntil
  <2>1. /\ writer.at = "delayed" /\ UNCHANGED <<now, pendingDelayed>>
        /\ waiter' = IF now >= Target(writer.frame.fault.due) THEN 0
                     ELSE Target(writer.frame.fault.due)
        BY <1>3 DEF WaitUntil
  <2>2. writer'.at = "wait" /\ writer'.frame = writer.frame
        BY <1>3 DEF WaitUntil, NetTypes
  <2> QED
      BY <1>0, <2>1, <2>2 DEF DelaysAccounted
<1>4. CASE WaitEnd
  <2>1. /\ writer.at = "wait" /\ waiter' = 0
        /\ pendingDelayed' = pendingDelayed - 1
        BY <1>4 DEF WaitEnd
  <2>2. writer'.at \in {"write", "failed"}
        BY <1>4 DEF WaitEnd, NetTypes
  <2> QED
      BY <2>1, <2>2 DEF DelaysAccounted
<1>5. CASE WriteAll \/ WriteError
  <2>1. writer.at = "write" /\ UNCHANGED <<now, waiter, pendingDelayed>>
        BY <1>5 DEF WriteAll, WriteError
  <2>2. writer'.at \in {"write", "failed"}
        BY <1>5, <2>1 DEF WriteAll, WriteError, NetTypes
  <2> QED
      BY <2>1, <2>2 DEF DelaysAccounted
<1>6. CASE WriterFinish \/ WriterStop \/ WriterReturn
  <2>1. /\ writer.at \in {"write", "failed", "error", "select", "stopping"}
        /\ UNCHANGED <<now, waiter, pendingDelayed>>
        BY <1>6 DEF WriterFinish, WriterStop, WriterReturn
  <2>2. writer'.at \in {"error", "select", "stopping", "done"}
        BY <1>6 DEF WriterFinish, WriterStop, WriterReturn, IdleWriter
  <2> QED
      BY <2>1, <2>2 DEF DelaysAccounted
<1>7. CASE UNCHANGED <<now, waiter, writer, pendingDelayed>>
      BY <1>7 DEF DelaysAccounted
<1> QED
    BY <1>1, <1>2, <1>3, <1>4, <1>5, <1>6, <1>7, DelaySteps

\* However a delayed frame's wait ends, by the clock or by a stop, it is no
\* longer counted and leaves no waiter with the clock; and the clock keeps none
\* whose target has come.  The safety half of StopReleases: a write loop that
\* has returned leaves nothing behind, and fairness makes it return.
THEOREM DelaySafety == Spec => []DelaysAccounted
<1>1. Init => DelaysAccounted
      BY DEF Init, DelaysAccounted, IdleWriter
<1> QED
    BY <1>1, DelayStep, TypesCorrect, PTL DEF Spec
=============================================================================
