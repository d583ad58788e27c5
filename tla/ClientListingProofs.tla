------------------------ MODULE ClientListingProofs -------------------------
(***************************************************************************)
(* Proofs about ClientListing, for any listers, any list of distinct       *)
(* entities and any number of state changes.                               *)
(***************************************************************************)
EXTENDS ClientListing, TLAPS

\* The frames that the device sends.
Frames == {Descriptor(k) : k \in Keys} \cup {StateOf(k, v) : k \in Keys, v \in States}
              \cup {Done}

\* The types of the state that TypeOK leaves out.
FrameTypes == frames \in Seq(Frames) /\ script \in Seq(Frames)

\* All that the device has yet to say to the dispatcher, and the frames of it
\* that belong to a listing.
Stream == frames \o script
Listing(f) == f.kind # "state"

\* The number of entities.
N == Len(EntityList)

\* The listing frame that comes after the i-th descriptor.
After(i) == IF i < N THEN Descriptor(EntityList[i + 1]) ELSE Done

\* The first listing frame of the stream s is g.
Ahead(s, g) ==
    \E j \in 1..Len(s) : s[j] = g /\ \A k \in 1..(j - 1) : ~Listing(s[k])

\* In the stream s every descriptor is followed by the next one of the list, or
\* by the completion: what the device sends is whole listings, with state
\* frames in between.
Chained(s) ==
    \A i \in 1..Len(s), n \in 1..N :
        s[i] = Descriptor(EntityList[n]) =>
            \E j \in (i + 1)..Len(s) :
                s[j] = After(n) /\ \A k \in (i + 1)..(j - 1) : ~Listing(s[k])

\* Before a completion in the stream s comes every descriptor that is not in R.
Known(s, R) ==
    \A i \in 1..Len(s), k \in Keys :
        s[i] = Done => k \in R \/ \E j \in 1..(i - 1) : s[j] = Descriptor(k)

\* c is a part of the declaration order that ends with the i-th entity.
EndsAt(c, i) ==
    Len(c) <= i /\ \A p \in 1..Len(c) : c[p] = EntityList[i - Len(c) + p]

\* What is on the way to the dispatcher, against the registry.
StreamInv ==
    /\ Chained(Stream)
    /\ NoStray => Known(Stream, DOMAIN registry)
    /\ RegistryComplete

\* The pending listing, and those that are over.
PendingInv ==
    /\ list # None => pc[list] \in {"send", "await", "cleanup"} /\ ~completed[list]
    /\ \A l \in Listers :
          /\ pc[l] = "idle" => collected[l] = <<>> /\ ~completed[l]
          /\ result[l] = "ok" => completed[l]
          /\ result[l] # "none" => pc[l] \in {"cleanup", "returned"}

\* What a listing has collected: the pending one up to the descriptor before
\* the next listing frame, the completed ones up to the end.
CollectInv ==
    /\ list # None => \E i \in 0..N :
          /\ EndsAt(collected[list], i)
          /\ collected[list] # <<>> => Ahead(Stream, After(i))
    /\ \A l \in Listers : completed[l] => EndsAt(collected[l], N)

ListingInv == StreamInv /\ PendingInv /\ CollectInv

-----------------------------------------------------------------------------
(* Connections without a duplicated completion and without a timeout.      *)

Clean == (\A t \in Triggers : faults[t] = 0) /\ \A m \in Listers : result[m] # "timeout"

\* Nothing of a listing is in the stream s; nothing of one follows a completion.
Quiet(s) == \A i \in 1..Len(s) : ~Listing(s[i])
Single(s) == \A i, j \in 1..Len(s) : s[i] = Done /\ i < j => ~Listing(s[j])

\* Of the requests r none, and at most one, is for a listing.
NoList(r) == \A i \in 1..Len(r) : r[i] # "list"
OneList(r) == \A i, j \in 1..Len(r) : r[i] = "list" /\ r[j] = "list" => i = j

\* At most one listing is under way.
OneInv ==
    /\ OneList(requests)
    /\ NoList(requests) \/ Quiet(Stream)
    /\ Single(Stream)

\* It is the pending one's, and what was collected is all that came before.
OwnInv ==
    /\ list = None => NoList(requests) /\ Quiet(Stream)
    /\ list # None =>
          /\ pc[list] = "await" \/ (NoList(requests) /\ Quiet(Stream))
          /\ Len(collected[list]) <= N
          /\ EndsAt(collected[list], Len(collected[list]))
          /\ IF Quiet(Stream) THEN collected[list] = <<>>
             ELSE Ahead(Stream, After(Len(collected[list])))
    /\ \A l \in Listers :
          /\ pc[l] = "send" => list = l
          /\ pc[l] = "await" /\ list # l => completed[l]

\* The completed listings are whole.
WholeInv == \A l \in Listers : completed[l] => collected[l] = EntityList

CleanInv == Clean => WholeInv /\ (phase # "done" => OneInv /\ OwnInv)

-----------------------------------------------------------------------------
(* The entities and the frames.                                            *)

\* The entities are listed once each, and there is one.
LEMMA ListFacts ==
    /\ N \in Nat /\ N >= 1
    /\ EntityList \in Seq(Keys)
    /\ \A i \in 1..N : EntityList[i] \in Keys
    /\ \A i, j \in 1..N : EntityList[i] = EntityList[j] => i = j
    /\ \A k \in Keys : \E i \in 1..N : EntityList[i] = k
<1>1. EntityList \in Seq(Keys) /\ EntityList # <<>>
      BY ListingAssumption DEF Keys
<1>2. N \in Nat /\ DOMAIN EntityList = 1..N /\ N >= 1
      BY <1>1 DEF N
<1>3. /\ \A i \in 1..N : EntityList[i] \in Keys
      /\ \A k \in Keys : \E i \in 1..N : EntityList[i] = k
      BY <1>2 DEF Keys, Range
<1>4. \A i, j \in 1..N : EntityList[i] = EntityList[j] => i = j
      BY <1>2, ListingAssumption
<1> QED
    BY <1>1, <1>2, <1>3, <1>4

\* The frames differ in their kind and key.
LEMMA FrameFacts ==
    /\ \A k : Descriptor(k).kind = "descriptor" /\ Descriptor(k).key = k
    /\ \A k, v : StateOf(k, v).kind = "state" /\ StateOf(k, v).key = k /\ StateOf(k, v).val = v
    /\ Done.kind = "done"
    /\ \A f \in Frames :
          \/ \E k \in Keys : f = Descriptor(k)
          \/ \E k \in Keys, v \in States : f = StateOf(k, v)
          \/ f = Done
    /\ \A f \in Frames :
          /\ Listing(f) => f = Done \/ \E i \in 1..N : f = Descriptor(EntityList[i])
          /\ ~Listing(f) => f # Done /\ \A k : f # Descriptor(k)
<1>1. /\ \A k : Descriptor(k).kind = "descriptor" /\ Descriptor(k).key = k
      /\ \A k, v : StateOf(k, v).kind = "state" /\ StateOf(k, v).key = k /\ StateOf(k, v).val = v
      /\ Done.kind = "done"
      BY DEF Descriptor, StateOf, Done
<1>2. \A f \in Frames :
          \/ \E k \in Keys : f = Descriptor(k)
          \/ \E k \in Keys, v \in States : f = StateOf(k, v)
          \/ f = Done
      BY DEF Frames
<1>3. ASSUME NEW f \in Frames, Listing(f)
      PROVE  f = Done \/ \E i \in 1..N : f = Descriptor(EntityList[i])
  <2>1. CASE \E k \in Keys : f = Descriptor(k)
        BY <2>1, ListFacts
  <2> QED
      BY <1>1, <1>2, <1>3, <2>1 DEF Listing
<1>4. ASSUME NEW f \in Frames, ~Listing(f)
      PROVE  f # Done /\ \A k : f # Descriptor(k)
      BY <1>1, <1>4 DEF Listing
<1> QED
    BY <1>1, <1>2, <1>3, <1>4

\* Descriptors and the completion are listing frames, and are frames.
LEMMA ListingFacts ==
    /\ Done \in Frames /\ Listing(Done)
    /\ \A i \in 1..N : /\ Descriptor(EntityList[i]) \in Frames
                       /\ Listing(Descriptor(EntityList[i]))
                       /\ Descriptor(EntityList[i]) # Done
                       /\ \A j \in 1..N : Descriptor(EntityList[i]) = Descriptor(EntityList[j])
                             => i = j
    /\ \A i \in 0..N : Listing(After(i)) /\ After(i) \in Frames
<1>1. Done \in Frames /\ Listing(Done)
      BY FrameFacts DEF Frames, Listing
<1>2. ASSUME NEW i \in 1..N
      PROVE  /\ Descriptor(EntityList[i]) \in Frames
             /\ Listing(Descriptor(EntityList[i]))
             /\ Descriptor(EntityList[i]) # Done
             /\ \A j \in 1..N : Descriptor(EntityList[i]) = Descriptor(EntityList[j]) => i = j
  <2>1. EntityList[i] \in Keys
        BY ListFacts
  <2>2. /\ Descriptor(EntityList[i]).kind = "descriptor"
        /\ Descriptor(EntityList[i]).key = EntityList[i]
        BY FrameFacts
  <2>3. \A j \in 1..N : Descriptor(EntityList[i]) = Descriptor(EntityList[j]) => i = j
        BY <2>2, FrameFacts, ListFacts
  <2> QED
      BY <2>1, <2>2, <2>3, FrameFacts DEF Frames, Listing
<1>3. ASSUME NEW i \in 0..N PROVE Listing(After(i)) /\ After(i) \in Frames
  <2>1. CASE i < N
    <3>1. i + 1 \in 1..N /\ After(i) = Descriptor(EntityList[i + 1])
          BY <2>1, ListFacts DEF After
    <3> QED
        BY <1>2, <3>1
  <2>2. CASE ~(i < N)
        BY <1>1, <2>2 DEF After
  <2> QED
      BY <2>1, <2>2
<1> QED
    BY <1>1, <1>2, <1>3

\* The faults are counted, and stand at the three triggers.
LEMMA FaultFacts ==
    ASSUME TypeOK
    PROVE  /\ faults["beforeEntitiesDone"] \in Nat
           /\ trigger # None => trigger \in Triggers /\ faults[trigger] \in Nat
           /\ trigger # None /\ NoStray => faults[trigger] = 0
<1>1. faults \in [Triggers -> Nat]
      BY ListingAssumption DEF TypeOK
<1>2. trigger # None => trigger \in {"afterHello", "afterInitialStates"}
      BY DEF TypeOK
<1> QED
    BY <1>1, <1>2 DEF Triggers, NoStray

\* What a listing consists of.
LEMMA ListingFramesFacts ==
    ASSUME TypeOK
    PROVE  LET L == ListingFrames
               M == N + 2 * faults["beforeEntitiesDone"] + 1
           IN  /\ L \in Seq(Frames) /\ M \in Nat /\ M >= N + 1
               /\ Len(L) = M
               /\ \A i \in 1..M : L[i] = IF i <= N THEN Descriptor(EntityList[i]) ELSE Done
<1> DEFINE M == N + 2 * faults["beforeEntitiesDone"] + 1
<1>1. M \in Nat /\ M >= N + 1
      BY FaultFacts, ListFacts
<1>2. ListingFrames = [i \in 1..M |-> IF i <= N THEN Descriptor(EntityList[i]) ELSE Done]
      BY DEF ListingFrames, N
<1> HIDE DEF M
<1>3. ASSUME NEW i \in 1..M
      PROVE  (IF i <= N THEN Descriptor(EntityList[i]) ELSE Done) \in Frames
  <2>1. i <= N => i \in 1..N
        BY <1>1, ListFacts
  <2> QED
      BY <2>1, ListingFacts
<1>4. ListingFrames \in Seq(Frames) /\ Len(ListingFrames) = M
      BY <1>1, <1>2, <1>3
<1>5. \A i \in 1..M :
         ListingFrames[i] = IF i <= N THEN Descriptor(EntityList[i]) ELSE Done
      BY <1>2
<1> QED
    BY <1>1, <1>4, <1>5 DEF M

-----------------------------------------------------------------------------
(* The steps, and what they do to the stream.                              *)

\* The device serves a request for a listing, and one for the states.
ServeList ==
    /\ DeviceServe /\ Head(requests) = "list" /\ ~FramerClosed
ServeStates ==
    /\ DeviceServe /\ Head(requests) # "list" /\ ~FramerClosed

\* The steps of shutdown and of the owner.
ConnStep == Close \/ CloseStep

\* The steps, one by one.
LEMMA Steps ==
    ASSUME [Next]_vars
    PROVE  \/ \E l \in Listers : Install(l)
           \/ \E l \in Listers : SendRequest(l)
           \/ \E l \in Listers : Await(l)
           \/ \E l \in Listers : Cleanup(l)
           \/ SubscribeStates
           \/ ServeList
           \/ ServeStates
           \/ DeviceTrigger /\ ~FramerClosed
           \/ DeviceSend /\ ~FramerClosed
           \/ DevicePush /\ ~FramerClosed
           \/ Dispatch
           \/ ConnStep
           \/ UNCHANGED vars
  BY DEF Next, ListEntities, Device, ServeList, ServeStates, ConnStep, Terminated

\* State frames are inserted into the stream, or nothing is.
StatesInserted ==
    \E p \in 0..Len(Stream), q \in Nat :
        /\ Len(Stream') = Len(Stream) + q
        /\ \A i \in 1..p : Stream'[i] = Stream[i]
        /\ \A i \in (p + 1)..(p + q) : ~Listing(Stream'[i])
        /\ \A i \in (p + q + 1)..(Len(Stream) + q) : Stream'[i] = Stream[i - q]

\* The elements of a concatenation.
LEMMA ConcatFacts ==
    ASSUME NEW S, NEW s \in Seq(S), NEW t \in Seq(S)
    PROVE  /\ s \o t \in Seq(S) /\ Len(s \o t) \in Nat
           /\ Len(s \o t) = Len(s) + Len(t)
           /\ \A i \in 1..Len(s \o t) : (s \o t)[i] \in S
           /\ \A i \in 1..Len(s) : (s \o t)[i] = s[i]
           /\ \A i \in 1..Len(t) : (s \o t)[Len(s) + i] = t[i]
<1>1. s \o t \in Seq(S) /\ Len(s \o t) = Len(s) + Len(t)
      OBVIOUS
<1>2. \A i \in 1..Len(s) : (s \o t)[i] = s[i]
      OBVIOUS
<1>3. \A i \in 1..Len(t) : (s \o t)[Len(s) + i] = t[i]
      OBVIOUS
<1>4. Len(s \o t) \in Nat /\ \A i \in 1..Len(s \o t) : (s \o t)[i] \in S
      BY <1>1
<1> QED
    BY <1>1, <1>2, <1>3, <1>4

\* The stream is a sequence of frames.
LEMMA StreamType ==
    ASSUME FrameTypes
    PROVE  /\ Stream \in Seq(Frames) /\ Len(Stream) \in Nat
           /\ Len(Stream) = Len(frames) + Len(script)
           /\ \A i \in 1..Len(Stream) : Stream[i] \in Frames
           /\ \A i \in 1..Len(frames) : Stream[i] = frames[i]
           /\ \A i \in 1..Len(script) : Stream[Len(frames) + i] = script[i]
  BY ConcatFacts DEF FrameTypes, Stream

\* So is it after a step.
LEMMA StreamTypeNext ==
    ASSUME FrameTypes'
    PROVE  /\ Stream' \in Seq(Frames) /\ Len(Stream') \in Nat
           /\ Len(Stream') = Len(frames') + Len(script')
           /\ \A i \in 1..Len(Stream') : Stream'[i] \in Frames
           /\ \A i \in 1..Len(frames') : Stream'[i] = frames'[i]
           /\ \A i \in 1..Len(script') : Stream'[Len(frames') + i] = script'[i]
<1>1. frames' \in Seq(Frames) /\ script' \in Seq(Frames) /\ Stream' = frames' \o script'
      BY DEF FrameTypes, Stream
<1> QED
    BY <1>1, ConcatFacts

\* A step that leaves the frames alone.
LEMMA StreamSame ==
    ASSUME FrameTypes, UNCHANGED <<frames, script>>
    PROVE  Stream' = Stream /\ StatesInserted
<1>1. Stream' = Stream
      BY DEF Stream
<1>2. Len(Stream) \in Nat
      BY StreamType
<1>3. Len(Stream) \in 0..Len(Stream) /\ 0 \in Nat
      BY <1>2
<1> QED
    BY <1>1, <1>2, <1>3 DEF StatesInserted

\* A frame of the script is sent: the stream is the same.
LEMMA StreamSend ==
    ASSUME FrameTypes, DeviceSend
    PROVE  Stream' = Stream /\ FrameTypes'
<1>1. /\ frames \in Seq(Frames) /\ script \in Seq(Frames) /\ script # <<>>
      /\ frames' = Append(frames, Head(script)) /\ script' = Tail(script)
      BY DEF FrameTypes, DeviceSend
<1>2. /\ Head(script) \in Frames /\ Len(script) \in Nat /\ Len(script) >= 1
      /\ Head(script) = script[1]
      /\ Tail(script) \in Seq(Frames) /\ Len(Tail(script)) = Len(script) - 1
      /\ \A i \in 1..(Len(script) - 1) : Tail(script)[i] = script[i + 1]
      BY <1>1
<1>3. /\ frames' \in Seq(Frames) /\ Len(frames) \in Nat /\ Len(frames') = Len(frames) + 1
      /\ \A i \in 1..Len(frames) : frames'[i] = frames[i]
      /\ frames'[Len(frames) + 1] = Head(script)
      BY <1>1, <1>2
<1>4. FrameTypes'
      BY <1>1, <1>2, <1>3 DEF FrameTypes
<1>5. /\ Stream \in Seq(Frames) /\ Len(Stream) = Len(frames) + Len(script)
      /\ \A i \in 1..Len(frames) : Stream[i] = frames[i]
      /\ \A i \in 1..Len(script) : Stream[Len(frames) + i] = script[i]
      BY StreamType
<1>6. /\ Stream' \in Seq(Frames) /\ Len(Stream') = Len(frames') + Len(script')
      /\ \A i \in 1..Len(frames') : Stream'[i] = frames'[i]
      /\ \A i \in 1..Len(script') : Stream'[Len(frames') + i] = script'[i]
      BY <1>4, StreamTypeNext
<1>7. Len(Stream') = Len(Stream) /\ Len(Stream) \in Nat
      BY <1>1, <1>2, <1>3, <1>5, <1>6
<1>8. ASSUME NEW i \in 1..Len(Stream) PROVE Stream'[i] = Stream[i]
  <2>1. CASE i \in 1..Len(frames)
    <3>1. i \in 1..Len(frames')
          BY <1>3, <2>1
    <3> QED
        BY <1>3, <1>5, <1>6, <2>1, <3>1
  <2>2. CASE i = Len(frames) + 1
    <3>1. i \in 1..Len(frames') /\ 1 \in 1..Len(script)
          BY <1>2, <1>3, <2>2
    <3>2. Stream[Len(frames) + 1] = script[1]
          BY <1>5, <3>1
    <3> QED
        BY <1>2, <1>3, <1>6, <2>2, <3>1, <3>2
  <2>3. CASE i > Len(frames) + 1
    <3> DEFINE m == i - (Len(frames) + 1)
    <3>1. /\ m \in 1..(Len(script) - 1) /\ m + 1 \in 1..Len(script)
          /\ i = Len(frames') + m /\ i = Len(frames) + (m + 1)
          BY <1>2, <1>3, <1>5, <2>3
    <3> HIDE DEF m
    <3>2. Stream'[i] = script'[m]
          BY <1>1, <1>2, <1>6, <3>1
    <3>3. Stream[i] = script[m + 1]
          BY <1>5, <3>1
    <3> QED
        BY <1>1, <1>2, <3>1, <3>2, <3>3
  <2> QED
      BY <1>3, <1>5, <2>1, <2>2, <2>3
<1> QED
    BY <1>4, <1>5, <1>6, <1>7, <1>8

\* A request for a listing is served: the listing goes to the stream's end.
LEMMA StreamList ==
    ASSUME TypeOK, FrameTypes, ServeList
    PROVE  /\ FrameTypes'
           /\ Len(Stream') = Len(Stream) + Len(ListingFrames)
           /\ \A i \in 1..Len(Stream) : Stream'[i] = Stream[i]
           /\ \A i \in 1..Len(ListingFrames) : Stream'[Len(Stream) + i] = ListingFrames[i]
<1>1. script = <<>> /\ script' = ListingFrames /\ frames' = frames
      BY DEF ServeList, DeviceServe
<1>2. FrameTypes'
      BY <1>1, ListingFramesFacts DEF FrameTypes
<1>3. Len(Stream) = Len(frames) /\ \A i \in 1..Len(frames) : Stream[i] = frames[i]
      BY <1>1, StreamType DEF FrameTypes
<1>4. /\ Len(Stream') = Len(frames') + Len(script')
      /\ \A i \in 1..Len(frames') : Stream'[i] = frames'[i]
      /\ \A i \in 1..Len(script') : Stream'[Len(frames') + i] = script'[i]
      BY <1>2, StreamTypeNext
<1> QED
    BY <1>1, <1>2, <1>3, <1>4

\* A trigger is reached: completions go to the stream's end, as many as its
\* faults send.
LEMMA StreamTrigger ==
    ASSUME TypeOK, FrameTypes, DeviceTrigger
    PROVE  /\ FrameTypes'
           /\ trigger # None /\ 2 * faults[trigger] \in Nat
           /\ Len(Stream') = Len(Stream) + 2 * faults[trigger]
           /\ \A i \in 1..Len(Stream) : Stream'[i] = Stream[i]
           /\ \A i \in 1..(2 * faults[trigger]) : Stream'[Len(Stream) + i] = Done
<1> DEFINE q == 2 * faults[trigger]
<1>1. /\ trigger # None /\ script = <<>> /\ frames' = frames
      /\ script' = [i \in 1..q |-> Done]
      BY DEF DeviceTrigger
<1>2. q \in Nat
      BY <1>1, FaultFacts
<1> HIDE DEF q
<1>3. script' \in Seq(Frames) /\ Len(script') = q /\ \A i \in 1..q : script'[i] = Done
      BY <1>1, <1>2, ListingFacts
<1>4. FrameTypes'
      BY <1>1, <1>3 DEF FrameTypes
<1>5. Len(Stream) = Len(frames) /\ \A i \in 1..Len(frames) : Stream[i] = frames[i]
      BY <1>1, StreamType DEF FrameTypes
<1>6. /\ Len(Stream') = Len(frames') + Len(script')
      /\ \A i \in 1..Len(frames') : Stream'[i] = frames'[i]
      /\ \A i \in 1..Len(script') : Stream'[Len(frames') + i] = script'[i]
      BY <1>4, StreamTypeNext
<1> QED
    BY <1>1, <1>2, <1>3, <1>4, <1>5, <1>6 DEF q

\* A request for the states is served: state frames go to the stream's end.
LEMMA StreamStates ==
    ASSUME TypeOK, FrameTypes, ServeStates
    PROVE  FrameTypes' /\ StatesInserted
<1> DEFINE S == [i \in 1..N |-> StateOf(EntityList[i], current[EntityList[i]])]
<1>1. script = <<>> /\ script' = <<>> /\ frames' = frames \o S
      BY DEF ServeStates, DeviceServe, N
<1>2. ASSUME NEW i \in 1..N
      PROVE  /\ StateOf(EntityList[i], current[EntityList[i]]) \in Frames
             /\ ~Listing(StateOf(EntityList[i], current[EntityList[i]]))
  <2>1. EntityList[i] \in Keys /\ current[EntityList[i]] \in States
        BY ListFacts DEF TypeOK
  <2> QED
      BY <2>1, FrameFacts DEF Frames, Listing
<1>3. /\ S \in Seq(Frames) /\ Len(S) = N
      /\ \A i \in 1..N : S[i] \in Frames /\ ~Listing(S[i])
      BY <1>2, ListFacts
<1> HIDE DEF S
<1>4. /\ frames \in Seq(Frames) /\ Len(frames) \in Nat
      BY DEF FrameTypes
<1>5. /\ frames' \in Seq(Frames) /\ Len(frames') = Len(frames) + N
      /\ \A i \in 1..Len(frames) : frames'[i] = frames[i]
      /\ \A i \in 1..N : frames'[Len(frames) + i] = S[i]
  <2>1. S \in Seq(Frames)
        BY <1>3
  <2>2. /\ frames \o S \in Seq(Frames) /\ Len(frames \o S) = Len(frames) + Len(S)
        /\ \A i \in 1..Len(frames) : (frames \o S)[i] = frames[i]
        /\ \A i \in 1..Len(S) : (frames \o S)[Len(frames) + i] = S[i]
        BY <1>4, <2>1, ConcatFacts
  <2> QED
      BY <1>1, <1>3, <2>2
<1>6. FrameTypes'
      BY <1>1, <1>5 DEF FrameTypes
<1>7. Len(Stream) = Len(frames) /\ \A i \in 1..Len(frames) : Stream[i] = frames[i]
      BY <1>1, <1>4, StreamType
<1>8. Len(Stream') = Len(frames') /\ \A i \in 1..Len(frames') : Stream'[i] = frames'[i]
      BY <1>1, <1>5, <1>6, StreamTypeNext
<1>9. ASSUME NEW i \in (Len(Stream) + 1)..(Len(Stream) + N) PROVE ~Listing(Stream'[i])
  <2> DEFINE m == i - Len(frames)
  <2>1. m \in 1..N /\ i = Len(frames) + m /\ i \in 1..Len(frames')
        BY <1>4, <1>5, <1>7, ListFacts
  <2> HIDE DEF m
  <2> QED
      BY <1>3, <1>5, <1>8, <2>1
<1>10. Len(Stream) \in 0..Len(Stream) /\ N \in Nat /\ Len(Stream) \in Nat
      BY <1>4, <1>7, ListFacts
<1>11. /\ Len(Stream') = Len(Stream) + N
       /\ \A i \in 1..Len(Stream) : Stream'[i] = Stream[i]
       /\ \A i \in (Len(Stream) + N + 1)..(Len(Stream) + N) : Stream'[i] = Stream[i - N]
  <2>1. Len(Stream') = Len(Stream) + N
        BY <1>5, <1>7, <1>8
  <2>2. ASSUME NEW i \in 1..Len(Stream) PROVE Stream'[i] = Stream[i]
    <3>1. i \in 1..Len(frames) /\ i \in 1..Len(frames')
          BY <1>4, <1>5, <1>7, ListFacts
    <3> QED
        BY <1>5, <1>7, <1>8, <3>1
  <2> QED
      BY <1>10, <2>1, <2>2
<1> QED
    BY <1>6, <1>9, <1>10, <1>11 DEF StatesInserted

\* A state change is sent: a state frame goes between the sent frames and
\* the rest of the script.
LEMMA StreamPush ==
    ASSUME FrameTypes, DevicePush
    PROVE  FrameTypes' /\ StatesInserted
<1>1. CASE frames' = frames
  <2>1. script' = script
        BY DEF DevicePush
  <2> QED
      BY <1>1, <2>1, StreamSame DEF FrameTypes
<1>2. CASE frames' # frames
  <2>1. PICK k \in Keys, v \in States : frames' = Append(frames, StateOf(k, v))
        BY <1>2 DEF DevicePush
  <2>2. script' = script
        BY DEF DevicePush
  <2>3. StateOf(k, v) \in Frames /\ ~Listing(StateOf(k, v))
        BY FrameFacts DEF Frames, Listing
  <2>4. /\ frames \in Seq(Frames) /\ Len(frames) \in Nat
        /\ script \in Seq(Frames) /\ Len(script) \in Nat
        BY DEF FrameTypes
  <2>5. /\ frames' \in Seq(Frames) /\ Len(frames') = Len(frames) + 1
        /\ \A i \in 1..Len(frames) : frames'[i] = frames[i]
        /\ frames'[Len(frames) + 1] = StateOf(k, v)
        BY <2>1, <2>3, <2>4
  <2>6. FrameTypes'
        BY <2>2, <2>4, <2>5 DEF FrameTypes
  <2>7. /\ Len(Stream) = Len(frames) + Len(script)
        /\ \A i \in 1..Len(frames) : Stream[i] = frames[i]
        /\ \A i \in 1..Len(script) : Stream[Len(frames) + i] = script[i]
        BY StreamType
  <2>8. /\ Len(Stream') = Len(frames') + Len(script')
        /\ \A i \in 1..Len(frames') : Stream'[i] = frames'[i]
        /\ \A i \in 1..Len(script') : Stream'[Len(frames') + i] = script'[i]
        BY <2>6, StreamTypeNext
  <2> DEFINE p == Len(frames)
  <2>9. p \in 0..Len(Stream) /\ Len(Stream') = Len(Stream) + 1
        BY <2>2, <2>4, <2>5, <2>7, <2>8
  <2>10. ASSUME NEW i \in 1..p PROVE Stream'[i] = Stream[i]
    <3>1. i \in 1..Len(frames')
          BY <2>4, <2>5
    <3> QED
        BY <2>5, <2>7, <2>8, <3>1
  <2>11. ASSUME NEW i \in (p + 1)..(p + 1) PROVE ~Listing(Stream'[i])
    <3>1. i = Len(frames) + 1 /\ i \in 1..Len(frames')
          BY <2>4, <2>5
    <3> QED
        BY <2>3, <2>5, <2>8, <3>1
  <2>12. ASSUME NEW i \in (p + 1 + 1)..(Len(Stream) + 1) PROVE Stream'[i] = Stream[i - 1]
    <3> DEFINE m == i - (p + 1)
    <3>1. m \in 1..Len(script) /\ i = Len(frames') + m /\ i - 1 = Len(frames) + m
          BY <2>4, <2>5, <2>7
    <3> HIDE DEF m
    <3>2. Stream'[i] = script'[m] /\ Stream[i - 1] = script[m]
          BY <2>2, <2>7, <2>8, <3>1
    <3> QED
        BY <2>2, <3>2
  <2> HIDE DEF p
  <2>13. StatesInserted
        BY <2>9, <2>10, <2>11, <2>12 DEF StatesInserted
  <2> QED
      BY <2>6, <2>13
<1> QED
    BY <1>1, <1>2

\* A frame is dispatched: the stream loses its first element.
LEMMA StreamDispatch ==
    ASSUME FrameTypes, frames # <<>>, frames' = Tail(frames), script' = script
    PROVE  /\ FrameTypes'
           /\ Len(Stream) \in Nat /\ Len(Stream) >= 1 /\ Len(Stream') = Len(Stream) - 1
           /\ Stream[1] = Head(frames) /\ Head(frames) \in Frames
           /\ \A i \in 1..(Len(Stream) - 1) : Stream'[i] = Stream[i + 1]
<1>1. /\ frames \in Seq(Frames) /\ Len(frames) \in Nat /\ Len(frames) >= 1
      /\ script \in Seq(Frames) /\ Len(script) \in Nat
      /\ Head(frames) = frames[1] /\ Head(frames) \in Frames
      /\ frames' \in Seq(Frames) /\ Len(frames') = Len(frames) - 1
      /\ \A i \in 1..(Len(frames) - 1) : frames'[i] = frames[i + 1]
      BY DEF FrameTypes
<1>2. FrameTypes'
      BY <1>1 DEF FrameTypes
<1>3. /\ Len(Stream) = Len(frames) + Len(script)
      /\ \A i \in 1..Len(frames) : Stream[i] = frames[i]
      /\ \A i \in 1..Len(script) : Stream[Len(frames) + i] = script[i]
      BY StreamType
<1>4. /\ Len(Stream') = Len(frames') + Len(script')
      /\ \A i \in 1..Len(frames') : Stream'[i] = frames'[i]
      /\ \A i \in 1..Len(script') : Stream'[Len(frames') + i] = script'[i]
      BY <1>2, StreamTypeNext
<1>5. /\ Len(Stream) \in Nat /\ Len(Stream) >= 1 /\ Len(Stream') = Len(Stream) - 1
      /\ 1 \in 1..Len(frames)
      BY <1>1, <1>3, <1>4
<1>6. ASSUME NEW i \in 1..(Len(Stream) - 1) PROVE Stream'[i] = Stream[i + 1]
  <2>1. CASE i <= Len(frames) - 1
    <3>1. i \in 1..(Len(frames) - 1) /\ i \in 1..Len(frames') /\ i + 1 \in 1..Len(frames)
          BY <1>1, <2>1
    <3> QED
        BY <1>1, <1>3, <1>4, <3>1
  <2>2. CASE ~(i <= Len(frames) - 1)
    <3> DEFINE m == i - Len(frames')
    <3>1. m \in 1..Len(script) /\ i = Len(frames') + m /\ i + 1 = Len(frames) + m
          BY <1>1, <1>3, <2>2
    <3> HIDE DEF m
    <3> QED
        BY <1>3, <1>4, <3>1
  <2> QED
      BY <2>1, <2>2
<1> QED
    BY <1>1, <1>2, <1>3, <1>5, <1>6

-----------------------------------------------------------------------------
(* Types and the registry.                                                 *)

\* A descriptor: the registry and the pending listing take it.
DispatchDescriptor(k) ==
    /\ Head(frames) = Descriptor(k)
    /\ registry' = Registered(k)
    /\ collected' = IF list = None THEN collected
                    ELSE [collected EXCEPT ![list] = Append(@, k)]
    /\ fresh' = fresh \ {k}
    /\ UNCHANGED <<list, completed>>

\* A state message: the registry takes it for an entity that it knows.
DispatchState(k, v) ==
    /\ Head(frames) = StateOf(k, v)
    /\ registry' = IF k \in DOMAIN registry THEN [registry EXCEPT ![k] = v] ELSE registry
    /\ fresh' = fresh \cup {k}
    /\ UNCHANGED <<list, collected, completed>>

\* A completion: the pending listing, if there is one, is over.
DispatchDone ==
    /\ Head(frames) = Done
    /\ completed' = IF list = None THEN completed ELSE [completed EXCEPT ![list] = TRUE]
    /\ list' = None
    /\ UNCHANGED <<registry, fresh, collected>>

\* The dispatch of a frame is one of the three.
LEMMA DispatchEffect ==
    ASSUME FrameTypes, Dispatch
    PROVE  /\ phase # "done" /\ frames # <<>> /\ frames' = Tail(frames)
           /\ UNCHANGED <<phase, reason, pc, result, subscription, requests, faults,
                          trigger, script, subscribed, current, pushes>>
           /\ \/ \E k \in Keys : DispatchDescriptor(k)
              \/ \E k \in Keys, v \in States : DispatchState(k, v)
              \/ DispatchDone
<1>1. /\ phase # "done" /\ frames # <<>> /\ frames' = Tail(frames)
      /\ registry' = Handle(Head(frames)) /\ HandleList(Head(frames))
      /\ fresh' = Refreshed(Head(frames))
      /\ UNCHANGED <<phase, reason, pc, result, subscription, requests, faults,
                     trigger, script, subscribed, current, pushes>>
      BY DEF Dispatch, connVars, deviceVars
<1>2. Head(frames) \in Frames
      BY <1>1 DEF FrameTypes
<1>3. ASSUME NEW k \in Keys, Head(frames) = Descriptor(k) PROVE DispatchDescriptor(k)
  <2>1. Head(frames).kind = "descriptor" /\ Head(frames).key = k
        BY <1>3, FrameFacts
  <2> QED
      BY <1>1, <1>3, <2>1 DEF Handle, HandleList, Refreshed, DispatchDescriptor
<1>4. ASSUME NEW k \in Keys, NEW v \in States, Head(frames) = StateOf(k, v)
      PROVE  DispatchState(k, v)
  <2>1. Head(frames).kind = "state" /\ Head(frames).key = k /\ Head(frames).val = v
        BY <1>4, FrameFacts
  <2> QED
      BY <1>1, <1>4, <2>1 DEF Handle, HandleList, Refreshed, DispatchState
<1>5. ASSUME Head(frames) = Done PROVE DispatchDone
  <2>1. Head(frames).kind = "done"
        BY <1>5, FrameFacts
  <2> QED
      BY <1>1, <1>5, <2>1 DEF Handle, HandleList, Refreshed, DispatchDone
<1> QED
    BY <1>1, <1>2, <1>3, <1>4, <1>5, FrameFacts

\* The registry's type, element by element.
LEMMA RegistryType ==
    /\ TypeOK => DOMAIN registry \subseteq Keys /\ \A k \in DOMAIN registry : registry[k] \in States
    /\ DOMAIN registry' \subseteq Keys /\ (\A k \in DOMAIN registry' : registry'[k] \in States)
          => DOMAIN registry' \subseteq Keys /\ Range(registry') \subseteq States
  BY DEF TypeOK, Range

\* The types, after every step.
LEMMA TypeStep == TypeOK /\ FrameTypes /\ [Next]_vars => TypeOK' /\ FrameTypes'
<1> SUFFICES ASSUME TypeOK, FrameTypes, [Next]_vars PROVE TypeOK' /\ FrameTypes'
    OBVIOUS
<1> USE DEF connVars, listVars, deviceVars
<1>1. CASE ConnStep
  <2>1. /\ UNCHANGED <<listVars, subscription, registry, requests, deviceVars, frames, fresh>>
        /\ phase' \in Phases /\ reason' \in {"none", "close"}
        BY <1>1 DEF ConnStep, Close, CloseStep, EnterShutdown, CloseBody, TypeOK, Phases
  <2> QED
      BY <2>1 DEF TypeOK, FrameTypes
<1>2. ASSUME NEW l \in Listers, Install(l) PROVE TypeOK' /\ FrameTypes'
  <2>1. /\ UNCHANGED <<connVars, collected, completed, subscription, registry, requests,
                       deviceVars, frames, fresh>>
        BY <1>2 DEF Install
  <2>2. /\ pc' \in [Listers -> {"idle", "send", "await", "cleanup", "returned"}]
        /\ result' \in [Listers -> {"none", "busy", "sendErr", "ok", "timeout", "closed"}]
        /\ list' \in Listers \cup {None}
        BY <1>2 DEF Install, Step, TypeOK
  <2> QED
      BY <2>1, <2>2 DEF TypeOK, FrameTypes
<1>3. ASSUME NEW l \in Listers, SendRequest(l) PROVE TypeOK' /\ FrameTypes'
  <2>1. /\ UNCHANGED <<connVars, collected, completed, list, subscription, registry,
                       deviceVars, frames, fresh>>
        BY <1>3 DEF SendRequest
  <2>2. /\ pc' \in [Listers -> {"idle", "send", "await", "cleanup", "returned"}]
        /\ result' \in [Listers -> {"none", "busy", "sendErr", "ok", "timeout", "closed"}]
        BY <1>3 DEF SendRequest, Step, TypeOK
  <2>3. requests' = requests \/ requests' = Append(requests, "list")
        BY <1>3 DEF SendRequest
  <2>4. requests' \in Seq({"list", "subscribe"})
    <3>1. requests \in Seq({"list", "subscribe"}) /\ "list" \in {"list", "subscribe"}
          BY DEF TypeOK
    <3> QED
        BY <2>3, <3>1
  <2> QED
      BY <2>1, <2>2, <2>4 DEF TypeOK, FrameTypes
<1>4. ASSUME NEW l \in Listers, Await(l) PROVE TypeOK' /\ FrameTypes'
  <2>1. /\ UNCHANGED <<connVars, collected, completed, list, subscription, registry, requests,
                       deviceVars, frames, fresh>>
        BY <1>4 DEF Await
  <2>2. /\ pc' \in [Listers -> {"idle", "send", "await", "cleanup", "returned"}]
        /\ result' \in [Listers -> {"none", "busy", "sendErr", "ok", "timeout", "closed"}]
        BY <1>4 DEF Await, Step, TypeOK
  <2> QED
      BY <2>1, <2>2 DEF TypeOK, FrameTypes
<1>5. ASSUME NEW l \in Listers, Cleanup(l) PROVE TypeOK' /\ FrameTypes'
  <2>1. /\ UNCHANGED <<connVars, result, collected, completed, subscription, registry, requests,
                       deviceVars, frames, fresh>>
        BY <1>5 DEF Cleanup
  <2>2. /\ pc' \in [Listers -> {"idle", "send", "await", "cleanup", "returned"}]
        /\ list' \in Listers \cup {None}
        BY <1>5 DEF Cleanup, Step, TypeOK
  <2> QED
      BY <2>1, <2>2 DEF TypeOK, FrameTypes
<1>6. CASE SubscribeStates
  <2>1. /\ UNCHANGED <<connVars, listVars, registry, deviceVars, frames, fresh>>
        /\ subscription' = "on" /\ requests' = Append(requests, "subscribe")
        BY <1>6 DEF SubscribeStates
  <2>2. requests' \in Seq({"list", "subscribe"})
        BY <2>1 DEF TypeOK
  <2> QED
      BY <2>1, <2>2 DEF TypeOK, FrameTypes
<1>7. CASE ServeList \/ ServeStates
  <2>1. /\ UNCHANGED <<connVars, listVars, subscription, registry, faults, current,
                       pushes, fresh>>
        /\ requests # <<>> /\ requests' = Tail(requests)
        /\ subscribed' = TRUE \/ subscribed' = subscribed
        /\ trigger' = "afterInitialStates" \/ trigger' = trigger
        BY <1>7 DEF ServeList, ServeStates, DeviceServe
  <2>2. requests' \in Seq({"list", "subscribe"})
        BY <2>1 DEF TypeOK
  <2>3. TypeOK'
        BY <2>1, <2>2 DEF TypeOK
  <2> QED
      BY <1>7, <2>3, StreamList, StreamStates
<1>8. CASE DeviceSend
  <2>1. TypeOK'
        BY <1>8 DEF DeviceSend, TypeOK
  <2> QED
      BY <1>8, <2>1, StreamSend
<1>9. CASE DevicePush
  <2>1. /\ UNCHANGED <<connVars, listVars, subscription, registry, requests, faults,
                       trigger, subscribed, fresh>>
        /\ pushes < MaxPushes /\ pushes' = pushes + 1
        /\ current' \in [Keys -> States]
        BY <1>9 DEF DevicePush, TypeOK
  <2>2. pushes' \in 0..MaxPushes
        BY <2>1, ListingAssumption DEF TypeOK
  <2>3. TypeOK'
        BY <2>1, <2>2 DEF TypeOK
  <2> QED
      BY <1>9, <2>3, StreamPush
<1>10. CASE Dispatch
  <2>1. /\ frames # <<>> /\ frames' = Tail(frames)
        /\ UNCHANGED <<phase, reason, pc, result, subscription, requests, faults,
                       trigger, script, subscribed, current, pushes>>
        BY <1>10, DispatchEffect
  <2>2. FrameTypes'
        BY <2>1, StreamDispatch
  <2>3. /\ DOMAIN registry \subseteq Keys /\ \A j \in DOMAIN registry : registry[j] \in States
        /\ Zero \in States
        BY RegistryType DEF States
  <2>4. ASSUME NEW k \in Keys, DispatchDescriptor(k) PROVE TypeOK'
    <3>1. DOMAIN registry' = DOMAIN registry \cup {k} /\
          \A j \in DOMAIN registry' : registry'[j] = IF j = k THEN Zero ELSE registry[j]
          BY <2>4 DEF DispatchDescriptor, Registered
    <3>2. DOMAIN registry' \subseteq Keys /\ Range(registry') \subseteq States
          BY <2>3, <3>1, RegistryType
    <3>3. collected' \in [Listers -> Seq(Keys)] /\ fresh' \subseteq Keys
          BY <2>4 DEF DispatchDescriptor, TypeOK
    <3> QED
        BY <2>1, <2>4, <3>2, <3>3 DEF DispatchDescriptor, TypeOK
  <2>5. ASSUME NEW k \in Keys, NEW v \in States, DispatchState(k, v) PROVE TypeOK'
    <3>1. DOMAIN registry' \subseteq Keys /\ Range(registry') \subseteq States
          BY <2>3, <2>5, RegistryType DEF DispatchState
    <3>2. fresh' \subseteq Keys
          BY <2>5 DEF DispatchState, TypeOK
    <3> QED
        BY <2>1, <2>5, <3>1, <3>2 DEF DispatchState, TypeOK
  <2>6. ASSUME DispatchDone PROVE TypeOK'
        BY <2>1, <2>6 DEF DispatchDone, TypeOK
  <2> QED
      BY <1>10, <2>2, <2>4, <2>5, <2>6, DispatchEffect
<1>11. CASE UNCHANGED vars
      BY <1>11 DEF vars, TypeOK, FrameTypes
<1>12. CASE DeviceTrigger
  <2>1. TypeOK'
        BY <1>12 DEF DeviceTrigger, TypeOK
  <2> QED
      BY <1>12, <2>1, StreamTrigger
<1> QED
    BY <1>1, <1>2, <1>3, <1>4, <1>5, <1>6, <1>7, <1>8, <1>9, <1>10, <1>11, <1>12, Steps

\* The types, in every reachable state.
LEMMA TypesCorrect == Spec => [](TypeOK /\ FrameTypes)
<1>1. Init => TypeOK /\ FrameTypes
  <2> SUFFICES ASSUME Init PROVE TypeOK /\ FrameTypes
      OBVIOUS
  <2>1. DOMAIN registry \subseteq Keys /\ Range(registry) \subseteq States
        BY DEF Init, Range
  <2>2. 0 \in 0..MaxPushes
        BY ListingAssumption
  <2>3. fresh \subseteq Keys /\ collected \in [Listers -> Seq(Keys)]
        BY DEF Init, States
  <2>4. requests \in Seq({"list", "subscribe"}) /\ FrameTypes
        BY DEF Init, FrameTypes
  <2> QED
      BY <2>1, <2>2, <2>3, <2>4 DEF Init, TypeOK, OpenConnection, Phases
<1> QED
    BY <1>1, TypeStep, PTL DEF Spec

\* Every reachable state has its type.
THEOREM TypeCorrect == Spec => []TypeOK
  BY TypesCorrect, PTL

-----------------------------------------------------------------------------
(* The registry against the device's states.                               *)

\* The frame f is a state of entity k; the frames s say nothing of its state;
\* the last of them that does says v.
About(f, k) == ~Listing(f) /\ f.key = k
Silent(s, k) == \A i \in 1..Len(s) : ~About(s[i], k)
Latest(s, k, v) ==
    \A i \in 1..Len(s) :
        About(s[i], k) /\ (\A j \in (i + 1)..Len(s) : ~About(s[j], k)) => s[i].val = v

\* What is sent of a listing or a fault is no state; states are sent to a
\* subscriber only; the last one on the way is the current one; and where none
\* is on the way, the registry holds it.
TrackInv ==
    /\ \A i \in 1..Len(script) : Listing(script[i])
    /\ subscribed \/ (fresh = {} /\ \A i \in 1..Len(frames) : Listing(frames[i]))
    /\ \A k \in Keys : Latest(frames, k, current[k])
    /\ \A k \in fresh \cap DOMAIN registry : Silent(frames, k) => registry[k] = current[k]

\* A frame at the end.
LEMMA AppendSays ==
    ASSUME NEW s \in Seq(Frames), NEW f \in Frames, NEW k
    PROVE  /\ About(f, k) => Latest(Append(s, f), k, f.val) /\ ~Silent(Append(s, f), k)
           /\ ~About(f, k) =>
                 /\ Silent(Append(s, f), k) => Silent(s, k)
                 /\ \A v : Latest(s, k, v) => Latest(Append(s, f), k, v)
<1> DEFINE t == Append(s, f)
           n == Len(s)
<1>1. /\ n \in Nat /\ Len(t) = n + 1 /\ t[n + 1] = f
      /\ \A i \in 1..n : t[i] = s[i]
      /\ \A i \in 1..(n + 1) : i \in 1..n \/ i = n + 1
      OBVIOUS
<1>2. n + 1 \in 1..Len(t)
      BY <1>1
<1> HIDE DEF t, n
<1>3. ASSUME About(f, k) PROVE Latest(t, k, f.val) /\ ~Silent(t, k)
  <2>1. ~Silent(t, k)
        BY <1>1, <1>2, <1>3 DEF Silent
  <2>2. ASSUME NEW i \in 1..Len(t), \A j \in (i + 1)..Len(t) : ~About(t[j], k)
        PROVE  t[i].val = f.val
    <3>1. ASSUME i \in 1..n PROVE FALSE
      <4>1. n + 1 \in (i + 1)..Len(t)
            BY <1>1, <3>1
      <4> QED
          BY <1>1, <1>3, <2>2, <4>1
    <3> QED
        BY <1>1, <3>1
  <2> QED
      BY <2>1, <2>2 DEF Latest
<1>4. ASSUME ~About(f, k), Silent(t, k) PROVE Silent(s, k)
  <2>1. \A i \in 1..n : i \in 1..Len(t)
        BY <1>1
  <2> QED
      BY <1>1, <1>4, <2>1 DEF Silent, n
<1>5. ASSUME ~About(f, k), NEW v, Latest(s, k, v) PROVE Latest(t, k, v)
  <2> SUFFICES ASSUME NEW i \in 1..Len(t), About(t[i], k),
                      \A j \in (i + 1)..Len(t) : ~About(t[j], k)
               PROVE  t[i].val = v
      BY DEF Latest
  <2>1. i \in 1..n
        BY <1>1, <1>5
  <2>2. ASSUME NEW j \in (i + 1)..n PROVE ~About(s[j], k)
    <3>1. j \in (i + 1)..Len(t) /\ j \in 1..n
          BY <1>1, <2>1
    <3> QED
        BY <1>1, <3>1
  <2> QED
      BY <1>1, <1>5, <2>1, <2>2 DEF Latest, n
<1> QED
    BY <1>3, <1>4, <1>5 DEF t

\* The loss of the first frame.
LEMMA TailSays ==
    ASSUME NEW s \in Seq(Frames), s # <<>>, NEW k
    PROVE  /\ ~About(Head(s), k) /\ Silent(Tail(s), k) => Silent(s, k)
           /\ \A v : Latest(s, k, v) =>
                 /\ Latest(Tail(s), k, v)
                 /\ About(Head(s), k) /\ Silent(Tail(s), k) => Head(s).val = v
<1> DEFINE t == Tail(s)
           n == Len(s)
<1>1. /\ n \in Nat /\ n >= 1 /\ Len(t) = n - 1 /\ Head(s) = s[1]
      /\ \A i \in 1..(n - 1) : t[i] = s[i + 1]
      OBVIOUS
<1>2. \A i \in 1..n : i = 1 \/ (i - 1 \in 1..Len(t) /\ t[i - 1] = s[i])
  <2> TAKE i \in 1..n
  <2>1. i = 1 \/ (i - 1 \in 1..(n - 1) /\ (i - 1) + 1 = i)
        BY <1>1
  <2> QED
      BY <1>1, <2>1
<1> HIDE DEF t, n
<1>3. ASSUME ~About(Head(s), k), Silent(t, k) PROVE Silent(s, k)
      BY <1>1, <1>2, <1>3 DEF Silent, n
<1>4. ASSUME NEW v, Latest(s, k, v) PROVE Latest(t, k, v)
  <2> SUFFICES ASSUME NEW i \in 1..Len(t), About(t[i], k),
                      \A j \in (i + 1)..Len(t) : ~About(t[j], k)
               PROVE  t[i].val = v
      BY DEF Latest
  <2>1. i + 1 \in 1..n /\ t[i] = s[i + 1]
        BY <1>1
  <2>2. ASSUME NEW j \in (i + 1 + 1)..n PROVE ~About(s[j], k)
    <3>1. j \in 1..n /\ j # 1 /\ j - 1 \in (i + 1)..Len(t)
          BY <1>1
    <3> QED
        BY <1>2, <3>1
  <2> QED
      BY <1>4, <2>1, <2>2 DEF Latest, n
<1>5. ASSUME NEW v, Latest(s, k, v), About(Head(s), k), Silent(t, k) PROVE Head(s).val = v
  <2>1. ASSUME NEW j \in (1 + 1)..n PROVE ~About(s[j], k)
    <3>1. j \in 1..n /\ j # 1
          BY <1>1
    <3> QED
        BY <1>2, <1>5, <3>1 DEF Silent
  <2>2. 1 \in 1..n
        BY <1>1
  <2> QED
      BY <1>1, <1>5, <2>1, <2>2 DEF Latest, n
<1> QED
    BY <1>3, <1>4, <1>5 DEF t

\* A snapshot of all states at the end.
LEMMA SnapshotSays ==
    ASSUME TypeOK, FrameTypes, ServeStates
    PROVE  \A k \in Keys : Latest(frames', k, current[k]) /\ ~Silent(frames', k)
<1> DEFINE S == [i \in 1..N |-> StateOf(EntityList[i], current[EntityList[i]])]
           n == Len(frames)
<1>1. frames' = frames \o S
      BY DEF ServeStates, DeviceServe, N
<1>2. ASSUME NEW i \in 1..N
      PROVE  StateOf(EntityList[i], current[EntityList[i]]) \in Frames
  <2>1. EntityList[i] \in Keys /\ current[EntityList[i]] \in States
        BY ListFacts DEF TypeOK
  <2> QED
      BY <2>1 DEF Frames
<1>3. S \in Seq(Frames) /\ Len(S) = N
      BY <1>2, ListFacts
<1>4. \A i \in 1..N : /\ S[i].key = EntityList[i] /\ S[i].val = current[EntityList[i]]
                      /\ ~Listing(S[i])
      BY FrameFacts DEF Listing
<1> HIDE DEF S
<1>5. /\ n \in Nat /\ N \in Nat /\ Len(frames') = n + N
      /\ \A i \in 1..N : frames'[n + i] = S[i]
  <2>1. frames \in Seq(Frames) /\ S \in Seq(Frames) /\ n \in Nat
        BY <1>3 DEF FrameTypes
  <2>2. /\ Len(frames \o S) = Len(frames) + Len(S)
        /\ \A i \in 1..Len(S) : (frames \o S)[Len(frames) + i] = S[i]
        BY <2>1, ConcatFacts
  <2> QED
      BY <1>1, <1>3, <2>1, <2>2, ListFacts
<1> HIDE DEF n
<1> SUFFICES ASSUME NEW k \in Keys
             PROVE  Latest(frames', k, current[k]) /\ ~Silent(frames', k)
    OBVIOUS
<1>6. PICK m \in 1..N : EntityList[m] = k
      BY ListFacts
<1>7. n + m \in 1..Len(frames') /\ About(frames'[n + m], k)
      BY <1>4, <1>5, <1>6 DEF About
<1>8. ~Silent(frames', k)
      BY <1>7 DEF Silent
<1>9. ASSUME NEW i \in 1..Len(frames'), About(frames'[i], k),
             \A j \in (i + 1)..Len(frames') : ~About(frames'[j], k)
      PROVE  frames'[i].val = current[k]
  <2>1. ~(i < n + m)
    <3>1. ASSUME i < n + m PROVE FALSE
      <4>1. n + m \in (i + 1)..Len(frames')
            BY <1>5, <3>1
      <4> QED
          BY <1>7, <1>9, <4>1
    <3> QED
        BY <3>1
  <2>2. i - n \in 1..N /\ i = n + (i - n)
        BY <1>5, <2>1
  <2>3. frames'[i] = S[i - n]
        BY <1>5, <2>2
  <2>4. EntityList[i - n] = k
        BY <1>4, <1>9, <2>2, <2>3 DEF About
  <2> QED
      BY <1>4, <2>2, <2>3, <2>4
<1> QED
    BY <1>8, <1>9 DEF Latest

\* The invariant, after every step.
LEMMA TrackStep ==
    ASSUME TypeOK, FrameTypes, TypeOK', FrameTypes', TrackInv, [Next]_vars
    PROVE  TrackInv'
<1>0. frames \in Seq(Frames) /\ script \in Seq(Frames)
      BY DEF FrameTypes
<1>1. CASE ServeStates
  <2>1. UNCHANGED <<script, current, registry, fresh>> /\ subscribed'
        BY <1>1 DEF ServeStates, DeviceServe
  <2>2. fresh \subseteq Keys
        BY DEF TypeOK
  <2> QED
      BY <1>1, <2>1, <2>2, SnapshotSays DEF TrackInv
<1>2. CASE ServeList
  <2>1. UNCHANGED <<frames, current, registry, fresh, subscribed>> /\ script' = ListingFrames
        BY <1>2 DEF ServeList, DeviceServe
  <2>2. \A i \in 1..Len(ListingFrames) : Listing(ListingFrames[i])
    <3> TAKE i \in 1..Len(ListingFrames)
    <3>1. ListingFrames[i] = IF i <= N THEN Descriptor(EntityList[i]) ELSE Done
          BY ListingFramesFacts
    <3> QED
        BY <3>1, FrameFacts DEF Listing
  <2> QED
      BY <2>1, <2>2 DEF TrackInv
<1>3. CASE DeviceTrigger
  <2>1. /\ UNCHANGED <<frames, current, registry, fresh, subscribed>>
        /\ trigger # None /\ script' = [i \in 1..(2 * faults[trigger]) |-> Done]
        BY <1>3 DEF DeviceTrigger
  <2>2. 2 * faults[trigger] \in Nat
        BY <2>1, FaultFacts
  <2>3. \A i \in 1..Len(script') : Listing(script'[i])
        BY <2>1, <2>2, ListingFacts
  <2> QED
      BY <2>1, <2>3 DEF TrackInv
<1>4. CASE DeviceSend
  <2>1. /\ UNCHANGED <<current, registry, fresh, subscribed>> /\ script # <<>>
        /\ frames' = Append(frames, Head(script)) /\ script' = Tail(script)
        BY <1>4 DEF DeviceSend
  <2>2. Head(script) \in Frames /\ Listing(Head(script))
    <3>1. Head(script) = script[1] /\ 1 \in 1..Len(script) /\ Head(script) \in Frames
          BY <1>0, <2>1
    <3> QED
        BY <3>1 DEF TrackInv
  <2>3. \A i \in 1..Len(script') : Listing(script'[i])
    <3>1. \A i \in 1..Len(script') : script'[i] = script[i + 1] /\ i + 1 \in 1..Len(script)
          BY <1>0, <2>1
    <3> QED
        BY <3>1 DEF TrackInv
  <2>4. \A k : /\ ~About(Head(script), k)
               /\ Silent(frames', k) => Silent(frames, k)
               /\ \A v : Latest(frames, k, v) => Latest(frames', k, v)
    <3> TAKE k
    <3>1. ~About(Head(script), k)
          BY <2>2 DEF About
    <3> QED
        BY <1>0, <2>1, <2>2, <3>1, AppendSays
  <2>5. (\A i \in 1..Len(frames) : Listing(frames[i])) =>
            \A i \in 1..Len(frames') : Listing(frames'[i])
    <3>1. \A i \in 1..Len(frames') :
             (i \in 1..Len(frames) /\ frames'[i] = frames[i]) \/ frames'[i] = Head(script)
          BY <1>0, <2>1, <2>2
    <3> QED
        BY <2>2, <3>1
  <2> QED
      BY <2>1, <2>3, <2>4, <2>5 DEF TrackInv
<1>5. CASE DevicePush
  <2>1. PICK k \in Keys, v \in States :
            /\ current' = [current EXCEPT ![k] = v]
            /\ frames' = IF subscribed THEN Append(frames, StateOf(k, v)) ELSE frames
        BY <1>5 DEF DevicePush
  <2>2. UNCHANGED <<script, registry, fresh, subscribed>>
        BY <1>5 DEF DevicePush
  <2>3. CASE ~subscribed
    <3>1. frames' = frames /\ fresh = {} /\ \A i \in 1..Len(frames) : Listing(frames[i])
          BY <2>1, <2>3 DEF TrackInv
    <3>2. \A j \in Keys : Latest(frames, j, current'[j])
          BY <3>1 DEF Latest, About
    <3> QED
        BY <2>2, <3>1, <3>2 DEF TrackInv
  <2>4. CASE subscribed
    <3> DEFINE f == StateOf(k, v)
    <3>1. f \in Frames /\ f.val = v /\ \A j : About(f, j) <=> j = k
          BY FrameFacts DEF Frames, About, Listing
    <3>2. frames' = Append(frames, f)
          BY <2>1, <2>4
    <3> HIDE DEF f
    <3>3. current'[k] = v /\ \A j \in Keys : j # k => current'[j] = current[j]
          BY <2>1 DEF TypeOK
    <3>4. ASSUME NEW j \in Keys
          PROVE  Latest(frames', j, current'[j])
      <4>1. CASE j = k
            BY <1>0, <3>1, <3>2, <3>3, <4>1, AppendSays
      <4>2. CASE j # k
            BY <1>0, <3>1, <3>2, <3>3, <4>2, AppendSays DEF TrackInv
      <4> QED
          BY <4>1, <4>2
    <3>5. ASSUME NEW j \in fresh' \cap DOMAIN registry', Silent(frames', j)
          PROVE  registry'[j] = current'[j]
      <4>1. j # k /\ Silent(frames, j)
            BY <1>0, <3>1, <3>2, <3>5, AppendSays
      <4>2. j \in Keys /\ j \in fresh \cap DOMAIN registry
            BY <2>2, <3>5 DEF TypeOK
      <4> QED
          BY <2>2, <3>3, <4>1, <4>2 DEF TrackInv
    <3> QED
        BY <2>2, <2>4, <3>4, <3>5 DEF TrackInv
  <2> QED
      BY <2>3, <2>4
<1>6. CASE Dispatch
  <2>1. /\ frames # <<>> /\ frames' = Tail(frames)
        /\ UNCHANGED <<script, subscribed, current>>
        BY <1>6, DispatchEffect
  <2>2. \A k \in Keys : Latest(frames', k, current[k])
        BY <1>0, <2>1, TailSays DEF TrackInv
  <2>3. (\A i \in 1..Len(frames) : Listing(frames[i])) =>
            Listing(Head(frames)) /\ \A i \in 1..Len(frames') : Listing(frames'[i])
    <3>1. Head(frames) = frames[1] /\ 1 \in 1..Len(frames)
          BY <1>0, <2>1
    <3>2. \A i \in 1..Len(frames') : frames'[i] = frames[i + 1] /\ i + 1 \in 1..Len(frames)
          BY <1>0, <2>1
    <3> QED
        BY <3>1, <3>2
  <2>4. ASSUME NEW k \in Keys, DispatchDescriptor(k) PROVE TrackInv'
    <3>1. /\ DOMAIN registry' = DOMAIN registry \cup {k} /\ fresh' = fresh \ {k}
          /\ \A j \in DOMAIN registry : j # k => registry'[j] = registry[j]
          BY <2>4 DEF DispatchDescriptor, Registered
    <3>2. \A j : ~About(Head(frames), j)
          BY <2>4, FrameFacts DEF DispatchDescriptor, About, Listing
    <3>3. ASSUME NEW j \in fresh' \cap DOMAIN registry', Silent(frames', j)
          PROVE  registry'[j] = current[j]
      <4>1. j \in fresh \cap DOMAIN registry /\ j # k
            BY <3>1, <3>3
      <4>2. Silent(frames, j)
            BY <1>0, <2>1, <3>2, <3>3, TailSays
      <4> QED
          BY <3>1, <4>1, <4>2 DEF TrackInv
    <3> QED
        BY <2>1, <2>2, <2>3, <3>1, <3>3 DEF TrackInv
  <2>5. ASSUME NEW k \in Keys, NEW v \in States, DispatchState(k, v) PROVE TrackInv'
    <3>1. /\ Head(frames) = StateOf(k, v) /\ fresh' = fresh \cup {k}
          /\ DOMAIN registry' = DOMAIN registry
          /\ \A j \in DOMAIN registry : registry'[j] = IF j = k THEN v ELSE registry[j]
          BY <2>5 DEF DispatchState
    <3>2. /\ ~Listing(Head(frames)) /\ Head(frames).val = v
          /\ \A j : About(Head(frames), j) <=> j = k
          BY <3>1, FrameFacts DEF About, Listing
    <3>3. ASSUME NEW j \in fresh' \cap DOMAIN registry', Silent(frames', j)
          PROVE  registry'[j] = current[j]
      <4>1. CASE j = k
        <5>1. Latest(frames, k, current[k])
              BY DEF TrackInv
        <5>2. v = current[k]
              BY <1>0, <2>1, <3>2, <3>3, <4>1, <5>1, TailSays
        <5> QED
            BY <3>1, <3>3, <4>1, <5>2
      <4>2. CASE j # k
        <5>1. j \in fresh \cap DOMAIN registry
              BY <3>1, <3>3, <4>2
        <5>2. Silent(frames, j)
              BY <1>0, <2>1, <3>2, <3>3, <4>2, TailSays
        <5> QED
            BY <3>1, <4>2, <5>1, <5>2 DEF TrackInv
      <4> QED
          BY <4>1, <4>2
    <3>4. subscribed
          BY <2>3, <3>2 DEF TrackInv
    <3> QED
        BY <2>1, <2>2, <3>3, <3>4 DEF TrackInv
  <2>6. ASSUME DispatchDone PROVE TrackInv'
    <3>1. UNCHANGED <<registry, fresh>>
          BY <2>6 DEF DispatchDone
    <3>2. \A j : ~About(Head(frames), j)
          BY <2>6, FrameFacts DEF DispatchDone, About, Listing
    <3>3. \A j : Silent(frames', j) => Silent(frames, j)
          BY <1>0, <2>1, <3>2, TailSays
    <3> QED
        BY <2>1, <2>2, <2>3, <3>1, <3>3 DEF TrackInv
  <2> QED
      BY <1>6, <2>4, <2>5, <2>6, DispatchEffect
<1>7. CASE UNCHANGED <<frames, script, subscribed, current, registry, fresh>>
      BY <1>7 DEF TrackInv
<1>8. \/ ServeStates \/ ServeList \/ DeviceTrigger \/ DeviceSend \/ DevicePush \/ Dispatch
      \/ UNCHANGED <<frames, script, subscribed, current, registry, fresh>>
      BY Steps DEF Install, SendRequest, Await, Cleanup, SubscribeStates, ConnStep, Close,
         CloseStep, vars, deviceVars
<1> QED
    BY <1>1, <1>2, <1>3, <1>4, <1>5, <1>6, <1>7, <1>8

\* Once the states on the way are dispatched, a known entity whose last frame
\* was a state holds the device's current one, however listings, state changes
\* and the faults' completions interleave.
THEOREM RegistryTracking == Spec => []RegistryTracksDevice
<1>1. Init => TrackInv
  <2> SUFFICES ASSUME Init PROVE TrackInv
      OBVIOUS
  <2>1. frames = <<>> /\ script = <<>> /\ fresh = {} /\ Len(frames) = 0 /\ Len(script) = 0
        BY DEF Init
  <2> QED
      BY <2>1 DEF TrackInv, Latest
<1>2. TypeOK /\ FrameTypes /\ TypeOK' /\ FrameTypes' /\ TrackInv /\ [Next]_vars => TrackInv'
      BY TrackStep
<1>3. TypeOK /\ FrameTypes /\ TrackInv => RegistryTracksDevice
  <2> SUFFICES ASSUME TypeOK, FrameTypes, TrackInv, NEW k \in fresh \cap DOMAIN registry,
                      \A i \in DOMAIN frames : frames[i].kind = "state" => frames[i].key # k
               PROVE  registry[k] = current[k]
      BY DEF RegistryTracksDevice
  <2>1. DOMAIN frames = 1..Len(frames)
        BY DEF FrameTypes
  <2>2. Silent(frames, k)
        BY <2>1 DEF Silent, About, Listing
  <2> QED
      BY <2>2 DEF TrackInv
<1> QED
    BY <1>1, <1>2, <1>3, TypesCorrect, PTL DEF Spec

-----------------------------------------------------------------------------
(* What the changes of the stream preserve.                                *)

\* The listing frames of t are those of s, in the same order.
Embedded(s, t) ==
    \E f \in [1..Len(s) -> 1..Len(t)] :
        /\ \A i, j \in 1..Len(s) : i < j => f[i] < f[j]
        /\ \A i \in 1..Len(s) : t[f[i]] = s[i]
        /\ \A j \in 1..Len(t) : Listing(t[j]) => \E i \in 1..Len(s) : f[i] = j

\* t is s with a whole listing at its end.
Extended(s, t) ==
    \E M \in Nat :
        /\ M >= N + 1 /\ Len(t) = Len(s) + M
        /\ \A i \in 1..Len(s) : t[i] = s[i]
        /\ \A i \in 1..M : t[Len(s) + i] = IF i <= N THEN Descriptor(EntityList[i]) ELSE Done

\* t is s with completions at its end.
Completed(s, t) ==
    \E q \in Nat :
        /\ Len(t) = Len(s) + q
        /\ \A i \in 1..Len(s) : t[i] = s[i]
        /\ \A i \in 1..q : t[Len(s) + i] = Done

\* Embedding keeps what the invariants say of the stream.
LEMMA EmbeddedFacts ==
    ASSUME NEW s \in Seq(Frames), NEW t \in Seq(Frames), Embedded(s, t)
    PROVE  /\ Chained(s) => Chained(t)
           /\ \A R : Known(s, R) => Known(t, R)
           /\ \A n \in 0..N : Ahead(s, After(n)) => Ahead(t, After(n))
<1>1. PICK f \in [1..Len(s) -> 1..Len(t)] :
        /\ \A i, j \in 1..Len(s) : i < j => f[i] < f[j]
        /\ \A i \in 1..Len(s) : t[f[i]] = s[i]
        /\ \A j \in 1..Len(t) : Listing(t[j]) => \E i \in 1..Len(s) : f[i] = j
      BY DEF Embedded
<1>2. /\ Len(s) \in Nat /\ Len(t) \in Nat
      /\ \A i \in 1..Len(s) : f[i] \in 1..Len(t) /\ f[i] \in Nat /\ i \in Nat
      OBVIOUS
<1>3. \A i, j \in 1..Len(s) : f[i] < f[j] => i < j
  <2> SUFFICES ASSUME NEW i \in 1..Len(s), NEW j \in 1..Len(s), f[i] < f[j], ~(i < j)
               PROVE  FALSE
      OBVIOUS
  <2>1. i = j \/ j < i
        BY <1>2
  <2>2. f[j] < f[i] \/ f[j] = f[i]
        BY <1>1, <2>1
  <2> QED
      BY <1>2, <2>2
<1>4. ASSUME Chained(s) PROVE Chained(t)
  <2> SUFFICES ASSUME NEW i \in 1..Len(t), NEW n \in 1..N, t[i] = Descriptor(EntityList[n])
               PROVE  \E j \in (i + 1)..Len(t) :
                         t[j] = After(n) /\ \A k \in (i + 1)..(j - 1) : ~Listing(t[k])
      BY DEF Chained
  <2>1. PICK a \in 1..Len(s) : f[a] = i
        BY <1>1, ListingFacts
  <2>2. s[a] = Descriptor(EntityList[n])
        BY <1>1, <2>1
  <2>3. PICK b \in (a + 1)..Len(s) :
            s[b] = After(n) /\ \A k \in (a + 1)..(b - 1) : ~Listing(s[k])
        BY <1>4, <2>2 DEF Chained
  <2>4. b \in 1..Len(s) /\ a < b /\ b \in Nat /\ a \in Nat
        BY <1>2, <2>3
  <2>5. f[b] \in (i + 1)..Len(t) /\ t[f[b]] = After(n)
        BY <1>1, <1>2, <2>1, <2>3, <2>4
  <2>6. ASSUME NEW k \in (i + 1)..(f[b] - 1), Listing(t[k]) PROVE FALSE
    <3>1. k \in 1..Len(t) /\ f[a] < k /\ k < f[b]
          BY <1>2, <2>1, <2>4
    <3>2. PICK c \in 1..Len(s) : f[c] = k
          BY <1>1, <2>6, <3>1
    <3>3. a < c /\ c < b
          BY <1>3, <2>4, <3>1, <3>2
    <3>4. c \in (a + 1)..(b - 1)
          BY <2>4, <3>3
    <3> QED
        BY <1>1, <2>3, <2>6, <3>2, <3>4
  <2> QED
      BY <2>5, <2>6
<1>5. ASSUME NEW R, Known(s, R) PROVE Known(t, R)
  <2> SUFFICES ASSUME NEW i \in 1..Len(t), NEW k \in Keys, t[i] = Done, k \notin R
               PROVE  \E j \in 1..(i - 1) : t[j] = Descriptor(k)
      BY DEF Known
  <2>1. PICK a \in 1..Len(s) : f[a] = i
        BY <1>1, ListingFacts
  <2>2. PICK b \in 1..(a - 1) : s[b] = Descriptor(k)
        BY <1>1, <1>5, <2>1 DEF Known
  <2>3. b \in 1..Len(s) /\ b < a
        BY <1>2
  <2>4. f[b] \in 1..(i - 1)
        BY <1>1, <1>2, <2>1, <2>3
  <2> QED
      BY <1>1, <2>2, <2>3, <2>4
<1>6. ASSUME NEW n \in 0..N, Ahead(s, After(n)) PROVE Ahead(t, After(n))
  <2>1. PICK b \in 1..Len(s) : s[b] = After(n) /\ \A k \in 1..(b - 1) : ~Listing(s[k])
        BY <1>6 DEF Ahead
  <2>2. f[b] \in 1..Len(t) /\ t[f[b]] = After(n)
        BY <1>1, <1>2, <2>1
  <2>3. ASSUME NEW k \in 1..(f[b] - 1), Listing(t[k]) PROVE FALSE
    <3>1. k \in 1..Len(t) /\ k < f[b]
          BY <1>2
    <3>2. PICK c \in 1..Len(s) : f[c] = k
          BY <1>1, <2>3, <3>1
    <3>3. c \in 1..(b - 1)
          BY <1>2, <1>3, <3>1, <3>2
    <3> QED
        BY <1>1, <2>1, <2>3, <3>2, <3>3
  <2> QED
      BY <2>2, <2>3 DEF Ahead
<1> QED
    BY <1>4, <1>5, <1>6

\* So does a whole listing at the end.
LEMMA ExtendedFacts ==
    ASSUME NEW s \in Seq(Frames), NEW t \in Seq(Frames), Extended(s, t)
    PROVE  /\ Chained(s) => Chained(t)
           /\ \A R : Known(s, R) => Known(t, R)
           /\ \A n \in 0..N : Ahead(s, After(n)) => Ahead(t, After(n))
<1>1. PICK M \in Nat :
        /\ M >= N + 1 /\ Len(t) = Len(s) + M
        /\ \A i \in 1..Len(s) : t[i] = s[i]
        /\ \A i \in 1..M : t[Len(s) + i] = IF i <= N THEN Descriptor(EntityList[i]) ELSE Done
      BY DEF Extended
<1>2. Len(s) \in Nat /\ N \in Nat
      BY ListFacts
<1>3. \A i \in 1..Len(t) : i \in 1..Len(s) \/ \E a \in 1..M : i = Len(s) + a
  <2> TAKE i \in 1..Len(t)
  <2>1. i \in 1..Len(s) \/ (i - Len(s) \in 1..M /\ i = Len(s) + (i - Len(s)))
        BY <1>1, <1>2
  <2> QED
      BY <2>1
<1>4. ASSUME Chained(s) PROVE Chained(t)
  <2> SUFFICES ASSUME NEW i \in 1..Len(t), NEW n \in 1..N, t[i] = Descriptor(EntityList[n])
               PROVE  \E j \in (i + 1)..Len(t) :
                         t[j] = After(n) /\ \A k \in (i + 1)..(j - 1) : ~Listing(t[k])
      BY DEF Chained
  <2>1. CASE i \in 1..Len(s)
    <3>1. PICK j \in (i + 1)..Len(s) :
              s[j] = After(n) /\ \A k \in (i + 1)..(j - 1) : ~Listing(s[k])
          BY <1>1, <1>4, <2>1 DEF Chained
    <3>2. /\ j \in (i + 1)..Len(t) /\ j \in 1..Len(s)
          /\ \A k \in (i + 1)..(j - 1) : k \in 1..Len(s)
          BY <1>1, <1>2
    <3> QED
        BY <1>1, <3>1, <3>2
  <2>2. ASSUME NEW a \in 1..M, i = Len(s) + a
        PROVE  \E j \in (i + 1)..Len(t) :
                  t[j] = After(n) /\ \A k \in (i + 1)..(j - 1) : ~Listing(t[k])
    <3>1. a <= N /\ a \in 1..N
      <4>1. CASE a <= N
            BY <1>2, <4>1
      <4>2. CASE ~(a <= N)
            BY <1>1, <2>2, <4>2, ListingFacts
      <4> QED
          BY <4>1, <4>2
    <3>2. a = n
          BY <1>1, <2>2, <3>1, ListingFacts
    <3>3. n + 1 \in 1..M /\ i + 1 = Len(s) + (n + 1) /\ i + 1 \in (i + 1)..Len(t)
      <4>1. n \in Nat /\ n <= N /\ M \in Nat /\ N + 1 <= M /\ Len(t) = Len(s) + M
            BY <1>1, <1>2
      <4>2. i = Len(s) + n
            BY <2>2, <3>2
      <4> QED
          BY <1>2, <4>1, <4>2
    <3>4. t[i + 1] = IF n + 1 <= N THEN Descriptor(EntityList[n + 1]) ELSE Done
          BY <1>1, <3>3
    <3>5. t[i + 1] = After(n)
          BY <1>2, <3>4 DEF After
    <3>6. \A k \in (i + 1)..(i + 1 - 1) : ~Listing(t[k])
          BY <1>1, <1>2
    <3> QED
        BY <3>3, <3>5, <3>6
  <2> QED
      BY <1>3, <2>1, <2>2
<1>5. ASSUME NEW R, Known(s, R) PROVE Known(t, R)
  <2> SUFFICES ASSUME NEW i \in 1..Len(t), NEW k \in Keys, t[i] = Done, k \notin R
               PROVE  \E j \in 1..(i - 1) : t[j] = Descriptor(k)
      BY DEF Known
  <2>1. CASE i \in 1..Len(s)
    <3>1. PICK j \in 1..(i - 1) : s[j] = Descriptor(k)
          BY <1>1, <1>5, <2>1 DEF Known
    <3>2. j \in 1..Len(s)
          BY <1>2, <2>1
    <3> QED
        BY <1>1, <3>1, <3>2
  <2>2. ASSUME NEW a \in 1..M, i = Len(s) + a
        PROVE  \E j \in 1..(i - 1) : t[j] = Descriptor(k)
    <3>1. PICK n \in 1..N : EntityList[n] = k
          BY ListFacts
    <3>2. ~(a <= N)
      <4>1. ASSUME a <= N PROVE FALSE
        <5>1. a \in 1..N
              BY <1>2, <4>1
        <5> QED
            BY <1>1, <2>2, <4>1, <5>1, ListingFacts
      <4> QED
          BY <4>1
    <3>3. n \in 1..M /\ Len(s) + n \in 1..(i - 1) /\ n <= N
          BY <1>1, <1>2, <2>2, <3>2
    <3> QED
        BY <1>1, <3>1, <3>3
  <2> QED
      BY <1>3, <2>1, <2>2
<1>6. ASSUME NEW n \in 0..N, Ahead(s, After(n)) PROVE Ahead(t, After(n))
  <2>1. PICK b \in 1..Len(s) : s[b] = After(n) /\ \A k \in 1..(b - 1) : ~Listing(s[k])
        BY <1>6 DEF Ahead
  <2>2. b \in 1..Len(t) /\ \A k \in 1..(b - 1) : k \in 1..Len(s)
        BY <1>1, <1>2
  <2> QED
      BY <1>1, <2>1, <2>2 DEF Ahead
<1> QED
    BY <1>4, <1>5, <1>6

\* Completions at the end leave the order of the frames alone; only who has sent
\* every descriptor before them is no longer sure.
LEMMA CompletedFacts ==
    ASSUME NEW s \in Seq(Frames), NEW t \in Seq(Frames), Completed(s, t)
    PROVE  /\ Chained(s) => Chained(t)
           /\ \A n \in 0..N : Ahead(s, After(n)) => Ahead(t, After(n))
<1>1. PICK q \in Nat :
        /\ Len(t) = Len(s) + q
        /\ \A i \in 1..Len(s) : t[i] = s[i]
        /\ \A i \in 1..q : t[Len(s) + i] = Done
      BY DEF Completed
<1>2. Len(s) \in Nat /\ N \in Nat
      BY ListFacts
<1>3. \A i \in 1..Len(t) : i \in 1..Len(s) \/ t[i] = Done
  <2> TAKE i \in 1..Len(t)
  <2>1. i \in 1..Len(s) \/ (i - Len(s) \in 1..q /\ i = Len(s) + (i - Len(s)))
        BY <1>1, <1>2
  <2> QED
      BY <1>1, <2>1
<1>4. ASSUME Chained(s) PROVE Chained(t)
  <2> SUFFICES ASSUME NEW i \in 1..Len(t), NEW n \in 1..N, t[i] = Descriptor(EntityList[n])
               PROVE  \E j \in (i + 1)..Len(t) :
                         t[j] = After(n) /\ \A k \in (i + 1)..(j - 1) : ~Listing(t[k])
      BY DEF Chained
  <2>1. i \in 1..Len(s)
        BY <1>3, ListingFacts
  <2>2. PICK j \in (i + 1)..Len(s) :
            s[j] = After(n) /\ \A k \in (i + 1)..(j - 1) : ~Listing(s[k])
        BY <1>1, <1>4, <2>1 DEF Chained
  <2>3. /\ j \in (i + 1)..Len(t) /\ j \in 1..Len(s)
        /\ \A k \in (i + 1)..(j - 1) : k \in 1..Len(s)
        BY <1>1, <1>2
  <2> QED
      BY <1>1, <2>2, <2>3
<1>5. ASSUME NEW n \in 0..N, Ahead(s, After(n)) PROVE Ahead(t, After(n))
  <2>1. PICK b \in 1..Len(s) : s[b] = After(n) /\ \A k \in 1..(b - 1) : ~Listing(s[k])
        BY <1>5 DEF Ahead
  <2>2. b \in 1..Len(t) /\ \A k \in 1..(b - 1) : k \in 1..Len(s)
        BY <1>1, <1>2
  <2> QED
      BY <1>1, <2>1, <2>2 DEF Ahead
<1> QED
    BY <1>4, <1>5

\* The loss of the first element, whatever it is.
LEMMA TailFacts ==
    ASSUME NEW s \in Seq(Frames), NEW t \in Seq(Frames),
           Len(s) >= 1, Len(t) = Len(s) - 1,
           \A i \in 1..(Len(s) - 1) : t[i] = s[i + 1],
           Chained(s)
    PROVE  /\ Chained(t)
           /\ \A n \in 1..N : s[1] = Descriptor(EntityList[n]) => Ahead(t, After(n))
           /\ \A n \in 0..N : Ahead(s, After(n)) =>
                 IF Listing(s[1]) THEN s[1] = After(n) ELSE Ahead(t, After(n))
           /\ \A R : Known(s, R) =>
                 /\ \A k \in Keys : s[1] = Descriptor(k) => Known(t, R \cup {k})
                 /\ ~Listing(s[1]) => Known(t, R)
                 /\ s[1] = Done => Keys \subseteq R /\ Known(t, R)
<1>1. Len(s) \in Nat /\ Len(t) \in Nat /\ N \in Nat /\ 1 \in 1..Len(s)
      BY ListFacts
<1>2. \A i \in 2..Len(s) : i - 1 \in 1..Len(t) /\ t[i - 1] = s[i] /\ i \in 1..Len(s)
  <2> TAKE i \in 2..Len(s)
  <2>1. i - 1 \in 1..(Len(s) - 1) /\ (i - 1) + 1 = i
        BY <1>1
  <2>2. t[i - 1] = s[(i - 1) + 1]
        BY <2>1
  <2> QED
      BY <1>1, <2>1, <2>2
<1>3. \A i \in 1..Len(t) : i + 1 \in 2..Len(s) /\ i + 1 \in 1..Len(s) /\ t[i] = s[i + 1]
      BY <1>1
<1>4. Chained(t)
  <2> SUFFICES ASSUME NEW i \in 1..Len(t), NEW n \in 1..N, t[i] = Descriptor(EntityList[n])
               PROVE  \E j \in (i + 1)..Len(t) :
                         t[j] = After(n) /\ \A k \in (i + 1)..(j - 1) : ~Listing(t[k])
      BY DEF Chained
  <2>0. i + 1 \in 1..Len(s) /\ s[i + 1] = Descriptor(EntityList[n])
        BY <1>3
  <2>1. PICK j \in (i + 1 + 1)..Len(s) :
            s[j] = After(n) /\ \A k \in (i + 1 + 1)..(j - 1) : ~Listing(s[k])
        BY <2>0 DEF Chained
  <2>2. j \in 2..Len(s) /\ j - 1 \in (i + 1)..Len(t)
        BY <1>1
  <2>3. ASSUME NEW k \in (i + 1)..(j - 1 - 1) PROVE ~Listing(t[k])
    <3>1. k + 1 \in (i + 1 + 1)..(j - 1) /\ k \in 1..Len(t)
          BY <1>1, <2>2
    <3> QED
        BY <1>3, <2>1, <3>1
  <2> QED
      BY <1>2, <2>1, <2>2, <2>3
<1>5. ASSUME NEW n \in 1..N, s[1] = Descriptor(EntityList[n]) PROVE Ahead(t, After(n))
  <2>1. PICK j \in (1 + 1)..Len(s) :
            s[j] = After(n) /\ \A k \in (1 + 1)..(j - 1) : ~Listing(s[k])
        BY <1>1, <1>5 DEF Chained
  <2>2. j \in 2..Len(s) /\ j - 1 \in 1..Len(t)
        BY <1>1
  <2>3. ASSUME NEW k \in 1..(j - 1 - 1) PROVE ~Listing(t[k])
    <3>1. k + 1 \in (1 + 1)..(j - 1) /\ k \in 1..Len(t)
          BY <1>1, <2>2
    <3> QED
        BY <1>3, <2>1, <3>1
  <2> QED
      BY <1>2, <2>1, <2>2, <2>3 DEF Ahead
<1>6. ASSUME NEW n \in 0..N, Ahead(s, After(n))
      PROVE  IF Listing(s[1]) THEN s[1] = After(n) ELSE Ahead(t, After(n))
  <2>1. PICK j \in 1..Len(s) : s[j] = After(n) /\ \A k \in 1..(j - 1) : ~Listing(s[k])
        BY <1>6 DEF Ahead
  <2>2. CASE j = 1
        BY <2>1, <2>2, ListingFacts
  <2>3. CASE j # 1
    <3>1. j \in 2..Len(s) /\ 1 \in 1..(j - 1) /\ j - 1 \in 1..Len(t)
          BY <1>1, <2>3
    <3>2. ASSUME NEW k \in 1..(j - 1 - 1) PROVE ~Listing(t[k])
      <4>1. k + 1 \in 1..(j - 1) /\ k \in 1..Len(t)
            BY <1>1, <3>1
      <4> QED
          BY <1>3, <2>1, <4>1
    <3> QED
        BY <1>2, <2>1, <3>1, <3>2 DEF Ahead
  <2> QED
      BY <2>2, <2>3
<1>7. ASSUME NEW R, Known(s, R), NEW Q, R \subseteq Q,
             s[1] # Done, \A k \in Keys : s[1] = Descriptor(k) => k \in Q
      PROVE  Known(t, Q)
  <2> SUFFICES ASSUME NEW i \in 1..Len(t), NEW k \in Keys, t[i] = Done, k \notin Q
               PROVE  \E j \in 1..(i - 1) : t[j] = Descriptor(k)
      BY DEF Known
  <2>1. PICK j \in 1..(i + 1 - 1) : s[j] = Descriptor(k)
        BY <1>3, <1>7 DEF Known
  <2>2. j # 1
        BY <1>7, <2>1
  <2>3. j \in 2..Len(s) /\ j - 1 \in 1..(i - 1)
        BY <1>1, <2>1, <2>2
  <2> QED
      BY <1>2, <2>1, <2>3
<1>8. ASSUME NEW R, Known(s, R), NEW k \in Keys, s[1] = Descriptor(k)
      PROVE  Known(t, R \cup {k})
  <2>1. s[1] # Done /\ \A j \in Keys : s[1] = Descriptor(j) => j = k
        BY <1>8, FrameFacts
  <2> QED
      BY <1>7, <1>8, <2>1
<1>9. ASSUME NEW R, Known(s, R), ~Listing(s[1]) PROVE Known(t, R)
  <2>1. s[1] \in Frames
        BY <1>1
  <2>2. s[1] # Done /\ \A j \in Keys : s[1] # Descriptor(j)
        BY <1>9, <2>1, FrameFacts
  <2> QED
      BY <1>7, <1>9, <2>2
<1>10. ASSUME NEW R, Known(s, R), s[1] = Done PROVE Keys \subseteq R /\ Known(t, R)
  <2>1. 1..(1 - 1) = {}
        OBVIOUS
  <2>2. Keys \subseteq R
        BY <1>1, <1>10, <2>1 DEF Known
  <2> QED
      BY <2>2 DEF Known
<1> QED
    BY <1>4, <1>5, <1>6, <1>8, <1>9, <1>10

-----------------------------------------------------------------------------
(* The inductive invariant.                                                *)

\* State frames in between do not change the order of the listing frames.
LEMMA InsertedEmbeds ==
    ASSUME FrameTypes, FrameTypes', StatesInserted
    PROVE  Embedded(Stream, Stream')
<1>1. Len(Stream) \in Nat /\ Len(Stream') \in Nat
      BY StreamType, StreamTypeNext
<1>2. PICK p \in 0..Len(Stream), q \in Nat :
        /\ Len(Stream') = Len(Stream) + q
        /\ \A i \in 1..p : Stream'[i] = Stream[i]
        /\ \A i \in (p + 1)..(p + q) : ~Listing(Stream'[i])
        /\ \A i \in (p + q + 1)..(Len(Stream) + q) : Stream'[i] = Stream[i - q]
      BY DEF StatesInserted
<1>3. PICK f : f = [i \in 1..Len(Stream) |-> IF i <= p THEN i ELSE i + q]
      OBVIOUS
<1>4. \A i \in 1..Len(Stream) : f[i] = IF i <= p THEN i ELSE i + q
      BY <1>3
<1>5. f \in [1..Len(Stream) -> 1..Len(Stream')]
  <2>1. \A i \in 1..Len(Stream) : (IF i <= p THEN i ELSE i + q) \in 1..Len(Stream')
        BY <1>1, <1>2
  <2> QED
      BY <1>3, <2>1
<1>6. \A i, j \in 1..Len(Stream) : i < j => f[i] < f[j]
      BY <1>1, <1>4
<1>7. ASSUME NEW i \in 1..Len(Stream) PROVE Stream'[f[i]] = Stream[i]
  <2>1. CASE i <= p
    <3>1. i \in 1..p
          BY <1>1, <2>1
    <3> QED
        BY <1>2, <1>4, <2>1, <3>1
  <2>2. CASE ~(i <= p)
    <3>1. i + q \in (p + q + 1)..(Len(Stream) + q) /\ (i + q) - q = i
          BY <1>1, <2>2
    <3>2. Stream'[i + q] = Stream[(i + q) - q]
          BY <1>2, <3>1
    <3> QED
        BY <1>4, <2>2, <3>1, <3>2
  <2> QED
      BY <2>1, <2>2
<1>8. ASSUME NEW j \in 1..Len(Stream'), Listing(Stream'[j])
      PROVE  \E i \in 1..Len(Stream) : f[i] = j
  <2>1. ~(j \in (p + 1)..(p + q))
        BY <1>2, <1>8
  <2>2. CASE j <= p
    <3>1. j \in 1..Len(Stream)
          BY <1>1, <2>2
    <3> QED
        BY <1>4, <2>2, <3>1
  <2>3. CASE ~(j <= p)
    <3>1. j - q \in 1..Len(Stream) /\ ~(j - q <= p) /\ (j - q) + q = j
          BY <1>1, <1>2, <2>1, <2>3
    <3>2. f[j - q] = (j - q) + q
          BY <1>4, <3>1
    <3> QED
        BY <3>1, <3>2
  <2> QED
      BY <2>2, <2>3
<1> QED
    BY <1>5, <1>6, <1>7, <1>8 DEF Embedded

\* Outside the dispatcher the listing frames stay as they are, or a listing is
\* added, or the completions of a fault between two requests are.
LEMMA StreamStep ==
    ASSUME TypeOK, FrameTypes, TypeOK', FrameTypes', [Next]_vars, ~Dispatch
    PROVE  /\ UNCHANGED <<registry, fresh, faults>>
           /\ Stream \in Seq(Frames) /\ Stream' \in Seq(Frames)
           /\ \/ Embedded(Stream, Stream')
              \/ ServeList /\ Extended(Stream, Stream')
              \/ DeviceTrigger /\ ~NoStray /\ Completed(Stream, Stream')
<1>1. Stream \in Seq(Frames) /\ Stream' \in Seq(Frames) /\ Len(Stream) \in Nat
      BY StreamType, StreamTypeNext
<1>2. UNCHANGED <<registry, fresh, faults>>
      BY Steps DEF Install, SendRequest, Await, Cleanup, SubscribeStates, ServeList,
         ServeStates, DeviceServe, DeviceTrigger, DeviceSend, DevicePush, ConnStep, Close,
         CloseStep, vars, deviceVars
<1>3. CASE ServeList
  <2>1. /\ Len(Stream') = Len(Stream) + Len(ListingFrames)
        /\ \A i \in 1..Len(Stream) : Stream'[i] = Stream[i]
        /\ \A i \in 1..Len(ListingFrames) : Stream'[Len(Stream) + i] = ListingFrames[i]
        BY <1>3, StreamList
  <2>2. /\ Len(ListingFrames) \in Nat /\ Len(ListingFrames) >= N + 1
        /\ \A i \in 1..Len(ListingFrames) :
              ListingFrames[i] = IF i <= N THEN Descriptor(EntityList[i]) ELSE Done
        BY ListingFramesFacts
  <2>4. Extended(Stream, Stream')
        BY <2>1, <2>2 DEF Extended
  <2> QED
      BY <1>1, <1>2, <1>3, <2>4
<1>4. CASE ServeStates
      BY <1>1, <1>2, <1>4, StreamStates, InsertedEmbeds
<1>5. CASE DevicePush
      BY <1>1, <1>2, <1>5, StreamPush, InsertedEmbeds
<1>6. CASE DeviceSend
  <2>1. Stream' = Stream
        BY <1>6, StreamSend
  <2>2. Len(Stream) \in 0..Len(Stream) /\ 0 \in Nat
        BY <1>1
  <2>3. StatesInserted
        BY <1>1, <2>1, <2>2 DEF StatesInserted
  <2> QED
      BY <1>1, <1>2, <2>3, InsertedEmbeds
<1>7. CASE UNCHANGED <<frames, script>>
      BY <1>1, <1>2, <1>7, StreamSame, InsertedEmbeds
<1>9. CASE DeviceTrigger
  <2>1. /\ trigger # None /\ 2 * faults[trigger] \in Nat
        /\ Len(Stream') = Len(Stream) + 2 * faults[trigger]
        /\ \A i \in 1..Len(Stream) : Stream'[i] = Stream[i]
        /\ \A i \in 1..(2 * faults[trigger]) : Stream'[Len(Stream) + i] = Done
        BY <1>9, StreamTrigger
  <2>2. CASE NoStray
    <3>1. 2 * faults[trigger] = 0
          BY <2>1, <2>2, FaultFacts
    <3>2. Len(Stream') = Len(Stream) /\ \A i \in 1..Len(Stream) : Stream'[i] = Stream[i]
          BY <1>1, <2>1, <3>1
    <3>3. Len(Stream) \in 0..Len(Stream) /\ 0 \in Nat
          BY <1>1
    <3>4. StatesInserted
          BY <1>1, <3>2, <3>3 DEF StatesInserted
    <3> QED
        BY <1>1, <1>2, <3>4, InsertedEmbeds
  <2>3. CASE ~NoStray
    <3>1. Completed(Stream, Stream')
          BY <2>1 DEF Completed
    <3> QED
        BY <1>1, <1>2, <1>9, <2>3, <3>1
  <2> QED
      BY <2>2, <2>3
<1>8. ServeList \/ ServeStates \/ DevicePush \/ DeviceSend \/ DeviceTrigger
         \/ UNCHANGED <<frames, script>>
      BY Steps DEF Install, SendRequest, Await, Cleanup, SubscribeStates, ConnStep, Close,
         CloseStep, vars, deviceVars
<1> QED
    BY <1>3, <1>4, <1>5, <1>6, <1>7, <1>8, <1>9

\* What the dispatcher does to the stream.
LEMMA DispatchStep ==
    ASSUME TypeOK, FrameTypes, TypeOK', FrameTypes', Dispatch
    PROVE  /\ Stream \in Seq(Frames) /\ Stream' \in Seq(Frames)
           /\ Len(Stream) >= 1 /\ Len(Stream') = Len(Stream) - 1
           /\ \A i \in 1..(Len(Stream) - 1) : Stream'[i] = Stream[i + 1]
           /\ UNCHANGED <<phase, pc, result, requests, faults>>
           /\ \/ \E n \in 1..N : /\ Stream[1] = Descriptor(EntityList[n])
                                 /\ DispatchDescriptor(EntityList[n])
              \/ ~Listing(Stream[1]) /\ \E k \in Keys, v \in States : DispatchState(k, v)
              \/ Stream[1] = Done /\ DispatchDone
<1>1. /\ frames # <<>> /\ frames' = Tail(frames) /\ UNCHANGED script
      /\ UNCHANGED <<phase, pc, result, requests, faults>>
      BY DispatchEffect
<1>2. /\ Len(Stream) >= 1 /\ Len(Stream') = Len(Stream) - 1
      /\ \A i \in 1..(Len(Stream) - 1) : Stream'[i] = Stream[i + 1]
      /\ Stream[1] = Head(frames)
      BY <1>1, StreamDispatch
<1>3. Stream \in Seq(Frames) /\ Stream' \in Seq(Frames)
      BY StreamType, StreamTypeNext
<1>4. ASSUME NEW k \in Keys, DispatchDescriptor(k)
      PROVE  \E n \in 1..N : /\ Stream[1] = Descriptor(EntityList[n])
                             /\ DispatchDescriptor(EntityList[n])
  <2>1. PICK n \in 1..N : EntityList[n] = k
        BY ListFacts
  <2>2. Head(frames) = Descriptor(k)
        BY <1>4 DEF DispatchDescriptor
  <2> QED
      BY <1>2, <1>4, <2>1, <2>2
<1>5. ASSUME NEW k \in Keys, NEW v \in States, DispatchState(k, v) PROVE ~Listing(Stream[1])
      BY <1>2, <1>5, FrameFacts DEF DispatchState, Listing
<1>6. ASSUME DispatchDone PROVE Stream[1] = Done
      BY <1>2, <1>6 DEF DispatchDone
<1> QED
    BY <1>1, <1>2, <1>3, <1>4, <1>5, <1>6, DispatchEffect

\* The stream and the registry.
LEMMA StreamInvStep ==
    TypeOK /\ FrameTypes /\ TypeOK' /\ FrameTypes' /\ StreamInv /\ [Next]_vars => StreamInv'
<1> SUFFICES ASSUME TypeOK, FrameTypes, TypeOK', FrameTypes', StreamInv, [Next]_vars
             PROVE  StreamInv'
    OBVIOUS
<1>1. CASE ~Dispatch
  <2>1. /\ Chained(Stream') /\ (NoStray => Known(Stream', DOMAIN registry))
        /\ UNCHANGED <<registry, faults>>
        BY <1>1, StreamStep, EmbeddedFacts, ExtendedFacts, CompletedFacts DEF StreamInv
  <2>2. UNCHANGED completed
        BY <1>1, Steps DEF Install, SendRequest, Await, Cleanup, SubscribeStates, ServeList,
           ServeStates, DeviceServe, DeviceTrigger, DeviceSend, DevicePush, ConnStep, Close, CloseStep, vars,
           listVars
  <2> QED
      BY <2>1, <2>2 DEF StreamInv, RegistryComplete, NoStray
<1>2. CASE Dispatch
  <2> DEFINE D == DOMAIN registry
  <2>0. NoStray' = NoStray
        BY <1>2, DispatchStep DEF NoStray
  <2>1. /\ Chained(Stream')
        /\ NoStray =>
              /\ \A k \in Keys : Stream[1] = Descriptor(k) => Known(Stream', D \cup {k})
              /\ ~Listing(Stream[1]) => Known(Stream', D)
              /\ Stream[1] = Done => Keys \subseteq D /\ Known(Stream', D)
        BY <1>2, DispatchStep, TailFacts DEF StreamInv
  <2>2. DOMAIN registry \subseteq Keys /\ DOMAIN registry' \subseteq Keys
        BY DEF TypeOK
  <2>3. ASSUME NEW n \in 1..N, Stream[1] = Descriptor(EntityList[n]),
               DispatchDescriptor(EntityList[n])
        PROVE  StreamInv'
    <3>1. EntityList[n] \in Keys
          BY ListFacts
    <3>2. DOMAIN registry' = DOMAIN registry \cup {EntityList[n]} /\ completed' = completed
          BY <2>3 DEF DispatchDescriptor, Registered
    <3> QED
        BY <2>0, <2>1, <2>2, <2>3, <3>1, <3>2 DEF StreamInv, RegistryComplete
  <2>4. ASSUME NEW k \in Keys, NEW v \in States, ~Listing(Stream[1]), DispatchState(k, v)
        PROVE  StreamInv'
    <3>1. DOMAIN registry' = DOMAIN registry /\ completed' = completed
          BY <2>4 DEF DispatchState
    <3> QED
        BY <2>0, <2>1, <2>4, <3>1 DEF StreamInv, RegistryComplete
  <2>5. ASSUME Stream[1] = Done, DispatchDone PROVE StreamInv'
    <3>1. registry' = registry
          BY <2>5 DEF DispatchDone
    <3> QED
        BY <2>0, <2>1, <2>2, <2>5, <3>1 DEF StreamInv, RegistryComplete
  <2> QED
      BY <1>2, <2>3, <2>4, <2>5, DispatchStep
<1> QED
    BY <1>1, <1>2

\* The bookkeeping of the listings.
LEMMA PendingStep ==
    TypeOK /\ FrameTypes /\ TypeOK' /\ PendingInv /\ [Next]_vars => PendingInv'
<1> SUFFICES ASSUME TypeOK, FrameTypes, TypeOK', PendingInv, [Next]_vars PROVE PendingInv'
    OBVIOUS
<1> USE DEF connVars, listVars, deviceVars
<1>1. ASSUME NEW l \in Listers, Install(l) PROVE PendingInv'
  <2>1. pc[l] = "idle" /\ UNCHANGED <<collected, completed>>
        BY <1>1 DEF Install
  <2>2. CASE list # None
    <3>1. /\ pc' = [pc EXCEPT ![l] = "returned"]
          /\ result' = [result EXCEPT ![l] = "busy"]
          /\ list' = list
          BY <1>1, <2>2 DEF Install
    <3> QED
        BY <2>1, <2>2, <3>1 DEF PendingInv, TypeOK
  <2>3. CASE list = None
    <3>1. pc' = [pc EXCEPT ![l] = "send"] /\ result' = result /\ list' = l
          BY <1>1, <2>3 DEF Install, Step
    <3> QED
        BY <2>1, <3>1 DEF PendingInv, TypeOK
  <2> QED
      BY <2>2, <2>3
<1>2. ASSUME NEW l \in Listers, SendRequest(l) PROVE PendingInv'
  <2>1. pc[l] = "send" /\ UNCHANGED <<collected, completed, list>>
        BY <1>2 DEF SendRequest
  <2>2. CASE FramerClosed
    <3>1. /\ pc' = [pc EXCEPT ![l] = "cleanup"]
          /\ result' = [result EXCEPT ![l] = "sendErr"]
          BY <1>2, <2>2 DEF SendRequest, Step
    <3> QED
        BY <2>1, <3>1 DEF PendingInv, TypeOK
  <2>3. CASE ~FramerClosed
    <3>1. pc' = [pc EXCEPT ![l] = "await"] /\ result' = result
          BY <1>2, <2>3 DEF SendRequest, Step
    <3> QED
        BY <2>1, <3>1 DEF PendingInv, TypeOK
  <2> QED
      BY <2>2, <2>3
<1>3. ASSUME NEW l \in Listers, Await(l) PROVE PendingInv'
      BY <1>3 DEF Await, Step, PendingInv, TypeOK
<1>4. ASSUME NEW l \in Listers, Cleanup(l) PROVE PendingInv'
      BY <1>4 DEF Cleanup, Step, PendingInv, TypeOK
<1>5. CASE Dispatch
  <2>1. UNCHANGED <<pc, result>>
        BY <1>5, DispatchEffect
  <2>2. ASSUME NEW k \in Keys, DispatchDescriptor(k) PROVE PendingInv'
        BY <2>1, <2>2 DEF DispatchDescriptor, PendingInv, TypeOK
  <2>3. ASSUME NEW k \in Keys, NEW v \in States, DispatchState(k, v) PROVE PendingInv'
        BY <2>1, <2>3 DEF DispatchState, PendingInv, TypeOK
  <2>4. ASSUME DispatchDone PROVE PendingInv'
        BY <2>1, <2>4 DEF DispatchDone, PendingInv, TypeOK
  <2> QED
      BY <1>5, <2>2, <2>3, <2>4, DispatchEffect
<1>6. CASE UNCHANGED listVars
      BY <1>6 DEF PendingInv
<1>7. SubscribeStates \/ ServeList \/ ServeStates \/ DeviceTrigger \/ DeviceSend
         \/ DevicePush \/ ConnStep \/ UNCHANGED vars => UNCHANGED listVars
      BY DEF SubscribeStates, ServeList, ServeStates, DeviceServe, DeviceTrigger, DeviceSend, DevicePush,
         ConnStep, Close, CloseStep, vars
<1> QED
    BY <1>1, <1>2, <1>3, <1>4, <1>5, <1>6, <1>7, Steps

\* A part of the declaration order, when its next entity is appended.
LEMMA EndsAtFacts ==
    /\ \A i \in 0..N : EndsAt(<<>>, i)
    /\ \A c \in Seq(Keys), i \in 0..(N - 1) :
          EndsAt(c, i) => EndsAt(Append(c, EntityList[i + 1]), i + 1)
    /\ \A i \in 1..N : EndsAt(Append(<<>>, EntityList[i]), i)
<1>1. N \in Nat
      BY ListFacts
<1>2. \A i \in 0..N : EndsAt(<<>>, i)
      BY <1>1 DEF EndsAt
<1>3. ASSUME NEW c \in Seq(Keys), NEW i \in 0..(N - 1), EndsAt(c, i)
      PROVE  EndsAt(Append(c, EntityList[i + 1]), i + 1)
  <2>1. i + 1 \in 1..N
        BY <1>1
  <2>2. EntityList[i + 1] \in Keys
        BY <2>1, ListFacts
  <2>3. PICK d : d = Append(c, EntityList[i + 1])
        OBVIOUS
  <2>4. /\ Len(d) = Len(c) + 1 /\ Len(c) \in Nat
        /\ \A p \in 1..Len(c) : d[p] = c[p]
        /\ d[Len(c) + 1] = EntityList[i + 1]
        BY <2>2, <2>3
  <2>5. ASSUME NEW p \in 1..Len(d) PROVE d[p] = EntityList[i + 1 - Len(d) + p]
    <3>1. CASE p \in 1..Len(c)
      <4>1. d[p] = EntityList[i - Len(c) + p]
            BY <1>3, <2>4, <3>1 DEF EndsAt
      <4>2. i - Len(c) + p = i + 1 - Len(d) + p
            BY <1>1, <2>4, <3>1
      <4> QED
          BY <4>1, <4>2
    <3>2. CASE p = Len(c) + 1
      <4>1. i + 1 - Len(d) + p = i + 1
            BY <1>1, <2>4, <3>2
      <4> QED
          BY <2>4, <3>2, <4>1
    <3> QED
        BY <2>4, <3>1, <3>2
  <2>6. Len(d) <= i + 1
        BY <1>1, <1>3, <2>4 DEF EndsAt
  <2> QED
      BY <2>3, <2>5, <2>6 DEF EndsAt
<1>4. ASSUME NEW i \in 1..N PROVE EndsAt(Append(<<>>, EntityList[i]), i)
  <2>1. i - 1 \in 0..(N - 1) /\ i - 1 \in 0..N /\ (i - 1) + 1 = i
        BY <1>1
  <2>2. EndsAt(<<>>, i - 1) /\ <<>> \in Seq(Keys)
        BY <1>2, <2>1
  <2>3. EndsAt(Append(<<>>, EntityList[(i - 1) + 1]), (i - 1) + 1)
        BY <1>3, <2>1, <2>2
  <2> QED
      BY <2>1, <2>3
<1> QED
    BY <1>2, <1>3, <1>4

\* What the listings have collected.
LEMMA CollectStep ==
    ASSUME TypeOK, FrameTypes, TypeOK', FrameTypes', StreamInv, PendingInv, CollectInv,
           [Next]_vars
    PROVE  CollectInv'
<1>1. CASE ~Dispatch
  <2>1. \A n \in 0..N : Ahead(Stream, After(n)) => Ahead(Stream', After(n))
        BY <1>1, StreamStep, EmbeddedFacts, ExtendedFacts, CompletedFacts
  <2>2. UNCHANGED <<collected, completed>>
        BY <1>1, Steps DEF Install, SendRequest, Await, Cleanup, SubscribeStates, ServeList,
           ServeStates, DeviceServe, DeviceTrigger, DeviceSend, DevicePush, ConnStep, Close, CloseStep, vars,
           listVars
  <2>3. list' = list \/ list' = None
           \/ \E l \in Listers : list' = l /\ pc[l] = "idle"
    <3>1. ASSUME NEW l \in Listers, Install(l)
          PROVE  list' = list \/ (list' = l /\ pc[l] = "idle")
          BY <3>1 DEF Install
    <3>2. ASSUME NEW l \in Listers, Cleanup(l) PROVE list' = list \/ list' = None
          BY <3>2 DEF Cleanup
    <3>3. \/ \E l \in Listers : Install(l)
          \/ \E l \in Listers : Cleanup(l)
          \/ list' = list
          BY <1>1, Steps DEF SendRequest, Await, SubscribeStates, ServeList, ServeStates,
             DeviceServe, DeviceTrigger, DeviceSend, DevicePush, ConnStep, Close, CloseStep, vars, listVars
    <3> QED
        BY <3>1, <3>2, <3>3
  <2>4. ASSUME NEW l \in Listers, list' = l, pc[l] = "idle" PROVE CollectInv'
    <3>1. collected'[list'] = <<>>
          BY <2>2, <2>4 DEF PendingInv
    <3>2. 0 \in 0..N /\ EndsAt(<<>>, 0)
          BY ListFacts, EndsAtFacts
    <3> QED
        BY <2>2, <3>1, <3>2 DEF CollectInv
  <2>5. CASE list' = list \/ list' = None
        BY <2>1, <2>2, <2>5 DEF CollectInv
  <2> QED
      BY <2>3, <2>4, <2>5
<1>2. CASE Dispatch
  <2>1. /\ \A n \in 1..N : Stream[1] = Descriptor(EntityList[n]) => Ahead(Stream', After(n))
        /\ \A n \in 0..N : Ahead(Stream, After(n)) =>
              IF Listing(Stream[1]) THEN Stream[1] = After(n) ELSE Ahead(Stream', After(n))
        BY <1>2, DispatchStep, TailFacts DEF StreamInv
  <2>2. ASSUME NEW n \in 1..N, Stream[1] = Descriptor(EntityList[n]),
               DispatchDescriptor(EntityList[n])
        PROVE  CollectInv'
    <3>1. UNCHANGED <<list, completed>>
          BY <2>2 DEF DispatchDescriptor
    <3>2. CASE list = None
          BY <2>2, <3>1, <3>2 DEF DispatchDescriptor, CollectInv
    <3>3. CASE list # None
      <4>1. list \in Listers /\ collected[list] \in Seq(Keys) /\ ~completed[list]
            BY <3>3 DEF TypeOK, PendingInv
      <4>2. /\ collected'[list] = Append(collected[list], EntityList[n])
            /\ \A l \in Listers : l # list => collected'[l] = collected[l]
            BY <2>2, <3>3, <4>1 DEF DispatchDescriptor, TypeOK
      <4>3. EndsAt(collected'[list], n)
        <5>1. CASE collected[list] = <<>>
              BY <4>2, <5>1, EndsAtFacts
        <5>2. CASE collected[list] # <<>>
          <6>1. PICK i \in 0..N : EndsAt(collected[list], i) /\ Ahead(Stream, After(i))
                BY <3>3, <5>2 DEF CollectInv
          <6>2. Stream[1] = After(i)
                BY <2>1, <2>2, <6>1, ListingFacts
          <6>3. i < N
                BY <2>2, <6>2, ListingFacts DEF After
          <6>4. i + 1 \in 1..N /\ i \in 0..(N - 1)
                BY <6>3, ListFacts
          <6>5. i + 1 = n
                BY <2>2, <6>2, <6>3, <6>4, ListingFacts DEF After
          <6> QED
              BY <4>1, <4>2, <6>1, <6>4, <6>5, EndsAtFacts
        <5> QED
            BY <5>1, <5>2
      <4>4. n \in 0..N /\ Ahead(Stream', After(n))
            BY <2>1, <2>2, ListFacts
      <4> QED
          BY <3>1, <4>1, <4>2, <4>3, <4>4 DEF CollectInv
    <3> QED
        BY <3>2, <3>3
  <2>3. ASSUME NEW k \in Keys, NEW v \in States, ~Listing(Stream[1]), DispatchState(k, v)
        PROVE  CollectInv'
        BY <2>1, <2>3 DEF DispatchState, CollectInv
  <2>4. ASSUME Stream[1] = Done, DispatchDone PROVE CollectInv'
    <3>1. list' = None /\ collected' = collected
          BY <2>4 DEF DispatchDone
    <3>2. ASSUME NEW l \in Listers, completed'[l] PROVE EndsAt(collected[l], N)
      <4>1. CASE completed[l]
            BY <4>1 DEF CollectInv
      <4>2. CASE ~completed[l]
        <5>1. l = list /\ list # None
              BY <2>4, <3>2, <4>2 DEF DispatchDone, TypeOK
        <5>2. PICK i \in 0..N :
                  EndsAt(collected[list], i) /\ (collected[list] # <<>> => Ahead(Stream, After(i)))
              BY <5>1 DEF CollectInv
        <5>3. CASE collected[list] = <<>>
              BY <5>1, <5>3, EndsAtFacts, ListFacts
        <5>4. CASE collected[list] # <<>>
          <6>1. Stream[1] = After(i)
                BY <2>1, <2>4, <5>2, <5>4, ListingFacts
          <6>2. ~(i < N)
            <7>1. ASSUME i < N PROVE FALSE
              <8>1. i + 1 \in 1..N
                    BY <7>1, ListFacts
              <8> QED
                  BY <2>4, <6>1, <7>1, <8>1, ListingFacts DEF After
            <7> QED
                BY <7>1
          <6>3. i = N
                BY <6>2, ListFacts
          <6> QED
              BY <5>1, <5>2, <6>3
        <5> QED
            BY <5>3, <5>4
      <4> QED
          BY <4>1, <4>2
    <3> QED
        BY <3>1, <3>2 DEF CollectInv
  <2> QED
      BY <1>2, <2>2, <2>3, <2>4, DispatchStep
<1> QED
    BY <1>1, <1>2

\* The inductive invariant holds in every reachable state.
LEMMA ListingCorrect == Spec => [](TypeOK /\ FrameTypes /\ ListingInv)
<1>1. Init => ListingInv
  <2> SUFFICES ASSUME Init PROVE ListingInv
      OBVIOUS
  <2>1. Stream = <<>> /\ Len(Stream) = 0
        BY DEF Init, Stream
  <2>2. StreamInv
        BY <2>1 DEF StreamInv, Chained, Known, RegistryComplete, Init
  <2> QED
      BY <2>2 DEF Init, ListingInv, PendingInv, CollectInv
<1>2. TypeOK /\ FrameTypes /\ TypeOK' /\ FrameTypes' /\ ListingInv /\ [Next]_vars => ListingInv'
      BY StreamInvStep, PendingStep, CollectStep DEF ListingInv
<1> QED
    BY <1>1, <1>2, TypesCorrect, PTL DEF Spec

\* Where completions come from listings only, a completed listing, even a
\* truncated one, leaves every entity of the device in the registry.
THEOREM RegistryCompleteness == Spec => []RegistryComplete
<1>1. ListingInv => RegistryComplete
      BY DEF ListingInv, StreamInv
<1> QED
    BY <1>1, ListingCorrect, PTL

\* A part of the declaration order that ends with the last entity is a suffix
\* of it.
LEMMA SuffixFacts ==
    ASSUME NEW c \in Seq(Keys), EndsAt(c, N)
    PROVE  IsSuffix(c, EntityList)
<1>1. /\ Len(c) \in Nat /\ N \in Nat /\ Len(c) <= N /\ EntityList \in Seq(Keys)
      /\ Len(EntityList) = N
      BY ListFacts DEF EndsAt, N
<1>2. PICK r : r = [i \in 1..Len(c) |-> c[(Len(c) - i) + 1]]
      OBVIOUS
<1>3. PICK e : e = [i \in 1..N |-> EntityList[(N - i) + 1]]
      OBVIOUS
<1>4. r \in Seq(Keys) /\ Len(r) = Len(c) /\ \A i \in 1..Len(c) : r[i] = c[(Len(c) - i) + 1]
  <2>1. \A i \in 1..Len(c) : (Len(c) - i) + 1 \in 1..Len(c)
        BY <1>1
  <2>2. \A i \in 1..Len(c) : c[(Len(c) - i) + 1] \in Keys
        BY <2>1
  <2> QED
      BY <1>1, <1>2, <2>2
<1>5. e \in Seq(Keys) /\ Len(e) = N /\ \A i \in 1..N : e[i] = EntityList[(N - i) + 1]
  <2>1. \A i \in 1..N : (N - i) + 1 \in 1..N
        BY <1>1
  <2>2. \A i \in 1..N : EntityList[(N - i) + 1] \in Keys
        BY <2>1, ListFacts
  <2> QED
      BY <1>1, <1>3, <2>2
<1>6. ASSUME NEW i \in 1..Len(c) PROVE r[i] = e[i]
  <2>1. (Len(c) - i) + 1 \in 1..Len(c) /\ i \in 1..N
        BY <1>1
  <2>2. c[(Len(c) - i) + 1] = EntityList[N - Len(c) + ((Len(c) - i) + 1)]
        BY <2>1 DEF EndsAt
  <2>3. N - Len(c) + ((Len(c) - i) + 1) = (N - i) + 1
        BY <1>1
  <2> QED
      BY <1>4, <1>5, <2>1, <2>2, <2>3
<1>7. SubSeq(r, 1, Len(r)) = SubSeq(e, 1, Len(r))
  <2>1. /\ SubSeq(r, 1, Len(r)) = [i \in 1..Len(c) |-> r[i]]
        /\ SubSeq(e, 1, Len(r)) = [i \in 1..Len(c) |-> e[i]]
        BY <1>1, <1>4, <1>5
  <2> QED
      BY <1>6, <2>1
<1>8. IsPrefix(r, e)
      BY <1>1, <1>4, <1>5, <1>7 DEF IsPrefix
<1>9. r = Reverse(c) /\ e = Reverse(EntityList)
      BY <1>1, <1>2, <1>3 DEF Reverse
<1> QED
    BY <1>8, <1>9 DEF IsSuffix

\* A listing that succeeds, even one completed by another listing's frames, is
\* a run of the declaration order up to its end.
THEOREM SuffixSafety == Spec => []ListingIsSuffix
<1>1. TypeOK /\ ListingInv => ListingIsSuffix
  <2> SUFFICES ASSUME TypeOK, ListingInv, NEW l \in Listers, result[l] = "ok"
               PROVE  IsSuffix(collected[l], EntityList)
      BY DEF ListingIsSuffix
  <2>1. collected[l] \in Seq(Keys) /\ EndsAt(collected[l], N)
        BY DEF TypeOK, ListingInv, PendingInv, CollectInv
  <2> QED
      BY <2>1, SuffixFacts
<1> QED
    BY <1>1, ListingCorrect, PTL

-----------------------------------------------------------------------------
(* Clean connections.                                                      *)

\* Requests for a listing among the requests.
LEMMA RequestFacts ==
    ASSUME NEW r \in Seq({"list", "subscribe"})
    PROVE  /\ NoList(r) => OneList(Append(r, "list"))
           /\ OneList(r) => OneList(Append(r, "subscribe"))
           /\ NoList(r) => NoList(Append(r, "subscribe"))
           /\ r # <<>> =>
                 /\ OneList(r) => OneList(Tail(r))
                 /\ NoList(r) => NoList(Tail(r))
                 /\ Head(r) = "list" => ~NoList(r) /\ (OneList(r) => NoList(Tail(r)))
<1>1. Len(r) \in Nat /\ \A i \in 1..Len(r) : r[i] \in {"list", "subscribe"}
      OBVIOUS
<1>2. ASSUME NEW x \in {"list", "subscribe"}
      PROVE  /\ Len(Append(r, x)) = Len(r) + 1 /\ Append(r, x)[Len(r) + 1] = x
             /\ \A i \in 1..Len(r) : Append(r, x)[i] = r[i]
             /\ \A i \in 1..(Len(r) + 1) : i \in 1..Len(r) \/ i = Len(r) + 1
      OBVIOUS
<1>3. ASSUME NoList(r) PROVE OneList(Append(r, "list"))
      BY <1>1, <1>2, <1>3 DEF NoList, OneList
<1>4. ASSUME OneList(r) PROVE OneList(Append(r, "subscribe"))
      BY <1>1, <1>2, <1>4 DEF OneList
<1>5. ASSUME NoList(r) PROVE NoList(Append(r, "subscribe"))
      BY <1>1, <1>2, <1>5 DEF NoList
<1>6. ASSUME r # <<>>
      PROVE  /\ Len(Tail(r)) = Len(r) - 1 /\ Head(r) = r[1] /\ 1 \in 1..Len(r)
             /\ \A i \in 1..Len(Tail(r)) :
                   Tail(r)[i] = r[i + 1] /\ i + 1 \in 1..Len(r) /\ i + 1 # 1
      BY <1>6
<1>7. ASSUME r # <<>>, OneList(r) PROVE OneList(Tail(r))
  <2> SUFFICES ASSUME NEW i \in 1..Len(Tail(r)), NEW j \in 1..Len(Tail(r)),
                      Tail(r)[i] = "list", Tail(r)[j] = "list"
               PROVE  i = j
      BY DEF OneList
  <2>1. i + 1 = j + 1
        BY <1>6, <1>7 DEF OneList
  <2> QED
      BY <2>1
<1>8. ASSUME r # <<>>, NoList(r) PROVE NoList(Tail(r))
      BY <1>6, <1>8 DEF NoList
<1>9. ASSUME r # <<>>, Head(r) = "list" PROVE ~NoList(r) /\ (OneList(r) => NoList(Tail(r)))
      BY <1>6, <1>9 DEF NoList, OneList
<1> QED
    BY <1>3, <1>4, <1>5, <1>7, <1>8, <1>9

\* What embedding keeps of a clean stream.
LEMMA EmbeddedClean ==
    ASSUME NEW s \in Seq(Frames), NEW t \in Seq(Frames), Embedded(s, t)
    PROVE  (Quiet(s) <=> Quiet(t)) /\ (Single(s) => Single(t))
<1>1. PICK f \in [1..Len(s) -> 1..Len(t)] :
        /\ \A i, j \in 1..Len(s) : i < j => f[i] < f[j]
        /\ \A i \in 1..Len(s) : t[f[i]] = s[i]
        /\ \A j \in 1..Len(t) : Listing(t[j]) => \E i \in 1..Len(s) : f[i] = j
      BY DEF Embedded
<1>2. /\ Len(s) \in Nat /\ Len(t) \in Nat
      /\ \A i \in 1..Len(s) : f[i] \in 1..Len(t) /\ f[i] \in Nat /\ i \in Nat
      OBVIOUS
<1>3. Quiet(s) <=> Quiet(t)
      BY <1>1, <1>2 DEF Quiet
<1>4. ASSUME Single(s) PROVE Single(t)
  <2> SUFFICES ASSUME NEW i \in 1..Len(t), NEW j \in 1..Len(t), t[i] = Done, i < j,
                      Listing(t[j])
               PROVE  FALSE
      BY DEF Single
  <2>1. PICK a \in 1..Len(s) : f[a] = i
        BY <1>1, ListingFacts
  <2>2. PICK b \in 1..Len(s) : f[b] = j
        BY <1>1
  <2>3. a < b
    <3>1. ASSUME ~(a < b) PROVE FALSE
      <4>1. a = b \/ b < a
            BY <1>2, <3>1
      <4>2. f[a] = f[b] \/ f[b] < f[a]
            BY <1>1, <4>1
      <4> QED
          BY <2>1, <2>2, <4>2
    <3> QED
        BY <3>1
  <2> QED
      BY <1>1, <1>4, <2>1, <2>2, <2>3 DEF Single
<1> QED
    BY <1>3, <1>4

\* A single listing at the end of a quiet stream.
LEMMA ListedClean ==
    ASSUME NEW s \in Seq(Frames), NEW t \in Seq(Frames), Quiet(s),
           Len(t) = Len(s) + (N + 1),
           \A i \in 1..Len(s) : t[i] = s[i],
           \A i \in 1..(N + 1) :
               t[Len(s) + i] = IF i <= N THEN Descriptor(EntityList[i]) ELSE Done
    PROVE  Single(t) /\ ~Quiet(t) /\ Ahead(t, After(0))
<1>1. Len(s) \in Nat /\ N \in Nat /\ N >= 1
      BY ListFacts
<1>2. Single(t)
  <2> SUFFICES ASSUME NEW i \in 1..Len(t), NEW j \in 1..Len(t), t[i] = Done, i < j
               PROVE  FALSE
      BY DEF Single
  <2>1. CASE i \in 1..Len(s)
        BY <2>1, ListingFacts DEF Quiet
  <2>2. CASE ~(i \in 1..Len(s))
    <3>1. /\ i - Len(s) \in 1..(N + 1) /\ i - Len(s) \in 1..N /\ i - Len(s) <= N
          /\ Len(s) + (i - Len(s)) = i
          BY <1>1, <2>2
    <3>2. t[i] = Descriptor(EntityList[i - Len(s)])
          BY <3>1
    <3> QED
        BY <3>1, <3>2, ListingFacts
  <2> QED
      BY <2>1, <2>2
<1>3. /\ Len(s) + 1 \in 1..Len(t) /\ 1 \in 1..(N + 1) /\ 1 \in 1..N /\ 1 <= N /\ 0 < N
      /\ \A k \in 1..(Len(s) + 1 - 1) : k \in 1..Len(s)
      BY <1>1
<1>4. t[Len(s) + 1] = Descriptor(EntityList[1])
      BY <1>3
<1>5. After(0) = Descriptor(EntityList[1])
      BY <1>3 DEF After
<1>6. Ahead(t, After(0))
      BY <1>3, <1>4, <1>5 DEF Ahead, Quiet
<1>7. ~Quiet(t)
      BY <1>3, <1>4, ListingFacts DEF Quiet
<1> QED
    BY <1>2, <1>6, <1>7

\* The loss of the first element.
LEMMA TailClean ==
    ASSUME NEW s \in Seq(Frames), NEW t \in Seq(Frames),
           Len(s) >= 1, Len(t) = Len(s) - 1,
           \A i \in 1..(Len(s) - 1) : t[i] = s[i + 1]
    PROVE  /\ Single(s) => Single(t)
           /\ Quiet(s) => Quiet(t)
           /\ ~Listing(s[1]) /\ Quiet(t) => Quiet(s)
           /\ Listing(s[1]) => ~Quiet(s)
           /\ Single(s) /\ s[1] = Done => Quiet(t)
           /\ \A n \in 0..N : Ahead(t, After(n)) => ~Quiet(t)
<1>1. Len(s) \in Nat /\ Len(t) \in Nat /\ 1 \in 1..Len(s)
      OBVIOUS
<1>2. \A i \in 1..Len(t) : i + 1 \in 1..Len(s) /\ 1 < i + 1 /\ t[i] = s[i + 1]
      BY <1>1
<1>3. ASSUME Single(s) PROVE Single(t)
  <2> SUFFICES ASSUME NEW i \in 1..Len(t), NEW j \in 1..Len(t), t[i] = Done, i < j
               PROVE  ~Listing(t[j])
      BY DEF Single
  <2>1. i + 1 < j + 1
        BY <1>1
  <2> QED
      BY <1>2, <1>3, <2>1 DEF Single
<1>4. Quiet(s) => Quiet(t)
      BY <1>2 DEF Quiet
<1>5. ASSUME ~Listing(s[1]), Quiet(t) PROVE Quiet(s)
  <2> SUFFICES ASSUME NEW i \in 1..Len(s), i # 1 PROVE ~Listing(s[i])
      BY <1>5 DEF Quiet
  <2>1. i - 1 \in 1..Len(t) /\ (i - 1) + 1 = i
        BY <1>1
  <2>2. t[i - 1] = s[(i - 1) + 1]
        BY <1>2, <2>1
  <2> QED
      BY <1>5, <2>1, <2>2 DEF Quiet
<1>6. Listing(s[1]) => ~Quiet(s)
      BY <1>1 DEF Quiet
<1>7. Single(s) /\ s[1] = Done => Quiet(t)
      BY <1>1, <1>2 DEF Single, Quiet
<1>8. \A n \in 0..N : Ahead(t, After(n)) => ~Quiet(t)
      BY ListingFacts DEF Ahead, Quiet
<1> QED
    BY <1>3, <1>4, <1>5, <1>6, <1>7, <1>8

\* Whatever happens, the scenario stays and a timeout is remembered.
LEMMA CleanBefore ==
    ASSUME TypeOK, FrameTypes, PendingInv, [Next]_vars, Clean'
    PROVE  Clean
<1>1. UNCHANGED faults
      BY Steps, DispatchEffect DEF Install, SendRequest, Await, Cleanup, SubscribeStates,
         ServeList, ServeStates, DeviceServe, DeviceTrigger, DeviceSend, DevicePush, ConnStep, Close,
         CloseStep, vars, deviceVars
<1>2. ASSUME NEW m \in Listers, result[m] = "timeout" PROVE result'[m] = "timeout"
  <2>1. pc[m] \in {"cleanup", "returned"}
        BY <1>2 DEF PendingInv
  <2>2. ASSUME NEW l \in Listers, Install(l) PROVE result'[m] = result[m]
        BY <2>1, <2>2 DEF Install, TypeOK
  <2>3. ASSUME NEW l \in Listers, SendRequest(l) PROVE result'[m] = result[m]
        BY <2>1, <2>3 DEF SendRequest, TypeOK
  <2>4. ASSUME NEW l \in Listers, Await(l) PROVE result'[m] = result[m]
        BY <2>1, <2>4 DEF Await, TypeOK
  <2>5. \/ \E l \in Listers : Install(l) \/ SendRequest(l) \/ Await(l)
        \/ UNCHANGED result
        BY Steps, DispatchEffect DEF Cleanup, SubscribeStates, ServeList, ServeStates,
           DeviceServe, DeviceTrigger, DeviceSend, DevicePush, ConnStep, Close, CloseStep, vars, listVars
  <2> QED
      BY <1>2, <2>2, <2>3, <2>4, <2>5
<1> QED
    BY <1>1, <1>2 DEF Clean

\* The steps of the listers on a clean connection.
LEMMA CleanLister ==
    ASSUME TypeOK, FrameTypes, PendingInv, Clean, Clean', WholeInv,
           phase # "done" => OneInv /\ OwnInv,
           NEW l \in Listers, ListEntities(l)
    PROVE  WholeInv' /\ (phase' # "done" => OneInv' /\ OwnInv')
<1>1. UNCHANGED <<phase, collected, completed, frames, script>>
      BY DEF ListEntities, Install, SendRequest, Await, Cleanup, connVars, deviceVars
<1>2. WholeInv' /\ Stream' = Stream
      BY <1>1 DEF WholeInv, Stream
<1> SUFFICES ASSUME phase # "done" PROVE OneInv' /\ OwnInv'
    BY <1>1, <1>2
<1>3. OneInv /\ OwnInv
      OBVIOUS
<1>4. CASE Install(l)
  <2>1. UNCHANGED requests /\ pc[l] = "idle"
        BY <1>4 DEF Install
  <2>2. OneInv'
        BY <1>2, <1>3, <2>1 DEF OneInv
  <2>3. CASE list # None
    <3>1. pc' = [pc EXCEPT ![l] = "returned"] /\ list' = list
          BY <1>4, <2>3 DEF Install
    <3>2. list \in Listers /\ list # l
          BY <2>1, <2>3 DEF TypeOK, PendingInv
    <3> QED
        BY <1>1, <1>2, <1>3, <2>1, <2>2, <3>1, <3>2 DEF OwnInv, TypeOK
  <2>4. CASE list = None
    <3>1. pc' = [pc EXCEPT ![l] = "send"] /\ list' = l
          BY <1>4, <2>4 DEF Install, Step
    <3>2. l # None /\ collected[l] = <<>> /\ Len(collected[l]) = 0
          BY <2>1, ListingAssumption DEF PendingInv
    <3>3. EndsAt(collected[l], 0) /\ 0 <= N
          BY <3>2, EndsAtFacts, ListFacts
    <3>4. NoList(requests) /\ Quiet(Stream)
          BY <1>3, <2>4 DEF OwnInv
    <3>5. \A m \in Listers : m # l => pc'[m] = pc[m] /\ pc[m] # "send"
          BY <1>3, <2>4, <3>1, ListingAssumption DEF OwnInv, TypeOK
    <3>6. pc'[l] = "send"
          BY <3>1 DEF TypeOK
    <3>7. \A m \in Listers : /\ pc'[m] = "send" => list' = m
                             /\ pc'[m] = "await" /\ list' # m => completed'[m]
          BY <1>1, <1>3, <2>4, <3>1, <3>5, <3>6, ListingAssumption DEF OwnInv
    <3> QED
        BY <1>1, <1>2, <2>1, <2>2, <3>1, <3>2, <3>3, <3>4, <3>7 DEF OwnInv
  <2> QED
      BY <2>3, <2>4
<1>5. CASE SendRequest(l)
  <2>1. pc[l] = "send" /\ list = l /\ list # None /\ list' = list
        BY <1>3, <1>5, ListingAssumption DEF SendRequest, OwnInv
  <2>2. NoList(requests) /\ Quiet(Stream)
        BY <1>3, <2>1 DEF OwnInv
  <2>3. CASE FramerClosed
    <3>1. pc' = [pc EXCEPT ![l] = "cleanup"] /\ UNCHANGED requests
          BY <1>5, <2>3 DEF SendRequest, Step
    <3> QED
        BY <1>1, <1>2, <1>3, <2>1, <2>2, <3>1 DEF OwnInv, OneInv, TypeOK
  <2>4. CASE ~FramerClosed
    <3>1. pc' = [pc EXCEPT ![l] = "await"] /\ requests' = Append(requests, "list")
          BY <1>5, <2>4 DEF SendRequest, Step
    <3>2. OneList(requests')
          BY <2>2, <3>1, RequestFacts DEF TypeOK
    <3>3. OneInv'
          BY <1>2, <1>3, <2>2, <3>2 DEF OneInv
    <3> QED
        BY <1>1, <1>2, <1>3, <2>1, <2>2, <3>1, <3>3 DEF OwnInv, TypeOK
  <2> QED
      BY <2>3, <2>4
<1>6. CASE Await(l)
  <2>1. /\ pc[l] = "await" /\ pc' = [pc EXCEPT ![l] = "cleanup"]
        /\ UNCHANGED <<requests, list>>
        BY <1>6 DEF Await, Step
  <2>2. completed[l]
    <3>1. PICK r \in {"ok", "timeout", "closed"} :
            /\ r = "ok" => completed[l]
            /\ r = "closed" => phase = "done"
            /\ result' = [result EXCEPT ![l] = r]
          BY <1>6 DEF Await
    <3>2. result'[l] = r
          BY <3>1 DEF TypeOK
    <3> QED
        BY <3>1, <3>2 DEF Clean
  <2>3. list # l
        BY <2>2, ListingAssumption DEF PendingInv
  <2> QED
      BY <1>1, <1>2, <1>3, <2>1, <2>3 DEF OneInv, OwnInv, TypeOK
<1>7. CASE Cleanup(l)
  <2>1. /\ pc[l] = "cleanup" /\ pc' = [pc EXCEPT ![l] = "returned"]
        /\ list' = (IF list = l THEN None ELSE list) /\ UNCHANGED requests
        BY <1>7 DEF Cleanup, Step
  <2>2. OneInv'
        BY <1>2, <1>3, <2>1 DEF OneInv
  <2>3. CASE list = l
    <3>1. NoList(requests) /\ Quiet(Stream) /\ list' = None
          BY <1>3, <2>1, <2>3, ListingAssumption DEF OwnInv
    <3>2. ASSUME NEW m \in Listers
          PROVE  /\ pc'[m] = "send" => list' = m
                 /\ pc'[m] = "await" /\ list' # m => completed'[m]
      <4>1. CASE m = l
            BY <2>1, <4>1 DEF TypeOK
      <4>2. CASE m # l
            BY <1>1, <1>3, <2>1, <2>3, <4>2 DEF OwnInv, TypeOK
      <4> QED
          BY <4>1, <4>2
    <3> QED
        BY <1>2, <2>1, <2>2, <3>1, <3>2 DEF OwnInv
  <2>4. CASE list # l
        BY <1>1, <1>2, <1>3, <2>1, <2>2, <2>4 DEF OwnInv, TypeOK
  <2> QED
      BY <2>3, <2>4
<1> QED
    BY <1>4, <1>5, <1>6, <1>7 DEF ListEntities

\* The steps of the device, and of its subscriber, on a clean connection.
LEMMA CleanDevice ==
    ASSUME TypeOK, FrameTypes, TypeOK', FrameTypes', Clean, OneInv, OwnInv, [Next]_vars,
           ~Dispatch,
           SubscribeStates \/ ServeList \/ ServeStates \/ DeviceTrigger \/ DeviceSend
              \/ DevicePush
    PROVE  OneInv' /\ OwnInv'
<1>1. UNCHANGED <<pc, collected, completed, list>>
      BY DEF SubscribeStates, ServeList, ServeStates, DeviceServe, DeviceTrigger, DeviceSend, DevicePush,
         listVars
<1>2. Stream \in Seq(Frames) /\ Stream' \in Seq(Frames)
      BY StreamStep
<1>3. requests \in Seq({"list", "subscribe"})
      BY DEF TypeOK
<1>4. CASE ServeList
  <2>1. requests # <<>> /\ Head(requests) = "list" /\ requests' = Tail(requests)
        BY <1>4 DEF ServeList, DeviceServe
  <2>2. ~NoList(requests) /\ NoList(requests') /\ OneList(requests')
        BY <1>3, <2>1, RequestFacts DEF OneInv
  <2>3. /\ Quiet(Stream) /\ list # None /\ pc[list] = "await"
        /\ collected[list] = <<>> /\ Len(collected[list]) = 0
        BY <2>2 DEF OneInv, OwnInv
  <2>4. /\ Len(Stream') = Len(Stream) + (N + 1)
        /\ \A i \in 1..Len(Stream) : Stream'[i] = Stream[i]
        /\ \A i \in 1..(N + 1) :
              Stream'[Len(Stream) + i] = IF i <= N THEN Descriptor(EntityList[i]) ELSE Done
    <3>1. faults["beforeEntitiesDone"] = 0
          BY DEF Clean, Triggers
    <3>2. N + 2 * faults["beforeEntitiesDone"] + 1 = N + 1
          BY <3>1, ListFacts
    <3> QED
        BY <1>4, <3>2, StreamList, ListingFramesFacts
  <2>5. Single(Stream') /\ ~Quiet(Stream') /\ Ahead(Stream', After(0))
        BY <1>2, <2>3, <2>4, ListedClean
  <2>6. OneInv'
        BY <2>2, <2>5 DEF OneInv
  <2> QED
      BY <1>1, <2>2, <2>3, <2>5, <2>6 DEF OwnInv
<1>5. CASE ~ServeList
  <2>1. Embedded(Stream, Stream')
    <3>1. NoStray
          BY DEF Clean, NoStray, Triggers
    <3> QED
        BY <1>5, <3>1, StreamStep
  <2>2. /\ Quiet(Stream) <=> Quiet(Stream')
        /\ Single(Stream) => Single(Stream')
        /\ \A n \in 0..N : Ahead(Stream, After(n)) => Ahead(Stream', After(n))
        BY <1>2, <2>1, EmbeddedFacts, EmbeddedClean
  <2>3. /\ OneList(requests) => OneList(requests')
        /\ NoList(requests) => NoList(requests')
    <3>1. CASE SubscribeStates
      <4>1. requests' = Append(requests, "subscribe")
            BY <3>1 DEF SubscribeStates
      <4> QED
          BY <1>3, <4>1, RequestFacts
    <3>2. CASE ServeStates
      <4>1. requests # <<>> /\ requests' = Tail(requests)
            BY <3>2 DEF ServeStates, DeviceServe
      <4> QED
          BY <1>3, <4>1, RequestFacts
    <3>3. CASE DeviceTrigger \/ DeviceSend \/ DevicePush
          BY <3>3 DEF DeviceTrigger, DeviceSend, DevicePush
    <3> QED
        BY <1>5, <3>1, <3>2, <3>3
  <2>4. OneInv'
        BY <2>2, <2>3 DEF OneInv
  <2>5. list # None => Len(collected[list]) \in 0..N
    <3> SUFFICES ASSUME list # None PROVE Len(collected[list]) \in 0..N
        OBVIOUS
    <3>1. collected[list] \in Seq(Keys) /\ Len(collected[list]) <= N
          BY DEF TypeOK, OwnInv
    <3>2. Len(collected[list]) \in Nat
          BY <3>1
    <3> QED
        BY <3>1, <3>2, ListFacts
  <2> QED
      BY <1>1, <2>2, <2>3, <2>4, <2>5 DEF OwnInv
<1> QED
    BY <1>4, <1>5

\* The dispatcher on a clean connection.
LEMMA CleanDispatch ==
    ASSUME TypeOK, FrameTypes, TypeOK', FrameTypes', StreamInv, PendingInv, WholeInv,
           OneInv, OwnInv, Dispatch
    PROVE  WholeInv' /\ OneInv' /\ OwnInv'
<1>1. /\ Stream \in Seq(Frames) /\ Stream' \in Seq(Frames)
      /\ Len(Stream) >= 1 /\ Len(Stream') = Len(Stream) - 1
      /\ \A i \in 1..(Len(Stream) - 1) : Stream'[i] = Stream[i + 1]
      /\ UNCHANGED <<pc, result, requests>>
      BY DispatchStep
<1>2. /\ Single(Stream) => Single(Stream')
      /\ Quiet(Stream) => Quiet(Stream')
      /\ ~Listing(Stream[1]) /\ Quiet(Stream') => Quiet(Stream)
      /\ Listing(Stream[1]) => ~Quiet(Stream)
      /\ Single(Stream) /\ Stream[1] = Done => Quiet(Stream')
      /\ \A n \in 0..N : Ahead(Stream', After(n)) => ~Quiet(Stream')
      BY <1>1, TailClean
<1>3. /\ \A n \in 1..N : Stream[1] = Descriptor(EntityList[n]) => Ahead(Stream', After(n))
      /\ \A n \in 0..N : Ahead(Stream, After(n)) =>
            IF Listing(Stream[1]) THEN Stream[1] = After(n) ELSE Ahead(Stream', After(n))
      BY <1>1, TailFacts DEF StreamInv
<1>4. OneInv'
      BY <1>1, <1>2 DEF OneInv
<1>5. list # None =>
         /\ list \in Listers /\ collected[list] \in Seq(Keys) /\ ~completed[list]
         /\ Len(collected[list]) \in 0..N
  <2> SUFFICES ASSUME list # None
               PROVE  /\ list \in Listers /\ collected[list] \in Seq(Keys) /\ ~completed[list]
                      /\ Len(collected[list]) \in 0..N
      OBVIOUS
  <2>1. /\ list \in Listers /\ collected[list] \in Seq(Keys) /\ ~completed[list]
        /\ Len(collected[list]) <= N
        BY DEF TypeOK, OwnInv, PendingInv
  <2>2. Len(collected[list]) \in Nat
        BY <2>1
  <2> QED
      BY <2>1, <2>2, ListFacts
<1>6. Listing(Stream[1]) =>
         /\ list # None /\ pc[list] = "await" /\ NoList(requests)
         /\ EndsAt(collected[list], Len(collected[list]))
         /\ Stream[1] = After(Len(collected[list]))
      BY <1>2, <1>3, <1>5 DEF OneInv, OwnInv
<1>7. ASSUME NEW n \in 1..N, Stream[1] = Descriptor(EntityList[n]),
             DispatchDescriptor(EntityList[n])
      PROVE  WholeInv' /\ OwnInv'
  <2>1. /\ list # None /\ pc[list] = "await" /\ NoList(requests)
        /\ EndsAt(collected[list], Len(collected[list]))
        /\ Stream[1] = After(Len(collected[list]))
        BY <1>6, <1>7, ListingFacts
  <2>2. UNCHANGED <<list, completed>>
        BY <1>7 DEF DispatchDescriptor
  <2>3. /\ collected'[list] = Append(collected[list], EntityList[n])
        /\ \A l \in Listers : l # list => collected'[l] = collected[l]
        BY <1>5, <1>7, <2>1 DEF DispatchDescriptor, TypeOK
  <2> DEFINE c == collected[list]
  <2>4. Len(c) < N
        BY <1>7, <2>1, ListingFacts DEF After
  <2>5. Len(c) + 1 \in 1..N /\ Len(c) \in 0..(N - 1) /\ Len(c) + 1 \in 0..N
        BY <1>5, <2>1, <2>4, ListFacts
  <2>6. Len(c) + 1 = n
        BY <1>7, <2>1, <2>4, <2>5, ListingFacts DEF After
  <2>7. EndsAt(collected'[list], n)
        BY <1>5, <2>1, <2>3, <2>5, <2>6, EndsAtFacts
  <2>8. EntityList[n] \in Keys
        BY ListFacts
  <2>9. Len(collected'[list]) = n
        BY <1>5, <2>1, <2>3, <2>6, <2>8
  <2>10. Ahead(Stream', After(n)) /\ ~Quiet(Stream') /\ n <= N
        BY <1>2, <1>3, <1>7, <2>5, <2>6, ListFacts
  <2>11. WholeInv'
        BY <1>5, <2>1, <2>2, <2>3 DEF WholeInv
  <2>12. OwnInv'
        BY <1>1, <2>1, <2>2, <2>7, <2>9, <2>10 DEF OwnInv
  <2> QED
      BY <2>11, <2>12
<1>8. ASSUME NEW k \in Keys, NEW v \in States, ~Listing(Stream[1]), DispatchState(k, v)
      PROVE  WholeInv' /\ OwnInv'
  <2>1. UNCHANGED <<list, collected, completed>>
        BY <1>8 DEF DispatchState
  <2>2. Quiet(Stream) <=> Quiet(Stream')
        BY <1>2, <1>8
  <2> QED
      BY <1>1, <1>3, <1>5, <1>8, <2>1, <2>2 DEF WholeInv, OwnInv
<1>9. ASSUME Stream[1] = Done, DispatchDone PROVE WholeInv' /\ OwnInv'
  <2>1. /\ list # None /\ pc[list] = "await" /\ NoList(requests)
        /\ EndsAt(collected[list], Len(collected[list]))
        /\ Stream[1] = After(Len(collected[list]))
        BY <1>6, <1>9, ListingFacts
  <2>2. /\ list' = None /\ collected' = collected
        /\ completed' = [completed EXCEPT ![list] = TRUE]
        BY <1>9, <2>1 DEF DispatchDone
  <2>3. Len(collected[list]) = N
    <3>1. ASSUME Len(collected[list]) < N PROVE FALSE
      <4>1. Len(collected[list]) + 1 \in 1..N
            BY <1>5, <2>1, <3>1, ListFacts
      <4> QED
          BY <1>9, <2>1, <3>1, <4>1, ListingFacts DEF After
    <3> QED
        BY <1>5, <2>1, <3>1, ListFacts
  <2>4. collected[list] = EntityList
    <3>1. /\ EntityList \in Seq(Keys) /\ Len(EntityList) = N /\ N \in Nat
          /\ collected[list] \in Seq(Keys)
          BY <1>5, <2>1, ListFacts DEF N
    <3>2. ASSUME NEW p \in 1..N PROVE collected[list][p] = EntityList[p]
      <4>1. collected[list][p] = EntityList[N - N + p]
            BY <2>1, <2>3 DEF EndsAt
      <4>2. N - N + p = p
            BY <3>1
      <4> QED
          BY <4>1, <4>2
    <3> QED
        BY <2>3, <3>1, <3>2
  <2>5. WholeInv'
        BY <1>5, <2>1, <2>2, <2>4 DEF WholeInv, TypeOK
  <2>6. Quiet(Stream')
        BY <1>2, <1>9 DEF OneInv
  <2>7. ASSUME NEW l \in Listers
        PROVE  pc[l] # "send" /\ (pc[l] = "await" => completed'[l])
    <3>1. CASE l = list
          BY <1>5, <2>1, <2>2, <3>1 DEF TypeOK
    <3>2. CASE l # list
          BY <1>5, <2>1, <2>2, <3>2 DEF OwnInv, TypeOK
    <3> QED
        BY <3>1, <3>2
  <2>8. OwnInv'
        BY <1>1, <2>1, <2>2, <2>6, <2>7 DEF OwnInv
  <2> QED
      BY <2>5, <2>8
<1> QED
    BY <1>4, <1>7, <1>8, <1>9, DispatchStep

\* The invariant of clean connections, after every step.
LEMMA CleanStep ==
    ASSUME TypeOK, FrameTypes, TypeOK', FrameTypes', ListingInv, CleanInv, [Next]_vars
    PROVE  CleanInv'
<1> SUFFICES ASSUME Clean' PROVE WholeInv' /\ (phase' # "done" => OneInv' /\ OwnInv')
    BY DEF CleanInv
<1>1. StreamInv /\ PendingInv
      BY DEF ListingInv
<1>2. Clean /\ WholeInv /\ (phase # "done" => OneInv /\ OwnInv)
      BY <1>1, CleanBefore DEF CleanInv
<1>3. CASE Dispatch
  <2>1. phase # "done"
        BY <1>3 DEF Dispatch
  <2> QED
      BY <1>1, <1>2, <1>3, <2>1, CleanDispatch
<1>4. ASSUME NEW l \in Listers, ListEntities(l)
      PROVE  WholeInv' /\ (phase' # "done" => OneInv' /\ OwnInv')
      BY <1>1, <1>2, <1>4, CleanLister
<1>5. CASE /\ ~Dispatch
           /\ SubscribeStates \/ ServeList \/ ServeStates
              \/ (DeviceTrigger /\ ~FramerClosed)
              \/ (DeviceSend /\ ~FramerClosed) \/ (DevicePush /\ ~FramerClosed)
  <2>1. phase # "done"
        BY <1>5 DEF SubscribeStates, ServeList, ServeStates, FramerClosed
  <2>2. UNCHANGED <<collected, completed>>
        BY <1>5 DEF SubscribeStates, ServeList, ServeStates, DeviceServe, DeviceTrigger, DeviceSend,
           DevicePush, listVars
  <2>3. OneInv' /\ OwnInv'
        BY <1>2, <1>5, <2>1, CleanDevice
  <2> QED
      BY <1>2, <2>2, <2>3 DEF WholeInv
<1>6. CASE ConnStep \/ UNCHANGED vars
  <2>1. /\ UNCHANGED <<listVars, requests, frames, script>>
        /\ phase' # "done" => phase # "done"
        BY <1>6 DEF ConnStep, Close, CloseStep, EnterShutdown, CloseBody, vars, connVars,
           deviceVars
  <2>2. Stream' = Stream /\ UNCHANGED <<pc, collected, completed, list, requests>>
        BY <2>1 DEF Stream, listVars
  <2> QED
      BY <1>2, <2>1, <2>2 DEF WholeInv, OneInv, OwnInv
<1> QED
    BY <1>3, <1>4, <1>5, <1>6, Steps DEF ListEntities

\* Without a duplicated completion, a listing that succeeds on a connection
\* where none timed out returns exactly the device's descriptors.
THEOREM CleanSafety == Spec => []CleanListingComplete
<1>1. Init => CleanInv
  <2> SUFFICES ASSUME Init PROVE CleanInv
      OBVIOUS
  <2>1. Stream = <<>> /\ Len(Stream) = 0 /\ requests = <<>> /\ Len(requests) = 0
        BY DEF Init, Stream
  <2>2. NoList(requests) /\ OneList(requests) /\ Quiet(Stream) /\ Single(Stream)
        BY <2>1 DEF NoList, OneList, Quiet, Single
  <2> QED
      BY <2>2 DEF Init, CleanInv, WholeInv, OneInv, OwnInv
<1>2. /\ TypeOK /\ FrameTypes /\ TypeOK' /\ FrameTypes' /\ ListingInv /\ CleanInv
      /\ [Next]_vars
      => CleanInv'
      BY CleanStep
<1>3. ListingInv /\ CleanInv => CleanListingComplete
      BY DEF ListingInv, PendingInv, CleanInv, Clean, WholeInv, CleanListingComplete
<1> QED
    BY <1>1, <1>2, <1>3, ListingCorrect, PTL DEF Spec

=============================================================================
