--------------------------- MODULE FirmwareProofs ---------------------------
(***************************************************************************)
(* Proofs about the firmware of the two demo servers: about the conveyor,  *)
(* for any timings, bricks, travel times, dwells and controllers, and about *)
(* the commands the blink device receives, for any expectations, waiters   *)
(* and capacity of the commands channel.                                   *)
(***************************************************************************)
EXTENDS ConveyorFirmware, BlinkDevice, WellFoundedInduction, TLAPS

\* The pending ticks.
Ticks == [script : Scripts, step : Nat, left : Nat]

\* The types of the state that the invariants read.
Types ==
    /\ timers \subseteq Ticks
    /\ entryOccupied \in BOOLEAN /\ exitOccupied \in BOOLEAN
    /\ motorOn \in BOOLEAN /\ enRoute \in BOOLEAN /\ running \in BOOLEAN
    /\ travel \in Nat /\ dwell \in Nat
    /\ hold \in Nat

\* The ticks on which the fate of a brick depends.
Moves(t) == t.script \in {"bench", "travel", "capture"}

\* There is one brick: one tick at most moves it, a brick at the entry waits
\* for the belt, and a brick that is measured or about to be lifted off is at
\* the exit.
BrickInv ==
    /\ \A t, u \in timers : Moves(t) /\ Moves(u) => t = u
    /\ \A t \in timers : Moves(t) =>
          (entryOccupied <=> t.script = "travel" /\ t.step = travelClearEntry)
    /\ \A t \in timers :
          t.script = "capture" \/ (t.script = "bench" /\ t.step = benchLift)
              => exitOccupied

\* A reading that is published is the brick's at the exit, and the operator
\* is about to take it away.
ReadingInv ==
    redRatio # NoReading =>
        /\ redRatio = atExit
        /\ running => \E t \in timers : t.script = "bench" /\ t.step \in {benchLift, benchReleased}

\* The time until the brick arrives, and until the backstop.
ArrivesIn(t) == t.left + (IF t.step = travelClearEntry THEN travel ELSE 0)
BackstopIn(t) == t.left + (IF t.step = 0 THEN Timings.jamBackstop ELSE 0)

\* On a belt that is quick enough the brick arrives before the backstop.
JamInv ==
    Timings.entryClear + travel < Timings.jamWithdraw + Timings.jamBackstop =>
        /\ \A t, u \in timers : t.script = "travel" /\ u.script = "jam" =>
              ArrivesIn(t) < BackstopIn(u)
        /\ Live("travel") => motorOn

\* What the capture, the operator and the debounce of the next brick take.
Captured == Timings.captureSettle + captureSamples * Timings.captureInterval
Released == Captured + Timings.exitReleaseDebounce
Placed == Released + Timings.betweenBricks
Requested == Placed + Timings.entryDebounce

\* When tick t comes, at least time d has passed since the last arrival, or
\* the exit hold is over.
HeldAt(t, d) == hold >= Timings.exitHold \/ hold + t.left >= d

\* How long after the last arrival each tick comes at least.
HoldInv ==
    \A t \in timers :
        /\ t.script = "capture" =>
              /\ t.step <= captureSamples
              /\ HeldAt(t, Timings.captureSettle + t.step * Timings.captureInterval)
        /\ t.script = "bench" /\ t.step = benchLift => HeldAt(t, Captured)
        /\ t.script = "bench" /\ t.step = benchReleased => HeldAt(t, Released)
        /\ t.script = "bench" /\ t.step = benchPlace => HeldAt(t, Placed)
        /\ t.script = "requestRun" /\ entryOccupied => HeldAt(t, Requested)
        /\ t.script = "exitHold" => HeldAt(t, Timings.exitHold)

FirmwareInv == BrickInv /\ ReadingInv /\ JamInv /\ HoldInv

-----------------------------------------------------------------------------
(* The timings, and the ways a step changes the pending ticks.             *)

\* The timings are natural numbers.
LEMMA TimingsNat ==
    /\ Timings.entryDebounce \in Nat /\ Timings.exitReleaseDebounce \in Nat
    /\ Timings.captureSettle \in Nat /\ Timings.captureInterval \in Nat
    /\ Timings.exitHold \in Nat /\ Timings.jamWithdraw \in Nat
    /\ Timings.jamBackstop \in Nat /\ Timings.entryClear \in Nat
    /\ Timings.betweenBricks \in Nat
  BY TimingsAssumption

\* The sums of timings are natural numbers.
LEMMA SumsNat ==
    Captured \in Nat /\ Released \in Nat /\ Placed \in Nat /\ Requested \in Nat
<1>1. Captured \in Nat
      BY TimingsNat DEF Captured, captureSamples
<1> QED
    BY <1>1, TimingsNat DEF Released, Placed, Requested

\* A tick that is started is a tick.
LEMMA TimerType ==
    ASSUME NEW s \in Scripts, NEW n \in Nat, NEW d \in Nat
    PROVE  /\ Timer(s, n, d) \in Ticks
           /\ Timer(s, n, d).script = s /\ Timer(s, n, d).step = n
           /\ Timer(s, n, d).left = d
  BY DEF Timer, Ticks

\* Steps that neither start nor move a brick's tick, at most stop some of
\* them, and leave the sensors and the reading alone, keep BrickInv.
LEMMA BrickKept ==
    ASSUME BrickInv,
           UNCHANGED <<entryOccupied, exitOccupied>>,
           \A t \in timers' : Moves(t) => t \in timers
    PROVE  BrickInv'
  BY DEF BrickInv, Moves

\* When the tick that moves the brick is taken, no other is left.
LEMMA BrickTaken ==
    ASSUME BrickInv, NEW t \in timers, Moves(t)
    PROVE  \A u \in timers \ {t} : ~Moves(u)
  BY DEF BrickInv

\* The types, after every step.
LEMMA TypesStep == Types /\ [Next]_vars => Types'
<1> SUFFICES ASSUME Types, [Next]_vars PROVE Types'
    OBVIOUS
<1> USE DEF world, published, bench, setup
<1>1. CASE OnTick
  <2>1. PICK t \in timers : LET rest == timers \ {t} IN
                \/ t.script = "bench" /\ OnBench(t.step, rest)
                \/ t.script = "requestRun" /\ OnRequestRun(rest)
                \/ t.script = "travel" /\ OnTravel(t.step, rest)
                \/ t.script = "capture" /\ OnCapture(t.step, rest)
                \/ t.script = "exitHold" /\ OnExitHold(rest)
                \/ t.script = "jam" /\ OnJam(t.step, rest)
        BY <1>1 DEF OnTick
  <2>2. UNCHANGED <<running, travel, dwell>>
        BY <1>1 DEF OnTick
  <2> DEFINE rest == timers \ {t}
  <2>3. rest \subseteq Ticks /\ t.step \in Nat
        BY DEF Types, Ticks
  <2> HIDE DEF rest
  <2>4. \A S \in SUBSET Scripts : Stopped(rest, S) \subseteq Ticks
        BY <2>3 DEF Stopped
  <2>5. \A ts \in SUBSET Ticks, s \in Scripts, n \in Nat, d \in Nat :
           Restarted(ts, s, n, d) \subseteq Ticks
        BY TimerType DEF Restarted, Stopped
  <2>6. CASE OnBench(t.step, rest)
    <3>1. CASE BenchPlace(rest)
      <4>1. timers' \subseteq Ticks
            BY <2>3, <2>5, <3>1, TimingsNat DEF BenchPlace, Scripts
      <4> QED
          BY <2>2, <3>1, <4>1 DEF BenchPlace, Types
    <3>2. CASE BenchLift(rest)
      <4>1. timers' \subseteq Ticks
            BY <2>4, <2>5, <3>2, TimingsNat DEF BenchLift, Scripts, benchReleased
      <4> QED
          BY <2>2, <3>2, <4>1 DEF BenchLift, Types
    <3>3. CASE BenchReleased(rest)
      <4>1. timers' \subseteq Ticks
            BY <2>3, <3>3, TimerType, TimingsNat DEF BenchReleased, Scripts, benchPlace
      <4> QED
          BY <2>2, <3>3, <4>1 DEF BenchReleased, Types
    <3> QED
        BY <2>6, <3>1, <3>2, <3>3 DEF OnBench
  <2>7. CASE OnRequestRun(rest)
        BY <2>2, <2>3, <2>7 DEF OnRequestRun, Types
  <2>8. CASE OnTravel(t.step, rest)
    <3>1. CASE ClearEntry(rest)
      <4>1. timers' \subseteq Ticks
            BY <2>3, <3>1, TimerType DEF ClearEntry, Scripts, travelArrive, Types
      <4> QED
          BY <2>2, <3>1, <4>1 DEF ClearEntry, Types
    <3>2. CASE OnArrival(rest)
      <4>1. timers' \subseteq Ticks
            BY <2>4, <2>5, <3>2, TimingsNat DEF OnArrival, Scripts
      <4> QED
          BY <2>2, <3>2, <4>1 DEF OnArrival, Types
    <3> QED
        BY <2>8, <3>1, <3>2 DEF OnTravel
  <2>9. CASE OnCapture(t.step, rest)
    <3>1. CASE Sample(t.step, rest)
      <4>0. t.step + 1 \in Nat /\ "capture" \in Scripts
            BY <2>3 DEF Scripts
      <4>1. Timer("capture", t.step + 1, Timings.captureInterval) \in Ticks
            BY <4>0, TimerType, TimingsNat
      <4>2. timers' \subseteq Ticks
            BY <2>3, <3>1, <4>1 DEF Sample
      <4> QED
          BY <2>2, <3>1, <4>2 DEF Sample, Types
    <3>2. CASE Reject(rest)
          BY <2>2, <2>3, <3>2 DEF Reject, Types
    <3>3. CASE Measured(rest)
      <4>1. timers' \subseteq Ticks
            BY <2>3, <3>3, TimerType DEF Measured, Scripts, benchLift, Types
      <4> QED
          BY <2>2, <3>3, <4>1 DEF Measured, Types
    <3> QED
        BY <2>9, <3>1, <3>2, <3>3 DEF OnCapture
  <2>10. CASE OnExitHold(rest)
    <3>1. timers' \subseteq Ticks
          BY <2>3, <2>5, <2>10 DEF OnExitHold, Scripts
    <3> QED
        BY <2>2, <2>10, <3>1 DEF OnExitHold, Types
  <2>11. CASE OnJam(t.step, rest)
    <3>1. Timer("jam", 1, Timings.jamBackstop) \in Ticks
          BY TimerType, TimingsNat DEF Scripts
    <3>2. timers' \subseteq Ticks
          BY <2>3, <2>11, <3>1 DEF OnJam
    <3> QED
        BY <2>2, <2>11, <3>2 DEF OnJam, Types
  <2> QED
      BY <2>1, <2>6, <2>7, <2>8, <2>9, <2>10, <2>11 DEF rest
<1>2. ASSUME NEW state \in BOOLEAN, OnFanCommand(state) PROVE Types'
  <2>1. timers' \subseteq Ticks
    <3>1. \A ts \in SUBSET Ticks, s \in Scripts, n \in Nat, d \in Nat :
             Restarted(ts, s, n, d) \subseteq Ticks
          BY TimerType DEF Restarted, Stopped
    <3>2. timers \subseteq Ticks
          BY DEF Types
    <3>3. CASE ~state
          BY <1>2, <3>2, <3>3 DEF OnFanCommand, FanEffect, Stopped
    <3>4. CASE state
      <4>1. Restarted(timers, "jam", 0, Timings.jamWithdraw) \subseteq Ticks
            BY <3>1, <3>2, TimingsNat DEF Scripts
      <4>2. Restarted(Restarted(timers, "jam", 0, Timings.jamWithdraw),
                "travel", travelClearEntry, Timings.entryClear) \subseteq Ticks
            BY <3>1, <4>1, TimingsNat DEF Scripts, travelClearEntry
      <4> QED
          BY <1>2, <3>4, <4>1, <4>2 DEF OnFanCommand, FanEffect
    <3> QED
        BY <3>3, <3>4
  <2> QED
      BY <1>2, <2>1 DEF OnFanCommand, FanEffect, Types
<1>3. CASE Return
      BY <1>3 DEF Return, Types
<1>4. CASE Elapse
  <2>1. ASSUME NEW t \in timers PROVE [t EXCEPT !.left = @ - 1] \in Ticks
    <3>1. t \in Ticks /\ t.left > 0
          BY <1>4 DEF Elapse, Types
    <3> QED
        BY <3>1 DEF Ticks
  <2>2. timers' \subseteq Ticks
        BY <1>4, <2>1 DEF Elapse
  <2> QED
      BY <1>4, <2>2 DEF Elapse, Types
<1>5. CASE UNCHANGED vars
      BY <1>5 DEF vars, Types
<1> QED
    BY <1>1, <1>2, <1>3, <1>4, <1>5 DEF Next, Quiet

-----------------------------------------------------------------------------
(* The invariant, step by step.                                            *)

\* A tick that is started has the script, step and delay it is given.
LEMMA TimerFields ==
    ASSUME NEW s, NEW n, NEW d
    PROVE  /\ Timer(s, n, d).script = s /\ Timer(s, n, d).step = n
           /\ Timer(s, n, d).left = d
  BY DEF Timer

\* The reading stays true while the brick at the exit stays and the tick of
\* the operator that takes it away is not the one that is taken.
LEMMA ReadingKept ==
    ASSUME ReadingInv, UNCHANGED <<redRatio, atExit>>, running' => running,
           \A u \in timers : u.script = "bench" => u \in timers'
    PROVE  ReadingInv'
  BY DEF ReadingInv

\* The steps of the operator.
LEMMA BenchStep ==
    ASSUME Types, FirmwareInv, NEW t \in timers, t.left = 0, t.script = "bench",
           OnBench(t.step, timers \ {t}), UNCHANGED <<running, setup>>
    PROVE  FirmwareInv'
<1> USE DEF world, published, bench, setup
<1> DEFINE rest == timers \ {t}
<1>0. /\ \A u \in rest : ~Moves(u) /\ u \in timers
      /\ hold \in Nat /\ travel \in Nat
      BY BrickTaken DEF FirmwareInv, Moves, Types
<1> HIDE DEF rest
<1>1. CASE t.step = benchPlace /\ BenchPlace(rest)
  <2> DEFINE new == Timer("requestRun", 0, Timings.entryDebounce)
  <2>1. /\ timers' = Stopped(rest, {"requestRun"}) \cup {new} /\ entryOccupied' = TRUE
        /\ UNCHANGED <<exitOccupied, motorOn, redRatio, atExit, hold, travel, running>>
        BY <1>1 DEF BenchPlace, Restarted
  <2>2. new.script = "requestRun" /\ new.left = Timings.entryDebounce
        BY TimerFields
  <2> HIDE DEF new
  <2>3. \A u \in timers' : u = new \/ (u \in timers /\ u.script # "requestRun" /\ ~Moves(u))
        BY <1>0, <2>1 DEF Stopped
  <2>4. BrickInv'
        BY <2>2, <2>3 DEF BrickInv, Moves
  <2>5. redRatio = NoReading \/ ~running
    <3>1. \A u \in timers : u.script = "bench" => u = t
          BY DEF FirmwareInv, BrickInv, Moves
    <3> QED
        BY <1>1, <3>1 DEF FirmwareInv, ReadingInv, benchPlace, benchLift, benchReleased
  <2>6. ReadingInv'
        BY <2>1, <2>5 DEF FirmwareInv, ReadingInv
  <2>7. JamInv'
    <3>1. \A u \in timers' : u.script \notin {"travel"}
          BY <2>2, <2>3 DEF Moves
    <3> QED
        BY <3>1 DEF JamInv, Live
  <2>8. HeldAt(t, Placed)
        BY <1>1 DEF FirmwareInv, HoldInv, benchPlace, benchLift, benchReleased
  <2>9. HeldAt(new, Requested)'
        BY <1>0, <2>1, <2>2, <2>8, SumsNat, TimingsNat DEF HeldAt, Requested
  <2>10. HoldInv'
        BY <2>1, <2>2, <2>3, <2>9 DEF FirmwareInv, HoldInv, HeldAt, Moves
  <2> QED
      BY <2>4, <2>6, <2>7, <2>10 DEF FirmwareInv
<1>2. CASE t.step = benchLift /\ BenchLift(rest)
  <2> DEFINE new == Timer("bench", benchReleased, Timings.exitReleaseDebounce)
  <2>1. /\ timers' = Stopped(Stopped(rest, {"capture"}), {"bench"}) \cup {new}
        /\ exitOccupied' = FALSE
        /\ UNCHANGED <<entryOccupied, motorOn, redRatio, atExit, hold, travel, running>>
        BY <1>2 DEF BenchLift, Restarted
  <2>2. /\ new.script = "bench" /\ new.step = benchReleased
        /\ new.left = Timings.exitReleaseDebounce
        BY TimerFields
  <2> HIDE DEF new
  <2>3. new \in timers' /\ \A u \in timers' : u = new \/ (u \in timers /\ ~Moves(u))
        BY <1>0, <2>1 DEF Stopped
  <2>4. BrickInv'
    <3>1. ~entryOccupied
          BY DEF FirmwareInv, BrickInv, Moves
    <3> QED
        BY <2>1, <2>2, <2>3, <3>1 DEF BrickInv, Moves, benchReleased, benchLift
  <2>5. ReadingInv'
        BY <2>1, <2>2, <2>3 DEF FirmwareInv, ReadingInv
  <2>6. JamInv'
    <3>1. \A u \in timers' : u.script \notin {"travel"}
          BY <2>2, <2>3 DEF Moves
    <3> QED
        BY <3>1 DEF JamInv, Live
  <2>7. HeldAt(t, Captured)
        BY <1>2 DEF FirmwareInv, HoldInv
  <2>8. HeldAt(new, Released)'
        BY <1>0, <2>1, <2>2, <2>7, SumsNat, TimingsNat DEF HeldAt, Released
  <2>9. HoldInv'
        BY <2>1, <2>2, <2>3, <2>8 DEF FirmwareInv, HoldInv, HeldAt, Moves,
           benchPlace, benchLift, benchReleased
  <2> QED
      BY <2>4, <2>5, <2>6, <2>9 DEF FirmwareInv
<1>3. CASE t.step = benchReleased /\ BenchReleased(rest)
  <2> DEFINE new == Timer("bench", benchPlace, Timings.betweenBricks)
  <2>1. /\ timers' \subseteq rest \cup {new} /\ redRatio' = NoReading
        /\ UNCHANGED <<entryOccupied, exitOccupied, motorOn, hold, travel>>
        BY <1>3 DEF BenchReleased
  <2>2. /\ new.script = "bench" /\ new.step = benchPlace
        /\ new.left = Timings.betweenBricks
        BY TimerFields
  <2> HIDE DEF new
  <2>3. \A u \in timers' : u = new \/ (u \in timers /\ ~Moves(u))
        BY <1>0, <2>1
  <2>4. BrickInv'
    <3>1. ~entryOccupied
          BY DEF FirmwareInv, BrickInv, Moves
    <3> QED
        BY <2>1, <2>2, <2>3, <3>1 DEF BrickInv, Moves, benchPlace, benchLift
  <2>5. ReadingInv'
        BY <2>1 DEF ReadingInv
  <2>6. JamInv'
    <3>1. \A u \in timers' : u.script \notin {"travel"}
          BY <2>2, <2>3 DEF Moves
    <3> QED
        BY <3>1 DEF JamInv, Live
  <2>7. HeldAt(t, Released)
        BY <1>3 DEF FirmwareInv, HoldInv
  <2>8. HeldAt(new, Placed)'
        BY <1>0, <2>1, <2>2, <2>7, SumsNat, TimingsNat DEF HeldAt, Placed
  <2>9. HoldInv'
        BY <2>1, <2>2, <2>3, <2>8 DEF FirmwareInv, HoldInv, HeldAt, Moves,
           benchPlace, benchLift, benchReleased
  <2> QED
      BY <2>4, <2>5, <2>6, <2>9 DEF FirmwareInv
<1> QED
    BY <1>1, <1>2, <1>3 DEF OnBench, rest

\* The brick leaves the entry and arrives.
LEMMA TravelStep ==
    ASSUME Types, FirmwareInv, running, NEW t \in timers, t.left = 0, t.script = "travel",
           OnTravel(t.step, timers \ {t}), UNCHANGED <<running, setup>>
    PROVE  FirmwareInv'
<1> USE DEF world, published, bench, setup
<1> DEFINE rest == timers \ {t}
<1>0. /\ \A u \in rest : ~Moves(u) /\ u \in timers
      /\ hold \in Nat /\ travel \in Nat
      /\ \A u \in timers : u.left \in Nat
      BY BrickTaken DEF FirmwareInv, Moves, Types, Ticks
<1>1. redRatio = NoReading
  <2>1. \A u \in timers : u.script # "bench"
        BY DEF FirmwareInv, BrickInv, Moves
  <2> QED
      BY <2>1 DEF FirmwareInv, ReadingInv
<1> HIDE DEF rest
<1>2. CASE t.step = travelClearEntry /\ ClearEntry(rest)
  <2>0. PICK new : new = Timer("travel", travelArrive, travel)
        OBVIOUS
  <2>1. /\ timers' = rest \cup {new} /\ entryOccupied' = FALSE
        /\ UNCHANGED <<exitOccupied, motorOn, redRatio, hold, travel>>
        BY <1>2, <2>0 DEF ClearEntry
  <2>2. new.script = "travel" /\ new.step = travelArrive /\ new.left = travel
        BY <2>0, TimerFields
  <2>3. \A u \in timers' : u = new \/ (u \in timers /\ ~Moves(u))
        BY <1>0, <2>1
  <2>4. BrickInv'
        BY <2>1, <2>2, <2>3 DEF BrickInv, Moves, travelArrive, travelClearEntry
  <2>5. ReadingInv'
        BY <1>1, <2>1 DEF ReadingInv
  <2>6. JamInv'
    <3>1. ArrivesIn(new)' = ArrivesIn(t)
          BY <1>0, <1>2, <2>1, <2>2 DEF ArrivesIn, travelArrive, travelClearEntry
    <3>2. \A u \in timers' : u.script = "travel" => u = new
          BY <2>3 DEF Moves
    <3>3. \A u \in timers' : u.script = "jam" => u \in timers /\ BackstopIn(u)' = BackstopIn(u)
          BY <2>2, <2>3 DEF BackstopIn
    <3> QED
        BY <2>1, <3>1, <3>2, <3>3 DEF FirmwareInv, JamInv, Live
  <2>7. HoldInv'
        BY <2>1, <2>2, <2>3 DEF FirmwareInv, HoldInv, HeldAt, Moves
  <2> QED
      BY <2>4, <2>5, <2>6, <2>7 DEF FirmwareInv
<1>3. CASE t.step = travelArrive /\ OnArrival(rest)
  <2> DEFINE cap == Timer("capture", 0, Timings.captureSettle)
             held == Timer("exitHold", 0, Timings.exitHold)
  <2>1. /\ timers' = Stopped(Stopped(Stopped(rest, {"jam"}), {"capture"}) \cup {cap},
                             {"exitHold"}) \cup {held}
        /\ exitOccupied' = TRUE /\ hold' = 0
        /\ UNCHANGED <<entryOccupied, motorOn, redRatio, travel>>
        BY <1>3 DEF OnArrival, Restarted
  <2>2. /\ cap.script = "capture" /\ cap.step = 0 /\ cap.left = Timings.captureSettle
        /\ held.script = "exitHold" /\ held.left = Timings.exitHold
        BY TimerFields
  <2> HIDE DEF cap, held
  <2>3. \A u \in timers' : u \in {cap, held} \/
           (u \in timers /\ ~Moves(u) /\ u.script \notin {"jam", "exitHold"})
        BY <1>0, <2>1 DEF Stopped
  <2>4. ~entryOccupied
        BY <1>3 DEF FirmwareInv, BrickInv, Moves, travelArrive, travelClearEntry
  <2>5. BrickInv'
        BY <2>1, <2>2, <2>3, <2>4 DEF BrickInv, Moves
  <2>6. ReadingInv'
        BY <1>1, <2>1 DEF ReadingInv
  <2>7. JamInv'
    <3>1. \A u \in timers' : u.script \notin {"travel"}
          BY <2>2, <2>3 DEF Moves
    <3> QED
        BY <3>1 DEF JamInv, Live
  <2>8. HoldInv'
    <3>1. /\ HeldAt(cap, Timings.captureSettle + cap.step * Timings.captureInterval)'
          /\ HeldAt(held, Timings.exitHold)'
          BY <2>1, <2>2, TimingsNat DEF HeldAt
    <3>2. cap.step <= captureSamples
          BY <2>2 DEF captureSamples
    <3> QED
        BY <2>1, <2>2, <2>3, <2>4, <3>1, <3>2 DEF HoldInv, Moves
  <2> QED
      BY <2>5, <2>6, <2>7, <2>8 DEF FirmwareInv
<1> QED
    BY <1>2, <1>3 DEF OnTravel, rest

\* The capture samples the brick, and rejects or measures it.
LEMMA CaptureStep ==
    ASSUME Types, FirmwareInv, NEW t \in timers, t.left = 0, t.script = "capture",
           OnCapture(t.step, timers \ {t}), UNCHANGED <<running, setup>>
    PROVE  FirmwareInv'
<1> USE DEF world, published, bench, setup
<1> DEFINE rest == timers \ {t}
<1>0. /\ \A u \in rest : ~Moves(u) /\ u \in timers
      /\ hold \in Nat /\ t.step \in Nat /\ ~entryOccupied /\ exitOccupied
      BY BrickTaken DEF FirmwareInv, BrickInv, Moves, Types, Ticks
<1>1. /\ t.step <= captureSamples
      /\ HeldAt(t, Timings.captureSettle + t.step * Timings.captureInterval)
      BY DEF FirmwareInv, HoldInv
<1> HIDE DEF rest
<1>2. CASE t.step < captureSamples /\ Sample(t.step, rest)
  <2> DEFINE new == Timer("capture", t.step + 1, Timings.captureInterval)
  <2>1. /\ timers' = rest \cup {new}
        /\ UNCHANGED <<entryOccupied, exitOccupied, motorOn, atExit, redRatio, hold,
                       running>>
        BY <1>2 DEF Sample
  <2>2. /\ new.script = "capture" /\ new.step = t.step + 1
        /\ new.left = Timings.captureInterval
        BY TimerFields
  <2> HIDE DEF new
  <2>3. \A u \in timers' : u = new \/ (u \in timers /\ ~Moves(u))
        BY <1>0, <2>1
  <2>4. BrickInv'
        BY <1>0, <2>1, <2>2, <2>3 DEF BrickInv, Moves
  <2>5. ReadingInv'
    <3>1. \A u \in timers : u.script = "bench" => u \in timers'
          BY <2>1 DEF rest
    <3> QED
        BY <2>1, <3>1, ReadingKept DEF FirmwareInv
  <2>6. JamInv'
    <3>1. \A u \in timers' : u.script \notin {"travel"}
          BY <2>2, <2>3 DEF Moves
    <3> QED
        BY <3>1 DEF JamInv, Live
  <2>7. HoldInv'
    <3>1. new.step <= captureSamples
          BY <1>0, <1>2, <2>2 DEF captureSamples
    <3>2. t.step * Timings.captureInterval + Timings.captureInterval
             = new.step * Timings.captureInterval
          BY <1>0, <2>2, TimingsNat
    <3>3. t.step * Timings.captureInterval \in Nat
          BY <1>0, TimingsNat
    <3>4. HeldAt(new, Timings.captureSettle + new.step * Timings.captureInterval)'
          BY <1>0, <1>1, <2>1, <2>2, <3>2, <3>3, TimingsNat DEF HeldAt
    <3> QED
        BY <2>1, <2>2, <2>3, <3>1, <3>4 DEF FirmwareInv, HoldInv, HeldAt, Moves
  <2> QED
      BY <2>4, <2>5, <2>6, <2>7 DEF FirmwareInv
<1>3. CASE Reject(rest)
  <2>1. /\ timers' = rest /\ redRatio' = NoReading
        /\ UNCHANGED <<entryOccupied, exitOccupied, motorOn, hold>>
        BY <1>3 DEF Reject
  <2>2. BrickInv'
        BY <1>0, <2>1, BrickKept DEF FirmwareInv
  <2>3. ReadingInv'
        BY <2>1 DEF ReadingInv
  <2>4. JamInv'
        BY <1>0, <2>1 DEF JamInv, Live, Moves
  <2>5. HoldInv'
        BY <1>0, <2>1 DEF FirmwareInv, HoldInv, HeldAt
  <2> QED
      BY <2>2, <2>3, <2>4, <2>5 DEF FirmwareInv
<1>4. CASE ~(t.step < captureSamples) /\ Measured(rest)
  <2>0. PICK new : new = Timer("bench", benchLift, dwell)
        OBVIOUS
  <2>1. /\ timers' = rest \cup {new} /\ redRatio' = atExit
        /\ UNCHANGED <<entryOccupied, exitOccupied, motorOn, atExit, hold>>
        BY <1>4, <2>0 DEF Measured
  <2>2. new.script = "bench" /\ new.step = benchLift /\ new.left = dwell
        BY <2>0, TimerFields
  <2>3. new \in timers' /\ \A u \in timers' : u = new \/ (u \in timers /\ ~Moves(u))
        BY <1>0, <2>1
  <2>4. BrickInv'
        BY <1>0, <2>1, <2>2, <2>3 DEF BrickInv, Moves
  <2>5. ReadingInv'
        BY <2>1, <2>2, <2>3 DEF ReadingInv
  <2>6. JamInv'
    <3>1. \A u \in timers' : u.script \notin {"travel"}
          BY <2>2, <2>3 DEF Moves
    <3> QED
        BY <3>1 DEF JamInv, Live
  <2>7. HoldInv'
    <3>1. t.step = captureSamples
          BY <1>0, <1>1, <1>4 DEF captureSamples
    <3>2. HeldAt(t, Captured)
          BY <1>1, <3>1 DEF Captured
    <3>3. HeldAt(new, Captured)'
          BY <1>0, <2>1, <2>2, <3>2, SumsNat, TimingsNat DEF HeldAt, Types
    <3> QED
        BY <2>1, <2>2, <2>3, <3>3 DEF FirmwareInv, HoldInv, HeldAt, Moves,
           benchPlace, benchLift, benchReleased
  <2> QED
      BY <2>4, <2>5, <2>6, <2>7 DEF FirmwareInv
<1> QED
    BY <1>2, <1>3, <1>4 DEF OnCapture, rest

\* The run request, the end of the exit hold, and the jam clock.
LEMMA ScriptStep ==
    ASSUME Types, FirmwareInv, NEW t \in timers, t.left = 0,
           \/ t.script = "requestRun" /\ OnRequestRun(timers \ {t})
           \/ t.script = "exitHold" /\ OnExitHold(timers \ {t})
           \/ t.script = "jam" /\ OnJam(t.step, timers \ {t}),
           UNCHANGED <<running, setup>>
    PROVE  FirmwareInv'
<1> USE DEF world, published, bench, setup
<1> DEFINE rest == timers \ {t}
<1>0. /\ UNCHANGED <<entryOccupied, exitOccupied, atExit, redRatio, hold, travel, running>>
      /\ \A u \in rest : u \in timers
      /\ \A u \in timers : Moves(u) => u \in rest
      /\ hold \in Nat /\ travel \in Nat
      /\ \A u \in timers : u.left \in Nat
      BY DEF OnRequestRun, OnExitHold, OnJam, Moves, Types, Ticks
<1> HIDE DEF rest
<1>1. CASE t.script = "requestRun" /\ OnRequestRun(rest)
  <2>1. timers' = rest /\ motorOn' = motorOn
        BY <1>1 DEF OnRequestRun
  <2>2. BrickInv' /\ ReadingInv'
        BY <1>0, <2>1, BrickKept, ReadingKept DEF FirmwareInv, Moves
  <2>3. JamInv'
        BY <1>0, <2>1 DEF FirmwareInv, JamInv, Live, ArrivesIn, BackstopIn
  <2>4. HoldInv'
        BY <1>0, <2>1 DEF FirmwareInv, HoldInv, HeldAt
  <2> QED
      BY <2>2, <2>3, <2>4 DEF FirmwareInv
<1>2. CASE t.script = "exitHold" /\ OnExitHold(rest)
  <2> DEFINE new == Timer("requestRun", 0, 0)
  <2>1. /\ timers' = IF entryOccupied /\ ~enRoute
                     THEN Stopped(rest, {"requestRun"}) \cup {new} ELSE rest
        /\ motorOn' = motorOn
        BY <1>2 DEF OnExitHold, Restarted
  <2>2. new.script = "requestRun" /\ new.left = 0
        BY TimerFields
  <2> HIDE DEF new
  <2>3. /\ \A u \in timers' : u = new \/ u \in timers
        /\ \A u \in timers : Moves(u) => u \in timers'
        BY <1>0, <2>1 DEF Stopped, Moves
  <2>4. \A u \in timers' : Moves(u) => u \in timers
        BY <2>2, <2>3 DEF Moves
  <2>5. \A u \in timers' : u.script \in {"travel", "jam"} => u \in timers
        BY <2>2, <2>3
  <2>6. BrickInv' /\ ReadingInv'
        BY <1>0, <2>3, <2>4, BrickKept, ReadingKept DEF FirmwareInv, Moves
  <2>7. JamInv'
        BY <1>0, <2>1, <2>5 DEF FirmwareInv, JamInv, Live, ArrivesIn, BackstopIn
  <2>8. HoldInv'
    <3>1. HeldAt(new, Requested)'
      <4>1. HeldAt(t, Timings.exitHold)
            BY <1>2 DEF FirmwareInv, HoldInv
      <4> QED
          BY <1>0, <4>1, TimingsNat DEF HeldAt
    <3> QED
        BY <1>0, <2>2, <2>3, <3>1 DEF FirmwareInv, HoldInv, HeldAt
  <2> QED
      BY <2>6, <2>7, <2>8 DEF FirmwareInv
<1>3. CASE t.script = "jam" /\ t.step = 0 /\ OnJam(t.step, rest)
  <2> DEFINE new == Timer("jam", 1, Timings.jamBackstop)
  <2>1. timers' = rest \cup {new} /\ motorOn' = motorOn
        BY <1>3 DEF OnJam
  <2>2. new.script = "jam" /\ new.step = 1 /\ new.left = Timings.jamBackstop
        BY TimerFields
  <2> HIDE DEF new
  <2>3. /\ \A u \in timers' : u = new \/ u \in timers
        /\ \A u \in timers : Moves(u) => u \in timers'
        /\ \A u \in timers' : Moves(u) => u \in timers
        BY <1>0, <2>1, <2>2 DEF Moves
  <2>4. BrickInv' /\ ReadingInv'
        BY <1>0, <2>3, BrickKept, ReadingKept DEF FirmwareInv, Moves
  <2>5. JamInv'
    <3>1. BackstopIn(new) = BackstopIn(t)
          BY <1>3, <2>2, TimingsNat DEF BackstopIn
    <3>2. \A u \in timers' : u.script = "travel" => u \in timers
          BY <2>2, <2>3
    <3> QED
        BY <1>0, <1>3, <2>1, <2>3, <3>1, <3>2
           DEF FirmwareInv, JamInv, Live, ArrivesIn, BackstopIn
  <2>6. HoldInv'
        BY <1>0, <2>2, <2>3 DEF FirmwareInv, HoldInv, HeldAt
  <2> QED
      BY <2>4, <2>5, <2>6 DEF FirmwareInv
<1>4. CASE t.script = "jam" /\ t.step = 1 /\ OnJam(t.step, rest)
  <2>1. timers' = rest /\ motorOn' = FALSE
        BY <1>4 DEF OnJam
  <2>2. BrickInv' /\ ReadingInv'
        BY <1>0, <2>1, BrickKept, ReadingKept DEF FirmwareInv, Moves
  <2>3. JamInv'
    <3>1. BackstopIn(t) = 0
          BY <1>4 DEF BackstopIn
    <3>2. \A u \in timers : ArrivesIn(u) \in Nat
          BY <1>0 DEF ArrivesIn
    <3>3. ASSUME Timings.entryClear + travel < Timings.jamWithdraw + Timings.jamBackstop
          PROVE  \A u \in timers : u.script # "travel"
          BY <1>4, <3>1, <3>2, <3>3 DEF FirmwareInv, JamInv
    <3> QED
        BY <1>0, <2>1, <3>3 DEF JamInv, Live
  <2>4. HoldInv'
        BY <1>0, <2>1 DEF FirmwareInv, HoldInv, HeldAt
  <2> QED
      BY <2>2, <2>3, <2>4 DEF FirmwareInv
<1> QED
    BY <1>1, <1>2, <1>3, <1>4 DEF OnJam, rest

\* A fan command starts or stops the belt, and the brick on it.
LEMMA FanStep ==
    ASSUME Types, FirmwareInv, NEW state \in BOOLEAN, OnFanCommand(state)
    PROVE  FirmwareInv'
<1> USE DEF world, published, bench, setup
<1>0. /\ UNCHANGED <<entryOccupied, exitOccupied, atExit, redRatio, hold, travel, running>>
      /\ motorOn' = state /\ state # motorOn /\ motorOn \in BOOLEAN
      /\ hold \in Nat /\ travel \in Nat
      BY DEF OnFanCommand, FanEffect, Types
<1>1. CASE ~state
  <2>1. timers' = Stopped(timers, {"jam", "travel"})
        BY <1>1 DEF OnFanCommand, FanEffect
  <2>2. /\ \A u \in timers' : u \in timers /\ u.script # "travel"
        /\ \A u \in timers : u.script = "bench" => u \in timers'
        BY <2>1 DEF Stopped
  <2>3. BrickInv' /\ ReadingInv'
        BY <1>0, <2>2, BrickKept, ReadingKept DEF FirmwareInv
  <2>4. JamInv'
        BY <2>2 DEF JamInv, Live
  <2>5. HoldInv'
        BY <1>0, <2>2 DEF FirmwareInv, HoldInv, HeldAt
  <2> QED
      BY <2>3, <2>4, <2>5 DEF FirmwareInv
<1>2. CASE state
  <2> DEFINE jam == Timer("jam", 0, Timings.jamWithdraw)
             clear == Timer("travel", travelClearEntry, Timings.entryClear)
  <2>1. timers' = IF entryOccupied
                  THEN Stopped(Stopped(timers, {"jam"}) \cup {jam}, {"travel"}) \cup {clear}
                  ELSE Stopped(timers, {"jam"}) \cup {jam}
        BY <1>2 DEF OnFanCommand, FanEffect, Restarted
  <2>2. /\ jam.script = "jam" /\ jam.step = 0 /\ jam.left = Timings.jamWithdraw
        /\ clear.script = "travel" /\ clear.step = travelClearEntry
        /\ clear.left = Timings.entryClear
        BY TimerFields
  <2> HIDE DEF jam, clear
  <2>3. CASE entryOccupied
    <3>1. /\ \A u \in timers' : u \in {jam, clear} \/
                (u \in timers /\ u.script \notin {"jam", "travel"})
          /\ \A u \in timers : u.script = "bench" => u \in timers'
          BY <2>1, <2>2, <2>3 DEF Stopped
    <3>2. \A u \in timers' : u \in {jam, clear} \/ (u \in timers /\ ~Moves(u))
          BY <2>3, <3>1 DEF FirmwareInv, BrickInv, Moves
    <3>3. BrickInv'
          BY <1>0, <2>2, <2>3, <3>2 DEF BrickInv, Moves
    <3>4. ReadingInv'
          BY <1>0, <3>1, ReadingKept DEF FirmwareInv
    <3>5. JamInv'
      <4>1. \A u \in timers' : /\ u.script = "travel" => u = clear
                               /\ u.script = "jam" => u = jam
            BY <2>2, <3>1
      <4>2. /\ ArrivesIn(clear)' = Timings.entryClear + travel
            /\ BackstopIn(jam)' = Timings.jamWithdraw + Timings.jamBackstop
            BY <1>0, <2>2 DEF ArrivesIn, BackstopIn
      <4> QED
          BY <1>0, <1>2, <4>1, <4>2 DEF JamInv
    <3>6. HoldInv'
          BY <1>0, <2>2, <3>1 DEF FirmwareInv, HoldInv, HeldAt
    <3> QED
        BY <3>3, <3>4, <3>5, <3>6 DEF FirmwareInv
  <2>4. CASE ~entryOccupied
    <3>1. /\ \A u \in timers' : u = jam \/ u \in timers
          /\ \A u \in timers : u.script = "bench" => u \in timers'
          BY <2>1, <2>4 DEF Stopped
    <3>2. \A u \in timers' : Moves(u) => u \in timers
          BY <2>2, <3>1 DEF Moves
    <3>3. BrickInv' /\ ReadingInv'
          BY <1>0, <3>1, <3>2, BrickKept, ReadingKept DEF FirmwareInv
    <3>4. JamInv'
      <4>1. ASSUME Timings.entryClear + travel < Timings.jamWithdraw + Timings.jamBackstop
            PROVE  \A u \in timers' : u.script # "travel"
        <5>1. \A u \in timers : u.script # "travel"
              BY <1>0, <1>2, <4>1 DEF FirmwareInv, JamInv, Live
        <5> QED
            BY <2>2, <3>1, <5>1
      <4> QED
          BY <1>0, <4>1 DEF JamInv, Live
    <3>5. HoldInv'
          BY <1>0, <2>2, <3>1 DEF FirmwareInv, HoldInv, HeldAt
    <3> QED
        BY <3>3, <3>4, <3>5 DEF FirmwareInv
  <2> QED
      BY <2>3, <2>4
<1> QED
    BY <1>1, <1>2

\* Time passes for every tick alike.
LEMMA ElapseStep ==
    ASSUME Types, FirmwareInv, Elapse
    PROVE  FirmwareInv'
<1> USE DEF world, published, bench, setup
<1>0. /\ UNCHANGED <<entryOccupied, exitOccupied, motorOn, atExit, redRatio, travel, running>>
      /\ hold' = IF hold < Timings.exitHold THEN hold + 1 ELSE hold
      /\ hold \in Nat /\ travel \in Nat
      BY DEF Elapse, Types
<1>1. ASSUME NEW u \in timers'
      PROVE  \E t \in timers : /\ u = [t EXCEPT !.left = t.left - 1]
                               /\ u.script = t.script /\ u.step = t.step
                               /\ u.left = t.left - 1 /\ t.left \in Nat /\ t.left > 0
  <2>1. PICK t \in timers : u = [t EXCEPT !.left = @ - 1]
        BY <1>1 DEF Elapse
  <2>2. t \in Ticks /\ t.left > 0
        BY DEF Elapse, Types
  <2> QED
      BY <2>1, <2>2 DEF Ticks
<1>2. BrickInv'
      BY <1>0, <1>1 DEF FirmwareInv, BrickInv, Moves
<1>3. ReadingInv'
  <2>1. ASSUME NEW t \in timers
        PROVE  \E u \in timers' : u.script = t.script /\ u.step = t.step
    <3>1. t \in Ticks /\ [t EXCEPT !.left = @ - 1] \in timers'
          BY DEF Elapse, Types
    <3>2. /\ [t EXCEPT !.left = @ - 1].script = t.script
          /\ [t EXCEPT !.left = @ - 1].step = t.step
          BY <3>1 DEF Ticks
    <3> QED
        BY <3>1, <3>2
  <2> QED
      BY <1>0, <2>1 DEF FirmwareInv, ReadingInv
<1>4. JamInv'
  <2>1. ASSUME NEW t \in timers', NEW u \in timers', t.script = "travel", u.script = "jam",
               Timings.entryClear + travel < Timings.jamWithdraw + Timings.jamBackstop
        PROVE  ArrivesIn(t)' < BackstopIn(u)'
    <3>1. PICK a \in timers : /\ t.script = a.script /\ t.step = a.step
                              /\ t.left = a.left - 1 /\ a.left \in Nat
          BY <1>1
    <3>2. PICK b \in timers : /\ u.script = b.script /\ u.step = b.step
                              /\ u.left = b.left - 1 /\ b.left \in Nat
          BY <1>1
    <3>3. ArrivesIn(a) < BackstopIn(b)
          BY <2>1, <3>1, <3>2 DEF FirmwareInv, JamInv
    <3> QED
        BY <1>0, <3>1, <3>2, <3>3, TimingsNat DEF ArrivesIn, BackstopIn
  <2>2. Live("travel")' => Live("travel")
        BY <1>1 DEF Live
  <2> QED
      BY <1>0, <2>1, <2>2 DEF FirmwareInv, JamInv
<1>5. HoldInv'
  <2>1. ASSUME NEW t \in timers, NEW u \in timers', u.left = t.left - 1, t.left \in Nat,
               t.left > 0, NEW d \in Nat, HeldAt(t, d)
        PROVE  HeldAt(u, d)'
        BY <1>0, <2>1, TimingsNat DEF HeldAt
  <2>2. ASSUME NEW t \in timers, t.script = "capture"
        PROVE  Timings.captureSettle + t.step * Timings.captureInterval \in Nat
    <3>1. t.step \in Nat
          BY DEF Types, Ticks
    <3> QED
        BY <3>1, TimingsNat
  <2>3. ASSUME NEW u \in timers'
        PROVE  /\ u.script = "capture" =>
                     /\ u.step <= captureSamples
                     /\ HeldAt(u, Timings.captureSettle + u.step * Timings.captureInterval)'
               /\ u.script = "bench" /\ u.step = benchLift => HeldAt(u, Captured)'
               /\ u.script = "bench" /\ u.step = benchReleased => HeldAt(u, Released)'
               /\ u.script = "bench" /\ u.step = benchPlace => HeldAt(u, Placed)'
               /\ u.script = "requestRun" /\ entryOccupied => HeldAt(u, Requested)'
               /\ u.script = "exitHold" => HeldAt(u, Timings.exitHold)'
    <3>1. PICK t \in timers : /\ u.script = t.script /\ u.step = t.step
                              /\ u.left = t.left - 1 /\ t.left \in Nat /\ t.left > 0
          BY <1>1
    <3>2. \A d \in Nat : HeldAt(t, d) => HeldAt(u, d)'
          BY <2>1, <3>1
    <3> QED
        BY <2>2, <3>1, <3>2, SumsNat, TimingsNat DEF FirmwareInv, HoldInv
  <2> QED
      BY <1>0, <2>3 DEF HoldInv
<1> QED
    BY <1>2, <1>3, <1>4, <1>5 DEF FirmwareInv

-----------------------------------------------------------------------------
(* The theorems.                                                           *)

\* The invariant, in every reachable state.
LEMMA FirmwareCorrect == Spec => [](Types /\ FirmwareInv)
<1>1. Init => Types /\ FirmwareInv
  <2> SUFFICES ASSUME Init PROVE Types /\ FirmwareInv
      OBVIOUS
  <2> DEFINE first == Timer("bench", benchPlace, Timings.betweenBricks)
  <2>1. /\ timers = {first} /\ entryOccupied = FALSE /\ redRatio = NoReading
        /\ hold = Timings.exitHold
        BY DEF Init
  <2>2. first \in Ticks /\ first.script = "bench" /\ first.step = benchPlace
    <3>1. "bench" \in Scripts /\ benchPlace \in Nat
          BY DEF Scripts, benchPlace
    <3> QED
        BY <3>1, TimerType, TimingsNat
  <2> HIDE DEF first
  <2>3. Types
        BY <2>1, <2>2, TimingsAssumption, TimingsNat DEF Init, Types
  <2>4. BrickInv /\ ReadingInv /\ JamInv
        BY <2>1, <2>2 DEF BrickInv, ReadingInv, JamInv, Live, Moves, benchPlace, benchLift
  <2>5. HoldInv
        BY <2>1, <2>2, TimingsNat DEF HoldInv, HeldAt
  <2> QED
      BY <2>3, <2>4, <2>5 DEF FirmwareInv
<1>2. Types /\ FirmwareInv /\ [Next]_vars => FirmwareInv'
  <2> SUFFICES ASSUME Types, FirmwareInv, [Next]_vars PROVE FirmwareInv'
      OBVIOUS
  <2>1. CASE OnTick
        BY <2>1, BenchStep, TravelStep, CaptureStep, ScriptStep DEF OnTick
  <2>2. CASE Return
        BY <2>2 DEF Return, world, published, bench, setup, FirmwareInv, BrickInv,
           ReadingInv, JamInv, HoldInv, Live
  <2>3. CASE UNCHANGED vars
        BY <2>3 DEF vars, world, published, bench, setup, FirmwareInv, BrickInv, ReadingInv,
           JamInv, HoldInv, HeldAt, Live, ArrivesIn, BackstopIn
  <2> QED
      BY <2>1, <2>2, <2>3, FanStep, ElapseStep DEF Next, Quiet
<1> QED
    BY <1>1, <1>2, TypesStep, PTL DEF Spec

\* A brick moves only while the belt runs, on every belt that is quicker than
\* the firmware's backstop: the jam clock and the travel start together, and
\* no step brings the backstop nearer.
THEOREM TravelSafety == Spec => []TravelNeedsMotor
<1>1. Types /\ FirmwareInv => TravelNeedsMotor
  <2>1. Types => Timings.entryClear + travel \in Nat
        BY TimingsNat DEF Types
  <2>2. Timings.jamWithdraw + Timings.jamBackstop \in Nat
        BY TimingsNat
  <2> QED
      BY <2>1, <2>2 DEF FirmwareInv, JamInv, TravelNeedsMotor
<1> QED
    BY <1>1, FirmwareCorrect, PTL

\* A published reading is that of the brick at the exit, whenever the
\* controller starts and stops the belt.
THEOREM ReadingSafety == Spec => []ReadingIsOfBrick
<1>1. FirmwareInv => ReadingIsOfBrick
      BY DEF FirmwareInv, BrickInv, ReadingInv, ReadingIsOfBrick
<1> QED
    BY <1>1, FirmwareCorrect, PTL

\* Timings under which no request can come before the end of the exit hold,
\* as those of the firmware.
HoldCovered == Requested >= Timings.exitHold

\* Under such timings no run is requested before the last brick's exit hold
\* is over, although no request looks at its timer.
THEOREM ExitSafety == HoldCovered => (Spec => ExitHeld)
<1> SUFFICES ASSUME HoldCovered PROVE Spec => ExitHeld
    OBVIOUS
<1>1. Types /\ FirmwareInv /\ [Next]_vars =>
          [enRoute' /\ ~enRoute => hold >= Timings.exitHold]_vars
  <2> SUFFICES ASSUME Types, FirmwareInv, Next, enRoute', ~enRoute
               PROVE  hold >= Timings.exitHold
      OBVIOUS
  <2> USE DEF world, published, bench, setup
  <2>1. PICK t \in timers : t.left = 0 /\ t.script = "requestRun" /\ entryOccupied
    <3>1. OnTick
          BY DEF Next, OnFanCommand, Return, Elapse, Quiet, vars
    <3>2. \A t \in timers : LET rest == timers \ {t} IN
             ~(OnBench(t.step, rest) \/ OnTravel(t.step, rest) \/ OnCapture(t.step, rest)
               \/ OnExitHold(rest) \/ OnJam(t.step, rest))
          BY DEF OnBench, BenchPlace, BenchLift, BenchReleased, OnTravel, ClearEntry,
             OnArrival, OnCapture, Sample, Reject, Measured, OnExitHold, OnJam
    <3> QED
        BY <3>1, <3>2 DEF OnTick, OnRequestRun
  <2>2. HeldAt(t, Requested)
        BY <2>1 DEF FirmwareInv, HoldInv
  <2> QED
      BY <2>1, <2>2, SumsNat, TimingsNat DEF HeldAt, HoldCovered, Types
<1> QED
    BY <1>1, FirmwareCorrect, PTL DEF Spec, ExitHeld

-----------------------------------------------------------------------------
(* The commands that a scenario expects.                                   *)

\* Every set of natural numbers that has an element has a least one.  With it
\* a least counterexample takes the place of an induction.
LEMMA LeastNat ==
    ASSUME NEW T, T \subseteq Nat, T # {}
    PROVE  \E x \in T : \A y \in T : x <= y
<1>1. PICK x \in T : \A y \in T : ~(<<y, x>> \in OpToRel(<, Nat))
      BY WFMin, NatLessThanWellFounded
<1>2. ASSUME NEW y \in T PROVE x <= y
  <2>1. ~(<<y, x>> \in OpToRel(<, Nat))
        BY <1>1
  <2>2. ~(y < x)
        BY <2>1, Zenon DEF OpToRel
  <2> QED
      BY <2>2
<1> QED
    BY <1>2

\* The number of expectations, and how many commands each stands for.
Last == Len(Expectations)
Count(i) == Expectations[i].count

\* Expectations are numbered, and each stands for a command or more.
LEMMA ExpectationFacts ==
    /\ Last \in Nat
    /\ \A i \in 1..Last : Count(i) \in Nat \ {0} /\ Expectations[i].command \in Commands
    /\ Expectations # <<>> <=> Last > 0
    /\ DOMAIN Expectations = 1..Last
<1>1. Last \in Nat /\ DOMAIN Expectations = 1..Last
      BY ExpectationsAssumption DEF Last
<1>2. ASSUME NEW i \in 1..Last
      PROVE  Count(i) \in Nat \ {0} /\ Expectations[i].command \in Commands
  <2>1. PICK S : S = [command : Commands, count : Nat \ {0}]
        OBVIOUS
  <2>2. Expectations \in Seq(S)
        BY <2>1, ExpectationsAssumption
  <2>3. Expectations[i] \in S
        BY <2>2 DEF Last
  <2> QED
      BY <2>1, <2>3 DEF Count
<1>3. Expectations # <<>> <=> Last > 0
      BY ExpectationsAssumption DEF Last
<1> QED
    BY <1>1, <1>2, <1>3

\* f counts the commands of the first n expectations.
Counts(f, n) == f = [i \in 0..n |-> IF i = 0 THEN 0 ELSE f[i - 1] + Count(i)]

\* The commands can be counted, up to every expectation.
LEMMA CountsExist ==
    ASSUME NEW n \in 0..Last
    PROVE  \E f \in [0..n -> Nat] : Counts(f, n)
<1> DEFINE T == {k \in 0..Last : ~\E f \in [0..k -> Nat] : Counts(f, k)}
<1> SUFFICES ASSUME T # {} PROVE FALSE
    OBVIOUS
<1>1. T \subseteq Nat
      BY ExpectationFacts
<1>2. PICK k \in T : \A y \in T : k <= y
      BY <1>1, LeastNat
<1>3. k \in 0..Last /\ ~\E f \in [0..k -> Nat] : Counts(f, k)
      OBVIOUS
<1>4. k # 0
  <2>1. [i \in 0..0 |-> 0] \in [0..0 -> Nat] /\ Counts([i \in 0..0 |-> 0], 0)
        BY DEF Counts
  <2> QED
      BY <2>1, <1>3
<1>5. k - 1 \in 0..Last /\ k \in 1..Last /\ ~(k <= k - 1)
      BY <1>3, <1>4, ExpectationFacts
<1>6. k - 1 \notin T
      BY <1>2, <1>5
<1>7. PICK f \in [0..(k - 1) -> Nat] : Counts(f, k - 1)
      BY <1>5, <1>6
<1> HIDE DEF T
<1>8. PICK g : g = [i \in 0..k |-> IF i = k THEN f[k - 1] + Count(k) ELSE f[i]]
      OBVIOUS
<1>9. Count(k) \in Nat /\ k \in Nat /\ k - 1 \in 0..(k - 1)
      BY <1>5, ExpectationFacts
<1>10. g \in [0..k -> Nat]
      BY <1>8, <1>9
<1>11. ASSUME NEW i \in 0..k
       PROVE  g[i] = IF i = 0 THEN 0 ELSE g[i - 1] + Count(i)
  <2>1. CASE i = k
    <3>1. g[i] = f[k - 1] + Count(k) /\ g[k - 1] = f[k - 1]
          BY <1>8, <1>9, <2>1
    <3> QED
        BY <3>1, <2>1, <1>4
  <2>2. CASE i # k
    <3>1. i \in 0..(k - 1) /\ (i # 0 => i - 1 \in 0..k /\ i - 1 # k)
          BY <1>9, <2>2
    <3>2. f[i] = IF i = 0 THEN 0 ELSE f[i - 1] + Count(i)
          BY <1>7, <3>1 DEF Counts
    <3> QED
        BY <1>8, <2>2, <3>1, <3>2
  <2> QED
      BY <2>1, <2>2
<1>12. Counts(g, k)
      BY <1>10, <1>11 DEF Counts
<1> QED
    BY <1>3, <1>10, <1>12

\* What the recursion of Upto computes.
LEMMA UptoFacts ==
    /\ Upto \in [0..Last -> Nat]
    /\ Upto[0] = 0
    /\ \A i \in 1..Last : Upto[i] = Upto[i - 1] + Count(i) /\ Upto[i - 1] \in Nat
<1>0. Last \in 0..Last
      BY ExpectationFacts
<1>1. PICK f \in [0..Last -> Nat] : Counts(f, Last)
      BY <1>0, CountsExist
<1>2. \E g : g = [i \in 0 .. Len(Expectations) |->
                     IF i = 0 THEN 0 ELSE g[i - 1] + Expectations[i].count]
      BY <1>1 DEF Counts, Count, Last
<1>3. Upto = [i \in 0 .. Len(Expectations) |->
                 IF i = 0 THEN 0 ELSE Upto[i - 1] + Expectations[i].count]
      BY <1>2, Zenon DEF Upto
<1>4. Upto = [i \in 0..Last |-> IF i = 0 THEN 0 ELSE Upto[i - 1] + Count(i)]
      BY <1>3 DEF Last, Count
<1>5. \A i \in 0..Last : Upto[i] = IF i = 0 THEN 0 ELSE Upto[i - 1] + Count(i)
      BY <1>4
<1>6. Upto[0] = 0
      BY <1>5, ExpectationFacts
<1>7. \A i \in 0..Last : Upto[i] \in Nat
  <2> DEFINE T == {i \in 0..Last : Upto[i] \notin Nat}
  <2> SUFFICES ASSUME T # {} PROVE FALSE
      OBVIOUS
  <2>1. T \subseteq Nat
        BY ExpectationFacts
  <2>2. PICK k \in T : \A y \in T : k <= y
        BY <2>1, LeastNat
  <2>3. k \in 1..Last /\ k - 1 \in 0..Last /\ ~(k <= k - 1) /\ k # 0
        BY <1>6, ExpectationFacts
  <2>4. Upto[k - 1] \in Nat
        BY <2>2, <2>3
  <2>5. Upto[k] = Upto[k - 1] + Count(k)
        BY <1>5, <2>3
  <2> QED
      BY <2>3, <2>4, <2>5, ExpectationFacts
<1>8. Upto \in [0..Last -> Nat]
      BY <1>4, <1>7
<1>9. ASSUME NEW i \in 1..Last
      PROVE  Upto[i] = Upto[i - 1] + Count(i) /\ Upto[i - 1] \in Nat
  <2>1. i \in 0..Last /\ i # 0 /\ i - 1 \in 0..Last
        BY ExpectationFacts
  <2> QED
      BY <1>5, <1>7, <2>1
<1> QED
    BY <1>6, <1>8, <1>9

\* A later expectation ends later.
LEMMA UptoOrder ==
    ASSUME NEW i \in 0..Last, NEW j \in 0..Last, i < j
    PROVE  Upto[i] < Upto[j]
<1> DEFINE T == {k \in 0..Last : i < k /\ ~(Upto[i] < Upto[k])}
<1> SUFFICES ASSUME T # {} PROVE FALSE
    OBVIOUS
<1>1. T \subseteq Nat
      BY ExpectationFacts
<1>2. PICK k \in T : \A y \in T : k <= y
      BY <1>1, LeastNat
<1>3. /\ k \in 1..Last /\ k - 1 \in 0..Last /\ ~(k <= k - 1) /\ i < k
      /\ ~(Upto[i] < Upto[k])
      BY ExpectationFacts
<1>4. Upto[k] = Upto[k - 1] + Count(k) /\ Upto[k - 1] \in Nat /\ Count(k) \in Nat \ {0}
      BY <1>3, UptoFacts, ExpectationFacts
<1>5. Upto[i] \in Nat
      BY UptoFacts
<1>6. CASE i = k - 1
      BY <1>3, <1>4, <1>5, <1>6
<1>7. CASE i # k - 1
  <2>1. i < k - 1
        BY <1>3, <1>7, ExpectationFacts
  <2>2. Upto[i] < Upto[k - 1]
        BY <1>2, <1>3, <2>1
  <2> QED
      BY <1>3, <1>4, <1>5, <2>2
<1> QED
    BY <1>6, <1>7

Within(n, i) == Upto[i - 1] < n /\ n <= Upto[i]

\* Every expected command belongs to an expectation, and to no other.
LEMMA WithinOne ==
    ASSUME NEW n \in 1..Upto[Last]
    PROVE  /\ \E i \in 1..Last : Within(n, i)
           /\ \A i, j \in 1..Last : Within(n, i) /\ Within(n, j) => i = j
<1>1. \E i \in 1..Last : Within(n, i)
  <2> DEFINE T == {k \in 0..Last : n <= Upto[k]}
  <2>1. T \subseteq Nat
        BY ExpectationFacts
  <2>2. Last \in T
        BY ExpectationFacts, UptoFacts
  <2>3. PICK k \in T : \A y \in T : k <= y
        BY <2>1, <2>2, LeastNat
  <2>4. k \in 0..Last /\ n <= Upto[k] /\ k # 0
        BY UptoFacts
  <2>5. k \in 1..Last /\ k - 1 \in 0..Last /\ ~(k <= k - 1)
        BY <2>4, ExpectationFacts
  <2>6. ~(n <= Upto[k - 1])
        BY <2>3, <2>5
  <2>7. Upto[k - 1] \in Nat /\ n \in Int
        BY <2>5, UptoFacts
  <2> QED
      BY <2>4, <2>5, <2>6, <2>7 DEF Within
<1>2. ASSUME NEW i \in 1..Last, NEW j \in 1..Last, Within(n, i), Within(n, j), i < j
      PROVE  FALSE
  <2>1. i \in 0..Last /\ j - 1 \in 0..Last /\ (i = j - 1 \/ i < j - 1)
        BY <1>2, ExpectationFacts
  <2>2. Upto[i] <= Upto[j - 1] /\ Upto[i] \in Nat /\ Upto[j - 1] \in Nat
    <3>1. Upto[i] \in Nat /\ Upto[j - 1] \in Nat
          BY <2>1, UptoFacts
    <3>2. CASE i = j - 1
          BY <3>1, <3>2
    <3>3. CASE i < j - 1
      <4>1. Upto[i] < Upto[j - 1]
            BY <2>1, <3>3, UptoOrder
      <4> QED
          BY <3>1, <4>1
    <3> QED
        BY <2>1, <3>2, <3>3
  <2>3. n <= Upto[i] /\ Upto[j - 1] < n
        BY <1>2 DEF Within
  <2> QED
      BY <2>2, <2>3
<1>3. \A i, j \in 1..Last : i < j \/ j < i \/ i = j
      BY ExpectationFacts
<1> QED
    BY <1>1, <1>2, <1>3

\* The commands one by one, without the choice.
LEMMA ExpectedFacts ==
    /\ Len(Expected) = Upto[Last] /\ Upto[Last] \in Nat
    /\ \A n \in 1..Upto[Last], i \in 1..Last :
          Within(n, i) => Expected[n] = Expectations[i].command
<1>1. Upto[Last] \in Nat
      BY UptoFacts, ExpectationFacts
<1>2. Expected = [n \in 1..Upto[Last] |->
                     Expectations[CHOOSE i \in 1..Last : Within(n, i)].command]
      BY ExpectationFacts DEF Expected, Within, Last
<1>3. Len(Expected) = Upto[Last]
      BY <1>1, <1>2
<1>4. ASSUME NEW n \in 1..Upto[Last], NEW i \in 1..Last, Within(n, i)
      PROVE  Expected[n] = Expectations[i].command
  <2>1. PICK c : c = CHOOSE k \in 1..Last : Within(n, k)
        OBVIOUS
  <2>2. c \in 1..Last /\ Within(n, c)
        BY <1>4, <2>1
  <2>3. c = i
        BY <1>4, <2>2, WithinOne
  <2>4. Expected[n] = Expectations[c].command
        BY <1>2, <2>1
  <2> QED
      BY <2>3, <2>4
<1> QED
    BY <1>1, <1>3, <1>4

-----------------------------------------------------------------------------
(* Verdicts.                                                               *)

Codes == {"unexpected", "out_of_order", "overflow"}

\* The types of the matching state and of the waiters.
MatchTypes ==
    /\ commands \in Seq(Commands) /\ Len(commands) <= QueueSize
    /\ log \in Seq([command : Commands, dropped : BOOLEAN])
    /\ match \in [index : Nat, matched : Nat, err : Codes \cup {"none"}]
    /\ commandNotify \in Nat

\* Command i is the first wrong one, and what is wrong with it.
FirstWrong(i) == Wrong(i) /\ \A j \in 1..(i - 1) : ~Wrong(j)
CodeOf(i) ==
    IF i <= Len(Expected) /\ log[i].command = Expected[i] THEN "overflow"
    ELSE IF \E j \in (i + 1) .. Len(Expected) : Expected[j] = log[i].command
    THEN "out_of_order" ELSE "unexpected"

\* Without an error every command was right, and index and matched say how many
\* there were; an error is that of the first wrong command.
MatchInv ==
    IF Expectations = <<>> THEN match.err = "none" /\ match.index = 1
    ELSE IF match.err = "none"
    THEN /\ match.index \in 1..(Last + 1)
         /\ match.index <= Last => match.matched < Count(match.index)
         /\ match.index > Last => match.matched = 0
         /\ Len(log) = Upto[match.index - 1] + match.matched
         /\ \A i \in 1..Len(log) : ~Wrong(i)
    ELSE \E i \in 1..Len(log) : FirstWrong(i) /\ match.err = CodeOf(i)

\* What the reference says when no command is wrong.
LEMMA VerdictRight ==
    ASSUME Expectations # <<>>, NEW n \in Nat, \A i \in 1..n : ~Wrong(i)
    PROVE  VerdictOf(n) = IF n < Len(Expected) THEN Undecided ELSE "ok"
<1>1. {i \in 1..n : Wrong(i)} = {}
      OBVIOUS
<1> QED
    BY <1>1, Zenon DEF VerdictOf

\* What it says when command i is the first wrong one.
LEMMA VerdictWrong ==
    ASSUME Expectations # <<>>, NEW n \in Nat, NEW i \in 1..n, FirstWrong(i)
    PROVE  VerdictOf(n) = CodeOf(i)
<1>1. PICK wrong : wrong = {j \in 1..n : Wrong(j)}
      OBVIOUS
<1>2. i \in wrong /\ wrong # {}
      BY <1>1 DEF FirstWrong
<1>3. \A j \in wrong : i <= j
  <2> SUFFICES ASSUME NEW j \in wrong PROVE i <= j
      OBVIOUS
  <2>1. j \in 1..n /\ Wrong(j)
        BY <1>1
  <2>2. ~(j \in 1..(i - 1))
        BY <2>1 DEF FirstWrong
  <2> QED
      BY <2>1, <2>2
<1>4. wrong \subseteq Nat
      BY <1>1
<1>5. Min(wrong) \in wrong /\ \A j \in wrong : Min(wrong) <= j
      BY <1>2, <1>3, Zenon DEF Min
<1>6. Min(wrong) = i
  <2>1. PICK m : m = Min(wrong)
        OBVIOUS
  <2>2. m \in wrong /\ m <= i
        BY <1>2, <1>5, <2>1, Zenon
  <2>3. i <= m /\ m \in Nat /\ i \in Nat
        BY <1>3, <1>4, <2>2
  <2> QED
      BY <2>1, <2>2, <2>3
<1>7. VerdictOf(n) =
         LET k == Min(wrong) IN
         IF k <= Len(Expected) /\ log[k].command = Expected[k] THEN "overflow"
         ELSE IF \E j \in (k + 1) .. Len(Expected) : Expected[j] = log[k].command
         THEN "out_of_order" ELSE "unexpected"
      BY <1>1, <1>2, Zenon DEF VerdictOf
<1> QED
    BY <1>6, <1>7, Zenon DEF CodeOf

\* Without expectations every wait succeeds at once.
LEMMA VerdictEmpty ==
    ASSUME Expectations = <<>>, NEW n \in Nat
    PROVE  VerdictOf(n) = "ok"
  BY Zenon DEF VerdictOf

\* The matching state amounts to the reference verdict.
LEMMA VerdictCorrect ==
    ASSUME MatchTypes, MatchInv
    PROVE  Verdict = VerdictOf(Len(log))
<1>1. Len(log) \in Nat
      BY DEF MatchTypes
<1>2. CASE Expectations = <<>>
  <2>1. match.err = "none" /\ match.index = 1 /\ Last = 0
        BY <1>2, ExpectationFacts DEF MatchInv
  <2> QED
      BY <1>1, <1>2, <2>1, VerdictEmpty DEF Verdict, Last
<1>3. CASE Expectations # <<>> /\ match.err = "none"
  <2>1. /\ match.index \in 1..(Last + 1)
        /\ match.index <= Last => match.matched < Count(match.index)
        /\ match.index > Last => match.matched = 0
        /\ Len(log) = Upto[match.index - 1] + match.matched
        /\ \A i \in 1..Len(log) : ~Wrong(i)
        BY <1>3 DEF MatchInv
  <2>2. VerdictOf(Len(log)) = IF Len(log) < Upto[Last] THEN Undecided ELSE "ok"
        BY <1>1, <1>3, <2>1, VerdictRight, ExpectedFacts
  <2>3. match.matched \in Nat /\ match.index \in Nat /\ Last \in Nat
        BY ExpectationFacts DEF MatchTypes
  <2>4. CASE match.index > Last
    <3>1. match.index - 1 = Last /\ match.matched = 0
          BY <2>1, <2>3, <2>4
    <3>2. Len(log) = Upto[Last]
          BY <2>1, <3>1, ExpectedFacts
    <3>3. VerdictOf(Len(log)) = "ok"
          BY <2>2, <3>2, ExpectedFacts
    <3> QED
        BY <1>3, <2>4, <3>3 DEF Verdict, Last
  <2>5. CASE match.index <= Last
    <3>1. match.index \in 1..Last
          BY <2>1, <2>3, <2>5
    <3>2. Len(log) < Upto[match.index] /\ Upto[match.index] \in Nat
      <4>1. Upto[match.index] = Upto[match.index - 1] + Count(match.index)
            /\ Upto[match.index - 1] \in Nat /\ Count(match.index) \in Nat
            BY <3>1, UptoFacts, ExpectationFacts
      <4> QED
          BY <2>1, <2>3, <2>5, <4>1
    <3>3. match.index = Last \/ match.index < Last
          BY <2>3, <2>5
    <3>4. Upto[match.index] <= Upto[Last]
      <4>1. CASE match.index = Last
            BY <4>1, <3>2
      <4>2. CASE match.index < Last
        <5>1. Upto[match.index] < Upto[Last]
              BY <2>3, <3>1, <4>2, UptoOrder
        <5> QED
            BY <5>1, <3>2, ExpectedFacts
      <4> QED
          BY <3>3, <4>1, <4>2
    <3>5. Len(log) < Upto[Last]
          BY <1>1, <3>2, <3>4, ExpectedFacts
    <3>6. ~(match.index > Last)
          BY <2>3, <2>5
    <3> QED
        BY <1>3, <2>2, <3>5, <3>6 DEF Verdict, Last
  <2> QED
      BY <2>3, <2>4, <2>5
<1>4. CASE Expectations # <<>> /\ match.err # "none"
  <2>1. PICK i \in 1..Len(log) : FirstWrong(i) /\ match.err = CodeOf(i)
        BY <1>4 DEF MatchInv
  <2>2. VerdictOf(Len(log)) = CodeOf(i)
        BY <1>1, <1>4, <2>1, VerdictWrong
  <2> QED
      BY <1>4, <2>1, <2>2 DEF Verdict
<1> QED
    BY <1>2, <1>3, <1>4

-----------------------------------------------------------------------------
(* Recording a command.                                                    *)

\* A record adds to the log, and leaves what was said of the commands before.
LEMMA LogStep ==
    ASSUME MatchTypes, NEW x \in [command : Commands, dropped : BOOLEAN], log' = Append(log, x)
    PROVE  /\ Len(log) \in Nat /\ Len(log') = Len(log) + 1
           /\ log' \in Seq([command : Commands, dropped : BOOLEAN])
           /\ log'[Len(log) + 1] = x
           /\ \A i \in 1..Len(log) : /\ Wrong(i)' <=> Wrong(i)
                                     /\ CodeOf(i)' = CodeOf(i)
                                     /\ FirstWrong(i)' <=> FirstWrong(i)
<1>1. PICK S : S = [command : Commands, dropped : BOOLEAN]
      OBVIOUS
<1>2. log \in Seq(S) /\ x \in S
      BY <1>1 DEF MatchTypes
<1>3. /\ Len(log) \in Nat /\ Len(log') = Len(log) + 1 /\ log' \in Seq(S)
      /\ log'[Len(log) + 1] = x /\ \A i \in 1..Len(log) : log'[i] = log[i]
      BY <1>2
<1>4. \A i \in 1..Len(log) : (Wrong(i)' <=> Wrong(i)) /\ CodeOf(i)' = CodeOf(i)
  <2> SUFFICES ASSUME NEW i \in 1..Len(log)
               PROVE  (Wrong(i)' <=> Wrong(i)) /\ CodeOf(i)' = CodeOf(i)
      OBVIOUS
  <2>1. log'[i] = log[i]
        BY <1>3
  <2> QED
      BY <2>1, Zenon DEF Wrong, CodeOf
<1>5. ASSUME NEW i \in 1..Len(log)
      PROVE  FirstWrong(i)' <=> FirstWrong(i)
  <2>1. \A j \in 1..(i - 1) : j \in 1..Len(log)
        BY <1>3
  <2> QED
      BY <1>4, <2>1 DEF FirstWrong
<1> QED
    BY <1>1, <1>3, <1>4, <1>5

\* What the reference says of a number of commands does not change.
LEMMA VerdictKept ==
    ASSUME MatchTypes, NEW x \in [command : Commands, dropped : BOOLEAN],
           log' = Append(log, x), NEW n \in 0..Len(log)
    PROVE  VerdictOf(n)' = VerdictOf(n)
<1>1. Len(log) \in Nat /\ n \in Nat /\ \A i \in 1..n : i \in 1..Len(log)
      BY LogStep
<1>2. CASE Expectations = <<>>
      BY <1>2, Zenon DEF VerdictOf
<1>3. CASE Expectations # <<>> /\ \A i \in 1..n : ~Wrong(i)
  <2>1. VerdictOf(n) = IF n < Len(Expected) THEN Undecided ELSE "ok"
        BY <1>1, <1>3, VerdictRight
  <2>2. {i \in 1..n : Wrong(i)'} = {}
        BY <1>1, <1>3, LogStep
  <2>3. VerdictOf(n)' = IF n < Len(Expected) THEN Undecided ELSE "ok"
        BY <1>3, <2>2, Zenon DEF VerdictOf
  <2> QED
      BY <2>1, <2>3
<1>4. CASE Expectations # <<>> /\ \E i \in 1..n : Wrong(i)
  <2>1. {i \in 1..n : Wrong(i)'} = {i \in 1..n : Wrong(i)}
        BY <1>1, LogStep
  <2>2. PICK wrong : wrong = {i \in 1..n : Wrong(i)}
        OBVIOUS
  <2>3. wrong # {} /\ wrong \subseteq Nat
        BY <1>4, <2>2
  <2>4. PICK m \in wrong : \A j \in wrong : m <= j
        BY <2>3, LeastNat
  <2>5. Min(wrong) \in wrong
        BY <2>4, Zenon DEF Min
  <2>6. log'[Min(wrong)] = log[Min(wrong)]
    <3>1. Min(wrong) \in 1..Len(log)
          BY <1>1, <2>2, <2>5
    <3> QED
        BY <3>1 DEF MatchTypes
  <2>7. VerdictOf(n) =
           LET k == Min(wrong) IN
           IF k <= Len(Expected) /\ log[k].command = Expected[k] THEN "overflow"
           ELSE IF \E j \in (k + 1) .. Len(Expected) : Expected[j] = log[k].command
           THEN "out_of_order" ELSE "unexpected"
        BY <1>4, <2>2, <2>3, Zenon DEF VerdictOf
  <2>8. VerdictOf(n)' =
           LET k == Min(wrong) IN
           IF k <= Len(Expected) /\ log'[k].command = Expected[k] THEN "overflow"
           ELSE IF \E j \in (k + 1) .. Len(Expected) : Expected[j] = log'[k].command
           THEN "out_of_order" ELSE "unexpected"
        BY <1>4, <2>1, <2>2, <2>3, Zenon DEF VerdictOf
  <2> QED
      BY <2>6, <2>7, <2>8
<1> QED
    BY <1>2, <1>3, <1>4

Later(k, c) == \E i \in (k + 1)..Last : Expectations[i].command = c

\* A command that is not the next one comes later in the scenario exactly if a
\* later expectation has it.
LEMMA LaterFacts ==
    ASSUME NEW k \in 1..Last, NEW p \in 1..Upto[Last], Within(p, k),
           NEW c, c # Expectations[k].command
    PROVE  Later(k, c) <=> \E j \in (p + 1)..Len(Expected) : Expected[j] = c
<1> USE DEF Later
<1>1. Last \in Nat /\ Upto[Last] \in Nat /\ Len(Expected) = Upto[Last]
      BY ExpectationFacts, ExpectedFacts
<1>2. ASSUME NEW i \in (k + 1)..Last, Expectations[i].command = c
      PROVE  \E j \in (p + 1)..Len(Expected) : Expected[j] = c
  <2>1. i \in 1..Last /\ i \in 0..Last /\ k \in 0..Last /\ k < i
        BY <1>1
  <2>2. Upto[k] < Upto[i] /\ Upto[k] \in Nat /\ Upto[i] \in Nat
        BY <2>1, UptoOrder, UptoFacts
  <2>3. Upto[i] <= Upto[Last]
    <3>1. CASE i = Last
          BY <2>2, <3>1
    <3>2. CASE i < Last
      <4>1. Upto[i] < Upto[Last]
            BY <1>1, <2>1, <3>2, UptoOrder
      <4> QED
          BY <1>1, <2>2, <4>1
    <3> QED
        BY <1>1, <3>1, <3>2
  <2>4. p <= Upto[k]
        BY DEF Within
  <2>5. Upto[i] \in (p + 1)..Len(Expected) /\ Upto[i] \in 1..Upto[Last]
        BY <1>1, <2>2, <2>3, <2>4
  <2>6. Within(Upto[i], i)
    <3>1. Upto[i] = Upto[i - 1] + Count(i) /\ Upto[i - 1] \in Nat /\ Count(i) \in Nat \ {0}
          BY <2>1, UptoFacts, ExpectationFacts
    <3>2. Upto[i - 1] < Upto[i]
          BY <2>2, <3>1
    <3> QED
        BY <2>2, <3>2 DEF Within
  <2>7. Expected[Upto[i]] = c
        BY <1>2, <2>1, <2>5, <2>6, ExpectedFacts
  <2> QED
      BY <2>5, <2>7
<1>3. ASSUME NEW j \in (p + 1)..Len(Expected), Expected[j] = c
      PROVE  \E i \in (k + 1)..Last : Expectations[i].command = c
  <2>1. j \in 1..Upto[Last] /\ p < j
        BY <1>1
  <2>2. PICK i \in 1..Last : Within(j, i)
        BY <2>1, WithinOne
  <2>3. Expectations[i].command = c
        BY <1>3, <2>1, <2>2, ExpectedFacts
  <2>4. i # k
        BY <2>3
  <2>5. ~(i < k)
    <3> SUFFICES ASSUME i < k PROVE FALSE
        OBVIOUS
    <3>1. i \in 0..Last /\ k - 1 \in 0..Last /\ (i = k - 1 \/ i < k - 1)
          BY <1>1
    <3>2. Upto[i] \in Nat /\ Upto[k - 1] \in Nat
          BY <3>1, UptoFacts
    <3>3. Upto[i] <= Upto[k - 1]
      <4>1. CASE i = k - 1
            BY <3>2, <4>1
      <4>2. CASE i < k - 1
        <5>1. Upto[i] < Upto[k - 1]
              BY <3>1, <4>2, UptoOrder
        <5> QED
            BY <3>2, <5>1
      <4> QED
          BY <3>1, <4>1, <4>2
    <3>4. j <= Upto[i] /\ Upto[k - 1] < p
          BY <2>2 DEF Within
    <3> QED
        BY <2>1, <3>2, <3>3, <3>4
  <2>6. i \in (k + 1)..Last
        BY <1>1, <2>4, <2>5
  <2> QED
      BY <2>3, <2>6
<1> QED
    BY <1>2, <1>3

\* The command to come is the one that index and matched point at.
LEMMA NextPlace ==
    ASSUME MatchTypes, MatchInv, Expectations # <<>>, match.err = "none", match.index <= Last
    PROVE  /\ match.index \in 1..Last
           /\ Len(log) + 1 \in 1..Upto[Last]
           /\ Within(Len(log) + 1, match.index)
           /\ Expected[Len(log) + 1] = Expectations[match.index].command
<1>1. /\ match.index \in 1..(Last + 1) /\ match.matched < Count(match.index)
      /\ Len(log) = Upto[match.index - 1] + match.matched
      BY DEF MatchInv
<1>2. match.matched \in Nat /\ Last \in Nat /\ Len(log) \in Nat
      BY ExpectationFacts DEF MatchTypes
<1>3. match.index \in 1..Last
      BY <1>1, <1>2
<1>4. /\ Upto[match.index] = Upto[match.index - 1] + Count(match.index)
      /\ Upto[match.index - 1] \in Nat /\ Count(match.index) \in Nat
      BY <1>3, UptoFacts, ExpectationFacts
<1>5. Within(Len(log) + 1, match.index)
      BY <1>1, <1>2, <1>4 DEF Within
<1>6. Upto[match.index] <= Upto[Last]
  <2>1. CASE match.index = Last
        BY <1>4, <2>1
  <2>2. CASE match.index < Last
    <3>1. Upto[match.index] < Upto[Last]
          BY <1>2, <1>3, <2>2, UptoOrder
    <3> QED
        BY <1>4, <3>1, ExpectedFacts
  <2> QED
      BY <1>2, <1>3, <2>1, <2>2
<1>7. Len(log) + 1 \in 1..Upto[Last]
  <2>1. Len(log) + 1 <= Upto[match.index]
        BY <1>5 DEF Within
  <2> QED
      BY <1>2, <1>4, <1>6, <2>1, ExpectedFacts
<1> QED
    BY <1>3, <1>5, <1>7, ExpectedFacts

\* The error of the first wrong command is kept.
LEMMA ErrorStep ==
    ASSUME MatchTypes, MatchInv, Expectations # <<>>, match.err = "none",
           NEW x \in [command : Commands, dropped : BOOLEAN], log' = Append(log, x),
           NEW p, p = Len(log) + 1, Wrong(p)',
           match'.err # "none", match'.err = CodeOf(p)'
    PROVE  MatchInv'
<1>1. \A i \in 1..Len(log) : ~Wrong(i)
      BY DEF MatchInv
<1>2. /\ Len(log) \in Nat /\ Len(log') = Len(log) + 1
      /\ \A i \in 1..Len(log) : Wrong(i)' <=> Wrong(i)
      BY LogStep
<1>3. p \in 1..Len(log') /\ \A j \in 1..(p - 1) : j \in 1..Len(log)
      BY <1>2
<1>4. FirstWrong(p)'
      BY <1>1, <1>2, <1>3 DEF FirstWrong
<1> QED
    BY <1>3, <1>4 DEF MatchInv

\* A record keeps the types and the meaning of the matching state: the command
\* may be right, wrong, one too many, dropped, or come after an error.
LEMMA RecordStep ==
    ASSUME MatchTypes, MatchInv, NEW c \in Commands, Record(c)
    PROVE  MatchTypes' /\ MatchInv' /\ commandNotify' = commandNotify + 1
<1> DEFINE full == Len(commands) = QueueSize
<1>1. full \in BOOLEAN
      OBVIOUS
<1>2. PICK x : x = [command |-> c, dropped |-> full]
      OBVIOUS
<1>3. PICK p : p = Len(log) + 1
      OBVIOUS
<1>4. PICK seen : seen = Observe(match, c)
      OBVIOUS
<1>5. /\ x \in [command : Commands, dropped : BOOLEAN]
      /\ log' = Append(log, x) /\ commandNotify' = commandNotify + 1
      BY <1>1, <1>2 DEF Record
<1>6. /\ Len(log) \in Nat /\ Len(log') = p /\ p \in Nat
      /\ log' \in Seq([command : Commands, dropped : BOOLEAN])
      /\ log'[p] = x
      /\ \A i \in 1..Len(log) : /\ Wrong(i)' <=> Wrong(i)
                                /\ CodeOf(i)' = CodeOf(i)
                                /\ FirstWrong(i)' <=> FirstWrong(i)
  <2>1. /\ Len(log) \in Nat /\ Len(log') = Len(log) + 1
        /\ log' \in Seq([command : Commands, dropped : BOOLEAN])
        /\ log'[Len(log) + 1] = x
        BY <1>5, LogStep
  <2>2. \A i \in 1..Len(log) : /\ Wrong(i)' <=> Wrong(i)
                               /\ CodeOf(i)' = CodeOf(i)
                               /\ FirstWrong(i)' <=> FirstWrong(i)
        BY <1>5, LogStep
  <2> QED
      BY <1>3, <2>1, <2>2
<1>7. /\ commands' \in Seq(Commands) /\ Len(commands') <= QueueSize
      /\ match' = IF full THEN Overflow(seen) ELSE seen
  <2>1. commands \in Seq(Commands) /\ Len(commands) \in Nat /\ Len(commands) <= QueueSize
        /\ QueueSize \in Nat
        BY ExpectationsAssumption DEF MatchTypes
  <2>2. CASE full
    <3>1. ~(Len(commands) < QueueSize)
          BY <2>1, <2>2
    <3> QED
        BY <1>4, <2>1, <2>2, <3>1 DEF Record
  <2>3. CASE ~full
    <3>1. Len(commands) < QueueSize
          BY <2>1, <2>3
    <3>2. commands' = Append(commands, c) /\ match' = seen
          BY <1>4, <3>1 DEF Record
    <3> QED
        BY <2>1, <2>3, <3>1, <3>2
  <2> QED
      BY <2>2, <2>3
<1>8. Wrong(p)' <=> (p > Len(Expected) \/ c # Expected[p] \/ full)
  <2>1. log'[p] = [command |-> c, dropped |-> full]
        BY <1>2, <1>6, Zenon
  <2>2. PICK b : b = full
        OBVIOUS
  <2>3. log'[p] = [command |-> c, dropped |-> b]
        BY <2>1, <2>2, Zenon
  <2>4. log'[p].command = c /\ log'[p].dropped = b
        BY <2>3
  <2> QED
      BY <2>2, <2>4, Zenon DEF Wrong
<1>9. CodeOf(p)' = IF p <= Len(Expected) /\ c = Expected[p] THEN "overflow"
                   ELSE IF \E j \in (p + 1) .. Len(Expected) : Expected[j] = c
                   THEN "out_of_order" ELSE "unexpected"
  <2>1. log'[p].command = c
        BY <1>2, <1>6
  <2> QED
      BY <2>1, Zenon DEF CodeOf
<1>10. /\ match.index \in Nat /\ match.matched \in Nat /\ Last \in Nat
       /\ match = [index |-> match.index, matched |-> match.matched, err |-> match.err]
       BY ExpectationFacts DEF MatchTypes
<1>11. match \in [index : Nat, matched : Nat, err : Codes \cup {"none"}]
       BY DEF MatchTypes
<1>12. SUFFICES match' \in [index : Nat, matched : Nat, err : Codes \cup {"none"}] /\ MatchInv'
       BY <1>5, <1>6, <1>7 DEF MatchTypes
<1>13. CASE Expectations = <<>>
  <2>1. match' = match
        BY <1>4, <1>7, <1>13 DEF Observe, Overflow
  <2> QED
      BY <1>11, <1>13, <2>1 DEF MatchInv
<1>14. CASE Expectations # <<>> /\ match.err # "none"
  <2>1. match' = match
        BY <1>4, <1>7, <1>14 DEF Observe, Overflow, Fail
  <2>2. PICK i \in 1..Len(log) : FirstWrong(i) /\ match.err = CodeOf(i)
        BY <1>14 DEF MatchInv
  <2>3. i \in 1..Len(log') /\ FirstWrong(i)' /\ match'.err = CodeOf(i)'
        BY <1>3, <1>6, <2>1, <2>2
  <2> QED
      BY <1>11, <1>14, <2>1, <2>3 DEF MatchInv
<1>15. CASE Expectations # <<>> /\ match.err = "none" /\ match.index > Last
  <2>1. match' = [match EXCEPT !.err = "unexpected"]
        BY <1>4, <1>7, <1>10, <1>15 DEF Observe, Overflow, Fail, Last
  <2>2. p > Len(Expected) /\ Len(Expected) \in Nat
    <3>1. match.index = Last + 1 /\ match.matched = 0
          /\ Len(log) = Upto[match.index - 1] + match.matched
          BY <1>10, <1>15 DEF MatchInv
    <3>2. match.index - 1 = Last
          BY <1>10, <3>1
    <3> QED
        BY <1>3, <3>1, <3>2, ExpectedFacts
  <2>3. CodeOf(p)' = "unexpected" /\ Wrong(p)'
    <3>1. ~(p <= Len(Expected)) /\ (p + 1) .. Len(Expected) = {}
          BY <1>6, <2>2
    <3> QED
        BY <1>8, <1>9, <2>2, <3>1
  <2>4. match'.err = "unexpected"
        BY <1>10, <2>1
  <2>5. MatchInv'
        BY <1>3, <1>5, <1>15, <2>3, <2>4, ErrorStep
  <2> QED
      BY <1>11, <2>1, <2>5 DEF Codes
<1>16. ASSUME Expectations # <<>>, match.err = "none", match.index <= Last
       PROVE  match' \in [index : Nat, matched : Nat, err : Codes \cup {"none"}] /\ MatchInv'
  <2>1. /\ match.index \in 1..Last /\ p \in 1..Upto[Last] /\ Within(p, match.index)
        /\ Expected[p] = Expectations[match.index].command
        BY <1>3, <1>16, NextPlace
  <2>2. p <= Len(Expected) /\ ~(match.index > Last) /\ ~(p > Len(Expected))
        BY <1>6, <1>10, <1>16, <2>1, ExpectedFacts
  <2>3. CASE c # Expectations[match.index].command
    <3>1. seen = [match EXCEPT !.err = Code(match, c)]
          BY <1>4, <1>16, <2>2, <2>3 DEF Observe, Fail, Last
    <3>2. Code(match, c) \in {"out_of_order", "unexpected"}
          BY DEF Code
    <3>3. seen.err = Code(match, c) /\ seen.err # "none"
          BY <1>10, <3>1, <3>2
    <3>4. match' = seen
          BY <1>7, <3>3 DEF Overflow, Fail
    <3>5. Wrong(p)'
          BY <1>8, <2>1, <2>3
    <3>6. CodeOf(p)' = Code(match, c)
      <4>1. Later(match.index, c) <=> \E j \in (p + 1)..Len(Expected) : Expected[j] = c
            BY <2>1, <2>3, LaterFacts
      <4>2. ~(c = Expected[p])
            BY <2>1, <2>3
      <4> QED
          BY <1>9, <4>1, <4>2 DEF Code, Later, Last
    <3>7. MatchInv'
          BY <1>3, <1>5, <1>16, <3>3, <3>4, <3>5, <3>6, ErrorStep
    <3> QED
        BY <1>10, <1>11, <3>1, <3>2, <3>4, <3>7 DEF Codes
  <2>4. CASE c = Expectations[match.index].command
    <3>1. seen = IF match.matched + 1 < Count(match.index)
                 THEN [match EXCEPT !.matched = @ + 1]
                 ELSE [match EXCEPT !.index = @ + 1, !.matched = 0]
          BY <1>4, <1>16, <2>2, <2>4 DEF Observe, Last, Count
    <3>2. /\ seen \in [index : Nat, matched : Nat, err : Codes \cup {"none"}]
          /\ seen.err = "none"
      <4>1. CASE match.matched + 1 < Count(match.index)
        <5>1. seen = [match EXCEPT !.matched = @ + 1]
              BY <3>1, <4>1
        <5> QED
            BY <1>10, <1>11, <1>16, <5>1
      <4>2. CASE ~(match.matched + 1 < Count(match.index))
        <5>1. seen = [match EXCEPT !.index = @ + 1, !.matched = 0]
              BY <3>1, <4>2
        <5>2. seen = [index |-> match.index + 1, matched |-> 0, err |-> match.err]
              BY <1>11, <5>1
        <5> QED
            BY <1>10, <1>16, <5>2
      <4> QED
          BY <4>1, <4>2
    <3>3. CASE full
      <4>1. match' = [seen EXCEPT !.err = "overflow"]
            BY <1>7, <1>16, <3>2, <3>3 DEF Overflow, Fail
      <4>2. match' \in [index : Nat, matched : Nat, err : Codes \cup {"none"}]
            /\ match'.err = "overflow"
            BY <3>2, <4>1 DEF Codes
      <4>3. Wrong(p)' /\ CodeOf(p)' = "overflow"
            BY <1>8, <1>9, <2>1, <2>2, <2>4, <3>3
      <4> QED
          BY <1>3, <1>5, <1>16, <4>2, <4>3, ErrorStep
    <3>4. CASE ~full
      <4>1. match' = seen
            BY <1>7, <3>4
      <4>2. ~Wrong(p)'
            BY <1>8, <2>1, <2>2, <2>4, <3>4
      <4>3. \A i \in 1..Len(log') : ~Wrong(i)'
        <5>1. \A i \in 1..Len(log) : ~Wrong(i)
              BY <1>16 DEF MatchInv
        <5>2. \A i \in 1..p : i = p \/ i \in 1..Len(log)
              BY <1>3, <1>6
        <5> QED
            BY <1>6, <4>2, <5>1, <5>2
      <4>4. /\ match.matched < Count(match.index)
            /\ Len(log) = Upto[match.index - 1] + match.matched
            BY <1>16 DEF MatchInv
      <4>5. /\ Count(match.index) \in Nat /\ Upto[match.index - 1] \in Nat
            /\ Upto[match.index] = Upto[match.index - 1] + Count(match.index)
            BY <2>1, UptoFacts, ExpectationFacts
      <4>6. CASE match.matched + 1 < Count(match.index)
        <5>1. match'.index = match.index /\ match'.matched = match.matched + 1
              BY <1>10, <3>1, <4>1, <4>6
        <5>2. match'.index <= Last => match'.matched < Count(match'.index)
              BY <4>6, <5>1
        <5>3. Len(log') = Upto[match'.index - 1] + match'.matched
          <6>1. Upto[match'.index - 1] = Upto[match.index - 1]
                BY <5>1
          <6>2. Len(log') = Upto[match.index - 1] + (match.matched + 1)
            <7>1. Len(log') = Len(log) + 1
                  BY <1>3, <1>6
            <7>2. PICK u : u = Upto[match.index - 1]
                  OBVIOUS
            <7>3. u \in Nat /\ Len(log) = u + match.matched /\ match.matched \in Nat
                  BY <1>10, <4>4, <4>5, <7>2
            <7>4. Len(log') = u + (match.matched + 1)
                  BY <7>1, <7>3
            <7> QED
                BY <7>2, <7>4
          <6> QED
              BY <5>1, <6>1, <6>2
        <5>4. match'.index \in 1..(Last + 1) /\ ~(match'.index > Last)
              BY <1>10, <2>1, <2>2, <5>1
        <5>5. MatchInv'
              BY <1>16, <3>2, <4>1, <4>3, <5>2, <5>3, <5>4 DEF MatchInv
        <5> QED
            BY <3>2, <4>1, <5>5
      <4>7. CASE ~(match.matched + 1 < Count(match.index))
        <5>1. match'.index = match.index + 1 /\ match'.matched = 0
              BY <1>10, <3>1, <4>1, <4>7
        <5>2. match.matched + 1 = Count(match.index)
              BY <1>10, <4>4, <4>5, <4>7
        <5>3. match'.index - 1 = match.index
              BY <1>10, <5>1
        <5>4. Len(log') = Upto[match'.index - 1] + match'.matched
          <6>1. Upto[match'.index - 1] = Upto[match.index]
                BY <5>3
          <6>2. Len(log') = Upto[match.index]
                BY <1>3, <1>6, <1>10, <4>4, <4>5, <5>2
          <6> QED
              BY <1>6, <5>1, <6>1, <6>2
        <5>5. match'.index \in 1..(Last + 1)
              BY <1>10, <2>1, <5>1
        <5>6. match'.index <= Last => match'.matched < Count(match'.index)
          <6> SUFFICES ASSUME match'.index <= Last PROVE 0 < Count(match'.index)
              BY <5>1
          <6>1. match'.index \in 1..Last
                BY <1>10, <5>5
          <6> QED
              BY <6>1, ExpectationFacts
        <5>7. MatchInv'
              BY <1>16, <3>2, <4>1, <4>3, <5>1, <5>4, <5>5, <5>6 DEF MatchInv
        <5> QED
            BY <3>2, <4>1, <5>7
      <4> QED
          BY <4>6, <4>7
    <3> QED
        BY <3>3, <3>4
  <2> QED
      BY <2>3, <2>4
<1> QED
    BY <1>10, <1>13, <1>14, <1>15, <1>16

-----------------------------------------------------------------------------
(* The waiters.                                                            *)

WaitTypes ==
    wait \in [Waiters -> [at : {"check", "sleep", "returned"}, notify : Nat,
                          result : Codes \cup {"none", "ok", Undecided}, seen : Nat]]

\* A wait that is over has the verdict of the commands it had seen.
OverInv ==
    \A w \in Waiters : wait[w].at = "returned" =>
        wait[w].seen \in 0..Len(log) /\ wait[w].result = VerdictOf(wait[w].seen)

\* A waiter sleeps on the current channel only while nothing is decided: the
\* command that decides has closed the channel it sleeps on.
NoneSleepsOn ==
    \A w \in Waiters : wait[w].at = "sleep" =>
        /\ wait[w].notify <= commandNotify
        /\ Verdict # Undecided => wait[w].notify < commandNotify

WaitInv == OverInv /\ NoneSleepsOn

CommandInv == MatchTypes /\ MatchInv /\ WaitTypes /\ WaitInv

\* The steps of the device and of the firmware that leave the commands alone.
Elsewhere ==
    /\ commands' = commands \/ (commands # <<>> /\ commands' = Tail(commands))
    /\ UNCHANGED <<match, commandNotify, log, wait>>

\* The steps, as far as commands and waiters are concerned.
LEMMA CommandSteps ==
    ASSUME [NextBlink]_blinkVars
    PROVE  \/ \E c \in Commands : Record(c) /\ UNCHANGED wait
           \/ \E w \in Waiters : WaitCheck(w) \/ WaitWake(w) \/ WaitGiveUp(w)
           \/ Elsewhere
<1> USE DEF blinkVars, commandVars, deviceVars, runVars
<1>1. CASE Echo \/ Close \/ CloseFinish \/ PushSwitch \/ Mirror \/ RelightDelay \/ Relight
           \/ RunReturn \/ Terminated \/ UNCHANGED blinkVars
      BY <1>1 DEF Echo, Close, CloseFinish, PushSwitch, Mirror, RelightDelay, Relight,
         RunReturn, Terminated, Elsewhere
<1>2. CASE Take
      BY <1>2 DEF Take, Elsewhere
<1>3. ASSUME NEW c \in Commands, Receive(c)
      PROVE  Record(c) /\ UNCHANGED wait
      BY <1>3 DEF Receive
<1> QED
    BY <1>1, <1>2, <1>3 DEF NextBlink, Run, WaitForCommandExpectations

\* A verdict, of the code or of the reference, is one of these.
LEMMA VerdictType ==
    ASSUME MatchTypes
    PROVE  Verdict \in Codes \cup {"none", "ok", Undecided}
  BY DEF MatchTypes, Verdict

\* A record decides for nobody who sleeps on.
LEMMA RecordWaits ==
    ASSUME CommandInv, NEW c \in Commands, Record(c), UNCHANGED wait
    PROVE  CommandInv'
<1> USE DEF CommandInv
<1>1. MatchTypes' /\ MatchInv' /\ commandNotify' = commandNotify + 1
      BY RecordStep
<1>2. WaitTypes'
      BY DEF WaitTypes
<1>3. PICK x \in [command : Commands, dropped : BOOLEAN] : log' = Append(log, x)
  <2>1. [command |-> c, dropped |-> Len(commands) = QueueSize]
           \in [command : Commands, dropped : BOOLEAN]
        OBVIOUS
  <2> QED
      BY <2>1 DEF Record
<1>4. Len(log) \in Nat /\ Len(log') = Len(log) + 1
      BY <1>3, LogStep
<1>5. OverInv'
  <2> SUFFICES ASSUME NEW w \in Waiters, wait[w].at = "returned"
               PROVE  wait[w].seen \in 0..Len(log')
                      /\ wait[w].result = VerdictOf(wait[w].seen)'
      BY DEF OverInv
  <2>1. PICK n : n = wait[w].seen
        OBVIOUS
  <2>2. n \in 0..Len(log) /\ wait[w].result = VerdictOf(n)
        BY <2>1 DEF WaitInv, OverInv
  <2>3. VerdictOf(n)' = VerdictOf(n)
        BY <1>3, <2>2, VerdictKept
  <2>4. VerdictOf(wait[w].seen)' = VerdictOf(n)'
    <3>1. wait'[w].seen = n
          BY <2>1
    <3> QED
        BY <3>1 DEF VerdictOf, Wrong
  <2> QED
      BY <1>4, <2>1, <2>2, <2>3, <2>4
<1>6. NoneSleepsOn'
  <2> SUFFICES ASSUME NEW w \in Waiters, wait[w].at = "sleep"
               PROVE  wait[w].notify < commandNotify' /\ wait[w].notify <= commandNotify'
      BY DEF NoneSleepsOn
  <2>1. wait[w].notify <= commandNotify
        BY DEF WaitInv, NoneSleepsOn
  <2>2. wait[w].notify \in Nat /\ commandNotify \in Nat
        BY DEF WaitTypes, MatchTypes
  <2> QED
      BY <1>1, <2>1, <2>2
<1> QED
    BY <1>1, <1>2, <1>5, <1>6 DEF WaitInv

\* The verdict of the commands so far is that of a step that leaves them alone.
LEMMA MatchFramed ==
    ASSUME MatchTypes, MatchInv, UNCHANGED <<match, commandNotify, log>>,
           commands' = commands \/ (commands # <<>> /\ commands' = Tail(commands))
    PROVE  /\ MatchTypes' /\ MatchInv'
           /\ Verdict' = Verdict
           /\ \A n : VerdictOf(n)' = VerdictOf(n)
<1>1. commands' \in Seq(Commands) /\ Len(commands') <= QueueSize
  <2>1. CASE commands' = commands
        BY <2>1 DEF MatchTypes
  <2>2. CASE commands # <<>> /\ commands' = Tail(commands)
    <3>1. commands \in Seq(Commands) /\ Len(commands) <= QueueSize /\ QueueSize \in Nat
          BY ExpectationsAssumption DEF MatchTypes
    <3>2. Len(commands') = Len(commands) - 1 /\ Len(commands) \in Nat
          BY <2>2, <3>1
    <3>3. commands' \in Seq(Commands)
          BY <2>2, <3>1
    <3> QED
        BY <3>1, <3>2, <3>3
  <2> QED
      BY <2>1, <2>2
<1>2. MatchTypes'
      BY <1>1 DEF MatchTypes
<1>3. MatchInv'
      BY DEF MatchInv, FirstWrong, CodeOf, Wrong, Count, Last
<1>4. Verdict' = Verdict
      BY DEF Verdict
<1>5. ASSUME NEW n PROVE VerdictOf(n)' = VerdictOf(n)
      BY DEF VerdictOf, Wrong
<1> QED
    BY <1>2, <1>3, <1>4, <1>5

\* A waiter that returns does so with the verdict of the commands so far.
LEMMA ReturnWaits ==
    ASSUME CommandInv, NEW w \in Waiters, Returned(w, Verdict),
           UNCHANGED commandVars
    PROVE  CommandInv'
<1> USE DEF CommandInv
<1>1. /\ MatchTypes' /\ MatchInv' /\ Verdict' = Verdict
      /\ \A n : VerdictOf(n)' = VerdictOf(n)
      BY MatchFramed DEF commandVars
<1>2. Len(log) \in Nat /\ log' = log /\ commandNotify' = commandNotify
      BY DEF MatchTypes, commandVars
<1>3. PICK v : v = Verdict
      OBVIOUS
<1>4. v \in Codes \cup {"none", "ok", Undecided}
      BY <1>3, VerdictType
<1>5. v = VerdictOf(Len(log))
      BY <1>3, VerdictCorrect
<1>6. wait' = [wait EXCEPT ![w].at = "returned", ![w].result = v, ![w].seen = Len(log)]
      BY <1>3 DEF Returned
<1>7. WaitTypes'
  <2>1. PICK R : R = Codes \cup {"none", "ok", Undecided}
        OBVIOUS
  <2>2. wait \in [Waiters -> [at : {"check", "sleep", "returned"}, notify : Nat,
                             result : R, seen : Nat]]
        BY <2>1 DEF WaitTypes
  <2>3. v \in R
        BY <1>4, <2>1
  <2>4. wait' \in [Waiters -> [at : {"check", "sleep", "returned"}, notify : Nat,
                              result : R, seen : Nat]]
    <3>1. PICK r : r = [wait[w] EXCEPT !.at = "returned", !.result = v, !.seen = Len(log)]
          OBVIOUS
    <3>2. r \in [at : {"check", "sleep", "returned"}, notify : Nat, result : R, seen : Nat]
          BY <1>2, <2>2, <2>3, <3>1
    <3>3. wait' = [wait EXCEPT ![w] = r]
          BY <1>6, <3>1
    <3> QED
        BY <2>2, <3>2, <3>3
  <2> QED
      BY <2>1, <2>4 DEF WaitTypes
<1>8. OverInv'
  <2> SUFFICES ASSUME NEW x \in Waiters, wait'[x].at = "returned"
               PROVE  wait'[x].seen \in 0..Len(log)
                      /\ wait'[x].result = VerdictOf(wait'[x].seen)
    <3>1. ASSUME NEW x \in Waiters
          PROVE  VerdictOf(wait[x].seen)' = VerdictOf(wait'[x].seen)
      <4>1. log' = log
            BY <1>2
      <4> QED
          BY <4>1 DEF VerdictOf, Wrong
    <3> QED
        BY <1>2, <3>1 DEF OverInv
  <2>1. CASE x = w
    <3>1. wait'[x].seen = Len(log) /\ wait'[x].result = v
          BY <1>6, <2>1 DEF WaitTypes
    <3> QED
        BY <1>2, <1>5, <3>1
  <2>2. CASE x # w
    <3>1. wait'[x] = wait[x]
          BY <1>6, <2>2 DEF WaitTypes
    <3> QED
        BY <3>1 DEF WaitInv, OverInv
  <2> QED
      BY <2>1, <2>2
<1>9. NoneSleepsOn'
  <2> SUFFICES ASSUME NEW x \in Waiters, wait'[x].at = "sleep"
               PROVE  /\ wait'[x].notify <= commandNotify
                      /\ Verdict # Undecided => wait'[x].notify < commandNotify
      BY <1>1, <1>2 DEF NoneSleepsOn
  <2>1. x # w
        BY <1>6 DEF WaitTypes
  <2>2. wait'[x] = wait[x]
        BY <1>6, <2>1 DEF WaitTypes
  <2> QED
      BY <2>2 DEF WaitInv, NoneSleepsOn
<1> QED
    BY <1>1, <1>7, <1>8, <1>9 DEF WaitInv

\* A waiter goes to sleep on the current channel with nothing decided, or looks
\* again; neither ends its wait.
LEMMA SleepWaits ==
    ASSUME CommandInv, NEW w \in Waiters, UNCHANGED commandVars,
           \/ /\ Verdict = Undecided
              /\ wait' = [wait EXCEPT ![w].at = "sleep", ![w].notify = commandNotify]
           \/ wait' = [wait EXCEPT ![w].at = "check"]
    PROVE  CommandInv'
<1> USE DEF CommandInv
<1>1. /\ MatchTypes' /\ MatchInv' /\ Verdict' = Verdict
      /\ \A n : VerdictOf(n)' = VerdictOf(n)
      BY MatchFramed DEF commandVars
<1>2. commandNotify \in Nat /\ log' = log /\ commandNotify' = commandNotify
      BY DEF MatchTypes, commandVars
<1>3. PICK v : v = Verdict
      OBVIOUS
<1>4. WaitTypes'
      BY <1>2 DEF WaitTypes
<1>5. \A x \in Waiters \ {w} : wait'[x] = wait[x]
      BY DEF WaitTypes
<1>6. /\ wait'[w].at \in {"sleep", "check"}
      /\ wait'[w].at = "sleep" => v = Undecided /\ wait'[w].notify = commandNotify
      BY <1>3 DEF WaitTypes
<1>7. OverInv'
  <2> SUFFICES ASSUME NEW x \in Waiters, wait'[x].at = "returned"
               PROVE  wait'[x].seen \in 0..Len(log)
                      /\ wait'[x].result = VerdictOf(wait'[x].seen)
    <3>1. ASSUME NEW x \in Waiters
          PROVE  VerdictOf(wait[x].seen)' = VerdictOf(wait'[x].seen)
      <4>1. log' = log
            BY <1>2
      <4> QED
          BY <4>1 DEF VerdictOf, Wrong
    <3> QED
        BY <1>2, <3>1 DEF OverInv
  <2>1. wait'[x] = wait[x]
        BY <1>5, <1>6
  <2> QED
      BY <2>1 DEF WaitInv, OverInv
<1>8. NoneSleepsOn'
  <2> SUFFICES ASSUME NEW x \in Waiters, wait'[x].at = "sleep"
               PROVE  /\ wait'[x].notify <= commandNotify
                      /\ v # Undecided => wait'[x].notify < commandNotify
      BY <1>1, <1>2, <1>3 DEF NoneSleepsOn
  <2>1. CASE x = w
        BY <1>2, <1>6, <2>1
  <2>2. CASE x # w
        BY <1>3, <1>5, <2>2 DEF WaitInv, NoneSleepsOn
  <2> QED
      BY <2>1, <2>2
<1> QED
    BY <1>1, <1>4, <1>7, <1>8 DEF WaitInv

\* The rest of the device leaves commands and waiters as they are.
LEMMA ElsewhereWaits ==
    ASSUME CommandInv, Elsewhere
    PROVE  CommandInv'
<1> USE DEF CommandInv, Elsewhere
<1>1. /\ MatchTypes' /\ MatchInv' /\ Verdict' = Verdict
      /\ \A n : VerdictOf(n)' = VerdictOf(n)
      BY MatchFramed
<1>2. WaitTypes'
      BY DEF WaitTypes
<1>3. OverInv'
  <2>1. ASSUME NEW x \in Waiters
        PROVE  VerdictOf(wait[x].seen)' = VerdictOf(wait[x].seen)
        BY DEF VerdictOf, Wrong
  <2> QED
      BY <2>1 DEF WaitInv, OverInv
<1>4. NoneSleepsOn'
      BY <1>1 DEF WaitInv, NoneSleepsOn
<1> QED
    BY <1>1, <1>2, <1>3, <1>4 DEF WaitInv

\* Nothing is received and everyone is about to look.
LEMMA CommandInitially == InitBlink => CommandInv
<1> SUFFICES ASSUME InitBlink PROVE CommandInv
    OBVIOUS
<1> USE DEF InitBlink, InitCommands
<1>1. MatchTypes
      BY ExpectationsAssumption DEF MatchTypes
<1>2. WaitTypes
      BY DEF WaitTypes
<1>3. WaitInv
      BY DEF WaitInv, OverInv, NoneSleepsOn
<1>4. MatchInv
  <2>1. CASE Expectations = <<>>
        BY <2>1 DEF MatchInv
  <2>2. CASE Expectations # <<>>
    <3>1. Last \in Nat /\ Last >= 1
          BY <2>2, ExpectationFacts DEF Last
    <3>2. Upto[0] = 0 /\ 1 \in 1..Last
          BY <3>1, UptoFacts
    <3>3. Count(1) \in Nat /\ Count(1) > 0
          BY <3>2, ExpectationFacts
    <3>4. Len(log) = 0
          OBVIOUS
    <3>5. match.index = 1 /\ match.matched = 0 /\ match.err = "none"
          OBVIOUS
    <3>6. Len(log) = Upto[match.index - 1] + match.matched
          BY <3>2, <3>4, <3>5
    <3>7. match.index \in 1..(Last + 1) /\ ~(match.index > Last)
          BY <3>1, <3>5
    <3>8. match.matched < Count(match.index)
          BY <3>3, <3>5
    <3>9. \A i \in 1..Len(log) : ~Wrong(i)
          BY <3>4
    <3> QED
        BY <2>2, <3>5, <3>6, <3>7, <3>8, <3>9 DEF MatchInv
  <2> QED
      BY <2>1, <2>2
<1> QED
    BY <1>1, <1>2, <1>3, <1>4 DEF CommandInv

\* Every step keeps the commands, the matching state and the waiters in step.
LEMMA CommandInductive == CommandInv /\ [NextBlink]_blinkVars => CommandInv'
<1> SUFFICES ASSUME CommandInv, [NextBlink]_blinkVars PROVE CommandInv'
    OBVIOUS
<1>1. ASSUME NEW w \in Waiters, WaitCheck(w) PROVE CommandInv'
      BY <1>1, ReturnWaits, SleepWaits DEF WaitCheck
<1>2. ASSUME NEW w \in Waiters, WaitWake(w) PROVE CommandInv'
      BY <1>2, SleepWaits DEF WaitWake
<1>3. ASSUME NEW w \in Waiters, WaitGiveUp(w) PROVE CommandInv'
      BY <1>3, ReturnWaits DEF WaitGiveUp
<1> QED
    BY <1>1, <1>2, <1>3, CommandSteps, RecordWaits, ElsewhereWaits

\* WaitForCommandExpectations returns what the commands received until then
\* amount to by the scenario's own list, for every scenario, every number of
\* waiters and every capacity of the commands channel.
THEOREM WaitSafety == BlinkSpec => []WaitVerdict
<1>1. CommandInv => WaitVerdict
      BY DEF CommandInv, WaitInv, OverInv, WaitVerdict
<1> QED
    BY <1>1, CommandInitially, CommandInductive, PTL DEF BlinkSpec

\* No wakeup of a waiter is lost: once the commands received decide, none
\* sleeps on a channel that record has not closed.  The safety half of
\* WaitersWoken; what is left to fairness is that a waiter whose channel is
\* closed runs.
THEOREM WakeSafety == BlinkSpec => []NoneSleepsOn
<1>1. CommandInv => NoneSleepsOn
      BY DEF CommandInv, WaitInv
<1> QED
    BY <1>1, CommandInitially, CommandInductive, PTL DEF BlinkSpec

-----------------------------------------------------------------------------
(* The LED, its switch and its mirror.                                     *)

\* A command of the switch is still queued; command c of it is the last one queued.
Behind == \E i \in 1..Len(commands) : IsSwitch(commands[i])
LastQueued(c) ==
    \E i \in 1..Len(commands) :
        commands[i] = c /\ \A j \in 1..Len(commands) : j > i => ~IsSwitch(commands[j])

\* The firmware has begun a command or a relight that it has yet to publish.
Publishing == {"command", "mirror", "relit", "mirrorRelit"}

\* The types of what the firmware and the session keep.
LedTypes ==
    /\ dropped \in Nat
    /\ session \in {"none", "on", "off"}
    /\ switch \in BOOLEAN /\ sensor \in BOOLEAN /\ ledOn \in BOOLEAN
    /\ relight \in {"stopped", "armed", "due"}
    /\ firmware \in [at : Publishing \cup {"select", "returned"}, state : BOOLEAN]
    /\ commandsClosed => done

\* What the firmware publishes is the LED; a LED that is off has its timer; and
\* a device that is closed leaves all as it is.
LedInv ==
    /\ firmware.at \in Publishing => firmware.state = ledOn
    /\ firmware.at \in {"relit", "mirrorRelit"} => ledOn
    /\ firmware.at = "select" /\ ~ledOn => relight \in {"armed", "due"}
    /\ firmware.at = "select" /\ ~done => sensor = ledOn

\* The echo that the session has yet to store is that of the last command, which
\* is still queued, or which the firmware has taken last and not outlived.
EchoDue ==
    \/ LastQueued(session)
    \/ /\ ~Behind /\ (ledOn <=> session = "on")
       /\ \/ firmware.at \in {"command", "mirror"}
          \/ firmware.at = "select" /\ relight # "due"

\* When the session owes no echo and the firmware no push of the switch, the
\* switch shows the LED.
SwitchShows ==
    session = "none" /\ ~Behind /\ firmware.at \in {"select", "mirror", "mirrorRelit"} =>
        switch = ledOn

EchoInv == ~done /\ dropped = 0 => (session # "none" => EchoDue) /\ SwitchShows

\* Between two commands the mirror shows the LED, a LED that is off has its timer,
\* and with no command under way or lost the switch shows the LED as well.
LedAgrees ==
    firmware.at = "select" /\ ~done =>
        /\ sensor = ledOn
        /\ ~ledOn => relight \in {"armed", "due"}
        /\ session = "none" /\ ~Behind /\ dropped = 0 => switch = ledOn

\* A command that is queued is the last one, if it is of the switch.
LEMMA QueueAppend ==
    ASSUME commands \in Seq(Commands), NEW c \in Commands, commands' = Append(commands, c)
    PROVE  /\ IsSwitch(c) => LastQueued(c)'
           /\ Behind => Behind'
<1>1. /\ Len(commands') = Len(commands) + 1 /\ Len(commands) \in Nat
      /\ \A i \in 1..Len(commands) : commands'[i] = commands[i]
      /\ commands'[Len(commands) + 1] = c
      OBVIOUS
<1>2. IsSwitch(c) => LastQueued(c)'
  <2>1. Len(commands') \in 1..Len(commands') /\ commands'[Len(commands')] = c
        BY <1>1
  <2>2. \A j \in 1..Len(commands') : ~(j > Len(commands'))
        BY <1>1
  <2> QED
      BY <2>1, <2>2 DEF LastQueued
<1>3. Behind => Behind'
      BY <1>1 DEF Behind
<1> QED
    BY <1>2, <1>3

\* What is left of the queue when its first command is taken.
LEMMA QueueTail ==
    ASSUME commands \in Seq(Commands), commands # <<>>, commands' = Tail(commands)
    PROVE  /\ Behind => Behind' \/ IsSwitch(Head(commands))
           /\ Behind' => Behind
           /\ IsSwitch(Head(commands)) => Behind
           /\ \A c : LastQueued(c) => LastQueued(c)' \/ (c = Head(commands) /\ ~Behind')
<1>1. /\ Len(commands') = Len(commands) - 1 /\ Len(commands) \in Nat \ {0}
      /\ \A i \in 1..Len(commands') : commands'[i] = commands[i + 1]
      /\ Head(commands) = commands[1]
      OBVIOUS
<1>2. \A i \in 2..Len(commands) : i - 1 \in 1..Len(commands') /\ commands'[i - 1] = commands[i]
      BY <1>1
<1>3. \A i \in 1..Len(commands') : i + 1 \in 2..Len(commands) /\ i + 1 \in 1..Len(commands)
      BY <1>1
<1>4. Behind => Behind' \/ IsSwitch(Head(commands))
  <2> SUFFICES ASSUME Behind, ~IsSwitch(Head(commands)) PROVE Behind'
      OBVIOUS
  <2>1. PICK i \in 1..Len(commands) : IsSwitch(commands[i])
        BY DEF Behind
  <2>2. i \in 2..Len(commands)
        BY <1>1, <2>1
  <2> QED
      BY <1>2, <2>1, <2>2 DEF Behind
<1>5. Behind' => Behind
      BY <1>1, <1>3 DEF Behind
<1>6. IsSwitch(Head(commands)) => Behind
  <2>1. 1 \in 1..Len(commands)
        BY <1>1
  <2> QED
      BY <1>1, <2>1 DEF Behind
<1>7. ASSUME NEW c, LastQueued(c) PROVE LastQueued(c)' \/ (c = Head(commands) /\ ~Behind')
  <2>1. PICK i \in 1..Len(commands) :
           commands[i] = c /\ \A j \in 1..Len(commands) : j > i => ~IsSwitch(commands[j])
        BY <1>7 DEF LastQueued
  <2>2. CASE i = 1
    <3>1. ASSUME NEW j \in 1..Len(commands') PROVE ~IsSwitch(commands'[j])
          BY <1>1, <1>3, <2>1, <2>2
    <3> QED
        BY <1>1, <2>1, <2>2, <3>1 DEF Behind
  <2>3. CASE i # 1
    <3>1. i - 1 \in 1..Len(commands') /\ commands'[i - 1] = c
          BY <1>1, <1>2, <2>1, <2>3
    <3>2. ASSUME NEW j \in 1..Len(commands'), j > i - 1 PROVE ~IsSwitch(commands'[j])
          BY <1>1, <1>3, <2>1, <3>2
    <3>3. PICK k : k = i - 1
          OBVIOUS
    <3>4. /\ k \in 1..Len(commands') /\ commands'[k] = c
          /\ \A j \in 1..Len(commands') : j > k => ~IsSwitch(commands'[j])
          BY <3>1, <3>2, <3>3
    <3> QED
        BY <3>4 DEF LastQueued
  <2> QED
      BY <2>2, <2>3
<1> QED
    BY <1>4, <1>5, <1>6, <1>7

\* The last command of the switch that is queued is queued.
LEMMA QueuedBehind == ASSUME NEW c, IsSwitch(c), LastQueued(c) PROVE Behind
  BY DEF LastQueued, Behind

\* The steps that change what the firmware, the session or the device keep.
LEMMA LedSteps ==
    ASSUME [NextBlink]_blinkVars
    PROVE  \/ \E c \in Commands : Receive(c)
           \/ Echo \/ Close \/ CloseFinish
           \/ Take \/ PushSwitch \/ Mirror \/ Relight \/ RunReturn \/ RelightDelay
           \/ UNCHANGED <<commands, dropped, done, deviceVars, runVars>>
<1> USE DEF blinkVars, commandVars, deviceVars, runVars
<1>1. CASE UNCHANGED blinkVars
      BY <1>1
<1>2. ASSUME NEW w \in Waiters, WaitForCommandExpectations(w) \/ WaitGiveUp(w),
             UNCHANGED <<deviceVars, runVars>>
      PROVE  UNCHANGED <<commands, dropped, done, deviceVars, runVars>>
      BY <1>2 DEF WaitForCommandExpectations, WaitCheck, WaitWake, WaitGiveUp
<1>3. CASE Terminated
      BY <1>3 DEF Terminated
<1> QED
    BY <1>1, <1>2, <1>3 DEF NextBlink, Run

\* The types are kept.
LEMMA LedTypesKept ==
    ASSUME LedTypes, [NextBlink]_blinkVars
    PROVE  LedTypes'
<1> USE DEF LedTypes, deviceVars, runVars, commandVars, Publishing
<1>1. ASSUME NEW c \in Commands, Receive(c) PROVE LedTypes'
  <2>1. dropped' \in Nat
        BY <1>1 DEF Receive, Record
  <2>2. session' \in {"none", "on", "off"}
        BY <1>1 DEF Receive, IsSwitch
  <2> QED
      BY <1>1, <2>1, <2>2 DEF Receive
<1>2. CASE Echo
  <2>1. switch' \in BOOLEAN
        BY <1>2 DEF Echo
  <2> QED
      BY <1>2, <2>1 DEF Echo
<1>3. CASE Close
      BY <1>3 DEF Close
<1>4. CASE CloseFinish
      BY <1>4 DEF CloseFinish
<1>5. CASE Take
  <2>1. ledOn' \in BOOLEAN
        BY <1>5 DEF Take
  <2>2. firmware' \in [at : Publishing \cup {"select", "returned"}, state : BOOLEAN]
        BY <1>5, <2>1 DEF Take
  <2> QED
      BY <1>5, <2>1, <2>2 DEF Take
<1>6. CASE PushSwitch
  <2>1. switch' \in BOOLEAN
        BY <1>6 DEF PushSwitch, Push
  <2> QED
      BY <1>6, <2>1 DEF PushSwitch
<1>7. CASE Mirror
  <2>1. sensor' \in BOOLEAN
        BY <1>7 DEF Mirror, Push
  <2>2. relight' \in {"stopped", "armed", "due"}
        BY <1>7 DEF Mirror
  <2> QED
      BY <1>7, <2>1, <2>2 DEF Mirror, Select
<1>8. CASE Relight
  <2>1. CASE ledOn
        BY <1>8, <2>1 DEF Relight
  <2>2. CASE ~ledOn
    <3>1. /\ firmware' = [at |-> "relit", state |-> TRUE] /\ ledOn' = TRUE
          /\ relight' = "stopped"
          /\ UNCHANGED <<dropped, done, session, commandsClosed, switch, sensor>>
          BY <1>8, <2>2 DEF Relight
    <3>2. firmware' \in [at : Publishing \cup {"select", "returned"}, state : BOOLEAN]
          BY <3>1
    <3> QED
        BY <3>1, <3>2
  <2> QED
      BY <2>1, <2>2
<1>9. CASE RunReturn
      BY <1>9 DEF RunReturn, Select
<1>10. CASE RelightDelay
       BY <1>10 DEF RelightDelay
<1>11. CASE UNCHANGED <<commands, dropped, done, deviceVars, runVars>>
       BY <1>11
<1> QED
    BY <1>1, <1>2, <1>3, <1>4, <1>5, <1>6, <1>7, <1>8, <1>9, <1>10, <1>11, LedSteps

\* What is published is the LED, and a LED that is off has its timer.
LEMMA LedInvKept ==
    ASSUME LedTypes, LedTypes', LedInv, [NextBlink]_blinkVars
    PROVE  LedInv'
<1> USE DEF LedTypes, LedInv, deviceVars, runVars, commandVars, Publishing
<1>1. ASSUME NEW c \in Commands, Receive(c) PROVE LedInv'
      BY <1>1 DEF Receive
<1>2. CASE Echo
      BY <1>2 DEF Echo
<1>3. CASE Close
      BY <1>3 DEF Close
<1>4. CASE CloseFinish
      BY <1>4 DEF CloseFinish
<1>5. CASE Take
  <2>1. CASE IsSwitch(Head(commands))
    <3>1. firmware'.at = "command" /\ firmware'.state = ledOn'
          BY <1>5, <2>1 DEF Take
    <3> QED
        BY <3>1
  <2>2. CASE ~IsSwitch(Head(commands))
        BY <1>5, <2>2 DEF Take
  <2> QED
      BY <2>1, <2>2
<1>6. CASE PushSwitch
  <2>1. /\ firmware.at = "command" => firmware'.at = "mirror"
        /\ firmware.at = "relit" => firmware'.at = "mirrorRelit"
        /\ firmware'.state = firmware.state
        BY <1>6 DEF PushSwitch
  <2> QED
      BY <1>6, <2>1 DEF PushSwitch
<1>7. CASE Mirror
  <2>1. firmware'.at = "select" /\ ledOn' = ledOn /\ done' = done
        BY <1>7 DEF Mirror, Select
  <2>2. ~done => sensor' = ledOn
        BY <1>7 DEF Mirror, Push
  <2>3. ~ledOn => relight' = "armed"
        BY <1>7 DEF Mirror
  <2> QED
      BY <2>1, <2>2, <2>3
<1>8. CASE Relight
  <2>1. CASE ledOn
        BY <1>8, <2>1 DEF Relight
  <2>2. CASE ~ledOn
    <3>1. firmware'.at = "relit" /\ firmware'.state = TRUE /\ ledOn' = TRUE
          BY <1>8, <2>2 DEF Relight
    <3> QED
        BY <3>1
  <2> QED
      BY <2>1, <2>2
<1>9. CASE RunReturn
      BY <1>9 DEF RunReturn, Select
<1>10. CASE RelightDelay
       BY <1>10 DEF RelightDelay
<1>11. CASE UNCHANGED <<commands, dropped, done, deviceVars, runVars>>
       BY <1>11
<1> QED
    BY <1>1, <1>2, <1>3, <1>4, <1>5, <1>6, <1>7, <1>8, <1>9, <1>10, <1>11, LedSteps

\* Each step leaves the echo that is due one of the last command, and an echo
\* that is stored is not undone.
LEMMA EchoInvKept ==
    ASSUME commands \in Seq(Commands), LedTypes, LedTypes', LedInv, EchoInv,
           [NextBlink]_blinkVars
    PROVE  EchoInv'
<1> USE DEF deviceVars, runVars, commandVars, SwitchShows
<1> SUFFICES ASSUME ~done', dropped' = 0
             PROVE  (session' # "none" => EchoDue') /\ SwitchShows'
    BY DEF EchoInv
<1>0. ASSUME ~done, dropped = 0
      PROVE  (session # "none" => EchoDue) /\ SwitchShows
      BY <1>0 DEF EchoInv
<1>a. UNCHANGED commands => (Behind' <=> Behind) /\ \A c : LastQueued(c)' <=> LastQueued(c)
      BY DEF Behind, LastQueued
<1>1. ASSUME NEW c \in Commands, Receive(c)
      PROVE  (session' # "none" => EchoDue') /\ SwitchShows'
  <2>1. dropped = 0 /\ commands' = Append(commands, c) /\ ~done
        BY <1>1 DEF Receive, Record, LedTypes
  <2>2. CASE IsSwitch(c)
    <3>1. session' = c /\ c # "none"
          BY <1>1, <2>2 DEF Receive, IsSwitch
    <3>2. LastQueued(c)'
          BY <2>1, <2>2, QueueAppend
    <3>3. EchoDue'
          BY <3>1, <3>2 DEF EchoDue, LastQueued
    <3> QED
        BY <3>1, <3>3
  <2>3. CASE ~IsSwitch(c)
    <3>1. /\ session' = "none" /\ session = "none"
          /\ UNCHANGED <<firmware, switch, ledOn>>
          BY <1>1, <2>3 DEF Receive
    <3>2. Behind => Behind'
          BY <2>1, QueueAppend
    <3> QED
        BY <1>0, <2>1, <3>1, <3>2
  <2> QED
      BY <2>2, <2>3
<1>2. CASE Echo
  <2>1. session # "none" /\ session' = "none" /\ UNCHANGED <<commands, done, dropped, ledOn, firmware>>
        BY <1>2 DEF Echo
  <2>2. IsSwitch(session)
        BY <2>1 DEF LedTypes, IsSwitch
  <2>3. ASSUME ~Behind PROVE switch' = ledOn'
    <3>1. ~LastQueued(session)
          BY <2>2, <2>3, QueuedBehind
    <3>2. ledOn <=> session = "on"
          BY <1>0, <2>1, <3>1 DEF EchoDue
    <3> QED
        BY <1>2, <2>1, <3>2 DEF Echo, LedTypes
  <2> QED
      BY <1>a, <2>1, <2>3
<1>3. CASE Close
      BY <1>3 DEF Close
<1>4. CASE CloseFinish
      BY <1>4 DEF CloseFinish
<1>5. CASE Take
  <2>1. /\ commands # <<>> /\ commands' = Tail(commands) /\ firmware.at = "select"
        /\ UNCHANGED <<done, dropped, session, switch, relight>>
        BY <1>5 DEF Take
  <2>2. CASE IsSwitch(Head(commands))
    <3>0. firmware'.at = "command"
          BY <1>5, <2>2 DEF Take
    <3>a. ledOn' = (Head(commands) = "on")
          BY <1>5, <2>2 DEF Take
    <3>1. /\ firmware'.at = "command"
          /\ ledOn' <=> Head(commands) = "on"
          BY <3>0, <3>a
    <3>2. ASSUME session # "none" PROVE EchoDue'
      <4>1. Behind
            BY <2>1, <2>2, QueueTail
      <4>2. LastQueued(session)
            BY <1>0, <2>1, <3>2, <4>1 DEF EchoDue
      <4>3. LastQueued(session)' \/ (session = Head(commands) /\ ~Behind')
        <5>1. PICK c : c = session
              OBVIOUS
        <5>2. LastQueued(c)
              BY <4>2, <5>1 DEF LastQueued
        <5>3. LastQueued(c)' \/ (c = Head(commands) /\ ~Behind')
              BY <2>1, <5>2, QueueTail
        <5> QED
            BY <2>1, <5>1, <5>3 DEF LastQueued
      <4> QED
          BY <2>1, <3>1, <4>3 DEF EchoDue
    <3> QED
        BY <2>1, <3>1, <3>2
  <2>3. CASE ~IsSwitch(Head(commands))
    <3>1. UNCHANGED <<firmware, ledOn>>
          BY <1>5, <2>3 DEF Take
    <3>2. (Behind => Behind') /\ (Behind' => Behind)
          BY <2>1, <2>3, QueueTail
    <3>3. ASSUME session # "none" PROVE EchoDue'
      <4>1. CASE LastQueued(session)
        <5>1. PICK c : c = session
              OBVIOUS
        <5>2. LastQueued(c)
              BY <4>1, <5>1 DEF LastQueued
        <5>3. IsSwitch(c)
              BY <3>3, <5>1 DEF IsSwitch, LedTypes
        <5>4. LastQueued(c)'
              BY <2>1, <2>3, <5>2, <5>3, QueueTail
        <5> QED
            BY <2>1, <5>1, <5>4 DEF LastQueued, EchoDue
      <4>2. CASE ~LastQueued(session)
            BY <1>0, <2>1, <3>1, <3>2, <3>3, <4>2 DEF EchoDue
      <4> QED
          BY <4>1, <4>2
    <3> QED
        BY <1>0, <2>1, <3>1, <3>2, <3>3
  <2> QED
      BY <2>2, <2>3
<1> DEFINE Queued == LastQueued(session)
<1>b. UNCHANGED <<commands, session>> => (Queued' <=> Queued)
      BY DEF LastQueued
<1>6. CASE PushSwitch
  <2>1. /\ UNCHANGED <<commands, done, dropped, session, ledOn, relight>>
        /\ firmware.at \in {"command", "relit"}
        /\ firmware.at = "command" => firmware'.at = "mirror"
        /\ firmware.at = "relit" => firmware'.at = "mirrorRelit"
        BY <1>6 DEF PushSwitch, LedTypes
  <2>2. switch' = ledOn
        BY <1>6, <2>1 DEF PushSwitch, Push, LedInv, Publishing
  <2> QED
      BY <1>0, <1>a, <1>b, <2>1, <2>2 DEF EchoDue
<1>7. CASE Mirror
  <2>1. /\ UNCHANGED <<commands, done, dropped, session, ledOn, switch>>
        /\ firmware.at \in {"mirror", "mirrorRelit"} /\ firmware'.at = "select"
        /\ firmware.at = "mirror" => relight' # "due"
        BY <1>7 DEF Mirror, Select
  <2> QED
      BY <1>0, <1>a, <1>b, <2>1 DEF EchoDue
<1>8. CASE Relight
  <2>1. /\ UNCHANGED <<commands, done, dropped, session, switch>>
        /\ firmware.at = "select" /\ relight = "due"
        /\ relight' = "stopped"
        BY <1>8 DEF Relight
  <2>2. \/ UNCHANGED <<firmware, ledOn>>
        \/ firmware'.at = "relit"
        BY <1>8 DEF Relight
  <2> QED
      BY <1>0, <1>a, <1>b, <2>1, <2>2 DEF EchoDue
<1>9. CASE RunReturn
      BY <1>9 DEF RunReturn, LedTypes
<1>10. CASE RelightDelay
  <2>1. session = "none" /\ UNCHANGED <<commands, done, dropped, session, switch, ledOn, firmware>>
        BY <1>10 DEF RelightDelay
  <2> QED
      BY <1>0, <1>a, <2>1
<1>11. CASE UNCHANGED <<commands, dropped, done, deviceVars, runVars>>
       BY <1>0, <1>a, <1>b, <1>11 DEF EchoDue
<1> QED
    BY <1>1, <1>2, <1>3, <1>4, <1>5, <1>6, <1>7, <1>8, <1>9, <1>10, <1>11, LedSteps

\* At the start the LED is on and so are switch and mirror.
LEMMA LedInitially == InitBlink => LedTypes /\ LedInv /\ EchoInv
<1> SUFFICES ASSUME InitBlink PROVE LedTypes /\ LedInv /\ EchoInv
    OBVIOUS
<1> USE DEF InitBlink, InitCommands, Select
<1>1. LedTypes
      BY DEF LedTypes, Publishing
<1>2. LedInv
      BY DEF LedInv, Publishing
<1>3. EchoInv
      BY DEF EchoInv, SwitchShows
<1> QED
    BY <1>1, <1>2, <1>3

\* Switch, mirror and LED agree whenever nothing is under way, although the
\* session's echo and the firmware's pushes race for the switch: for every queue
\* size and every sequence of commands, unless one was dropped.  And a LED that
\* is off has its timer running.  The safety half of RelitAgain; what is left to
\* fairness is that the timer fires and the firmware runs.
THEOREM LedSafety == BlinkSpec => []LedAgrees
<1> DEFINE Inv == CommandInv /\ LedTypes /\ LedInv /\ EchoInv
<1>1. InitBlink => Inv
      BY CommandInitially, LedInitially
<1>2. Inv /\ [NextBlink]_blinkVars => Inv'
  <2> SUFFICES ASSUME Inv, [NextBlink]_blinkVars PROVE Inv'
      OBVIOUS
  <2>1. commands \in Seq(Commands)
        BY DEF CommandInv, MatchTypes
  <2>2. CommandInv' /\ LedTypes'
        BY CommandInductive, LedTypesKept
  <2>3. LedInv'
        BY <2>2, LedInvKept
  <2>4. EchoInv'
        BY <2>1, <2>2, EchoInvKept
  <2> QED
      BY <2>2, <2>3, <2>4
<1>3. Inv => LedAgrees
      BY DEF LedInv, EchoInv, SwitchShows, LedAgrees
<1> QED
    BY <1>1, <1>2, <1>3, PTL DEF BlinkSpec
=============================================================================
