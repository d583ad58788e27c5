-------------------------- MODULE ConveyorFirmware --------------------------
(***************************************************************************)
(* The on-device automations of the conveyor demo, with the simulated      *)
(* operator (cmd/conveyor-sim-server/conveyor_device.go), against a        *)
(* controller that owns the motor.  One goroutine consumes fan commands    *)
(* and timer ticks; it is quick compared with its timers, so time passes   *)
(* only when no timer is due, and what is due at once comes in any order.  *)
(*                                                                         *)
(* A tick of an old generation is dropped without an effect.  A timer is   *)
(* therefore kept only while its generation is current: to bump the        *)
(* generation of a script is to forget its timers.                         *)
(***************************************************************************)
EXTENDS Naturals, Sequences, FiniteSets

CONSTANTS
    Timings,    \* conveyorTimings
    Travels,    \* times from the entry to the exit sensor
    Dwells,     \* times a measured brick is left at the exit
    Cycles,     \* bricks the operator places
    Bricks,     \* brickRotation: the red ratio of each brick
    NoReading,  \* ExitRedRatioNoReading
    Policies,   \* controllers: "follows" the run request, or is "free"
    MaxLag      \* time within which a controller that follows reacts

captureSamples == 5
minUsableSamples == 3

\* Steps of the bench sequence and of a brick's travel.
benchPlace == 0
benchLift == 1
benchReleased == 2
travelClearEntry == 0
travelArrive == 1

ASSUME TimingsAssumption ==
    /\ DOMAIN Timings =
          {"entryDebounce", "exitReleaseDebounce", "captureSettle",
           "captureInterval", "exitHold", "jamWithdraw", "jamBackstop",
           "entryClear", "betweenBricks"}
    /\ \A f \in DOMAIN Timings : Timings[f] \in Nat \ {0}
    /\ Travels \subseteq Nat /\ Dwells \subseteq Nat /\ MaxLag \in Nat
    /\ Cycles \in Nat \ {0}
    /\ Bricks # <<>> /\ NoReading \notin {Bricks[i] : i \in DOMAIN Bricks}

Scripts == {"requestRun", "travel", "capture", "exitHold", "jam", "bench"}

VARIABLES
    timers,          \* pending ticks: [script, step, left]
    entryOccupied, exitOccupied, motorOn, onBelt, atExit,  \* the world
    enRoute,         \* the published run request
    redRatio,        \* the published reading
    captureSampled,  \* samples of the capture under way
    completed,       \* bricks lifted off
    running,         \* run has not returned
    travel, dwell,   \* the flags the firmware was started with
    policy,          \* the controller
    lag,             \* time the motor has differed from the run request
    hold             \* history: time since the last arrival, up to exitHold

world == <<entryOccupied, exitOccupied, motorOn, onBelt, atExit>>
published == <<enRoute, redRatio>>
bench == <<captureSampled, completed>>
setup == <<travel, dwell, policy>>
vars == <<timers, world, published, bench, running, setup, lag, hold>>

Timer(s, step, delay) == [script |-> s, step |-> step, left |-> delay]

\* restart and stop, on a set of pending ticks.
Stopped(ts, scripts) == {t \in ts : t.script \notin scripts}
Restarted(ts, s, step, delay) == Stopped(ts, {s}) \cup {Timer(s, step, delay)}

\* The boot values are published and the operator reaches for a brick.
Init ==
    /\ timers = {Timer("bench", benchPlace, Timings.betweenBricks)}
    /\ entryOccupied = FALSE /\ exitOccupied = FALSE /\ motorOn = FALSE
    /\ onBelt = NoReading /\ atExit = NoReading
    /\ enRoute = FALSE /\ redRatio = NoReading
    /\ captureSampled = 0 /\ completed = 0
    /\ running = TRUE
    /\ travel \in Travels /\ dwell \in Dwells /\ policy \in Policies
    /\ lag = 0
    /\ hold = Timings.exitHold

-----------------------------------------------------------------------------
(* The operator.                                                           *)

BenchPlace(rest) ==
    /\ onBelt' = Bricks[(completed % Len(Bricks)) + 1]
    /\ entryOccupied' = TRUE
    /\ timers' = Restarted(rest, "requestRun", 0, Timings.entryDebounce)
    /\ UNCHANGED <<exitOccupied, motorOn, atExit, published, bench, hold>>

BenchLift(rest) ==
    /\ exitOccupied' = FALSE
    /\ timers' = Restarted(Stopped(rest, {"capture"}), "bench", benchReleased,
                           Timings.exitReleaseDebounce)
    /\ UNCHANGED <<entryOccupied, motorOn, onBelt, atExit, published, bench, hold>>

\* Mutant: the reading of a brick stays published when it is lifted off.
BenchReleasedSilently(rest) ==
    /\ completed' = completed + 1
    /\ timers' = IF completed' < Cycles
                 THEN rest \cup {Timer("bench", benchPlace, Timings.betweenBricks)}
                 ELSE rest
    /\ UNCHANGED <<world, published, captureSampled, hold>>

BenchReleased(rest) ==
    /\ redRatio' = NoReading
    /\ completed' = completed + 1
    /\ timers' = IF completed' < Cycles
                 THEN rest \cup {Timer("bench", benchPlace, Timings.betweenBricks)}
                 ELSE rest
    /\ UNCHANGED <<world, enRoute, captureSampled, hold>>

OnBench(step, rest) ==
    \/ step = benchPlace /\ BenchPlace(rest)
    \/ step = benchLift /\ BenchLift(rest)
    \/ step = benchReleased /\ BenchReleased(rest)

-----------------------------------------------------------------------------
(* The firmware's scripts.                                                 *)

\* The brick may have been picked up again: the entry is looked at once more.
OnRequestRun(rest) ==
    /\ enRoute' = (entryOccupied \/ enRoute)
    /\ timers' = rest
    /\ UNCHANGED <<world, redRatio, bench, hold>>

OnExitHold(rest) ==
    /\ timers' = IF entryOccupied /\ ~enRoute
                 THEN Restarted(rest, "requestRun", 0, 0)
                 ELSE rest
    /\ UNCHANGED <<world, published, bench, hold>>

ClearEntry(rest) ==
    /\ entryOccupied' = FALSE
    /\ timers' = rest \cup {Timer("travel", travelArrive, travel)}
    /\ UNCHANGED <<exitOccupied, motorOn, onBelt, atExit, published, bench, hold>>

OnArrival(rest) ==
    /\ exitOccupied' = TRUE
    /\ atExit' = onBelt
    /\ enRoute' = FALSE
    /\ captureSampled' = 0
    /\ hold' = 0
    /\ timers' = Restarted(Restarted(Stopped(rest, {"jam"}),
                    "capture", 0, Timings.captureSettle),
                    "exitHold", 0, Timings.exitHold)
    /\ UNCHANGED <<entryOccupied, motorOn, onBelt, redRatio, completed>>

OnTravel(step, rest) ==
    \/ step = travelClearEntry /\ ClearEntry(rest)
    \/ step = travelArrive /\ OnArrival(rest)

Sample(step, rest) ==
    /\ captureSampled' = IF exitOccupied THEN captureSampled + 1 ELSE captureSampled
    /\ timers' = rest \cup {Timer("capture", step + 1, Timings.captureInterval)}
    /\ UNCHANGED <<world, published, completed, hold>>

Reject(rest) ==
    /\ redRatio' = NoReading
    /\ timers' = rest
    /\ UNCHANGED <<world, enRoute, bench, hold>>

Measured(rest) ==
    /\ redRatio' = atExit
    /\ timers' = rest \cup {Timer("bench", benchLift, dwell)}
    /\ UNCHANGED <<world, enRoute, bench, hold>>

OnCapture(step, rest) ==
    IF step < captureSamples THEN Sample(step, rest)
    ELSE IF captureSampled < minUsableSamples THEN Reject(rest)
    ELSE Measured(rest)

\* A run that never arrived is withdrawn; then the firmware stops the belt
\* itself if the controller did not.
OnJam(step, rest) ==
    \/ /\ step = 0
       /\ enRoute' = FALSE
       /\ timers' = rest \cup {Timer("jam", 1, Timings.jamBackstop)}
       /\ UNCHANGED <<world, redRatio, bench, hold>>
    \/ /\ step = 1
       /\ motorOn' = FALSE
       /\ timers' = rest
       /\ UNCHANGED <<entryOccupied, exitOccupied, onBelt, atExit, published,
                      bench, hold>>

\* One tick.
OnTick ==
    /\ running
    /\ \E t \in timers :
          /\ t.left = 0
          /\ LET rest == timers \ {t} IN
                \/ t.script = "bench" /\ OnBench(t.step, rest)
                \/ t.script = "requestRun" /\ OnRequestRun(rest)
                \/ t.script = "travel" /\ OnTravel(t.step, rest)
                \/ t.script = "capture" /\ OnCapture(t.step, rest)
                \/ t.script = "exitHold" /\ OnExitHold(rest)
                \/ t.script = "jam" /\ OnJam(t.step, rest)
    /\ UNCHANGED <<running, setup, lag>>

\* Mutant: switching the motor off stops the jam clock only.
FanEffectCoasting(state) ==
    /\ motorOn' = state
    /\ timers' = IF ~state THEN Stopped(timers, {"jam"})
                 ELSE IF entryOccupied
                      THEN Restarted(Restarted(timers, "jam", 0, Timings.jamWithdraw),
                              "travel", travelClearEntry, Timings.entryClear)
                      ELSE Restarted(timers, "jam", 0, Timings.jamWithdraw)

\* Mutant: switching the motor on restarts the travel of any brick.
FanEffectAnyBrick(state) ==
    /\ motorOn' = state
    /\ timers' = IF ~state THEN Stopped(timers, {"jam", "travel"})
                 ELSE Restarted(Restarted(timers, "jam", 0, Timings.jamWithdraw),
                         "travel", travelClearEntry, Timings.entryClear)

\* Mutant: switching the motor off stops the capture as well.
FanEffectUnmeasured(state) ==
    /\ motorOn' = state
    /\ timers' = IF ~state THEN Stopped(timers, {"jam", "travel", "capture"})
                 ELSE IF entryOccupied
                      THEN Restarted(Restarted(timers, "jam", 0, Timings.jamWithdraw),
                              "travel", travelClearEntry, Timings.entryClear)
                      ELSE Restarted(timers, "jam", 0, Timings.jamWithdraw)

\* onFanCommand, when the command changes the motor.
FanEffect(state) ==
    /\ motorOn' = state
    /\ timers' = IF ~state THEN Stopped(timers, {"jam", "travel"})
                 ELSE IF entryOccupied
                      THEN Restarted(Restarted(timers, "jam", 0, Timings.jamWithdraw),
                              "travel", travelClearEntry, Timings.entryClear)
                      ELSE Restarted(timers, "jam", 0, Timings.jamWithdraw)

OnFanCommand(state) ==
    /\ running
    /\ policy = "follows" => state = enRoute
    /\ state # motorOn
    /\ FanEffect(state)
    /\ lag' = 0
    /\ UNCHANGED <<entryOccupied, exitOccupied, onBelt, atExit, published,
                   bench, running, setup, hold>>

\* The commands channel is closed.
Return ==
    /\ running
    /\ running' = FALSE
    /\ timers' = {}
    /\ UNCHANGED <<world, published, bench, setup, lag, hold>>

\* Time passes while nothing is due and, with a controller that follows, no
\* longer than it may take to react.
Elapse ==
    /\ running
    /\ timers # {}
    /\ \A t \in timers : t.left > 0
    /\ policy = "follows" /\ enRoute # motorOn => lag < MaxLag
    /\ timers' = {[t EXCEPT !.left = @ - 1] : t \in timers}
    /\ lag' = IF policy = "follows" /\ enRoute # motorOn THEN lag + 1 ELSE 0
    /\ hold' = IF hold < Timings.exitHold THEN hold + 1 ELSE hold
    /\ UNCHANGED <<world, published, bench, running, setup>>

\* Nothing is scheduled: the firmware waits for commands.
Quiet == (~running \/ timers = {}) /\ UNCHANGED vars

Next ==
    \/ OnTick
    \/ \E state \in BOOLEAN : OnFanCommand(state)
    \/ Return
    \/ Elapse
    \/ Quiet

Spec == Init /\ [][Next]_vars

\* The firmware handles what is due, a controller that follows reacts in
\* time, and time goes on.
Fairness == WF_vars(OnTick) /\ WF_vars(Elapse) /\
            WF_vars(policy = "follows" /\ \E state \in BOOLEAN : OnFanCommand(state))

FairSpec == Spec /\ Fairness

-----------------------------------------------------------------------------
(* Properties.                                                             *)

Live(script) == \E t \in timers : t.script = script

\* A brick moves only while the belt runs, whoever stopped it, unless the
\* belt is so slow that the firmware's backstop comes no later than the brick.
TravelNeedsMotor ==
    Live("travel") =>
        motorOn \/ Timings.entryClear + travel >= Timings.jamWithdraw + Timings.jamBackstop

\* A published reading is that of the brick at the exit, and stays no longer
\* than its release takes: a late capture never speaks for the next brick.
ReadingIsOfBrick ==
    redRatio # NoReading =>
        /\ redRatio = atExit
        /\ exitOccupied \/ ~running
           \/ \E t \in timers : t.script = "bench" /\ t.step = benchReleased

\* No run is requested before the last brick's exit hold is over ("how long
\* a measured brick is left undisturbed before a new run may start"), although
\* no request looks at that timer: the capture, the operator and the debounce
\* together take longer.
ExitHeld == [][enRoute' /\ ~enRoute => hold >= Timings.exitHold]_vars

\* With a controller that follows the run request in time and a belt that is
\* quicker than the jam clock, every brick is measured and lifted off.
BricksComplete ==
    policy = "follows" /\ Timings.entryClear + travel < Timings.jamWithdraw
        => <>(~running \/ completed = Cycles)
=============================================================================
