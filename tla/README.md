# Verification of go-aioesphomeapi

TLA+ models of the ESPHome Native API client (`client.go`, `entities.go`,
`internal/mdns`), of the device simulator it is tested against (`simulator/`)
and of the simulated firmware of its demos (`cmd/`), checked with TLC
on small instances, with TLAPS proofs of all safety properties for every
instance. `PROJECT.json` lists runs, mutants, the definition-to-source map,
hazards and findings.

## The system

| component | state | operations | interaction |
|---|---|---|---|
| client exchanges (`client.go`) | `pingGate`, `deviceInfoGate`; per call: response channel, verdict, watchdog | `Ping`, `DeviceInfo`, `keepaliveLoop`, `deliverDirect` | callers, watchdog goroutines and the keepalive loop share one connection; the reader completes exchanges |
| client shutdown | `closeOnce`, `closeReason`, `connected`, framer, `done` | `shutdown`, `Close`, dial-context watcher | called by every goroutine of the client |
| client receive side | callback queue, handler map | `readLoop`, `dispatchLoop`, `SubscribeStates`, `SubscribeLogs`, unsubscribe, `WaitCallbacks` | the reader never waits for the dispatcher; callbacks run outside locks and may call back into the client |
| listing and registry (`client.go`, `entities.go`) | `Client.list`, `EntityRegistry` | `ListEntitiesWithTimeout`, `handleList`, `EntityRegistry.handle` | descriptors and states come through the dispatcher |
| establishment (`client.go`, `options.go`) | establishment context, its `AfterFunc`, the connection's deadline | `DialWithContext`, `hello` | hands the connection to the loops |
| framing (`internal/wire`) | Noise cipher states, buffers | `ReadFrame`, `WriteFrame`, handshakes | under both client and simulator |
| mDNS (`internal/mdns`) | sockets, one worker per interface | `LookupInterface`, retransmission, responder | used by the default dialer |
| simulator store and clock (`simulator.go`, `clock.go`) | `currentStates`, `timelineIndex`, `stateSerial`, `ManualClock` | `PushState`, `Advance`, commands, `SubscribeStates` | writers send to all subscribed sessions while they hold `stateSerial` |
| simulator sessions and faults (`simulator.go`, `fault.go`) | per-session flags | `serve`, `triggerFault`, `PushLog` | one goroutine per connection |
| simulator lifecycle (`simulator.go`) | connections, listeners, task count | `DialContext`, `Serve`, `DropConnections`, `Close`, `WaitForIdle` | all of the above |
| simulated network (`network.go`) | armed faults, frame queue, `asyncFrames` | `arm`, `beginFrame`, `endFrame`, `writeLoop`, `stop` | between session and pipe; waits on the clock |
| command expectations (`command_expectations.go`) | index, matches, first error, `commandNotify` | `record`, `WaitForCommandExpectations` | fed by the sessions |
| conveyor firmware (`conveyor_device.go`) | sensors, motor, published values, script generations | `onTick`, `onFanCommand` | fan commands in, `PushState` out |
| blink firmware (`blink_device.go`) | LED belief, relight timer | `run` | switch commands in, `PushState` out, beside the session's own echo |

Hard to test here: the deadline of an exchange racing its answer; answers and
completions without correlation IDs after a timeout; subscribers removed while
their callback is about to run; the queue at its limit; a peer that stops
reading while locks or gates are held; snapshots racing pushes; concurrent
clock advances; a deadline that falls between Hello and the hand-over; frames
queued behind a delayed one, with the clock's own lock held; timers that fired
before they were stopped. `PROJECT.json` lists each at its line under `hazards`.

What makes the components correct: one exchange at a time per kind, each with
one verdict, and no late answer on a healthy connection; no silent loss or
reordering between wire and callbacks; a client that ends when it is closed; a
listing that returns the device's descriptors; sessions that see states in
commit order and end up with the current ones; an attempt to connect that
returns, with a usable client or with nothing left open; frames that arrive
whole and in nonce order; verdicts about commands that agree with what was
received; a belt whose timers act for the brick they were started for.

## Modules

**Shutdown** is the body of `Client.shutdown`: `phase` goes `open`,
`recorded` (reason stored, `connected` cleared), `framerClosed`, `done`.
`EnterShutdown(r)` is a call of `shutdown`; only the first has an effect.
Every client module extends it.

**Exchange** has one `pc` per activation of `probe` or `DeviceInfo`, in the
order of the code: `CheckContext`, `CheckDone`, the gate's select
(`AcquireGate`, `LeaveGateQueue`), `Register` (handler and watchdog), `Send`,
the final select (`AwaitResponse`, `AwaitContext`, `AwaitDone`), and `Finish`
for the deferred calls. `watchdog[c]` is the `context.AfterFunc` goroutine:
`armed`, `running`, `fired` (won the verdict, has not called `shutdown` yet),
`over`. The verdict's compare-and-swap and the call of `shutdown` are separate
steps, as in the code. A message on the wire is named after the call it belongs
to; only properties look at that name. `probe` and `DeviceInfo` have the same
control and differ by gate, so both are `ExchangeStep`. The peer answers in
order, late or never, or resets the connection.

**ClientDispatch** models `readLoop` and `dispatchLoop` statement by statement
where another goroutine can see the difference: the read, the answers to the
peer's own ping and disconnect requests, the three-way select of the queue, the
two checks of `done`, the message's way into registry and listing, the copied
handlers, one iteration per callback. A message has the ID of its type; a
subscription registers its handler for one ID after the other (`SubscribeAdd`),
each under its own lock, and `Unsubscribe` removes them the same way.
Decoding is abstracted to its outcome (known, unknown, malformed); the
`continue` for a message without an ID (`client.go:345`) cannot happen to a
message that was decoded by its ID.
**EventStream** is what it promises: received messages are accepted and then
dispatched one by one, in order and with a bounded backlog; none is accepted
after `done`, so at most the one accepted before it is dispatched after it.
`ClientDispatch` implements it under `dispatched <- handled`,
`closed <- (phase = "done")`, and a message between the second check of `done`
and the registry as the accepted one.

**ClientListing** models `ListEntitiesWithTimeout`, `handleList` and
`EntityRegistry.handle` against a device session that answers requests in order
and pushes state changes in between. The families of entities differ in fields
only and are one kind here. `faults`, chosen once from `Scenarios`, is the number
of duplicate-completion faults of `fault.go` at each of the three triggers: after
the Hello, before a listing's own completion, and after the initial states
(`DeviceTrigger`, `ListingFrames`). The frames between device and dispatcher are
one FIFO. `fresh` is a history variable: the entities whose last dispatched frame
was a state.

**DeviceState** models every writer of the simulator's store. A state is its
number among the commits of its entity. An actor takes `stateSerial`, commits,
collects the frames it owes to the subscribers, sends them one by one
and releases. `Transmit` waits for room; `TransmitError` is a send that fails,
on a closed connection or, on an open one, for a state that the encoder or the
framer refuses (`unsendable`, chosen at each commit among the states with text):
`PushState` and the timeline drop the error and go on (`simulator.go:664`, `726`),
a session gives up and ends. `advanceMu` serializes the advances. The loopback of a client is
external: it reads or disconnects.

**DeviceLifecycle** models the resources of a device: `StartConnection` under
the mutex, called by `DialContext` and by the accept loop of `Serve`; the
deferred teardown of a session and of a Serve call in the steps others can see
(close, forget and free the slot, notify); `DropConnections`, which forgets
sessions under the mutex and closes them after it; the three stages of `Close`;
and `WaitForIdle`'s loop of looking at the counts and sleeping on the one-token
channel. What a session does is reduced to serving, stalling and returning.

**NetworkConn** models the sending side of a session: a sender takes the
session's `writeMu` (`BeginFrame`), encrypts (`WriteFrame`, which uses up a
nonce), and `endFrame` decides between a synchronous and an asynchronous frame
before `enqueue`. The write loop takes one frame after the other, waits on the
clock for a delayed one, and writes it as segments, bytes or one chunk. Bytes
are kept as (frame, position), so that the peer can tell a frame it can decrypt
from one it cannot. `Advance` sends its timeline events as one of the senders.
**FrameFifo** is the promise: encrypted frames arrive once, whole, in order and
not before they are due. A due time that overflows the clock's range wraps below
zero and delays nothing, which `FrameFifo` states as its only exception.

**CommandExpectations** models `record` and `WaitForCommandExpectations`. The
notification channel that `record` closes and replaces is the number of its
replacements. **BlinkDevice** composes it with the session that stores the echo
of a command and with the blink firmware, which consumes the commands.

**ConveyorFirmware** has one action for a tick and one for a fan command. Ticks
of an old generation have no effect, so bumping a generation is forgetting its
timers. The firmware is quick compared with its timers: time passes only when
nothing is due. The controller either follows the run request within `MaxLag` or
switches the motor whenever it likes.

**MdnsLookup** is `lookupWithSchedule` and its workers; **DialEstablish** extends
it with the rest of `DialWithContext`, one step per statement that another
goroutine or the peer can see. `closer` is the `AfterFunc` that closes the
connection when the context ends: it may have started and not yet run when
`DialWithContext` goes on or returns. Handshake and Hello succeed or fail for a
named reason (closed, deadline, refused).

`MC*` modules hold the model values and symmetry sets; each `.cfg` is one run.

## Runs

| run | instance | shows |
|---|---|---|
| exchange | 2 pings, 1 keepalive probe, transport of 1 | `TypeOK`, `GateExclusive`, `LateAnswerCondemned`, `VerdictExclusive`, `OnlyStartedCondemns`, and the inductive `ExchangeInv` |
| exchange_live | unbounded ping holds the gate or unbounded DeviceInfo fills the transport, 1 probe | `BoundedCallReturns`, `SilentPeerDetected` |
| exchange_late | as exchange | violation of `ResponseIsOwn` |
| dispatch | a subscriber of 2 message IDs and one of 1, queue 1, 3 messages | `ConsecutiveDelivery`, `OneLateCallback`, `OneStaleCallback`, `CloseEndsLoops`, `ImplementsEventStream` |
| listing | 2 listers, 2 entities, 1 push, no fault or one at each trigger | `CleanListingComplete`, `ListingIsSuffix`, `RegistryComplete`, `RegistryTracksDevice` |
| listing_reuse | as listing | violation of `ListingComplete` |
| device_state | 2 sessions, 1 push, 2 advances over 3 events, 1 command, an entity whose states may not be framed | `SubscribersCurrent`, `TimelineCurrent`, `NoRegression`, `WritersReturn` |
| device_lifecycle | 2 clients for 1 slot, 2 Serve calls for 1 listener, 1 drop, 1 waiter | `SlotsAccounted`, `CommandsOpenWhileServing`, `CloseReturns`, `ServersStop`, `IdleNoticed` |
| network | a request loop and an advance, 3 frames, 2 faults, queue 1 | `ImplementsFrameFifo`, `SendersReturn`, `StopReleases` |
| commands | 4 commands, 3 expected, channel of 1, 1 waiter | `WaitVerdict`, `WaitersWoken`, `RelitAgain` |
| conveyor | 2 bricks, both controllers, 4 belts, 2 dwells | `TravelNeedsMotor`, `ReadingIsOfBrick`, `ExitHeld`, `BricksComplete` |
| establish | 2 interfaces, timeouts 0, 2 and 4 s, 4 transports | `OutcomeClean`, `DeadlineNamed`, `LookupThorough`, `DialReturns` |

Bounds. Two callers of one gate and the keepalive probe are enough for a late
answer, a waiting caller and a third party; a transport of one request makes
the second write block. Three messages against a queue of one fill the queue
while one message is in a callback and one is held by the reader; with the IDs
in turn, the second of three messages can fall between the two registrations of
a subscriber. Two listings
give one a predecessor; two entities tell a truncated result from an empty one.
Two sessions and two advances give every pair of writers a reader in between.
Three frames against a queue of one put one frame in the write loop, one in the
queue and one before a full queue; the clock ends at 1, so that a delay armed at
its end overflows. Four commands against a channel of one leave room for a
dropped, a repeated and a trailing one. The conveyor runs with the firmware's own
timings in units of 50 ms; its belts are one quicker than the jam clock, one
between jam clock and backstop, one that arrives in the instant of the backstop,
and one slower than both. The lookup's schedule
and fallback are the code's, in seconds, with timeouts before and between its
retransmissions. Each bound (`WireCap`, `QueueSize`, `MaxEvents`, `MaxPushes`, `MaxCommands`, `OutCap`, `MaxFrames`, `MaxArms`, `MaxDuration`,
`Cycles`, `MaxLag`, `MaxPackets`, `Horizon`) is a constant.

Fairness. Go runs every runnable goroutine, so each goroutine's steps are
weakly fair; the deadlines of bounded contexts pass. Nothing is assumed of the
peer, of callers that may or may not call `Close`, or of a write to an open
framer. `CloseEndsLoops` assumes that callbacks return, as the comment on
`WaitCallbacks` does. In `DeviceState` taking a mutex is strongly fair, since
`sync.Mutex` hands over to a waiter that starves, and clients keep reading
unless they disconnect. In `DeviceLifecycle` a session leaves once its
connection is closed, a Serve call once its listener is, and a stalled session
only when the device or its own connection is closed by the device. In
`NetworkConn` the peer reads what it is sent or goes away, and nobody has to
advance the clock or close. In `BlinkDevice` and `ConveyorFirmware` timers
expire; nobody has to send a command, except that a controller that follows the
run request does so in time. In `DialEstablish` goroutines, timers and time go
on; the peer, other hosts and the caller's cancellation owe nothing.

## Findings

- `exchange_late`: the watchdog wins the verdict and is preempted; the caller
  sees its context done, loses the compare-and-swap and returns, which frees
  the gate; the next probe sends, receives the late answer of the first and
  succeeds. `LateAnswerCondemned` is the weaker fact that does hold: by then the
  connection is condemned.
- `listing_reuse`: a listing that times out leaves its frames on the way; the
  next listing on the client ends with them.

Observations that no run states on its own, each seen while the bounds and the
exceptions of the properties were chosen:

- A duplicated completion (`fault.go`) that comes after the next listing was
  installed ends that listing; `references/scenario-contract.md:185` calls it
  harmless. `CleanListingComplete` therefore excludes the fault. After the Hello
  or after the initial states, triggers that validation accepts too, its
  completions can end the first listing before any descriptor has come: the
  listing succeeds and the registry is empty, so `RegistryComplete` is about
  completions of listings only.
- A second listing resets every entity to the zero value of its state
  (`entities.go:109`), until its next state arrives; the comment calls the registry
  that of 'the most recently observed state' (`entities.go:81`). `RegistryTracksDevice`
  is therefore about the entities whose last frame was a state.
- A subscriber that joins a running stream has its handler registered ID by ID
  (`client.go:504-508`): it can get a message of a first ID, miss the next one of
  an ID that is not registered yet, and get the one after. `ConsecutiveDelivery`
  promises no gap within an ID and the order across IDs.
- A message can be applied to the registry after `done` is closed, when the close
  falls between the check at `client.go:337` and `client.go:342`.
- A push of a state that does not fit a frame (`noise.go:168`, `plain.go:61`) is
  committed and returns no error, and no subscriber is sent it
  (`simulator.go:664`), although the comment at `simulator.go:630` says that it
  goes 'to every session'. A session that subscribes while it is current ends in
  its snapshot. `SubscribersCurrent` names both as exceptions.
- `resourceNotify` holds one token: of two concurrent `WaitForIdle` calls the
  one that takes the last token does not pass it on, and the other sleeps on.
  `IdleNoticed` is therefore stated for one waiter (`OneWaiter`).
- The comment in `onFanCommand` (`conveyor_device.go:394`) lets the travel of a
  brick between the sensors restart with the belt. The code restarts it only
  for a brick at the entry; one that has left the entry beam stays where it is.
  A controller that follows the run request does not stop the belt there.
- With a belt that is not quicker than jam clock and backstop together, the
  backstop stops the motor and the travel timer goes on
  (`conveyor_device.go:378`); `TravelNeedsMotor` excludes such belts. A belt that
  takes exactly as long is among them: both timers fire in the same instant, in
  either order. The proof of `TravelSafety` failed on this tie first, and TLC
  shows it with the third belt of its run.
- A brick that is placed while the motor already runs starts neither travel nor
  jam clock.
- With two commanding sessions, or when a command is dropped, the stored switch
  and its mirror of the blink demo can stay different; `RelitAgain` is about one
  session and leaves drops out. It also takes the relight delay to be longer than
  a session needs to store its echo.
- Errors of `DialWithContext` when it sets, restores or clears a deadline on a
  connection the context has just closed do not name the context's cause, unlike
  those of the handshake, Hello and the final stop that `DeadlineNamed` and
  `StopEstablishmentClose` cover.

## Proofs

Each `*Proofs` module extends the module it is about. Every proof starts from the
named assumptions on the constants (`CallsAssumption`, `StateAssumption`, ...),
which TLC evaluates on the run of that module. They say what the code
guarantees: limits and capacities are natural numbers, kinds of actors are
disjoint, `validation.go` accepts only timelines in order and distinct keys, the
retransmission schedule does not decrease. The bounds of the runs are constants
too, so a theorem holds whatever they are. Hardly any property is inductive as it
stands. Below is what had to be added to each, and why; every invariant was
checked by TLC before it was proved. All proofs have the same shape: a lemma
`Steps` takes `Next` apart, a lemma per part of the invariant has one step per
action that can disturb it, and the last step is temporal.

**ExchangeProofs.**
- `TypeCorrect`, `GateSafety`. A caller could take a token while another holds
  the gate, unless the token of a held gate is known to be gone: `GateInv` adds
  that.
- `VerdictSafety`, `BlameSafety`. That a success is never the close reason needs
  to know that a fired watchdog won the verdict, that the verdict is settled once,
  and that a caller who returns success had won it; that the call blamed had
  started needs to know where in the exchange a watchdog exists. `VerdictInv`
  states these facts per call (`VerdictOf`). An action moves one call; for the
  others `VerdictKept` applies, with `OnwardStep`: a condemned connection stays so.
- `StrandSafety` is the safety half of `BoundedCallReturns` and
  `SilentPeerDetected`: whatever a call waits for is still to come. A gate's token
  is in the gate or with exactly the call that holds it (`TokenInv`); a call that
  writes or awaits its answer has a live watchdog or the connection is condemned
  (`WatchInv`).
- `ExchangeCorrect`, `LateAnswerSafety`. `WireInv` says that a request, its answer
  and its delivery are at one place at most; `FlightInv` says that a call that is
  over while its answer is still to come has condemned the connection.

**ClientDispatchProofs.**
- `StreamRefinement`: every step of the receive side is a step of `EventStream`
  or a stutter. `QueueInv` is what it needs: the queue holds the messages after
  the last one taken, without a gap, and a message is missing only when a loop
  ended with it in hand. The bounded backlog is the sum of the queue and one
  message per loop. `Taken` counts the message between the queue and the registry,
  before and after the second check of `done`.
- `DeliverySafety`: for each ID a subscriber listens to, it was called with every
  message of that ID from its first one up to the last that is settled
  (`DeliveryOf`), which is one behind the loop while its callback is still to come.
  Once the handler of an ID is removed, none is added for it again.
- `LateSafety`, `StaleSafety`: the counts are at most one because a callback whose
  check has passed is the only one that can follow, and none has been counted as
  long as it is to come (`LateInv`, `StaleInv`).

**ClientListingProofs.**
- `RegistryTracking`: the last state on the way to an entity is the device's
  current one, and where none is on the way, the entity's own is (`TrackInv`); states
  are sent to a subscriber only, after its snapshot (`Latest`, `Silent`).
- `RegistryCompleteness`, `SuffixSafety` are about all the frames on the way
  (`Stream`), whoever asked for them: behind every descriptor comes the next one
  of the declaration order (`Chained`), and before a completion comes every entity
  the registry lacks (`Known`), unless a fault sends completions outside listings. A pending listing has collected up to the descriptor
  before the first listing frame of the stream (`CollectInv`), also when it began
  in the middle of another one's frames. The operators are over a parameter `s`, so
  that one lemma serves the stream before and after a step.
- `CleanSafety`: without a timeout and without the fault at any trigger, at most one listing is under way
  (`OneInv`), it is the pending one, and what it collected is all that came before
  (`OwnInv`). Both are lost when the connection is closed, while the completed
  listings stay whole (`WholeInv`).

**DeviceStateProofs.**
- `NeverBack`, an action property: the frames an actor still has to send carry
  current states (`FrameInv`), which needs that only the holder of `stateSerial`
  has frames to send (`LockInv`).
- `SubscribersServed`: what a connected subscriber lacks is on its way, or cannot
  be sent (`SubscriberInv`); when the lock is free, nothing is on its way.
- `TimelineServed`: no event was committed early, and none is due when no advance
  is under way (`ClockInv`). `DueCount` turns this into a number of events, by the
  order of the timeline.
- `LockSafety`, the safety half of `WritersReturn`: `stateSerial` is held only by
  a call that sends, `advanceMu` only by an advance that sends or waits for
  `stateSerial`; no lock is left behind, and no two calls wait for each other.

**DeviceLifecycleProofs.**
- `SlotSafety`, `CommandsSafety`: the slots, which the code compares with the limit,
  are the cardinality of the set of
  running sessions, which has to be known finite; the theorems of
  `FiniteSetTheorems` count it up and down.
- `CloseReachesAll` has no run of its own: after the sweep of `Close` every running
  session has a closed connection or is on the list of a `DropConnections` call.
  It is the safety half of `CloseReturns`.
- `CloseReachesServers`, the safety half of `ServersStop`: a Serve call that accepts
  has its listener in the map, and after the sweep that listener is closed.
- `IdleSafety`, the safety half of `IdleNoticed`: no call of `WaitForIdle` sleeps on
  an idle device without a notification to come. The channel holds one token, which
  wakes one call, so the theorem is about one waiter (`OneWaiter`).

**NetworkConnProofs.**
- `FifoRefinement`: the network implements `FrameFifo`, where the delivered frames
  are decoded from the bytes the peer has read. `InOrder` says what those bytes
  are; `PipeInv` names the frame `b` that the write loop has in work, how many of
  its bytes are out and which chunks are left (`WorkInv`), and that the queue goes
  on behind it without a gap (`QueueInv`); `HolderInv` keeps senders apart by
  `writeMu`; `ReadyInv` says that a delayed frame is written only when its target
  is reached. A gap in the nonces is possible only once the connection is stopped.
- `SendSafety`, the safety half of `SendersReturn`: the frame whose result a sender
  awaits is never behind a delayed one, else `writeMu` would be held until the clock
  moves. `FlowInv` counts: the frames nobody awaits are all asynchronous and are what
  `asyncFrames` says, and a synchronous frame is alone (`OnItsWay`).
- `DelaySafety`, the safety half of `StopReleases`: a delayed frame is counted by
  `pendingDelayedFrames` exactly while it is held back, and the clock has a waiter
  only for a target that is still to come.

**DialEstablishProofs**, about `MdnsLookup` as well.
- `LookupSafety`: time does not pass the next retransmission of a waiting worker
  (`OnSchedule`), and a failed lookup has only workers without an answer
  (`Accounted`).
- `OutcomeSafety`, `DeadlineSafety`: `CloserInv` says that nothing but the
  `AfterFunc` closes the connection of an attempt that goes on, and that it has
  started only if the context has ended; so an attempt that stops it in time hands
  out a connection nobody closes, and one that does not knows the cause.

**FirmwareProofs**, about `ConveyorFirmware`, for any timings, belts and
controllers; and about `CommandExpectations` and `BlinkDevice`, for any scenario,
queue and waiters.
- `ReadingSafety`: one tick at most moves a brick, and a brick that is measured is
  at the exit (`BrickInv`).
- `TravelSafety`: brick and backstop are compared by the time each has left
  (`JamInv`), which no step reverses.
- `ExitSafety` is proved under `HoldCovered`: capture, operator and debounce take
  at least the exit hold. No code compares the two, the firmware's timings (3.45 s
  and 3 s) provide it; with a longer exit hold the theorem does not apply.
  `HoldInv` says how long after the last arrival each tick comes at least.

- `WaitSafety`: the verdict of `WaitForCommandExpectations` is that of the list of
  all expected commands (`Expected`). That list is defined by the running sums of
  the counts (`Upto`, a recursive function); what they are for arbitrary
  expectations is shown by a least counterexample, which the well-foundedness of the
  naturals provides where the induction rule cannot be used (`LeastNat`). `MatchInv`
  relates `commandIndex` and `commandMatched` to the position in that list, and an
  error to the first wrong command; `OverInv` says that a verdict, once given, stays
  that of the commands seen.
- `WakeSafety`, the safety half of `WaitersWoken`: once the commands decide, no waiter
  sleeps on a channel that `record` has not closed (`NoneSleepsOn`).
- `LedSafety`, the safety half of `RelitAgain`: whenever nothing is under way and no
  command was dropped, switch, mirror and LED agree, and a LED that is off has its
  timer. `EchoInv` says why the session's late echo does no harm: it is that of the
  last command, which is still queued or which the firmware has taken last.

Only model-checked:
- all liveness (`BoundedCallReturns`, `SilentPeerDetected`, `CloseEndsLoops`,
  `WritersReturn`, `CloseReturns`, `ServersStop`, `IdleNoticed`, `SendersReturn`,
  `StopReleases`, `WaitersWoken`, `RelitAgain`, `BricksComplete`, `DialReturns`):
  fairness and ENABLED are out of the prover's reach. For ten of them the safety half
  is proved, as said above: that what is waited for is not lost;
- the two violations, which are counterexamples.

## Plan

Modelled: every module above. Proved: every safety invariant, action property and
refinement that a run checks, and the safety halves of ten of the thirteen liveness
properties. Left to fairness alone, and so to TLC: `CloseEndsLoops`, `DialReturns`
and `BricksComplete`, where every wait has an end of its own (a closed channel or a
timer) and nothing is counted or handed over.

## Not modelled

- The generated `pb` package, three quarters of the repository's lines, is the
  encoding of messages; `cmd/protocol-inventory` writes a report; the `main`
  packages parse flags. None has protocol state.
- `commands.go` and `colour.go` are one validation and one send each; the sample
  scenarios are data.
- `validation.go` is a predicate over the fields of a scenario. The models start
  from scenarios it accepts (timelines in order, positive counts).
- The plain framer, the Noise reading side and the DNS packet parser turn bytes
  into values without state another goroutine could see; cryptography is out of
  reach. The writing side and the order of nonces are in `NetworkConn`, where a
  frame that is too large is refused before it is encrypted: the second size check
  (`noise.go:182`), after a nonce was used, cannot fail, since the framers cap
  `maxFrame` 20 bytes below the packet size.
- Log messages (`PushLog`) share the path of states without a stored value.
- The counters of `Stats` that only report.
