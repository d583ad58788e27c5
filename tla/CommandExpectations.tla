------------------------ MODULE CommandExpectations -------------------------
(***************************************************************************)
(* The commands a simulated device receives (Device.record in simulator.go *)
(* and command_expectations.go): each is matched against the scenario's    *)
(* expectations and put into the commands channel, or dropped when that is *)
(* full, in one critical section of commandMu.  WaitForCommandExpectations *)
(* waits for the verdict; commandNotify, a channel that record closes and  *)
(* replaces, is the number of its replacements.                            *)
(***************************************************************************)
EXTENDS Integers, Sequences, FiniteSetsExt

CONSTANTS
    Commands,      \* the commands a client may send
    Expectations,  \* Scenario.Commands: [command, count]
    Waiters,       \* calls of WaitForCommandExpectations
    QueueSize      \* capacity of the commands channel

ASSUME ExpectationsAssumption ==
    /\ QueueSize \in Nat \ {0}
    /\ Expectations \in Seq([command : Commands, count : Nat \ {0}])

VARIABLES
    commands,       \* the channel
    dropped,        \* droppedCommands
    match,          \* commandIndex, commandMatched and commandErr
    commandNotify,
    wait,           \* each waiter: its place, the notify it holds, its result
    done,           \* the device is closed
    log             \* history: [command, dropped] of every recorded command

commandVars == <<commands, dropped, match, commandNotify, log>>

Undecided == "missing"

InitCommands ==
    /\ commands = <<>> /\ dropped = 0 /\ log = <<>>
    /\ match = [index |-> 1, matched |-> 0, err |-> "none"]
    /\ commandNotify = 0
    /\ wait = [w \in Waiters |-> [at |-> "check", notify |-> 0, result |-> "none", seen |-> 0]]
    /\ done = FALSE

\* setCommandErrorLocked: the first error stays.
Fail(m, code) == IF m.err = "none" THEN [m EXCEPT !.err = code] ELSE m

Code(m, c) ==
    IF \E i \in (m.index + 1) .. Len(Expectations) : Expectations[i].command = c
    THEN "out_of_order" ELSE "unexpected"

\* observeCommandLocked.
Observe(m, c) ==
    IF Expectations = <<>> \/ m.err # "none" THEN m
    ELSE IF m.index > Len(Expectations) THEN Fail(m, "unexpected")
    ELSE IF c # Expectations[m.index].command THEN Fail(m, Code(m, c))
    ELSE IF m.matched + 1 < Expectations[m.index].count
         THEN [m EXCEPT !.matched = @ + 1]
         ELSE [m EXCEPT !.index = @ + 1, !.matched = 0]

Overflow(m) == IF Expectations = <<>> THEN m ELSE Fail(m, "overflow")

\* Mutant: a command that finds the channel full is dropped without a word.
RecordSilently(c) ==
    /\ IF Len(commands) < QueueSize
       THEN commands' = Append(commands, c) /\ UNCHANGED dropped
       ELSE dropped' = dropped + 1 /\ UNCHANGED commands
    /\ match' = Observe(match, c)
    /\ commandNotify' = commandNotify + 1
    /\ log' = Append(log, [command |-> c, dropped |-> Len(commands) = QueueSize])

\* Mutant: the waiters do not hear of an overflow.
RecordUnnotified(c) ==
    /\ IF Len(commands) < QueueSize
       THEN /\ commands' = Append(commands, c)
            /\ match' = Observe(match, c)
            /\ commandNotify' = commandNotify + 1
            /\ UNCHANGED dropped
       ELSE /\ dropped' = dropped + 1
            /\ match' = Overflow(Observe(match, c))
            /\ UNCHANGED <<commands, commandNotify>>
    /\ log' = Append(log, [command |-> c, dropped |-> Len(commands) = QueueSize])

Record(c) ==
    /\ IF Len(commands) < QueueSize
       THEN /\ commands' = Append(commands, c)
            /\ match' = Observe(match, c)
            /\ UNCHANGED dropped
       ELSE /\ dropped' = dropped + 1
            /\ match' = Overflow(Observe(match, c))
            /\ UNCHANGED commands
    /\ commandNotify' = commandNotify + 1
    /\ log' = Append(log, [command |-> c, dropped |-> Len(commands) = QueueSize])

-----------------------------------------------------------------------------
(* WaitForCommandExpectations.                                             *)

Verdict ==
    IF match.err # "none" THEN match.err
    ELSE IF match.index > Len(Expectations) THEN "ok"
    ELSE Undecided

Returned(w, verdict) ==
    wait' = [wait EXCEPT ![w].at = "returned", ![w].result = verdict,
                         ![w].seen = Len(log)]

WaitCheck(w) ==
    /\ wait[w].at = "check"
    /\ IF Verdict # Undecided THEN Returned(w, Verdict)
       ELSE wait' = [wait EXCEPT ![w].at = "sleep", ![w].notify = commandNotify]
    /\ UNCHANGED <<commandVars, done>>

\* record has closed the channel the waiter holds.
WaitWake(w) ==
    /\ wait[w].at = "sleep"
    /\ wait[w].notify < commandNotify
    /\ wait' = [wait EXCEPT ![w].at = "check"]
    /\ UNCHANGED <<commandVars, done>>

\* The context ends or the device is closed: missingCommandError looks again.
WaitGiveUp(w) ==
    /\ wait[w].at = "sleep"
    /\ Returned(w, Verdict)
    /\ UNCHANGED <<commandVars, done>>

WaitForCommandExpectations(w) == WaitCheck(w) \/ WaitWake(w)

-----------------------------------------------------------------------------
(* Properties.                                                             *)

\* The number of commands that the first i expectations stand for.
Upto[i \in 0 .. Len(Expectations)] ==
    IF i = 0 THEN 0 ELSE Upto[i - 1] + Expectations[i].count

\* The commands of the scenario one by one.
Expected ==
    [n \in 1 .. Upto[Len(Expectations)] |->
        LET i == CHOOSE i \in DOMAIN Expectations : Upto[i - 1] < n /\ n <= Upto[i]
        IN  Expectations[i].command]

Wrong(i) ==
    i > Len(Expected) \/ log[i].command # Expected[i] \/ log[i].dropped

\* What the first n commands amount to, without a matching state.
VerdictOf(n) ==
    LET wrong == {i \in 1 .. n : Wrong(i)} IN
    IF Expectations = <<>> THEN "ok"
    ELSE IF wrong = {} THEN IF n < Len(Expected) THEN Undecided ELSE "ok"
    ELSE LET i == Min(wrong) IN
         IF i <= Len(Expected) /\ log[i].command = Expected[i] THEN "overflow"
         ELSE IF \E j \in (i + 1) .. Len(Expected) : Expected[j] = log[i].command
         THEN "out_of_order" ELSE "unexpected"

\* A wait returns what the commands received until then amount to: success
\* only for exactly the expected commands in order with none dropped, the
\* first error otherwise, and a missing command only while one is missing,
\* also when the last one comes as the context ends.
WaitVerdict ==
    \A w \in Waiters :
        wait[w].at = "returned" => wait[w].result = VerdictOf(wait[w].seen)

\* No waiter sleeps through the command that decides: it returns although
\* its context never ends.
WaitersWoken ==
    \A w \in Waiters : Verdict # Undecided ~> wait[w].at = "returned"
=============================================================================
