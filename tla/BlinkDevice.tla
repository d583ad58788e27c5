---------------------------- MODULE BlinkDevice -----------------------------
(***************************************************************************)
(* The blink demo: the session of the one controller records its commands  *)
(* and stores their echo, and the blink firmware                           *)
(* (cmd/mgmt-compat-sim-server/blink_device.go) takes the commands from    *)
(* the channel, pushes the switch state and its mirror, and turns the LED  *)
(* on again after a delay.  Each push is one step, as stateSerial makes it *)
(* (see DeviceState).                                                      *)
(***************************************************************************)
EXTENDS CommandExpectations

CONSTANT MaxCommands  \* bound on the commands the controller sends

VARIABLES
    session,         \* the command whose echo the session has yet to store
    commandsClosed,
    switch, sensor,  \* currentStates of the two entities
    firmware,        \* place of run, and the command it handles
    ledOn,
    relight          \* the timer

deviceVars == <<session, commandsClosed, switch, sensor>>
runVars == <<firmware, ledOn, relight>>
blinkVars == <<commandVars, wait, done, deviceVars, runVars>>

IsSwitch(c) == c \in {"on", "off"}
Select == [at |-> "select", state |-> FALSE]

InitBlink ==
    /\ InitCommands
    /\ session = "none"
    /\ commandsClosed = FALSE
    /\ switch = TRUE /\ sensor = TRUE
    /\ firmware = Select
    /\ ledOn = TRUE
    /\ relight = "stopped"

-----------------------------------------------------------------------------
(* The session and the end of the device.                                  *)

Receive(c) ==
    /\ session = "none" /\ ~commandsClosed
    /\ Len(log) < MaxCommands
    /\ Record(c)
    /\ session' = IF IsSwitch(c) THEN c ELSE "none"
    /\ UNCHANGED <<wait, done, commandsClosed, switch, sensor, runVars>>

\* storeAndSend.
Echo ==
    /\ session # "none"
    /\ switch' = (session = "on")
    /\ session' = "none"
    /\ UNCHANGED <<commandVars, wait, done, commandsClosed, sensor, runVars>>

Close ==
    /\ ~done
    /\ done' = TRUE
    /\ UNCHANGED <<commandVars, wait, deviceVars, runVars>>

\* The session has ended.
CloseFinish ==
    /\ done /\ ~commandsClosed
    /\ session = "none"
    /\ commandsClosed' = TRUE
    /\ UNCHANGED <<commandVars, wait, done, session, switch, sensor, runVars>>

-----------------------------------------------------------------------------
(* The firmware.                                                           *)

\* PushState is refused once the device is closed.
Push(entity, state) == entity' = IF done THEN entity ELSE state

Take ==
    /\ firmware.at = "select"
    /\ commands # <<>>
    /\ commands' = Tail(commands)
    /\ IF IsSwitch(Head(commands))
       THEN /\ ledOn' = (Head(commands) = "on")
            /\ firmware' = [at |-> "command", state |-> ledOn']
       ELSE UNCHANGED <<ledOn, firmware>>
    /\ UNCHANGED <<dropped, match, commandNotify, log, wait, done, deviceVars, relight>>

PushSwitch ==
    /\ firmware.at \in {"command", "relit"}
    /\ Push(switch, firmware.state)
    /\ firmware' = [firmware EXCEPT !.at = IF @ = "command" THEN "mirror" ELSE "mirrorRelit"]
    /\ UNCHANGED <<commandVars, wait, done, session, commandsClosed, sensor,
                   ledOn, relight>>

\* Mutant: an off command while the timer runs stops it for good.
MirrorOnce ==
    /\ firmware.at \in {"mirror", "mirrorRelit"}
    /\ Push(sensor, firmware.state)
    /\ relight' = IF firmware.at = "mirrorRelit" THEN relight
                  ELSE IF firmware.state \/ relight = "armed" THEN "stopped" ELSE "armed"
    /\ firmware' = Select
    /\ UNCHANGED <<commandVars, wait, done, session, commandsClosed, switch,
                   ledOn>>

\* mirror; an off command (re)starts the timer, an on command stops it.
Mirror ==
    /\ firmware.at \in {"mirror", "mirrorRelit"}
    /\ Push(sensor, firmware.state)
    /\ relight' = IF firmware.at = "mirrorRelit" THEN relight
                  ELSE IF firmware.state THEN "stopped" ELSE "armed"
    /\ firmware' = Select
    /\ UNCHANGED <<commandVars, wait, done, session, commandsClosed, switch,
                   ledOn>>

\* The relight delay, long enough for the session to store its echo.
RelightDelay ==
    /\ relight = "armed"
    /\ session = "none"
    /\ relight' = "due"
    /\ UNCHANGED <<commandVars, wait, done, deviceVars, firmware, ledOn>>

Relight ==
    /\ firmware.at = "select"
    /\ relight = "due"
    /\ relight' = "stopped"
    /\ IF ledOn THEN UNCHANGED <<ledOn, firmware>>
       ELSE /\ ledOn' = TRUE
            /\ firmware' = [at |-> "relit", state |-> TRUE]
    /\ UNCHANGED <<commandVars, wait, done, deviceVars>>

RunReturn ==
    /\ firmware.at = "select"
    /\ commands = <<>> /\ commandsClosed
    /\ firmware' = [Select EXCEPT !.at = "returned"]
    /\ relight' = "stopped"
    /\ UNCHANGED <<commandVars, wait, done, deviceVars, ledOn>>

Run == Take \/ PushSwitch \/ Mirror \/ Relight \/ RunReturn

Terminated ==
    /\ firmware.at = "returned"
    /\ \A w \in Waiters : wait[w].at = "returned"
    /\ UNCHANGED blinkVars

NextBlink ==
    \/ Echo \/ \E c \in Commands : Receive(c)
    \/ \E w \in Waiters :
          /\ WaitForCommandExpectations(w) \/ WaitGiveUp(w)
          /\ UNCHANGED <<deviceVars, runVars>>
    \/ Close \/ CloseFinish
    \/ Run \/ RelightDelay
    \/ Terminated

BlinkSpec == InitBlink /\ [][NextBlink]_blinkVars

\* Goroutines run and time passes; nobody has to send a command, close the
\* device or end a waiter's context.
BlinkFairness ==
    /\ WF_blinkVars(Echo)
    /\ \A w \in Waiters :
          WF_blinkVars(WaitForCommandExpectations(w) /\ UNCHANGED <<deviceVars, runVars>>)
    /\ WF_blinkVars(Run)
    /\ WF_blinkVars(RelightDelay)

BlinkFairSpec == BlinkSpec /\ BlinkFairness

-----------------------------------------------------------------------------
(* Properties.                                                             *)

\* Whenever the LED is turned off, the device turns it back on, and switch,
\* mirror and LED agree on it, although the session's echo and the firmware's
\* own pushes race for the switch; unless the device is closed or a command
\* was dropped.
RelitAgain ==
    ~switch \/ ~sensor ~> (switch /\ sensor /\ ledOn) \/ done \/ dropped > 0
=============================================================================
