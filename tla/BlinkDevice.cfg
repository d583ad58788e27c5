\* The controller sends up to four commands, three of which are expected; the
\* channel holds one, so commands are dropped, and one call waits for them.
SPECIFICATION BlinkFairSpec
CONSTANTS
    w1 = w1
    Commands = {"on", "off", "press"}
    Expectations <- OffOnOn
    Waiters = {w1}
    QueueSize = 1
    MaxCommands = 4
INVARIANTS
    WaitVerdict
PROPERTIES
    WaitersWoken
    RelitAgain
