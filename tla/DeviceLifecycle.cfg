\* Two clients for one slot, two Serve calls for one listener, a
\* DropConnections and one WaitForIdle.
SPECIFICATION FairSpec
CONSTANTS
    s1 = s1
    s2 = s2
    l1 = l1
    l2 = l2
    d1 = d1
    w1 = w1
    Sessions = {s1, s2}
    Listeners = {l1, l2}
    Droppers = {d1}
    Waiters = {w1}
    MaxConnections = 1
    MaxListeners = 1
INVARIANTS
    SlotsAccounted
    CommandsOpenWhileServing
PROPERTIES
    CloseReturns
    ServersStop
    IdleNoticed
