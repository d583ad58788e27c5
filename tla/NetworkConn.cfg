\* The session's loop and an advance of the clock send three frames
\* under two faults; the queue holds one frame, and the clock ends at 1, so a
\* delay armed at its end overflows.  Frames and faults run out, so it stops.
SPECIFICATION FairSpec
CONSTANTS
    loop = loop
    advancer = advancer
    None = None
    Loop = loop
    Advancer = advancer
    Pushers = {}
    QueueSize = 1
    Triggers <- TwoTriggers
    MaxDuration = 1
    MaxFrames = 3
    MaxArms = 2
PROPERTIES
    ImplementsFrameFifo
    SendersReturn
    StopReleases
CHECK_DEADLOCK FALSE
