\* Two sessions, a push, two advances over a timeline of three events and one
\* command; a session's transport holds one frame, so sends block.
SPECIFICATION FairSpec
CONSTANTS
    s1 = s1
    s2 = s2
    w1 = w1
    a1 = a1
    a2 = a2
    k1 = k1
    k2 = k2
    None = None
    Sessions = {s1, s2}
    Pushers = {w1}
    Advancers = {a1, a2}
    Keys = {k1, k2}
    CommandKeys = {k1}
    TextKeys = {k2}
    Timeline <- ThreeEvents
    OutCap = 1
    MaxCommands = 1
INVARIANTS
    SubscribersCurrent
    TimelineCurrent
PROPERTIES
    NoRegression
    WritersReturn
