\* A subscriber of two message IDs and one of the first of them, a queue of
\* one and three messages: while one callback runs the queue
\* fills, and the message after it finds it full.
SPECIFICATION FairSpec
CONSTANTS
    s1 = s1
    s2 = s2
    a = a
    b = b
    Subscribers = {s1, s2}
    MessageIds = {a, b}
    Ids <- SubscribedIds
    Traffic <- MixedTraffic
    QueueSize = 1
    MaxEvents = 3
INVARIANTS
    ConsecutiveDelivery
    OneLateCallback
    OneStaleCallback
PROPERTIES
    CloseEndsLoops
    ImplementsEventStream
