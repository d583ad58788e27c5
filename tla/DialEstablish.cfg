\* Two interfaces, the lookup's own schedule and fallback in seconds, attempts
\* without a timeout, with one between the retransmissions and with one after
\* them.  An attempt without a timeout may wait for a silent peer for ever.
SPECIFICATION FairSpec
CONSTANTS
    i1 = i1
    i2 = i2
    Interfaces = {i1, i2}
    Schedule <- OneAndThree
    FallbackTimeout = 5
    Horizon = 6
    MaxPackets = 2
    Timeouts = {0, 2, 4}
    Transports = {"noise", "plain", "badKey", "conflict"}
INVARIANTS
    OutcomeClean
    DeadlineNamed
    LookupThorough
PROPERTIES
    DialReturns
CHECK_DEADLOCK FALSE
