\* A Ping and a DeviceInfo whose contexts never end, and a keepalive probe
\* that queues behind the one or blocks in its write behind the other.
SPECIFICATION FairSpec
CONSTANTS
    p1 = p1
    p2 = p2
    k1 = k1
    k2 = k2
    i1 = i1
    None = None
    PingCalls = {p1}
    KeepaliveCalls = {k1}
    InfoCalls = {i1}
    BoundedCalls = {k1}
    WireCap = 1
PROPERTIES
    BoundedCallReturns
    SilentPeerDetected
