\* Two Ping callers and a keepalive probe share the ping gate; the transport
\* buffers one request, so a second one blocks.
SPECIFICATION Spec
CONSTANTS
    p1 = p1
    p2 = p2
    k1 = k1
    k2 = k2
    i1 = i1
    None = None
    PingCalls = {p1, p2}
    KeepaliveCalls = {k1}
    InfoCalls = {}
    BoundedCalls = {p1, p2, k1}
    WireCap = 1
SYMMETRY PingSymmetry
INVARIANT ResponseIsOwn
