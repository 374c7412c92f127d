\* Progress of requests and connections: an owner that refreshes its request,
\* another connection before it, a daemon that crashes, and a stop.
SPECIFICATION FairSpec
CONSTANTS
    r1 = r1
    o1 = o1
    o2 = o2
    p1 = p1
    c1 = c1
    c2 = c2
    RequestId = {r1}
    Owner = {o1}
    Parent = {p1}
    Timeout = 1
    Retention = 1
    Conn = {c1, c2}
    Line <- ProgressLines
    Peer = {"own"}
    InvalidId = badId
    InvalidOwner = badOwner
    InvalidParent = badParent
    NoConn = noConn
PROPERTIES
    RequestsSettle
    RecordsAreDropped
    StopCompletes
    ConnectionsEnd
