\* The same daemon with a client that connects and keeps silent.
SPECIFICATION StallSpec
CONSTANTS
    r1 = r1
    o1 = o1
    o2 = o2
    p1 = p1
    c1 = c1
    RequestId = {r1}
    Owner = {o1}
    Parent = {p1}
    Timeout = 1
    Retention = 1
    Conn = {c1}
    Line <- RefreshingLines
    Peer = {"own", "foreign", "unidentified"}
    InvalidId = badId
    InvalidOwner = badOwner
    InvalidParent = badParent
    NoConn = noConn
PROPERTIES
    RequestsSettle
