\* Every line of the protocol, one request id, one connection at a time.
SPECIFICATION Spec
CONSTANTS
    r1 = r1
    o1 = o1
    o2 = o2
    p1 = p1
    c1 = c1
    RequestId = {r1}
    Owner = {o1, o2}
    Parent = {p1}
    Timeout = 1
    Retention = 1
    Conn = {c1}
    Line <- EveryLine
    Peer = {"own", "foreign", "unidentified"}
    InvalidId = badId
    InvalidOwner = badOwner
    InvalidParent = badParent
    NoConn = noConn
SYMMETRY Interchangeable
INVARIANTS
    TypeOK
    ToldNotContradicted
    ExposureBounded
    StoreTrailsMemory
    StopIsFinal
PROPERTIES
    ToldOnlyAdvances
