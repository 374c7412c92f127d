\* Two requests at once: the daemon against the ledger.
SPECIFICATION Spec
CONSTANTS
    r1 = r1
    r2 = r2
    o1 = o1
    p1 = p1
    c1 = c1
    RequestId = {r1, r2}
    Owner = {o1}
    Parent = {p1}
    Timeout = 1
    Retention = 1
    Conn = {c1}
    Line <- MovingLines
    Peer = {"own", "foreign", "unidentified"}
    InvalidId = badId
    InvalidOwner = badOwner
    InvalidParent = badParent
    NoConn = noConn
SYMMETRY Interchangeable
PROPERTIES
    ImplementsLedger
