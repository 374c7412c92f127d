\* What the registry of the dispatcher does with requests that ended.
SPECIFICATION AgingSpec
CONSTANTS
    s1 = s1
    s2 = s2
    s3 = s3
    Sender = {s1, s2}
    Segment <- CollidingSegments
    App = {a1}
    Token = {"t1"}
    LongToken = longToken
    Options <- MCOptions
    Traffic <- SoundTraffic
    Parent = {p1}
    Call = {k1, k2}
    Timeout = 1
    Retention = 1
    RequestId <- MCRequestId
    Owner <- MCOwner
    NoSender = noSender
    InvalidHandle = badHandle
    InvalidApp = badApp
    InvalidParent = badParent
    NoCall = noCall
PROPERTIES
    TerminalRequestsPruned
