\* Colliding senders, two calls at once.
SPECIFICATION FairSpec
CONSTANTS
    s1 = s1
    s2 = s2
    s3 = s3
    Sender = {s1, s2, s3}
    Segment <- CollidingSegments
    App = {a1}
    Token = {"t1"}
    LongToken = longToken
    Options <- MCOptions
    Traffic <- EveryTraffic
    Parent = {p1, p2}
    Call = {k1, k2}
    Timeout = 1
    Retention = 1
    RequestId <- MCRequestId
    Owner <- MCOwner
    NoSender = noSender
    InvalidHandle = badHandle
    InvalidApp = badApp
    InvalidParent = badParent
    NoCall = noCall
INVARIANTS
    TypeOK
    SettledBetweenHolders
    OneIdentityPerId
    RegisteredIsGranted
    UpdateChoicesRefused
PROPERTIES
    ImplementsBook
    CallsAnswered
