\* Daemons around one store: started at the same time, or losing the bus.
SPECIFICATION LSpec
CONSTANTS
    Proc = {d1, d2, d3}
    Orphan = orphan
    Blank = blank
    None = none
    Overlap = TRUE
    Content = {empty, other}
    NoRequests = empty
    Unread = unread
INVARIANTS
    TypeOK
    OneServes
    ServesFromTheStore
