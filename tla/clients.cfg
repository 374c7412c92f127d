\* Users, garwarpctl and the daemon, with lines that are cut.
SPECIFICATION WireSpec
CONSTANTS
    r = r
    o1 = o1
    p1 = p1
    p2 = p2
    who = who
    RequestId = {dash, r}
    Owner = {o1, noApp}
    Parent = {p1, p2, noParent}
    NoApp = noApp
    NoParent = noParent
    Dash = dash
    Timeout = 1
    Retention = 1
    Conn = {c1}
    Line <- MCLine
    Commands <- MCCommands
    CutOf <- MCCutOf
    Peer = {"own", "foreign", "unidentified"}
    InvalidId = badId
    InvalidOwner = badOwner
    InvalidParent = badParent
    NoConn = noConn
INVARIANTS
    ToldNotContradicted
PROPERTIES
    NothingUnexpected
    ReportIsTrue
    CutKeepsItsAim
