\* The texts of identities and windows, typed up to a bound.
SPECIFICATION Spec
CONSTANTS
    Alphanumeric = {"r", "e", "q", "1", "x", "a"}
    MaxRequestIdLen = 8
    MaxSenderLen = 8
    MaxAppIdLen = 8
    MaxWindow = 31
    SenderChar = {":", "1", "."}
    TokenChar = {"1", "_"}
    WindowChar = {"0", "1", "f", "A", "x", "X", "+", " "}
    SenderBound = 4
    TokenBound = 2
    WindowBound = 5
INVARIANTS
    DerivedIdentityHolds
    DerivedIdSplits
    WindowKeepsItsName
