\* The store file, written, cut and read.
SPECIFICATION Spec
CONSTANTS
    RequestId <- MCRequestId
    Owner <- MCOwner
    Parent <- MCParent
    Storable <- MCStorable
    Timeout = 1
    Retention = 1
    Alphanumeric = {"a", "1"}
    MaxRequestIdLen = 4
    MaxSenderLen = 4
    MaxAppIdLen = 4
    MaxWindow = 31
    AppChar = {"-", "."}
    AppBound = 1
INVARIANTS
    TypeOK
    SavedIsLoaded
    CutLosesOnlyTheEnd
PROPERTIES
    ImplementsAtomicFile
