\* Daemons started one after the other, dying anywhere, and calls to them.
SPECIFICATION AFairSpec
CONSTANTS
    Proc = {d1, d2, d3}
    Orphan = orphan
    Blank = blank
    None = none
    Overlap = FALSE
    Caller = {k1}
INVARIANTS
    ServingOwnsFiles
    OnlyEarlyCallsMiss
PROPERTIES
    LeftoversDoNotBlock
    ActivationFailsForAReason
