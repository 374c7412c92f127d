\* Two starters and the lock file.
SPECIFICATION Spec
CONSTANTS
    Proc = {d1, d2}
    Orphan = orphan
    Blank = blank
    None = none
    Overlap = TRUE
INVARIANTS
    GuardExclusive
