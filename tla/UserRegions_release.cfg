\* A release build; callers give up a region that could not be changed.
SPECIFICATION Spec
CONSTANTS
    Regions = {r1, r2, r3, r4}
    NULL = NULL
    Addrs = {0, 1, 2, 3, 4}
    Debug = FALSE
    Retry = FALSE
SYMMETRY Symmetry
INVARIANTS
    TypeOK
    DoublyLinked
    ListedDisjoint
    HeldFound
\* The kernel stops at a panic, and what follows a wild store is not modelled.
CHECK_DEADLOCK FALSE
