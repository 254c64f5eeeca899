\* Every call in any order: empty requests, padding below and above four
\* headers, kfree(NULL).
SPECIFICATION Spec
CONSTANTS
    Hdr = 1
    HeapBase = 1
    HeapSize = 13
    Sizes = {0, 2}
    Aligns = {1, 3, 7}
    FreeAligns = {1, 3}
    FreeNull = TRUE
    Debug = TRUE
INVARIANTS
    TypeOK
    ListLinked
    FreeExact
    Coalesced
    NoLeak
PROPERTIES
    ImplementsAllocator
\* The kernel stops at a panic, and what follows a wild store is not modelled.
CHECK_DEADLOCK FALSE
