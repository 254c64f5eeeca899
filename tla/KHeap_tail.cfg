\* Freeing the block before the free tail of the heap.
SPECIFICATION Spec
CONSTANTS
    Hdr = 1
    HeapBase = 1
    HeapSize = 18
    Sizes = {1, 2, 5}
    Aligns = {1}
    FreeAligns = {1}
    FreeNull = FALSE
    Debug = FALSE
INVARIANTS
    NoWildStore
\* The kernel stops at a panic, and what follows a wild store is not modelled.
CHECK_DEADLOCK FALSE
