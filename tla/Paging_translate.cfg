\* The kernel's second page table.
SPECIFICATION Spec
CONSTANTS
    Entries = 8
    PageSize = 4
    BssEnd = 34
    HeapPages = {2, 3, 4, 5, 6}
    Spaces = {s1, s2}
    Default = s1
    NULL = NULL
    Garbage = Garbage
    MapCalls <- SomeCalls
    Frames = 3
    RefMax = 3
    MaxShare = 2
    Zeroed = TRUE
INVARIANTS
    TranslateRight
\* The kernel stops at a panic, and what follows a stray access is not modelled.
CHECK_DEADLOCK FALSE
