\* Three devices, two calls, exceptions in the thread and in handlers.
SPECIFICATION FairTraps
CONSTANTS
    Ids = {1, 5, 7, 20}
    Lines = {1, 9, 14}
    Drivers = {d1}
    Faults = {6, 14}
    NULL = NULL
    MaxCalls = 2
    MaxRaises = 1
    MaxDepth = 3
INVARIANTS
    OwnHandler
    CallsAnswer
    
PROPERTIES
    ContextKept
    IrqServed
\* The calls are bounded, and an exception halts the processor.
CHECK_DEADLOCK FALSE
