\* Kernels with and without each misuse of the mutexes; faults anywhere.
SPECIFICATION FairSpec
CONSTANTS
    IrqCalls = {"kmalloc", "kprintf"}
    FaultSites = {"thread", "irq", "kmalloc", "kfree", "kprintf", "exc"}
    HeapLines = 2
    MaxIrqs = 2
    MaxDepth = 5
INVARIANTS
    TypeOK
    MutualExclusion
PROPERTIES
    PanicIsFinal
    CallsReturn
    ExceptionHalts
\* After a panic the processor is halted; a spinning lock takes no step.
CHECK_DEADLOCK FALSE
