\* Every machine of two slots with two functions and of four drives.
SPECIFICATION Spec
CONSTANTS
    Slots = 2
    Fncs = 2
    MAX_DEVICES = 6
    Tables <- SomeTables
    Zeroed = TRUE
INVARIANTS
    AllProbed
    LookupExact
    
\* The boot ends.
CHECK_DEADLOCK FALSE
