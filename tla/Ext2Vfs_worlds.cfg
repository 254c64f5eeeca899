\* Three worlds: two without failures, one in which everything may go wrong.
SPECIFICATION Spec
CONSTANTS
    Partitions = {"hda1", "hda2"}
    Worlds <- MCWorlds

    
    
PROPERTIES
    NodesStay
    FailedMountKeepsFs
\* The kernel stops at a panic, and what follows a stray access is not modelled.
CHECK_DEADLOCK FALSE
