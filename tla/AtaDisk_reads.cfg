\* Every assignment of drives to the four positions, two threads, drives may fail.
SPECIFICATION FairSpec
CONSTANTS
    Byte = 2
    Kinds = {"none", "disk", "atapi", "faulty"}
    Threads = {t1, t2}
    Boot = t1
    Requests <- SomeReads
    Fails = TRUE
INVARIANTS
    ReadRight
    ChannelQuiet
    ProbeExact
PROPERTIES
    ReadsEnd
\* A read of a drive in error waits for ever.
CHECK_DEADLOCK FALSE
