\* Every sequence of up to three lines, on machines where calls succeed and fail.
SPECIFICATION FairSpec
CONSTANTS
    ARG_LENGTH = 4
    ARG_MAX = 4
    Lines <- SomeLines
    EXIT <- X
    BUILTINS <- Builtins
    Machines <- SomeMachines
INVARIANTS
    ArgvRight
    TerminalOwned

    
\* The lines are bounded, and shells exit.
CHECK_DEADLOCK FALSE
