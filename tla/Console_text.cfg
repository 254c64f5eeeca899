\* A screen of three lines of five columns, integers of three nibbles.
SPECIFICATION ConsoleSpec
CONSTANTS
    COLUMNS = 5
    LINES = 3
    Nibbles = 3
    Kilo = 8
    Calls <- SomeCalls
    MaxCalls = 4
INVARIANTS
    ScreenShows
\* The calls are bounded.
CHECK_DEADLOCK FALSE
