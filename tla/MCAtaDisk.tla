----------------------------- MODULE MCAtaDisk -----------------------------
EXTENDS AtaDisk

\* Counts up to the limit, and addresses that need one, three and all bytes.
SomeReads == {[offset |-> 6, count |-> 4], [offset |-> 13, count |-> 1],
              [offset |-> 3, count |-> 0]}
=============================================================================
