------------------------------ MODULE MCPaging ------------------------------
EXTENDS Paging

\* With PageSize 4 and eight entries: over the boundary between two tables,
\* in a table of its own, a second mapping of the same page, behind the last table,
\* inside of a page, and of no size.
SomeCalls == {[virt |-> 56, phys |-> 8, n |-> 9], [virt |-> 96, phys |-> 0, n |-> 4],
              [virt |-> 60, phys |-> 40, n |-> 4], [virt |-> 248, phys |-> 0, n |-> 12],
              [virt |-> 42, phys |-> 0, n |-> 4], [virt |-> 40, phys |-> 4, n |-> 0]}
=============================================================================
