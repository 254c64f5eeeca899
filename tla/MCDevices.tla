----------------------------- MODULE MCDevices -----------------------------
EXTENDS Devices

\* No table, one, two and four partitions, and a table that begins with a gap.
SomeTables == {NoTable, <<"ext2", "unused", "unused", "unused">>,
               <<"raw", "ext2", "unused", "unused">>, <<"other", "raw", "ext2", "ext2">>,
               <<"unused", "ext2", "unused", "unused">>}
=============================================================================
