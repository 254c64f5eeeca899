----------------------------- MODULE MCConsole -----------------------------
EXTENDS Console

Text(s) == [conv |-> 0, pad |-> 0, value |-> 0, text |-> s]
Number(c, p, v) == [conv |-> c, pad |-> p, value |-> v, text |-> <<>>]
String(s) == [conv |-> 115, pad |-> 0, value |-> 0, text |-> s]

\* The conversions the kernel uses (%d %02d %u %x %02x %p %S %c %s %%) with
\* zero, digits and letters, short of, as long as and longer than the padding;
\* lines that end before, at and behind the last column; tab and return.
SomeCalls ==
    << <<Text(<<97, 98, NL>>)>>,
       <<Number(100, 2, 7), Text(<<58>>), Number(117, 0, 4095)>>,
       <<Number(112, 0, 171), Text(<<NL>>)>>,
       <<Number(120, 3, 31), Number(120, 2, 160), Number(117, 0, 0)>>,
       <<Number(83, 0, 79), Number(83, 0, 80), Number(83, 0, 650)>>,
       <<String(<<99, 100, 101, 102, 103>>), Text(<<CR>>)>>,
       <<Number(99, 0, 90), Text(<<TAB>>), Number(37, 0, 0)>>,
       <<Number(100, 6, 2047), Text(<<NL, NL>>)>> >>
=============================================================================
