---------------------------- MODULE MCUserSpace ----------------------------
(* Rows of four characters; words and lines that have room in them, that    *)
(* just do not, and that leave something behind for the next line.          *)
EXTENDS UserSpace

SomeLines ==
    { <<"a", "\n">>, <<" ", "b", " ", " ", "a", "b", "c", "\n">>,
      <<"b", " ", "a", " ", "&", "\n">>,
      <<"a", " ", "b", " ", "a", "b", " ", "\n">>,    \* the blank needs a row
      <<"a", " ", "b", " ", "c", " ", "a", "\n">>,      \* too many words
      <<"a", "b", "c", "a", "b", " ", "b", "\n">>,      \* too long a word
      <<"a", "b", " ", "c">>,                           \* the input ends
      <<"\n">>, <<"x", "\n">>, <<"c", " ", "a", "\n">> }

\* Two shells, that an absent DHCP client leads to, read fewer lines.
SomeMachines ==
    { [tty |-> TRUE,  dhcpd |-> TRUE,  forks |-> TRUE,  lines |-> 3],
      [tty |-> TRUE,  dhcpd |-> TRUE,  forks |-> FALSE, lines |-> 2],
      [tty |-> TRUE,  dhcpd |-> FALSE, forks |-> TRUE,  lines |-> 1],
      [tty |-> FALSE, dhcpd |-> TRUE,  forks |-> TRUE,  lines |-> 1] }

X == <<"x">>
Builtins == {<<"c">>}
=============================================================================
