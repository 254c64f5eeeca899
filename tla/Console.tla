------------------------------ MODULE Console ------------------------------
(***************************************************************************)
(* What kprintf prints and how it gets on the screen: the conversions of   *)
(* kernel/kprintf.c and libc/string.c, and the text screen of              *)
(* drivers/vga.c, character by character.                                  *)
(*                                                                         *)
(* A call prints a sequence of items: text (conv = 0) or a directive with  *)
(* its padding, its argument in value or text.  Characters are their codes.*)
(* kprintf holds its mutex (KernelLocks), so calls do not mix.  On i686 a  *)
(* long is an int, so the flag 'l' changes nothing.                        *)
(*                                                                         *)
(* Beside the screen an endless page is typed on (due, page): what the     *)
(* callers mean, as a typewriter would put it down.                        *)
(***************************************************************************)
EXTENDS Integers, Sequences, SequencesExt

CONSTANTS COLUMNS, LINES,
          Nibbles,    \* hexadecimal digits of an int
          Kilo,       \* 1024 of scale(), smaller with smaller integers
          Calls,      \* the calls of the kernel: sequences of items
          MaxCalls    \* bound on the calls of one behaviour

NUL == 0
BS == 8
TAB == 9
NL == 10
CR == 13
PERCENT == 37
ZERO == 48

\* Integers are below a power of 16.
Power[n \in 0 .. Nibbles] == IF n = 0 THEN 1 ELSE 16 * Power[n - 1]
UINT == Power[Nibbles]

\* Text, %% %c %d %p %s %u %x and %S, padded to one digit's number of places.
Items == [conv : {0, PERCENT, 99, 100, 112, 115, 117, 120, 83},
          pad : 0 .. 9, value : 0 .. UINT - 1, text : Seq(1 .. 255)]

\* Of other items the code prints something else: it mistakes a backspace, '%'
\* begins a directive, %d loses the sign, %x knows no more padding than digits,
\* %S makes gigabytes of one size only.  The tree prints none of them, but for
\* the first sector of a partition from 2^31 on (partscan.c, %ld).
Printable(item) ==
    /\ \A i \in DOMAIN item.text : item.text[i] # BS /\ (item.conv = 0 => item.text[i] # PERCENT)
    /\ item.conv = 99 => item.value < 256 /\ item.value # BS
    /\ item.conv = 100 => item.value < UINT \div 2
    /\ item.conv = 120 => item.pad <= Nibbles
    /\ item.conv = 83 => item.value < UINT - 1

ASSUME ConsoleAssumption ==
    /\ COLUMNS \in Nat \ {0} /\ LINES \in Nat \ {0}
    /\ Nibbles \in Nat \ {0}
    /\ Kilo \in Nat \ {0, 1} /\ MaxCalls \in Nat
    /\ 2 * (COLUMNS * LINES) < UINT
    /\ Calls \in Seq(Seq(Items))
    /\ \A i \in DOMAIN Calls : \A j \in DOMAIN Calls[i] : Printable(Calls[i][j])

T_CYAN == 3
T_WHITE == 15

VARIABLES cell,    \* the video memory: position -> character and colour
          text_x, text_y,
          current_color,
          setup,
          asked,   \* number of calls so far (bounded by MaxCalls)
          out,     \* what the running kprintf has still to put
          due,     \* what its caller means and is not typed yet
          page     \* an endless page of lines, typed on from column col of the last

console_vars == <<cell, text_x, text_y, current_color, setup, asked, out, due, page>>

Cells == 0 .. LINES * COLUMNS - 1
BlankLine == [x \in 0 .. COLUMNS - 1 |-> NUL]

\* The screen shows the boot loader's text; kprintf has not been called.
ConsoleInit ==
    /\ cell = [n \in Cells |-> [ch |-> 63, color |-> NUL]]
    /\ text_x = 0 /\ text_y = 0
    /\ current_color = 0
    /\ setup = FALSE
    /\ asked = 0 /\ out = <<>>
    /\ due = <<>> /\ page = [lines |-> <<BlankLine>>, col |-> 0]

-----------------------------------------------------------------------------
(* libc/string.c                                                           *)

nchar(x) == IF x < 10 THEN ZERO + x ELSE 97 + x - 10

atoi(s) ==
    LET value[n \in 0 .. Len(s)] ==
          IF n = 0 THEN 0 ELSE 10 * value[n - 1] + (s[n] - ZERO)
    IN  value[Len(s)]

AtLeastOne(pad) == IF pad < 1 THEN 1 ELSE pad

\* The digits of x, lowest first, as utoa fills its buffer.
LowDigits[x \in 0 .. UINT - 1] ==
    IF x = 0 THEN <<>> ELSE <<nchar(x % 10)>> \o LowDigits[x \div 10]

Zeros(n) == [i \in 1 .. n |-> ZERO]

utoa(x, pad) ==
    LET digits == LowDigits[x]
    IN  Reverse(digits \o Zeros(AtLeastOne(pad) - Len(digits)))

\* A negative number (in the upper half of UINT) loses its sign.
itoa(x, pad) == utoa(IF x >= UINT \div 2 THEN UINT - x ELSE x, pad)

\* x >> 4 * n
Shifted(x, n) ==
    LET shift[i \in 0 .. Nibbles] == IF i = 0 THEN x ELSE shift[i - 1] \div 16
    IN  shift[n]

Nibble(x, i) == Shifted(x, i) % 16

\* The first nibble that is not zero or lies within the padding.
Leading(x, pad) ==
    CHOOSE i \in 0 .. Nibbles - 1 :
       /\ Nibble(x, i) # 0 \/ i < AtLeastOne(pad)
       /\ \A j \in i + 1 .. Nibbles - 1 : Nibble(x, j) = 0 /\ j >= AtLeastOne(pad)

xtoa(x, pad) ==
    LET first == Leading(x, pad)
    IN  [i \in 1 .. first + 1 |-> nchar(Nibble(x, (first + 1) - i))]

-----------------------------------------------------------------------------
(* kernel/kprintf.c                                                        *)

\* The size as it is printed and its unit: 'B', 'K', 'M' or 'G'.
scale(sz) ==
    IF sz < 10 * Kilo THEN [sz |-> sz, unit |-> 66]
    ELSE IF sz < 10 * (Kilo * Kilo) THEN [sz |-> sz \div Kilo, unit |-> 75]
    ELSE IF sz < UINT - 1 THEN [sz |-> sz \div (Kilo * Kilo), unit |-> 77]
    ELSE [sz |-> sz \div (Kilo * Kilo * Kilo), unit |-> 71]

IsDigit(c) == c \in ZERO .. ZERO + 9

\* The flags of the directive at i are 'l' (108) and numbers that begin with 0.
IsFlag(fmt, i, j) == \/ fmt[j] \in {ZERO, 108}
                     \/ IsDigit(fmt[j]) /\ j > i + 1 /\ IsDigit(fmt[j - 1])

FlagsEnd(fmt, i) ==
    CHOOSE j \in i + 1 .. Len(fmt) + 1 :
       /\ j <= Len(fmt) => ~IsFlag(fmt, i, j)
       /\ \A k \in i + 1 .. j - 1 : IsFlag(fmt, i, k)

\* The first and the last position of the last number among the positions digits.
LastOf(digits) == CHOOSE j \in digits : \A k \in digits : k <= j
BeginOf(digits) ==
    CHOOSE j \in digits : j .. LastOf(digits) \subseteq digits /\ j - 1 \notin digits

\* end is where the conversion stands, padding the last number.
get_flags(i, fmt) ==
    LET end == FlagsEnd(fmt, i)
        digits == {j \in i + 1 .. end - 1 : IsDigit(fmt[j])}
    IN  [end |-> end,
         padding |-> IF digits = {} THEN 1
                     ELSE atoi(SubSeq(fmt, BeginOf(digits), LastOf(digits)))]

\* What the directive c puts for argument a: %% %d %u %s %c %p %x %S; nothing
\* for any other character.
Converted(c, a, padding) ==
    CASE c = PERCENT -> <<PERCENT>>
      [] c = 100 -> itoa(a.value, padding)
      [] c = 117 -> utoa(a.value, padding)
      [] c = 115 -> a.text
      [] c = 99  -> <<a.value % 256>>
      [] c = 112 -> <<ZERO, 120>> \o xtoa(a.value, Nibbles)
      [] c = 120 -> xtoa(a.value, padding)
      [] c = 83  -> Append(utoa(scale(a.value).sz, padding), scale(a.value).unit)
      [] OTHER   -> <<>>

TakesArgument(c) == c \in {100, 117, 115, 99, 112, 120, 83}

\* One iteration of the loop over the format: at i, with the next argument k
\* and what has been put so far.
do_kprintf_char(s, fmt, args) ==
    IF s.i > Len(fmt) THEN s
    ELSE IF fmt[s.i] # PERCENT THEN [i |-> s.i + 1, k |-> s.k, put |-> Append(s.put, fmt[s.i])]
    ELSE LET flags == get_flags(s.i, fmt)
             c == IF flags.end > Len(fmt) THEN NUL ELSE fmt[flags.end]
         IN  [i |-> flags.end + 1,
              k |-> IF TakesArgument(c) THEN s.k + 1 ELSE s.k,
              put |-> s.put \o Converted(c, args[s.k], flags.padding)]

do_kprintf(fmt, args) ==
    LET loop[n \in 0 .. Len(fmt)] ==
          IF n = 0 THEN [i |-> 1, k |-> 1, put |-> <<>>]
          ELSE do_kprintf_char(loop[n - 1], fmt, args)
    IN  loop[Len(fmt)].put

\* What a caller writes for an item, and the argument it passes.
Format(item) ==
    IF item.conv = 0 THEN item.text
    ELSE <<PERCENT>> \o (IF item.pad = 0 THEN <<>> ELSE <<ZERO, ZERO + item.pad>>) \o <<item.conv>>

Passed(item) == IF TakesArgument(item.conv) THEN <<item>> ELSE <<>>

\* Positional notation: zeros up to the width, then the digits.
Digit == <<48, 49, 50, 51, 52, 53, 54, 55, 56, 57, 97, 98, 99, 100, 101, 102>>
Numeral(n, base, width) ==
    LET digits[m \in 0 .. UINT - 1] ==
          IF m = 0 THEN <<>> ELSE Append(digits[m \div base], Digit[(m % base) + 1])
    IN  Zeros(AtLeastOne(width) - Len(digits[n])) \o digits[n]

\* What an item should read as: numbers in positional notation with their
\* sign, sizes in the largest unit of which there are ten.
Units == [u \in {1, Kilo, Kilo * Kilo} |-> IF u = 1 THEN 66 ELSE IF u = Kilo THEN 75 ELSE 77]
Unit(n) == CHOOSE u \in DOMAIN Units : /\ u = 1 \/ n >= 10 * u
                                       /\ \A w \in DOMAIN Units : w > u => n < 10 * w
Meaning(item) ==
    LET n == item.value
        negative == n >= UINT \div 2
    IN  CASE item.conv \in {0, 115} -> item.text
          [] item.conv = PERCENT -> <<PERCENT>>
          [] item.conv = 99  -> <<n>>
          [] item.conv = 100 -> (IF negative THEN <<45>> ELSE <<>>)
                                \o Numeral(IF negative THEN UINT - n ELSE n, 10, item.pad)
          [] item.conv = 117 -> Numeral(n, 10, item.pad)
          [] item.conv = 120 -> Numeral(n, 16, item.pad)
          [] item.conv = 112 -> <<ZERO, 120>> \o Numeral(n, 16, Nibbles)
          [] item.conv = 83  -> Append(Numeral(n \div Unit(n), 10, item.pad), Units[Unit(n)])

kprintf ==
    /\ out = <<>>
    /\ asked < MaxCalls
    /\ \E call \in DOMAIN Calls :
          LET items == Calls[call]
          IN  /\ out' = do_kprintf(FlattenSeq([i \in DOMAIN items |-> Format(items[i])]),
                                   FlattenSeq([i \in DOMAIN items |-> Passed(items[i])]))
              /\ due' = FlattenSeq([i \in DOMAIN items |-> Meaning(items[i])])
    /\ asked' = asked + 1
    /\ UNCHANGED <<cell, text_x, text_y, current_color, setup, page>>

-----------------------------------------------------------------------------
(* drivers/vga.c                                                           *)

get_color(text, background) == text + background * 16

\* text_clear
Cleared == [n \in Cells |-> [ch |-> NUL, color |-> get_color(T_WHITE, 0)]]

\* Called by iosetup, and by vga_write if nobody has before.
init_vga ==
    /\ ~setup
    /\ cell' = Cleared
    /\ text_x' = 0 /\ text_y' = 0
    /\ setup' = TRUE
    /\ current_color' = get_color(T_CYAN, 0)
    /\ UNCHANGED <<asked, out, due, page>>

\* A screen s is the memory with the cursor; the cursor's address wraps with
\* the unsigned arithmetic, and what is stored outside of the screen is lost.
Address(s) == (s.y * COLUMNS + s.x) % (UINT \div 2)
Drawn(s, n, c) == IF n \in Cells THEN [s EXCEPT !.cell[n].ch = c] ELSE s
Colored(s, n) == IF n \in Cells THEN [s EXCEPT !.cell[n].color = current_color] ELSE s

Filled(s, c) == [Colored(Drawn(s, Address(s), c), Address(s)) EXCEPT !.x = @ + 1]

\* '\b' clears the cell at the cursor and colours the one before.
Erased(s) == [Colored(Drawn(s, Address(s), NUL), Address(s) - 1) EXCEPT !.x = (@ - 1) % UINT]

\* Mutant: the last line is not cleared.
Scrolled_kept(s) ==
    [n \in Cells |-> IF n + COLUMNS \in Cells THEN s.cell[n + COLUMNS] ELSE s.cell[n]]

\* All lines move up, the last one is cleared.
Scrolled(s) ==
    [n \in Cells |-> IF n + COLUMNS \in Cells THEN s.cell[n + COLUMNS]
                     ELSE [ch |-> NUL, color |-> current_color]]

NewLine(s) ==
    IF s.y = LINES - 1 THEN [s EXCEPT !.x = 0, !.cell = Scrolled(s)]
    ELSE [s EXCEPT !.x = 0, !.y = @ + 1]

\* The default case of text_putc: behind the last column a line ends first.
Put(s, c) == IF s.x = COLUMNS THEN Filled(NewLine(s), c) ELSE Filled(s, c)

Screen == [cell |-> cell, x |-> text_x, y |-> text_y]

PutAny(c) ==
    CASE c = BS  -> Erased(Screen)
      [] c = NL  -> NewLine(Screen)
      [] c = CR  -> [Screen EXCEPT !.x = 0]
      [] c = TAB -> Put(Put(Put(Put(Screen, NUL), NUL), NUL), NUL)
      [] OTHER   -> Put(Screen, c)

\* The page p with the character c typed on.
OnNewLine(p) == [lines |-> Append(p.lines, BlankLine), col |-> 0]
Type(p, c) ==
    LET q == IF p.col = COLUMNS THEN OnNewLine(p) ELSE p
    IN  [lines |-> [q.lines EXCEPT ![Len(q.lines)][q.col] = c], col |-> q.col + 1]
Typed(p, c) ==
    CASE c = NL  -> OnNewLine(p)
      [] c = CR  -> [p EXCEPT !.col = 0]
      [] c = TAB -> Type(Type(Type(Type(p, NUL), NUL), NUL), NUL)
      [] c = BS  -> [Type([p EXCEPT !.col = @ - 1], NUL) EXCEPT !.col = @ - 1]
      [] OTHER   -> Type(p, c)

text_putc ==
    /\ setup
    /\ out # <<>>
    /\ out' = Tail(out)
    /\ LET s == PutAny(Head(out))
       IN  cell' = s.cell /\ text_x' = s.x /\ text_y' = s.y
    /\ due' = Tail(due) /\ page' = Typed(page, Head(due))
    /\ UNCHANGED <<current_color, setup, asked>>

ConsoleNext == kprintf \/ init_vga \/ text_putc

ConsoleSpec == ConsoleInit /\ [][ConsoleNext]_console_vars

-----------------------------------------------------------------------------
(* Properties                                                              *)

Chars == 0 .. 255

\* Types of the variables; the cursor stays on the screen, or right behind a line.
ConsoleTypeOK ==
    /\ cell \in [Cells -> [ch : Chars, color : Chars]]
    /\ text_x \in 0 .. COLUMNS
    /\ text_y \in 0 .. LINES - 1
    /\ current_color \in Chars
    /\ setup \in BOOLEAN
    /\ asked \in 0 .. MaxCalls
    /\ out \in Seq(Chars) /\ due \in Seq(Chars)
    /\ page \in [lines : Seq([0 .. COLUMNS - 1 -> Chars]), col : 0 .. COLUMNS]

\* kprintf puts what its callers mean, and the screen shows the end of the page
\* on which that is typed: no conversion, line break or scrolling loses, moves
\* or keeps a character, and everything printed is in the console's colour.
ScreenShows ==
    LET lines == page.lines
        first == IF Len(lines) > LINES THEN Len(lines) - LINES + 1 ELSE 1
        Shown(x, y) == IF first + y <= Len(lines) THEN lines[first + y][x] ELSE NUL
    IN  /\ ConsoleTypeOK
        /\ out = due
        /\ setup =>
              /\ \A x \in 0 .. COLUMNS - 1, y \in 0 .. LINES - 1 :
                    LET c == cell[y * COLUMNS + x]
                    IN  /\ c.ch = Shown(x, y)
                        /\ c.ch # NUL => c.color = current_color
              /\ text_x = page.col
              /\ first + text_y = Len(lines)
=============================================================================
